--------------------------------- MODULE Geo ---------------------------------
(***************************************************************************)
(* Positions and the queries about them: lib/orionTypes/areas.cpp,         *)
(* Scope::fill() of lib/ngsi/Scope.cpp, getGeoJson() of                    *)
(* lib/mongoBackend/location.cpp and the area scopes of                    *)
(* lib/mongoBackend/MongoGlobal.cpp.                                       *)
(*                                                                         *)
(* A point is <<latitude, longitude>>, on a small grid.  A geometry, a     *)
(* georel and a list of coordinates are the sequences of the items that    *)
(* their semicolons separate: an item is [word, n], n being the number     *)
(* after its colon; coordinates are sequences of numbers, NotANumber for   *)
(* what str2double() refuses.  A GeoJSON object has its longitudes first.  *)
(***************************************************************************)
EXTENDS Integers, FiniteSets, Sequences

NotANumber == -1000

GEO_POINT == "geo:point"
GEO_LINE == "geo:line"
GEO_BOX == "geo:box"
GEO_POLYGON == "geo:polygon"

NoGeo == [type |-> "none", coordinates |-> <<>>]
GeoJson(type, points) == [type |-> type, coordinates |-> [i \in DOMAIN points |-> <<points[i][2], points[i][1]>>]]

(***************************************************************************)
(* Boxes.  The corners come in any order: [ok, minLat, maxLat, minLon,     *)
(* maxLon].                                                                *)
(***************************************************************************)
orderCoordsForBox(p1, p2) ==
  LET least(a, b) == IF a < b THEN a ELSE b
      most(a, b) == IF a > b THEN a ELSE b
  IN  [ok |-> p1[1] # p2[1] /\ p1[2] # p2[2],
       minLat |-> least(p1[1], p2[1]), maxLat |-> most(p1[1], p2[1]),
       minLon |-> least(p1[2], p2[2]), maxLon |-> most(p1[2], p2[2])]

\* The polygon of a stored box goes up first, that of a box in a query to the right first.
StoredBox(b) ==
  GeoJson("Polygon", <<<<b.minLat, b.minLon>>, <<b.maxLat, b.minLon>>, <<b.maxLat, b.maxLon>>,
                       <<b.minLat, b.maxLon>>, <<b.minLat, b.minLon>>>>)
QueriedBox(b) ==
  GeoJson("Polygon", <<<<b.minLat, b.minLon>>, <<b.minLat, b.maxLon>>, <<b.maxLat, b.maxLon>>,
                       <<b.maxLat, b.minLon>>, <<b.minLat, b.minLon>>>>)

\* The position of an attribute of this type, from the points of its value
ShapeOf(type, points) ==
  LET n == Len(points)
  IN  CASE type = GEO_BOX -> IF n = 2 /\ orderCoordsForBox(points[1], points[2]).ok
                             THEN StoredBox(orderCoordsForBox(points[1], points[2])) ELSE NoGeo
        [] type = GEO_LINE -> IF n >= 2 THEN GeoJson("LineString", points) ELSE NoGeo
        [] type = GEO_POLYGON -> IF n >= 4 /\ points[1] = points[n] THEN GeoJson("Polygon", points) ELSE NoGeo
        [] OTHER -> NoGeo

(***************************************************************************)
(* What the parameters of a query say                                      *)
(***************************************************************************)
With(items, words) == SelectSeq(items, LAMBDA i : i.word \in words)
WordOf(items) == IF items = <<>> THEN "" ELSE items[1].word
NumberOf(items) == IF items = <<>> THEN -1 ELSE items[Len(items)].n

AreaTypes(api) == IF api = "v1" THEN {"polygon", "circle"} ELSE {"point", "line", "box", "polygon"}

\* A radius that is not a number is 0; one may be given to a point, a line or a box.
GeometryParse(api, items) ==
  LET named == With(items, AreaTypes(api))
      radii == With(items, {"radius"})
  IN  [ok |-> /\ items # <<>> /\ Len(named) <= 1
              /\ \A i \in DOMAIN items : items[i].word \in AreaTypes(api) \cup {"radius", "external"}
              /\ \A i \in DOMAIN radii : radii[i].n # 0
              /\ WordOf(named) = "circle" => NumberOf(radii) # -1
              /\ WordOf(named) = "polygon" => NumberOf(radii) = -1,
       areaType |-> WordOf(named), radius |-> NumberOf(radii), external |-> With(items, {"external"}) # <<>>]

GeorelTypes == {"near", "coveredBy", "intersects", "equals", "disjoint"}

GeorelParse(items) ==
  LET named == With(items, GeorelTypes)
      most == With(items, {"maxDistance"})
      least == With(items, {"minDistance"})
  IN  [ok |-> /\ Len(named) <= 1 /\ Len(most) <= 1 /\ Len(least) <= 1
              /\ \A i \in DOMAIN items : items[i].word \in GeorelTypes \cup {"maxDistance", "minDistance"} /\ items[i].n # NotANumber
              /\ (WordOf(named) = "near") = (most # <<>> \/ least # <<>>),
       type |-> WordOf(named), maxDistance |-> NumberOf(most), minDistance |-> NumberOf(least)]

\* No georel is not parsed; then the distances are those of the constructor.
NoGeorel == [ok |-> TRUE, type |-> "", maxDistance |-> 0, minDistance |-> 0]

NoArea == [ok |-> FALSE, api |-> "", areaType |-> "", points |-> <<>>, radius |-> -1, inverted |-> FALSE, georel |-> NoGeorel]

\* The combinations that MongoDB does not support
Incompatible(areaType, type) ==
  \/ areaType \in {"line", "point"} /\ type = "coveredBy"
  \/ areaType # "point" /\ type = "near"

\* The coordinates of a point
PointsParse(coords) == \A i \in DOMAIN coords : Len(coords[i]) = 2 /\ NotANumber \notin {coords[i][1], coords[i][2]}

EnoughPoints(api, areaType, points) ==
  LET n == Len(points)
  IN  CASE areaType = "circle" -> n = 1
        [] areaType = "polygon" -> IF api = "v1" THEN n >= 3 ELSE n >= 4 /\ points[1] = points[n]
        [] areaType = "line" -> n >= 2
        [] areaType = "box" -> n = 2 /\ orderCoordsForBox(points[1], points[2]).ok
        [] areaType = "point" -> n = 1
        [] OTHER -> FALSE

\* Scope::fill(): the scope, or NoArea when the parameters are refused
ScopeFill(api, geometry, coords, georel) ==
  LET geo == GeometryParse(api, geometry)
      rel == IF georel = <<>> THEN NoGeorel ELSE GeorelParse(georel)
  IN  IF /\ geo.ok /\ rel.ok /\ ~Incompatible(geo.areaType, rel.type)
         /\ coords # <<>> /\ PointsParse(coords) /\ EnoughPoints(api, geo.areaType, coords)
      THEN [ok |-> TRUE, api |-> api, areaType |-> geo.areaType, points |-> coords,
            radius |-> geo.radius, inverted |-> geo.external, georel |-> rel]
      ELSE NoArea

(***************************************************************************)
(* The area queries: [op, geometry, least, most]; "none" is no query.      *)
(***************************************************************************)
AreaQuery(op, geometry, least, most) == [op |-> op, geometry |-> geometry, least |-> least, most |-> most]
NoQuery == AreaQuery("none", NoGeo, -1, -1)

\* NGSIv1: the polygon is closed; an inverted area wants the entities with a position outside of it.
processAreaScope(scope) ==
  CASE scope.areaType = "circle" ->
         AreaQuery(IF scope.inverted THEN "outsideSphere" ELSE "centerSphere", GeoJson("Point", scope.points), -1, scope.radius)
    [] scope.areaType = "polygon" ->
         AreaQuery(IF scope.inverted THEN "notWithin" ELSE "geoWithin", GeoJson("Polygon", Append(scope.points, scope.points[1])), -1, -1)
    [] OTHER -> NoQuery

\* NGSIv2: without a georel there is no query, and every entity is found.
processAreaScopeV2(scope) ==
  LET geometry == CASE scope.areaType = "point" -> GeoJson("Point", scope.points)
                    [] scope.areaType = "line" -> GeoJson("LineString", scope.points)
                    [] scope.areaType = "box" -> QueriedBox(orderCoordsForBox(scope.points[1], scope.points[2]))
                    [] scope.areaType = "polygon" -> GeoJson("Polygon", scope.points)
      rel == scope.georel
  IN  CASE rel.type = "near" -> AreaQuery("near", geometry, rel.minDistance, rel.maxDistance)
        [] rel.type = "coveredBy" -> AreaQuery("geoWithin", geometry, -1, -1)
        [] rel.type = "intersects" -> AreaQuery("geoIntersects", geometry, -1, -1)
        [] rel.type = "disjoint" -> AreaQuery("notIntersects", geometry, -1, -1)
        [] rel.type = "equals" -> AreaQuery("equals", geometry, -1, -1)
        [] OTHER -> NoQuery

(***************************************************************************)
(* What MongoDB finds.  A shape stands for the grid points between its     *)
(* extremes, which is what it covers if it is a point, a line or a polygon *)
(* along the axes; the distance is that of the larger difference.          *)
(***************************************************************************)
Extent(points, axis) ==
  LET values == {points[i][axis] : i \in DOMAIN points}
  IN  (CHOOSE m \in values : \A w \in values : m <= w)..(CHOOSE m \in values : \A w \in values : w <= m)
Covers(points) == Extent(points, 1) \X Extent(points, 2)

Apart(p, q) ==
  LET abs(n) == IF n < 0 THEN -n ELSE n
  IN  IF abs(p[1] - q[1]) < abs(p[2] - q[2]) THEN abs(p[2] - q[2]) ELSE abs(p[1] - q[1])
Reaches(S, T, distance) == \E p \in S, q \in T : Apart(p, q) <= distance

\* Whether the position geo (NoGeo: the field is not there) is one that the query finds
geoMatches(query, geo) ==
  LET S == Covers(geo.coordinates)
      T == Covers(query.geometry.coordinates)
  IN  query.op = "none" \/
      /\ geo # NoGeo
      /\ CASE query.op = "near" -> /\ query.most >= 0 => Reaches(S, T, query.most)
                                   /\ query.least > 0 => ~Reaches(S, T, query.least - 1)
           [] query.op = "centerSphere" -> \A p \in S : Reaches({p}, T, query.most)
           [] query.op = "outsideSphere" -> ~\A p \in S : Reaches({p}, T, query.most)
           [] query.op = "geoWithin" -> S \subseteq T
           [] query.op = "notWithin" -> ~(S \subseteq T)
           [] query.op = "geoIntersects" -> S \cap T # {}
           [] query.op = "notIntersects" -> S \cap T = {}
           [] query.op = "equals" -> geo = query.geometry

=============================================================================
