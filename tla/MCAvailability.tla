--------------------------- MODULE MCAvailability ---------------------------
(***************************************************************************)
(* Availability with registrations of one or two parts and subscriptions   *)
(* to ids, to patterns and without types, as the service routines hand     *)
(* them on.                                                                *)
(***************************************************************************)
EXTENDS Availability, AvailabilityRoutines, TLC

\* "^E" is read alike by all; "E|F" is a literal to regcomp(), and a class of
\* characters is one letter of its name to JavaScript.
MCRegexps ==
  {<<engine, "^E", "E">> : engine \in {"pcre", "js", "posix"}}
  \cup {<<engine, "E|F", id>> : engine \in {"pcre", "js"}, id \in {"E", "F"}}
  \cup {<<engine, "[[:alpha:]]", id>> : engine \in {"pcre", "posix"}, id \in {"E", "F"}}

En(id, type) == [id |-> id, type |-> type]
Sub(id, type, isPattern) == [id |-> id, type |-> type, isPattern |-> isPattern]
Part(ens, attrs, app) == [entities |-> ens, attrs |-> attrs, app |-> app]

PartsSets == {<<Part({En("E", "T")}, {"A"}, "p1")>>,
              <<Part({En("E", "T"), En("F", "")}, {"A", "B"}, "p1"), Part({En("F", "T")}, {}, "p2")>>}

Rest(route, url, payload) == [route |-> route, url |-> url, paths |-> <<"/a">>, type |-> "", notExist |-> FALSE, payload |-> payload]
Url(id, type, attr) == [id |-> id, type |-> type, attr |-> attr]
Nowhere == Url("", "", "")

Registration(id, parts, duration) == [id |-> id, parts |-> parts, duration |-> duration]
Provider(id, app, duration) == [id |-> id, app |-> app, duration |-> duration]
Subscription(id, entities, attrs, duration) == [id |-> id, entities |-> entities, attrs |-> attrs, duration |-> duration]

EntityLists == {<<Sub("E", "T", FALSE)>>, <<Sub("F", "T", FALSE), Sub("^E", "T", TRUE)>>, <<Sub("E", "", FALSE)>>,
                <<Sub("E|F", "T", TRUE), Sub("[[:alpha:]]", "T", TRUE)>>}

Registering ==
  {Rest("registerContext", Nowhere, Registration(0, parts, 0)) : parts \in PartsSets}
  \cup {[Rest("notifyContextAvailability", Nowhere, Registration(0, <<Part({En("E", "T")}, {"B"}, "p3")>>, 0)) EXCEPT !.paths = paths] :
          paths \in {<<>>, <<"/#">>}}
  \cup {[Rest("contextEntities/type/{type}/id/{id}/attributes/{name}", Url("F", "T", "B"), Provider(2, "p1", 1)) EXCEPT
            !.paths = <<"/b">>, !.type = type, !.notExist = notExist] : type \in {"T", "U"}, notExist \in BOOLEAN}
  \cup {[Rest("contextEntities/type/{type}/id/{id}", Url("E", "T", ""), Provider(1, "p2", 0)) EXCEPT !.type = type] : type \in {"", "U"}}
  \cup {[Rest("contextEntityTypes/{type}/attributes/{name}", Url("", "T", "B"), Provider(0, "p2", 0)) EXCEPT !.paths = paths] :
          paths \in {<<"/a">>, <<"/a", "/b">>}}
  \cup {Rest("contextEntityTypes/{type}", Url("", "T", ""), Provider(0, "p2", 0)),
        Rest("contextEntities/{id}", Url("E", "", ""), Provider(0, "p2", 0)),
        Rest("contextEntities/{id}/attributes", Url("E", "", ""), Provider(0, "p2", 0)),
        Rest("contextEntities/{id}/attributes/{name}", Url("E", "", "B"), Provider(0, "p2", 0))}

Subscribing ==
  {Rest("subscribeContextAvailability", Nowhere, Subscription(0, ens, {"B"}, 0)) : ens \in EntityLists}
  \cup {Rest("contextAvailabilitySubscriptions", Nowhere, Subscription(0, <<Sub("E", "T", FALSE)>>, {}, 0)),
        Rest("updateContextAvailabilitySubscription", Nowhere, Subscription(1, <<Sub("E", "T", FALSE)>>, {"A"}, 0)),
        Rest("unsubscribeContextAvailability", Nowhere, [id |-> 1])}
  \cup {Rest("PUT contextAvailabilitySubscriptions/{id}", Url(id, "", ""), Subscription(1, <<Sub("E", "T", FALSE)>>, {"A"}, 1)) : id \in {1, 2}}
  \cup {Rest("DELETE contextAvailabilitySubscriptions/{id}", Url(2, "", ""), "")}

MCRequests == UNION {serviceRoutine(r) : r \in Registering \cup Subscribing}

MCConfigurations == {[policy |-> "all", dbFails |-> FALSE], [policy |-> "write", dbFails |-> TRUE],
                     [policy |-> "none", dbFails |-> FALSE]}

ThreadSymmetry == Permutations(Threads)
=============================================================================
