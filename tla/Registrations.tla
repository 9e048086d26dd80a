--------------------------- MODULE Registrations ----------------------------
(***************************************************************************)
(* Which registrations a lookup finds and what it takes from them: the     *)
(* query of registrationsQuery() and processContextRegistrationElement()   *)
(* of mongoBackend/MongoGlobal.cpp, with matchEntity().  Discovery,        *)
(* availability subscriptions, updates and queries all go through them.    *)
(*                                                                         *)
(* A registration is a record [entities, attrs, app]: a set of entities    *)
(* [id, type] (type "" when it has none), a set of attribute names (empty: *)
(* the whole entity, "E-<null>") and the providing application.  A request *)
(* entity is [id, type, isPattern].                                        *)
(***************************************************************************)
EXTENDS Naturals, FiniteSets, Sequences

(***************************************************************************)
(* A pattern is read by three engines, which do not agree on every one:    *)
(* "pcre", MongoDB's queries; "js", JavaScript inside MongoDB; and         *)
(* "posix", regcomp() without REG_EXTENDED, which matches nothing when it  *)
(* refuses the pattern.  A query with a pattern that MongoDB refuses fails *)
(* as a whole, like any other.                                             *)
(***************************************************************************)
CONSTANT Regexps   \* <<engine, p, id>>: to that engine the pattern p matches the entity id

ASSUME RegexpsAssumption == \A m \in Regexps : m = <<m[1], m[2], m[3]>> /\ m[1] \in {"pcre", "js", "posix"}

idMatches(engine, en, id) == IF en.isPattern THEN <<engine, en.id, id>> \in Regexps ELSE en.id = id
Elements(s) == {s[i] : i \in DOMAIN s}

matchEntity(en1, en2) ==
  /\ idMatches("posix", en2, en1.id)
  /\ en1.type = "" \/ en2.type \in {"", en1.type}

\* The database query, about all the entities and attributes of a document: an
\* entity with a type is looked up with that type, but the pattern and the type
\* of one may be met by different entities.
selected(entities, attrs, ens, attrL) ==
  /\ \E en \in ens :
       \/ ~en.isPattern /\ \E re \in entities : re.id = en.id /\ en.type \in {"", re.type}
       \/ /\ en.isPattern /\ \E re \in entities : idMatches("pcre", en, re.id)
          /\ en.type = "" \/ \E re \in entities : re.type = en.type
  /\ attrL = {} \/ attrs \cap attrL # {}

processContextRegistrationElement(reg, ens, attrL) ==
  [entities |-> {re \in reg.entities : \E en \in ens : matchEntity(re, en)},
   attrs    |-> IF attrL = {} THEN reg.attrs ELSE reg.attrs \cap attrL,
   app      |-> reg.app]
=============================================================================
