---------------------------- MODULE StringFilter ----------------------------
(***************************************************************************)
(* The simple query language of lib/rest/StringFilter.cpp: how a q is      *)
(* parsed, how it is translated for MongoDB (queries, and the initial      *)
(* notification of a subscription), and how match() evaluates it in the    *)
(* broker (the notifications of cached subscriptions).                     *)
(*                                                                         *)
(* The text of a q is a sequence of items [lhs, op, shape, rhs] whose      *)
(* right-hand side is a sequence of tokens: one for a value, the items of  *)
(* a list, the two ends of a range.  Strings are ranks in the order of     *)
(* strcmp(): the words from 0 on (0 is the empty one), each a part of the  *)
(* next, and below 0 the texts of the numbers.  Two of the words mean      *)
(* something of their own as patterns.                                     *)
(***************************************************************************)
EXTENDS Integers, Sequences, SequencesExt

NumberText(n) == n - 10
EmptyWord == 0
Alternation == 3   \* the word 2, a bar and another letter
OpenGroup == 4     \* and then a backslash and a parenthesis
Invalid == [ok |-> FALSE]

Comparisons == {">", ">=", "<", "<="}

-----------------------------------------------------------------------------
(* Parsing                                                                 *)

\* What valueGet() makes of a token: a number, a date (a number, too), true or
\* false, null, or else a string; a quoted token is a string in any case.
valueGet(token) ==
  IF token.quoted
  THEN [ok |-> token.terminated, vt |-> "String",
        v |-> IF token.kind = "Number" THEN NumberText(token.v) ELSE token.v]
  ELSE [ok |-> TRUE, vt |-> token.kind, v |-> token.v]

\* regcomp() with no flags: basic regular expressions, where \( opens a group.
regcomp(p) == p # OpenGroup

\* valueParse(): the pattern of ~= is compiled from stringValue, which only a
\* string sets, and refused if regcomp() does not take it.
valueParse(op, token) ==
  LET g == valueGet(token)
      pattern == IF g.vt = "String" THEN g.v ELSE EmptyWord
  IN  [ok |-> /\ g.ok /\ g.vt # "empty"
              /\ op \in Comparisons => g.vt \in {"Number", "Date", "String"}
              /\ op = "~=" => regcomp(pattern),
       vt |-> g.vt, v |-> g.v, pattern |-> pattern]

rangeParse(op, tokens) ==
  LET from == valueGet(tokens[1])
      to == valueGet(tokens[2])
      good == /\ op \in {"==", "!="}
              /\ \A i \in 1..2 : tokens[i].kind # "empty"
              /\ from.ok /\ from.vt \in {"String", "Number", "Date"}
              /\ to.ok /\ to.vt = from.vt
  IN  IF good THEN [ok |-> TRUE, vt |-> from.vt \o "Range", v |-> <<from.v, to.v>>, pattern |-> EmptyWord]
      ELSE Invalid

\* listParse() takes the quotes of an item away before listItemAdd() asks for
\* its type.
listParse(op, tokens) ==
  LET items == [i \in 1..Len(tokens) |-> valueGet([tokens[i] EXCEPT !.quoted = FALSE])]
      good == /\ op \in {"==", "!="}
              /\ \A i \in 1..Len(tokens) : /\ items[i].vt \in {"String", "Number", "Date"}
                                           /\ items[i].vt = items[1].vt
                                           /\ items[i].vt = "String" => items[i].v # EmptyWord
  IN  IF good THEN [ok |-> TRUE, vt |-> items[1].vt \o "List", v |-> [i \in DOMAIN items |-> items[i].v],
                    pattern |-> EmptyWord]
      ELSE Invalid

parseItem(text) ==
  LET op == IF text.op = ":" THEN "==" ELSE text.op
      value == CASE text.shape = "range" -> rangeParse(op, text.rhs)
                 [] text.shape = "list" -> listParse(op, text.rhs)
                 [] OTHER -> valueParse(op, text.rhs[1])
  IN  CASE op = "exists" -> [ok |-> text.name \notin {"", "forbidden"}, left |-> text.name, op |-> op,
                             attributeName |-> text.name, vt |-> "None", v |-> 0, pattern |-> EmptyWord]
        [] op = "!" -> [ok |-> text.name # "", left |-> "", op |-> op,
                        attributeName |-> text.name, vt |-> "None", v |-> 0, pattern |-> EmptyWord]
        [] OTHER -> IF text.name \in {"", "forbidden"} \/ ~value.ok THEN Invalid
                    ELSE [ok |-> TRUE, left |-> text.name, op |-> op, attributeName |-> "",
                          vt |-> value.vt, v |-> value.v, pattern |-> value.pattern]

-----------------------------------------------------------------------------
(* The translation for MongoDB                                             *)

KeyOf(item) ==
  CASE item.op \in {"exists", "!"} -> [field |-> "attrs", name |-> item.attributeName]
    [] item.left \in {"dateCreated", "dateModified"} -> [field |-> item.left, name |-> ""]
    [] OTHER -> [field |-> "attrs.value", name |-> item.left]

BaseType(vt) ==
  CASE vt \in {"Number", "Date", "NumberRange", "DateRange", "NumberList", "DateList"} -> "number"
    [] vt \in {"String", "StringRange", "StringList"} -> "string"
    [] vt = "Bool" -> "bool"
    [] OTHER -> "null"

Typed(item, x) == [t |-> BaseType(item.vt), v |-> x]
Operands(item) == IF item.vt \in {"NumberList", "DateList", "StringList"}
                  THEN {Typed(item, item.v[i]) : i \in DOMAIN item.v}
                  ELSE {Typed(item, item.v)}
IsRange(item) == item.vt \in {"NumberRange", "DateRange", "StringRange"}
Between(item) == {[op |-> "$gte", arg |-> Typed(item, item.v[1])], [op |-> "$lte", arg |-> Typed(item, item.v[2])]}
MustExist == [op |-> "$exists", arg |-> TRUE]

\* SfopEquals of mongoFilterPopulate()
EqualsConditions(item) ==
  CASE IsRange(item) -> Between(item)
    [] item.vt \in {"Bool", "Number", "Date"} -> {MustExist, [op |-> "$in", arg |-> Operands(item)]}
    [] OTHER -> {[op |-> "$in", arg |-> Operands(item)]}

\* Mutant: a missing attribute differs from everything.
DiffersWithoutExists(item) ==
  IF IsRange(item) THEN {[op |-> "$not", arg |-> Between(item)]}
  ELSE {[op |-> "$nin", arg |-> Operands(item)]}

\* SfopDiffers of mongoFilterPopulate()
DiffersConditions(item) ==
  {MustExist, IF IsRange(item) THEN [op |-> "$not", arg |-> Between(item)]
              ELSE [op |-> "$nin", arg |-> Operands(item)]}

MongoOperator(op) == CASE op = ">" -> "$gt" [] op = ">=" -> "$gte" [] op = "<" -> "$lt" [] op = "<=" -> "$lte"

Conditions(item) ==
  CASE item.op = "exists" -> {MustExist}
    [] item.op = "!" -> {[op |-> "$exists", arg |-> FALSE]}
    [] item.op = "==" -> EqualsConditions(item)
    [] item.op = "!=" -> DiffersConditions(item)
    [] item.op = "~=" -> {[op |-> "$regex", arg |-> item.v]}
    [] OTHER -> {[op |-> MongoOperator(item.op), arg |-> Typed(item, item.v)]}

\* A pattern that is not a string is left out.
mongoFilterPopulate(filters) ==
  {[key |-> KeyOf(filters[i]), conditions |-> Conditions(filters[i])] :
     i \in {j \in DOMAIN filters : filters[j].op = "~=" => filters[j].vt = "String"}}

\* StringFilter::parse(): all the items are good, and null is compared with nothing.
parse(q) ==
  LET filters == [i \in DOMAIN q |-> parseItem(q[i])]
      good == /\ q # <<>>
              /\ \A i \in DOMAIN filters : filters[i].ok
              /\ \A i \in DOMAIN filters : filters[i].op \in {"==", "!="} => filters[i].vt # "Null"
  IN  IF good THEN [ok |-> TRUE, filters |-> filters, mongoFilters |-> mongoFilterPopulate(filters)]
      ELSE Invalid

\* A pattern is compiled again from the string; the other members are copied.
fillItem(item) ==
  [ok |-> item.ok, left |-> item.left, op |-> item.op, attributeName |-> item.attributeName, vt |-> item.vt,
   v |-> item.v, pattern |-> IF item.op = "~=" /\ item.vt = "String" THEN item.v ELSE item.pattern]

\* The copy of a filter that a triggered subscription keeps
clone(filter) ==
  [ok |-> TRUE, filters |-> [i \in DOMAIN filter.filters |-> fillItem(filter.filters[i])],
   mongoFilters |-> filter.mongoFilters]

-----------------------------------------------------------------------------
(* How MongoDB evaluates the conditions: a comparison holds only between   *)
(* values of the same type, and a missing field satisfies only the         *)
(* negative ones.  An entity is [attrs, creDate, modDate].                 *)

\* In the chain of words a word occurs in the ones that follow it.
OccursIn(p, s) == p \in {EmptyWord, s} \/ (0 <= p /\ p <= s)

\* The bar of a basic regular expression is a bar; in MongoDB's it is an or.
regexec(p, s) == OccursIn(p, s)
PcreMatches(p, s) == OccursIn(IF p = Alternation THEN 2 ELSE p, s)

Compare(op, x, y) == CASE op = "$gt" -> x > y [] op = "$gte" -> x >= y [] op = "$lt" -> x < y [] op = "$lte" -> x <= y

\* fields: {} or {the value}
RECURSIVE Satisfies(_, _)
Satisfies(fields, c) ==
  CASE c.op = "$exists" -> (fields # {}) = c.arg
    [] c.op = "$in" -> fields \cap c.arg # {}
    [] c.op = "$nin" -> fields \cap c.arg = {}
    [] c.op = "$not" -> ~ \A d \in c.arg : Satisfies(fields, d)
    [] c.op = "$regex" -> \E x \in fields : x.t = "string" /\ PcreMatches(c.arg, x.v)
    [] OTHER -> \E x \in fields : x.t = c.arg.t /\ x.t \in {"number", "string"} /\ Compare(c.op, x.v, c.arg.v)

FieldsOf(key, entity) ==
  CASE key.field = "dateCreated" -> {[t |-> "number", v |-> entity.creDate]}
    [] key.field = "dateModified" -> {[t |-> "number", v |-> entity.modDate]}
    [] OTHER -> {entity.attrs[a] : a \in {key.name} \cap DOMAIN entity.attrs}

MongoMatches(mongoFilters, entity) ==
  \A f \in mongoFilters : \A c \in f.conditions : Satisfies(FieldsOf(f.key, entity), c)

-----------------------------------------------------------------------------
(* StringFilter::match().  The numberValue of an attribute that is not a   *)
(* number is never set: junk is whatever it happens to be.                 *)

numberValue(ca, junk) == IF ca.t = "number" THEN ca.v ELSE junk
stringValue(ca) == IF ca.t = "string" THEN ca.v ELSE EmptyWord

\* Mutant: the upper end of a range is not part of it.
MatchEqualsOpen(item, ca, junk) ==
  LET x == IF BaseType(item.vt) = "number" THEN numberValue(ca, junk) ELSE stringValue(ca)
  IN  CASE BaseType(item.vt) \notin {"number", "string"} -> FALSE
        [] IsRange(item) -> item.v[1] <= x /\ x < item.v[2]
        [] OTHER -> [t |-> BaseType(item.vt), v |-> x] \in Operands(item)

matchEquals(item, ca, junk) ==
  LET x == IF BaseType(item.vt) = "number" THEN numberValue(ca, junk) ELSE stringValue(ca)
  IN  CASE BaseType(item.vt) \notin {"number", "string"} -> FALSE
        [] IsRange(item) -> item.v[1] <= x /\ x <= item.v[2]
        [] OTHER -> [t |-> BaseType(item.vt), v |-> x] \in Operands(item)

compatibleType(item, ca) ==
  \/ ca.t = "number" /\ item.vt \in {"Number", "Date"}
  \/ ca.t = "string" /\ item.vt = "String"

matchGreaterThan(item, ca) == compatibleType(item, ca) /\ ca.v > item.v
matchLessThan(item, ca) == compatibleType(item, ca) /\ ca.v < item.v
matchPattern(item, ca) == ca.t = "string" /\ regexec(item.pattern, ca.v)

\* The attribute an item is about: {} when the entity does not have it
AttributeOf(item, entity) ==
  FieldsOf(IF item.left \in {"dateCreated", "dateModified"} THEN [field |-> item.left, name |-> ""]
           ELSE [field |-> "attrs.value", name |-> item.left], entity)

\* One round of the loop of match()
matchItem(item, entity, junk) ==
  CASE item.op = "exists" -> item.attributeName \in DOMAIN entity.attrs
    [] item.op = "!" -> item.attributeName \notin DOMAIN entity.attrs
    [] OTHER -> \E ca \in AttributeOf(item, entity) :
                  CASE item.op = "==" -> matchEquals(item, ca, junk)
                    [] item.op = "!=" -> ~matchEquals(item, ca, junk)
                    [] item.op = ">" -> matchGreaterThan(item, ca)
                    [] item.op = "<" -> matchLessThan(item, ca)
                    [] item.op = ">=" -> ~matchLessThan(item, ca)
                    [] item.op = "<=" -> ~matchGreaterThan(item, ca)
                    [] item.op = "~=" -> matchPattern(item, ca)

\* The items are looked at in their order until one fails or is a pattern.
match(filters, entity, junk) ==
  LET ends == {i \in DOMAIN filters : filters[i].op = "~="}
      last == IF ends = {} THEN Len(filters) ELSE CHOOSE i \in ends : \A j \in ends : i <= j
  IN  \A i \in 1..last : matchItem(filters[i], entity, junk)
=============================================================================
