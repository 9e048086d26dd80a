---------------------------- MODULE FilterMeaning ----------------------------
(***************************************************************************)
(* Every q of one or two items over a few tokens, every small entity: what *)
(* the broker does with the filter against what MongoDB does with its      *)
(* translation, and both against what the API reference says of the text.  *)
(***************************************************************************)
EXTENDS StringFilter

VARIABLES
  q,        \* the text
  subject,  \* the entity it is applied to
  junk,     \* the numberValue of the attributes that are not numbers
  filter    \* what StringFilter::parse() made of q, and its copies

filterVars == <<q, subject, junk, filter>>

Token(kind, v) == [kind |-> kind, v |-> v, quoted |-> FALSE, terminated |-> TRUE]
InQuotes(token) == [token EXCEPT !.quoted = TRUE]

Plain == {Token("Number", 1), Token("Number", 2), Token("Date", 2), Token("String", 1), Token("String", 2),
          Token("Bool", 1), Token("Null", 0), Token("empty", 0)}
Forced == {InQuotes(Token("Number", 1)), InQuotes(Token("String", EmptyWord)), InQuotes(Token("String", 1))}
Unterminated == [InQuotes(Token("String", 1)) EXCEPT !.terminated = FALSE]
Tokens == Plain \cup Forced
Patterns == {Token("String", Alternation), Token("String", OpenGroup)}

Item(name, op, shape, rhs) == [name |-> name, op |-> op, shape |-> shape, rhs |-> rhs]
Binary == {"==", "!=", ":", "~="} \cup Comparisons

Values(name) == {Item(name, op, "value", <<k>>) : op \in Binary, k \in Tokens \cup Patterns \cup {Unterminated}}
Pairs(name) == {Item(name, op, shape, <<k, l>>) :
                  op \in {"==", "!=", ">"}, shape \in {"list", "range"}, k \in Tokens, l \in Tokens}
Unary(name) == {Item(name, op, "value", <<>>) : op \in {"exists", "!"}}

Items == UNION {Values(n) : n \in {"A", "dateCreated", "", "forbidden"}} \cup Pairs("A")
         \cup UNION {Unary(n) : n \in {"A", "dateCreated", "", "forbidden"}}

Others == {Item("B", "==", "value", <<Token("Number", 1)>>), Item("B", "~=", "value", <<Token("String", 1)>>),
           Item("B", "!", "value", <<>>)}

Filters == {<<>>} \cup {<<i>> : i \in Items} \cup {<<i, j>> : i \in Items, j \in Others}
           \cup {<<j, i>> : i \in Items, j \in Others}

Value(t, v) == [t |-> t, v |-> v]
ValuesOfA == {Value("number", 1), Value("number", 2), Value("number", 3), Value("string", EmptyWord),
              Value("string", 1), Value("string", 2), Value("string", Alternation), Value("string", NumberText(1)), Value("bool", 1),
              Value("object", 0)}
ValuesOfB == {Value("number", 1), Value("string", 1)}

Attrs == UNION {[d -> ValuesOfA \cup ValuesOfB] : d \in SUBSET {"A", "B"}}
Subjects == {[attrs |-> a, creDate |-> 2, modDate |-> 2] :
               a \in {b \in Attrs : "B" \in DOMAIN b => b["B"] \in ValuesOfB}}

FilterInit ==
  /\ q \in Filters
  /\ subject \in Subjects
  /\ junk \in {0, 1}
  /\ filter = Invalid

ParseFilter == filter = Invalid /\ parse(q).ok /\ filter' = parse(q) /\ UNCHANGED <<q, subject, junk>>
CloneFilter == filter.ok /\ filter' = clone(filter) /\ UNCHANGED <<q, subject, junk>>

FilterIdle == q = <<>> /\ subject = [attrs |-> <<>>, creDate |-> 2, modDate |-> 2] /\ junk = 0 /\ filter = Invalid

-----------------------------------------------------------------------------
(* What the API reference says of the text                                 *)

TokenValue(token) == Value(BaseType(valueGet(token).vt), valueGet(token).v)
Ordered(x, y) == x.t = y.t /\ x.t \in {"number", "string"}

Means(text, x) ==
  LET y(i) == TokenValue(text.rhs[i])
      one == CASE text.shape = "value" -> x = y(1)
               [] text.shape = "list" -> \E i \in 1..2 : x = y(i)
               [] text.shape = "range" -> Ordered(x, y(1)) /\ y(1).v <= x.v /\ x.v <= y(2).v
  IN  CASE text.op \in {"==", ":"} -> one
        [] text.op = "!=" -> ~one
        [] text.op = "~=" -> x.t = "string" /\ PcreMatches(y(1).v, x.v)
        [] OTHER -> /\ Ordered(x, y(1))
                    /\ CASE text.op = ">" -> x.v > y(1).v
                         [] text.op = ">=" -> x.v >= y(1).v
                         [] text.op = "<" -> x.v < y(1).v
                         [] text.op = "<=" -> x.v <= y(1).v

Holds(text) ==
  CASE text.op = "exists" -> text.name \in DOMAIN subject.attrs
    [] text.op = "!" -> text.name \notin DOMAIN subject.attrs
    [] text.name = "dateCreated" -> Means(text, Value("number", subject.creDate))
    [] OTHER -> text.name \in DOMAIN subject.attrs /\ Means(text, subject.attrs[text.name])

\* The quotes of a number in a list are lost, and a pattern that is not a
\* string is no condition.
Spelled(text) ==
  /\ text.shape = "list" => \A i \in 1..2 : text.rhs[i].quoted => text.rhs[i].kind = "String"
  /\ text.op = "~=" => valueGet(text.rhs[1]).vt = "String"

\* An item whose value has the type of the attribute, or whose operator does
\* not depend on it
Fits(item) ==
  \/ item.op \in {"exists", "!", ">", "<"}
  \/ item.op = "~=" /\ item.vt = "String"
  \/ item.op # "~=" /\ \A ca \in AttributeOf(item, subject) :
                           ca.t = BaseType(item.vt) /\ ca.t \in {"number", "string"}

\* A pattern that is the same as a basic and as a Perl regular expression
Portable(item) == item.op = "~=" => item.pattern # Alternation

\* A q that StringFilter::parse() accepts means to MongoDB what the API reference
\* says of its text: all its statements hold, each with the operator, the list
\* or the range it is written with, and only for entities with the attribute.
FiltersMeanWhatIsWritten ==
  filter.ok /\ (\A i \in DOMAIN q : Spelled(q[i])) =>
    MongoMatches(filter.mongoFilters, subject) = \A i \in DOMAIN q : Holds(q[i])

\* The subscription cache and MongoDB agree on a filter: match() decides as the
\* translated filter does, if the types fit, no statement follows a pattern and
\* the pattern is one that regcomp(), which the cache compiles it with, and
\* MongoDB's $regex read alike, whatever the memory of the attributes holds.
CacheAndMongoAgree ==
  filter.ok /\ (\A i \in DOMAIN q : /\ Fits(filter.filters[i]) /\ Portable(filter.filters[i])
                                    /\ q[i].op = "~=" => i = Len(q)) =>
    match(filter.filters, subject, junk) = MongoMatches(filter.mongoFilters, subject)
=============================================================================
