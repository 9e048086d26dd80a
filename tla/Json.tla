-------------------------------- MODULE Json --------------------------------
(***************************************************************************)
(* JSON as the broker writes it (lib/common/tag.cpp) and as it reads it    *)
(* (boost's read_json() and rapidjson, which are external).                *)
(*                                                                         *)
(* A text is a sequence of tokens <<kind, string>>: the brackets, the      *)
(* comma, a key with its colon, a string between quotes and a literal      *)
(* (number, boolean or null).  A key ("key"), and some strings ("raw"),    *)
(* are written as they are; the other strings ("str"), and the keys of     *)
(* clients ("escapedKey"), with the escapes that JSON wants.               *)
(* The tag functions put each comma themselves because a flag tells them   *)
(* to, so a text may have one too many or one too few, a bracket that      *)
(* matches none, or a key without a value.                                 *)
(*                                                                         *)
(* The reader makes a tree of nodes [name, kind, val, kids]; an element of *)
(* an array is a child without a name.  For NGSIv1 it is boost's           *)
(* read_json(), whose property trees have no kinds: "", {} and [] are the  *)
(* same node.  For NGSIv2 it is rapidjson, whose values have a type.       *)
(***************************************************************************)
EXTENDS Sequences, Integers

CONSTANTS
  Illegal,      \* the strings with a character that forbiddenChars() does not allow
  IdIllegal,    \* the strings with a character that forbiddenIdChars() does not allow besides
  Unescaped,    \* the strings with a character that JSON wants escaped (a backslash, a control character), each with what a
                \* reader makes of it when it is not: another string, or "" when the text is no JSON
  htmlEscape    \* what htmlEscape() makes of each of them: another one of them, since the escape has a ';'

ASSUME EscapeIsIllegal == htmlEscape \in [Illegal -> Illegal]

forbiddenChars(s) == s \in Illegal

\* Without the option -checkIdv1, NGSIv1 has no more illegal characters in a name than elsewhere.
forbiddenIdChars(api, s) == forbiddenChars(s) \/ (api = "v2" /\ s \in IdIllegal)

(***************************************************************************)
(* The tags.  The functions below return texts.                            *)
(***************************************************************************)
Comma(showComma) == IF showComma THEN <<<<",", "">>>> ELSE <<>>

Key(key) == <<<<"key", key>>>>

startTag1(key, showKey) == (IF showKey THEN Key(key) ELSE <<>>) \o <<<<"{", "">>>>

startTag2(key, isVector, showKey) ==
  (IF showKey THEN Key(key) ELSE <<>>) \o (IF isVector THEN <<<<"[", "">>>> ELSE <<<<"{", "">>>>)

endTag(comma, isVector) == (IF isVector THEN <<<<"]", "">>>> ELSE <<<<"}", "">>>>) \o Comma(comma)

\* Without quotes the empty string leaves nothing between the colon and what follows.
Scalar(s, withoutQuotes) ==
  IF ~withoutQuotes THEN <<<<"str", s>>>> ELSE IF s = "" THEN <<>> ELSE <<<<"lit", s>>>>

escaped(s) == IF s \in Illegal THEN htmlEscape[s] ELSE s

\* The escapes of jsonInvalidCharsTransformation() are undone by the reader, those of htmlEscape() are not.
valueTag1(key, value, showComma, isVectorElement, withoutQuotes) ==
  (IF isVectorElement THEN <<>> ELSE Key(key)) \o Scalar(escaped(value), withoutQuotes) \o Comma(showComma)

\* The common call: a key, a string between quotes
Tag(key, value, showComma) == valueTag1(key, value, showComma, FALSE, FALSE)

valueTag2(key, value, showComma, withoutQuotes) ==
  (IF key = "" THEN <<>> ELSE Key(key)) \o Scalar(value, withoutQuotes) \o Comma(showComma)

\* JSON_STR() of NGSIv2 only puts quotes around.
JSON_STR(s) == <<<<"raw", s>>>>
JSON_PROP(key) == Key(key)
JSON_VALUE(key, value) == JSON_PROP(key) \o JSON_STR(value)

\* The texts of a vector, one after another: each is told whether it is the last one.
RECURSIVE RenderAll(_, _, _)
RenderAll(render(_, _), vec, ix) ==
  IF ix > Len(vec) THEN <<>> ELSE render(vec[ix], ix # Len(vec)) \o RenderAll(render, vec, ix + 1)

(***************************************************************************)
(* The reader: a pushdown automaton.  A frame of the stack is an open      *)
(* container with its own name and the children it has so far; expect is   *)
(* what may come next.                                                     *)
(***************************************************************************)
Node(name, kind, val, kids) == [name |-> name, kind |-> kind, val |-> val, kids |-> kids]

ReadStart == [stack |-> <<>>, key |-> "", expect |-> "root", tree |-> Node("", "", "", <<>>)]
ReadError(st) == [st EXCEPT !.expect = "error"]

Opened(st, kind) ==
  [st EXCEPT !.stack = <<[kind |-> kind, name |-> st.key, kids |-> <<>>]>> \o @,
             !.key = "", !.expect = IF kind = "{" THEN "keyOrEnd" ELSE "valueOrEnd"]

\* A value is complete: it becomes a child of the innermost open container, or the root.
Completed(st, node) ==
  IF st.stack = <<>>
  THEN [st EXCEPT !.tree = node, !.expect = "end"]
  ELSE [st EXCEPT !.stack[1].kids = Append(@, node), !.key = "", !.expect = "sepOrEnd"]

Closed(st) ==
  Completed([st EXCEPT !.stack = Tail(@)], Node(st.stack[1].name, st.stack[1].kind, "", st.stack[1].kids))

\* What the reader makes of a string that is written as it is
AsItIs(s) == IF s \in DOMAIN Unescaped THEN Unescaped[s] ELSE s
NotReadable(token) == token[1] \in {"key", "raw"} /\ token[2] # "" /\ AsItIs(token[2]) = ""

ReadToken(st, token) ==
  CASE NotReadable(token) -> ReadError(st)
    [] token[1] \in {"{", "["} /\ st.expect \in {"root", "value", "valueOrEnd"} -> Opened(st, token[1])
    [] token[1] \in {"str", "lit"} /\ st.expect \in {"value", "valueOrEnd"} -> Completed(st, Node(st.key, token[1], token[2], <<>>))
    [] token[1] = "raw" /\ ~NotReadable(token) /\ st.expect \in {"value", "valueOrEnd"} -> Completed(st, Node(st.key, "str", AsItIs(token[2]), <<>>))
    [] token[1] = "key" /\ ~NotReadable(token) /\ st.expect \in {"key", "keyOrEnd"} -> [st EXCEPT !.key = AsItIs(token[2]), !.expect = "value"]
    [] token[1] = "escapedKey" /\ st.expect \in {"key", "keyOrEnd"} -> [st EXCEPT !.key = token[2], !.expect = "value"]
    [] token[1] = "," /\ st.expect = "sepOrEnd" -> [st EXCEPT !.expect = IF st.stack[1].kind = "{" THEN "key" ELSE "value"]
    [] token[1] = "}" /\ st.expect \in {"keyOrEnd", "sepOrEnd"} /\ st.stack[1].kind = "{" -> Closed(st)
    [] token[1] = "]" /\ st.expect \in {"valueOrEnd", "sepOrEnd"} /\ st.stack[1].kind = "[" -> Closed(st)
    [] OTHER -> ReadError(st)

RECURSIVE ReadFrom(_, _, _)
ReadFrom(st, text, ix) == IF ix > Len(text) \/ st.expect = "error" THEN st ELSE ReadFrom(ReadToken(st, text[ix]), text, ix + 1)

\* Whether the text is JSON, and the children of its root
read_json(text) ==
  LET st == ReadFrom(ReadStart, text, 1)
  IN  [ok |-> st.expect = "end", kids |-> st.tree.kids]

WellFormed(text) == read_json(text).ok

=============================================================================
