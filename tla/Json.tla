-------------------------------- MODULE Json --------------------------------
(***************************************************************************)
(* JSON texts (JsonStringify.cc, JsonParse.h).  Values live in the heap of *)
(* Containers.  What is written goes, character by character, through the  *)
(* tokenizer and back into a value; so does a text from elsewhere.         *)
(* Strings, keys and numbers are sequences of characters.                  *)
(***************************************************************************)
EXTENDS JsonReader, Containers

CONSTANTS Indents              \* the indents asked for

\* The content "circle ref", and the text of a function, shortened.
CircleRef == <<"r", "e", "f">>
Source == <<"f", "n">>

\* What a JSON text can carry: quoted texts as QuotesReadBack has them, numbers
\* that std::to_string writes in digits (no infinities).
ASSUME WritableAssumption ==
  /\ Indents \subseteq Nat
  /\ \A k \in Range(KeyOrder) : Quotable(k)
  /\ \A x \in Values : \/ x.t = "string" /\ Quotable(x.v)
                       \/ x.t = "number" /\ IsNumeral(to_string[x.v])
                       \/ x.t = "boolean" /\ x.v \in Booleans
                       \/ x.t = "null" /\ x.v = Null
                       \/ x.t = "function" /\ x.v = Source
  /\ {"", "elsewhere"} \cap Refs = {}

VARIABLES root                 \* what is written, or "" when nothing was

jvars == <<rvars, heap, root>>

\* The keys of an object in the order of std::map.
Keys(o) == FlattenSeq([i \in 1..Len(KeyOrder) |-> IF KeyOrder[i] \in DOMAIN o THEN <<KeyOrder[i]>> ELSE <<>>])

-----------------------------------------------------------------------------
(* JsonStringify.                                                          *)

\* Mutant: strings in containers are not escaped.
PlainRaw(x, in) == IF x.t = "string" THEN <<"\"">> \o x.v \o <<"\"">>
                   ELSE IF x.t = "function" /\ in = "object" THEN Quoted(Source)
                   ELSE ValueText(x)

\* A value that is no container: a function is quoted in objects only.
Plain(x, in) == IF x.t = "string" THEN Quoted(x.v)
                ELSE IF x.t = "function" /\ in = "object" THEN Quoted(Source)
                ELSE ValueText(x)

\* SameLevelCompisition, at a depth of so many blanks.
Compose(open, parts, close, step, depth) ==
  LET flat == step = 0 \/ parts = <<>>
      cr == IF flat THEN <<>> ELSE <<"\n">>
      Blanks(n) == IF flat THEN <<>> ELSE [i \in 1..n |-> " "]
  IN  <<open>> \o cr
        \o FlattenSeq([i \in 1..Len(parts) |-> Blanks(depth) \o parts[i]
                                                 \o (IF i = Len(parts) THEN <<>> ELSE <<",">>) \o cr])
        \o Blanks(depth - step) \o <<close>>

\* StringifyInternal and StringifyInternalArray: ptr_rec is passed by value, it
\* holds the containers on the way to this one.
Stringify[call \in Refs \X (SUBSET Refs) \X Nat \X Nat] ==
  LET r == call[1]
      path == call[2] \cup {r}
      step == call[3]
      indent == call[4]
      Item(x) == IF ~IsRef(x) THEN Plain(x, KindOf[r])
                 ELSE IF x.v \in path THEN Quoted(CircleRef)
                 ELSE Stringify[<<x.v, path, step, indent + step>>]
      keys == Keys(heap[r].obj)
  IN  IF KindOf[r] = "array"
      THEN Compose("[", [i \in 1..Len(heap[r].arr) |-> Item(heap[r].arr[i])], "]", step, indent + step)
      ELSE Compose("{", [i \in 1..Len(keys) |-> Quoted(keys[i]) \o <<":", " ">> \o Item(heap[r].obj[keys[i]])],
                   "}", step, indent + step)

-----------------------------------------------------------------------------
\* A value is built in the heap, or a text comes from elsewhere.
JInit ==
  /\ CInit /\ result = Unread
  /\ \/ root = "elsewhere" /\ TInit
     \/ /\ root = "" /\ outcome = "built" /\ mode = "json"
        /\ text = <<>> /\ res = <<>> /\ ptr = 0 /\ line = 0 /\ offset = 0

\* A script builds values until one of them is written.
Build == root = "" /\ CNext /\ UNCHANGED <<tvars, root, result>>

\* json_stringify of a container, then json_parse of the text.
Write(r, step) ==
  /\ root = "" /\ root' = r
  /\ text' = Stringify[<<r, {}, step, 0>>]
  /\ outcome' = "running"
  /\ UNCHANGED <<mode, ptr, line, offset, res, heap, result>>
Tokenize == TNext /\ UNCHANGED <<result, heap, root>>
ReadText == Read /\ UNCHANGED <<heap, root>>

JNext == \/ Build
         \/ \E r \in Refs, step \in Indents : Write(r, step)
         \/ Tokenize \/ ReadText

JSpec == JInit /\ [][JNext]_jvars /\ WF_jvars(Tokenize)

-----------------------------------------------------------------------------
(* Properties.                                                             *)

\* The value a container stands for, a container on the way to itself cut off and
\* a number cut as double2stringEarse0 cuts it.
Unfold[call \in Stored \X (SUBSET Refs)] ==
  LET x == call[1]
      path == call[2] \cup {x.v}
  IN  IF ~IsRef(x) THEN IF x.t = "function" THEN Leaf("string", Source) ELSE Leaf(x.t, ValueText(x))
      ELSE IF x.v \in call[2] THEN Leaf("string", CircleRef)
      ELSE Tree(x.t, <<>>, [i \in 1..Len(heap[x.v].arr) |-> Unfold[<<heap[x.v].arr[i], path>>]],
                [k \in DOMAIN heap[x.v].obj |-> Unfold[<<heap[x.v].obj[k], path>>]])

\* The containers in r, those in these, and so on.
Reached(r) ==
  LET closed == {S \in SUBSET Refs : \A s \in S : \A x \in Held(s) : IsRef(x) => x.v \in S}
  IN  {s \in Refs : \A S \in closed : r \in S => s \in S}
FunctionInArray(r) == \E s \in Reached(r) : \E x \in Range(heap[s].arr) : x.t = "function"

\* What is written reads back as the value it was, through Escape, the tokenizer
\* and Unescape, with any indent: shared containers are written out each time,
\* one that contains itself is cut at "circle ref", and all the rest comes back
\* (test.h:155-158), but for numbers: one comes back as the digits that
\* double2stringEarse0 leaves of it, 1.0001 as 1.  An array with a function gives
\* a text that is no JSON.
ReadsBack ==
  /\ QuotesReadBack
  /\ root \in Refs /\ outcome # "running" /\ ~FunctionInArray(root) =>
       /\ outcome = "done"
       /\ result # Unread => result.at = Len(res) /\ result.tree = Unfold[<<Ref(root), {}>>]
=============================================================================
