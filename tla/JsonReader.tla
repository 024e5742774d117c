----------------------------- MODULE JsonReader -----------------------------
(***************************************************************************)
(* JsonParse (JsonParse.h): the tokens of a text, read in JSON mode, are   *)
(* made a value by a recursive descent that looks for the end of an array  *)
(* or of an object first and then reads up to it.                          *)
(***************************************************************************)
EXTENDS Tokenizer, TokenFlow, Trees

VARIABLES result               \* what JsonParse::Call made of the tokens

rvars == <<tvars, result>>

\* A result is a tree and the position of its last token.
Result(tr, i) == [tree |-> tr, at |-> i]
Fail(i) == Result(Leaf("none", <<>>), i)
Unread == Fail(-2)

Kw(i) == IF i \in 1..Len(res) THEN res[i].kw ELSE <<"undefined">>
\* The tokens as far as brackets are looked for.
Brackets == [i \in 1..Len(res) |-> IF Len(Kw(i)) = 1 THEN Kw(i)[1] ELSE "word"]
IsStringLiteral(k) == k[1] \in const_str_set
toStringContent(k) == SubSeq(k, 2, Len(k) - 1)
IsNumeric(k) == k[1] \in Digits \/ (k[1] = "-" /\ Len(k) > 1)
\* The texts that Number reads whole.
IsNumeral(v) ==
  LET digits == IF v[1] = "-" THEN Tail(v) ELSE v
  IN  /\ v \in Seq(Digits \cup {"-", "."}) /\ v # <<>> /\ digits # <<>> /\ digits[1] \in Digits
      /\ \A i \in 1..Len(digits) :
           digits[i] \in Digits \/ (digits[i] = "." /\ (i < Len(digits) => digits[i + 1] # "."))
Null == <<"n", "u", "l", "l">>
Booleans == {<<"t", "r", "u", "e">>, <<"f", "a", "l", "s", "e">>}

\* The calls of the descent: a value from a token on; the rest of an array or of
\* an object, up to its bracket.  "read" gives what the calls return that are made.
Calls == {"value", "array", "object"} \X (1..Len(res) + 1) \X (0..Len(res))

\* Mutant: the end is looked for behind the comma.
ResolveArrayTrailing(read, i, end) ==
  LET x == read[<<"value", i, 0>>]
      rest == read[<<"array", x.at + 2, end>>]
  IN  IF i = end THEN Result(Leaf("array", <<>>), end)
      ELSE IF x.at <= 0 THEN x
      ELSE IF x.at + 1 = end THEN Result(Tree("array", <<>>, <<x.tree>>, <<>>), end)
      ELSE IF Kw(x.at + 1) # <<",">> THEN Fail(Thrown)
      ELSE IF rest.at <= 0 THEN rest
      ELSE Result(Tree("array", <<>>, <<x.tree>> \o rest.tree.arr, <<>>), rest.at)

\* From an element to the bracket "end", which the view ends at.
ResolveArray(read, i, end) ==
  LET x == read[<<"value", i, 0>>]
      rest == read[<<"array", x.at + 2, end>>]
  IN  IF x.at <= 0 THEN x
      ELSE IF x.at + 1 = end THEN Result(Tree("array", <<>>, <<x.tree>>, <<>>), end)
      ELSE IF Kw(x.at + 1) # <<",">> THEN Fail(Thrown)
      ELSE IF rest.at <= 0 THEN rest
      ELSE Result(Tree("array", <<>>, <<x.tree>> \o rest.tree.arr, <<>>), rest.at)

\* A key may have any quotes; the last of two equal keys stays.
ResolveObject(read, i, end) ==
  LET x == read[<<"value", i + 2, 0>>]
      rest == read[<<"object", x.at + 2, end>>]
      key == toStringContent(Kw(i))
      Members(o) == [k \in DOMAIN o \cup {key} |-> IF k \in DOMAIN o THEN o[k] ELSE x.tree]
  IN  IF ~IsStringLiteral(Kw(i)) \/ Kw(i + 1) # <<":">> THEN Fail(Thrown)
      ELSE IF x.at <= 0 THEN x
      ELSE IF x.at + 1 = end THEN Result(Tree("object", <<>>, <<>>, Members(<<>>)), end)
      ELSE IF Kw(x.at + 1) # <<",">> THEN Fail(Thrown)
      ELSE IF rest.at <= 0 THEN rest
      ELSE Result(Tree("object", <<>>, <<>>, Members(rest.tree.obj)), rest.at)

\* A value that is one token.
Scalar(k) == IF k = Null THEN Leaf("null", k)
             ELSE IF k[1] = "\"" THEN Leaf("string", toStringContent(k))
             ELSE IF IsNumeric(k) THEN Leaf("number", k)
             ELSE IF k \in Booleans THEN Leaf("boolean", k)
             ELSE Leaf("none", k)

ResolveValue(read, i) ==
  LET k == Kw(i)
      kind == IF k = <<"[">> THEN "array" ELSE "object"
      end == ClosingBracket(Brackets, i)
  IN  IF i > Len(res) THEN Fail(Overrun)
      ELSE IF k \in {<<"[">>, <<"{">>}
           THEN IF end <= 0 THEN Fail(end)
                ELSE IF end = i + 1 THEN Result(Leaf(kind, <<>>), end)
                ELSE read[<<kind, i + 1, end>>]
      ELSE IF Scalar(k).t = "none" THEN Fail(Thrown)
      ELSE Result(Scalar(k), i)

Resolve[call \in Calls] ==
  IF call[1] = "value" THEN ResolveValue(Resolve, call[2])
  ELSE IF call[1] = "array" THEN ResolveArray(Resolve, call[2], call[3])
  ELSE ResolveObject(Resolve, call[2], call[3])

\* Call: behind an array or an object the text may go on.
Parse ==
  LET x == Resolve[<<"value", 1, 0>>]
  IN  IF res = <<>> THEN Result(Leaf("null", Null), 1)
      ELSE IF x.at > 0 /\ Len(res) # 1 /\ x.tree.t \notin {"array", "object"} THEN Fail(Thrown)
      ELSE x

-----------------------------------------------------------------------------
RInit == TInit /\ result = Unread

Read ==
  /\ outcome = "done" /\ mode = "json" /\ result = Unread
  /\ result' = Parse
  /\ UNCHANGED tvars

RNext == (TNext /\ UNCHANGED result) \/ Read

RSpec == RInit /\ [][RNext]_rvars

-----------------------------------------------------------------------------
(* Properties.                                                             *)

\* The grammar of JSON: where a value that begins at a token may end, and where the
\* elements of an array or the members of an object that begin there may.
IsScalar(k) == k \in Booleans \cup {Null} \/ k[1] = "\"" \/ IsNumeric(k)
Phrases == {"value", "array", "object"} \X (1..Len(res) + 1)
Derived(grammar, kind, i) ==
  LET Enclosed(j, open, close, of) ==
        Kw(i) = open /\ Kw(j) = close /\ (j = i + 1 \/ j - 1 \in grammar[<<of, i + 1>>])
      from == IF kind = "object" THEN i + 2 ELSE i
      first == grammar[<<"value", from>>]
      comma == {j \in from..Len(res) : j \in first /\ Kw(j + 1) = <<",">>}
  IN  IF kind = "value"
      THEN {j \in i..Len(res) : \/ j = i /\ IsScalar(Kw(i))
                                \/ Enclosed(j, <<"[">>, <<"]">>, "array")
                                \/ Enclosed(j, <<"{">>, <<"}">>, "object")}
      ELSE IF kind = "object" /\ ~(IsStringLiteral(Kw(i)) /\ Kw(i + 1) = <<":">>) THEN {}
      ELSE first \cup UNION {grammar[<<kind, j + 2>>] : j \in comma}
Grammar[phrase \in Phrases] == Derived(Grammar, phrase[1], phrase[2])

\* A text is accepted just when it is JSON, but for what follows an array or an
\* object, which is ignored, and read to its end; reading past the end of the
\* tokens needs brackets that are not nested.
AcceptsJson ==
  result # Unread /\ res # <<>> =>
    /\ result.at > 0 <=> \E j \in Grammar[<<"value", 1>>] : j = Len(res) \/ Kw(1) \in {<<"[">>, <<"{">>}
    /\ result.at > 0 => result.at \in Grammar[<<"value", 1>>]
    /\ result.at = Overrun => ~Nested(Brackets)
=============================================================================
