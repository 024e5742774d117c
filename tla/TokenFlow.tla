------------------------------ MODULE TokenFlow ------------------------------
(***************************************************************************)
(* What the script parser (Parser.h) and the JSON parser (JsonParse.h)     *)
(* share: positions in a flow of tokens and the search for a bracket.      *)
(***************************************************************************)
EXTENDS Integers, Sequences, FiniteSetsExt, SequencesExt

\* Results that are no position: THROW_TOKEN, and an iterator past the end.
Thrown == 0
Overrun == -1

Closer == [b \in {"(", "[", "{"} |-> CASE b = "(" -> ")" [] b = "[" -> "]" [] b = "{" -> "}"]

\* CalcEndBrackets counts the one kind of bracket it starts at; it has no bound
\* and follows the iterator past the end when the bracket is not closed.
ClosingBracket(flow, i) ==
  LET b == flow[i]
      Depth(j) == Quantify(i..j, LAMBDA k : flow[k] = b)
                    - Quantify(i..j, LAMBDA k : flow[k] = Closer[b])
      closed == {j \in i..Len(flow) : Depth(j) = 0}
  IN  IF i > Len(flow) \/ flow[i] \notin DOMAIN Closer THEN Thrown
      ELSE IF closed = {} THEN Overrun
      ELSE Min(closed)

\* The reference: brackets of all kinds are nested.  The closers that are missing
\* after so many tokens, the innermost last; a closer too many is missing for ever.
Missing(flow) ==
  LET missing[i \in 0..Len(flow)] ==
        IF i = 0 THEN <<>>
        ELSE LET k == flow[i]
                 open == missing[i - 1]
             IN  IF k \in DOMAIN Closer THEN Append(open, Closer[k])
                 ELSE IF k \notin Range(Closer) THEN open
                 ELSE IF open # <<>> /\ Last(open) = k THEN Front(open)
                 ELSE Append(open, "none")
  IN  missing
Nested(flow) == Missing(flow)[Len(flow)] = <<>>
=============================================================================
