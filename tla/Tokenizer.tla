------------------------------ MODULE Tokenizer ------------------------------
(***************************************************************************)
(* The tokenizer (Tokenizer.h, String.cc): GeneralTokenizer::Dispatch      *)
(* reads the source character by character, each step one token, one run   *)
(* of blanks or one comment.  The same class reads scripts ("agumi") and   *)
(* JSON texts ("json").  Characters are one-character strings, texts are   *)
(* sequences of them, and positions count from 0 as in the source.         *)
(***************************************************************************)
EXTENDS Integers, Sequences, FiniteSetsExt, SequencesExt

CONSTANTS Texts,               \* the sources read, sequences of characters
          Contents             \* texts of strings

\* A newline is not escaped, or (in an object) as Unescape does not read it; nor is
\* a backslash, which would escape the quote behind.
Quotable(s) == s \in Seq(STRING) /\ "\n" \notin Range(s) /\ (s # <<>> => s[Len(s)] # "\\")

ASSUME TextsAssumption == (\A t \in Texts : t \in Seq(STRING)) /\ \A s \in Contents : Quotable(s)

VARIABLES text, mode,          \* GeneralTokenizer::src, type
          ptr, line, offset,   \* the cursor
          res,                 \* the tokens read, records [kw, pos, line]
          outcome              \* "running", "done", or "thrown" for THROW_MSG

tvars == <<text, mode, ptr, line, offset, res, outcome>>

operator_set == {"!", "+", "-", "*", "/", "(", ")", "{", "}", "[", "]", "=",
                 ">", "<", "%", "&", "|", ".", "~"}
empty_set == {" ", "\n", "\t"}
single_char_set == {";", ",", ":", "?", "@"}
const_str_set == {"\"", "'", "bq"}     \* bq: the back quote of template strings
Digits == {"0", "1", "2", "3", "4", "5", "6", "7", "8", "9"}
\* Letters stand for the characters that continue an identifier.
Letters == {"a", "b", "e", "f", "l", "n", "r", "s", "t", "u", "_", "$"} \cup Digits
multi_token_set ==
  {<<"=", "=">>, <<"=", "=", "=">>, <<"!", "=">>, <<"!", "=", "=">>,
   <<">", "=">>, <<"<", "=">>, <<"=", ">">>, <<"+", "+">>, <<"-", "=">>,
   <<"-", "-">>, <<".", ".">>, <<"&", "&">>, <<"|", "|">>, <<"-", ">">>}

\* The character at position i; s[size()] of a std::string is the null one.
At(i) == IF i < Len(text) THEN text[i + 1] ELSE "\\0"
Slice(i, j) == SubSeq(text, i + 1, Min({j, Len(text)}))        \* substr
First(S) == CHOOSE i \in S : \A j \in S : i <= j
\* The first position from i on that satisfies Stop, the end if none does.
Until(i, Stop(_)) == First({j \in i..Len(text) : j = Len(text) \/ Stop(j)})

\* String::Unescape: Split at every \" and joined with ": the backslash goes.
Unescape(s) ==
  LET dropped(i) == s[i] = "\\" /\ i < Len(s) /\ s[i + 1] = "\""
  IN  FlattenSeq([i \in 1..Len(s) |-> IF dropped(i) THEN <<>> ELSE <<s[i]>>])

\* String::Escape: Replace('"', '\"', -1, 0, 2).
Escape(s) == FlattenSeq([i \in 1..Len(s) |-> IF s[i] = "\"" THEN <<"\\", "\"">> ELSE <<s[i]>>])

\* A string as JsonStringify writes it.
Quoted(s) == <<"\"">> \o Escape(s) \o <<"\"">>

\* Where the cursor stands after the characters from ptr to j have been passed
\* one by one, a newline starting a line at column "from".
LastBreak(j) == Max({i \in ptr..(j - 1) : At(i) = "\n"})
Breaks(j) == Cardinality({i \in ptr..(j - 1) : At(i) = "\n"})

Token(kw, p, l) == [kw |-> kw, pos |-> p, line |-> l]

TInit == /\ text \in Texts
         /\ mode \in {"json", "agumi"}
         /\ ptr = 0 /\ line = 0 /\ offset = 0
         /\ res = <<>>
         /\ outcome = "running"

\* Dispatch: the loop stands before a character of class "class".
Reading(class) == outcome = "running" /\ ptr < Len(text) /\ At(ptr) \in class

\* A minus sign before a digit, and the two ways a comment starts.
Negative == At(ptr) = "-" /\ At(ptr + 1) \in Digits
CommentHere == At(ptr) = "/" /\ At(ptr + 1) \in {"/", "*"}

Move(j) == ptr' = j /\ UNCHANGED <<text, mode>>
Push(kw) == res' = Append(res, Token(kw, ptr, line))
Throw == outcome' = "thrown" /\ UNCHANGED <<text, mode, ptr, line, offset, res>>

\* The longest operator that starts here; JSON has no multi-character ones.
OperatorText ==
  LET match == {m \in multi_token_set : Slice(ptr, ptr + Len(m)) = m}
  IN  IF mode = "agumi" /\ match # {}
      THEN CHOOSE m \in match : \A n \in match : Len(n) <= Len(m)
      ELSE <<At(ptr)>>

\* InitKwEnum looks a token up in KeyWordMap and throws when it is not there: of
\* all the operators and single characters only "&" and ";" are not.
Operator ==
  /\ Reading(operator_set) /\ ~Negative /\ ~CommentHere
  /\ IF OperatorText = <<"&">> THEN Throw
     ELSE /\ Push(OperatorText)
          /\ Move(ptr + Len(OperatorText))
          /\ offset' = offset + Len(OperatorText)
          /\ UNCHANGED <<line, outcome>>

\* Digits and dots, but no dot that is followed by another one.
Number ==
  /\ Reading(operator_set \cup Digits)
  /\ At(ptr) \in Digits \/ Negative
  /\ LET end == Until(ptr + 1, LAMBDA i : /\ At(i) \notin Digits
                                          /\ ~(At(i) = "." /\ At(i + 1) # "."))
     IN  /\ Push(Slice(ptr, end))
         /\ Move(end)
         /\ offset' = offset + (end - ptr - 1)
         /\ UNCHANGED <<line, outcome>>

\* A comment of one line ends before its newline.  One that the source ends in
\* moves the cursor to the last character, which is then read as code.
LineComment ==
  /\ Reading({"/"}) /\ At(ptr + 1) = "/"
  /\ LET end == Until(ptr, LAMBDA i : At(i) = "\n")
     IN  /\ Move(IF end = Len(text) THEN Len(text) - 1 ELSE end)
         /\ offset' = offset + (end - ptr)
         /\ UNCHANGED <<line, res, outcome>>

\* Mutant: the cursor stops at the slash.
BlockCommentShort ==
  /\ Reading({"/"}) /\ At(ptr + 1) = "*"
  /\ LET end == Until(ptr, LAMBDA i : At(i) = "*" /\ At(i + 1) = "/")
     IN  IF end = Len(text) THEN Throw
         ELSE Move(end + 1) /\ line' = line + Breaks(end) /\ UNCHANGED <<offset, res, outcome>>

BlockComment ==
  /\ Reading({"/"}) /\ At(ptr + 1) = "*"
  /\ LET end == Until(ptr, LAMBDA i : At(i) = "*" /\ At(i + 1) = "/")
     IN  IF end = Len(text) THEN Throw
         ELSE /\ Move(end + 2)
              /\ line' = line + Breaks(end)
              /\ offset' = IF Breaks(end) = 0 THEN offset + (end - ptr)
                           ELSE end - LastBreak(end) - 1
              /\ UNCHANGED <<res, outcome>>

Identify ==
  /\ outcome = "running" /\ ptr < Len(text)
  /\ At(ptr) \notin operator_set \cup Digits \cup empty_set \cup single_char_set \cup const_str_set
  /\ LET end == Until(ptr + 1, LAMBDA i : At(i) \notin Letters)
     IN  /\ Push(Slice(ptr, end))
         /\ Move(end)
         /\ offset' = offset + (end - ptr)
         /\ UNCHANGED <<line, outcome>>

Empty ==
  /\ Reading(empty_set)
  /\ IF mode = "agumi" THEN Push(<<At(ptr)>>) ELSE UNCHANGED res
  /\ Move(ptr + 1)
  /\ IF At(ptr) = "\n" THEN line' = line + 1 /\ offset' = 0
     ELSE offset' = offset + 1 /\ UNCHANGED line
  /\ UNCHANGED outcome

SingleChar ==
  /\ Reading(single_char_set)
  /\ IF At(ptr) = ";" THEN Throw
     ELSE /\ Push(<<At(ptr)>>)
          /\ Move(ptr + 1)
          /\ offset' = offset + 1
          /\ UNCHANGED <<line, outcome>>

\* ReadConstStr: up to the first such quote that no backslash precedes, and
\* over newlines in back quotes only; the token is made with the cursor already moved.
ConstString ==
  /\ Reading(const_str_set)
  /\ LET quote == At(ptr)
         end == Until(ptr + 1, LAMBDA i : \/ At(i) = quote /\ At(i - 1) # "\\"
                                          \/ At(i) = "\n" /\ quote # "bq")
         escaped == \E i \in (ptr + 1)..(end - 1) : At(i) = quote
         kw == IF escaped THEN Unescape(Slice(ptr, end + 1)) ELSE Slice(ptr, end + 1)
     IN  IF At(end) # quote THEN Throw
         ELSE /\ Move(end + 1)
              /\ line' = line + Breaks(end)
              /\ offset' = IF Breaks(end) = 0 THEN offset + (end - ptr - 1)
                           ELSE end - LastBreak(end) - 1
              /\ res' = Append(res, Token(kw, ptr', line'))
              /\ UNCHANGED outcome

\* Mutant: off by one.
StartBehind ==
  /\ outcome = "running" /\ ptr = Len(text) + 1
  /\ outcome' = "done"
  /\ UNCHANGED <<text, mode, ptr, line, offset, res>>

\* The loop of Dispatch ends with the source.
Start ==
  /\ outcome = "running" /\ ptr = Len(text)
  /\ outcome' = "done"
  /\ UNCHANGED <<text, mode, ptr, line, offset, res>>

TNext == \/ Operator \/ Number \/ LineComment \/ BlockComment \/ Identify
         \/ Empty \/ SingleChar \/ ConstString \/ Start

TSpec == TInit /\ [][TNext]_tvars /\ WF_tvars(TNext)

-----------------------------------------------------------------------------
(* Properties.                                                             *)

\* What leaves no token: a blank, a comment of one line up to its newline, and
\* a longer one up to the first end behind its slash.
Skipped(i, j) ==
  \/ At(i) \in empty_set /\ j = i + 1
  \/ /\ At(i) = "/" /\ At(i + 1) = "/" /\ i + 2 <= j /\ At(j) = "\n"
     /\ \A k \in i..(j - 1) : At(k) # "\n"
  \/ /\ At(i) = "/" /\ At(i + 1) = "*" /\ i + 3 <= j /\ At(j - 2) = "*" /\ At(j - 1) = "/"
     /\ \A k \in i..(j - 3) : ~(At(k) = "*" /\ At(k + 1) = "/")

\* From i to j there is nothing else: one follows the other at the cuts.
Gap(i, j) ==
  \E cuts \in SUBSET (i..j) :
    {i, j} \subseteq cuts /\ \A a \in cuts \ {j} : \E b \in cuts : Skipped(a, b)

IsString(t) == t.kw[1] \in const_str_set
Begins(t) == IF IsString(t)
             THEN {b \in 0..(t.pos - 1) : t.kw \in {Slice(b, t.pos), Unescape(Slice(b, t.pos))}}
             ELSE {b \in {t.pos} : t.kw = Slice(b, b + Len(t.kw))}
Ends(t) == IF IsString(t) THEN t.pos ELSE t.pos + Len(t.kw)

OpenComment == \E i \in 1..(Len(text) - 1) :
  text[i] = "/" /\ text[i + 1] = "/" /\ \A j \in i..Len(text) : text[j] # "\n"

TypeOK == /\ ptr \in 0..Len(text)
          /\ line \in Nat /\ offset \in Int
          /\ outcome \in {"built", "running", "done", "thrown"}

\* The tokens, with blanks and comments between them, are the source: each one
\* is the text at its place, in order, and nothing that is not a blank or in a
\* comment is skipped or read twice.  It is about the cursor arithmetic of the
\* greedy operators (compensate, 412-415), numbers, comments and strings.  It
\* does not hold of a source that a comment of one line ends in.
NothingLost ==
  ~OpenComment =>
  \A i \in 1..(Len(res) + 1) :
    LET from == IF i = 1 THEN 0 ELSE Ends(res[i - 1])
    IN  IF i > Len(res) THEN Gap(from, ptr)
        ELSE \E b \in Begins(res[i]) : from <= b /\ Gap(from, b)

\* The line of a token is the number of newlines before its place, through
\* comments and template strings of several lines: error messages and stacks
\* (Token::ToPosStr) name it.
LineNumbers ==
  \A t \in Range(res) : t.line = Cardinality({i \in 1..t.pos : text[i] = "\n"})

\* Tokens have the place and the line they come from, and the cursor never
\* leaves the source.
TokensInPlace == TypeOK /\ NothingLost /\ LineNumbers

\* A text quoted the way JsonStringify quotes it (Escape) reads back as one
\* token with the same content, backslashes and quotes in any order included.
QuotesReadBack ==
  \A s \in Contents :
    text = Quoted(s) /\ outcome # "running"
      => /\ outcome = "done" /\ Len(res) = 1
         /\ SubSeq(res[1].kw, 2, Len(res[1].kw) - 1) = s

\* Reading ends, for every source: no step leaves the cursor where it is, and
\* none moves it past the end.
ReadingEnds == (outcome = "running") ~> (outcome # "running")
=============================================================================
