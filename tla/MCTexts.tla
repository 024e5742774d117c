-------------------------------- MODULE MCTexts --------------------------------
(* What the program reads, for TLC: scripts and JSON texts (Tokenizer, Json) or *)
(* the reply to a request (HttpClient), one of them in each behaviour.          *)
EXTENDS Json, HttpClient

SeqsUpTo(S, n) == UNION {[1..k -> S] : k \in 0..n}

\* Three containers, keys, numbers (1 and 1.0001, whose texts are cut to the same,
\* and 0.5), a function and a string.
MCKindOf == [o |-> "object", p |-> "object", q |-> "array"]
MCKeyOrder == <<<<"\"">>, <<"a">>>>
MCToString == [n \in {"1", "1.0001", "0.5"} |->
  CASE n = "1" -> <<"1", ".", "0", "0", "0", "0", "0", "0">>
    [] n = "1.0001" -> <<"1", ".", "0", "0", "0", "1", "0", "0">>
    [] n = "0.5" -> <<"0", ".", "5", "0", "0", "0", "0", "0">>]
MCValues == {Val("number", n) : n \in DOMAIN MCToString}
            \cup {Val("function", Source), Val("string", <<"\\", "\"">>)}

\* Texts over the characters that meet in one token or another, and JSON texts.
MCContents == {s \in SeqsUpTo({"a", "\"", "\\"}, 3) : Quotable(s)}
MCTexts ==
  SeqsUpTo({"a", "1", "-", "=", ">", "/", "*", "\n", " ", "\"", "\\", "."}, 3)
  \cup SeqsUpTo({"/", "*", "\n", "a"}, 5) \cup SeqsUpTo({"1", ".", "-", "a"}, 4)
  \cup SeqsUpTo({"bq", "\n", "\\", "a"}, 4) \cup SeqsUpTo({"=", "!", "&", "-", ">"}, 4)
  \cup {Quoted(s) : s \in MCContents}
  \cup SeqsUpTo({";", ",", "@", "&", "a"}, 3)
  \cup SeqsUpTo({"[", "]", "1", ","}, 5)
  \cup {FlattenSeq(s) : s \in SeqsUpTo({<<"{">>, <<"}">>, <<"'", "a", "'">>, <<":">>, <<"1">>}, 5)}
  \cup {FlattenSeq(s) : s \in SeqsUpTo({<<"{">>, <<"}">>, <<"[">>, <<"]">>, Quoted(<<"a">>), <<":">>, Null}, 4)}

\* Replies of up to four bytes, in up to two chunks, and sizes of two digits.
Split(s) == {<<s>>} \cup {<<SubSeq(s, 1, i), SubSeq(s, i + 1, Len(s))>> : i \in 1..(Len(s) - 1)}
MCReplies ==
  LET Of(h, c, z, ch) == [head |-> h, coding |-> c, zeros |-> z, chunks |-> ch]
  IN  {Of(h, "length", 0, <<s>>) : h \in {"head", "bare"}, s \in SeqsUpTo({CR, LF, "x"}, 3)}
      \cup {Of("head", "none", 0, <<>>)} \cup {Of("head", "chunked", z, <<>>) : z \in {0, 2}}
      \cup UNION {{Of("head", "chunked", z, c) : z \in {0, 2}, c \in Split(s)} :
                     s \in SeqsUpTo({"0", CR, LF}, 4) \ {<<>>}}
      \cup {Of("head", "chunked", 1, <<[i \in 1..n |-> IF i = n THEN "0" ELSE "x"]>>) : n \in {16, 31, 32}}

NoReply == /\ reply = [head |-> "head", coding |-> "none", zeros |-> 0, chunks |-> <<>>]
           /\ peer = "absent" /\ coming = Wire(reply) /\ source = <<>> /\ body = <<>> /\ phase = "idle"
NoText == /\ CInit
          /\ result = Unread /\ root = "none" /\ outcome = "thrown" /\ mode = "json"
          /\ text = <<>> /\ res = <<>> /\ ptr = 0 /\ line = 0 /\ offset = 0

Init == (JInit /\ NoReply) \/ (NoText /\ HInit)
Next == (JNext /\ UNCHANGED hvars) \/ (HNext /\ UNCHANGED jvars)
Spec == Init /\ [][Next]_<<jvars, hvars>> /\ WF_jvars(Tokenize)
===============================================================================
