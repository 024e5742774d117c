------------------------------- MODULE MCScopes -------------------------------
(* Instances of Parser and Scopes for TLC. *)
EXTENDS Scopes

SeqsUpTo(S, n) == UNION {[1..k -> S] : k \in 0..n}

\* Token flows: every short one over a few tokens, and sequences of pieces.
Pieces == {
  <<"let", "x", "=", "1">>, <<"x", "=", "y", ".", "f">>, <<"f", "(", "x", ",", "1", ")">>,
  <<"(", "x", ",", "y", "=", "1", ")", "=>", "{", "return", "x", "\n", "}">>,
  <<"match", "(", "x", ")", "{", "1", ":", "y", ",", "_", ":", "x", "}">>,
  <<"@", "{", "const", "y", "=", "x", "\n", "y", "}">>, <<"{", "x", ",", "y", ":", "1", "}">>,
  <<"x", "[", "1", "]", "(", "y", ")">>, <<"(", "x", "+", "1", ")", "*", "2">>, <<"\n">>,
  <<"y", "=>", "y">>, <<"s", "?", "null", ":", "true">>, <<"!", "x">>}
Chains == {[i \in 1..(2 * n - 1) |-> IF i % 2 = 0 THEN op[i] ELSE IF i = 3 THEN "y" ELSE "x"] :
             n \in 1..4, op \in [{2, 4, 6} -> {"+", "-", "*", "/", "%", "==", "&&"}]}
MCTokens ==
  Chains \cup
  SeqsUpTo({"x", "1", "-1", "+", "*", "(", ")"}, 4) \cup SeqsUpTo({"x", "+", "*"}, 7)
  \cup SeqsUpTo({"x", "[", "]", ".", "(", ")", ","}, 4)
  \cup SeqsUpTo({"x", "?", ":", "!", "=", "\n"}, 4)
  \cup SeqsUpTo({"x", "=>", "{", "}", "(", ")", "return"}, 4)
  \cup {FlattenSeq(s) : s \in SeqsUpTo(Pieces, 2)}

\* Scripts: a setup, then some of the statements of a family in every order.
Orders(setup, S, n) ==
  {setup \o FlattenSeq(s) : s \in UNION {{t \in [1..k -> S] : Cardinality(Range(t)) = k} : k \in 1..n}}

\* Activations of one function, its inner function called later and queued.
MakeTwo == <<"const", "mk", "=", "a", "=>", "{", "const", "g", "=", "b", "=>", "a", "+", "b", "\n", "g", "}", "\n">>
Sharing == {
  <<"const", "u", "=", "mk", "(", "1", ")", "\n">>,
  <<"const", "w", "=", "mk", "(", "2", ")", "\n">>,
  <<"log", "(", "u", "(", "1", ")", ")", "\n">>,
  <<"log", "(", "w", "(", "u", "(", "2", ")", ")", ")", "\n">>,
  <<"runInMicroQueue", "(", "(", ")", "=>", "log", "(", "u", "(", "w", "(", "1", ")", ")", ")", ")", "\n">>}

\* Three functions deep.
Three == <<"const", "tri", "=", "c", "=>", "d", "=>", "e", "=>", "c", "+", "d", "\n">>
Deep == {
  <<"const", "h", "=", "tri", "(", "1", ")", "\n">>,
  <<"const", "i", "=", "h", "(", "2", ")", "\n">>,
  <<"const", "j", "=", "tri", "(", "2", ")", "(", "2", ")", "\n">>,
  <<"log", "(", "i", "(", "1", ")", ")", "\n">>,
  <<"log", "(", "j", "(", "1", ")", ")", "\n">>}

\* Objects, that closures share, and parameters with defaults.
Box ==
  <<"const", "obj", "=", "{", "k", ":", "1", "}", "\n", "const", "box", "=", "(", "o", ",", "m", "=", "2", ")", "=>", "{", "o", ".", "k", "=", "m",
    "\n", "{", "get", ":", "(", ")", "=>", "o", ".", "k", ",", "o", "}", "}", "\n">>
Objects == {
  <<"const", "u", "=", "box", "(", "obj", ")", "\n">>,
  <<"obj", ".", "k", "=", "box", "(", "{", "}", ",", "1", ")", ".", "get", "(", ")", "\n">>,
  <<"log", "(", "obj", ".", "k", ")", "\n">>,
  <<"runInMicroQueue", "(", "u", ".", "get", ")", "\n">>,
  <<"log", "(", "u", ".", "get", "(", ")", ")", "\n">>}

\* Conditions, matches, arrays, blocks and return.
Pick ==
  <<"const", "pick", "=", "n", "=>", "{", "return", "match", "(", "n", ")", "{", "1", ":", "2", ",",
    "n", "&&", "q", ":", "q", ",", "_", ":", "1", "}", "\n", "log", "(", "n", ")", "\n", "}", "\n">>
Control == {
  <<"const", "q", "=", "true", "\n">>,
  <<"@", "{", "const", "r", "=", "pick", "(", "2", ")", "\n", "log", "(", "r", "?", "1", ":", "2", ")", "}", "\n">>,
  <<"const", "arr", "=", "[", "pick", ",", "z", "=>", "z", "||", "2", "]", "\n">>,
  <<"log", "(", "arr", "[", "1", "]", "(", "null", ")", ")", "\n">>,
  <<"log", "(", "arr", "[", "0", "]", "(", "1", ")", ")", "\n">>}

MCScripts == Orders(MakeTwo, Sharing, 4) \cup Orders(Three, Deep, 4)
             \cup Orders(Box, Objects, 4) \cup Orders(Pick, Control, 4)

\* script/test/closure.as:3-11: the innermost function reads a variable that is
\* two functions outside.
ClosureTest == {
  <<"const", "create_closure", "=", "str", "=>", "{", "tt", "=>", "{", "ee", "=>", "str", "+", "tt", "}", "}", "\n",
    "const", "closure_fn", "=", "create_closure", "(", "1", ")", "\n",
    "log", "(", "closure_fn", "(", "2", ")", "(", "1", ")", ")", "\n">>}
===============================================================================
