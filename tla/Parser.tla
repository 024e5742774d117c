------------------------------- MODULE Parser -------------------------------
(***************************************************************************)
(* The parser (Parser.h): Compiler::ConstructAST reads a flow of tokens    *)
(* statement by statement; the Resolve operators are its recursive descent *)
(* and mean what the functions of the same name mean.  A token is its      *)
(* text (kw).  A result is the node and the position behind it, or a       *)
(* position that is no position: Thrown for THROW_TOKEN, Overrun where the *)
(* code follows an iterator past the end token, which is undefined.        *)
(***************************************************************************)
EXTENDS TokenFlow

CONSTANTS Flows,               \* the token flows read
          Names, Numbers,      \* the texts that are identifiers and numbers
          Strings              \* the texts that are string literals

VARIABLES toks,                \* token_flow
          iter,                \* where ConstructAST stands
          body                 \* Program::body

pvars == <<toks, iter, body>>

\* Token::Init and the operator tables.
expr_operator == {"?", "+", "-", "*", "/", "%", "==", "===", "!=", "!==", ">",
                  ">=", "<", "<=", "-=", "&&", "||", "..", "->", "|"}
expr_operator_unary == {"!", "~"}
mul_div == {"*", "/"}
StatementType == {"statement", "identifier", "functionDeclaration", "argument",
  "functionCall", "variableDeclaration", "numberLiteralInit", "stringLiteralInit",
  "nullLiteral", "boolLiteralInit", "conditionExpression", "binaryExpression",
  "unaryExpression", "assigmentStatement", "indexStatement", "index", "arrayInit",
  "objectInit", "entry", "blockStatment", "returnSatement", "matchStatment"}

\* The flow ends in the end token, whose text is empty; IsNumber holds of the
\* empty text and of a minus sign alone (util.cc:40-60).
End == Len(toks) + 1
Kw(i) == IF i \in 1..Len(toks) THEN toks[i] ELSE IF i = End THEN "" ELSE "undefined"
IsNumeric(k) == k \in Numbers \cup {"", "-"}
IsBool(k) == k \in {"true", "false"}
IsIdentifier(k) == k \in Names
IsLineEnd(k) == k \in {";", "\n", "\r"}
Negative(k) == k \in {"-1", "-2"}

\* A node: its class, its operator or name, its first token and its parts.
Node(t, x, s, ks) == [type |-> t, text |-> x, start |-> s, kids |-> ks]
Statement == Node("statement", "", "", <<>>)
Literal(k) ==
  Node(CASE IsNumeric(k) -> "numberLiteralInit"
         [] IsBool(k) -> "boolLiteralInit"
         [] k \in Strings -> "stringLiteralInit"
         [] OTHER -> "nullLiteral", k, k, <<>>)
IsLiteral(k) == IsNumeric(k) \/ IsBool(k) \/ k \in Strings \/ k = "null"
LiteralNode(n) == n.type \in {"numberLiteralInit", "boolLiteralInit", "stringLiteralInit"}

Res(n, i) == [node |-> n, at |-> i]
Fail(i) == Res(Statement, i)
\* An iterator that is followed to the token it points to.
Here(i) == IF i > End THEN Overrun ELSE i
Next(i) == IF Here(i) > 0 THEN i + 1 ELSE Here(i)
Expect(i, ks) == IF Here(i) <= 0 THEN Here(i) ELSE IF Kw(i) \in ks THEN i ELSE Thrown

CalcEndBrackets(i) == IF Here(i) <= 0 THEN Here(i) ELSE ClosingBracket(toks, i)

\* Skip, GetNextNotEmptyToken: the end token is not empty.
RECURSIVE SkipAll(_, _)
SkipAll(i, empty) ==
  IF Here(i) > 0 /\ Kw(i) \in empty THEN SkipAll(i + 1, empty) ELSE Here(i)
Skip(i) == SkipAll(i, {"\n"})
GetNextNotEmptyToken(i) == SkipAll(i, {"\n", " ", "\t"})

RECURSIVE ResolveExecutableStatment(_), UntilNotEmpty(_), SeekIfExpr(_, _),
          ResolveExpr(_, _), ResolveIndex(_, _, _), Arguments(_, _, _),
          ResolveFuncCall(_, _, _), Parameters(_, _, _), ResolveFunction(_),
          Statements(_, _, _), Pairs(_, _, _, _), Elements(_, _), Entries(_, _),
          Dispatch(_)

UntilNotEmpty(i) ==
  LET Found(r) == IF r.at > 0 /\ r.node.type = "statement" THEN UntilNotEmpty(r.at) ELSE r
  IN  Found(ResolveExecutableStatment(i))

\* Mutant: priorities are not looked at.
ResolveExprRight(left, i) ==
  LET q == GetNextNotEmptyToken(i)
      right == ResolveExecutableStatment(i + 1)
  IN  IF Kw(q) = "?" \/ Kw(q) \in expr_operator_unary THEN Fail(Thrown)
      ELSE Res(Node("binaryExpression", Kw(i), Kw(i), <<left, right.node>>), right.at)

\* ResolveExpr: the ternary, the unary and the binary operators.  A binary
\* operator takes all that follows as its right operand; when that is a binary
\* expression of lower priority, its left operand is taken over.
ResolveExpr(left, i) ==
  LET q == GetNextNotEmptyToken(i)
      pri(k) == IF k \in mul_div THEN 2 ELSE 1
      Bin(o, l, r) == Node("binaryExpression", o, Kw(i), <<l, r>>)
      Ternary(yes, no) == Res(Node("conditionExpression", "?", Kw(i), <<left, yes.node, no.node>>), no.at)
      Then(yes) == Ternary(yes, UntilNotEmpty(Next(Expect(GetNextNotEmptyToken(yes.at), {":"}))))
      Unary(r) == Res(Node("unaryExpression", Kw(q), "", <<r.node>>), r.at)
      Binary(r, n2) ==
        IF r.at > 0 /\ n2.type = "binaryExpression" /\ pri(n2.text) < pri(Kw(i))
        THEN Res(Bin(n2.text, Bin(Kw(i), left, n2.kids[1]), n2.kids[2]), r.at)
        ELSE Res(Bin(Kw(i), left, n2), r.at)
      Right(r) == Binary(r, r.node)
  IN  IF Kw(q) = "?" THEN Then(UntilNotEmpty(q + 1))
      ELSE IF Kw(q) \in expr_operator_unary THEN Unary(UntilNotEmpty(q + 1))
      ELSE Right(ResolveExecutableStatment(i + 1))

\* ResolveSubNumberLiteral: the tokens x -1 mean x + -1.
ResolveSubNumberLiteral(left, i) ==
  LET r == ResolveExecutableStatment(i)
  IN  Res(Node("binaryExpression", "+", Kw(i), <<left, r.node>>), r.at)

\* ResolveIndex: .name, [expression] and (arguments), as many as follow; an
\* operator behind them is not looked for.
ResolveIndex(start, kids, i) ==
  LET with(t, n) == Append(kids, Node("index", t, "", <<n>>))
      n == Expect(Next(i), Names)
      upto(j, t, m) == IF j <= 0 THEN Fail(j) ELSE ResolveIndex(start, with(t, m), Next(j))
      Bracket(e) == upto(Expect(e.at, {"]"}), "index", e.node)
      Called(c) == upto(c.at, "call", c.node)
  IN  CASE Here(i) <= 0 -> Fail(Here(i))
        [] Kw(i) = "." -> upto(n, "property", Node("identifier", Kw(n), Kw(n), <<>>))
        [] Kw(i) = "[" -> Bracket(ResolveExecutableStatment(Next(i)))
        [] Kw(i) = "(" -> Called(ResolveFuncCall(Statement, i, FALSE))
        [] OTHER -> Res(Node("indexStatement", "", start, kids), i)

\* ResolveFuncCall: with "seek", what follows the call is folded into it.
Arguments(i, end, args) ==
  LET r == ResolveExecutableStatment(i)
      more == Append(args, r.node)
  IN  IF i = end THEN Res(Node("functionCall", "", "(", args), i)
      ELSE IF Here(r.at) <= 0 THEN Fail(Here(r.at))
      ELSE IF Kw(r.at) = "," THEN Arguments(r.at + 1, end, more)
      ELSE IF r.at = end THEN Res(Node("functionCall", "", "(", more), end)
      ELSE Fail(Thrown)
ResolveFuncCall(func, i, seek) ==
  LET Followed(r) == IF ~seek \/ r.at <= 0 THEN r ELSE SeekIfExpr(r.node, r.at)
      Upto(end) == IF end <= 0 THEN Fail(end) ELSE Followed(Arguments(i + 1, end, <<func>>))
  IN  Upto(CalcEndBrackets(i))

\* Mutant: the token behind the expression is skipped.
SeekIfExprSkips(left, i) == IF Here(i + 2) <= 0 THEN Fail(Here(i + 2)) ELSE Res(left, i + 2)

SeekIfExpr(left, i) ==
  LET n == Next(i)
  IN  CASE Here(n) <= 0 -> Fail(Here(n))
        [] Kw(n) \in expr_operator \/ Kw(GetNextNotEmptyToken(n)) = "?" -> ResolveExpr(left, n)
        [] Kw(n) = "(" /\ ~LiteralNode(left) -> ResolveFuncCall(left, n, TRUE)
        [] Negative(Kw(n)) -> ResolveSubNumberLiteral(left, n)
        [] Kw(n) \in {".", "["} -> ResolveIndex(Kw(n), <<Node("index", "property", "", <<left>>)>>, n)
        [] OTHER -> Res(left, n)

\* ResolveFunction: parameters with optional defaults, then a block, whose
\* statements are dispatched up to the bracket found first, or an expression.
Parameters(i, args, defaults) ==
  LET named == IsIdentifier(Kw(i))
      given == named /\ Kw(Next(i)) = "="
      r == IF given THEN ResolveExecutableStatment(i + 2) ELSE Res(Statement, Next(i))
      at == IF named THEN r.at ELSE i
      more == Append(args, Node("argument", Kw(i), "", IF given THEN <<r.node>> ELSE <<>>))
  IN  IF Here(at) <= 0 THEN Fail(Here(at))
      ELSE IF named /\ defaults /\ ~given THEN Fail(Thrown)
      ELSE IF named /\ Kw(at) = "," THEN Parameters(at + 1, more, defaults \/ given)
      ELSE IF Kw(at) = ")" THEN Res(Node("functionDeclaration", "", "", IF named THEN more ELSE args), at)
      ELSE Fail(Thrown)
Statements(i, end, stats) ==
  LET More(r) ==
        IF r.at <= 0 THEN r
        ELSE Statements(r.at, end, IF r.node.type = "statement" THEN stats ELSE Append(stats, r.node))
  IN  IF i = end THEN Res(Node("blockStatment", "", "", stats), Next(end)) ELSE More(Dispatch(i))
Block(i, end) == IF end <= 0 THEN Fail(end) ELSE Statements(i + 1, end, <<>>)
ResolveFunction(i) ==
  LET Made(params, stats, at) == Res(Node("functionDeclaration", ToString(i), Kw(i), params \o stats), at)
      Bare(params, r, b) == Made(params, <<[r.node EXCEPT !.start = Kw(b)]>>, r.at)
      Braced(params, r) == Made(params, r.node.kids, r.at)
      Behind(params, b) == IF Kw(b) = "{" THEN Braced(params, Block(b, CalcEndBrackets(b)))
                           ELSE Bare(params, ResolveExecutableStatment(b), b)
      With(p) == Behind(p.node.kids, Next(Expect(Next(p.at), {"=>"})))
  IN  IF IsIdentifier(Kw(i)) THEN With(Res(Node("functionDeclaration", "", "", <<Node("argument", Kw(i), "", <<>>)>>), i))
      ELSE With(Parameters(i + 1, <<>>, FALSE))

ResolveBlock(i) ==
  LET Braced(b) == Block(b, CalcEndBrackets(b))
  IN  Braced(Expect(Next(i), {"{"}))

\* ResolvePartternMatch: pairs of a condition and a value, one of them for _.
Pairs(i, end, default, kids) ==
  LET Further(n, d, ks) ==
        CASE n <= 0 -> Fail(n)
          [] n > 0 /\ n # end -> LET j == Next(Expect(n, {","}))
                                 IN  IF j <= 0 THEN Fail(j) ELSE Pairs(j, end, d, ks)
          [] n = end /\ d = <<>> -> Fail(Thrown)
          [] OTHER -> Res(Node("matchStatment", "", "match", d \o ks), n + 1)
      Pair(c, v) == IF c.node.start = "_" THEN Further(GetNextNotEmptyToken(v.at), <<v.node>>, kids)
                    ELSE Further(GetNextNotEmptyToken(v.at), default, kids \o <<c.node, v.node>>)
      After(c) == Pair(c, ResolveExecutableStatment(Next(Expect(c.at, {":"}))))
  IN  After(ResolveExecutableStatment(GetNextNotEmptyToken(i)))
ResolvePartternMatch(i) ==
  LET With(arg, r) == Res([r.node EXCEPT !.kids = <<arg.node>> \o @], r.at)
      Cases(arg, b, end) == IF end <= 0 THEN Fail(end) ELSE With(arg, Pairs(b + 1, end, <<>>, <<>>))
      Of(arg, b) == Cases(arg, b, CalcEndBrackets(b))
      Behind(arg) == Of(arg, Next(arg.at))
  IN  Behind(Dispatch(i + 2))

\* Mutant: the bracket is left to the next statement.
ElementsOpen(i, kids) ==
  LET r == ResolveExecutableStatment(i)
      more == Append(kids, r.node)
  IN  IF Here(r.at) <= 0 THEN Fail(Here(r.at))
      ELSE IF Kw(r.at) = "," THEN Elements(r.at + 1, more)
      ELSE IF Kw(r.at) = "]" THEN Res(Node("arrayInit", "", "", more), r.at)
      ELSE Fail(Thrown)

Elements(i, kids) ==
  LET r == ResolveExecutableStatment(i)
      more == Append(kids, r.node)
  IN  IF Here(r.at) <= 0 THEN Fail(Here(r.at))
      ELSE IF Kw(r.at) = "," THEN Elements(r.at + 1, more)
      ELSE IF Kw(r.at) = "]" THEN Res(Node("arrayInit", "", "", more), r.at + 1)
      ELSE Fail(Thrown)
ResolveArrayInit(i) ==
  LET Start(r) == Res([r.node EXCEPT !.start = Kw(i + 1)], r.at)
  IN  Start(IF Kw(i + 1) = "]" THEN Res(Node("arrayInit", "", "", <<>>), i + 2) ELSE Elements(i + 1, <<>>))

\* ResolveObjectInit: a key without a colon is its own value; an entry of the
\* same key is replaced.
Entries(i, kids) ==
  LET k == Expect(Skip(i), Names \cup Strings)
      a == Skip(Next(k))
      short == Kw(a) \in {",", "}"}
      r == IF short THEN Res(ResolveExecutableStatment(k).node, a)
           ELSE ResolveExecutableStatment(Next(Expect(a, {":"})))
      n == Skip(r.at)
      more == Append(SelectSeq(kids, LAMBDA e : e.text # Kw(k)), Node("entry", Kw(k), "", <<r.node>>))
  IN  CASE n <= 0 -> Fail(n)
        [] Kw(n) = "," -> Entries(n + 1, more)
        [] Kw(n) = "}" -> Res(Node("objectInit", "", "", more), n + 1)
        [] OTHER -> Fail(Thrown)
ResolveObjectInit(i) ==
  LET Start(r) == Res([r.node EXCEPT !.start = Kw(i + 1)], r.at)
  IN  Start(IF Kw(i + 1) = "}" THEN Res(Node("objectInit", "", "", <<>>), i + 2) ELSE Entries(i + 1, <<>>))

\* A bracketed expression: what is behind its first expression is ignored, and
\* of what follows the bracket only a binary operator is folded.
Parenthesis(i) ==
  LET n == Next(CalcEndBrackets(i))
      r == ResolveExecutableStatment(i + 1)
  IN  IF Here(n) <= 0 THEN Fail(Here(n))
      ELSE IF Kw(n) = "=>" THEN ResolveFunction(i)
      ELSE IF r.at <= 0 THEN r
      ELSE IF Kw(n) \in expr_operator THEN ResolveExpr(r.node, n)
      ELSE Res(r.node, n)

ResolveExecutableStatment(i) ==
  LET k == Kw(i)
      Behind(arr) == IF arr.at <= 0 THEN arr ELSE SeekIfExpr(arr.node, arr.at - 1)
  IN  CASE Here(i) <= 0 -> Fail(Here(i))
        [] k = "(" -> Parenthesis(i)
        [] k = "@" -> ResolveBlock(i)
        [] k = "[" -> Behind(ResolveArrayInit(i))
        [] k = "match" -> ResolvePartternMatch(i)
        [] k = "{" -> ResolveObjectInit(i)
        [] IsLiteral(k) -> SeekIfExpr(Literal(k), i)
        [] IsIdentifier(k) -> IF Kw(i + 1) = "=>" THEN ResolveFunction(i)
                              ELSE SeekIfExpr(Node("identifier", k, k, <<>>), i)
        [] IsLineEnd(k) -> Res(Statement, i + 1)
        [] k \in expr_operator_unary -> ResolveExpr(Statement, i)
        [] OTHER -> Fail(Thrown)

ResolveDeclearStatment(i) ==
  LET a == Next(Next(i))
      Decl(ks) == Node("variableDeclaration", Kw(i + 1), Kw(i), ks)
      To(r) == Res(Decl(<<r.node>>), r.at)
  IN  CASE Here(a) <= 0 -> Fail(Here(a))
        [] IsLineEnd(Kw(a)) \/ a = End -> Res(Decl(<<>>), a)
        [] Kw(a) = "=" -> To(ResolveExecutableStatment(Next(a)))
        [] OTHER -> Fail(Thrown)

ResolveReturn(i) ==
  LET Of(r) == Res(Node("returnSatement", "", "", <<r.node>>), r.at)
  IN  IF Kw(i + 1) = "\n" THEN Res(Node("returnSatement", "", "", <<>>), i + 1)
      ELSE Of(ResolveExecutableStatment(i + 1))

ResovleAssigmentOrIdentify(i) ==
  LET EndsInCall(n) == n.type = "indexStatement" /\ Last(n.kids).text = "call"
      To(r, v) == Res(Node("assigmentStatement", "", Kw(i), <<r.node, v.node>>), v.at)
      Left(r) ==
        CASE Here(r.at) <= 0 -> Fail(Here(r.at))
          [] r.node.type \notin {"identifier", "indexStatement"} \/ Kw(r.at) # "=" -> r
          [] EndsInCall(r.node) -> Fail(Thrown)
          [] OTHER -> To(r, ResolveExecutableStatment(Next(r.at)))
  IN  Left(ResolveExecutableStatment(i))

Dispatch(i) ==
  CASE Here(i) <= 0 -> Fail(Here(i))
    [] Kw(i) \in {"let", "const"} -> ResolveDeclearStatment(i)
    [] IsIdentifier(Kw(i)) -> ResovleAssigmentOrIdentify(i)
    [] Kw(i) = "return" -> ResolveReturn(i)
    [] OTHER -> ResolveExecutableStatment(i)

-----------------------------------------------------------------------------
(* ConstructAST.                                                           *)

PInit == toks \in Flows /\ iter = 1 /\ body = <<>>

SkipLineEnd ==
  /\ iter \in 1..Len(toks) /\ IsLineEnd(Kw(iter))
  /\ iter' = iter + 1
  /\ UNCHANGED <<toks, body>>

\* Mutant: what was read of a statement is kept when the rest throws.
AcceptAnyway ==
  /\ iter \in 1..Len(toks) /\ ~IsLineEnd(Kw(iter))
  /\ LET r == Dispatch(iter)
     IN  /\ iter' = Here(r.at)
         /\ body' = IF r.node.type = "statement" THEN body ELSE Append(body, r.node)
  /\ UNCHANGED toks

Accept ==
  /\ iter \in 1..Len(toks) /\ ~IsLineEnd(Kw(iter))
  /\ \E r \in {Dispatch(iter)} :
         /\ iter' = Here(r.at)
         /\ body' = IF r.at <= 0 \/ r.node.type = "statement" THEN body
                    ELSE Append(body, r.node)
  /\ UNCHANGED toks

PNext == SkipLineEnd \/ Accept

PSpec == PInit /\ [][PNext]_pvars

-----------------------------------------------------------------------------
(* Properties.                                                             *)

PTypeOK ==
  /\ iter \in {Thrown, Overrun} \cup 1..End
  /\ \A n \in Range(body) : n.type \in StatementType

Atoms == {"identifier", "numberLiteralInit", "stringLiteralInit", "nullLiteral", "boolLiteralInit"}
Named == {"argument", "variableDeclaration"}
IsOperand(k) == IsIdentifier(k) \/ k \in Numbers \cup Strings \/ IsBool(k) \/ k = "null"

RECURSIVE Operands(_), NodesOf(_)
Operands(n) == (IF n.type \in Atoms \cup Named THEN <<n.text>> ELSE <<>>)
               \o FlattenSeq([i \in 1..Len(n.kids) |-> Operands(n.kids[i])])
NodesOf(n) == {n} \cup UNION {NodesOf(n.kids[i]) : i \in 1..Len(n.kids)}

Program == Node("blockStatment", "", "", body)
Written == SelectSeq(SubSeq(toks, 1, iter - 1), IsOperand)
\* A sequence of which t keeps some elements, in their order.
RECURSIVE Keeps(_, _)
Keeps(t, s) == \/ t = <<>>
               \/ s # <<>> /\ IF Head(t) = Head(s) THEN Keeps(Tail(t), Tail(s)) ELSE Keeps(t, Tail(s))

\* The operands of the program are those of the source, in the order of the
\* source, whatever the priorities exchange (743-750): none is lost, except
\* what a bracketed expression ignores.  Objects and matches have an order of
\* their own.
InOrder ==
  iter > 0 /\ (\A n \in NodesOf(Program) : n.type \notin {"objectInit", "matchStatment"})
    => /\ Keeps(Operands(Program), Written)
       /\ "(" \notin Range(toks) => Operands(Program) = Written

\* The tree of a chain of operands and binary operators: a run of * and / is an
\* operand of the others, and what is of one rank is grouped from the right.
BinaryChain(s) == /\ s # <<>> /\ Len(s) % 2 = 1
                  /\ \A i \in 1..Len(s) : IF i % 2 = 1 THEN IsOperand(s[i]) ELSE s[i] \in expr_operator \ {"?"}
RECURSIVE Grouped(_), Shape(_)
Grouped(s) ==
  LET lower == {i \in 2..Len(s) : i % 2 = 0 /\ s[i] \notin mul_div}
      at == IF lower = {} THEN 2 ELSE Min(lower)
  IN  IF Len(s) = 1 THEN s ELSE <<s[at], Grouped(SubSeq(s, 1, at - 1)), Grouped(SubSeq(s, at + 1, Len(s)))>>
Shape(n) == IF n.type = "binaryExpression" THEN <<n.text, Shape(n.kids[1]), Shape(n.kids[2])>> ELSE <<n.text>>
ChainsAreGrouped == BinaryChain(toks) /\ iter = End => Len(body) = 1 /\ Shape(body[1]) = Grouped(toks)

\* What the tree of an expression is, for any number of operators: the one exchange
\* of ResolveExpr per operator loses and reorders no operand, and it is enough to put
\* * and / before all others.  It is all there is of precedence, and it is not
\* the usual one (a known issue, README.md:92): within a rank the right comes
\* first, 8/4/2 is 8/(4/2) and 1-2-3 is 1-(2-3); %, comparisons and logical
\* operators have the rank of +, a%b+c is a%(b+c) and a+b==c is a+(b==c); and a
\* unary operator takes all that follows, !a&&b is !(a&&b).
OperatorsAreFolded == InOrder /\ ChainsAreGrouped

Declares == \A i \in 1..Len(toks) : Kw(i) \in {"let", "const"} => IsIdentifier(Kw(i + 1))

\* In a source whose brackets are nested, no statement ends inside brackets,
\* though CalcEndBrackets counts one kind of bracket only.
StatementsAreWhole ==
  iter > 0 /\ Nested(toks) /\ Declares => Nested(SubSeq(toks, 1, iter - 1))

\* The end token is passed only by a source with an open bracket or with
\* nothing behind a word that needs something.
Unfinished == LET s == SelectSeq(toks, LAMBDA k : ~IsLineEnd(k))
              IN  s # <<>> /\ Last(s) \in expr_operator \cup expr_operator_unary
                    \cup {"=", "=>", ".", ":", ",", "let", "const", "return", "match", "@"}
NeverPastTheEnd == PTypeOK /\ (iter = Overrun => Unfinished \/ ~Nested(toks))

\* Every statement takes at least a token, and its result is kept only when it
\* was read to its end: so parsing ends, for every flow of tokens.
StatementsConsume ==
  [][\/ iter' > iter
     \/ iter' \in {Thrown, Overrun} /\ body' = body]_pvars
=============================================================================
