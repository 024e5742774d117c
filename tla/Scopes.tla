------------------------------- MODULE Scopes -------------------------------
(***************************************************************************)
(* What names mean when a script runs (Runtime.h): the frames of ctx_stack *)
(* and their variables, the closures that ResolveFuncDeclear makes from    *)
(* what its visitor found in a function, and the lookups.  The interpreter *)
(* runs what the parser made of the tokens, statement by statement, then   *)
(* the functions that were queued.  Beside it "ideal" runs the same script *)
(* with static scopes: there a function keeps the scopes it was made in.   *)
(*                                                                         *)
(* Eval(n, s) is the VM after the evaluation of node n in VM s; the    *)
(* value is in its field v.  C++ values are numbers, null, functions,      *)
(* objects and arrays; a global function "log" records what is observed.   *)
(***************************************************************************)
EXTENDS Parser

CONSTANTS Scripts,             \* the flows that are run, those of Flows are parsed only
          Uninit               \* names whose closures' stack_offset is followed

VARIABLES pc,                  \* the next statement of body, 0 if it is not run
          vm, ideal,           \* the VM of the code, and the one with static scopes
          garbage              \* the names whose uninitialised stack_offset is not 0

svars == <<toks, iter, body, pc, vm, ideal, garbage>>

Value(t, v) == [t |-> t, v |-> v]
Null == Value("null", 0)
NotFound == Value("none", 0)
Native == [log |-> Value("function", -1), runInMicroQueue |-> Value("function", -2)]
ToBool(x) == x.t \in {"function", "object", "array"} \/ (x.t \in {"number", "boolean"} /\ x.v # 0)

\* A Closure: a captured value, or a name that is "offset" frames below.
From(x, kw) == [initialed |-> TRUE, val |-> x, offset |-> IF kw \in garbage THEN 1 ELSE 0]
Pending(offset) == [initialed |-> FALSE, val |-> Null, offset |-> offset]
ClosureMemory(map, children) == [map |-> map, children |-> children]
Empty == <<>>

\* A frame: its variables in scopes[var], its function's closure; for the ideal
\* VM the scopes around it, innermost first.
Context(var, closure, env) == [var |-> var, closure |-> closure, env |-> env]
VM(lexical) ==
  [v |-> Null, ctx |-> <<Context(1, Empty, <<1>>)>>, scopes |-> <<Native>>, heap |-> <<>>,
   func_mem |-> <<>>, closure_mem |-> Empty, curr_scope_return |-> FALSE,
   micro_task_queue |-> <<>>, out |-> <<>>, lexical |-> lexical, outcome |-> "running"]

CurrCtx(s) == s.ctx[Len(s.ctx)]
CurrScope(s) == s.scopes[CurrCtx(s).var]
Yield(s, x) == [s EXCEPT !.v = x]
Throw(s) == [s EXCEPT !.outcome = "thrown"]
Undefined(s) == [s EXCEPT !.outcome = "undefined"]
Runs(s) == s.outcome = "running"
Set(f, k, x) == (k :> x) @@ f

-----------------------------------------------------------------------------
(* Lookups.                                                                *)

\* The scopes that have the name, by frame; or by distance, for the ideal VM.
Frames(kw, s) == {i \in 1..Len(s.ctx) : kw \in DOMAIN s.scopes[s.ctx[i].var]}
Around(kw, s) == {i \in 1..Len(CurrCtx(s).env) : kw \in DOMAIN s.scopes[CurrCtx(s).env[i]]}
Visible(kw, s) == IF Around(kw, s) = {} THEN NotFound
                  ELSE s.scopes[CurrCtx(s).env[Min(Around(kw, s))]][kw]

\* GetValue(String): the closure of the frame, if the entry's stack_offset is
\* not 0, then the frames from the top.  A captured entry's is uninitialised.
GetValue(kw, s) ==
  LET c == CurrCtx(s).closure
  IN  IF s.lexical THEN Visible(kw, s)
      ELSE IF kw \in DOMAIN c /\ c[kw].offset # 0 THEN c[kw].val
      ELSE IF Frames(kw, s) = {} THEN NotFound
      ELSE s.scopes[s.ctx[Max(Frames(kw, s))].var][kw]
ValueOrUndef(kw, s) == IF GetValue(kw, s) = NotFound THEN Null ELSE GetValue(kw, s)

\* ResolveIdentifier: an entry of the closure decides, GetValue(Closure).
Identifier(kw, s) ==
  LET c == CurrCtx(s).closure
      below == s.scopes[s.ctx[Len(s.ctx) - c[kw].offset].var]
  IN  IF s.lexical \/ kw \notin DOMAIN c THEN GetValue(kw, s)
      ELSE IF c[kw].initialed THEN c[kw].val
      ELSE IF kw \in DOMAIN below THEN below[kw] ELSE NotFound

\* SetValue looks from the bottom frame up, and at no closure.
SetValue(kw, x, s) ==
  LET var == IF s.lexical THEN CurrCtx(s).env[Min(Around(kw, s))] ELSE s.ctx[Min(Frames(kw, s))].var
  IN  IF (IF s.lexical THEN Around(kw, s) ELSE Frames(kw, s)) = {} THEN Throw(s)
      ELSE [s EXCEPT !.scopes[var][kw] = x, !.v = x]

-----------------------------------------------------------------------------
(* ResolveFuncDeclear.  The visitor goes through a function the first time *)
(* its declaration is evaluated: r is [closure, scopes, mem, bad], scopes  *)
(* the names of virtual_ctx_stack.                                         *)

RECURSIVE Visitor(_, _, _)
Visit(ns, r, s) == FoldLeft(LAMBDA a, n : Visitor(n, a, s), r, ns)
Push(r, names) == [r EXCEPT !.scopes = Append(@, names)]
Pop(r) == [r EXCEPT !.scopes = Front(@)]
Save(r, kw, s) ==
  LET at == {i \in 1..Len(r.scopes) : kw \in r.scopes[i]}
      entry == IF at # {} THEN Pending(Len(r.scopes) - Max(at)) ELSE From(GetValue(kw, s), kw)
  IN  IF at = {} /\ GetValue(kw, s) = NotFound THEN r
      ELSE [r EXCEPT !.closure.map = Set(@, kw, entry)]
Formals(n) == SelectSeq(n.kids, LAMBDA k : k.type = "argument")
Body(n) == SelectSeq(n.kids, LAMBDA k : k.type # "argument")

\* Neither return statements nor matches are gone into.  A called expression is
\* taken for an identifier, whatever it is.
Visitor(n, r, s) ==
  CASE n.type = "identifier" -> Save(r, n.text, s)
    [] n.type = "functionCall" ->
         LET a == Visit(Tail(n.kids), r, s)
         IN  IF Head(n.kids).type = "identifier" THEN Save(a, Head(n.kids).text, s)
             ELSE [a EXCEPT !.bad = TRUE]
    [] n.type = "indexStatement" ->
         LET base == n.kids[1].kids[1]
             a == IF base.type = "identifier" THEN Save(r, base.text, s) ELSE r
             inside(k) == CASE k.text = "index" -> k.kids
                            [] k.text = "call" -> Tail(k.kids[1].kids)
                            [] OTHER -> <<>>
         IN  Visit(FlattenSeq([i \in 1..(Len(n.kids) - 1) |-> inside(n.kids[i + 1])]), a, s)
    [] n.type = "assigmentStatement" -> Visit(<<n.kids[2], n.kids[1]>>, r, s)
    [] n.type = "variableDeclaration" ->
         Visit(n.kids, [r EXCEPT !.scopes[Len(r.scopes)] = @ \cup {n.text}], s)
    [] n.type = "blockStatment" -> Pop(Visit(n.kids, Push(r, {}), s))
    [] n.type = "functionDeclaration" ->
         LET names == {a.text : a \in Range(Formals(n))}
             defaults == FlattenSeq([i \in 1..Len(Formals(n)) |-> Formals(n)[i].kids])
             a == Visit(defaults \o Body(n), Push([r EXCEPT !.closure = ClosureMemory(Empty, Empty)], names), s)
         IN  [Pop(a) EXCEPT !.closure = ClosureMemory(r.closure.map, Set(r.closure.children, n.text, a.closure)),
                            !.mem = Set(@, n.text, a.closure)]
    [] n.type \in {"conditionExpression", "unaryExpression", "binaryExpression", "arrayInit", "objectInit", "entry"} ->
         Visit(n.kids, r, s)
    [] OTHER -> r

RECURSIVE Open(_, _)
\* Mutant: one function too deep.
OpenDeeper(m, deep) ==
  {kw \in DOMAIN m.map : ~m.map[kw].initialed /\ m.map[kw].offset > deep}
    \cup UNION {Open(m.children[p], deep + 1) : p \in DOMAIN m.children}

\* What the visitor left open in a function, or in one inside it, and what its
\* frame does not have: these names are captured when the function is made.
Open(m, deep) ==
  {kw \in DOMAIN m.map : ~m.map[kw].initialed /\ m.map[kw].offset >= deep}
    \cup UNION {Open(m.children[p], deep + 1) : p \in DOMAIN m.children}

\* The first function made of a declaration that no visitor has met has no
\* closure at all; the entry it leaves has none, either.
ResolveFuncDeclear(n, s) ==
  LET known == n.text \in DOMAIN s.closure_mem
      m == s.closure_mem[n.text]
      open == Open(m, 1)
      r == Visitor(n, [closure |-> ClosureMemory(Empty, Empty), scopes |-> <<>>,
                       mem |-> s.closure_mem, bad |-> FALSE], s)
      closure == IF s.lexical \/ ~known THEN Empty
                 ELSE [kw \in DOMAIN m.map \cup open |->
                         IF kw \in open THEN From(ValueOrUndef(kw, s), kw) ELSE m.map[kw]]
      made == [s EXCEPT !.func_mem = Append(@, [src |-> n, closure |-> closure, env |-> CurrCtx(s).env]),
                        !.closure_mem = IF s.lexical \/ known THEN @ ELSE Set(r.mem, n.text, r.closure),
                        !.v = Value("function", Len(s.func_mem) + 1)]
  IN  IF ~s.lexical /\ ~known /\ r.bad THEN Undefined(s) ELSE made

-----------------------------------------------------------------------------
(* Evaluation.                                                             *)

RECURSIVE Eval(_, _), Same(_, _, _)

\* Several nodes from left to right; the values are in vs.
Each(ns, s) ==
  LET And(vs, r) == [s |-> r, vs |-> Append(vs, r.v)]
  IN  FoldLeft(LAMBDA a, n : And(a.vs, Eval(n, a.s)), [s |-> s, vs |-> <<>>], ns)
Sequence(ns, s) == FoldLeft(LAMBDA a, n : Eval(n, a), Yield(s, Null), ns)

\* The statements of a body, up to the first after which the flag is set.
RunBody(ns, s) ==
  LET Behind(r) == [s |-> [r EXCEPT !.curr_scope_return = FALSE], cut |-> r.curr_scope_return]
  IN  FoldLeft(LAMBDA a, n : IF a.cut THEN a ELSE Behind(Eval(n, a.s)),
               [s |-> Yield(s, Null), cut |-> FALSE], ns).s

PushContext(s, closure, env) ==
  LET var == Len(s.scopes) + 1
  IN  [s EXCEPT !.scopes = Append(@, Empty), !.ctx = Append(@, Context(var, closure, <<var>> \o env))]
PopContext(s) == IF Runs(s) THEN [s EXCEPT !.ctx = Front(@)] ELSE s

\* A parameter without an argument takes its default, evaluated in s.
Bind(params, args, s, var) ==
  LET To(i, x, a) == [a EXCEPT !.scopes[var] = Set(@, params[i].text, x)]
      Default(i, d) == To(i, d.v, d)
  IN  FoldLeft(LAMBDA a, i : IF ~Runs(a) THEN a
                             ELSE IF i <= Len(args) THEN To(i, args[i], a)
                             ELSE IF params[i].kids = <<>> THEN Throw(a)
                             ELSE Default(i, Eval(params[i].kids[1], a)),
               s, [i \in 1..Len(params) |-> i])

CallNative(f, args, s) ==
  LET arg == IF args = <<>> THEN Null ELSE args[1]
  IN  IF f = Native.log THEN [s EXCEPT !.out = Append(@, arg), !.v = Null]
      ELSE IF arg.t # "function" THEN Throw(s)
      ELSE [s EXCEPT !.micro_task_queue = Append(@, arg), !.v = Null]

\* ResolveFuncCall: the arguments in the caller's frame, the defaults in the new one.
Call(f, args, s) ==
  LET fn == s.func_mem[f.v]
      In(e) == Bind(Formals(fn.src), args, e, CurrCtx(e).var)
  IN  IF ~Runs(s) THEN s
      ELSE IF f.t # "function" THEN Throw(s)
      ELSE IF f.v < 0 THEN CallNative(f, args, s)
      ELSE PopContext(RunBody(Body(fn.src), In(PushContext(s, fn.closure, fn.env))))

\* FuncCall, from C++: the defaults are evaluated before the frame is pushed.
FuncCall(f, args, s) ==
  LET fn == s.func_mem[f.v]
      Entered(e, b) == [b EXCEPT !.ctx = Append(@, CurrCtx(e))]
      In(e) == Entered(e, Bind(Formals(fn.src), args, [e EXCEPT !.ctx = s.ctx], CurrCtx(e).var))
  IN  IF s.lexical \/ f.v < 0 THEN Call(f, args, s)
      ELSE PopContext(RunBody(Body(fn.src), In(PushContext(s, fn.closure, fn.env))))

\* Value::operator==.
Same(x, y, s) ==
  \/ x = y
  \/ /\ x.t = y.t /\ x.t \in {"object", "array"}
     /\ DOMAIN s.heap[x.v] = DOMAIN s.heap[y.v]
     /\ \A k \in DOMAIN s.heap[x.v] : Same(s.heap[x.v][k], s.heap[y.v][k], s)

\* ResolvePatternMatch: the pairs <<condition, value>> of ks from i on.
RECURSIVE Match(_, _, _, _)
Match(ks, i, arg, s) ==
  LET c == Eval(ks[i], s)
      part == ks[i].type \in {"objectInit", "arrayInit"} /\ arg.t = c.v.t
      has == \A k \in DOMAIN c.heap[c.v.v] :
               k \in DOMAIN c.heap[arg.v] /\ Same(c.heap[arg.v][k], c.heap[c.v.v][k], c)
      hit == IF part THEN has
             ELSE IF ks[i].type = "nullLiteral" \/ LiteralNode(ks[i]) THEN Same(c.v, arg, c)
             ELSE ToBool(c.v)
  IN  IF i > Len(ks) THEN Eval(ks[2], s)
      ELSE IF ~Runs(c) THEN c
      ELSE IF hit THEN Eval(ks[i + 1], c) ELSE Match(ks, i + 2, arg, c)

\* ResolveObjectIndex from index i on, of the value s.v; the last one is set to
\* the values of "set".  Reading a property that an object lacks creates it; a
\* function is called for any of its members, and those of other values are not
\* modelled.
RECURSIVE Index(_, _, _, _)
Index(ks, i, set, s) ==
  LET par == s.v
      k == ks[i]
      given == set # <<>> /\ i = Len(ks)
      key == k.kids[1].text
      obj == s.heap[par.v]
      x == IF given THEN set[1] ELSE IF key \in DOMAIN obj THEN obj[key] ELSE Null
      e == Eval(k.kids[1], s)
      at == e.v.v + 1
      args == Each(Tail(k.kids[1].kids), s)
  IN  CASE ~Runs(s) \/ i > Len(ks) -> s
        [] k.text = "property" ->
             IF i < Len(ks) /\ ks[i + 1].text = "call" /\ (par.t # "object" \/ key \notin DOMAIN obj)
             THEN IF par.t = "function" THEN Index(ks, i + 1, set, s) ELSE Throw(s)
             ELSE IF par.t # "object" THEN Throw(s)
             ELSE Index(ks, i + 1, set, [s EXCEPT !.heap[par.v] = Set(@, key, x), !.v = x])
        [] k.text = "index" ->
             CASE ~Runs(e) -> e
               [] e.v.t # "number" -> Throw(e)
               [] par.t # "array" -> IF given THEN Throw(e) ELSE Index(ks, i + 1, set, Yield(e, Null))
               [] at \in DOMAIN e.heap[par.v] ->
                    LET y == IF given THEN set[1] ELSE e.heap[par.v][at]
                    IN  Index(ks, i + 1, set, [e EXCEPT !.heap[par.v][at] = y, !.v = y])
               [] OTHER -> IF given THEN Undefined(e) ELSE Index(ks, i + 1, set, Yield(e, Null))
        [] OTHER -> IF par.t # "function" THEN Throw(s)
                    ELSE Index(ks, i + 1, set, Call(par, args.vs, args.s))

Alloc(s, x, t) == [s EXCEPT !.heap = Append(@, x), !.v = Value(t, Len(s.heap) + 1)]
Number(k) == CASE k = "1" -> 1 [] k = "2" -> 2 [] k = "-1" -> -1 [] OTHER -> 0

ResolveBinaryExpression(n, s) ==
  LET l == Eval(n.kids[1], s)
      r == Eval(n.kids[2], l)
      numbers == l.v.t = "number" /\ r.v.t = "number"
  IN  CASE ~Runs(l) \/ (n.text = "&&" /\ ~ToBool(l.v)) \/ (n.text = "||" /\ ToBool(l.v)) -> l
        [] ~Runs(r) -> r
        [] n.text \in {"&&", "||"} -> r
        [] n.text = "+" /\ numbers -> Yield(r, Value("number", l.v.v + r.v.v))
        [] OTHER -> Throw(r)

Eval(n, s) ==
  CASE ~Runs(s) -> s
    [] n.type = "identifier" -> LET x == Identifier(n.text, s)
                                IN  IF x = NotFound THEN Throw(s) ELSE Yield(s, x)
    [] n.type = "numberLiteralInit" -> Yield(s, Value("number", Number(n.text)))
    [] n.type = "boolLiteralInit" -> Yield(s, Value("boolean", IF n.text = "true" THEN 1 ELSE 0))
    [] n.type = "nullLiteral" -> Yield(s, Null)
    [] n.type = "functionDeclaration" -> ResolveFuncDeclear(n, s)
    [] n.type = "functionCall" ->
         LET f == Eval(n.kids[1], s)
             a == Each(Tail(n.kids), f)
         IN  IF ~Runs(f) THEN f ELSE IF f.v.t # "function" THEN Throw(f) ELSE Call(f.v, a.vs, a.s)
    [] n.type = "variableDeclaration" ->
         LET r == IF n.kids = <<>> THEN Yield(s, Null) ELSE Eval(n.kids[1], s)
         IN  IF n.text \in DOMAIN CurrScope(s) \/ (n.start = "const" /\ n.kids = <<>>) THEN Throw(s)
             ELSE IF Runs(r) THEN [r EXCEPT !.scopes[CurrCtx(r).var] = Set(@, n.text, r.v)] ELSE r
    [] n.type = "assigmentStatement" ->
         LET x == Eval(n.kids[2], s)
             ks == n.kids[1].kids
         IN  IF ~Runs(x) THEN x
             ELSE IF n.kids[1].type = "identifier" THEN SetValue(n.kids[1].text, x.v, x)
             ELSE Index(ks, 2, <<x.v>>, Eval(ks[1].kids[1], x))
    [] n.type = "indexStatement" -> Index(n.kids, 2, <<>>, Eval(n.kids[1].kids[1], s))
    [] n.type = "conditionExpression" ->
         LET c == Eval(n.kids[1], s)
         IN  IF Runs(c) THEN Eval(n.kids[IF ToBool(c.v) THEN 2 ELSE 3], c) ELSE c
    [] n.type = "binaryExpression" -> ResolveBinaryExpression(n, s)
    [] n.type = "matchStatment" ->
         LET a == Eval(n.kids[1], s) IN IF Runs(a) THEN Match(n.kids, 3, a.v, a) ELSE a
    [] n.type = "arrayInit" -> LET a == Each(n.kids, s) IN IF Runs(a.s) THEN Alloc(a.s, a.vs, "array") ELSE a.s
    [] n.type = "objectInit" ->
         LET a == Each([i \in 1..Len(n.kids) |-> n.kids[i].kids[1]], s)
         IN  IF Runs(a.s)
             THEN Alloc(a.s, FoldLeft(LAMBDA f, i : Set(f, n.kids[i].text, a.vs[i]), Empty,
                                      [i \in 1..Len(n.kids) |-> i]), "object")
             ELSE a.s
    [] n.type = "blockStatment" ->
         PopContext(Sequence(n.kids, PushContext(s, Empty, CurrCtx(s).env)))
    [] n.type = "returnSatement" ->
         \* the flag is set before the expression is evaluated, and there may be none
         IF n.kids = <<>> THEN Undefined(s)
         ELSE IF s.lexical THEN [Eval(n.kids[1], s) EXCEPT !.curr_scope_return = TRUE]
         ELSE Eval(n.kids[1], [s EXCEPT !.curr_scope_return = TRUE])
    [] OTHER -> Throw(s)

-----------------------------------------------------------------------------
(* Run: the statements of the program, then the queued functions.          *)

SInit == /\ iter = 1 /\ body = <<>>
         /\ vm = VM(FALSE) /\ ideal = VM(TRUE)
         /\ \/ toks \in Flows /\ pc = 0 /\ garbage = {}
            \/ toks \in Scripts /\ pc = 1 /\ garbage \in SUBSET (Uninit \cap Range(toks))

Compile == PNext /\ UNCHANGED <<pc, vm, ideal, garbage>>

Compiled == pc > 0 /\ iter = End

Execute ==
  /\ Compiled /\ pc <= Len(body) /\ Runs(vm)
  /\ \E v \in {Eval(body[pc], vm)} : vm' = v
  /\ \E v \in {Eval(body[pc], ideal)} : ideal' = v
  /\ pc' = pc + 1
  /\ UNCHANGED <<toks, iter, body, garbage>>

\* The front is taken off the queue after its call.
Task(s) == IF ~Runs(s) \/ s.micro_task_queue = <<>> THEN s
           ELSE [FuncCall(Head(s.micro_task_queue), <<>>, s) EXCEPT !.micro_task_queue = Tail(@)]

RunTask ==
  /\ Compiled /\ pc > Len(body) /\ Runs(vm) /\ vm.micro_task_queue # <<>>
  /\ \E v \in {Task(vm)} : vm' = v
  /\ \E v \in {Task(ideal)} : ideal' = v
  /\ UNCHANGED <<toks, iter, body, pc, garbage>>

SNext == Compile \/ Execute \/ RunTask

SSpec == SInit /\ [][SNext]_svars

-----------------------------------------------------------------------------
(* Properties.                                                             *)

Nodes(t) == {n \in NodesOf(Program) \ {Program} : n.type = t}
Functions == Nodes("functionDeclaration")
Inside(n) == NodesOf(n) \ {n}
Has(n, ts) == \E k \in Inside(n) : k.type \in ts
Inner == {g \in Functions : \E f \in Functions : g \in Inside(f)}

RECURSIVE Binders(_)
Binders(n) == (IF n.type \in Named THEN <<n.text>> ELSE <<>>)
              \o FlattenSeq([i \in 1..Len(n.kids) |-> Binders(n.kids[i])])
FirstUse(kw) == Min({i \in 1..Len(toks) : toks[i] = kw})

\* Every name means one variable, whose value never changes.
OneMeaning ==
  /\ IsInjective(Binders(Program))
  /\ \A n \in Nodes("assigmentStatement") : n.kids[1].type # "identifier"
\* What a function declares is declared before it is used.
DeclaredFirst ==
  \A f \in Functions : \A d \in Inside(f) :
    d.type = "variableDeclaration" =>
      /\ toks[FirstUse(d.text) - 1] \in {"let", "const"}
      /\ d.text \notin Range(FlattenSeq([i \in 1..Len(d.kids) |-> Operands(d.kids[i])]))
\* Functions and blocks do not contain each other.
NoBlocks ==
  /\ \A f \in Functions : ~Has(f, {"blockStatment"})
  /\ \A b \in Nodes("blockStatment") : ~Has(b, {"functionDeclaration"})
\* return and match are in outer functions only and make and call no function.
NoReturns ==
  /\ \A f \in Inner : ~Has(f, {"returnSatement", "matchStatment"})
  /\ \A n \in Nodes("returnSatement") \cup Nodes("matchStatment") :
       ~Has(n, {"functionDeclaration", "functionCall", "indexStatement"})
\* No function is called whose body calls the result of a call.
NoChains ==
  \A f \in Functions : \A c \in Inside(f) :
    c.type = "functionCall" => c.kids[1].type \in {"identifier", "statement"}
\* Three functions deep, the uninitialised offset decides what is captured.
NotDeep ==
  \/ \A f \in Inner : ~Has(f, {"functionDeclaration"})
  \/ Uninit \cap Range(toks) \subseteq garbage

Tame == OneMeaning /\ DeclaredFirst /\ NoBlocks /\ NoReturns /\ NoChains /\ NotDeep

\* A closure sees the variables of the place it was made at: with every call of
\* the enclosing function its own, although what the visitor found is kept once
\* per source position (closure_mem), captured by value, through two frames that
\* are gone, from queued functions and from functions in objects.  It holds of
\* the scripts that are Tame: each part of Tame names something the code does
\* differently.
StaticScopes ==
  Compiled /\ Tame => vm.out = ideal.out /\ vm.outcome = ideal.outcome

\* script/test/closure.as:10 asserts that a function sees the variables of every
\* function around it, two functions outside included.
CapturesDeep ==
  Compiled => vm.out = ideal.out /\ vm.outcome = ideal.outcome
=============================================================================
