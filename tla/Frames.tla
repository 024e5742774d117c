--------------------------------- MODULE Frames ---------------------------------
(***************************************************************************)
(* The VM's frames (src/src/Runtime.h: FuncCall, PushContext, PopContext,  *)
(* ResolveFuncCall, ResolveReturn, ResolveBlock; eval, include and gc of   *)
(* PreDefineFn.h; the prompt of main.cc): ctx_stack, the chain of          *)
(* #next-stack-key by which the collector finds the frames, and            *)
(* curr_scope_return, the one flag by which a return leaves its function.  *)
(*                                                                         *)
(* calls is the stack of C++ calls that evaluate script code: a program    *)
(* ("run"), a call whose arguments are evaluated ("args"), a call whose    *)
(* body runs ("call"), a block ("block").  Each runs statements, and a     *)
(* statement may evaluate any number of calls and blocks before it ends.   *)
(***************************************************************************)
EXTENDS Naturals, Sequences

CONSTANTS
    Scope,      \* the addresses of frames' variables
    Global,     \* the scope of the bottom frame
    NoScope,    \* no #next-stack-key
    Ops,        \* what scripts do beside calls, blocks and statements:
                \*   "gc", "eval", "include", "return",
                \*   "args": something is evaluated for an argument,
                \*   "afterReturn": something is evaluated once a return
                \*       statement was reached (its own expression included),
                \*   "topReturn": return outside of a function,
                \*   "raise": an exception reaches the prompt
    MaxDepth    \* bound: nested C++ calls

ASSUME ScopeAssumption == Global \in Scope /\ NoScope \notin Scope /\ MaxDepth \in Nat

VARIABLES
    calls,      \* the C++ calls, innermost last
    ctx,        \* ctx_stack: the frames' scopes
    link,       \* #next-stack-key of each scope
    flag,       \* curr_scope_return
    heap        \* the scopes that are allocated

vars == <<calls, ctx, link, flag, heap>>

Kind == {"run", "args", "call", "block"}

\* depth is the height of ctx_stack the code of the call expects, stat the kind
\* of statement it is in, saved what eval keeps of ctx_stack.  returned says
\* that a return statement of the function was executed.
Activation == [kind : Kind, scope : Scope, depth : Nat, saved : Seq(Scope),
               stat : {"none", "stat", "return"}, returned : BOOLEAN]

Started(kind, scope, depth, saved) ==
    [kind |-> kind, scope |-> scope, depth |-> depth, saved |-> saved,
     stat |-> IF kind = "args" THEN "stat" ELSE "none", returned |-> FALSE]

Program(depth, saved) == Started("run", Global, depth, saved)

Init ==
    /\ calls = <<Program(1, <<>>)>> /\ ctx = <<Global>>
    /\ link = [s \in Scope |-> NoScope] /\ flag = FALSE /\ heap = {Global}

Top == calls[Len(calls)]
Below == SubSeq(calls, 1, Len(calls) - 1)
CurrScope == ctx[Len(ctx)]

\* Evaluation goes on although a return statement was reached.
MayGoOn == flag => "afterReturn" \in Ops

\* The top call is in the middle of a statement, and does something more there.
Evaluates ==
    /\ Top.stat # "none" /\ MayGoOn
    /\ Top.kind = "args" => "args" \in Ops

Nests == Evaluates /\ Len(calls) < MaxDepth

\* Mutant: the frame is not linked.
PushContextUnlinked(s) == ctx' = Append(ctx, s) /\ UNCHANGED link

PushContext(s) ==
    /\ ctx' = Append(ctx, s)
    /\ link' = [link EXCEPT ![CurrScope] = s]

PopContext ==
    /\ ctx' = SubSeq(ctx, 1, Len(ctx) - 1)
    /\ link' = [link EXCEPT ![ctx[Len(ctx) - 1]] = NoScope]

-----------------------------------------------------------------------------
(* Statements. *)

\* The index of the function or program that the innermost code belongs to.
Owner == CHOOSE i \in 1..Len(calls) :
            /\ calls[i].kind \in {"run", "call"}
            /\ \A j \in i+1..Len(calls) : calls[j].kind \notin {"run", "call"}

\* A return in an argument is followed by the call, at least.
MayReturn ==
    /\ "return" \in Ops
    /\ calls[Owner].kind = "run" => "topReturn" \in Ops
    /\ (\E i \in Owner..Len(calls) : calls[i].kind = "args") => "afterReturn" \in Ops

BeginStat ==
    /\ Top.stat = "none" /\ MayGoOn
    /\ calls' = [calls EXCEPT ![Len(calls)].stat = "stat"]
    /\ UNCHANGED <<ctx, link, flag, heap>>

\* Mutant: the flag is not set.
BeginReturnSilently ==
    /\ Top.stat = "none" /\ MayGoOn /\ MayReturn
    /\ calls' = [calls EXCEPT ![Len(calls)].stat = "return"]
    /\ UNCHANGED <<ctx, link, flag, heap>>

\* ResolveReturn sets the flag before it evaluates the expression.
BeginReturn ==
    /\ Top.stat = "none" /\ MayGoOn /\ MayReturn
    /\ calls' = [calls EXCEPT ![Len(calls)].stat = "return"]
    /\ flag' = TRUE
    /\ UNCHANGED <<ctx, link, heap>>

\* A statement ends, and the body goes on to the next one.
EndStat ==
    /\ Top.stat # "none" /\ Top.kind # "args"
    /\ Top.kind = "call" => ~flag
    /\ calls' = [i \in 1..Len(calls) |->
                    [calls[i] EXCEPT
                        !.stat = IF i = Len(calls) THEN "none" ELSE @,
                        !.returned = @ \/ (i = Owner /\ Top.stat = "return")]]
    /\ UNCHANGED <<ctx, link, flag, heap>>

\* Mutant: the flag stays set.
CutBodyKeepFlag ==
    /\ Top.stat # "none" /\ Top.kind = "call" /\ flag
    /\ PopContext
    /\ calls' = Below
    /\ UNCHANGED <<flag, heap>>

\* Only a function's body looks at the flag, after each of its statements.
CutBody ==
    /\ Top.stat # "none" /\ Top.kind = "call" /\ flag
    /\ flag' = FALSE
    /\ PopContext
    /\ calls' = Below
    /\ UNCHANGED heap

\* The last statement of a body or of a block was executed.
EndBody ==
    /\ Top.stat = "none" /\ Top.kind \in {"call", "block"}
    /\ PopContext
    /\ calls' = Below
    /\ UNCHANGED <<flag, heap>>

-----------------------------------------------------------------------------
(* What a statement evaluates. *)

\* The frame is allocated before the arguments are evaluated, and pushed after.
Call(s) ==
    /\ Nests /\ s \in Scope \ heap
    /\ heap' = heap \cup {s}
    /\ link' = [link EXCEPT ![s] = NoScope]
    /\ calls' = Append(calls, Started("args", s, Len(ctx), <<>>))
    /\ UNCHANGED <<ctx, flag>>

Enter ==
    /\ Top.kind = "args"
    /\ PushContext(Top.scope)
    /\ calls' = Append(Below, Started("call", Top.scope, Len(ctx) + 1, <<>>))
    /\ UNCHANGED <<flag, heap>>

Block(s) ==
    /\ Nests /\ s \in Scope \ heap
    /\ heap' = heap \cup {s}
    /\ ctx' = Append(ctx, s)
    /\ link' = [link EXCEPT ![CurrScope] = s, ![s] = NoScope]
    /\ calls' = Append(calls, Started("block", s, Len(ctx) + 1, <<>>))
    /\ UNCHANGED flag

\* eval(script, true): the program runs on the bottom frame alone.
Eval ==
    /\ Nests /\ "eval" \in Ops
    /\ ctx' = SubSeq(ctx, 1, 1)
    /\ calls' = Append(calls, Program(1, ctx))
    /\ UNCHANGED <<link, flag, heap>>

\* Mutant: the frames are not put back.
EndEvalForget ==
    /\ Top.kind = "run" /\ Top.stat = "none" /\ Top.saved # <<>>
    /\ calls' = Below
    /\ UNCHANGED <<ctx, link, flag, heap>>

\* The saved frames are put back, the links that eval changed are not.
EndEval ==
    /\ Top.kind = "run" /\ Top.stat = "none" /\ Top.saved # <<>>
    /\ ctx' = ctx \o Tail(Top.saved)
    /\ calls' = Below
    /\ UNCHANGED <<link, flag, heap>>

\* include(path): the file runs on the frames as they are.
Include ==
    /\ Nests /\ "include" \in Ops
    /\ calls' = Append(calls, Program(Len(ctx), <<>>))
    /\ UNCHANGED <<ctx, link, flag, heap>>

EndInclude ==
    /\ Len(calls) > 1 /\ Top.kind = "run" /\ Top.stat = "none" /\ Top.saved = <<>>
    /\ calls' = Below
    /\ UNCHANGED <<ctx, link, flag, heap>>

\* What the collector reaches of the frames: the sets that have the global scope
\* and are closed under the links have these in common.
Reached ==
    {s \in Scope : \A S \in SUBSET Scope :
        Global \in S /\ (\A t \in S : link[t] # NoScope => link[t] \in S) => s \in S}

Gc ==
    /\ Evaluates /\ "gc" \in Ops
    /\ heap' = heap \cap Reached
    /\ UNCHANGED <<calls, ctx, link, flag>>

\* The prompt catches the exception: it keeps the bottom frame, and the flag.
Raise ==
    /\ Evaluates /\ "raise" \in Ops
    /\ ctx' = SubSeq(ctx, 1, 1)
    /\ calls' = <<Program(1, <<>>)>>
    /\ UNCHANGED <<link, flag, heap>>

Next ==
    \/ BeginStat \/ BeginReturn \/ EndStat \/ CutBody \/ EndBody
    \/ Enter \/ \E s \in Scope : Call(s) \/ Block(s)
    \/ Eval \/ EndEval \/ Include \/ EndInclude \/ Gc \/ Raise

Spec == Init /\ [][Next]_vars

-----------------------------------------------------------------------------
(* Properties. *)

TypeOK ==
    /\ calls \in Seq(Activation) /\ calls # <<>>
    /\ ctx \in Seq(Scope) /\ ctx # <<>>
    /\ link \in [Scope -> Scope \cup {NoScope}]
    /\ flag \in BOOLEAN /\ heap \subseteq Scope

\* Names are resolved in the frame of the code that runs, whatever calls,
\* blocks, eval, include and exceptions did to ctx_stack before.
RunsInOwnFrame ==
    /\ Top.depth = Len(ctx)
    /\ Top.kind \in {"call", "block"} => CurrScope = Top.scope

\* Every frame is linked to the one above it, so that the collector finds it.
FramesLinked == \A i \in 1..Len(ctx) - 1 : link[ctx[i]] = ctx[i + 1]

\* The collector never frees the variables of a frame in use.
FramesAlive == \A i \in 1..Len(ctx) : ctx[i] \in heap

\* While the flag is set, the function whose code runs is the one that returns:
\* a call is not cut short by the return of another.
FlagIsOurs ==
    flag => \/ calls[Owner].returned
            \/ \E i \in Owner..Len(calls) : calls[i].stat = "return"

\* Once a return statement was executed, its function begins no other statement.
Begins == Len(calls') = Len(calls) /\ Top.stat = "none" /\ Top'.stat # "none"
ReturnLeaves == [][Begins => ~calls[Owner].returned]_vars
===============================================================================
