---------------------------- MODULE EventLoopProofs ----------------------------
(***************************************************************************)
(* Proofs about EventLoop, for all sets of requests, servers and files and *)
(* all bounds.  The loop returns only when nothing is required because     *)
(*   - a customer keeps the poll timer alive (PollTimerInv),               *)
(*   - a live timer has an entry in the macro queue (LiveQueued),          *)
(*   - the loop goes on while the macro queue is not empty, and            *)
(*   - a request or event on its way has its customer (EventsInv).         *)
(* That popping and requeueing act on the timer's own entry needs          *)
(* CallPositions: what the front of a queue is while its function runs.    *)
(* The second half is about what the queues hold:                          *)
(*   - a task is in one queue or has finished, in the order of its queue,  *)
(*     and a timer has one entry (QueuesInv),                              *)
(*   - one poll timer lives, and only while there are customers            *)
(*     (OnePollTimer), and                                                 *)
(*   - an event with a customer is on its way or queued (CustomersServed). *)
(***************************************************************************)
EXTENDS EventLoop, FiniteSetTheorems, TLAPS

\* The front of a queue while the loop is inside the function queued there.
CallPositions ==
    /\ pc = "microCall" => micro # <<>>
    /\ pc = "macroCall" => macro # <<>> /\ Head(macro).kind = "task"
    /\ pc \in {"timer", "timerCall", "poll", "pollCall"}
         => macro # <<>> /\ Head(macro).kind = "timer"
    /\ pc = "timerCall" => Current \in 1 .. Len(kind) /\ kind[Current] # "poll"

\* A timer of timer_map is queued.
LiveQueued ==
    \A t \in timers : \E i \in 1 .. Len(macro) : macro[i] = TimerEntry(t)

PollTimerInv ==
    /\ customers # {} => pollTimer # 0
    /\ pollTimer # 0 => pollTimer \in timers /\ kind[pollTimer] = "poll"

\* An event on its way is on its way once and has a customer.
EventsInv ==
    /\ \A f \in Fetch : f \in inflight => FetchEvent(f) \in customers
    /\ \A f \in Fetch : FetchEvent(f) \in customers => f \in requested
    /\ \A s \in Server : server[s] = "starting" => InitEvent(s) \in customers
    /\ \A s \in Server : InitEvent(s) \in customers => server[s] # "none"
    /\ \A i \in 1 .. Len(reqQ) : reqQ[i] \in customers
    /\ \A i, j \in 1 .. Len(reqQ) : reqQ[i] = reqQ[j] => i = j
    /\ \A f \in inflight, i \in 1 .. Len(reqQ) : reqQ[i] # FetchEvent(f)
    /\ \A s \in Server, i \in 1 .. Len(reqQ) :
          server[s] = "starting" => reqQ[i] # InitEvent(s)

TypeInv == TypeOK /\ CallPositions

USE BoundsAssumption, ModeAssumption

-----------------------------------------------------------------------------
(* Facts about queues. *)

LEMMA AppendFacts ==
    ASSUME NEW S, NEW q \in Seq(S), NEW e \in S
    PROVE  /\ Append(q, e) \in Seq(S) /\ Append(q, e) # <<>>
           /\ Len(Append(q, e)) = Len(q) + 1
           /\ Append(q, e)[Len(q) + 1] = e
           /\ \A i \in 1 .. Len(q) : Append(q, e)[i] = q[i]
           /\ q # <<>> => Head(Append(q, e)) = Head(q)
OBVIOUS

LEMMA TailFacts ==
    ASSUME NEW S, NEW q \in Seq(S), q # <<>>
    PROVE  /\ Head(q) \in S /\ Head(q) = q[1]
           /\ Tail(q) \in Seq(S) /\ Len(Tail(q)) = Len(q) - 1
           /\ \A i \in 1 .. Len(Tail(q)) : Tail(q)[i] = q[i + 1]
OBVIOUS

-----------------------------------------------------------------------------
(* What the operations that several actions share do. *)

\* What starting a timer adds; everything else about timers and queue stays.
TimerStarted(k) ==
    /\ Len(kind') = Len(kind) + 1
    /\ kind'[NextTimer] = k
    /\ \A t \in 1 .. Len(kind) : kind'[t] = kind[t]
    /\ timers' = timers \cup {NextTimer} /\ due' = due
    /\ Len(macro') = Len(macro) + 1
    /\ macro'[Len(macro) + 1] = TimerEntry(NextTimer)
    /\ \A i \in 1 .. Len(macro) : macro'[i] = macro[i]

\* The typing facts that an operation on timers and macro queue keeps.
TimersTyped ==
    /\ kind \in Seq({"every", "once", "poll"})
    /\ timers \subseteq 1 .. Len(kind) /\ due \subseteq timers
    /\ macro \in Seq(MacroEntry)

\* Appending to the macro queue keeps its front.
FrontKept == macro # <<>> => macro' # <<>> /\ Head(macro') = Head(macro)

LEMMA StartTimerTypes ==
    ASSUME TimersTyped, NEW k \in {"every", "once", "poll"}, StartTimer(k)
    PROVE  TimersTyped' /\ TimerStarted(k) /\ FrontKept /\ NextTimer \in 1 .. Len(kind')
<1>1. Len(kind) \in Nat /\ NextTimer = Len(kind) + 1
  BY DEF TimersTyped, NextTimer
<1>2. TimerEntry(NextTimer) \in MacroEntry
  BY <1>1 DEF TimerEntry, MacroEntry
<1>3. /\ macro' \in Seq(MacroEntry) /\ Len(macro') = Len(macro) + 1
      /\ macro'[Len(macro) + 1] = TimerEntry(NextTimer)
      /\ \A i \in 1 .. Len(macro) : macro'[i] = macro[i]
      /\ FrontKept
  BY <1>2, AppendFacts DEF StartTimer, TimersTyped, FrontKept
<1>4. /\ kind' \in Seq({"every", "once", "poll"}) /\ Len(kind') = Len(kind) + 1
      /\ kind'[NextTimer] = k
      /\ \A t \in 1 .. Len(kind) : kind'[t] = kind[t]
  BY <1>1, AppendFacts DEF StartTimer, TimersTyped
<1>5. timers' = timers \cup {NextTimer} /\ due' = due
  BY DEF StartTimer
<1>6. timers' \subseteq 1 .. Len(kind') /\ due' \subseteq timers' /\ NextTimer \in 1 .. Len(kind')
  <2>1. NextTimer \in 1 .. Len(kind')
    BY <1>1, <1>4
  <2>2. 1 .. Len(kind) \subseteq 1 .. Len(kind')
    BY <1>1, <1>4
  <2>3. QED
    BY <1>5, <2>1, <2>2 DEF TimersTyped
<1>7. QED
  BY <1>3, <1>4, <1>5, <1>6 DEF TimersTyped, TimerStarted

LEMMA AddCustomerTypes ==
    ASSUME TimersTyped, pollTimer \in 0 .. Len(kind), NEW E, AddRequiredEventCustomer(E)
    PROVE  /\ TimersTyped' /\ FrontKept
           /\ pollTimer' \in 1 .. Len(kind') /\ customers' = customers \cup E
           /\ \/ /\ pollTimer = 0 /\ TimerStarted("poll")
                 /\ pollTimer' = NextTimer
              \/ /\ pollTimer # 0
                 /\ UNCHANGED <<pollTimer, macro, kind, timers, due>>
<1>1. CASE pollTimer = 0
  <2>1. StartTimer("poll") /\ pollTimer' = NextTimer
    BY <1>1 DEF AddRequiredEventCustomer
  <2>2. QED
    BY <1>1, <2>1, StartTimerTypes DEF AddRequiredEventCustomer
<1>2. CASE pollTimer # 0
  <2>1. UNCHANGED <<pollTimer, macro, kind, timers, due>>
    BY <1>2 DEF AddRequiredEventCustomer, timerVars
  <2>2. pollTimer' \in 1 .. Len(kind')
    BY <1>2, <2>1 DEF TimersTyped
  <2>3. QED
    BY <1>2, <2>1, <2>2 DEF AddRequiredEventCustomer, TimersTyped, FrontKept
<1>3. QED
  BY <1>1, <1>2

-----------------------------------------------------------------------------
LEMMA InitTypeInv == Init => TypeInv
BY DEF Init, TypeInv, TypeOK, CallPositions, ScriptPc, MacroEntry

LEMMA AddCustomerKeepsTypes ==
    ASSUME TypeInv, NEW E, E \subseteq Event, AddRequiredEventCustomer(E), pc' = pc,
           UNCHANGED <<raised, scriptVars, taskVars>>,
           requested' \subseteq Fetch, inflight' \subseteq Fetch, reqQ' = reqQ,
           server' \in [Server -> {"none", "starting", "open"}],
           UNCHANGED <<crossQ, crossSent>>
    PROVE  TypeInv'
<1>0. TypeOK /\ CallPositions /\ TimersTyped /\ pollTimer \in 0 .. Len(kind)
  BY DEF TypeInv, TypeOK, TimersTyped
<1>1. /\ TimersTyped' /\ FrontKept
      /\ pollTimer' \in 1 .. Len(kind') /\ customers' = customers \cup E
      /\ \/ pollTimer = 0 /\ TimerStarted("poll")
         \/ UNCHANGED <<pollTimer, macro, kind, timers, due>>
  BY <1>0, AddCustomerTypes
<1>2. TypeOK'
  BY <1>0, <1>1 DEF TimersTyped, TypeOK, scriptVars, taskVars
<1>3. micro' = micro
  BY DEF taskVars
<1>4. pc = "timerCall" => Current' = Current
  BY <1>0, <1>1 DEF CallPositions, FrontKept, Current
<1>5. \A t \in 1 .. Len(kind) : t \in 1 .. Len(kind') /\ kind'[t] = kind[t]
  <2>1. Len(kind) \in Nat
    BY <1>0 DEF TimersTyped
  <2>2. CASE TimerStarted("poll")
    BY <2>1, <2>2 DEF TimerStarted
  <2>3. CASE UNCHANGED kind
    BY <2>3
  <2>4. QED
    BY <1>1, <2>2, <2>3
<1>6. /\ pc = "microCall" => micro' # <<>>
      /\ pc = "macroCall" => macro' # <<>> /\ Head(macro').kind = "task"
      /\ pc \in {"timer", "timerCall", "poll", "pollCall"}
           => macro' # <<>> /\ Head(macro').kind = "timer"
  BY <1>0, <1>1, <1>3 DEF CallPositions, FrontKept
<1>7. pc = "timerCall" => Current' \in 1 .. Len(kind') /\ kind'[Current'] # "poll"
  BY <1>0, <1>4, <1>5 DEF CallPositions
<1>8. CallPositions'
  BY <1>6, <1>7 DEF CallPositions
<1>9. QED
  BY <1>2, <1>8 DEF TypeInv

LEMMA ScriptStepTypeInv ==
    ASSUME TypeInv, ScriptStep
    PROVE  TypeInv'
<1>0. TypeOK /\ CallPositions /\ TimersTyped
  BY DEF TypeInv, TypeOK, TimersTyped
<1>1. CASE RunInMicroQueue
  <2>1. tasks' \in Nat /\ micro' = Append(micro, tasks') /\ micro \in Seq(Nat)
    BY <1>0, <1>1 DEF RunInMicroQueue, TypeOK
  <2>2. micro' \in Seq(Nat) /\ micro' # <<>>
    BY <2>1, AppendFacts
  <2>3. TypeOK'
    BY <1>0, <1>1, <2>1, <2>2
    DEF RunInMicroQueue, TypeOK, scriptVars, timerVars, eventVars, serverVars
  <2>4. CallPositions'
    BY <1>0, <1>1, <2>2
    DEF RunInMicroQueue, CallPositions, Current, timerVars
  <2>5. QED
    BY <2>3, <2>4 DEF TypeInv
<1>2. CASE RunInMacroQueue
  <2>1. tasks' \in Nat /\ macro' = Append(macro, TaskEntry(tasks'))
    BY <1>0, <1>2 DEF RunInMacroQueue, TypeOK
  <2>2. TaskEntry(tasks') \in MacroEntry
    BY <2>1 DEF TaskEntry, MacroEntry
  <2>3. macro' \in Seq(MacroEntry) /\ FrontKept
    BY <1>0, <2>1, <2>2, AppendFacts DEF TimersTyped, FrontKept
  <2>4. TypeOK'
    BY <1>0, <1>2, <2>1, <2>3
    DEF RunInMacroQueue, TypeOK, scriptVars, timerVars, eventVars, serverVars
  <2>5. CallPositions'
    BY <1>0, <1>2, <2>3
    DEF RunInMacroQueue, CallPositions, FrontKept, Current, timerVars
  <2>6. QED
    BY <2>4, <2>5 DEF TypeInv
<1>3. CASE \E k \in {"every", "once"} : StartScriptTimer(k)
  <2>1. PICK k \in {"every", "once"} : StartScriptTimer(k)
    BY <1>3
  <2>2. TimersTyped' /\ TimerStarted(k) /\ FrontKept
    BY <1>0, <2>1, StartTimerTypes DEF StartScriptTimer
  <2>3. pollTimer' \in 0 .. Len(kind')
    BY <1>0, <2>1, <2>2
    DEF StartScriptTimer, TypeOK, TimersTyped, TimerStarted, eventVars
  <2>4. TypeOK'
    BY <1>0, <2>1, <2>2, <2>3
    DEF StartScriptTimer, TypeOK, TimersTyped, scriptVars, taskVars, eventVars, serverVars
  <2>5. CallPositions'
    BY <1>0, <2>1, <2>2
    DEF StartScriptTimer, CallPositions, TimersTyped, TimerStarted, FrontKept, Current, taskVars
  <2>6. QED
    BY <2>4, <2>5 DEF TypeInv
<1>4. CASE \E t \in timers : RemoveScriptTimer(t)
  <2>1. TypeOK'
    BY <1>0, <1>4
    DEF RemoveScriptTimer, RemoveTimer, TypeOK, scriptVars, taskVars, eventVars, serverVars
  <2>2. CallPositions'
    BY <1>0, <1>4 DEF RemoveScriptTimer, RemoveTimer, CallPositions, Current, taskVars
  <2>3. QED
    BY <2>1, <2>2 DEF TypeInv
<1>5. CASE \E f \in Fetch : FetchAsync(f)
  <2>1. PICK f \in Fetch : FetchAsync(f)
    BY <1>5
  <2>2. AddRequiredEventCustomer({FetchEvent(f)}) /\ {FetchEvent(f)} \subseteq Event
    BY <2>1 DEF FetchAsync, Event
  <2>3. QED
    BY <1>0, <2>1, <2>2, AddCustomerKeepsTypes DEF FetchAsync, TypeOK, serverVars
<1>6. CASE \E s \in Server : MakeServer(s)
  <2>1. PICK s \in Server : MakeServer(s)
    BY <1>6
  <2>2. AddRequiredEventCustomer(ServerEvents(s)) /\ ServerEvents(s) \subseteq Event
    BY <2>1 DEF MakeServer, ServerEvents, Event
  <2>3. QED
    BY <1>0, <2>1, <2>2, AddCustomerKeepsTypes DEF MakeServer, TypeOK
<1>7. CASE \E file \in File : Include(file)
  BY <1>0, <1>7
  DEF Include, TypeInv, TypeOK, CallPositions, Current, scriptVars, taskVars, timerVars,
      eventVars, serverVars
<1>8. CASE Raise
  BY SMTT(30), <1>0, <1>8
  DEF Raise, Unwind, TypeInv, TypeOK, CallPositions, scriptVars, taskVars, timerVars,
      eventVars, serverVars, EndPc
<1>9. QED
  BY <1>1, <1>2, <1>3, <1>4, <1>5, <1>6, <1>7, <1>8 DEF ScriptStep

\* The two outcomes of TimerTaskEnd.
Popped   == macro' = Tail(macro)
Requeued == macro' = Append(Tail(macro), Head(macro))

LEMMA TimerTaskEndTypes ==
    ASSUME macro \in Seq(MacroEntry), macro # <<>>, Popped \/ Requeued
    PROVE  macro' \in Seq(MacroEntry)
<1>1. Head(macro) \in MacroEntry /\ Tail(macro) \in Seq(MacroEntry)
  BY TailFacts
<1>2. Append(Tail(macro), Head(macro)) \in Seq(MacroEntry)
  BY <1>1, AppendFacts
<1>3. QED
  BY <1>1, <1>2 DEF Popped, Requeued

LEMMA ScriptReturnTypeInv ==
    ASSUME TypeInv, ScriptReturn
    PROVE  TypeInv'
<1>0. TypeOK /\ CallPositions
  BY DEF TypeInv
<1>1. CASE BodyEnd
  BY <1>0, <1>1
  DEF BodyEnd, Goto, TypeInv, TypeOK, CallPositions, LoopPc, scriptVars, taskVars, timerVars,
      eventVars, serverVars
<1>2. CASE CrossReturn
  BY <1>0, <1>2
  DEF CrossReturn, Goto, TypeInv, TypeOK, CallPositions, LoopPc, scriptVars, taskVars,
      timerVars, eventVars, serverVars
<1>3. CASE MicroReturn
  <2>1. micro' \in Seq(Nat) /\ Head(micro) \in Nat
    BY <1>0, <1>3, TailFacts DEF MicroReturn, Goto, TypeOK, CallPositions
  <2>2. MicroEntry(Head(micro)) \in [kind : {"micro", "task", "timer"}, id : Nat]
    BY <2>1 DEF MicroEntry
  <2>3. QED
    BY <1>0, <1>3, <2>1, <2>2
    DEF MicroReturn, Goto, TypeInv, TypeOK, CallPositions, LoopPc, scriptVars, timerVars,
        eventVars, serverVars
<1>4. CASE MacroReturn
  <2>1. macro' \in Seq(MacroEntry) /\ Head(macro) \in MacroEntry
    BY <1>0, <1>4, TailFacts DEF MacroReturn, Goto, TypeOK, CallPositions
  <2>2. Head(macro) \in [kind : {"micro", "task", "timer"}, id : Nat]
    BY <2>1 DEF MacroEntry
  <2>3. QED
    BY <1>0, <1>4, <2>1, <2>2
    DEF MacroReturn, Goto, TypeInv, TypeOK, CallPositions, LoopPc, scriptVars, timerVars,
        eventVars, serverVars
<1>5. CASE TimerReturn
  <2>1. macro \in Seq(MacroEntry) /\ macro # <<>>
    BY <1>0, <1>5 DEF TimerReturn, Goto, TypeOK, CallPositions
  <2>2. macro' \in Seq(MacroEntry) /\ Head(macro) \in MacroEntry
    <3>1. Popped \/ Requeued
      BY <1>5 DEF TimerReturn, TimerTaskEnd, Popped, Requeued
    <3>2. QED
      BY <2>1, <3>1, TimerTaskEndTypes, TailFacts
  <2>3. Head(macro) \in [kind : {"micro", "task", "timer"}, id : Nat]
    BY <2>2 DEF MacroEntry
  <2>4. /\ finished' \subseteq [kind : {"micro", "task", "timer"}, id : Nat]
        /\ kind' = kind /\ timers' \subseteq timers /\ due' \subseteq timers'
    BY <1>0, <1>5, <2>3 DEF TimerReturn, RemoveTimer, TypeOK, timerVars
  <2>5. QED
    BY <1>0, <1>5, <2>2, <2>4
    DEF TimerReturn, Goto, TypeInv, TypeOK, CallPositions, LoopPc, scriptVars, eventVars,
        serverVars
<1>6. CASE PollReturn
  <2>1. macro' \in Seq(MacroEntry)
    <3>1. macro \in Seq(MacroEntry) /\ macro # <<>> /\ (Popped \/ Requeued)
      BY <1>0, <1>6
      DEF PollReturn, Goto, TimerTaskEnd, Popped, Requeued, TypeOK, CallPositions
    <3>2. QED
      BY <3>1, TimerTaskEndTypes
  <2>2. QED
    BY <1>0, <1>6, <2>1
    DEF PollReturn, Goto, TypeInv, TypeOK, CallPositions, LoopPc, scriptVars, taskVars,
        timerVars, eventVars, serverVars
<1>7. QED
  BY <1>1, <1>2, <1>3, <1>4, <1>5, <1>6 DEF ScriptReturn

LEMMA LoopStepTypeInv ==
    ASSUME TypeInv, LoopStep
    PROVE  TypeInv'
<1>0. TypeOK /\ CallPositions
  BY DEF TypeInv
<1>1. CASE LoopHead
  <2>1. pc' = "cross" /\ UNCHANGED <<raised, serverVars, macro, scriptVars, taskVars, timerVars,
                                     eventVars>>
    BY <1>1 DEF LoopHead, Goto
  <2>2. TypeOK'
    BY <1>0, <2>1
    DEF TypeOK, LoopPc, scriptVars, taskVars, timerVars, eventVars, serverVars
  <2>3. CallPositions'
    BY <2>1 DEF CallPositions
  <2>4. QED
    BY <2>2, <2>3 DEF TypeInv
<1>2. CASE LoopExit
  <2>1. /\ pc' \in {"body", "prompt", "done"}
        /\ depth' = depth \/ (depth > 0 /\ depth' = depth - 1)
        /\ UNCHANGED <<raised, serverVars, included, macro, taskVars, timerVars, eventVars>>
    BY <1>2 DEF LoopExit, Goto
  <2>2. depth' \in Nat
    BY <1>0, <2>1 DEF TypeOK
  <2>3. TypeOK'
    BY <1>0, <2>1, <2>2
    DEF TypeOK, ScriptPc, EndPc, taskVars, timerVars, eventVars, serverVars
  <2>4. CallPositions'
    BY <2>1 DEF CallPositions
  <2>5. QED
    BY <2>3, <2>4 DEF TypeInv
<1>3. CASE CrossNext
  <2>1. crossQ' \in Seq(Nat)
    <3>1. /\ crossQ \in Seq(Nat)
          /\ crossQ' = crossQ \/ (crossQ # <<>> /\ crossQ' = Tail(crossQ))
      BY <1>0, <1>3 DEF CrossNext, TypeOK
    <3>2. QED
      BY <3>1, TailFacts
  <2>2. QED
    BY <1>0, <1>3, <2>1
    DEF CrossNext, TypeInv, TypeOK, CallPositions, LoopPc, ScriptPc, scriptVars, taskVars,
        timerVars, eventVars
<1>4. CASE MicroNext
  BY <1>0, <1>4
  DEF MicroNext, Goto, TypeInv, TypeOK, CallPositions, LoopPc, ScriptPc, scriptVars, taskVars,
      timerVars, eventVars, serverVars
<1>5. CASE MacroNext
  <2>1. macro # <<>> => Head(macro).kind \in {"task", "timer"}
    <3>1. macro \in Seq(MacroEntry)
      BY <1>0 DEF TypeOK
    <3>2. macro # <<>> => Head(macro) \in MacroEntry
      BY <3>1, TailFacts
    <3>3. QED
      BY <3>2 DEF MacroEntry
  <2>2. QED
    BY <1>0, <1>5, <2>1
    DEF MacroNext, Goto, TypeInv, TypeOK, CallPositions, LoopPc, ScriptPc, scriptVars,
        taskVars, timerVars, eventVars, serverVars
<1>6. CASE TimerGone \/ TimerNotDue \/ PollEmpty
  <2>1. macro \in Seq(MacroEntry) /\ macro # <<>> /\ (Popped \/ Requeued)
    BY <1>0, <1>6
    DEF TimerGone, TimerNotDue, PollEmpty, Goto, TimerTaskEnd, Popped, Requeued, TypeOK,
        CallPositions
  <2>2. macro' \in Seq(MacroEntry)
    BY <2>1, TimerTaskEndTypes
  <2>3. QED
    BY <1>0, <1>6, <2>2
    DEF TimerGone, TimerNotDue, PollEmpty, Goto, TypeInv, TypeOK, CallPositions, LoopPc,
        scriptVars, taskVars, timerVars, eventVars, serverVars
<1>7. CASE TimerDue
  BY <1>0, <1>7
  DEF TimerDue, Goto, TypeInv, TypeOK, CallPositions, LoopPc, ScriptPc, Current, scriptVars,
      taskVars, eventVars, serverVars
<1>8. CASE PollEvent
  <2>1. reqQ' \in Seq(Event)
    BY <1>0, <1>8, TailFacts DEF PollEvent, TypeOK
  <2>2. macro' \in Seq(MacroEntry)
    <3>1. macro \in Seq(MacroEntry) /\ macro # <<>> /\ (Popped \/ Requeued \/ macro' = macro)
      BY <1>0, <1>8
      DEF PollEvent, Goto, TimerTaskEnd, Popped, Requeued, TypeOK, CallPositions
    <3>2. QED
      BY <3>1, TimerTaskEndTypes
  <2>3. /\ kind' = kind /\ timers' \subseteq timers /\ due' \subseteq timers'
        /\ pollTimer' \in {0, pollTimer} /\ customers' \subseteq customers
    BY <1>0, <1>8 DEF PollEvent, EraseCustomer, RemoveTimer, TypeOK, timerVars
  <2>4. /\ pc' \in {"pollCall", "head"} /\ pc = "poll"
        /\ pc' = "pollCall" => macro' = macro
        /\ UNCHANGED <<raised, requested, inflight, scriptVars, taskVars, serverVars>>
    BY <1>8 DEF PollEvent, Goto
  <2>5. TypeOK'
    BY <1>0, <2>1, <2>2, <2>3, <2>4
    DEF TypeOK, LoopPc, ScriptPc, scriptVars, taskVars, serverVars
  <2>6. CallPositions'
    BY <1>0, <2>4 DEF CallPositions
  <2>7. QED
    BY <2>5, <2>6 DEF TypeInv
<1>9. QED
  BY <1>1, <1>2, <1>3, <1>4, <1>5, <1>6, <1>7, <1>8 DEF LoopStep

LEMMA EnvironmentTypeInv ==
    ASSUME TypeInv, Environment
    PROVE  TypeInv'
<1>0. TypeOK /\ CallPositions
  BY DEF TypeInv
<1>1. CASE \E t \in timers : Elapse(t)
  BY <1>0, <1>1
  DEF Elapse, TypeInv, TypeOK, CallPositions, Current, scriptVars, taskVars, eventVars,
      serverVars
<1>2. CASE \E f \in Fetch : Respond(f)
  <2>1. PICK f \in Fetch : Respond(f)
    BY <1>2
  <2>2. FetchEvent(f) \in Event
    BY DEF Event
  <2>3. reqQ' \in Seq(Event)
    BY <1>0, <2>1, <2>2, AppendFacts DEF Respond, Push2RequiredEventPendingQueue, TypeOK
  <2>4. QED
    BY <1>0, <2>1, <2>3
    DEF Respond, TypeInv, TypeOK, CallPositions, Current, scriptVars, taskVars, timerVars,
        serverVars
<1>3. CASE \E s \in Server : ServerListen(s)
  <2>1. PICK s \in Server : ServerListen(s)
    BY <1>3
  <2>2. InitEvent(s) \in Event
    BY DEF Event
  <2>3. reqQ' \in Seq(Event)
    BY <1>0, <2>1, <2>2, AppendFacts DEF ServerListen, Push2RequiredEventPendingQueue, TypeOK
  <2>4. QED
    BY <1>0, <2>1, <2>3
    DEF ServerListen, TypeInv, TypeOK, CallPositions, Current, scriptVars, taskVars, timerVars
<1>4. CASE \E s \in Server : ServerError(s)
  BY <1>0, <1>4
  DEF ServerError, TypeInv, TypeOK, CallPositions, EndPc, scriptVars, taskVars, timerVars,
      eventVars, serverVars
<1>5. CASE \E s \in Server : Push2CrossThreadEventPendingQueue(s)
  <2>1. crossSent' \in Nat /\ crossQ' \in Seq(Nat)
    BY <1>0, <1>5, AppendFacts DEF Push2CrossThreadEventPendingQueue, TypeOK
  <2>2. QED
    BY <1>0, <1>5, <2>1
    DEF Push2CrossThreadEventPendingQueue, TypeInv, TypeOK, CallPositions, Current, scriptVars,
        taskVars, timerVars, eventVars
<1>6. QED
  BY <1>1, <1>2, <1>3, <1>4, <1>5 DEF Environment

LEMMA NextTypeInv == TypeInv /\ [Next]_vars => TypeInv'
<1> SUFFICES ASSUME TypeInv, [Next]_vars PROVE TypeInv'
  OBVIOUS
<1>1. CASE ReadLine \/ EndOfInput
  BY <1>1
  DEF ReadLine, EndOfInput, Goto, TypeInv, TypeOK, CallPositions, ScriptPc, EndPc, scriptVars,
      taskVars, timerVars, eventVars, serverVars
<1>2. CASE UNCHANGED vars
  BY <1>2 DEF vars, TypeInv, TypeOK, CallPositions, Current
<1>3. QED
  BY <1>1, <1>2, ScriptStepTypeInv, ScriptReturnTypeInv, LoopStepTypeInv, EnvironmentTypeInv
  DEF Next, Ended

\* The variables keep their types, whatever scripts, pool and servers do.
THEOREM TypeCorrect == Spec => []TypeOK
<1>1. TypeInv => TypeOK
  BY DEF TypeInv
<1>2. QED
  BY <1>1, InitTypeInv, NextTypeInv, PTL DEF Spec

-----------------------------------------------------------------------------
(* A live timer is queued. *)

\* What a step does to the macro queue and the timers.
QueueSame    == macro' = macro /\ timers' \subseteq timers
QueueTask    == \E e \in MacroEntry : macro' = Append(macro, e) /\ timers' \subseteq timers
QueueTimer   == \E k \in {"every", "once", "poll"} : TimerStarted(k)
QueuePopped  == /\ macro # <<>> /\ Popped /\ timers' \subseteq timers
                /\ Head(macro).kind = "timer" => Head(macro).id \notin timers'
QueueRotated == macro # <<>> /\ Requeued /\ timers' \subseteq timers

LEMMA QueueSteps ==
    ASSUME TypeInv, [Next]_vars
    PROVE  QueueSame \/ QueueTask \/ QueueTimer \/ QueuePopped \/ QueueRotated
<1>0. TypeOK /\ CallPositions /\ TimersTyped
  BY DEF TypeInv, TypeOK, TimersTyped
<1>1. CASE ScriptStep
  <2>1. CASE RunInMacroQueue
    <3>1. TaskEntry(tasks') \in MacroEntry
      BY <1>0, <2>1 DEF RunInMacroQueue, TypeOK, TaskEntry, MacroEntry
    <3>2. QED
      BY <2>1, <3>1 DEF RunInMacroQueue, QueueTask, timerVars
  <2>2. CASE \E k \in {"every", "once"} : StartScriptTimer(k)
    BY <1>0, <2>2, StartTimerTypes DEF StartScriptTimer, QueueTimer
  <2>3. CASE \E f \in Fetch : FetchAsync(f)
    <3>1. PICK f \in Fetch : AddRequiredEventCustomer({FetchEvent(f)})
      BY <2>3 DEF FetchAsync
    <3>2. TimerStarted("poll") \/ UNCHANGED <<macro, timers>>
      BY <1>0, <3>1, AddCustomerTypes DEF TypeOK
    <3>3. QED
      BY <3>2 DEF QueueTimer, QueueSame
  <2>4. CASE \E s \in Server : MakeServer(s)
    <3>1. PICK s \in Server : AddRequiredEventCustomer(ServerEvents(s))
      BY <2>4 DEF MakeServer
    <3>2. TimerStarted("poll") \/ UNCHANGED <<macro, timers>>
      BY <1>0, <3>1, AddCustomerTypes DEF TypeOK
    <3>3. QED
      BY <3>2 DEF QueueTimer, QueueSame
  <2>5. CASE \/ RunInMicroQueue \/ \E t \in timers : RemoveScriptTimer(t)
             \/ (\E file \in File : Include(file)) \/ Raise
    BY <2>5 DEF RunInMicroQueue, RemoveScriptTimer, RemoveTimer, Include, Raise, Unwind,
                QueueSame, timerVars
  <2>6. QED
    BY <1>1, <2>1, <2>2, <2>3, <2>4, <2>5 DEF ScriptStep
<1>2. CASE ScriptReturn
  <2>1. CASE BodyEnd \/ CrossReturn \/ MicroReturn
    BY <2>1 DEF BodyEnd, CrossReturn, MicroReturn, QueueSame, timerVars
  <2>2. CASE MacroReturn
    BY <1>0, <2>2 DEF MacroReturn, Goto, CallPositions, QueuePopped, Popped, timerVars
  <2>3. CASE TimerReturn
    BY <1>0, <2>3
    DEF TimerReturn, Goto, CallPositions, TimerTaskEnd, RemoveTimer, Current, QueuePopped,
        QueueRotated, Popped, Requeued, timerVars
  <2>4. CASE PollReturn
    BY <1>0, <2>4
    DEF PollReturn, Goto, CallPositions, TimerTaskEnd, Current, QueuePopped, QueueRotated,
        Popped, Requeued, timerVars
  <2>5. QED
    BY <1>2, <2>1, <2>2, <2>3, <2>4 DEF ScriptReturn
<1>3. CASE LoopStep
  <2>1. CASE LoopHead \/ LoopExit \/ CrossNext \/ MicroNext \/ MacroNext \/ TimerDue
    BY <2>1 DEF LoopHead, LoopExit, CrossNext, MicroNext, MacroNext, TimerDue, QueueSame,
                timerVars
  <2>2. CASE TimerGone \/ TimerNotDue \/ PollEmpty
    BY <1>0, <2>2
    DEF TimerGone, TimerNotDue, PollEmpty, Goto, CallPositions, TimerTaskEnd, Current,
        QueuePopped, QueueRotated, Popped, Requeued, timerVars
  <2>3. CASE PollEvent
    <3>1. CASE Head(reqQ) \in customers
      BY <2>3, <3>1 DEF PollEvent, EraseCustomer, RemoveTimer, QueueSame, timerVars
    <3>2. CASE Head(reqQ) \notin customers
      BY <1>0, <2>3, <3>2
      DEF PollEvent, CallPositions, TimerTaskEnd, Current, QueuePopped, QueueRotated, Popped,
          Requeued, timerVars
    <3>3. QED
      BY <3>1, <3>2
  <2>4. QED
    BY <1>3, <2>1, <2>2, <2>3 DEF LoopStep
<1>4. CASE \/ ReadLine \/ EndOfInput \/ Environment \/ UNCHANGED vars
  BY <1>4 DEF ReadLine, EndOfInput, Environment, Elapse, Respond, ServerListen, ServerError,
              Push2CrossThreadEventPendingQueue, vars, QueueSame, timerVars
<1>5. QED
  BY <1>1, <1>2, <1>3, <1>4 DEF Next, Ended

\* If every entry of a timer that stays is still somewhere, live timers stay queued.
LEMMA EntriesKept ==
    ASSUME LiveQueued, timers' \subseteq timers,
           \A t \in timers', i \in 1 .. Len(macro) :
             macro[i] = TimerEntry(t) => \E j \in 1 .. Len(macro') : macro'[j] = TimerEntry(t)
    PROVE  LiveQueued'
BY DEF LiveQueued

LEMMA NextLiveQueued ==
    ASSUME TypeInv, LiveQueued, [Next]_vars
    PROVE  LiveQueued'
<1>1. macro \in Seq(MacroEntry) /\ Len(macro) \in Nat
  BY DEF TypeInv, TypeOK
<1>2. CASE QueueSame
  BY <1>2 DEF QueueSame, LiveQueued
<1>3. CASE QueueTask
  <2>1. PICK e \in MacroEntry : macro' = Append(macro, e) /\ timers' \subseteq timers
    BY <1>3 DEF QueueTask
  <2>2. /\ Len(macro') = Len(macro) + 1
        /\ \A i \in 1 .. Len(macro) : macro'[i] = macro[i]
    BY <1>1, <2>1, AppendFacts
  <2>3. QED
    BY <1>1, <2>1, <2>2, EntriesKept
<1>4. CASE QueueTimer
  <2>1. PICK k \in {"every", "once", "poll"} : TimerStarted(k)
    BY <1>4 DEF QueueTimer
  <2>2. \E j \in 1 .. Len(macro') : macro'[j] = TimerEntry(NextTimer)
    BY <1>1, <2>1 DEF TimerStarted
  <2>3. \A t \in timers : \E j \in 1 .. Len(macro') : macro'[j] = TimerEntry(t)
    BY <1>1, <2>1 DEF TimerStarted, LiveQueued
  <2>4. QED
    BY <2>1, <2>2, <2>3 DEF TimerStarted, LiveQueued
<1>5. CASE QueuePopped
  <2>1. /\ macro' \in Seq(MacroEntry) /\ Len(macro') = Len(macro) - 1
        /\ \A i \in 1 .. Len(macro') : macro'[i] = macro[i + 1]
        /\ Head(macro) = macro[1]
    BY <1>1, <1>5, TailFacts DEF QueuePopped, Popped
  <2>2. ASSUME NEW t \in timers', NEW i \in 1 .. Len(macro), macro[i] = TimerEntry(t)
        PROVE  \E j \in 1 .. Len(macro') : macro'[j] = TimerEntry(t)
    <3>1. i # 1
      BY <1>5, <2>1, <2>2 DEF QueuePopped, TimerEntry
    <3>2. i - 1 \in 1 .. Len(macro') /\ macro'[i - 1] = macro[i]
      BY <1>1, <2>1, <3>1
    <3>3. QED
      BY <2>2, <3>2
  <2>3. QED
    BY <1>5, <2>2, EntriesKept DEF QueuePopped
<1>6. CASE QueueRotated
  <2>1. /\ Tail(macro) \in Seq(MacroEntry) /\ Len(Tail(macro)) = Len(macro) - 1
        /\ \A i \in 1 .. Len(Tail(macro)) : Tail(macro)[i] = macro[i + 1]
        /\ Head(macro) = macro[1] /\ Head(macro) \in MacroEntry
    BY <1>1, <1>6, TailFacts DEF QueueRotated
  <2>2. /\ Len(macro') = Len(Tail(macro)) + 1
        /\ macro'[Len(Tail(macro)) + 1] = Head(macro)
        /\ \A i \in 1 .. Len(Tail(macro)) : macro'[i] = Tail(macro)[i]
    BY <1>6, <2>1, AppendFacts DEF QueueRotated, Requeued
  <2>3. Len(macro') = Len(macro) /\ macro'[Len(macro)] = macro[1]
    BY <1>1, <2>1, <2>2
  <2>4. ASSUME NEW i \in 1 .. Len(macro)
        PROVE  \E j \in 1 .. Len(macro') : macro'[j] = macro[i]
    <3>1. CASE i = 1
      BY <1>1, <2>3, <2>4, <3>1
    <3>2. CASE i # 1
      <4>1. i - 1 \in 1 .. Len(Tail(macro)) /\ i - 1 \in 1 .. Len(macro')
        BY <1>1, <2>1, <2>3, <3>2
      <4>2. macro'[i - 1] = macro[i]
        BY <2>1, <2>2, <4>1
      <4>3. QED
        BY <4>1, <4>2
    <3>3. QED
      BY <3>1, <3>2
  <2>5. QED
    BY <1>6, <2>4, EntriesKept DEF QueueRotated
<1>7. QED
  BY <1>2, <1>3, <1>4, <1>5, <1>6, QueueSteps

-----------------------------------------------------------------------------
(* The poll timer lives while there are customers.                           *)

\* Scripts remove only the timers they started.
OwnTimersOnly == "remove_any" \notin Ops

LEMMA AddCustomerPollTimerInv ==
    ASSUME TypeInv, PollTimerInv, NEW E, AddRequiredEventCustomer(E)
    PROVE  PollTimerInv'
<1>1. TimersTyped /\ pollTimer \in 0 .. Len(kind)
  BY DEF TypeInv, TypeOK, TimersTyped
<1>2. /\ pollTimer' \in 1 .. Len(kind')
      /\ \/ TimerStarted("poll") /\ pollTimer' = NextTimer
         \/ pollTimer # 0 /\ UNCHANGED <<pollTimer, macro, kind, timers, due>>
  BY <1>1, AddCustomerTypes
<1>3. QED
  BY <1>2 DEF PollTimerInv, TimerStarted

LEMMA NextPollTimerInv ==
    ASSUME OwnTimersOnly, TypeInv, PollTimerInv, [Next]_vars
    PROVE  PollTimerInv'
<1>0. TypeOK /\ CallPositions /\ TimersTyped
  BY DEF TypeInv, TypeOK, TimersTyped
<1>1. CASE \E k \in {"every", "once"} : StartScriptTimer(k)
  <2>1. PICK k \in {"every", "once"} : StartScriptTimer(k)
    BY <1>1
  <2>2. TimerStarted(k) /\ UNCHANGED <<customers, pollTimer>>
    BY <1>0, <2>1, StartTimerTypes DEF StartScriptTimer, eventVars
  <2>3. pollTimer # 0 => pollTimer \in 1 .. Len(kind)
    BY <1>0 DEF TypeOK, TimersTyped
  <2>4. QED
    BY <2>2, <2>3 DEF PollTimerInv, TimerStarted
<1>2. CASE \E t \in timers : RemoveScriptTimer(t)
  BY <1>2 DEF RemoveScriptTimer, RemoveTimer, ScriptTimers, OwnTimersOnly, PollTimerInv,
              eventVars
<1>3. CASE \E f \in Fetch : FetchAsync(f)
  BY <1>3, AddCustomerPollTimerInv DEF FetchAsync
<1>4. CASE \E s \in Server : MakeServer(s)
  BY <1>4, AddCustomerPollTimerInv DEF MakeServer
<1>5. CASE TimerReturn
  BY <1>0, <1>5
  DEF TimerReturn, Goto, RemoveTimer, CallPositions, PollTimerInv, timerVars, eventVars
<1>6. CASE PollEvent
  BY <1>6 DEF PollEvent, EraseCustomer, RemoveTimer, PollTimerInv, timerVars
<1>7. CASE TimerDue \/ \E t \in timers : Elapse(t)
  BY <1>7 DEF TimerDue, Elapse, PollTimerInv, eventVars
<1>8. CASE \/ RunInMicroQueue \/ RunInMacroQueue \/ (\E file \in File : Include(file)) \/ Raise
           \/ BodyEnd \/ CrossReturn \/ MicroReturn \/ MacroReturn \/ PollReturn
  BY <1>8 DEF RunInMicroQueue, RunInMacroQueue, Include, Raise, BodyEnd, CrossReturn,
              MicroReturn, MacroReturn, PollReturn, PollTimerInv, timerVars, eventVars
<1>9. CASE \/ LoopHead \/ LoopExit \/ CrossNext \/ MicroNext \/ MacroNext
           \/ TimerGone \/ TimerNotDue \/ PollEmpty \/ ReadLine \/ EndOfInput
  BY <1>9 DEF LoopHead, LoopExit, CrossNext, MicroNext, MacroNext, TimerGone, TimerNotDue,
              PollEmpty, ReadLine, EndOfInput, PollTimerInv, timerVars, eventVars
<1>10. CASE \/ \E f \in Fetch : Respond(f)
            \/ \E s \in Server :
                 ServerListen(s) \/ ServerError(s) \/ Push2CrossThreadEventPendingQueue(s)
            \/ UNCHANGED vars
  BY <1>10 DEF Respond, ServerListen, ServerError, Push2CrossThreadEventPendingQueue, vars,
               PollTimerInv, timerVars, eventVars
<1>11. QED
  BY <1>1, <1>2, <1>3, <1>4, <1>5, <1>6, <1>7, <1>8, <1>9, <1>10
  DEF Next, ScriptStep, ScriptReturn, LoopStep, Environment, Ended

-----------------------------------------------------------------------------
(* Events on their way have customers.                                       *)

LEMMA EventsDiffer ==
    /\ \A f, g \in Fetch : FetchEvent(f) = FetchEvent(g) => f = g
    /\ \A s, u \in Server : InitEvent(s) = InitEvent(u) => s = u
    /\ \A f \in Fetch, s \in Server :
         /\ FetchEvent(f) # InitEvent(s) /\ FetchEvent(f) # CloseEvent(s)
         /\ InitEvent(s) # CloseEvent(s)
    /\ \A s, u \in Server : InitEvent(s) # CloseEvent(u)
BY DEF FetchEvent, InitEvent, CloseEvent

LEMMA NextEventsInv ==
    ASSUME TypeInv, EventsInv, [Next]_vars
    PROVE  EventsInv'
<1>0. TypeOK /\ TimersTyped /\ reqQ \in Seq(Event) /\ Len(reqQ) \in Nat
  BY DEF TypeInv, TypeOK, TimersTyped
<1>1. CASE \E f \in Fetch : FetchAsync(f)
  <2>1. PICK f \in Fetch : FetchAsync(f)
    BY <1>1
  <2>2. /\ f \notin requested /\ requested' = requested \cup {f}
        /\ inflight' = inflight \cup {f}
        /\ customers' = customers \cup {FetchEvent(f)}
        /\ UNCHANGED <<reqQ, server>>
    BY <2>1 DEF FetchAsync, AddRequiredEventCustomer, serverVars
  <2>3. \A i \in 1 .. Len(reqQ) : reqQ[i] # FetchEvent(f)
    BY <2>2 DEF EventsInv
  <2>4. inflight \subseteq Fetch
    BY <1>0 DEF TypeOK
  <2>5. QED
    BY <2>2, <2>3, <2>4, EventsDiffer DEF EventsInv
<1>2. CASE \E s \in Server : MakeServer(s)
  <2>1. PICK s \in Server : MakeServer(s)
    BY <1>2
  <2>2. /\ server[s] = "none" /\ server' = [server EXCEPT ![s] = "starting"]
        /\ customers' = customers \cup {CloseEvent(s), InitEvent(s)}
        /\ UNCHANGED <<reqQ, inflight, requested>>
    BY <2>1 DEF MakeServer, ServerEvents, AddRequiredEventCustomer
  <2>3. \A i \in 1 .. Len(reqQ) : reqQ[i] # InitEvent(s)
    BY <2>2 DEF EventsInv
  <2>4. server \in [Server -> {"none", "starting", "open"}]
    BY <1>0 DEF TypeOK
  <2>5. QED
    BY <2>2, <2>3, <2>4, EventsDiffer DEF EventsInv
<1>3. CASE PollEvent
  <2>1. /\ reqQ # <<>> /\ reqQ' = Tail(reqQ)
        /\ UNCHANGED <<requested, inflight, server>>
    BY <1>3 DEF PollEvent, Goto, serverVars
  <2>2. /\ Len(reqQ') = Len(reqQ) - 1 /\ Head(reqQ) = reqQ[1]
        /\ \A i \in 1 .. Len(reqQ') : reqQ'[i] = reqQ[i + 1]
    BY <1>0, <2>1, TailFacts
  <2>3. /\ 1 \in 1 .. Len(reqQ)
        /\ \A i \in 1 .. Len(reqQ') : i + 1 \in 1 .. Len(reqQ) /\ i + 1 # 1
    BY <1>0, <2>1, <2>2
  <2>4. customers' = customers \ {reqQ[1]}
    BY <1>3, <2>2, <2>3 DEF PollEvent, EraseCustomer, EventsInv
  <2>5. \A i \in 1 .. Len(reqQ') : reqQ'[i] \in customers'
    BY <2>2, <2>3, <2>4 DEF EventsInv
  <2>6. \A i, j \in 1 .. Len(reqQ') : reqQ'[i] = reqQ'[j] => i = j
    <3>1. SUFFICES ASSUME NEW i \in 1 .. Len(reqQ'), NEW j \in 1 .. Len(reqQ'),
                          reqQ'[i] = reqQ'[j]
                   PROVE  i = j
      OBVIOUS
    <3>2. i + 1 = j + 1
      BY <2>2, <2>3, <3>1 DEF EventsInv
    <3>3. QED
      BY <3>2
  <2>7. inflight \subseteq Fetch
    BY <1>0 DEF TypeOK
  <2>8. /\ \A f \in Fetch : f \in inflight => FetchEvent(f) \in customers'
        /\ \A s \in Server : server[s] = "starting" => InitEvent(s) \in customers'
    BY <2>3, <2>4, <2>7 DEF EventsInv
  <2>9. QED
    BY <2>1, <2>2, <2>3, <2>4, <2>5, <2>6, <2>8 DEF EventsInv
<1>4. CASE \E f \in Fetch : Respond(f)
  <2>1. PICK f \in Fetch : Respond(f)
    BY <1>4
  <2>2. /\ f \in inflight /\ inflight' = inflight \ {f}
        /\ reqQ' = Append(reqQ, FetchEvent(f))
        /\ UNCHANGED <<requested, customers, server>>
    BY <2>1 DEF Respond, Push2RequiredEventPendingQueue, serverVars
  <2>3. FetchEvent(f) \in Event
    BY DEF Event
  <2>4. /\ Len(reqQ') = Len(reqQ) + 1 /\ reqQ'[Len(reqQ) + 1] = FetchEvent(f)
        /\ \A i \in 1 .. Len(reqQ) : reqQ'[i] = reqQ[i]
    BY <1>0, <2>2, <2>3, AppendFacts
  <2>5. \A i \in 1 .. Len(reqQ') : i \in 1 .. Len(reqQ) \/ i = Len(reqQ) + 1
    BY <1>0, <2>4
  <2>6. inflight \subseteq Fetch
    BY <1>0 DEF TypeOK
  <2>7. QED
    BY <2>2, <2>4, <2>5, <2>6, EventsDiffer DEF EventsInv
<1>5. CASE \E s \in Server : ServerListen(s)
  <2>1. PICK s \in Server : ServerListen(s)
    BY <1>5
  <2>2. /\ server[s] = "starting" /\ server' = [server EXCEPT ![s] = "open"]
        /\ reqQ' = Append(reqQ, InitEvent(s))
        /\ UNCHANGED <<requested, customers, inflight>>
    BY <2>1 DEF ServerListen, Push2RequiredEventPendingQueue
  <2>3. InitEvent(s) \in Event
    BY DEF Event
  <2>4. /\ Len(reqQ') = Len(reqQ) + 1 /\ reqQ'[Len(reqQ) + 1] = InitEvent(s)
        /\ \A i \in 1 .. Len(reqQ) : reqQ'[i] = reqQ[i]
    BY <1>0, <2>2, <2>3, AppendFacts
  <2>5. \A i \in 1 .. Len(reqQ') : i \in 1 .. Len(reqQ) \/ i = Len(reqQ) + 1
    BY <1>0, <2>4
  <2>6. inflight \subseteq Fetch /\ server \in [Server -> {"none", "starting", "open"}]
    BY <1>0 DEF TypeOK
  <2>7. QED
    BY <2>2, <2>4, <2>5, <2>6, EventsDiffer DEF EventsInv
<1>6. CASE UNCHANGED <<requested, customers, inflight, reqQ, server>>
  BY <1>6 DEF EventsInv
<1>7. CASE ScriptStep
  BY <1>1, <1>2, <1>6, <1>7
  DEF ScriptStep, RunInMicroQueue, RunInMacroQueue, StartScriptTimer, RemoveScriptTimer,
      Include, Raise, eventVars, serverVars
<1>8. CASE ScriptReturn
  BY <1>6, <1>8
  DEF ScriptReturn, BodyEnd, CrossReturn, MicroReturn, MacroReturn, TimerReturn, PollReturn,
      Goto, eventVars, serverVars
<1>9. CASE LoopStep
  BY <1>3, <1>6, <1>9
  DEF LoopStep, LoopHead, LoopExit, CrossNext, MicroNext, MacroNext, TimerGone, TimerNotDue,
      TimerDue, PollEmpty, Goto, eventVars, serverVars
<1>10. CASE Environment
  BY <1>4, <1>5, <1>6, <1>10
  DEF Environment, Elapse, ServerError, Push2CrossThreadEventPendingQueue, eventVars,
      serverVars
<1>11. CASE ReadLine \/ EndOfInput \/ UNCHANGED vars
  BY <1>6, <1>11 DEF ReadLine, EndOfInput, Goto, vars, eventVars, serverVars
<1>12. QED
  BY <1>7, <1>8, <1>9, <1>10, <1>11 DEF Next, Ended

-----------------------------------------------------------------------------
LoopInv == TypeInv /\ LiveQueued /\ PollTimerInv /\ EventsInv

LEMMA InitLoopInv == Init => LoopInv
<1> SUFFICES ASSUME Init PROVE LoopInv
  OBVIOUS
<1>1. LiveQueued /\ PollTimerInv
  BY DEF Init, LiveQueued, PollTimerInv
<1>2. EventsInv
  BY DEF Init, EventsInv
<1>3. QED
  BY <1>1, <1>2, InitTypeInv DEF LoopInv

LEMMA NextLoopInv == OwnTimersOnly /\ LoopInv /\ [Next]_vars => LoopInv'
BY NextTypeInv, NextLiveQueued, NextPollTimerInv, NextEventsInv DEF LoopInv

\* With both queues empty nothing is left that a callback waits for.
LEMMA EmptyQueues == LoopInv /\ macro = <<>> => NothingRequired /\ timers = {}
<1> SUFFICES ASSUME LoopInv, macro = <<>> PROVE NothingRequired /\ timers = {}
  OBVIOUS
<1>1. timers = {}
  BY DEF LoopInv, LiveQueued
<1>2. customers = {}
  BY <1>1 DEF LoopInv, PollTimerInv
<1>3. inflight = {}
  BY <1>2 DEF LoopInv, EventsInv, TypeInv, TypeOK
<1>4. reqQ = <<>>
  <2>1. reqQ \in Seq(Event) /\ \A i \in 1 .. Len(reqQ) : FALSE
    BY <1>2 DEF LoopInv, EventsInv, TypeInv, TypeOK
  <2>2. QED
    BY <2>1
<1>5. QED
  BY <1>1, <1>2, <1>3, <1>4 DEF NothingRequired

\* The only step that leaves the head of the loop for a program or main.
LEMMA LeavingTheLoop ==
    ASSUME Next, pc = "head", pc' \in {"body", "prompt", "done"}
    PROVE  macro = <<>>
<1>1. CASE ScriptStep \/ ScriptReturn
  BY <1>1
  DEF ScriptStep, RunInMicroQueue, RunInMacroQueue, StartScriptTimer, RemoveScriptTimer,
      FetchAsync, MakeServer, Include, Raise, InScript, ScriptPc, ScriptReturn, BodyEnd,
      CrossReturn, MicroReturn, MacroReturn, TimerReturn, PollReturn, Goto
<1>2. CASE LoopStep
  BY <1>2
  DEF LoopStep, LoopHead, LoopExit, CrossNext, MicroNext, MacroNext, TimerGone, TimerNotDue,
      TimerDue, PollEmpty, PollEvent, Goto
<1>3. CASE ReadLine \/ EndOfInput \/ Environment \/ Ended
  BY <1>3
  DEF ReadLine, EndOfInput, Environment, Elapse, Respond, ServerListen, ServerError,
      Push2CrossThreadEventPendingQueue, Goto, Ended, vars
<1>4. QED
  BY <1>1, <1>2, <1>3 DEF Next

\* The loop does not return before the required events are handled, in -exec
\* and at the prompt, exceptions included, unless a script removes timers by
\* numbers that start_timer did not give it.
THEOREM RequiredBeforeExitHolds ==
    ASSUME OwnTimersOnly
    PROVE  Spec => RequiredBeforeExit
<1>1. LoopInv /\ [Next]_vars => LoopInv'
  BY NextLoopInv
<1>2. LoopInv /\ [Next]_vars
        => [pc = "head" /\ pc' \in {"body", "prompt", "done"}
              => NothingRequired /\ timers = {}]_vars
  BY EmptyQueues, LeavingTheLoop
<1>3. QED
  BY <1>1, <1>2, InitLoopInv, PTL DEF Spec, RequiredBeforeExit

-----------------------------------------------------------------------------
(* What the queues hold.                                                   *)

\* The micro queue holds ids of tasks in the order they were queued.
MicroInv ==
    /\ \A i \in 1 .. Len(micro) : micro[i] \in 1 .. tasks
    /\ \A i, j \in 1 .. Len(micro) : i < j => micro[i] < micro[j]

\* So do the task entries of the macro queue; no entry is in it twice.
MacroInv ==
    /\ \A i \in 1 .. Len(macro) :
          /\ macro[i].kind = "task" => macro[i].id \in 1 .. tasks
          /\ macro[i].kind = "timer" => macro[i].id \in 1 .. Len(kind)
    /\ \A i, j \in 1 .. Len(macro) :
          /\ macro[i] = macro[j] => i = j
          /\ i < j /\ macro[i].kind = "task" /\ macro[j].kind = "task"
               => macro[i].id < macro[j].id

\* What has finished: tasks older than those still queued, once timers that
\* are gone.
FinishedInv ==
    \A e \in finished :
      /\ e.kind = "micro" => /\ e.id \in 1 .. tasks
                             /\ \A i \in 1 .. Len(micro) : e.id < micro[i]
      /\ e.kind = "task"  => /\ e.id \in 1 .. tasks
                             /\ \A i \in 1 .. Len(macro) :
                                  macro[i].kind = "task" => e.id < macro[i].id
      /\ e.kind = "timer" => /\ e.id \in 1 .. Len(kind) /\ e.id \notin timers
                             /\ \A i \in 1 .. Len(macro) : macro[i] # e

\* Where a task may be.
InMicro(n) == \E i \in 1 .. Len(micro) : micro[i] = n
InMacro(n) == \E i \in 1 .. Len(macro) : macro[i] = TaskEntry(n)

\* A task is of one queue, and in it or finished.
OneQueueInv ==
    \A n \in 1 .. tasks :
      \/ /\ InMicro(n) \/ MicroEntry(n) \in finished
         /\ ~InMacro(n) /\ TaskEntry(n) \notin finished
      \/ /\ InMacro(n) \/ TaskEntry(n) \in finished
         /\ ~InMicro(n) /\ MicroEntry(n) \notin finished

QueuesInv == MicroInv /\ MacroInv /\ FinishedInv /\ OneQueueInv

\* The poll timer is the only timer of its kind, and lives with the customers.
OnePollTimer ==
    /\ customers = {} <=> pollTimer = 0
    /\ \A t \in timers : kind[t] = "poll" <=> t = pollTimer
    /\ pollTimer # 0 => pollTimer \in timers

\* A customer whose event is not on its way finds it in the queue.
CustomersServed ==
    /\ \A f \in Fetch : FetchEvent(f) \in customers /\ f \notin inflight =>
          \E i \in 1 .. Len(reqQ) : reqQ[i] = FetchEvent(f)
    /\ \A s \in Server : InitEvent(s) \in customers /\ server[s] # "starting" =>
          \E i \in 1 .. Len(reqQ) : reqQ[i] = InitEvent(s)

\* The macro task is looked for when no micro task is left.
MacroPhase == pc = "macro" => micro = <<>>

-----------------------------------------------------------------------------
(* Micro tasks come before the next macro task. *)

LEMMA NextMacroPhase == MacroPhase /\ [Next]_vars => MacroPhase'
<1> SUFFICES ASSUME MacroPhase, [Next]_vars PROVE MacroPhase'
  OBVIOUS
<1>1. CASE ScriptStep
  BY <1>1
  DEF ScriptStep, RunInMicroQueue, RunInMacroQueue, StartScriptTimer, RemoveScriptTimer,
      FetchAsync, MakeServer, Include, Raise, InScript, ScriptPc, MacroPhase
<1>2. CASE ScriptReturn
  BY <1>2
  DEF ScriptReturn, BodyEnd, CrossReturn, MicroReturn, MacroReturn, TimerReturn, PollReturn,
      Goto, MacroPhase
<1>3. CASE LoopStep
  BY <1>3
  DEF LoopStep, LoopHead, LoopExit, CrossNext, MicroNext, MacroNext, TimerGone, TimerNotDue,
      TimerDue, PollEmpty, PollEvent, Goto, taskVars, MacroPhase
<1>4. CASE ReadLine \/ EndOfInput
  BY <1>4 DEF ReadLine, EndOfInput, Goto, MacroPhase
<1>5. CASE Environment
  BY <1>5
  DEF Environment, Elapse, Respond, ServerListen, ServerError,
      Push2CrossThreadEventPendingQueue, taskVars, MacroPhase
<1>6. CASE UNCHANGED vars
  BY <1>6 DEF vars, MacroPhase
<1>7. QED
  BY <1>1, <1>2, <1>3, <1>4, <1>5, <1>6 DEF Next, Ended

\* No macro task and no timer starts while a micro task is queued, whoever
\* queued it and whatever was raised in between.
THEOREM MicroBeforeMacroHolds == Spec => MicroBeforeMacro
<1>1. Init => MacroPhase
  BY DEF Init, MacroPhase
<1>2. MacroPhase => [pc = "macro" /\ pc' \in {"macroCall", "timer"} => micro = <<>>]_vars
  BY DEF MacroPhase
<1>3. QED
  BY <1>1, <1>2, NextMacroPhase, PTL DEF Spec, MicroBeforeMacro

-----------------------------------------------------------------------------
(* The poll timer is the only one of its kind, and lives with the customers. *)

LEMMA AddCustomerOnePollTimer ==
    ASSUME TypeInv, OnePollTimer, NEW E, E # {}, AddRequiredEventCustomer(E)
    PROVE  OnePollTimer'
<1>1. TimersTyped /\ pollTimer \in 0 .. Len(kind) /\ Len(kind) \in Nat
  BY DEF TypeInv, TypeOK, TimersTyped
<1>2. /\ pollTimer' \in 1 .. Len(kind') /\ customers' = customers \cup E
      /\ \/ pollTimer = 0 /\ TimerStarted("poll") /\ pollTimer' = NextTimer
         \/ pollTimer # 0 /\ UNCHANGED <<pollTimer, macro, kind, timers, due>>
  BY <1>1, AddCustomerTypes
<1>3. customers' # {} /\ pollTimer' # 0
  BY <1>1, <1>2
<1>4. CASE pollTimer = 0 /\ TimerStarted("poll") /\ pollTimer' = NextTimer
  <2>1. \A t \in timers : t \in 1 .. Len(kind) /\ t # NextTimer /\ kind[t] # "poll"
    BY <1>1, <1>4 DEF OnePollTimer, TimersTyped, NextTimer
  <2>2. \A t \in timers' : kind'[t] = "poll" <=> t = pollTimer'
    BY <1>4, <2>1 DEF TimerStarted
  <2>3. QED
    BY <1>3, <1>4, <2>2 DEF OnePollTimer, TimerStarted
<1>5. CASE pollTimer # 0 /\ UNCHANGED <<pollTimer, macro, kind, timers, due>>
  BY <1>3, <1>5 DEF OnePollTimer
<1>6. QED
  BY <1>2, <1>4, <1>5

LEMMA NextOnePollTimer ==
    ASSUME OwnTimersOnly, TypeInv, OnePollTimer, [Next]_vars
    PROVE  OnePollTimer'
<1>0. TypeOK /\ CallPositions /\ TimersTyped /\ Len(kind) \in Nat
  BY DEF TypeInv, TypeOK, TimersTyped
<1>1. CASE \E k \in {"every", "once"} : StartScriptTimer(k)
  <2>1. PICK k \in {"every", "once"} : StartScriptTimer(k)
    BY <1>1
  <2>2. TimerStarted(k) /\ UNCHANGED <<customers, pollTimer>>
    BY <1>0, <2>1, StartTimerTypes DEF StartScriptTimer, eventVars
  <2>3. /\ pollTimer \in 0 .. Len(kind) /\ pollTimer # NextTimer
        /\ \A t \in timers : t \in 1 .. Len(kind)
    BY <1>0 DEF TypeOK, TimersTyped, NextTimer
  <2>4. \A t \in timers' : kind'[t] = "poll" <=> t = pollTimer'
    BY <2>2, <2>3 DEF OnePollTimer, TimerStarted
  <2>5. QED
    BY <2>2, <2>4 DEF OnePollTimer, TimerStarted
<1>2. CASE \E t \in timers : RemoveScriptTimer(t)
  BY <1>2 DEF RemoveScriptTimer, RemoveTimer, ScriptTimers, OwnTimersOnly, OnePollTimer,
              eventVars
<1>3. CASE \E f \in Fetch : FetchAsync(f)
  BY <1>3, AddCustomerOnePollTimer DEF FetchAsync
<1>4. CASE \E s \in Server : MakeServer(s)
  <2>1. \A s \in Server : ServerEvents(s) # {}
    BY DEF ServerEvents
  <2>2. QED
    BY <1>4, <2>1, AddCustomerOnePollTimer DEF MakeServer
<1>5. CASE TimerReturn
  BY <1>0, <1>5
  DEF TimerReturn, Goto, RemoveTimer, CallPositions, OnePollTimer, timerVars, eventVars
<1>6. CASE PollEvent
  <2>1. CASE UNCHANGED <<customers, pollTimer, kind, timers>>
    BY <2>1 DEF OnePollTimer
  <2>2. CASE /\ Head(reqQ) \in customers /\ EraseCustomer(Head(reqQ))
    <3>1. CASE customers' = {}
      <4>1. kind' = kind /\ timers' = timers \ {pollTimer} /\ pollTimer' = 0
        BY <2>2, <3>1 DEF EraseCustomer, RemoveTimer
      <4>2. \A t \in timers' : t # 0 /\ kind[t] # "poll"
        BY <1>0, <4>1 DEF OnePollTimer, TimersTyped
      <4>3. QED
        BY <3>1, <4>1, <4>2 DEF OnePollTimer
    <3>2. CASE customers' # {}
      BY <2>2, <3>2 DEF EraseCustomer, OnePollTimer, timerVars
    <3>3. QED
      BY <3>1, <3>2
  <2>3. QED
    BY <1>6, <2>1, <2>2 DEF PollEvent, timerVars
<1>7. CASE TimerDue \/ \E t \in timers : Elapse(t)
  BY <1>7 DEF TimerDue, Elapse, OnePollTimer, eventVars
<1>8. CASE \/ RunInMicroQueue \/ RunInMacroQueue \/ (\E file \in File : Include(file)) \/ Raise
           \/ BodyEnd \/ CrossReturn \/ MicroReturn \/ MacroReturn \/ PollReturn
  BY <1>8 DEF RunInMicroQueue, RunInMacroQueue, Include, Raise, BodyEnd, CrossReturn,
              MicroReturn, MacroReturn, PollReturn, OnePollTimer, timerVars, eventVars
<1>9. CASE \/ LoopHead \/ LoopExit \/ CrossNext \/ MicroNext \/ MacroNext
           \/ TimerGone \/ TimerNotDue \/ PollEmpty \/ ReadLine \/ EndOfInput
  BY <1>9 DEF LoopHead, LoopExit, CrossNext, MicroNext, MacroNext, TimerGone, TimerNotDue,
              PollEmpty, ReadLine, EndOfInput, OnePollTimer, timerVars, eventVars
<1>10. CASE \/ \E f \in Fetch : Respond(f)
            \/ \E s \in Server :
                 ServerListen(s) \/ ServerError(s) \/ Push2CrossThreadEventPendingQueue(s)
            \/ UNCHANGED vars
  BY <1>10 DEF Respond, ServerListen, ServerError, Push2CrossThreadEventPendingQueue, vars,
               OnePollTimer, timerVars, eventVars
<1>11. QED
  BY <1>1, <1>2, <1>3, <1>4, <1>5, <1>6, <1>7, <1>8, <1>9, <1>10
  DEF Next, ScriptStep, ScriptReturn, LoopStep, Environment, Ended

\* The poll timer lives exactly while some required event has a customer, and
\* there is never a second one, unless a script removes timers by numbers that
\* start_timer did not give it.
THEOREM PollTimerServesCustomersHolds ==
    ASSUME OwnTimersOnly
    PROVE  Spec => []PollTimerServesCustomers
<1>1. Init => TypeInv /\ OnePollTimer
  BY InitTypeInv DEF Init, OnePollTimer
<1>2. TypeInv /\ OnePollTimer /\ [Next]_vars => (TypeInv /\ OnePollTimer)'
  BY NextTypeInv, NextOnePollTimer
<1>3. TypeInv /\ OnePollTimer => PollTimerServesCustomers
  BY DEF OnePollTimer, PollTimerServesCustomers
<1>4. QED
  BY <1>1, <1>2, <1>3, PTL DEF Spec

-----------------------------------------------------------------------------
(* How often an entry is in a queue. *)

LEMMA AbsentCount ==
    ASSUME NEW S, NEW q \in Seq(S), NEW e, \A i \in 1 .. Len(q) : q[i] # e
    PROVE  Cardinality(Positions(q, e)) = 0
<1>1. Positions(q, e) = {}
  BY DEF Positions
<1>2. QED
  BY <1>1, FS_EmptySet

LEMMA UniqueCount ==
    ASSUME NEW S, NEW q \in Seq(S), NEW e, \E i \in 1 .. Len(q) : q[i] = e,
           \A i, j \in 1 .. Len(q) : q[i] = e /\ q[j] = e => i = j
    PROVE  Cardinality(Positions(q, e)) = 1
<1>1. PICK i \in 1 .. Len(q) : q[i] = e
  OBVIOUS
<1>2. Positions(q, e) = {i}
  BY <1>1 DEF Positions
<1>3. QED
  BY <1>2, FS_Singleton

-----------------------------------------------------------------------------
(* An event with a customer is on its way or queued. *)

LEMMA NextCustomersServed ==
    ASSUME TypeInv, EventsInv, CustomersServed, [Next]_vars
    PROVE  CustomersServed'
<1>0. TypeOK /\ reqQ \in Seq(Event) /\ Len(reqQ) \in Nat
  BY DEF TypeInv, TypeOK
<1>1. CASE \E f \in Fetch : FetchAsync(f)
  <2>1. PICK f \in Fetch : FetchAsync(f)
    BY <1>1
  <2>2. /\ inflight' = inflight \cup {f}
        /\ customers' = customers \cup {FetchEvent(f)}
        /\ UNCHANGED <<reqQ, server>>
    BY <2>1 DEF FetchAsync, AddRequiredEventCustomer, serverVars
  <2>3. QED
    BY <2>2, EventsDiffer DEF CustomersServed
<1>2. CASE \E s \in Server : MakeServer(s)
  <2>1. PICK s \in Server : MakeServer(s)
    BY <1>2
  <2>2. /\ server' = [server EXCEPT ![s] = "starting"]
        /\ customers' = customers \cup {CloseEvent(s), InitEvent(s)}
        /\ UNCHANGED <<reqQ, inflight>>
    BY <2>1 DEF MakeServer, ServerEvents, AddRequiredEventCustomer
  <2>3. server \in [Server -> {"none", "starting", "open"}]
    BY <1>0 DEF TypeOK
  <2>4. QED
    BY <2>2, <2>3, EventsDiffer DEF CustomersServed
<1>3. CASE PollEvent
  <2>1. /\ reqQ # <<>> /\ reqQ' = Tail(reqQ)
        /\ UNCHANGED <<inflight, server>>
    BY <1>3 DEF PollEvent, Goto, serverVars
  <2>2. /\ Len(reqQ') = Len(reqQ) - 1 /\ Head(reqQ) = reqQ[1]
        /\ \A i \in 1 .. Len(reqQ') : reqQ'[i] = reqQ[i + 1]
    BY <1>0, <2>1, TailFacts
  <2>3. 1 \in 1 .. Len(reqQ)
    BY <1>0, <2>1
  <2>4. customers' = customers \ {reqQ[1]}
    BY <1>3, <2>2, <2>3 DEF PollEvent, EraseCustomer, EventsInv
  <2>5. ASSUME NEW e, e # reqQ[1], \E i \in 1 .. Len(reqQ) : reqQ[i] = e
        PROVE  \E i \in 1 .. Len(reqQ') : reqQ'[i] = e
    <3>1. PICK i \in 1 .. Len(reqQ) : reqQ[i] = e
      BY <2>5
    <3>2. i - 1 \in 1 .. Len(reqQ') /\ (i - 1) + 1 = i
      BY <1>0, <2>2, <2>5, <3>1
    <3>3. reqQ'[i - 1] = e
      BY <2>2, <3>1, <3>2
    <3>4. QED
      BY <3>2, <3>3
  <2>6. \A f \in Fetch : FetchEvent(f) \in customers' /\ f \notin inflight' =>
          \E i \in 1 .. Len(reqQ') : reqQ'[i] = FetchEvent(f)
    BY <2>1, <2>4, <2>5 DEF CustomersServed
  <2>7. \A s \in Server : InitEvent(s) \in customers' /\ server'[s] # "starting" =>
          \E i \in 1 .. Len(reqQ') : reqQ'[i] = InitEvent(s)
    BY <2>1, <2>4, <2>5 DEF CustomersServed
  <2>8. QED
    BY <2>6, <2>7 DEF CustomersServed
<1>4. CASE \E f \in Fetch : Respond(f)
  <2>1. PICK f \in Fetch : Respond(f)
    BY <1>4
  <2>2. /\ inflight' = inflight \ {f} /\ reqQ' = Append(reqQ, FetchEvent(f))
        /\ UNCHANGED <<customers, server>>
    BY <2>1 DEF Respond, Push2RequiredEventPendingQueue, serverVars
  <2>3. FetchEvent(f) \in Event
    BY DEF Event
  <2>4. /\ Len(reqQ') = Len(reqQ) + 1 /\ reqQ'[Len(reqQ) + 1] = FetchEvent(f)
        /\ \A i \in 1 .. Len(reqQ) : reqQ'[i] = reqQ[i]
        /\ \A i \in 1 .. Len(reqQ) : i \in 1 .. Len(reqQ')
        /\ Len(reqQ) + 1 \in 1 .. Len(reqQ')
    BY <1>0, <2>2, <2>3, AppendFacts
  <2>5. QED
    BY <2>2, <2>4 DEF CustomersServed
<1>5. CASE \E s \in Server : ServerListen(s)
  <2>1. PICK s \in Server : ServerListen(s)
    BY <1>5
  <2>2. /\ server' = [server EXCEPT ![s] = "open"]
        /\ reqQ' = Append(reqQ, InitEvent(s))
        /\ UNCHANGED <<customers, inflight>>
    BY <2>1 DEF ServerListen, Push2RequiredEventPendingQueue
  <2>3. InitEvent(s) \in Event
    BY DEF Event
  <2>4. /\ Len(reqQ') = Len(reqQ) + 1 /\ reqQ'[Len(reqQ) + 1] = InitEvent(s)
        /\ \A i \in 1 .. Len(reqQ) : reqQ'[i] = reqQ[i]
        /\ \A i \in 1 .. Len(reqQ) : i \in 1 .. Len(reqQ')
        /\ Len(reqQ) + 1 \in 1 .. Len(reqQ')
    BY <1>0, <2>2, <2>3, AppendFacts
  <2>5. server \in [Server -> {"none", "starting", "open"}]
    BY <1>0 DEF TypeOK
  <2>6. QED
    BY <2>2, <2>4, <2>5 DEF CustomersServed
<1>6. CASE UNCHANGED <<customers, inflight, reqQ, server>>
  BY <1>6 DEF CustomersServed
<1>7. CASE ScriptStep
  BY <1>1, <1>2, <1>6, <1>7
  DEF ScriptStep, RunInMicroQueue, RunInMacroQueue, StartScriptTimer, RemoveScriptTimer,
      Include, Raise, eventVars, serverVars
<1>8. CASE ScriptReturn
  BY <1>6, <1>8
  DEF ScriptReturn, BodyEnd, CrossReturn, MicroReturn, MacroReturn, TimerReturn, PollReturn,
      Goto, eventVars, serverVars
<1>9. CASE LoopStep
  BY <1>3, <1>6, <1>9
  DEF LoopStep, LoopHead, LoopExit, CrossNext, MicroNext, MacroNext, TimerGone, TimerNotDue,
      TimerDue, PollEmpty, Goto, eventVars, serverVars
<1>10. CASE Environment
  BY <1>4, <1>5, <1>6, <1>10
  DEF Environment, Elapse, ServerError, Push2CrossThreadEventPendingQueue, eventVars,
      serverVars
<1>11. CASE ReadLine \/ EndOfInput \/ UNCHANGED vars
  BY <1>6, <1>11 DEF ReadLine, EndOfInput, Goto, vars, eventVars, serverVars
<1>12. QED
  BY <1>7, <1>8, <1>9, <1>10, <1>11 DEF Next, Ended

LEMMA EventCounts == TypeInv /\ EventsInv /\ CustomersServed => EventsHaveCustomers
<1> SUFFICES ASSUME TypeInv, EventsInv, CustomersServed PROVE EventsHaveCustomers
  OBVIOUS
<1>1. reqQ \in Seq(Event)
  BY DEF TypeInv, TypeOK
<1>2. ASSUME NEW e, e \notin customers PROVE Cardinality(Positions(reqQ, e)) = 0
  BY <1>1, <1>2, AbsentCount DEF EventsInv
<1>3. ASSUME NEW e, \E i \in 1 .. Len(reqQ) : reqQ[i] = e
      PROVE  Cardinality(Positions(reqQ, e)) = 1
  <2>1. \A i, j \in 1 .. Len(reqQ) : reqQ[i] = e /\ reqQ[j] = e => i = j
    BY DEF EventsInv
  <2>2. QED
    BY <1>1, <1>3, <2>1, UniqueCount
<1>4. ASSUME NEW f \in Fetch
      PROVE  LET n == Cardinality(Positions(reqQ, FetchEvent(f))) IN
             IF FetchEvent(f) \in customers
               THEN n = IF f \in inflight THEN 0 ELSE 1
               ELSE n = 0 /\ f \notin inflight
  <2>1. CASE FetchEvent(f) \notin customers
    BY <1>2, <2>1 DEF EventsInv
  <2>2. CASE FetchEvent(f) \in customers /\ f \in inflight
    <3>1. \A i \in 1 .. Len(reqQ) : reqQ[i] # FetchEvent(f)
      BY <2>2 DEF EventsInv
    <3>2. QED
      BY <1>1, <2>2, <3>1, AbsentCount
  <2>3. CASE FetchEvent(f) \in customers /\ f \notin inflight
    BY <1>3, <2>3 DEF CustomersServed
  <2>4. QED
    BY <2>1, <2>2, <2>3
<1>5. ASSUME NEW s \in Server
      PROVE  LET n == Cardinality(Positions(reqQ, InitEvent(s))) IN
             IF InitEvent(s) \in customers
               THEN n = IF server[s] = "starting" THEN 0 ELSE 1
               ELSE n = 0 /\ server[s] # "starting"
  <2>1. CASE InitEvent(s) \notin customers
    BY <1>2, <2>1 DEF EventsInv
  <2>2. CASE InitEvent(s) \in customers /\ server[s] = "starting"
    <3>1. \A i \in 1 .. Len(reqQ) : reqQ[i] # InitEvent(s)
      BY <2>2 DEF EventsInv
    <3>2. QED
      BY <1>1, <2>2, <3>1, AbsentCount
  <2>3. CASE InitEvent(s) \in customers /\ server[s] # "starting"
    BY <1>3, <2>3 DEF CustomersServed
  <2>4. QED
    BY <2>1, <2>2, <2>3
<1>6. QED
  BY <1>4, <1>5 DEF EventsHaveCustomers

\* An event is queued once, and while it is queued or on its way its customer
\* waits: no answer is dropped, none is given twice, whatever scripts do, the
\* removal of the poll timer included.
THEOREM EventsHaveCustomersHolds == Spec => []EventsHaveCustomers
<1>1. Init => TypeInv /\ EventsInv /\ CustomersServed
  BY InitTypeInv DEF Init, EventsInv, CustomersServed
<1>2. TypeInv /\ EventsInv /\ CustomersServed /\ [Next]_vars
        => (TypeInv /\ EventsInv /\ CustomersServed)'
  BY NextTypeInv, NextEventsInv, NextCustomersServed
<1>3. QED
  BY <1>1, <1>2, EventCounts, PTL DEF Spec

-----------------------------------------------------------------------------
(* What a step does to the tasks and timers that are queued or finished.     *)

HeldVars == <<tasks, micro, macro, finished, kind>>

HeldSame ==
    timers' \subseteq timers /\ UNCHANGED HeldVars

HeldMicro ==
    /\ tasks' = tasks + 1 /\ micro' = Append(micro, tasks')
    /\ UNCHANGED <<macro, finished, kind, timers>>

HeldMacro ==
    /\ tasks' = tasks + 1 /\ macro' = Append(macro, TaskEntry(tasks'))
    /\ UNCHANGED <<micro, finished, kind, timers>>

HeldTimer ==
    /\ \E k \in {"every", "once", "poll"} : TimerStarted(k)
    /\ UNCHANGED <<tasks, micro, finished>>

HeldMicroDone ==
    /\ micro # <<>> /\ micro' = Tail(micro)
    /\ finished' = finished \cup {MicroEntry(Head(micro))}
    /\ UNCHANGED <<tasks, macro, kind, timers>>

\* A task, or a once timer, has returned.
HeldMacroDone ==
    /\ macro # <<>> /\ macro' = Tail(macro)
    /\ finished' = finished \cup {Head(macro)}
    /\ timers' \subseteq timers
    /\ Head(macro).kind = "timer" => Head(macro).id \notin timers'
    /\ UNCHANGED <<tasks, micro, kind>>

\* A timer that is gone leaves the queue.
HeldTimerGone ==
    /\ macro # <<>> /\ macro' = Tail(macro) /\ Head(macro).kind = "timer"
    /\ timers' \subseteq timers
    /\ UNCHANGED <<tasks, micro, kind, finished>>

HeldTimerAgain ==
    /\ macro # <<>> /\ macro' = Append(Tail(macro), Head(macro))
    /\ Head(macro).kind = "timer"
    /\ timers' \subseteq timers
    /\ UNCHANGED <<tasks, micro, kind, finished>>

HeldStep ==
    \/ HeldSame \/ HeldMicro \/ HeldMacro \/ HeldTimer
    \/ HeldMicroDone \/ HeldMacroDone \/ HeldTimerGone \/ HeldTimerAgain

LEMMA HeldSteps ==
    ASSUME TypeInv, [Next]_vars
    PROVE  HeldStep
<1>0. TypeOK /\ CallPositions /\ TimersTyped /\ pollTimer \in 0 .. Len(kind)
  BY DEF TypeInv, TypeOK, TimersTyped
<1>1. CASE ScriptStep
  <2>1. CASE RunInMicroQueue
    BY <2>1 DEF RunInMicroQueue, HeldStep, HeldMicro, timerVars
  <2>2. CASE RunInMacroQueue
    BY <2>2 DEF RunInMacroQueue, HeldStep, HeldMacro, timerVars
  <2>3. CASE \E k \in {"every", "once"} : StartScriptTimer(k)
    <3>1. PICK k \in {"every", "once"} : StartScriptTimer(k)
      BY <2>3
    <3>2. TimerStarted(k)
      BY <1>0, <3>1, StartTimerTypes DEF StartScriptTimer
    <3>3. QED
      BY <3>1, <3>2 DEF StartScriptTimer, HeldStep, HeldTimer, taskVars
  <2>4. CASE \E t \in timers : RemoveScriptTimer(t)
    BY <2>4 DEF RemoveScriptTimer, RemoveTimer, HeldStep, HeldSame, HeldVars, taskVars
  <2>5. ASSUME NEW E, AddRequiredEventCustomer(E), UNCHANGED taskVars
        PROVE  HeldStep
    <3>1. TimerStarted("poll") \/ UNCHANGED <<macro, kind, timers>>
      BY <1>0, <2>5, AddCustomerTypes
    <3>2. QED
      BY <2>5, <3>1 DEF HeldStep, HeldTimer, HeldSame, HeldVars, taskVars
  <2>6. CASE \E f \in Fetch : FetchAsync(f)
    BY <2>5, <2>6 DEF FetchAsync
  <2>7. CASE \E s \in Server : MakeServer(s)
    BY <2>5, <2>7 DEF MakeServer
  <2>8. CASE (\E file \in File : Include(file)) \/ Raise
    BY <2>8 DEF Include, Raise, Unwind, HeldStep, HeldSame, HeldVars, taskVars, timerVars
  <2>9. QED
    BY <1>1, <2>1, <2>2, <2>3, <2>4, <2>6, <2>7, <2>8 DEF ScriptStep
<1>2. CASE BodyEnd \/ CrossReturn
  BY <1>2 DEF BodyEnd, CrossReturn, HeldStep, HeldSame, HeldVars, taskVars, timerVars
<1>3. CASE MicroReturn
  BY <1>0, <1>3
  DEF MicroReturn, Goto, CallPositions, HeldStep, HeldMicroDone, timerVars
<1>4. CASE MacroReturn
  BY <1>0, <1>4
  DEF MacroReturn, Goto, CallPositions, HeldStep, HeldMacroDone, timerVars
<1>5. CASE TimerReturn
  <2>1. CASE kind[Current] = "once"
    BY <1>0, <1>5, <2>1
    DEF TimerReturn, Goto, RemoveTimer, TimerTaskEnd, CallPositions, Current, HeldStep,
        HeldMacroDone
  <2>2. CASE kind[Current] # "once"
    BY <1>0, <1>5, <2>2
    DEF TimerReturn, Goto, TimerTaskEnd, CallPositions, HeldStep, HeldTimerGone,
        HeldTimerAgain, timerVars
  <2>3. QED
    BY <2>1, <2>2
<1>6. CASE PollReturn \/ TimerGone \/ TimerNotDue \/ PollEmpty
  BY <1>0, <1>6
  DEF PollReturn, TimerGone, TimerNotDue, PollEmpty, Goto, TimerTaskEnd, CallPositions,
      HeldStep, HeldTimerGone, HeldTimerAgain, timerVars, taskVars
<1>7. CASE PollEvent
  <2>1. /\ UNCHANGED <<tasks, micro, kind, finished>> /\ timers' \subseteq timers
        /\ macro # <<>> /\ Head(macro).kind = "timer"
        /\ \/ macro' = macro \/ macro' = Tail(macro)
           \/ macro' = Append(Tail(macro), Head(macro))
    BY <1>0, <1>7
    DEF PollEvent, EraseCustomer, RemoveTimer, TimerTaskEnd, CallPositions, timerVars, taskVars
  <2>2. QED
    BY <2>1 DEF HeldStep, HeldSame, HeldTimerGone, HeldTimerAgain, HeldVars
<1>8. CASE LoopHead \/ LoopExit \/ CrossNext \/ MicroNext \/ MacroNext \/ TimerDue
  BY <1>8
  DEF LoopHead, LoopExit, CrossNext, MicroNext, MacroNext, TimerDue, HeldStep, HeldSame,
      HeldVars, timerVars, taskVars
<1>9. CASE ReadLine \/ EndOfInput \/ UNCHANGED vars
  BY <1>9
  DEF ReadLine, EndOfInput, HeldStep, HeldSame, HeldVars, timerVars, taskVars, vars
<1>10. CASE Environment
  BY <1>10
  DEF Environment, Elapse, Respond, ServerListen, ServerError,
      Push2CrossThreadEventPendingQueue, HeldStep, HeldSame, HeldVars, timerVars, taskVars
<1>11. QED
  BY <1>1, <1>2, <1>3, <1>4, <1>5, <1>6, <1>7, <1>8, <1>9, <1>10
  DEF Next, ScriptReturn, LoopStep, Ended

-----------------------------------------------------------------------------
(* Each kind of step keeps the queues in order. *)

LEMMA EntryFields ==
    \A n : /\ MicroEntry(n).kind = "micro" /\ MicroEntry(n).id = n
           /\ TaskEntry(n).kind = "task" /\ TaskEntry(n).id = n
           /\ TimerEntry(n).kind = "timer" /\ TimerEntry(n).id = n
BY DEF MicroEntry, TaskEntry, TimerEntry

\* The types QueuesInv is about.
HeldTyped ==
    /\ tasks \in Nat /\ micro \in Seq(Nat) /\ macro \in Seq(MacroEntry)
    /\ finished \subseteq [kind : {"micro", "task", "timer"}, id : Nat]
    /\ Len(kind) \in Nat /\ Len(micro) \in Nat /\ Len(macro) \in Nat
    /\ timers \subseteq 1 .. Len(kind)

LEMMA TypesOfHeld == TypeInv => HeldTyped
BY DEF TypeInv, TypeOK, HeldTyped

\* An entry of the macro queue is that of a task or that of a timer.
LEMMA EntryOfMacro ==
    ASSUME HeldTyped, NEW i \in 1 .. Len(macro)
    PROVE  /\ macro[i] \in MacroEntry
           /\ macro[i].kind = "task" => macro[i] = TaskEntry(macro[i].id)
           /\ macro[i].kind = "timer" => macro[i] = TimerEntry(macro[i].id)
<1>1. macro[i] \in MacroEntry
  BY DEF HeldTyped
<1>2. QED
  BY <1>1 DEF MacroEntry, TaskEntry, TimerEntry

LEMMA HeldMicroKeeps ==
    ASSUME HeldTyped, QueuesInv, HeldMicro
    PROVE  QueuesInv'
<1>1. /\ tasks \in Nat /\ tasks' = tasks + 1 /\ Len(micro) \in Nat
      /\ UNCHANGED <<macro, finished, kind, timers>>
  BY DEF HeldTyped, HeldMicro
<1>2. /\ Len(micro') = Len(micro) + 1 /\ micro'[Len(micro) + 1] = tasks + 1
      /\ \A i \in 1 .. Len(micro) : micro'[i] = micro[i]
  <2>1. micro \in Seq(Nat) /\ tasks + 1 \in Nat /\ micro' = Append(micro, tasks + 1)
    BY DEF HeldTyped, HeldMicro
  <2>2. QED
    BY <2>1, AppendFacts
<1>3. \A i \in 1 .. Len(micro') : i \in 1 .. Len(micro) \/ i = Len(micro) + 1
  BY <1>1, <1>2
<1>4. MicroInv'
  BY SMTT(30), <1>1, <1>2, <1>3 DEF QueuesInv, MicroInv
<1>5. MacroInv'
  BY <1>1 DEF QueuesInv, MacroInv
<1>6. FinishedInv'
  BY <1>1, <1>2, <1>3 DEF QueuesInv, FinishedInv
<1>7. /\ ~InMacro(tasks + 1) /\ TaskEntry(tasks + 1) \notin finished
  BY <1>1, EntryFields DEF QueuesInv, MacroInv, FinishedInv, InMacro
<1>8. \A n : n = tasks + 1 => InMicro(n)'
  <2>1. Len(micro) + 1 \in 1 .. Len(micro')
    BY <1>1, <1>2
  <2>2. QED
    BY <1>2, <2>1 DEF InMicro
<1>9. \A n \in 1 .. tasks : InMicro(n)' <=> InMicro(n)
  <2>1. \A n \in 1 .. tasks : n # tasks + 1
    BY <1>1
  <2>2. \A i \in 1 .. Len(micro) : i \in 1 .. Len(micro')
    BY <1>1, <1>2
  <2>3. QED
    BY <1>2, <1>3, <2>1, <2>2 DEF InMicro
<1>10. OneQueueInv'
  <2>1. \A n : InMacro(n)' <=> InMacro(n)
    BY <1>1 DEF InMacro
  <2>2. \A n \in 1 .. tasks' : n \in 1 .. tasks \/ n = tasks + 1
    BY <1>1
  <2>3. QED
    BY <1>1, <1>7, <1>8, <1>9, <2>1, <2>2 DEF QueuesInv, OneQueueInv
<1>11. QED
  BY <1>4, <1>5, <1>6, <1>10 DEF QueuesInv

LEMMA HeldMacroKeeps ==
    ASSUME HeldTyped, QueuesInv, HeldMacro
    PROVE  QueuesInv'
<1>1. /\ tasks \in Nat /\ tasks' = tasks + 1 /\ Len(macro) \in Nat
      /\ UNCHANGED <<micro, finished, kind, timers>>
  BY DEF HeldTyped, HeldMacro
<1>2. /\ Len(macro') = Len(macro) + 1
      /\ macro'[Len(macro) + 1] = TaskEntry(tasks + 1)
      /\ \A i \in 1 .. Len(macro) : macro'[i] = macro[i]
  <2>1. macro \in Seq(MacroEntry) /\ macro' = Append(macro, TaskEntry(tasks + 1))
    BY DEF HeldTyped, HeldMacro
  <2>2. TaskEntry(tasks + 1) \in MacroEntry
    BY <1>1 DEF TaskEntry, MacroEntry
  <2>3. QED
    BY <2>1, <2>2, AppendFacts
<1>3. \A i \in 1 .. Len(macro') : i \in 1 .. Len(macro) \/ i = Len(macro) + 1
  BY <1>1, <1>2
<1>4. MicroInv'
  BY <1>1 DEF QueuesInv, MicroInv
<1>5. \A i \in 1 .. Len(macro) : macro[i] # TaskEntry(tasks + 1)
  BY <1>1, EntryFields DEF QueuesInv, MacroInv
<1>6. MacroInv'
  <2>1. \A i \in 1 .. Len(macro') :
          /\ macro'[i].kind = "task" => macro'[i].id \in 1 .. tasks'
          /\ macro'[i].kind = "timer" => macro'[i].id \in 1 .. Len(kind')
    BY <1>1, <1>2, <1>3, EntryFields DEF QueuesInv, MacroInv
  <2>2. \A i, j \in 1 .. Len(macro') : macro'[i] = macro'[j] => i = j
    BY <1>2, <1>3, <1>5 DEF QueuesInv, MacroInv
  <2>3. \A i, j \in 1 .. Len(macro') :
          i < j /\ macro'[i].kind = "task" /\ macro'[j].kind = "task"
            => macro'[i].id < macro'[j].id
    BY <1>1, <1>2, <1>3, EntryFields DEF QueuesInv, MacroInv
  <2>4. QED
    BY <2>1, <2>2, <2>3 DEF MacroInv
<1>7. FinishedInv'
  <2>1. ASSUME NEW e \in finished', e.kind = "task"
        PROVE  /\ e.id \in 1 .. tasks'
               /\ \A i \in 1 .. Len(macro') : macro'[i].kind = "task" => e.id < macro'[i].id
    BY <1>1, <1>2, <1>3, <2>1, EntryFields DEF QueuesInv, FinishedInv
  <2>2. ASSUME NEW e \in finished', e.kind = "timer"
        PROVE  /\ e.id \in 1 .. Len(kind') /\ e.id \notin timers'
               /\ \A i \in 1 .. Len(macro') : macro'[i] # e
    BY <1>1, <1>2, <1>3, <2>2, EntryFields DEF QueuesInv, FinishedInv
  <2>3. ASSUME NEW e \in finished', e.kind = "micro"
        PROVE  e.id \in 1 .. tasks' /\ \A i \in 1 .. Len(micro') : e.id < micro'[i]
    BY <1>1, <2>3 DEF QueuesInv, FinishedInv
  <2>4. QED
    BY <2>1, <2>2, <2>3 DEF FinishedInv
<1>8. ~InMicro(tasks + 1) /\ MicroEntry(tasks + 1) \notin finished
  BY <1>1, EntryFields DEF QueuesInv, MicroInv, FinishedInv, InMicro
<1>9. \A n : n = tasks + 1 => InMacro(n)'
  <2>1. Len(macro) + 1 \in 1 .. Len(macro')
    BY <1>1, <1>2
  <2>2. QED
    BY <1>2, <2>1 DEF InMacro
<1>10. \A n \in 1 .. tasks : InMacro(n)' <=> InMacro(n)
  <2>1. \A n \in 1 .. tasks : TaskEntry(n) # TaskEntry(tasks + 1)
    BY <1>1 DEF TaskEntry
  <2>2. \A i \in 1 .. Len(macro) : i \in 1 .. Len(macro')
    BY <1>1, <1>2
  <2>3. QED
    BY <1>2, <1>3, <2>1, <2>2 DEF InMacro
<1>11. OneQueueInv'
  <2>1. \A n : InMicro(n)' <=> InMicro(n)
    BY <1>1 DEF InMicro
  <2>2. \A n \in 1 .. tasks' : n \in 1 .. tasks \/ n = tasks + 1
    BY <1>1
  <2>3. QED
    BY <1>1, <1>8, <1>9, <1>10, <2>1, <2>2 DEF QueuesInv, OneQueueInv
<1>12. QED
  BY <1>4, <1>6, <1>7, <1>11 DEF QueuesInv

LEMMA HeldTimerKeeps ==
    ASSUME HeldTyped, QueuesInv, HeldTimer
    PROVE  QueuesInv'
<1>1. UNCHANGED <<tasks, micro, finished>>
  BY DEF HeldTimer
<1>2. PICK k \in {"every", "once", "poll"} : TimerStarted(k)
  BY DEF HeldTimer
<1>3. /\ Len(kind) \in Nat /\ Len(kind') = Len(kind) + 1 /\ Len(macro) \in Nat
      /\ timers' = timers \cup {Len(kind) + 1}
      /\ Len(macro') = Len(macro) + 1
      /\ macro'[Len(macro) + 1] = TimerEntry(Len(kind) + 1)
      /\ \A i \in 1 .. Len(macro) : macro'[i] = macro[i]
  BY <1>2 DEF HeldTyped, TimerStarted, NextTimer
<1>4. \A i \in 1 .. Len(macro') : i \in 1 .. Len(macro) \/ i = Len(macro) + 1
  BY <1>3
<1>5. MicroInv'
  BY <1>1 DEF QueuesInv, MicroInv
<1>6. \A i \in 1 .. Len(macro) : macro[i] # TimerEntry(Len(kind) + 1)
  BY <1>3, EntryFields DEF QueuesInv, MacroInv
<1>7. MacroInv'
  <2>1. \A i \in 1 .. Len(macro') :
          /\ macro'[i].kind = "task" => macro'[i].id \in 1 .. tasks'
          /\ macro'[i].kind = "timer" => macro'[i].id \in 1 .. Len(kind')
    BY <1>1, <1>3, <1>4, EntryFields DEF QueuesInv, MacroInv
  <2>2. \A i, j \in 1 .. Len(macro') : macro'[i] = macro'[j] => i = j
    BY <1>3, <1>4, <1>6 DEF QueuesInv, MacroInv
  <2>3. \A i, j \in 1 .. Len(macro') :
          i < j /\ macro'[i].kind = "task" /\ macro'[j].kind = "task"
            => macro'[i].id < macro'[j].id
    BY <1>3, <1>4, EntryFields DEF QueuesInv, MacroInv
  <2>4. QED
    BY <2>1, <2>2, <2>3 DEF MacroInv
<1>8. FinishedInv'
  <2>1. ASSUME NEW e \in finished', e.kind = "task"
        PROVE  /\ e.id \in 1 .. tasks'
               /\ \A i \in 1 .. Len(macro') : macro'[i].kind = "task" => e.id < macro'[i].id
    BY <1>1, <1>3, <1>4, <2>1, EntryFields DEF QueuesInv, FinishedInv
  <2>2. ASSUME NEW e \in finished', e.kind = "timer"
        PROVE  /\ e.id \in 1 .. Len(kind') /\ e.id \notin timers'
               /\ \A i \in 1 .. Len(macro') : macro'[i] # e
    <3>1. e.id \in 1 .. Len(kind) /\ e.id \notin timers
      BY <1>1, <2>2 DEF QueuesInv, FinishedInv
    <3>2. e.id # Len(kind) + 1 /\ e # TimerEntry(Len(kind) + 1)
      BY <1>3, <3>1, EntryFields
    <3>3. \A i \in 1 .. Len(macro') : macro'[i] # e
      BY <1>1, <1>3, <1>4, <2>2, <3>2 DEF QueuesInv, FinishedInv
    <3>4. QED
      BY <1>3, <3>1, <3>2, <3>3
  <2>3. ASSUME NEW e \in finished', e.kind = "micro"
        PROVE  e.id \in 1 .. tasks' /\ \A i \in 1 .. Len(micro') : e.id < micro'[i]
    BY <1>1, <2>3 DEF QueuesInv, FinishedInv
  <2>4. QED
    BY <2>1, <2>2, <2>3 DEF FinishedInv
<1>9. OneQueueInv'
  <2>1. \A n : InMicro(n)' <=> InMicro(n)
    BY <1>1 DEF InMicro
  <2>2. \A n : InMacro(n)' <=> InMacro(n)
    <3>1. \A n : TaskEntry(n) # TimerEntry(Len(kind) + 1)
      BY EntryFields
    <3>2. \A i \in 1 .. Len(macro) : i \in 1 .. Len(macro')
      BY <1>3
    <3>3. QED
      BY <1>3, <1>4, <3>1, <3>2 DEF InMacro
  <2>3. QED
    BY <1>1, <2>1, <2>2 DEF QueuesInv, OneQueueInv
<1>10. QED
  BY <1>5, <1>7, <1>8, <1>9 DEF QueuesInv

\* A queue and what is left of it without its front.
LEMMA FrontDropped ==
    ASSUME NEW S, NEW q \in Seq(S), q # <<>>, NEW r, r = Tail(q)
    PROVE  /\ Len(r) = Len(q) - 1 /\ 1 \in 1 .. Len(q)
           /\ \A i \in 1 .. Len(r) : i + 1 \in 1 .. Len(q) /\ i + 1 # 1 /\ r[i] = q[i + 1]
           /\ \A i \in 1 .. Len(q) : i # 1 => i - 1 \in 1 .. Len(r) /\ r[i - 1] = q[i]
<1>1. /\ Len(q) \in Nat /\ Len(r) = Len(q) - 1
      /\ \A i \in 1 .. Len(r) : r[i] = q[i + 1]
  BY TailFacts
<1>2. Len(q) # 0
  OBVIOUS
<1>3. ASSUME NEW i \in 1 .. Len(q), i # 1
      PROVE  i - 1 \in 1 .. Len(r) /\ r[i - 1] = q[i]
  <2>1. i - 1 \in 1 .. Len(r) /\ (i - 1) + 1 = i
    BY <1>1, <1>3
  <2>2. r[i - 1] = q[(i - 1) + 1]
    BY <1>1, <2>1
  <2>3. QED
    BY <2>1, <2>2
<1>4. QED
  BY <1>1, <1>2, <1>3

LEMMA HeldMicroDoneKeeps ==
    ASSUME HeldTyped, QueuesInv, HeldMicroDone
    PROVE  QueuesInv'
<1>1. /\ micro \in Seq(Nat) /\ micro # <<>> /\ micro' = Tail(micro)
      /\ Head(micro) = micro[1] /\ Len(micro) \in Nat /\ tasks \in Nat
      /\ finished' = finished \cup {MicroEntry(micro[1])}
      /\ UNCHANGED <<tasks, macro, kind, timers>>
  BY TailFacts DEF HeldTyped, HeldMicroDone
<1>2. /\ 1 \in 1 .. Len(micro)
      /\ \A i \in 1 .. Len(micro') :
           i + 1 \in 1 .. Len(micro) /\ 1 < i + 1 /\ micro'[i] = micro[i + 1]
      /\ \A i \in 1 .. Len(micro) :
           i # 1 => i - 1 \in 1 .. Len(micro') /\ micro'[i - 1] = micro[i]
  BY <1>1, FrontDropped
<1>3. MicroInv'
  <2>1. \A i \in 1 .. Len(micro') : micro'[i] \in 1 .. tasks'
    BY <1>1, <1>2 DEF QueuesInv, MicroInv
  <2>2. \A i, j \in 1 .. Len(micro') : i < j => micro'[i] < micro'[j]
    BY <1>1, <1>2 DEF QueuesInv, MicroInv
  <2>3. QED
    BY <2>1, <2>2 DEF MicroInv
<1>4. MacroInv'
  BY <1>1 DEF QueuesInv, MacroInv
<1>5. /\ micro[1] \in 1 .. tasks
      /\ \A i \in 1 .. Len(micro') : micro[1] < micro'[i]
  BY <1>2 DEF QueuesInv, MicroInv
<1>6. FinishedInv'
  <2>1. ASSUME NEW e \in finished', e.kind = "micro"
        PROVE  e.id \in 1 .. tasks' /\ \A i \in 1 .. Len(micro') : e.id < micro'[i]
    <3>1. CASE e = MicroEntry(micro[1])
      BY <1>1, <1>5, <3>1, EntryFields
    <3>2. CASE e \in finished
      BY <1>1, <1>2, <2>1, <3>2 DEF QueuesInv, FinishedInv
    <3>3. QED
      BY <1>1, <2>1, <3>1, <3>2
  <2>2. \A e \in finished' : e.kind # "micro" => e \in finished
    BY <1>1, EntryFields
  <2>3. QED
    BY <1>1, <2>1, <2>2 DEF QueuesInv, FinishedInv
<1>7. OneQueueInv'
  <2>1. \A n : InMicro(n) => InMicro(n)' \/ MicroEntry(n) \in finished'
    BY SMTT(30), <1>1, <1>2 DEF InMicro
  <2>2. ASSUME NEW n, InMicro(n)' \/ MicroEntry(n) \in finished'
        PROVE  InMicro(n) \/ MicroEntry(n) \in finished
    <3>1. InMicro(n)' => InMicro(n)
      BY <1>2 DEF InMicro
    <3>2. MicroEntry(n) = MicroEntry(micro[1]) => InMicro(n)
      BY <1>2, EntryFields DEF InMicro
    <3>3. QED
      BY <1>1, <2>2, <3>1, <3>2
  <2>3. \A n : /\ InMacro(n)' <=> InMacro(n)
               /\ TaskEntry(n) \in finished' <=> TaskEntry(n) \in finished
               /\ MicroEntry(n) \in finished => MicroEntry(n) \in finished'
    BY <1>1, EntryFields DEF InMacro
  <2>4. QED
    BY <1>1, <2>1, <2>2, <2>3 DEF QueuesInv, OneQueueInv
<1>8. QED
  BY <1>3, <1>4, <1>6, <1>7 DEF QueuesInv

\* Popping the front keeps the rest of the macro queue in order.
LEMMA MacroPopped ==
    ASSUME HeldTyped, QueuesInv, macro # <<>>, macro' = Tail(macro),
           UNCHANGED <<tasks, kind>>
    PROVE  /\ MacroInv'
           /\ Head(macro) = macro[1] /\ 1 \in 1 .. Len(macro)
           /\ \A i \in 1 .. Len(macro') :
                i + 1 \in 1 .. Len(macro) /\ 1 < i + 1 /\ macro'[i] = macro[i + 1]
           /\ \A n : InMacro(n)' => InMacro(n)
           /\ \A n : InMacro(n) => InMacro(n)' \/ macro[1] = TaskEntry(n)
<1>1. macro \in Seq(MacroEntry) /\ Len(macro) \in Nat /\ Head(macro) = macro[1]
  BY TailFacts DEF HeldTyped
<1>2. /\ 1 \in 1 .. Len(macro)
      /\ \A i \in 1 .. Len(macro') :
           i + 1 \in 1 .. Len(macro) /\ 1 < i + 1 /\ macro'[i] = macro[i + 1]
      /\ \A i \in 1 .. Len(macro) :
           i # 1 => i - 1 \in 1 .. Len(macro') /\ macro'[i - 1] = macro[i]
  BY <1>1, FrontDropped
<1>3. MacroInv'
  <2>1. \A i \in 1 .. Len(macro') :
          /\ macro'[i].kind = "task" => macro'[i].id \in 1 .. tasks'
          /\ macro'[i].kind = "timer" => macro'[i].id \in 1 .. Len(kind')
    BY <1>1, <1>2 DEF QueuesInv, MacroInv
  <2>2. \A i, j \in 1 .. Len(macro') : macro'[i] = macro'[j] => i = j
    <3>1. SUFFICES ASSUME NEW i \in 1 .. Len(macro'), NEW j \in 1 .. Len(macro'),
                          macro'[i] = macro'[j]
                   PROVE  i = j
      OBVIOUS
    <3>2. i + 1 = j + 1
      BY <1>2, <3>1 DEF QueuesInv, MacroInv
    <3>3. QED
      BY <3>2
  <2>3. \A i, j \in 1 .. Len(macro') :
          i < j /\ macro'[i].kind = "task" /\ macro'[j].kind = "task"
            => macro'[i].id < macro'[j].id
    BY <1>1, <1>2 DEF QueuesInv, MacroInv
  <2>4. QED
    BY <2>1, <2>2, <2>3 DEF MacroInv
<1>4. \A n : InMacro(n)' => InMacro(n)
  BY <1>2 DEF InMacro
<1>5. \A n : InMacro(n) => InMacro(n)' \/ macro[1] = TaskEntry(n)
  BY ZenonT(30), <1>2 DEF InMacro
<1>6. QED
  BY <1>1, <1>2, <1>3, <1>4, <1>5

LEMMA HeldMacroDoneKeeps ==
    ASSUME HeldTyped, QueuesInv, HeldMacroDone
    PROVE  QueuesInv'
<1>1. /\ macro # <<>> /\ macro' = Tail(macro)
      /\ timers' \subseteq timers
      /\ UNCHANGED <<tasks, micro, kind>>
  BY DEF HeldMacroDone
<1>2. /\ MacroInv'
      /\ Head(macro) = macro[1] /\ 1 \in 1 .. Len(macro)
      /\ \A i \in 1 .. Len(macro') :
           i + 1 \in 1 .. Len(macro) /\ 1 < i + 1 /\ macro'[i] = macro[i + 1]
      /\ \A n : InMacro(n)' => InMacro(n)
      /\ \A n : InMacro(n) => InMacro(n)' \/ macro[1] = TaskEntry(n)
  BY <1>1, MacroPopped
<1>3. /\ finished' = finished \cup {macro[1]}
      /\ macro[1].kind = "timer" => macro[1].id \notin timers'
  BY <1>2 DEF HeldMacroDone
<1>4. /\ macro[1] \in MacroEntry
      /\ macro[1].kind = "task" => macro[1] = TaskEntry(macro[1].id)
      /\ macro[1].kind \in {"task", "timer"}
  <2>1. macro[1] \in MacroEntry
    BY <1>2, EntryOfMacro
  <2>2. QED
    BY <1>2, <2>1, EntryOfMacro DEF MacroEntry
<1>5. MicroInv'
  BY <1>1 DEF QueuesInv, MicroInv
<1>6. FinishedInv'
  <2>1. ASSUME NEW e \in finished', e.kind = "task"
        PROVE  /\ e.id \in 1 .. tasks'
               /\ \A i \in 1 .. Len(macro') : macro'[i].kind = "task" => e.id < macro'[i].id
    <3>1. CASE e = macro[1]
      BY <1>1, <1>2, <2>1, <3>1 DEF QueuesInv, MacroInv
    <3>2. CASE e \in finished
      BY <1>1, <1>2, <2>1, <3>2 DEF QueuesInv, FinishedInv
    <3>3. QED
      BY <1>3, <2>1, <3>1, <3>2
  <2>2. ASSUME NEW e \in finished', e.kind = "timer"
        PROVE  /\ e.id \in 1 .. Len(kind') /\ e.id \notin timers'
               /\ \A i \in 1 .. Len(macro') : macro'[i] # e
    <3>1. CASE e = macro[1]
      <4>1. ASSUME NEW i \in 1 .. Len(macro')
            PROVE  macro'[i] # macro[1]
        <5>1. macro'[i] = macro[i + 1] /\ i + 1 \in 1 .. Len(macro) /\ i + 1 # 1
          BY <1>2
        <5>2. macro[i + 1] # macro[1]
          BY <1>2, <5>1 DEF QueuesInv, MacroInv
        <5>3. QED
          BY <5>1, <5>2
      <4>2. QED
        BY <1>1, <1>2, <1>3, <2>2, <3>1, <4>1 DEF QueuesInv, MacroInv
    <3>2. CASE e \in finished
      BY <1>1, <1>2, <2>2, <3>2 DEF QueuesInv, FinishedInv
    <3>3. QED
      BY <1>3, <2>2, <3>1, <3>2
  <2>3. ASSUME NEW e \in finished', e.kind = "micro"
        PROVE  e.id \in 1 .. tasks' /\ \A i \in 1 .. Len(micro') : e.id < micro'[i]
    BY <1>1, <1>3, <1>4, <2>3 DEF QueuesInv, FinishedInv
  <2>4. QED
    BY <2>1, <2>2, <2>3 DEF FinishedInv
<1>7. OneQueueInv'
  <2>1. \A n : TaskEntry(n) \in finished' => InMacro(n) \/ TaskEntry(n) \in finished
    BY <1>2, <1>3 DEF InMacro
  <2>2. \A n : /\ InMicro(n)' <=> InMicro(n)
               /\ MicroEntry(n) \in finished' <=> MicroEntry(n) \in finished
               /\ TaskEntry(n) \in finished => TaskEntry(n) \in finished'
               /\ macro[1] = TaskEntry(n) => TaskEntry(n) \in finished'
    BY <1>1, <1>3, <1>4, EntryFields DEF InMicro
  <2>3. QED
    BY <1>1, <1>2, <2>1, <2>2 DEF QueuesInv, OneQueueInv
<1>8. QED
  BY <1>2, <1>5, <1>6, <1>7 DEF QueuesInv

LEMMA HeldTimerGoneKeeps ==
    ASSUME HeldTyped, QueuesInv, HeldTimerGone
    PROVE  QueuesInv'
<1>1. /\ macro # <<>> /\ macro' = Tail(macro) /\ Head(macro).kind = "timer"
      /\ timers' \subseteq timers
      /\ UNCHANGED <<tasks, micro, kind, finished>>
  BY DEF HeldTimerGone
<1>2. /\ MacroInv'
      /\ Head(macro) = macro[1]
      /\ \A i \in 1 .. Len(macro') : i + 1 \in 1 .. Len(macro) /\ macro'[i] = macro[i + 1]
      /\ \A n : InMacro(n)' => InMacro(n)
      /\ \A n : InMacro(n) => InMacro(n)' \/ macro[1] = TaskEntry(n)
  BY <1>1, MacroPopped
<1>3. MicroInv'
  BY <1>1 DEF QueuesInv, MicroInv
<1>4. FinishedInv'
  BY <1>1, <1>2 DEF QueuesInv, FinishedInv
<1>5. OneQueueInv'
  <2>1. \A n : macro[1] # TaskEntry(n)
    BY <1>1, <1>2, EntryFields
  <2>2. \A n : InMicro(n)' <=> InMicro(n)
    BY <1>1 DEF InMicro
  <2>3. QED
    BY <1>1, <1>2, <2>1, <2>2 DEF QueuesInv, OneQueueInv
<1>6. QED
  BY <1>2, <1>3, <1>4, <1>5 DEF QueuesInv

LEMMA HeldTimerAgainKeeps ==
    ASSUME HeldTyped, QueuesInv, HeldTimerAgain
    PROVE  QueuesInv'
<1>0. /\ Len(macro) \in Nat /\ macro[1].kind = "timer" /\ 1 \in 1 .. Len(macro)
      /\ timers' \subseteq timers
      /\ UNCHANGED <<tasks, micro, kind, finished>>
  BY TailFacts DEF HeldTyped, HeldTimerAgain
<1>1. /\ macro \in Seq(MacroEntry) /\ macro # <<>>
      /\ Head(macro) = macro[1] /\ macro[1] \in MacroEntry
      /\ macro' = Append(Tail(macro), macro[1])
  BY TailFacts DEF HeldTyped, HeldTimerAgain
<1>2. /\ Tail(macro) \in Seq(MacroEntry) /\ 1 \in 1 .. Len(macro)
      /\ Len(Tail(macro)) = Len(macro) - 1
      /\ \A i \in 1 .. Len(Tail(macro)) :
           i + 1 \in 1 .. Len(macro) /\ i + 1 # 1 /\ Tail(macro)[i] = macro[i + 1]
  BY <1>1, TailFacts, FrontDropped
<1>3. /\ Len(macro') = Len(macro) /\ macro'[Len(macro)] = macro[1]
      /\ \A i \in 1 .. Len(macro) :
           i # Len(macro) => i + 1 \in 1 .. Len(macro) /\ macro'[i] = macro[i + 1]
  <2>1. /\ Len(macro') = Len(Tail(macro)) + 1
        /\ macro'[Len(Tail(macro)) + 1] = macro[1]
        /\ \A i \in 1 .. Len(Tail(macro)) : macro'[i] = Tail(macro)[i]
    BY <1>1, <1>2, AppendFacts
  <2>2. ASSUME NEW i \in 1 .. Len(macro), i # Len(macro)
        PROVE  i \in 1 .. Len(Tail(macro))
    <3>1. Len(Tail(macro)) = Len(macro) - 1
      BY <1>2
    <3>2. i \in 1 .. Len(macro) - 1
      BY <1>0, <2>2
    <3>3. QED
      BY <3>1, <3>2
  <2>3. Len(macro') = Len(macro) /\ macro'[Len(macro)] = macro[1]
    BY <1>0, <1>2, <2>1
  <2>4. QED
    BY <1>2, <2>1, <2>2, <2>3
<1>4. \A i \in 1 .. Len(macro) :
        \/ i = Len(macro) /\ macro'[i] = macro[1]
        \/ i # Len(macro) /\ i + 1 \in 1 .. Len(macro) /\ macro'[i] = macro[i + 1]
  BY <1>0, <1>3
<1>5. \A i \in 1 .. Len(macro) : \E j \in 1 .. Len(macro) : macro'[i] = macro[j]
  BY <1>0, <1>4
<1>6. \A i \in 1 .. Len(macro) : \E j \in 1 .. Len(macro) : macro'[j] = macro[i]
  <2>1. \A i \in 1 .. Len(macro) :
          i # 1 => i - 1 \in 1 .. Len(macro) /\ i - 1 # Len(macro) /\ (i - 1) + 1 = i
    BY <1>0
  <2>2. \A i \in 1 .. Len(macro) :
          i # 1 => i - 1 \in 1 .. Len(macro) /\ macro'[i - 1] = macro[i]
    BY <1>0, <1>3, <2>1
  <2>3. Len(macro) \in 1 .. Len(macro)
    BY <1>0
  <2>4. QED
    BY <1>3, <2>2, <2>3
<1>7. MicroInv'
  BY <1>0 DEF QueuesInv, MicroInv
<1>8. MacroInv'
  <2>1. \A i \in 1 .. Len(macro') :
          /\ macro'[i].kind = "task" => macro'[i].id \in 1 .. tasks'
          /\ macro'[i].kind = "timer" => macro'[i].id \in 1 .. Len(kind')
    <3>1. SUFFICES ASSUME NEW i \in 1 .. Len(macro')
                   PROVE  /\ macro'[i].kind = "task" => macro'[i].id \in 1 .. tasks'
                          /\ macro'[i].kind = "timer" => macro'[i].id \in 1 .. Len(kind')
      OBVIOUS
    <3>2. PICK j \in 1 .. Len(macro) : macro'[i] = macro[j]
      BY <1>3, <1>5
    <3>3. QED
      BY <1>0, <3>2 DEF QueuesInv, MacroInv
  <2>2. ASSUME NEW i \in 1 .. Len(macro'), NEW j \in 1 .. Len(macro'),
               macro'[i] = macro'[j]
        PROVE  i = j
    <3>1. i \in 1 .. Len(macro) /\ j \in 1 .. Len(macro)
      BY <1>3
    <3>2. i = Len(macro) <=> j = Len(macro)
      BY <1>0, <1>4, <2>2, <3>1 DEF QueuesInv, MacroInv
    <3>3. CASE i # Len(macro) /\ j # Len(macro)
      <4>1. i + 1 = j + 1
        BY <1>4, <2>2, <3>1, <3>3 DEF QueuesInv, MacroInv
      <4>2. QED
        BY <3>1, <4>1
    <3>4. QED
      BY <3>2, <3>3
  <2>3. ASSUME NEW i \in 1 .. Len(macro'), NEW j \in 1 .. Len(macro'),
               i < j, macro'[i].kind = "task", macro'[j].kind = "task"
        PROVE  macro'[i].id < macro'[j].id
    <3>1. i \in 1 .. Len(macro) /\ j \in 1 .. Len(macro)
      BY <1>3
    <3>2. /\ i + 1 \in 1 .. Len(macro) /\ macro'[i] = macro[i + 1]
          /\ j + 1 \in 1 .. Len(macro) /\ macro'[j] = macro[j + 1]
      BY <1>0, <1>4, <2>3, <3>1
    <3>3. i + 1 < j + 1
      BY <2>3, <3>1
    <3>4. QED
      BY <2>3, <3>2, <3>3 DEF QueuesInv, MacroInv
  <2>4. QED
    BY <2>1, <2>2, <2>3 DEF MacroInv
<1>9. FinishedInv'
  <2>1. ASSUME NEW e \in finished, NEW i \in 1 .. Len(macro')
        PROVE  /\ e.kind = "task" /\ macro'[i].kind = "task" => e.id < macro'[i].id
               /\ e.kind = "timer" => macro'[i] # e
    <3>1. PICK j \in 1 .. Len(macro) : macro'[i] = macro[j]
      BY <1>3, <1>5
    <3>2. QED
      BY <2>1, <3>1 DEF QueuesInv, FinishedInv
  <2>2. QED
    BY <1>0, <2>1 DEF QueuesInv, FinishedInv
<1>00. OneQueueInv'
  <2>1. \A n : InMicro(n)' <=> InMicro(n)
    BY <1>0 DEF InMicro
  <2>2. ASSUME NEW n PROVE InMacro(n)' <=> InMacro(n)
    <3>1. ASSUME InMacro(n)' PROVE InMacro(n)
      <4>1. PICK i \in 1 .. Len(macro) : macro'[i] = TaskEntry(n)
        BY <1>3, <3>1 DEF InMacro
      <4>2. QED
        BY <1>5, <4>1 DEF InMacro
    <3>2. ASSUME InMacro(n) PROVE InMacro(n)'
      <4>1. PICK i \in 1 .. Len(macro) : macro[i] = TaskEntry(n)
        BY <3>2 DEF InMacro
      <4>2. PICK j \in 1 .. Len(macro) : macro'[j] = macro[i]
        BY <1>6
      <4>3. QED
        BY <1>3, <4>1, <4>2 DEF InMacro
    <3>3. QED
      BY <3>1, <3>2
  <2>3. QED
    BY <1>0, <2>1, <2>2 DEF QueuesInv, OneQueueInv
<1>01. QED
  BY <1>7, <1>8, <1>9, <1>00 DEF QueuesInv

LEMMA NextQueuesInv == TypeInv /\ QueuesInv /\ [Next]_vars => QueuesInv'
<1> SUFFICES ASSUME TypeInv, QueuesInv, [Next]_vars PROVE QueuesInv'
  OBVIOUS
<1>1. HeldTyped /\ HeldStep
  BY HeldSteps, TypesOfHeld
<1>2. CASE HeldSame
  <2>1. timers' \subseteq timers /\ UNCHANGED <<tasks, micro, macro, finished, kind>>
    BY <1>2 DEF HeldSame, HeldVars
  <2>2. MicroInv' /\ MacroInv'
    BY <2>1 DEF QueuesInv, MicroInv, MacroInv
  <2>3. FinishedInv'
    BY <2>1 DEF QueuesInv, FinishedInv
  <2>4. OneQueueInv'
    BY <2>1 DEF QueuesInv, OneQueueInv, InMicro, InMacro
  <2>5. QED
    BY <2>2, <2>3, <2>4 DEF QueuesInv
<1>3. QED
  BY <1>1, <1>2, HeldMicroKeeps, HeldMacroKeeps, HeldTimerKeeps, HeldMicroDoneKeeps,
     HeldMacroDoneKeeps, HeldTimerGoneKeeps, HeldTimerAgainKeeps
  DEF HeldStep

LEMMA InitQueuesInv == Init => QueuesInv
<1> SUFFICES ASSUME Init PROVE QueuesInv
  OBVIOUS
<1>1. MicroInv /\ MacroInv
  BY DEF Init, MicroInv, MacroInv
<1>2. FinishedInv /\ OneQueueInv
  BY DEF Init, FinishedInv, OneQueueInv
<1>3. QED
  BY <1>1, <1>2 DEF QueuesInv

\* Tasks of a queue finish in the order they were queued, whatever their
\* functions queue, include, remove or raise.
THEOREM TasksInOrderHolds == Spec => []TasksInOrder
<1>1. TypeInv /\ QueuesInv => TasksInOrder
  <2> SUFFICES ASSUME TypeInv, QueuesInv PROVE TasksInOrder
    OBVIOUS
  <2>1. /\ micro \in Seq(Nat) /\ macro \in Seq(MacroEntry)
        /\ DOMAIN micro = 1 .. Len(micro) /\ DOMAIN macro = 1 .. Len(macro)
    BY DEF TypeInv, TypeOK
  <2>2. QED
    BY SMTT(30), <2>1, EntryFields DEF QueuesInv, FinishedInv, TasksInOrder
<1>2. QED
  BY <1>1, InitTypeInv, NextTypeInv, InitQueuesInv, NextQueuesInv, PTL DEF Spec

-----------------------------------------------------------------------------
(* Every task and timer is held once. *)

\* A task or timer entry is in the macro queue once or not at all.
LEMMA MacroCount ==
    ASSUME HeldTyped, QueuesInv, NEW e
    PROVE  /\ (\E i \in 1 .. Len(macro) : macro[i] = e)
                => Cardinality(Positions(macro, e)) = 1
           /\ ~(\E i \in 1 .. Len(macro) : macro[i] = e)
                => Cardinality(Positions(macro, e)) = 0
<1>1. macro \in Seq(MacroEntry)
  BY DEF HeldTyped
<1>2. \A i, j \in 1 .. Len(macro) : macro[i] = e /\ macro[j] = e => i = j
  BY DEF QueuesInv, MacroInv
<1>3. QED
  BY <1>1, <1>2, AbsentCount, UniqueCount

LEMMA MicroCount ==
    ASSUME HeldTyped, QueuesInv, NEW n
    PROVE  /\ InMicro(n) => Cardinality(Positions(micro, n)) = 1
           /\ ~InMicro(n) => Cardinality(Positions(micro, n)) = 0
<1>1. micro \in Seq(Nat)
  BY DEF HeldTyped
<1>2. \A i, j \in 1 .. Len(micro) : micro[i] = n /\ micro[j] = n => i = j
  <2>1. SUFFICES ASSUME NEW i \in 1 .. Len(micro), NEW j \in 1 .. Len(micro),
                        micro[i] = micro[j]
                 PROVE  i = j
    OBVIOUS
  <2>2. ~(i < j) /\ ~(j < i)
    <3>1. micro[i] \in Nat /\ micro[j] \in Nat
      BY <1>1
    <3>2. QED
      BY <2>1, <3>1 DEF QueuesInv, MicroInv
  <2>3. QED
    BY <2>2
<1>3. QED
  BY <1>1, <1>2, AbsentCount, UniqueCount DEF InMicro

LEMMA FinishedCount ==
    ASSUME NEW n
    PROVE  LET once == finished \cap {MicroEntry(n), TaskEntry(n)} IN
           /\ MicroEntry(n) \in finished /\ TaskEntry(n) \notin finished
                => Cardinality(once) = 1
           /\ TaskEntry(n) \in finished /\ MicroEntry(n) \notin finished
                => Cardinality(once) = 1
           /\ MicroEntry(n) \notin finished /\ TaskEntry(n) \notin finished
                => Cardinality(once) = 0
<1> DEFINE once == finished \cap {MicroEntry(n), TaskEntry(n)}
<1>1. MicroEntry(n) \in finished /\ TaskEntry(n) \notin finished => once = {MicroEntry(n)}
  OBVIOUS
<1>2. TaskEntry(n) \in finished /\ MicroEntry(n) \notin finished => once = {TaskEntry(n)}
  OBVIOUS
<1>3. MicroEntry(n) \notin finished /\ TaskEntry(n) \notin finished => once = {}
  OBVIOUS
<1>4. QED
  BY <1>1, <1>2, <1>3, FS_Singleton, FS_EmptySet

LEMMA TaskHeldOnce ==
    ASSUME HeldTyped, QueuesInv, NEW n \in 1 .. tasks
    PROVE  Cardinality(Positions(micro, n)) + Cardinality(Positions(macro, TaskEntry(n)))
             + Cardinality(finished \cap {MicroEntry(n), TaskEntry(n)}) = 1
<1> DEFINE a == Cardinality(Positions(micro, n))
           b == Cardinality(Positions(macro, TaskEntry(n)))
           c == Cardinality(finished \cap {MicroEntry(n), TaskEntry(n)})
<1>1. /\ InMicro(n) => a = 1
      /\ ~InMicro(n) => a = 0
  BY MicroCount
<1>2. /\ InMacro(n) => b = 1
      /\ ~InMacro(n) => b = 0
  BY MacroCount DEF InMacro
<1>3. /\ MicroEntry(n) \in finished /\ TaskEntry(n) \notin finished => c = 1
      /\ TaskEntry(n) \in finished /\ MicroEntry(n) \notin finished => c = 1
      /\ MicroEntry(n) \notin finished /\ TaskEntry(n) \notin finished => c = 0
  BY FinishedCount
<1>4. ~(InMicro(n) /\ MicroEntry(n) \in finished)
  <2>1. MicroEntry(n) \in finished => \A i \in 1 .. Len(micro) : n < micro[i]
    BY EntryFields DEF QueuesInv, FinishedInv
  <2>2. QED
    BY <2>1 DEF InMicro
<1>5. ~(InMacro(n) /\ TaskEntry(n) \in finished)
  <2>1. TaskEntry(n) \in finished
          => \A i \in 1 .. Len(macro) : macro[i].kind = "task" => n < macro[i].id
    BY EntryFields DEF QueuesInv, FinishedInv
  <2>2. QED
    BY <2>1, EntryFields DEF InMacro
<1>6. \/ /\ InMicro(n) \/ MicroEntry(n) \in finished
         /\ ~InMacro(n) /\ TaskEntry(n) \notin finished
      \/ /\ InMacro(n) \/ TaskEntry(n) \in finished
         /\ ~InMicro(n) /\ MicroEntry(n) \notin finished
  BY DEF QueuesInv, OneQueueInv
<1> HIDE DEF a, b, c
<1>7. a + b + c = 1
  BY <1>1, <1>2, <1>3, <1>4, <1>5, <1>6
<1>8. QED
  BY <1>7 DEF a, b, c

\* What a script queues or starts is held once and called to its end once.
THEOREM RunsOnceHolds == Spec => []RunsOnce
<1>1. TypeInv /\ LiveQueued /\ QueuesInv => RunsOnce
  <2> SUFFICES ASSUME TypeInv, LiveQueued, QueuesInv PROVE RunsOnce
    OBVIOUS
  <2>0. HeldTyped
    BY TypesOfHeld
  <2>1. TimerQueuedOnce
    <3>1. ASSUME NEW t \in 1 .. Len(kind)
          PROVE  LET n == Cardinality(Positions(macro, TimerEntry(t)))
                 IN  IF t \in timers THEN n = 1 ELSE n <= 1
      BY <2>0, MacroCount DEF LiveQueued
    <3>2. QED
      BY <3>1 DEF TimerQueuedOnce
  <2>2. NoTaskLost
    BY <2>0, TaskHeldOnce DEF NoTaskLost
  <2>3. OnceTimerRunsOnce
    <3>1. SUFFICES ASSUME pc = "timerCall", TimerEntry(Current) \in finished
                   PROVE  FALSE
      BY DEF OnceTimerRunsOnce
    <3>2. macro \in Seq(MacroEntry) /\ macro # <<>> /\ Head(macro).kind = "timer"
      BY <3>1 DEF TypeInv, TypeOK, CallPositions
    <3>3. 1 \in 1 .. Len(macro) /\ Head(macro) = macro[1]
      BY <3>2
    <3>4. macro[1] = TimerEntry(Current)
      BY <2>0, <3>2, <3>3, EntryOfMacro DEF Current
    <3>5. QED
      BY <3>1, <3>3, <3>4, EntryFields DEF QueuesInv, FinishedInv
  <2>4. QED
    BY <2>1, <2>2, <2>3 DEF RunsOnce
<1>2. Init => LiveQueued
  BY DEF Init, LiveQueued
<1>3. TypeInv /\ LiveQueued /\ [Next]_vars => LiveQueued'
  BY NextLiveQueued
<1>4. QED
  BY <1>1, <1>2, <1>3, InitTypeInv, NextTypeInv, InitQueuesInv, NextQueuesInv, PTL DEF Spec

===============================================================================
