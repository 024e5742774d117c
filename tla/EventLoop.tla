------------------------------- MODULE EventLoop -------------------------------
(***************************************************************************)
(* The event loop of the VM (src/src/Runtime.h): top-level scripts, the    *)
(* micro and macro task queues, timers, required events and the cross      *)
(* thread queue, with the threads that feed them (the fetch pool and the   *)
(* TCP servers) as the environment.                                        *)
(*                                                                         *)
(* The main thread is a state machine over pc.  In the ScriptPc states it  *)
(* is inside a script function, which may call any builtin that touches    *)
(* the loop, raise, or return; in the others it is inside C++ code of the  *)
(* loop.  Scripts nest a run of the loop (include) only from the top level *)
(* of a program.                                                           *)
(***************************************************************************)
EXTENDS Integers, Sequences, FiniteSets

CONSTANTS
    Fetch,      \* the fetch_async requests scripts may make
    Server,     \* the servers scripts may start
    File,       \* the script files that may be included
    MaxTask,    \* bound: calls of runInMicroQueue and runInMacroQueue
    MaxTimer,   \* bound: timers started by scripts
    MaxCross,   \* bound: messages received by server connections
    MaxRaise,   \* bound: uncaught exceptions
    Ops,        \* the builtins the scripts use
    Repl        \* TRUE: -repl, FALSE: -exec

AllOps == {"micro", "macro", "every", "once", "remove", "remove_any",
           "fetch", "server", "include"}

ASSUME BoundsAssumption ==
    /\ MaxTask \in Nat /\ MaxTimer \in Nat /\ MaxCross \in Nat /\ MaxRaise \in Nat
ASSUME ModeAssumption == Repl \in BOOLEAN /\ Ops \subseteq AllOps

VARIABLES
    pc,         \* where the main thread is
    depth,      \* nested Run calls made by include
    included,   \* included_files
    tasks,      \* number of task functions queued so far; their ids are 1..tasks
    micro,      \* micro_task_queue: ids of task functions
    macro,      \* macro_task_queue: entries of task functions and of timers
    kind,       \* per timer id ever issued, what kind of timer it is
    timers,     \* the keys of timer_map
    due,        \* timers whose interval has elapsed since their last call
    requested,  \* fetches made
    customers,  \* the keys of required_event_customers
    pollTimer,  \* required_event_timer_id, 0 for -1
    inflight,   \* requests the pool has not answered yet
    reqQ,       \* event_required_queue
    server,     \* the state of each server's accept thread
    crossQ,     \* event_cross_thread_queue: message numbers
    crossSent,  \* messages received so far
    raised,     \* uncaught exceptions so far
    finished    \* history: tasks and once timers whose call has returned

scriptVars == <<depth, included>>
taskVars   == <<tasks, micro, finished>>
timerVars  == <<kind, timers, due>>
eventVars  == <<requested, customers, pollTimer, inflight, reqQ>>
serverVars == <<server, crossQ, crossSent>>
vars == <<pc, depth, included, tasks, micro, macro, kind, timers, due, requested,
          customers, pollTimer, inflight, reqQ, server, crossQ, crossSent, raised,
          finished>>

ScriptPc == {"body", "crossCall", "microCall", "macroCall", "timerCall", "pollCall"}
LoopPc   == {"head", "cross", "micro", "macro", "timer", "poll"}
EndPc    == {"done", "dead"}

FetchEvent(f) == [type |-> "fetch", of |-> f]
InitEvent(s)  == [type |-> "init", of |-> s]
CloseEvent(s) == [type |-> "close", of |-> s]
Event == {FetchEvent(f) : f \in Fetch}
            \cup {InitEvent(s) : s \in Server} \cup {CloseEvent(s) : s \in Server}

TaskEntry(n)  == [kind |-> "task", id |-> n]
TimerEntry(t) == [kind |-> "timer", id |-> t]
MicroEntry(n) == [kind |-> "micro", id |-> n]

InScript == pc \in ScriptPc
Running  == pc \notin EndPc

Init ==
    /\ pc = "body" /\ depth = 0 /\ included = {}
    /\ tasks = 0 /\ micro = <<>> /\ macro = <<>> /\ finished = {}
    /\ kind = <<>> /\ timers = {} /\ due = {}
    /\ requested = {} /\ customers = {} /\ pollTimer = 0
    /\ inflight = {} /\ reqQ = <<>>
    /\ server = [s \in Server |-> "none"] /\ crossQ = <<>> /\ crossSent = 0
    /\ raised = 0

-----------------------------------------------------------------------------
(* Builtins, called from script code. *)

\* Mutant: a stack instead of a queue.
RunInMicroQueueFirst ==
    /\ InScript /\ "micro" \in Ops /\ tasks < MaxTask
    /\ tasks' = tasks + 1
    /\ micro' = IF pc = "microCall" THEN <<Head(micro), tasks'>> \o Tail(micro)
                                    ELSE <<tasks'>> \o micro
    /\ UNCHANGED <<pc, macro, finished, raised, scriptVars, timerVars, eventVars, serverVars>>

RunInMicroQueue ==
    /\ InScript /\ "micro" \in Ops /\ tasks < MaxTask
    /\ tasks' = tasks + 1
    /\ micro' = Append(micro, tasks')
    /\ UNCHANGED <<pc, macro, finished, raised, scriptVars, timerVars, eventVars, serverVars>>

RunInMacroQueue ==
    /\ InScript /\ "macro" \in Ops /\ tasks < MaxTask
    /\ tasks' = tasks + 1
    /\ macro' = Append(macro, TaskEntry(tasks'))
    /\ UNCHANGED <<pc, micro, finished, raised, scriptVars, timerVars, eventVars, serverVars>>

\* VM::StartTimer: a fresh id, an entry of timer_map, a macro task that polls it.
NextTimer == Len(kind) + 1
StartTimer(k) ==
    /\ kind' = Append(kind, k)
    /\ timers' = timers \cup {NextTimer}
    /\ macro' = Append(macro, TimerEntry(NextTimer))
    /\ UNCHANGED due

ScriptTimers == {t \in 1 .. Len(kind) : kind[t] # "poll"}

StartScriptTimer(k) ==
    /\ InScript /\ k \in Ops /\ Cardinality(ScriptTimers) < MaxTimer
    /\ StartTimer(k)
    /\ UNCHANGED <<pc, raised, scriptVars, taskVars, eventVars, serverVars>>

\* VM::RemoveTimer: the queued macro task stays and finds out when it runs.
RemoveTimer(t) ==
    /\ timers' = timers \ {t}
    /\ due' = due \ {t}
    /\ UNCHANGED kind

\* "remove" passes ids that start_timer returned, "remove_any" any number.
RemoveScriptTimer(t) ==
    /\ InScript /\ t \in timers
    /\ "remove_any" \in Ops \/ ("remove" \in Ops /\ t \in ScriptTimers)
    /\ RemoveTimer(t)
    /\ UNCHANGED <<pc, macro, raised, scriptVars, taskVars, eventVars, serverVars>>

\* Mutant: every customer starts a poll timer.
AddCustomerAndTimer(events) ==
    /\ customers' = customers \cup events
    /\ StartTimer("poll") /\ pollTimer' = NextTimer

\* VM::AddRequiredEventCustomer: the first customer starts the poll timer.
AddRequiredEventCustomer(events) ==
    /\ customers' = customers \cup events
    /\ IF pollTimer = 0
         THEN StartTimer("poll") /\ pollTimer' = NextTimer
         ELSE UNCHANGED <<pollTimer, macro, timerVars>>

FetchAsync(f) ==
    /\ InScript /\ "fetch" \in Ops /\ f \notin requested
    /\ requested' = requested \cup {f}
    /\ AddRequiredEventCustomer({FetchEvent(f)})
    /\ inflight' = inflight \cup {f}
    /\ UNCHANGED <<pc, reqQ, raised, scriptVars, taskVars, serverVars>>

\* Mutants: one of the two customers of a server is forgotten.
WithoutInit(s)  == {CloseEvent(s)}
WithoutClose(s) == {InitEvent(s)}

ServerEvents(s) == {CloseEvent(s), InitEvent(s)}

MakeServer(s) ==
    /\ InScript /\ "server" \in Ops /\ server[s] = "none"
    /\ AddRequiredEventCustomer(ServerEvents(s))
    /\ server' = [server EXCEPT ![s] = "starting"]
    /\ UNCHANGED <<pc, requested, inflight, reqQ, crossQ, crossSent, raised, scriptVars,
                   taskVars>>

\* include: a file not included before runs as a nested program, loop and all.
Include(file) ==
    /\ pc = "body" /\ "include" \in Ops /\ file \notin included
    /\ included' = included \cup {file}
    /\ depth' = depth + 1
    /\ UNCHANGED <<pc, macro, raised, taskVars, timerVars, eventVars, serverVars>>

\* Mutant: an entry is popped before its function is called.
UnwindPopped ==
    /\ micro' = IF pc = "microCall" THEN Tail(micro) ELSE micro
    /\ macro' = IF pc \in {"macroCall", "timerCall", "pollCall"} THEN Tail(macro) ELSE macro

\* The function that raised is still at the front of its queue.
Unwind == UNCHANGED <<micro, macro>>

\* An exception no script catches (there is no catch): -exec ends, -repl drops
\* the frames and keeps the queues.
Raise ==
    /\ InScript /\ raised < MaxRaise
    /\ raised' = raised + 1
    /\ pc' = IF Repl THEN "prompt" ELSE "dead"
    /\ depth' = 0
    /\ Unwind
    /\ UNCHANGED <<included, tasks, finished, timerVars, eventVars, serverVars>>

-----------------------------------------------------------------------------
(* VM::Run and VM::RunQueueTaskUntilEmpty. *)

Goto(from, to) ==
    /\ pc = from /\ pc' = to
    /\ UNCHANGED <<raised, serverVars>>

\* The last statement of a program: Run goes on to the loop.
BodyEnd ==
    /\ Goto("body", "head")
    /\ UNCHANGED <<macro, scriptVars, taskVars, timerVars, eventVars>>

LoopHead ==
    /\ micro # <<>> \/ macro # <<>>
    /\ Goto("head", "cross")
    /\ UNCHANGED <<macro, scriptVars, taskVars, timerVars, eventVars>>

\* Both queues are empty: Run returns to the including program, or to main.
LoopExit ==
    /\ micro = <<>> /\ macro = <<>>
    /\ IF depth > 0
         THEN Goto("head", "body") /\ depth' = depth - 1
         ELSE Goto("head", IF Repl THEN "prompt" ELSE "done") /\ UNCHANGED depth
    /\ UNCHANGED <<included, macro, taskVars, timerVars, eventVars>>

CrossNext ==
    /\ pc = "cross"
    /\ IF crossQ = <<>>
         THEN pc' = "micro" /\ UNCHANGED crossQ
         ELSE pc' = "crossCall" /\ crossQ' = Tail(crossQ)
    /\ UNCHANGED <<raised, macro, server, crossSent, scriptVars, taskVars, timerVars,
                   eventVars>>

CrossReturn ==
    /\ Goto("crossCall", "cross")
    /\ UNCHANGED <<macro, scriptVars, taskVars, timerVars, eventVars>>

MicroNext ==
    /\ Goto("micro", IF micro = <<>> THEN "macro" ELSE "microCall")
    /\ UNCHANGED <<macro, scriptVars, taskVars, timerVars, eventVars>>

\* Mutant: one micro task a round, as for macro tasks.
MicroReturnOnce ==
    /\ Goto("microCall", "macro")
    /\ micro' = Tail(micro)
    /\ finished' = finished \cup {MicroEntry(Head(micro))}
    /\ UNCHANGED <<tasks, macro, scriptVars, timerVars, eventVars>>

\* The function has returned: only now is its entry popped.
MicroReturn ==
    /\ Goto("microCall", "micro")
    /\ micro' = Tail(micro)
    /\ finished' = finished \cup {MicroEntry(Head(micro))}
    /\ UNCHANGED <<tasks, macro, scriptVars, timerVars, eventVars>>

MacroNext ==
    /\ Goto("macro", IF macro = <<>> THEN "head"
                     ELSE IF Head(macro).kind = "task" THEN "macroCall" ELSE "timer")
    /\ UNCHANGED <<macro, scriptVars, taskVars, timerVars, eventVars>>

MacroReturn ==
    /\ Goto("macroCall", "head")
    /\ macro' = Tail(macro)
    /\ finished' = finished \cup {Head(macro)}
    /\ UNCHANGED <<tasks, micro, scriptVars, timerVars, eventVars>>

-----------------------------------------------------------------------------
(* The function StartTimer queues for a timer.                               *)

Current == Head(macro).id

\* The timer's function is over: it queued itself again if again, then the
\* loop pops the entry it ran.
TimerTaskEnd(again) ==
    macro' = IF again THEN Append(Tail(macro), Head(macro)) ELSE Tail(macro)

\* The timer was removed while its entry was queued.
TimerGone ==
    /\ Goto("timer", "head")
    /\ Current \notin timers
    /\ TimerTaskEnd(FALSE)
    /\ UNCHANGED <<scriptVars, taskVars, timerVars, eventVars>>

\* Mutant: a timer that is not due is not queued again.
TimerNotDueDropped ==
    /\ Goto("timer", "head")
    /\ Current \in timers \ due
    /\ TimerTaskEnd(FALSE)
    /\ UNCHANGED <<scriptVars, taskVars, timerVars, eventVars>>

TimerNotDue ==
    /\ Goto("timer", "head")
    /\ Current \in timers \ due
    /\ TimerTaskEnd(TRUE)
    /\ UNCHANGED <<scriptVars, taskVars, timerVars, eventVars>>

TimerDue ==
    /\ pc = "timer" /\ Current \in timers \cap due
    /\ Goto("timer", IF kind[Current] = "poll" THEN "poll" ELSE "timerCall")
    /\ due' = due \ {Current}
    /\ UNCHANGED <<macro, kind, timers, scriptVars, taskVars, eventVars>>

\* Mutant: a once timer is treated as a repeating one.
TimerReturnAgain ==
    /\ Goto("timerCall", "head")
    /\ TimerTaskEnd(Current \in timers)
    /\ finished' = IF kind[Current] = "once" THEN finished \cup {Head(macro)} ELSE finished
    /\ UNCHANGED <<tasks, micro, scriptVars, timerVars, eventVars>>

\* A script's timer function returns.
TimerReturn ==
    /\ Goto("timerCall", "head")
    /\ IF kind[Current] = "once"
         THEN /\ RemoveTimer(Current)
              /\ TimerTaskEnd(FALSE)
              /\ finished' = finished \cup {Head(macro)}
         ELSE /\ TimerTaskEnd(Current \in timers)
              /\ UNCHANGED <<timerVars, finished>>
    /\ UNCHANGED <<tasks, micro, scriptVars, eventVars>>

-----------------------------------------------------------------------------
(* The poll function of the required events, a timer function of its own.    *)

PollEmpty ==
    /\ reqQ = <<>>
    /\ Goto("poll", "head")
    /\ TimerTaskEnd(Current \in timers)
    /\ UNCHANGED <<scriptVars, taskVars, timerVars, eventVars>>

\* Mutant: the poll timer goes with any customer.
EraseCustomerAndTimer(event) ==
    /\ customers' = customers \ {event}
    /\ RemoveTimer(pollTimer) /\ pollTimer' = 0

\* With the last customer goes the poll timer.
EraseCustomer(event) ==
    /\ customers' = customers \ {event}
    /\ IF customers' = {}
         THEN RemoveTimer(pollTimer) /\ pollTimer' = 0
         ELSE UNCHANGED <<pollTimer, timerVars>>

\* The oldest event: its customer is erased before the callback is called;
\* without a customer it is dropped.
PollEvent ==
    /\ pc = "poll" /\ reqQ # <<>>
    /\ reqQ' = Tail(reqQ)
    /\ IF Head(reqQ) \in customers
         THEN /\ Goto("poll", "pollCall")
              /\ EraseCustomer(Head(reqQ))
              /\ UNCHANGED macro
         ELSE /\ Goto("poll", "head")
              /\ TimerTaskEnd(Current \in timers)
              /\ UNCHANGED <<customers, pollTimer, timerVars>>
    /\ UNCHANGED <<requested, inflight, scriptVars, taskVars>>

PollReturn ==
    /\ Goto("pollCall", "head")
    /\ TimerTaskEnd(Current \in timers)
    /\ UNCHANGED <<scriptVars, taskVars, timerVars, eventVars>>

-----------------------------------------------------------------------------
(* main: the next line of -repl, or the end of its input.                    *)

ReadLine ==
    /\ Goto("prompt", "body")
    /\ UNCHANGED <<macro, scriptVars, taskVars, timerVars, eventVars>>

EndOfInput ==
    /\ Goto("prompt", "done")
    /\ UNCHANGED <<macro, scriptVars, taskVars, timerVars, eventVars>>

-----------------------------------------------------------------------------
(* The environment: time, the fetch pool's threads, the servers' threads.    *)

Elapse(t) ==
    /\ Running /\ t \in timers \ due
    /\ due' = due \cup {t}
    /\ UNCHANGED <<pc, macro, kind, timers, raised, scriptVars, taskVars, eventVars,
                   serverVars>>

Push2RequiredEventPendingQueue(e) == reqQ' = Append(reqQ, e)

\* The pool's callback pushes the answer, or the error, of a request.
Respond(f) ==
    /\ Running /\ f \in inflight
    /\ inflight' = inflight \ {f}
    /\ Push2RequiredEventPendingQueue(FetchEvent(f))
    /\ UNCHANGED <<pc, macro, requested, customers, pollTimer, raised, scriptVars, taskVars,
                   timerVars, serverVars>>

\* The accept thread listens: on_init.
ServerListen(s) ==
    /\ Running /\ server[s] = "starting"
    /\ server' = [server EXCEPT ![s] = "open"]
    /\ Push2RequiredEventPendingQueue(InitEvent(s))
    /\ UNCHANGED <<pc, macro, requested, customers, pollTimer, inflight, crossQ, crossSent,
                   raised, scriptVars, taskVars, timerVars>>

\* bind, accept or read fails: the exception of a detached thread ends the process.
ServerError(s) ==
    /\ Running /\ server[s] # "none"
    /\ pc' = "dead"
    /\ UNCHANGED <<macro, raised, scriptVars, taskVars, timerVars, eventVars, serverVars>>

\* A connection thread reads a message: on_recv.
Push2CrossThreadEventPendingQueue(s) ==
    /\ Running /\ server[s] = "open" /\ crossSent < MaxCross
    /\ crossSent' = crossSent + 1
    /\ crossQ' = Append(crossQ, crossSent')
    /\ UNCHANGED <<pc, macro, server, raised, scriptVars, taskVars, timerVars, eventVars>>

-----------------------------------------------------------------------------
ScriptStep ==
    \/ RunInMicroQueue \/ RunInMacroQueue
    \/ \E k \in {"every", "once"} : StartScriptTimer(k)
    \/ \E t \in timers : RemoveScriptTimer(t)
    \/ \E f \in Fetch : FetchAsync(f)
    \/ \E s \in Server : MakeServer(s)
    \/ \E file \in File : Include(file)
    \/ Raise

ScriptReturn ==
    \/ BodyEnd \/ CrossReturn \/ MicroReturn \/ MacroReturn \/ TimerReturn \/ PollReturn

LoopStep ==
    \/ LoopHead \/ LoopExit \/ CrossNext \/ MicroNext \/ MacroNext
    \/ TimerGone \/ TimerNotDue \/ TimerDue
    \/ PollEmpty \/ PollEvent

Environment ==
    \/ \E t \in timers : Elapse(t)
    \/ \E f \in Fetch : Respond(f)
    \/ \E s \in Server :
          ServerListen(s) \/ ServerError(s) \/ Push2CrossThreadEventPendingQueue(s)

\* The process has ended.
Ended == ~Running /\ UNCHANGED vars

Next ==
    \/ ScriptStep \/ ScriptReturn \/ LoopStep
    \/ ReadLine \/ EndOfInput
    \/ Environment
    \/ Ended

Spec == Init /\ [][Next]_vars

(***************************************************************************)
(* Fairness: the main thread goes on, which includes that script functions *)
(* return; time passes; the pool answers every request, with an error if   *)
(* need be; the accept thread gets to listen.  Nothing makes a user type,  *)
(* a client send, or a server fail.                                        *)
(***************************************************************************)
MaxTimerId == MaxTimer + Cardinality(Fetch) + Cardinality(Server)

Fairness ==
    /\ WF_vars(ScriptReturn \/ LoopStep)
    /\ \A t \in 1 .. MaxTimerId : WF_vars(Elapse(t))
    /\ \A f \in Fetch : WF_vars(Respond(f))
    /\ \A s \in Server : WF_vars(ServerListen(s))

FairSpec == Spec /\ Fairness

-----------------------------------------------------------------------------
(* Properties. *)

MacroEntry == [kind : {"task", "timer"}, id : Nat]

\* The types of the variables: queues of ids, sets of events with a customer.
TypeOK ==
    /\ pc \in ScriptPc \cup LoopPc \cup {"prompt"} \cup EndPc
    /\ depth \in Nat /\ included \subseteq File
    /\ tasks \in Nat /\ micro \in Seq(Nat) /\ macro \in Seq(MacroEntry)
    /\ finished \subseteq [kind : {"micro", "task", "timer"}, id : Nat]
    /\ kind \in Seq({"every", "once", "poll"})
    /\ timers \subseteq 1 .. Len(kind) /\ due \subseteq timers
    /\ requested \subseteq Fetch /\ customers \subseteq Event
    /\ pollTimer \in 0 .. Len(kind)
    /\ inflight \subseteq Fetch /\ reqQ \in Seq(Event)
    /\ server \in [Server -> {"none", "starting", "open"}]
    /\ crossQ \in Seq(Nat) /\ crossSent \in Nat
    /\ raised \in Nat

Positions(q, e) == {i \in DOMAIN q : q[i] = e}

\* A timer of timer_map has exactly one entry in the macro queue, so it is
\* neither forgotten nor run twice a round, whatever its function, a removal or
\* an exception does; a removed one has at most the entry that will drop it.
TimerQueuedOnce ==
    \A t \in 1 .. Len(kind) :
        LET n == Cardinality(Positions(macro, TimerEntry(t)))
        IN  IF t \in timers THEN n = 1 ELSE n <= 1

\* The poll timer lives exactly while some required event has a customer, and
\* there is never a second one (required_event_timer_id).
PollTimerServesCustomers ==
    /\ customers = {} <=> pollTimer = 0
    /\ \A t \in timers : kind[t] = "poll" <=> t = pollTimer
    /\ pollTimer # 0 => pollTimer \in timers

\* Every event that is queued or on its way finds its customer: a request is
\* answered once, and the poll function never drops an event.
EventsHaveCustomers ==
    /\ \A f \in Fetch :
         LET n == Cardinality(Positions(reqQ, FetchEvent(f))) IN
         IF FetchEvent(f) \in customers
           THEN n = IF f \in inflight THEN 0 ELSE 1
           ELSE n = 0 /\ f \notin inflight
    /\ \A s \in Server :
         LET n == Cardinality(Positions(reqQ, InitEvent(s))) IN
         IF InitEvent(s) \in customers
           THEN n = IF server[s] = "starting" THEN 0 ELSE 1
           ELSE n = 0 /\ server[s] # "starting"

NothingRequired == customers = {} /\ reqQ = <<>> /\ inflight = {}

\* Event.h: "must not exit before the required events are handled".  Whenever
\* the loop returns, to an including program, to the prompt or to main,
\* no answer and no server is outstanding and no timer is left.
RequiredBeforeExit ==
    [][pc = "head" /\ pc' \in {"body", "prompt", "done"}
         => NothingRequired /\ timers = {}]_vars

\* A task function stays queued until a call of it has returned, and is then
\* gone: exactly one of micro queue, macro queue and finished holds it, even
\* when an earlier call of it raised.
NoTaskLost ==
    \A n \in 1 .. tasks :
        Cardinality(Positions(micro, n)) + Cardinality(Positions(macro, TaskEntry(n)))
          + Cardinality(finished \cap {MicroEntry(n), TaskEntry(n)}) = 1

\* Tasks of a queue finish in the order they were queued.
TasksInOrder ==
    /\ \A n \in 1 .. tasks, i \in DOMAIN micro :
          MicroEntry(n) \in finished => n < micro[i]
    /\ \A n \in 1 .. tasks, i \in DOMAIN macro :
          TaskEntry(n) \in finished /\ macro[i].kind = "task" => n < macro[i].id

\* A macro task or timer starts only when every micro task queued before it,
\* by another macro task, a timer or a cross thread callback, has finished.
MicroBeforeMacro ==
    [][pc = "macro" /\ pc' \in {"macroCall", "timer"} => micro = <<>>]_vars

\* The function of a once timer that returned is not called again.
OnceTimerRunsOnce ==
    pc = "timerCall" => TimerEntry(Current) \notin finished

\* What a script queues or starts is held once and called to its end once: by
\* whatever queue, callback, removal or exception it passes.
RunsOnce == TimerQueuedOnce /\ NoTaskLost /\ OnceTimerRunsOnce

Pending(f) == FetchEvent(f) \in customers

\* The callback of every fetch_async is called in the end.
FetchAnswered == \A f \in Fetch : Pending(f) ~> (~Pending(f) \/ pc = "dead")

\* A task queued by a script, from whatever callback, runs to its end.
TasksFinish ==
    \A n \in 1 .. MaxTask :
        n <= tasks ~> (MicroEntry(n) \in finished \/ TaskEntry(n) \in finished \/ pc = "dead")

\* A once timer fires, unless it is removed first, and is then removed.
OnceTimerFires ==
    \A t \in 1 .. MaxTimerId :
        (t \in timers /\ kind[t] = "once") ~> (t \notin timers \/ pc = "dead")

\* All that is queued for a later round gets its turn.
QueuedFinishes == TasksFinish /\ OnceTimerFires

\* A message a connection received reaches its callback, although only a
\* running loop looks at the cross thread queue: an open server keeps it running.
MessagesDelivered ==
    \A n \in 1 .. MaxCross :
        crossSent >= n ~> (crossSent - Len(crossQ) >= n \/ pc = "dead")

\* A program without repeating timers ends, unless a server is open.
Terminates == <>(pc \in EndPc \/ \E s \in Server : server[s] = "open")

=============================================================================
