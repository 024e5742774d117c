------------------------------- MODULE AsyncPool -------------------------------
(***************************************************************************)
(* The thread pool of fetch_async: class sion::Async (src/src/sion/sion.h) *)
(* with the threads' AsyncLoop, the callback form of Run, and the          *)
(* destructor, which runs when the process ends.                           *)
(*                                                                         *)
(* m_ is held only inside one action, except by a worker that evaluates    *)
(* the predicate of its wait: the predicate reads stopped_, which is       *)
(* written without m_, so reading it and going to sleep are two steps.     *)
(* All threads, the destructor's too, sleep on the one cv_.                *)
(***************************************************************************)
EXTENDS Integers, Sequences, FiniteSets

CONSTANTS
    Worker,     \* the pool's threads (thread_num_)
    Request,    \* the requests that may be made
    Main,       \* the thread that calls Run and, at the end, the destructor
    CanStop     \* whether the process may end

ASSUME ThreadsAssumption == Main \notin Worker
ASSUME StopAssumption == CanStop \in BOOLEAN

VARIABLES
    at,         \* where each thread is
    lock,       \* the worker that holds m_ between two of its steps, or Main for none
    waitSet,    \* the threads asleep on cv_
    queue,      \* queue_
    pkg,        \* the requests each worker has in hand: at most one
    threads,    \* the keys of threads_
    stopped,    \* stopped_
    submitted,  \* requests passed to Run so far
    answered    \* history: requests whose callback was called

runVars == <<queue, pkg, submitted, answered>>
vars == <<at, lock, waitSet, queue, pkg, threads, stopped, submitted, answered>>

Thread == Worker \cup {Main}
Free   == lock = Main

Init ==
    /\ at = [t \in Thread |-> IF t = Main THEN "idle" ELSE "loop"]
    /\ lock = Main /\ waitSet = {}
    /\ queue = <<>> /\ pkg = [w \in Worker |-> {}]
    /\ threads = Worker /\ stopped = FALSE
    /\ submitted = {} /\ answered = {}

Goto(t, from, to) ==
    /\ at[t] = from
    /\ at' = [at EXCEPT ![t] = to]

\* t goes on and wakes the threads ts, which then have to take m_ again.
GotoAndWake(t, from, to, ts) ==
    /\ at[t] = from
    /\ waitSet' = waitSet \ ts
    /\ at' = [u \in Thread |-> IF u = t THEN to ELSE IF u \in ts THEN "relock" ELSE at[u]]

\* cv_.notify_one wakes any one of the sleeping threads, if there is one.
GotoAndNotifyOne(t, from, to) ==
    \/ waitSet = {} /\ GotoAndWake(t, from, to, {})
    \/ \E u \in waitSet : GotoAndWake(t, from, to, {u})

-----------------------------------------------------------------------------
(* The main thread: Run(fn, cb), and ~Async.                                 *)

\* Mutant: the request is queued without m_.
PushUnlocked(r) ==
    /\ r \notin submitted
    /\ Goto(Main, "idle", "notify")
    /\ submitted' = submitted \cup {r}
    /\ queue' = Append(queue, r)
    /\ UNCHANGED <<lock, waitSet, pkg, threads, stopped, answered>>

\* Run: the request is queued under m_ ...
Push(r) ==
    /\ Free /\ r \notin submitted
    /\ Goto(Main, "idle", "notify")
    /\ submitted' = submitted \cup {r}
    /\ queue' = Append(queue, r)
    /\ UNCHANGED <<lock, waitSet, pkg, threads, stopped, answered>>

\* Mutant: nobody is told.
NotifyNobody ==
    /\ Goto(Main, "notify", "idle")
    /\ UNCHANGED <<lock, waitSet, threads, stopped, runVars>>

\* ... and cv_.notify_one is called without it.
Notify ==
    /\ GotoAndNotifyOne(Main, "notify", "idle")
    /\ UNCHANGED <<lock, threads, stopped, runVars>>

\* The destructor: stopped_ = true and cv_.notify_all, both without m_.
Stop ==
    /\ CanStop
    /\ Goto(Main, "idle", "notifyAll")
    /\ stopped' = TRUE
    /\ UNCHANGED <<lock, waitSet, threads, runVars>>

NotifyAll ==
    /\ GotoAndWake(Main, "notifyAll", "relock", waitSet)
    /\ UNCHANGED <<lock, threads, stopped, runVars>>

\* Mutant: the destructor does not wait.
AwaitNobody ==
    /\ Free
    /\ Goto(Main, "relock", "returned")
    /\ UNCHANGED <<lock, waitSet, threads, stopped, runVars>>

\* cv_.wait(lk, threads_.empty()): threads_ changes only under m_.
AwaitThreads ==
    /\ Free
    /\ IF threads = {}
         THEN Goto(Main, "relock", "returned") /\ UNCHANGED waitSet
         ELSE Goto(Main, "relock", "asleep") /\ waitSet' = waitSet \cup {Main}
    /\ UNCHANGED <<lock, threads, stopped, runVars>>

-----------------------------------------------------------------------------
(* AsyncLoop of worker w.                                                    *)

\* while (!stopped_.load())
LoopTest(w) ==
    /\ Goto(w, "loop", IF stopped THEN "exit" ELSE "relock")
    /\ UNCHANGED <<lock, waitSet, threads, stopped, runVars>>

\* Mutant: the predicate is tested without m_.
TestPredicateUnlocked(w) ==
    /\ Goto(w, "relock", IF queue # <<>> \/ stopped THEN "take" ELSE "sleep")
    /\ UNCHANGED <<lock, waitSet, threads, stopped, runVars>>

\* m_ is taken, before the wait or by a woken thread, and the predicate tested.
TestPredicate(w) ==
    /\ Free /\ lock' = w
    /\ Goto(w, "relock", IF queue # <<>> \/ stopped THEN "take" ELSE "sleep")
    /\ UNCHANGED <<waitSet, threads, stopped, runVars>>

\* m_ is released and the thread sleeps, in one step.
Sleep(w) ==
    /\ Goto(w, "sleep", "asleep")
    /\ waitSet' = waitSet \cup {w} /\ lock' = Main
    /\ UNCHANGED <<threads, stopped, runVars>>

\* A condition variable may wake a thread for no reason.
SpuriousWake(t) ==
    /\ t \in waitSet /\ waitSet' = waitSet \ {t}
    /\ Goto(t, "asleep", "relock")
    /\ UNCHANGED <<lock, threads, stopped, runVars>>

\* Mutant: the request stays in the queue.
TakeAndKeep(w) ==
    /\ lock' = Main
    /\ IF stopped
         THEN Goto(w, "take", "exit") /\ UNCHANGED pkg
         ELSE Goto(w, "take", "notify") /\ pkg' = [pkg EXCEPT ![w] = {Head(queue)}]
    /\ UNCHANGED <<queue, waitSet, threads, stopped, submitted, answered>>

\* After the wait: leave if stopped, else take a request; m_ is released.
Take(w) ==
    /\ lock' = Main
    /\ IF stopped
         THEN Goto(w, "take", "exit") /\ UNCHANGED <<queue, pkg>>
         ELSE /\ Goto(w, "take", "notify")
              /\ pkg' = [pkg EXCEPT ![w] = {Head(queue)}]
              /\ queue' = Tail(queue)
    /\ UNCHANGED <<waitSet, threads, stopped, submitted, answered>>

NotifyNext(w) ==
    /\ GotoAndNotifyOne(w, "notify", "test")
    /\ UNCHANGED <<lock, threads, stopped, runVars>>

\* The tests of stopped_ before and after Send drop the request.
TestBeforeSend(w) ==
    /\ Goto(w, "test", IF stopped THEN "exit" ELSE "send")
    /\ pkg' = IF stopped THEN [pkg EXCEPT ![w] = {}] ELSE pkg
    /\ UNCHANGED <<lock, waitSet, queue, threads, stopped, submitted, answered>>

\* Request::Send returns, with a response or an exception.
Send(w) ==
    /\ Goto(w, "send", "sent")
    /\ UNCHANGED <<lock, waitSet, threads, stopped, runVars>>

TestAfterSend(w) ==
    /\ Goto(w, "sent", IF stopped THEN "exit" ELSE "callback")
    /\ pkg' = IF stopped THEN [pkg EXCEPT ![w] = {}] ELSE pkg
    /\ UNCHANGED <<lock, waitSet, queue, threads, stopped, submitted, answered>>

Callback(w) ==
    /\ Goto(w, "callback", "loop")
    /\ answered' = answered \cup pkg[w]
    /\ pkg' = [pkg EXCEPT ![w] = {}]
    /\ UNCHANGED <<lock, waitSet, queue, threads, stopped, submitted>>

\* threads_.erase(id) and cv_.notify_one, both under m_.
Exit(w) ==
    /\ Free
    /\ GotoAndNotifyOne(w, "exit", "gone")
    /\ threads' = threads \ {w}
    /\ UNCHANGED <<lock, stopped, runVars>>

-----------------------------------------------------------------------------
MainStep == (\E r \in Request : Push(r)) \/ Notify \/ Stop \/ NotifyAll \/ AwaitThreads

WorkerStep(w) ==
    \/ LoopTest(w) \/ TestPredicate(w) \/ Sleep(w) \/ Take(w) \/ NotifyNext(w)
    \/ TestBeforeSend(w) \/ Send(w) \/ TestAfterSend(w) \/ Callback(w) \/ Exit(w)

\* The destructor has returned, or main has nothing to do and all workers sleep.
Quiet ==
    /\ at[Main] \in {"returned", "idle"}
    /\ \A w \in Worker : at[w] \in {"asleep", "gone"}
    /\ UNCHANGED vars

Next ==
    \/ MainStep
    \/ \E w \in Worker : WorkerStep(w)
    \/ \E t \in Thread : SpuriousWake(t)
    \/ Quiet

Spec == Init /\ [][Next]_vars

(***************************************************************************)
(* Fairness: a runnable thread runs, Send returns, and m_ does not starve  *)
(* a thread that asks for it again and again.  Nothing forces Run, the end *)
(* of the process or a spurious wakeup.                                    *)
(***************************************************************************)
Fairness ==
    /\ WF_vars(Notify) /\ WF_vars(NotifyAll) /\ SF_vars(AwaitThreads)
    /\ \A w \in Worker :
          /\ WF_vars(WorkerStep(w))
          /\ SF_vars(TestPredicate(w)) /\ SF_vars(Exit(w))

FairSpec == Spec /\ Fairness

-----------------------------------------------------------------------------
(* Properties. *)

\* No wakeup is lost while the pool runs: when a request is queued and a worker
\* sleeps, another is awake and will look at the queue before it does anything
\* else, or the notify of a Run is still due.
WorkIsNoticed ==
    queue # <<>> /\ ~stopped /\ (\E w \in Worker : at[w] = "asleep") =>
        \/ at[Main] = "notify"
        \/ \E w \in Worker : at[w] \in {"loop", "relock", "take", "notify"}

\* A queued request is in one place, and its callback has not been called.
RequestsHeldOnce ==
    /\ \A i, j \in DOMAIN queue : queue[i] = queue[j] => i = j
    /\ \A w \in Worker, i \in DOMAIN queue : queue[i] \notin pkg[w]
    /\ \A w, v \in Worker : w # v => pkg[w] \cap pkg[v] = {}
    /\ \A w \in Worker : pkg[w] \cap answered = {}
    /\ \A i \in DOMAIN queue : queue[i] \notin answered

\* After its wait a thread that goes on finds the queue not empty, although a
\* wakeup may be spurious or another thread may have been faster.
NeverPopsEmpty ==
    \A w \in Worker : at[w] = "take" /\ ~stopped => queue # <<>>

\* The abstract pool this one implements.
Phase == IF ~stopped THEN "open" ELSE IF at[Main] = "returned" THEN "closed" ELSE "closing"

Pool == INSTANCE RequestPool WITH phase <- Phase

\* Requests are answered at most once, and never after the destructor returned.
ImplementsPool == Pool!Spec

\* While the pool stays open every request is answered in the end.
ImplementsFairPool == Pool!FairSpec

\* sion.h:904, "wait for all threads to exit": the destructor returns.
DestructorReturns == [](stopped => <>(at[Main] = "returned"))
===============================================================================
