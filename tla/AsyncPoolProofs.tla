---------------------------- MODULE AsyncPoolProofs ----------------------------
(***************************************************************************)
(* AsyncPool implements RequestPool, for any number of workers and         *)
(* requests: callbacks are called at most once, only for requests made,    *)
(* and not after the destructor has returned.  No wakeup is lost.          *)
(***************************************************************************)
EXTENDS AsyncPool, TLAPS

Place == {"idle", "notify", "notifyAll", "relock", "asleep", "returned", "loop", "take",
          "sleep", "test", "send", "sent", "callback", "exit", "gone"}

TypeOK ==
    /\ at \in [Thread -> Place]
    /\ waitSet \subseteq Thread
    /\ queue \in Seq(Request) /\ pkg \in [Worker -> SUBSET Request]
    /\ threads \subseteq Worker /\ stopped \in BOOLEAN
    /\ submitted \subseteq Request

\* m_ is held across a step only by the worker that tests the predicate.
LockInv == \A w \in Worker : at[w] \in {"take", "sleep"} => lock = w

\* stopped_ is what the main thread's place says; sleepers are where they sleep;
\* a thread that left threads_ does nothing any more.
PlacesInv ==
    /\ at[Main] \in {"idle", "notify", "notifyAll", "relock", "asleep", "returned"}
    /\ stopped <=> at[Main] \notin {"idle", "notify"}
    /\ \A t \in waitSet : at[t] = "asleep"
    /\ \A w \in Worker : w \in threads \/ at[w] = "gone"
    /\ at[Main] = "returned" => threads = {}

\* Requests in the queue or in hand were made, and not answered.
HeldInv ==
    /\ answered \subseteq submitted
    /\ \A i \in DOMAIN queue : queue[i] \in submitted \ answered
    /\ \A w \in Worker : pkg[w] \subseteq submitted \ answered
    /\ \A w \in Worker : pkg[w] = {} \/ \E r \in Request : pkg[w] = {r}
    /\ \A i, j \in DOMAIN queue : queue[i] = queue[j] => i = j
    /\ \A w \in Worker, i \in DOMAIN queue : queue[i] \notin pkg[w]
    /\ \A w, v \in Worker : w # v => pkg[w] \cap pkg[v] = {}

PoolInv == TypeOK /\ LockInv /\ NeverPopsEmpty /\ PlacesInv /\ HeldInv

USE ThreadsAssumption, StopAssumption

-----------------------------------------------------------------------------
(* How a step moves the threads.                                             *)

\* t goes to the place to; of the others, only sleepers may have been woken.
Moves(t, to) ==
    /\ at' \in [Thread -> Place] /\ at'[t] = to
    /\ \A u \in Thread \ {t} :
         at'[u] = at[u] \/ (at[u] = "asleep" /\ at'[u] = "relock" /\ u \notin waitSet')

\* Everything the invariants and the mapping need to know of a step of a thread.
Step(t, from, to) ==
    /\ t \in Thread /\ at[t] = from /\ Moves(t, to)

LEMMA GotoMoves ==
    ASSUME TypeOK, NEW t \in Thread, NEW from, NEW to \in Place, Goto(t, from, to)
    PROVE  Step(t, from, to)
BY DEF TypeOK, Goto, Moves, Step

LEMMA WakeMoves ==
    ASSUME TypeOK, PlacesInv, NEW t \in Thread, NEW from, NEW to \in Place,
           NEW ts, ts \subseteq waitSet, GotoAndWake(t, from, to, ts)
    PROVE  Step(t, from, to) /\ waitSet' \subseteq waitSet
<1>1. /\ at[t] = from /\ waitSet' = waitSet \ ts
      /\ at' = [u \in Thread |-> IF u = t THEN to ELSE IF u \in ts THEN "relock" ELSE at[u]]
  BY DEF GotoAndWake
<1>2. \A u \in Thread : at[u] \in Place /\ "relock" \in Place
  BY DEF TypeOK, Place
<1>3. at' \in [Thread -> Place] /\ at'[t] = to
  BY <1>1, <1>2
<1>4. ASSUME NEW u \in Thread \ {t}
      PROVE  at'[u] = at[u] \/ (at[u] = "asleep" /\ at'[u] = "relock" /\ u \notin waitSet')
  BY <1>1 DEF PlacesInv
<1>5. QED
  BY <1>1, <1>3, <1>4 DEF Step, Moves

LEMMA NotifyMoves ==
    ASSUME TypeOK, PlacesInv, NEW t \in Thread, NEW from, NEW to \in Place,
           GotoAndNotifyOne(t, from, to)
    PROVE  Step(t, from, to) /\ waitSet' \subseteq waitSet
<1>1. CASE GotoAndWake(t, from, to, {})
  BY <1>1, WakeMoves
<1>2. CASE \E u \in waitSet : GotoAndWake(t, from, to, {u})
  BY <1>2, WakeMoves
<1>3. QED
  BY <1>1, <1>2 DEF GotoAndNotifyOne

LEMMA MainSteps ==
    ASSUME PoolInv, MainStep
    PROVE  \/ /\ Step(Main, "idle", "notify") /\ \E r \in Request : Push(r)
           \/ /\ Step(Main, "notify", "idle") /\ Notify /\ waitSet' \subseteq waitSet
           \/ /\ Step(Main, "idle", "notifyAll") /\ Stop
           \/ /\ Step(Main, "notifyAll", "relock") /\ NotifyAll /\ waitSet' \subseteq waitSet
           \/ /\ Step(Main, "relock", "returned") /\ AwaitThreads /\ threads = {}
              /\ waitSet' = waitSet
           \/ /\ Step(Main, "relock", "asleep") /\ AwaitThreads
              /\ waitSet' = waitSet \cup {Main}
<1>0. TypeOK /\ PlacesInv /\ Main \in Thread
  BY DEF PoolInv, Thread
<1>1. CASE \E r \in Request : Push(r)
  <2>1. Goto(Main, "idle", "notify")
    BY <1>1 DEF Push
  <2>2. QED
    BY <1>0, <1>1, <2>1, GotoMoves DEF Place
<1>2. CASE Notify
  <2>1. GotoAndNotifyOne(Main, "notify", "idle")
    BY <1>2 DEF Notify
  <2>2. QED
    BY <1>0, <1>2, <2>1, NotifyMoves DEF Place
<1>3. CASE Stop
  <2>1. Goto(Main, "idle", "notifyAll")
    BY <1>3 DEF Stop
  <2>2. QED
    BY <1>0, <1>3, <2>1, GotoMoves DEF Place
<1>4. CASE NotifyAll
  <2>1. GotoAndWake(Main, "notifyAll", "relock", waitSet)
    BY <1>4 DEF NotifyAll
  <2>2. QED
    BY <1>0, <1>4, <2>1, WakeMoves DEF Place
<1>5. CASE AwaitThreads /\ threads = {}
  <2>1. Goto(Main, "relock", "returned") /\ waitSet' = waitSet
    BY <1>5 DEF AwaitThreads
  <2>2. QED
    BY <1>0, <1>5, <2>1, GotoMoves DEF Place
<1>6. CASE AwaitThreads /\ threads # {}
  <2>1. Goto(Main, "relock", "asleep") /\ waitSet' = waitSet \cup {Main}
    BY <1>6 DEF AwaitThreads
  <2>2. QED
    BY <1>0, <1>6, <2>1, GotoMoves DEF Place
<1>7. QED
  BY <1>1, <1>2, <1>3, <1>4, <1>5, <1>6 DEF MainStep

\* The places a worker goes to depend on stopped_ and the queue.
AfterTest == IF queue # <<>> \/ stopped THEN "take" ELSE "sleep"
Unless(to) == IF stopped THEN "exit" ELSE to

LEMMA WorkerSteps ==
    ASSUME PoolInv, NEW w \in Worker, WorkerStep(w)
    PROVE  \/ Step(w, "loop", Unless("relock")) /\ LoopTest(w)
           \/ Step(w, "relock", AfterTest) /\ TestPredicate(w)
           \/ Step(w, "sleep", "asleep") /\ Sleep(w)
           \/ Step(w, "take", Unless("notify")) /\ Take(w)
           \/ Step(w, "notify", "test") /\ NotifyNext(w) /\ waitSet' \subseteq waitSet
           \/ Step(w, "test", Unless("send")) /\ TestBeforeSend(w)
           \/ Step(w, "send", "sent") /\ Send(w)
           \/ Step(w, "sent", Unless("callback")) /\ TestAfterSend(w)
           \/ Step(w, "callback", "loop") /\ Callback(w)
           \/ Step(w, "exit", "gone") /\ Exit(w) /\ waitSet' \subseteq waitSet
<1>0. TypeOK /\ PlacesInv /\ w \in Thread
  BY DEF PoolInv, Thread
<1>p. /\ AfterTest \in Place /\ Unless("relock") \in Place /\ Unless("notify") \in Place
      /\ Unless("send") \in Place /\ Unless("callback") \in Place
      /\ {"asleep", "test", "sent", "loop", "gone"} \subseteq Place
  BY DEF AfterTest, Unless, Place
<1>1. CASE LoopTest(w)
  <2>1. Goto(w, "loop", Unless("relock"))
    BY <1>1 DEF LoopTest, Unless
  <2>2. QED
    BY <1>0, <1>1, <2>1, <1>p, GotoMoves
<1>2. CASE TestPredicate(w)
  <2>1. Goto(w, "relock", AfterTest)
    BY <1>2 DEF TestPredicate, AfterTest
  <2>2. QED
    BY <1>0, <1>2, <2>1, <1>p, GotoMoves
<1>3. CASE Sleep(w)
  <2>1. Goto(w, "sleep", "asleep")
    BY <1>3 DEF Sleep
  <2>2. QED
    BY <1>0, <1>3, <2>1, <1>p, GotoMoves
<1>4. CASE Take(w)
  <2>1. Goto(w, "take", Unless("notify"))
    BY <1>4 DEF Take, Unless
  <2>2. QED
    BY <1>0, <1>4, <2>1, <1>p, GotoMoves
<1>5. CASE NotifyNext(w)
  <2>1. GotoAndNotifyOne(w, "notify", "test")
    BY <1>5 DEF NotifyNext
  <2>2. QED
    BY <1>0, <1>5, <2>1, <1>p, NotifyMoves
<1>6. CASE TestBeforeSend(w)
  <2>1. Goto(w, "test", Unless("send"))
    BY <1>6 DEF TestBeforeSend, Unless
  <2>2. QED
    BY <1>0, <1>6, <2>1, <1>p, GotoMoves
<1>7. CASE Send(w)
  <2>1. Goto(w, "send", "sent")
    BY <1>7 DEF Send
  <2>2. QED
    BY <1>0, <1>7, <2>1, <1>p, GotoMoves
<1>8. CASE TestAfterSend(w)
  <2>1. Goto(w, "sent", Unless("callback"))
    BY <1>8 DEF TestAfterSend, Unless
  <2>2. QED
    BY <1>0, <1>8, <2>1, <1>p, GotoMoves
<1>9. CASE Callback(w)
  <2>1. Goto(w, "callback", "loop")
    BY <1>9 DEF Callback
  <2>2. QED
    BY <1>0, <1>9, <2>1, <1>p, GotoMoves
<1>10. CASE Exit(w)
  <2>1. GotoAndNotifyOne(w, "exit", "gone")
    BY <1>10 DEF Exit
  <2>2. QED
    BY <1>0, <1>10, <2>1, <1>p, NotifyMoves
<1>11. QED
  BY <1>1, <1>2, <1>3, <1>4, <1>5, <1>6, <1>7, <1>8, <1>9, <1>10 DEF WorkerStep

-----------------------------------------------------------------------------
(* The invariant, one lemma per conjunct that needs an argument.             *)

\* What every kind of step does to the places of the threads.
LEMMA InvPlaces ==
    ASSUME PoolInv, NEW t \in Thread, NEW from, NEW to, Step(t, from, to)
    PROVE  /\ at' \in [Thread -> Place] /\ at[t] = from /\ at'[t] = to
           /\ \A u \in Thread \ {t} :
                at'[u] = at[u] \/ (at[u] = "asleep" /\ at'[u] = "relock" /\ u \notin waitSet')
BY DEF Step, Moves

LEMMA NextTypeOK ==
    ASSUME PoolInv, Next
    PROVE  TypeOK'
<1>0. TypeOK /\ PlacesInv /\ NeverPopsEmpty /\ Main \in Thread /\ Worker \subseteq Thread
  BY DEF PoolInv, Thread
<1>1. CASE MainStep
  <2>1. at' \in [Thread -> Place]
    BY <1>1, MainSteps DEF Step, Moves
  <2>2. waitSet' \subseteq Thread
    BY <1>0, <1>1, MainSteps DEF Push, Stop, TypeOK
  <2>3. queue' \in Seq(Request)
    BY <1>0, <1>1 DEF MainStep, Push, Notify, Stop, NotifyAll, AwaitThreads, runVars, TypeOK
  <2>4. QED
    BY <1>0, <1>1, <2>1, <2>2, <2>3
    DEF MainStep, Push, Notify, Stop, NotifyAll, AwaitThreads, runVars, TypeOK
<1>2. CASE \E w \in Worker : WorkerStep(w)
  <2>1. PICK w \in Worker : WorkerStep(w)
    BY <1>2
  <2>2. at' \in [Thread -> Place]
    BY <2>1, WorkerSteps DEF Step, Moves
  <2>3. CASE Take(w)
    <3>1. queue' \in Seq(Request) /\ pkg' \in [Worker -> SUBSET Request]
      BY SMTT(30), <1>0, <2>3 DEF Take, Goto, NeverPopsEmpty, TypeOK
    <3>2. QED
      BY <1>0, <2>2, <2>3, <3>1 DEF Take, TypeOK
  <2>4. CASE ~Take(w)
    <3>1. waitSet' \subseteq Thread
      BY <1>0, <2>1, <2>4, WorkerSteps
      DEF LoopTest, TestPredicate, Sleep, TestBeforeSend, Send, TestAfterSend, Callback, TypeOK
    <3>2. QED
      BY <1>0, <2>1, <2>2, <2>4, <3>1
      DEF WorkerStep, LoopTest, TestPredicate, Sleep, NotifyNext, TestBeforeSend, Send,
          TestAfterSend, Callback, Exit, runVars, TypeOK
  <2>5. QED
    BY <2>3, <2>4
<1>3. CASE \E t \in Thread : SpuriousWake(t)
  BY <1>0, <1>3 DEF SpuriousWake, Goto, runVars, TypeOK, Place
<1>4. CASE Quiet
  BY <1>0, <1>4 DEF Quiet, vars, TypeOK
<1>5. QED
  BY <1>1, <1>2, <1>3, <1>4 DEF Next

LEMMA NextLockInv ==
    ASSUME PoolInv, Next
    PROVE  LockInv'
<1>0. LockInv /\ TypeOK /\ PlacesInv /\ Main \in Thread /\ Worker \subseteq Thread
  BY DEF PoolInv, Thread
<1>1. CASE MainStep
  <2>1. \A w \in Worker : at'[w] \in {"take", "sleep"} => at[w] \in {"take", "sleep"}
    BY <1>0, <1>1, MainSteps DEF Step, Moves
  <2>2. lock' = lock
    BY <1>1 DEF MainStep, Push, Notify, Stop, NotifyAll, AwaitThreads
  <2>3. QED
    BY <1>0, <2>1, <2>2 DEF LockInv
<1>2. CASE \E w \in Worker : WorkerStep(w)
  <2>1. PICK w \in Worker : WorkerStep(w)
    BY <1>2
  <2>2. \A v \in Worker \ {w} : at'[v] \in {"take", "sleep"} => at[v] \in {"take", "sleep"}
    BY <1>0, <2>1, WorkerSteps DEF Step, Moves
  <2>3. CASE TestPredicate(w)
    BY <1>0, <2>2, <2>3 DEF TestPredicate, Free, LockInv
  <2>4. CASE Sleep(w) \/ Take(w)
    <3>1. lock = w /\ at'[w] \notin {"take", "sleep"}
      BY <1>0, <2>4 DEF Sleep, Take, Goto, LockInv, TypeOK
    <3>2. QED
      BY <1>0, <2>2, <3>1 DEF LockInv
  <2>5. CASE ~TestPredicate(w) /\ ~Sleep(w) /\ ~Take(w)
    <3>1. at'[w] \notin {"take", "sleep"}
      BY <2>1, <2>5, WorkerSteps DEF Step, Moves, Unless
    <3>2. lock' = lock
      BY <2>1, <2>5
      DEF WorkerStep, LoopTest, NotifyNext, TestBeforeSend, Send, TestAfterSend, Callback, Exit
    <3>3. QED
      BY <1>0, <2>2, <3>1, <3>2 DEF LockInv
  <2>6. QED
    BY <2>3, <2>4, <2>5
<1>3. CASE \E t \in Thread : SpuriousWake(t)
  BY <1>0, <1>3 DEF SpuriousWake, Goto, LockInv, TypeOK
<1>4. CASE Quiet
  BY <1>0, <1>4 DEF Quiet, vars, LockInv
<1>5. QED
  BY <1>1, <1>2, <1>3, <1>4 DEF Next

LEMMA NextNeverPopsEmpty ==
    ASSUME PoolInv, Next
    PROVE  NeverPopsEmpty'
<1>0. /\ NeverPopsEmpty /\ LockInv /\ TypeOK /\ PlacesInv
      /\ Main \in Thread /\ Worker \subseteq Thread
  BY DEF PoolInv, Thread
<1>1. CASE MainStep
  <2>1. \A w \in Worker : at'[w] = "take" => at[w] = "take"
    BY <1>0, <1>1, MainSteps DEF Step, Moves
  <2>2. (queue # <<>> => queue' # <<>>) /\ (stopped => stopped')
    BY <1>0, <1>1
    DEF MainStep, Push, Notify, Stop, NotifyAll, AwaitThreads, runVars, TypeOK
  <2>3. QED
    BY <1>0, <2>1, <2>2 DEF NeverPopsEmpty
<1>2. CASE \E w \in Worker : WorkerStep(w)
  <2>1. PICK w \in Worker : WorkerStep(w)
    BY <1>2
  <2>2. \A v \in Worker \ {w} : at'[v] = "take" => at[v] = "take"
    BY <1>0, <2>1, WorkerSteps DEF Step, Moves
  <2>3. CASE Take(w)
    <3>1. \A v \in Worker : at'[v] # "take"
      BY <1>0, <2>2, <2>3 DEF Take, Goto, LockInv, TypeOK
    <3>2. QED
      BY <3>1 DEF NeverPopsEmpty
  <2>4. CASE ~Take(w)
    <3>1. queue' = queue /\ stopped' = stopped
      BY <2>1, <2>4
      DEF WorkerStep, LoopTest, TestPredicate, Sleep, NotifyNext, TestBeforeSend, Send,
          TestAfterSend, Callback, Exit, runVars
    <3>2. at'[w] = "take" => queue # <<>> \/ stopped
      BY <2>1, <2>4, WorkerSteps DEF Step, Moves, Unless, AfterTest
    <3>3. QED
      BY <1>0, <2>2, <3>1, <3>2 DEF NeverPopsEmpty
  <2>5. QED
    BY <2>3, <2>4
<1>3. CASE \E t \in Thread : SpuriousWake(t)
  BY <1>0, <1>3 DEF SpuriousWake, Goto, runVars, NeverPopsEmpty, TypeOK
<1>4. CASE Quiet
  BY <1>0, <1>4 DEF Quiet, vars, NeverPopsEmpty
<1>5. QED
  BY <1>1, <1>2, <1>3, <1>4 DEF Next

LEMMA NextPlacesInv ==
    ASSUME PoolInv, Next
    PROVE  PlacesInv'
<1>0. /\ TypeOK /\ PlacesInv /\ Main \in Thread /\ Worker \subseteq Thread
      /\ \A w \in Worker : w # Main
  BY DEF PoolInv, Thread
<1>1. CASE MainStep
  <2>1. /\ \A w \in Worker : at[w] = "gone" => at'[w] = "gone"
        /\ threads' = threads
    BY <1>0, <1>1, MainSteps
    DEF Step, Moves, Push, Notify, Stop, NotifyAll, AwaitThreads
  <2>2. \A t \in waitSet' : at'[t] = "asleep"
    BY <1>0, <1>1, MainSteps DEF Step, Moves, PlacesInv, TypeOK, Push, Stop
  <2>3. \/ at[Main] = "idle" /\ at'[Main] = "notify" /\ stopped' = stopped
        \/ at[Main] = "notify" /\ at'[Main] = "idle" /\ stopped' = stopped
        \/ at[Main] = "idle" /\ at'[Main] = "notifyAll" /\ stopped' = TRUE
        \/ /\ at[Main] \in {"notifyAll", "relock"} /\ stopped' = stopped
           /\ \/ at'[Main] \in {"relock", "asleep"}
              \/ at'[Main] = "returned" /\ threads = {}
    BY <1>1, MainSteps DEF Step, Moves, Push, Notify, Stop, NotifyAll, AwaitThreads, runVars
  <2>4. at'[Main] \in {"idle", "notify", "notifyAll", "relock", "asleep", "returned"}
    BY <2>3
  <2>5. stopped' <=> at'[Main] \notin {"idle", "notify"}
    BY <1>0, <2>3 DEF PlacesInv
  <2>6. at'[Main] = "returned" => threads = {}
    BY <2>3
  <2>7. QED
    BY <1>0, <2>1, <2>2, <2>4, <2>5, <2>6 DEF PlacesInv
<1>2. CASE \E w \in Worker : WorkerStep(w)
  <2>1. PICK w \in Worker : WorkerStep(w)
    BY <1>2
  <2>2. at[w] # "gone" /\ at[w] # "asleep"
    BY <2>1, WorkerSteps DEF Step
  <2>3. \A t \in waitSet' : at'[t] = "asleep"
    BY <1>0, <2>1, <2>2, WorkerSteps
    DEF Step, Moves, PlacesInv, TypeOK, LoopTest, TestPredicate, Sleep, Take, TestBeforeSend,
        Send, TestAfterSend, Callback
  <2>4. stopped' = stopped
    BY <2>1
    DEF WorkerStep, LoopTest, TestPredicate, Sleep, Take, NotifyNext, TestBeforeSend, Send,
        TestAfterSend, Callback, Exit
  <2>5. /\ \A v \in Worker : v \in threads' \/ at'[v] = "gone"
        /\ threads' \subseteq threads
    BY <1>0, <2>1, <2>2, WorkerSteps
    DEF Step, Moves, PlacesInv, LoopTest, TestPredicate, Sleep, Take, NotifyNext,
        TestBeforeSend, Send, TestAfterSend, Callback, Exit
  <2>6. at'[Main] = at[Main] \/ (at[Main] = "asleep" /\ at'[Main] = "relock")
    BY <1>0, <2>1, WorkerSteps DEF Step, Moves
  <2>7. QED
    BY <1>0, <2>3, <2>4, <2>5, <2>6 DEF PlacesInv
<1>3. CASE \E t \in Thread : SpuriousWake(t)
  <2>1. PICK t \in Thread : SpuriousWake(t)
    BY <1>3
  <2>2. /\ at[t] = "asleep" /\ at'[t] = "relock"
        /\ \A u \in Thread \ {t} : at'[u] = at[u]
        /\ waitSet' = waitSet \ {t} /\ UNCHANGED <<threads, stopped>>
    BY <1>0, <2>1 DEF SpuriousWake, Goto, TypeOK
  <2>3. QED
    BY <1>0, <2>2 DEF PlacesInv, TypeOK
<1>4. CASE Quiet
  BY <1>0, <1>4 DEF Quiet, vars, PlacesInv
<1>5. QED
  BY <1>1, <1>2, <1>3, <1>4 DEF Next

LEMMA NextHeldInv ==
    ASSUME PoolInv, Next
    PROVE  HeldInv'
<1>0. TypeOK /\ HeldInv /\ PlacesInv /\ NeverPopsEmpty /\ Main \in Thread
  BY DEF PoolInv, Thread
<1>1. CASE \E r \in Request : Push(r)
  <2>1. PICK r \in Request : Push(r)
    BY <1>1
  <2>2. /\ r \notin submitted /\ submitted' = submitted \cup {r}
        /\ queue' = Append(queue, r) /\ UNCHANGED <<pkg, answered>>
    BY <2>1 DEF Push
  <2>3. queue \in Seq(Request) /\ Len(queue) \in Nat /\ DOMAIN queue = 1 .. Len(queue)
    BY <1>0 DEF TypeOK
  <2>4. /\ DOMAIN queue' = 1 .. Len(queue) + 1
        /\ queue'[Len(queue) + 1] = r
        /\ \A i \in DOMAIN queue : queue'[i] = queue[i]
    BY <2>2, <2>3
  <2>5. \A i \in DOMAIN queue' : i \in DOMAIN queue \/ (i = Len(queue) + 1 /\ queue'[i] = r)
    BY <2>3, <2>4
  <2>6. \A i \in DOMAIN queue : queue[i] # r /\ queue[i] \in submitted
    BY <1>0, <2>2 DEF HeldInv
  <2>7. answered \subseteq submitted
    BY <1>0 DEF HeldInv
  <2>8. /\ \A i \in DOMAIN queue' : queue'[i] \in submitted' \ answered'
        /\ \A i, j \in DOMAIN queue' : queue'[i] = queue'[j] => i = j
        /\ \A w \in Worker, i \in DOMAIN queue' : queue'[i] \notin pkg[w]
    BY <1>0, <2>2, <2>4, <2>5, <2>6, <2>7 DEF HeldInv
  <2>9. QED
    BY <1>0, <2>2, <2>8 DEF HeldInv
<1>2. CASE \E w \in Worker : Take(w) /\ ~stopped
  <2>1. PICK w \in Worker : Take(w) /\ ~stopped
    BY <1>2
  <2>2. /\ queue # <<>> /\ queue' = Tail(queue) /\ pkg' = [pkg EXCEPT ![w] = {Head(queue)}]
        /\ UNCHANGED <<submitted, answered>>
    BY <1>0, <2>1 DEF Take, Goto, NeverPopsEmpty
  <2>3. queue \in Seq(Request) /\ Len(queue) \in Nat /\ DOMAIN queue = 1 .. Len(queue)
    BY <1>0 DEF TypeOK
  <2>4. /\ 1 \in DOMAIN queue /\ Head(queue) = queue[1] /\ queue[1] \in Request
        /\ \A i \in DOMAIN queue' :
             i + 1 \in DOMAIN queue /\ i + 1 # 1 /\ queue'[i] = queue[i + 1]
        /\ DOMAIN queue' \subseteq Nat
    BY <2>2, <2>3
  <2>5. /\ pkg'[w] = {queue[1]}
        /\ \A v \in Worker \ {w} : pkg'[v] = pkg[v]
    BY <1>0, <2>2, <2>4 DEF TypeOK
  <2>6. \A i, j \in DOMAIN queue' : queue'[i] = queue'[j] => i = j
    <3>1. SUFFICES ASSUME NEW i \in DOMAIN queue', NEW j \in DOMAIN queue',
                          queue'[i] = queue'[j]
                   PROVE  i = j
      OBVIOUS
    <3>2. i + 1 = j + 1
      BY <1>0, <2>4, <3>1 DEF HeldInv
    <3>3. QED
      BY <2>4, <3>2
  <2>7. \A i \in DOMAIN queue' : queue'[i] \in submitted \ answered /\ queue'[i] # queue[1]
    BY <1>0, <2>4 DEF HeldInv
  <2>8. \A v \in Worker, i \in DOMAIN queue' : queue'[i] \notin pkg'[v]
    BY <1>0, <2>4, <2>5, <2>7 DEF HeldInv
  <2>9. \A u, v \in Worker : u # v => pkg'[u] \cap pkg'[v] = {}
    BY <1>0, <2>4, <2>5 DEF HeldInv
  <2>10. /\ \A v \in Worker : pkg'[v] \subseteq submitted \ answered
         /\ \A v \in Worker : pkg'[v] = {} \/ \E r \in Request : pkg'[v] = {r}
    BY <1>0, <2>4, <2>5 DEF HeldInv
  <2>11. answered' \subseteq submitted'
    BY <1>0, <2>2 DEF HeldInv
  <2>12. \A i \in DOMAIN queue' : queue'[i] \in submitted' \ answered'
    BY <2>2, <2>7
  <2>13. \A v \in Worker : pkg'[v] \subseteq submitted' \ answered'
    BY <2>2, <2>10
  <2>14. QED
    BY <2>6, <2>8, <2>9, <2>10, <2>11, <2>12, <2>13 DEF HeldInv
<1>3. CASE \E w \in Worker : Callback(w)
  <2>1. PICK w \in Worker : Callback(w)
    BY <1>3
  <2>2. /\ answered' = answered \cup pkg[w] /\ pkg' = [pkg EXCEPT ![w] = {}]
        /\ UNCHANGED <<queue, submitted>>
    BY <2>1 DEF Callback
  <2>3. pkg'[w] = {} /\ \A v \in Worker \ {w} : pkg'[v] = pkg[v]
    BY <1>0, <2>2 DEF TypeOK
  <2>4. QED
    BY <1>0, <2>2, <2>3 DEF HeldInv
<1>4. CASE \E w \in Worker : /\ pkg' = pkg \/ pkg' = [pkg EXCEPT ![w] = {}]
                             /\ UNCHANGED <<queue, submitted, answered>>
  <2>1. PICK w \in Worker : pkg' = pkg \/ pkg' = [pkg EXCEPT ![w] = {}]
    BY <1>4
  <2>2. \A v \in Worker : pkg'[v] = pkg[v] \/ pkg'[v] = {}
    BY <1>0, <2>1 DEF TypeOK
  <2>3. QED
    BY <1>0, <1>4, <2>2 DEF HeldInv
<1>5. CASE UNCHANGED runVars
  BY <1>0, <1>5 DEF runVars, HeldInv
<1>6. CASE MainStep
  BY <1>1, <1>5, <1>6 DEF MainStep, Notify, Stop, NotifyAll, AwaitThreads
<1>7. CASE \E w \in Worker : WorkerStep(w)
  BY <1>2, <1>3, <1>4, <1>5, <1>7
  DEF WorkerStep, LoopTest, TestPredicate, Sleep, Take, NotifyNext, TestBeforeSend, Send,
      TestAfterSend, Exit
<1>8. CASE (\E t \in Thread : SpuriousWake(t)) \/ Quiet
  BY <1>5, <1>8 DEF SpuriousWake, Quiet, vars, runVars
<1>9. QED
  BY <1>6, <1>7, <1>8 DEF Next

LEMMA InitPoolInv == Init => PoolInv
<1> SUFFICES ASSUME Init PROVE PoolInv
  OBVIOUS
<1>1. /\ at = [t \in Thread |-> IF t = Main THEN "idle" ELSE "loop"]
      /\ queue = <<>> /\ pkg = [w \in Worker |-> {}]
      /\ waitSet = {} /\ threads = Worker /\ stopped = FALSE
      /\ submitted = {} /\ answered = {}
  BY DEF Init
<1>2. at[Main] = "idle" /\ \A w \in Worker : at[w] = "loop"
  BY <1>1 DEF Thread
<1>3. at \in [Thread -> Place]
  BY <1>1 DEF Place
<1>4. TypeOK
  <2>1. <<>> \in Seq(Request) /\ [w \in Worker |-> {}] \in [Worker -> SUBSET Request]
    OBVIOUS
  <2>2. queue \in Seq(Request) /\ pkg \in [Worker -> SUBSET Request]
    BY <1>1, <2>1
  <2>3. waitSet \subseteq Thread /\ threads \subseteq Worker /\ submitted \subseteq Request
    BY <1>1
  <2>4. stopped \in BOOLEAN
    BY <1>1
  <2>5. QED
    BY <1>3, <2>2, <2>3, <2>4 DEF TypeOK
<1>5. PlacesInv
  BY <1>1, <1>2 DEF PlacesInv
<1>6. LockInv /\ NeverPopsEmpty
  BY <1>2 DEF LockInv, NeverPopsEmpty
<1>7. DOMAIN queue = {}
  BY <1>1
<1>8. HeldInv
  BY <1>1, <1>7 DEF HeldInv
<1>9. QED
  BY <1>4, <1>5, <1>6, <1>8 DEF PoolInv

LEMMA NextPoolInv == PoolInv /\ [Next]_vars => PoolInv'
<1> SUFFICES ASSUME PoolInv, [Next]_vars PROVE PoolInv'
  OBVIOUS
<1>1. CASE Next
  BY <1>1, NextTypeOK, NextLockInv, NextNeverPopsEmpty, NextPlacesInv, NextHeldInv DEF PoolInv
<1>2. CASE UNCHANGED vars
  BY <1>2 DEF vars, PoolInv, TypeOK, LockInv, NeverPopsEmpty, PlacesInv, HeldInv
<1>3. QED
  BY <1>1, <1>2

\* No thread takes a request from an empty queue, whatever wakes it.
THEOREM NeverPopsEmptyHolds == Spec => []NeverPopsEmpty
<1>1. PoolInv => NeverPopsEmpty
  BY DEF PoolInv
<1>2. QED
  BY <1>1, InitPoolInv, NextPoolInv, PTL DEF Spec

\* A queued request is in one place: one queue position or one worker's hand.
THEOREM RequestsHeldOnceHolds == Spec => []RequestsHeldOnce
<1>1. PoolInv => RequestsHeldOnce
  BY DEF PoolInv, HeldInv, RequestsHeldOnce
<1>2. QED
  BY <1>1, InitPoolInv, NextPoolInv, PTL DEF Spec

-----------------------------------------------------------------------------
(* No wakeup is lost.                                                        *)

\* What sleeps on cv_ can be woken.
SleepersWait == \A t \in Thread : at[t] = "asleep" => t \in waitSet

\* A worker about to sleep saw an empty queue, and holds m_, so that it is still
\* empty.
NoticeInv ==
    /\ \A w \in Worker : at[w] = "sleep" => queue = <<>>
    /\ SleepersWait
    /\ WorkIsNoticed

\* Who is told of the queue: its places in WorkIsNoticed.
Looking == {"loop", "relock", "take", "notify"}

LEMMA WakeKeepsSleepers ==
    ASSUME TypeOK, SleepersWait, NEW t \in Thread, NEW from, NEW to, to # "asleep",
           NEW ts, GotoAndWake(t, from, to, ts)
    PROVE  SleepersWait'
BY DEF GotoAndWake, SleepersWait, TypeOK

LEMMA NotifyKeepsSleepers ==
    ASSUME TypeOK, SleepersWait, NEW t \in Thread, NEW from, NEW to, to # "asleep",
           GotoAndNotifyOne(t, from, to)
    PROVE  SleepersWait'
BY WakeKeepsSleepers DEF GotoAndNotifyOne

\* While the pool is open only workers sleep: notify_one wakes one, if one sleeps.
LEMMA NotifyIsHeard ==
    ASSUME PoolInv, SleepersWait, ~stopped, NEW t \in Thread, NEW from, NEW to,
           from # "asleep", to # "asleep", GotoAndNotifyOne(t, from, to),
           NEW w \in Worker, at'[w] = "asleep"
    PROVE  \E v \in Worker : at'[v] = "relock"
<1>1. /\ w \in Thread /\ Main \in Thread /\ TypeOK /\ PlacesInv
      /\ at[Main] # "asleep"
  BY DEF Thread, PoolInv, PlacesInv
<1>2. CASE waitSet = {}
  <2>1. \E ts : GotoAndWake(t, from, to, ts)
    BY DEF GotoAndNotifyOne
  <2>2. SleepersWait' /\ waitSet' = {}
    BY <1>1, <1>2, <2>1, WakeKeepsSleepers DEF GotoAndWake
  <2>3. QED
    BY <1>1, <2>2 DEF SleepersWait
<1>3. CASE waitSet # {}
  <2>1. PICK u \in waitSet : GotoAndWake(t, from, to, {u})
    BY <1>3 DEF GotoAndNotifyOne
  <2>2. u # Main /\ u # t /\ u \in Thread
    BY <1>1, <2>1 DEF PlacesInv, TypeOK, GotoAndWake
  <2>3. at'[u] = "relock" /\ u \in Worker
    BY <2>1, <2>2 DEF GotoAndWake, Thread
  <2>4. QED
    BY <2>3
<1>4. QED
  BY <1>2, <1>3

LEMMA NextSleepersWait ==
    ASSUME PoolInv, SleepersWait, Next
    PROVE  SleepersWait'
<1>0. TypeOK /\ Main \in Thread /\ Worker \subseteq Thread
  BY DEF PoolInv, Thread
<1>1. CASE MainStep
  <2>1. CASE Notify
    BY <1>0, <2>1, NotifyKeepsSleepers DEF Notify
  <2>2. CASE NotifyAll
    BY <1>0, <2>2, WakeKeepsSleepers DEF NotifyAll
  <2>3. CASE (\E r \in Request : Push(r)) \/ Stop \/ AwaitThreads
    BY <1>0, <2>3 DEF Push, Stop, AwaitThreads, Goto, SleepersWait, TypeOK
  <2>4. QED
    BY <1>1, <2>1, <2>2, <2>3 DEF MainStep
<1>2. CASE \E w \in Worker : WorkerStep(w)
  <2>1. PICK w \in Worker : WorkerStep(w)
    BY <1>2
  <2>2. CASE NotifyNext(w) \/ Exit(w)
    BY <1>0, <2>2, NotifyKeepsSleepers DEF NotifyNext, Exit
  <2>3. CASE LoopTest(w) \/ TestPredicate(w) \/ Sleep(w) \/ Take(w)
    BY <1>0, <2>3 DEF LoopTest, TestPredicate, Sleep, Take, Goto, SleepersWait, TypeOK
  <2>4. CASE TestBeforeSend(w) \/ Send(w) \/ TestAfterSend(w) \/ Callback(w)
    BY <1>0, <2>4
    DEF TestBeforeSend, Send, TestAfterSend, Callback, Goto, SleepersWait, TypeOK
  <2>5. QED
    BY <2>1, <2>2, <2>3, <2>4 DEF WorkerStep
<1>3. CASE \E t \in Thread : SpuriousWake(t)
  BY <1>0, <1>3 DEF SpuriousWake, Goto, SleepersWait, TypeOK
<1>4. CASE Quiet
  BY <1>4 DEF Quiet, vars, SleepersWait
<1>5. QED
  BY <1>1, <1>2, <1>3, <1>4 DEF Next

\* m_ keeps the queue as the worker saw it until it sleeps.
LEMMA NextSleepSawNothing ==
    ASSUME PoolInv, Next, \A w \in Worker : at[w] = "sleep" => queue = <<>>,
           NEW w \in Worker, at'[w] = "sleep"
    PROVE  queue' = <<>>
<1>0. /\ TypeOK /\ LockInv /\ PlacesInv /\ NeverPopsEmpty
      /\ Main \in Thread /\ Worker \subseteq Thread /\ Main \notin Worker
  BY DEF PoolInv, Thread
<1>1. CASE MainStep
  <2>1. at[w] = "sleep"
    BY <1>0, <1>1, MainSteps DEF Step, Moves
  <2>2. queue = <<>> /\ ~Free
    BY <1>0, <2>1 DEF LockInv, Free
  <2>3. QED
    BY <1>1, <2>2 DEF MainStep, Push, Notify, Stop, NotifyAll, AwaitThreads, runVars
<1>2. CASE \E v \in Worker : WorkerStep(v)
  <2>1. PICK v \in Worker : WorkerStep(v)
    BY <1>2
  <2>2. CASE Take(v)
    <3>1. at'[w] = "sleep" => at[w] = "sleep" /\ w # v
      BY <1>0, <2>2 DEF Take, Goto, TypeOK
    <3>2. QED
      BY <1>0, <2>2, <3>1 DEF Take, Goto, LockInv
  <2>3. CASE ~Take(v)
    <3>1. queue' = queue
      BY <2>1, <2>3
      DEF WorkerStep, LoopTest, TestPredicate, Sleep, NotifyNext, TestBeforeSend, Send,
          TestAfterSend, Callback, Exit, runVars
    <3>2. at[w] = "sleep" \/ queue = <<>>
      BY <1>0, <2>1, <2>3, WorkerSteps DEF Step, Moves, Unless, AfterTest
    <3>3. QED
      BY <3>1, <3>2
  <2>4. QED
    BY <2>2, <2>3
<1>3. CASE \E t \in Thread : SpuriousWake(t)
  BY <1>0, <1>3 DEF SpuriousWake, Goto, runVars, TypeOK
<1>4. CASE Quiet
  BY <1>4 DEF Quiet, vars
<1>5. QED
  BY <1>1, <1>2, <1>3, <1>4 DEF Next

LEMMA NextWorkIsNoticed ==
    ASSUME PoolInv, NoticeInv, Next
    PROVE  WorkIsNoticed'
<1> SUFFICES ASSUME queue' # <<>>, ~stopped', NEW s \in Worker, at'[s] = "asleep"
             PROVE  at'[Main] = "notify" \/ \E v \in Worker : at'[v] \in Looking
  BY DEF WorkIsNoticed, Looking
<1>0. /\ TypeOK /\ LockInv /\ PlacesInv /\ SleepersWait
      /\ Main \in Thread /\ Worker \subseteq Thread /\ Main \notin Worker
  BY DEF PoolInv, NoticeInv, Thread
<1>1. CASE MainStep
  <2>1. CASE Notify
    <3>1. /\ GotoAndNotifyOne(Main, "notify", "idle") /\ ~stopped
      BY <2>1 DEF Notify
    <3>2. QED
      BY <1>0, <3>1, NotifyIsHeard DEF Looking
  <2>2. CASE \E r \in Request : Push(r)
    BY <1>0, <2>2 DEF Push, Goto, TypeOK
  <2>3. CASE Stop
    BY <2>3 DEF Stop
  <2>4. CASE NotifyAll \/ AwaitThreads
    BY <1>0, <2>4 DEF NotifyAll, AwaitThreads, GotoAndWake, Goto, PlacesInv
  <2>5. QED
    BY <1>1, <2>1, <2>2, <2>3, <2>4 DEF MainStep
<1>2. CASE \E w \in Worker : WorkerStep(w)
  <2>1. PICK w \in Worker : WorkerStep(w)
    BY <1>2
  <2>2. ~stopped
    BY <2>1
    DEF WorkerStep, LoopTest, TestPredicate, Sleep, Take, NotifyNext, TestBeforeSend, Send,
        TestAfterSend, Callback, Exit
  <2>3. CASE NotifyNext(w) \/ Exit(w)
    BY <1>0, <2>2, <2>3, NotifyIsHeard DEF NotifyNext, Exit, Looking
  <2>4. CASE Sleep(w)
    BY <1>0, <2>4 DEF Sleep, Goto, runVars, NoticeInv
  <2>5. CASE LoopTest(w) \/ Take(w) \/ Callback(w) \/ TestPredicate(w)
    <3>1. at'[w] \in Looking
      <4>1. CASE LoopTest(w) \/ Take(w) \/ Callback(w)
        BY <1>0, <2>2, <4>1 DEF LoopTest, Take, Callback, Goto, Looking, TypeOK
      <4>2. CASE TestPredicate(w)
        BY <1>0, <4>2 DEF TestPredicate, Goto, Looking, TypeOK, runVars
      <4>3. QED
        BY <2>5, <4>1, <4>2
    <3>2. QED
      BY <3>1
  <2>6. CASE TestBeforeSend(w) \/ Send(w) \/ TestAfterSend(w)
    <3>1. /\ at[w] \notin Looking \cup {"asleep"} /\ at'[w] # "asleep" /\ queue' = queue
          /\ at' = [at EXCEPT ![w] = at'[w]]
      BY <1>0, <2>6
      DEF TestBeforeSend, Send, TestAfterSend, Goto, runVars, TypeOK, Looking
    <3>2. s # w /\ at[s] = "asleep"
      BY <1>0, <3>1 DEF TypeOK
    <3>3. at[Main] = "notify" \/ \E v \in Worker : at[v] \in Looking
      BY <2>2, <3>1, <3>2 DEF NoticeInv, WorkIsNoticed, Looking
    <3>4. QED
      BY <1>0, <3>1, <3>3 DEF TypeOK
  <2>7. QED
    BY <2>1, <2>3, <2>4, <2>5, <2>6 DEF WorkerStep
<1>3. CASE \E t \in Thread : SpuriousWake(t)
  <2>1. PICK t \in Thread : SpuriousWake(t)
    BY <1>3
  <2>2. /\ at[t] = "asleep" /\ at'[t] = "relock" /\ ~stopped
    BY <1>0, <2>1 DEF SpuriousWake, Goto, TypeOK
  <2>3. t \in Worker
    BY <1>0, <2>2 DEF PlacesInv, Thread
  <2>4. QED
    BY <2>2, <2>3 DEF Looking
<1>4. CASE Quiet
  BY <1>4 DEF Quiet, vars, NoticeInv, WorkIsNoticed, Looking
<1>5. QED
  BY <1>1, <1>2, <1>3, <1>4 DEF Next

LEMMA InitNoticeInv == Init => NoticeInv
BY DEF Init, NoticeInv, SleepersWait, WorkIsNoticed, Thread

LEMMA NextNoticeInv == PoolInv /\ NoticeInv /\ [Next]_vars => NoticeInv'
<1> SUFFICES ASSUME PoolInv, NoticeInv, [Next]_vars PROVE NoticeInv'
  OBVIOUS
<1>1. CASE Next
  BY <1>1, NextSleepersWait, NextSleepSawNothing, NextWorkIsNoticed DEF NoticeInv
<1>2. CASE UNCHANGED vars
  BY <1>2 DEF vars, NoticeInv, SleepersWait, WorkIsNoticed
<1>3. QED
  BY <1>1, <1>2

\* No wakeup is lost while the pool is open, for any number of workers: when work
\* is queued and a worker sleeps, another one will still look at the queue.
THEOREM WorkIsNoticedHolds == Spec => []WorkIsNoticed
<1>1. NoticeInv => WorkIsNoticed
  BY DEF NoticeInv
<1>2. QED
  BY <1>1, InitPoolInv, NextPoolInv, InitNoticeInv, NextNoticeInv, PTL DEF Spec

-----------------------------------------------------------------------------
(* The refinement: every step is a step of RequestPool or leaves it alone.   *)

\* What RequestPool calls open, closing and closed, from the main thread's place.
LEMMA PhaseOfMain ==
    ASSUME PoolInv
    PROVE  /\ at[Main] \in {"idle", "notify"} => Phase = "open"
           /\ at[Main] \in {"notifyAll", "relock", "asleep"} => Phase = "closing"
           /\ at[Main] = "returned" => Phase = "closed"
BY DEF PoolInv, PlacesInv, Phase

LEMMA MainRefines ==
    ASSUME PoolInv, PoolInv', MainStep
    PROVE  [Pool!Next]_(Pool!poolVars)
<1>p. /\ at'[Main] \in {"idle", "notify"} => Phase' = "open"
      /\ at'[Main] \in {"notifyAll", "relock", "asleep"} => Phase' = "closing"
      /\ at'[Main] = "returned" => Phase' = "closed"
  BY DEF PoolInv, PlacesInv, Phase
<1>1. CASE Step(Main, "idle", "notify") /\ \E r \in Request : Push(r)
  <2>1. PICK r \in Request : Push(r)
    BY <1>1
  <2>2. Phase = "open" /\ Phase' = "open"
    BY <1>1, <1>p, PhaseOfMain DEF Step, Moves
  <2>3. Pool!Submit(r)
    BY <2>1, <2>2 DEF Push, Pool!Submit
  <2>4. QED
    BY <2>3 DEF Pool!Next
<1>2. CASE Step(Main, "idle", "notifyAll") /\ Stop
  <2>1. Phase = "open" /\ Phase' = "closing"
    BY <1>2, <1>p, PhaseOfMain DEF Step, Moves
  <2>2. Pool!Close
    BY <1>2, <2>1 DEF Stop, runVars, Pool!Close
  <2>3. QED
    BY <2>2 DEF Pool!Next
<1>3. CASE Step(Main, "relock", "returned") /\ AwaitThreads
  <2>1. Phase = "closing" /\ Phase' = "closed"
    BY <1>3, <1>p, PhaseOfMain DEF Step, Moves
  <2>2. Pool!Closed
    BY <1>3, <2>1 DEF AwaitThreads, runVars, Pool!Closed
  <2>3. QED
    BY <2>2 DEF Pool!Next
<1>4. CASE \/ Step(Main, "notify", "idle") /\ Notify
           \/ Step(Main, "notifyAll", "relock") /\ NotifyAll
           \/ Step(Main, "relock", "asleep") /\ AwaitThreads
  <2>1. Phase' = Phase
    BY <1>4, <1>p, PhaseOfMain DEF Step, Moves
  <2>2. UNCHANGED <<submitted, answered>>
    BY <1>4 DEF Notify, NotifyAll, AwaitThreads, runVars
  <2>3. QED
    BY <2>1, <2>2 DEF Pool!poolVars
<1>5. QED
  BY <1>1, <1>2, <1>3, <1>4, MainSteps

LEMMA WorkerRefines ==
    ASSUME PoolInv, NEW w \in Worker, WorkerStep(w)
    PROVE  [Pool!Next]_(Pool!poolVars)
<1>0. TypeOK /\ PlacesInv /\ HeldInv /\ Main \in Thread /\ w # Main
  BY DEF PoolInv, Thread
<1>1. at'[Main] = at[Main] \/ (at[Main] = "asleep" /\ at'[Main] = "relock")
  BY <1>0, WorkerSteps DEF Step, Moves
<1>2. stopped' = stopped
  BY DEF WorkerStep, LoopTest, TestPredicate, Sleep, Take, NotifyNext, TestBeforeSend, Send,
         TestAfterSend, Callback, Exit
<1>3. Phase' = Phase
  BY <1>1, <1>2 DEF Phase
<1>4. CASE Callback(w)
  <2>1. at[w] = "callback" /\ answered' = answered \cup pkg[w] /\ submitted' = submitted
    BY <1>4 DEF Callback, Goto
  <2>2. CASE pkg[w] = {}
    BY <1>3, <2>1, <2>2 DEF Pool!poolVars
  <2>3. CASE \E r \in Request : pkg[w] = {r}
    <3>1. PICK r \in Request : pkg[w] = {r}
      BY <2>3
    <3>2. r \in submitted \ answered
      BY <1>0, <3>1 DEF HeldInv
    <3>3. threads # {}
      BY <1>0, <2>1 DEF PlacesInv
    <3>4. Phase # "closed"
      BY <1>0, <3>3 DEF PlacesInv, Phase
    <3>5. Pool!Answer(r)
      BY <1>3, <2>1, <3>1, <3>2, <3>4 DEF Pool!Answer
    <3>6. QED
      BY <3>5 DEF Pool!Next
  <2>4. QED
    BY <1>0, <2>2, <2>3 DEF HeldInv
<1>5. CASE ~Callback(w)
  <2>1. UNCHANGED <<submitted, answered>>
    BY <1>5
    DEF WorkerStep, LoopTest, TestPredicate, Sleep, Take, NotifyNext, TestBeforeSend, Send,
        TestAfterSend, Exit, runVars
  <2>2. QED
    BY <1>3, <2>1 DEF Pool!poolVars
<1>6. QED
  BY <1>4, <1>5

LEMMA NextRefines ==
    ASSUME PoolInv, PoolInv', [Next]_vars
    PROVE  [Pool!Next]_(Pool!poolVars)
<1>0. TypeOK /\ PlacesInv /\ Main \in Thread
  BY DEF PoolInv, Thread
<1>1. CASE MainStep
  BY <1>1, MainRefines
<1>2. CASE \E w \in Worker : WorkerStep(w)
  BY <1>2, WorkerRefines
<1>3. CASE \E t \in Thread : SpuriousWake(t)
  <2>1. PICK t \in Thread : SpuriousWake(t)
    BY <1>3
  <2>2. /\ at'[Main] = at[Main] \/ (at[Main] = "asleep" /\ at'[Main] = "relock")
        /\ UNCHANGED <<stopped, submitted, answered>>
    BY <1>0, <2>1 DEF SpuriousWake, Goto, runVars, TypeOK
  <2>3. Phase' = Phase
    BY <2>2 DEF Phase
  <2>4. QED
    BY <2>2, <2>3 DEF Pool!poolVars
<1>4. CASE UNCHANGED vars
  BY <1>4 DEF vars, Phase, Pool!poolVars
<1>5. QED
  BY <1>1, <1>2, <1>3, <1>4 DEF Next, Quiet

LEMMA InitRefines == Init => Pool!Init
BY DEF Init, Phase, Pool!Init

\* Requests are answered at most once, only when made, and none after ~Async returned.
THEOREM ImplementsPoolHolds == Spec => ImplementsPool
<1>1. PoolInv /\ PoolInv' /\ [Next]_vars => [Pool!Next]_(Pool!poolVars)
  BY NextRefines
<1>2. QED
  BY <1>1, InitRefines, InitPoolInv, NextPoolInv, PTL DEF Spec, ImplementsPool, Pool!Spec

=============================================================================
