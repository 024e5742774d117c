------------------------------ MODULE RequestPool ------------------------------
(***************************************************************************)
(* What fetch_async needs of the thread pool (sion::Async, the Run with a  *)
(* callback): a submitted request is answered, by a call of its callback,  *)
(* at most once, and always if the pool stays open; once the pool is       *)
(* closed, that is once its destructor has returned, no callback is called.*)
(***************************************************************************)
CONSTANT Request

VARIABLES
    submitted,  \* requests given to the pool
    answered,   \* requests whose callback was called
    phase       \* "open", "closing" while the destructor runs, "closed"

poolVars == <<submitted, answered, phase>>

Init ==
    /\ submitted = {} /\ answered = {}
    /\ phase = "open"

Submit(r) ==
    /\ phase = "open" /\ r \notin submitted
    /\ submitted' = submitted \cup {r}
    /\ UNCHANGED <<answered, phase>>

Answer(r) ==
    /\ phase # "closed" /\ r \in submitted \ answered
    /\ answered' = answered \cup {r}
    /\ UNCHANGED <<submitted, phase>>

Close ==
    /\ phase = "open" /\ phase' = "closing"
    /\ UNCHANGED <<submitted, answered>>

Closed ==
    /\ phase = "closing" /\ phase' = "closed"
    /\ UNCHANGED <<submitted, answered>>

Next == (\E r \in Request : Submit(r) \/ Answer(r)) \/ Close \/ Closed

Spec == Init /\ [][Next]_poolVars

FairSpec == Spec /\ \A r \in Request : WF_poolVars(phase = "open" /\ Answer(r))
===============================================================================
