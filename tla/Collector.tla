-------------------------------- MODULE Collector --------------------------------
(***************************************************************************)
(* The collector of src/src/MemManger.cc: objects and arrays are listed    *)
(* when they are allocated (Object.cc, Array.cc), and GC marks from        *)
(* gc_root with two work lists, deletes what is listed and not marked, and *)
(* makes the marked ones the new lists.                                    *)
(*                                                                         *)
(* The work lists are sets: every node enters them once, and the order of  *)
(* their stacks decides nothing.  Between collections the interpreter      *)
(* allocates and changes references; a value that only a C++ variable      *)
(* holds counts as unreachable, as it does for the code.                   *)
(***************************************************************************)
EXTENDS Integers, FiniteSets

CONSTANTS
    Obj,        \* the addresses of objects (ObjectMap)
    Arr,        \* the addresses of arrays (ArrayVec)
    Root,       \* gc_root
    MaxRefs     \* bound: references in the heap

ASSUME AddressAssumption == Root \in Obj /\ Obj \cap Arr = {} /\ MaxRefs \in Nat

VARIABLES
    pc,         \* where GC is, or "mutate" outside of it
    live,       \* the allocated nodes
    refs,       \* what the nodes refer to
    objQueue,   \* obj_quene
    vecQueue,   \* vec_quene
    reachObj,   \* can_reach_obj
    reachArr,   \* can_reach_arr
    objSet,     \* obj_set: reached objects to scan
    arrSet      \* arr_set: reached arrays to scan

Node == Obj \cup Arr

queueVars == <<objQueue, vecQueue>>
markVars  == <<reachObj, reachArr, objSet, arrSet>>
vars == <<pc, live, refs, objQueue, vecQueue, reachObj, reachArr, objSet, arrSet>>

Init ==
    /\ pc = "mutate"
    /\ live = {Root} /\ refs = [n \in Node |-> {}]
    /\ objQueue = {Root} /\ vecQueue = {}
    /\ reachObj = {} /\ reachArr = {} /\ objSet = {} /\ arrSet = {}

-----------------------------------------------------------------------------
(* The interpreter, between collections. *)

\* The constructors of Object and Array; an address may be used again.
AllocateObject(n) ==
    /\ pc = "mutate" /\ n \in Obj \ live
    /\ live' = live \cup {n} /\ objQueue' = objQueue \cup {n}
    /\ UNCHANGED <<pc, refs, vecQueue, markVars>>

\* Mutant: the array is not listed.
AllocateArrayUnlisted(n) ==
    /\ pc = "mutate" /\ n \in Arr \ live
    /\ live' = live \cup {n}
    /\ UNCHANGED <<pc, refs, queueVars, markVars>>

AllocateArray(n) ==
    /\ pc = "mutate" /\ n \in Arr \ live
    /\ live' = live \cup {n} /\ vecQueue' = vecQueue \cup {n}
    /\ UNCHANGED <<pc, refs, objQueue, markVars>>

RefCount == Cardinality({p \in Node \X Node : p[2] \in refs[p[1]]})

\* A value is stored in an object or an array, or overwritten there.
Link(m, n) ==
    /\ pc = "mutate" /\ m \in live /\ n \in live \ refs[m] /\ RefCount < MaxRefs
    /\ refs' = [refs EXCEPT ![m] = @ \cup {n}]
    /\ UNCHANGED <<pc, live, queueVars, markVars>>

Unlink(m, n) ==
    /\ pc = "mutate" /\ m \in live /\ n \in refs[m]
    /\ refs' = [refs EXCEPT ![m] = @ \ {n}]
    /\ UNCHANGED <<pc, live, queueVars, markVars>>

-----------------------------------------------------------------------------
(* MemManger::GC and ReachObjectNode. *)

\* GC marks its root and scans from there.
Start ==
    /\ pc = "mutate" /\ pc' = "mark"
    /\ reachObj' = reachObj \cup {Root}
    /\ objSet' = {Root} /\ arrSet' = {}
    /\ UNCHANGED <<live, refs, queueVars, reachArr>>

\* Mutant: a child is followed although it was reached before.
ReachAgain(from, children) ==
    /\ reachObj' = reachObj \cup (children \cap Obj)
    /\ reachArr' = reachArr \cup (children \cap Arr)
    /\ objSet' = (objSet \ {from}) \cup (children \cap Obj)
    /\ arrSet' = (arrSet \ {from}) \cup (children \cap Arr)

\* Mutant: only the objects among the children are followed.
ReachObjectsOnly(from, children) ==
    LET newObj == (children \cap Obj) \ reachObj
    IN  /\ reachObj' = reachObj \cup newObj
        /\ objSet' = (objSet \ {from}) \cup newObj
        /\ arrSet' = arrSet \ {from}
        /\ UNCHANGED reachArr

\* The children of a node that were not reached before are, and will be scanned.
Reach(from, children) ==
    LET newObj == (children \cap Obj) \ reachObj
        newArr == (children \cap Arr) \ reachArr
    IN  /\ reachObj' = reachObj \cup newObj
        /\ reachArr' = reachArr \cup newArr
        /\ objSet' = (objSet \ {from}) \cup newObj
        /\ arrSet' = (arrSet \ {from}) \cup newArr

ScanObject(o) ==
    /\ pc = "mark" /\ o \in objSet
    /\ Reach(o, refs[o])
    /\ UNCHANGED <<pc, live, refs, queueVars>>

\* Arrays are scanned only when no object is left to scan.
ScanArray(a) ==
    /\ pc = "mark" /\ objSet = {} /\ a \in arrSet
    /\ Reach(a, refs[a])
    /\ UNCHANGED <<pc, live, refs, queueVars>>

\* delete: the memory of the nodes is given back.
Delete(nodes) ==
    /\ live' = live \ nodes
    /\ refs' = [n \in Node |-> IF n \in nodes THEN {} ELSE refs[n]]

SweepObjects ==
    /\ pc = "mark" /\ objSet = {} /\ arrSet = {} /\ pc' = "sweepArrays"
    /\ Delete(objQueue \ reachObj)
    /\ UNCHANGED <<queueVars, markVars>>

SweepArrays ==
    /\ pc = "sweepArrays" /\ pc' = "rebuild"
    /\ Delete(vecQueue \ reachArr)
    /\ UNCHANGED <<queueVars, markVars>>

\* Mutant: the marks survive the collection.
RebuildKeepMarks ==
    /\ pc = "rebuild" /\ pc' = "mutate"
    /\ objQueue' = reachObj /\ vecQueue' = reachArr
    /\ UNCHANGED <<live, refs, markVars>>

\* The reached nodes are the new lists.
Rebuild ==
    /\ pc = "rebuild" /\ pc' = "mutate"
    /\ objQueue' = reachObj /\ vecQueue' = reachArr
    /\ reachObj' = {} /\ reachArr' = {}
    /\ UNCHANGED <<live, refs, objSet, arrSet>>

-----------------------------------------------------------------------------
Mutate ==
    \/ \E n \in Node : AllocateObject(n) \/ AllocateArray(n)
    \/ \E m, n \in Node : Link(m, n) \/ Unlink(m, n)

Collecting ==
    \/ \E n \in Node : ScanObject(n) \/ ScanArray(n)
    \/ SweepObjects \/ SweepArrays \/ Rebuild

Next == Mutate \/ Start \/ Collecting

Spec == Init /\ [][Next]_vars

\* GC is a call: it runs on until it returns.
FairSpec == Spec /\ WF_vars(Collecting)

-----------------------------------------------------------------------------
(* Properties. *)

TypeOK ==
    /\ pc \in {"mutate", "mark", "sweepArrays", "rebuild"}
    /\ live \subseteq Node /\ refs \in [Node -> SUBSET Node]
    /\ objQueue \subseteq Obj /\ vecQueue \subseteq Arr
    /\ reachObj \subseteq Obj /\ reachArr \subseteq Arr
    /\ objSet \subseteq Obj /\ arrSet \subseteq Arr

\* Outside of GC the lists hold exactly what is allocated: nothing is leaked
\* for ever, and no freed pointer is left to be freed again.
QueuesListLive == pc = "mutate" => objQueue \cup vecQueue = live

\* Whatever an allocated node refers to is allocated when the interpreter runs.
NoDangling == pc = "mutate" => \A n \in live : refs[n] \subseteq live

\* Collecting is one step for the interpreter: the sweep frees exactly what
\* cannot be reached from gc_root, cycles, shared nodes and all.
Marked == reachObj \cup reachArr
LiveForScripts == IF pc \in {"mutate", "mark"} THEN live ELSE Marked

Collected ==
    INSTANCE Heap WITH
        live <- LiveForScripts,
        refs <- [n \in Node |-> IF n \in LiveForScripts THEN refs[n] ELSE {}]

ImplementsHeap == Collected!Spec

\* GC returns, on cyclic heaps too.
CollectionEnds == pc # "mutate" ~> pc = "mutate"
===============================================================================
