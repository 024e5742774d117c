---------------------------- MODULE CollectorProofs ----------------------------
(***************************************************************************)
(* The collector implements Heap for any number of objects and arrays: the *)
(* marks never leave what is reachable, what was scanned only refers to    *)
(* marked nodes, and so, when both work lists are empty, the marked nodes  *)
(* are exactly the reachable ones.                                         *)
(***************************************************************************)
EXTENDS Collector, TLAPS

Reachable == Collected!ReachableFrom(Root, refs)

\* What is not allocated refers to nothing, and outside of the sweep the lists
\* are what is allocated and no reference leaves it.
HeapInv ==
    /\ Root \in live
    /\ \A n \in Node : n \notin live => refs[n] = {}
    /\ pc \in {"mutate", "mark"} =>
         /\ objQueue = live \cap Obj /\ vecQueue = live \cap Arr
         /\ \A n \in Node : refs[n] \subseteq live

MutateInv == pc = "mutate" => Marked = {} /\ objSet = {} /\ arrSet = {}

\* The invariant of the marking loop.
MarkInv ==
    pc = "mark" =>
        /\ Root \in reachObj /\ Marked \subseteq Reachable /\ Marked \subseteq live
        /\ objSet \subseteq reachObj /\ arrSet \subseteq reachArr
        /\ \A n \in Marked \ (objSet \cup arrSet) : refs[n] \subseteq Marked

SweepInv ==
    pc \in {"sweepArrays", "rebuild"} =>
        /\ objSet = {} /\ arrSet = {}
        /\ Root \in reachObj /\ Marked \subseteq live /\ live \cap Obj = reachObj
        /\ \A n \in Marked : refs[n] \subseteq Marked
        /\ IF pc = "sweepArrays" THEN vecQueue = live \cap Arr ELSE live \cap Arr = reachArr

GcInv == TypeOK /\ HeapInv /\ MutateInv /\ MarkInv /\ SweepInv

USE AddressAssumption

-----------------------------------------------------------------------------
(* Reachability. *)

LEMMA RootReachable == Root \in Reachable
BY DEF Reachable, Collected!ReachableFrom, Node

LEMMA ReachableClosed ==
    ASSUME refs \in [Node -> SUBSET Node], NEW m \in Reachable
    PROVE  refs[m] \subseteq Reachable
<1>1. m \in Node
  BY DEF Reachable, Collected!ReachableFrom
<1>2. SUFFICES ASSUME NEW n \in refs[m] PROVE n \in Reachable
  OBVIOUS
<1>3. n \in Node
  BY <1>1, <1>2
<1>4. ASSUME NEW S \in SUBSET Node, Root \in S, \A k \in S : refs[k] \subseteq S
      PROVE  n \in S
  <2>1. m \in S
    BY <1>4 DEF Reachable, Collected!ReachableFrom
  <2>2. QED
    BY <1>2, <1>4, <2>1
<1>5. QED
  BY <1>3, <1>4 DEF Reachable, Collected!ReachableFrom

LEMMA ReachableMinimal ==
    ASSUME NEW S \in SUBSET Node, Root \in S, \A m \in S : refs[m] \subseteq S
    PROVE  Reachable \subseteq S
BY DEF Reachable, Collected!ReachableFrom

\* When nothing is left to scan, the marks are what is reachable.
LEMMA MarksExact ==
    ASSUME GcInv, pc = "mark", objSet = {}, arrSet = {}
    PROVE  Marked = Reachable
<1>1. Marked \in SUBSET Node
  BY DEF GcInv, TypeOK, Marked, Node
<1>2. Root \in Marked /\ Marked \subseteq Reachable /\ \A n \in Marked : refs[n] \subseteq Marked
  BY DEF GcInv, MarkInv, Marked
<1>3. QED
  BY <1>1, <1>2, ReachableMinimal

-----------------------------------------------------------------------------
(* The invariant. *)

LEMMA InitGcInv == Init => GcInv
<1> SUFFICES ASSUME Init PROVE GcInv
  OBVIOUS
<1>1. TypeOK
  BY DEF Init, TypeOK, Node
<1>2. HeapInv
  BY DEF Init, HeapInv, Node
<1>3. MutateInv /\ MarkInv /\ SweepInv
  BY DEF Init, MutateInv, MarkInv, SweepInv, Marked
<1>4. QED
  BY <1>1, <1>2, <1>3 DEF GcInv

LEMMA MutateGcInv ==
    ASSUME GcInv, Mutate
    PROVE  GcInv'
<1>0. /\ TypeOK /\ HeapInv /\ MutateInv /\ pc = "mutate" /\ pc' = "mutate"
      /\ UNCHANGED markVars
  BY DEF GcInv, Mutate, AllocateObject, AllocateArray, Link, Unlink
<1>1. MutateInv' /\ MarkInv' /\ SweepInv'
  BY <1>0 DEF MutateInv, MarkInv, SweepInv, Marked, markVars
<1>2. CASE \E n \in Node : AllocateObject(n) \/ AllocateArray(n)
  <2>1. PICK n \in Node : AllocateObject(n) \/ AllocateArray(n)
    BY <1>2
  <2>2. TypeOK'
    BY <1>0, <2>1 DEF AllocateObject, AllocateArray, TypeOK, markVars, Node
  <2>3. HeapInv'
    BY <1>0, <2>1 DEF AllocateObject, AllocateArray, HeapInv, Node
  <2>4. QED
    BY <1>1, <2>2, <2>3 DEF GcInv
<1>3. CASE \E m, n \in Node : Link(m, n) \/ Unlink(m, n)
  <2>1. PICK m \in Node, n \in Node : Link(m, n) \/ Unlink(m, n)
    BY <1>3
  <2>2. /\ refs' \in [Node -> SUBSET Node] /\ m \in live
        /\ \A k \in Node \ {m} : refs'[k] = refs[k]
        /\ refs'[m] \subseteq refs[m] \cup {n} /\ (n \in live \/ refs'[m] \subseteq refs[m])
        /\ UNCHANGED <<live, objQueue, vecQueue>>
    BY <1>0, <2>1 DEF Link, Unlink, TypeOK, queueVars
  <2>3. TypeOK'
    BY <1>0, <2>2 DEF TypeOK, markVars
  <2>4. HeapInv'
    BY <1>0, <2>2 DEF HeapInv
  <2>5. QED
    BY <1>1, <2>3, <2>4 DEF GcInv
<1>4. QED
  BY <1>2, <1>3 DEF Mutate

LEMMA StartGcInv ==
    ASSUME GcInv, Start
    PROVE  GcInv'
<1>0. /\ TypeOK /\ HeapInv /\ MutateInv /\ pc = "mutate" /\ pc' = "mark"
      /\ UNCHANGED <<live, refs, objQueue, vecQueue>>
  BY DEF GcInv, Start, queueVars
<1>1. reachObj' = {Root} /\ reachArr' = {} /\ objSet' = {Root} /\ arrSet' = {}
  BY <1>0 DEF Start, MutateInv, Marked
<1>2. TypeOK' /\ HeapInv'
  BY <1>0, <1>1 DEF TypeOK, HeapInv
<1>3. Reachable' = Reachable
  BY <1>0 DEF Reachable, Collected!ReachableFrom
<1>4. MutateInv' /\ MarkInv' /\ SweepInv'
  BY <1>0, <1>1, <1>3, RootReachable DEF MutateInv, MarkInv, SweepInv, Marked, HeapInv
<1>5. QED
  BY <1>2, <1>4 DEF GcInv

LEMMA ScanGcInv ==
    ASSUME GcInv, NEW k \in Node, ScanObject(k) \/ ScanArray(k)
    PROVE  GcInv'
<1>0. /\ TypeOK /\ HeapInv /\ MarkInv /\ pc = "mark" /\ pc' = "mark"
      /\ k \in objSet \cup arrSet /\ Reach(k, refs[k])
      /\ UNCHANGED <<live, refs, objQueue, vecQueue>>
  BY DEF GcInv, ScanObject, ScanArray, queueVars
<1>1. k \in Marked /\ k \in Reachable /\ refs[k] \subseteq Obj \cup Arr
  BY <1>0 DEF MarkInv, TypeOK, Marked, Node
<1>2. /\ Marked' = Marked \cup refs[k]
      /\ objSet' \cup arrSet' = ((objSet \cup arrSet) \ {k}) \cup (refs[k] \ Marked)
  BY <1>0, <1>1 DEF Reach, Marked, TypeOK, MarkInv
<1>3. TypeOK'
  BY <1>0, <1>1 DEF TypeOK, Reach
<1>4. HeapInv'
  BY <1>0 DEF HeapInv
<1>5. Reachable' = Reachable
  BY <1>0 DEF Reachable, Collected!ReachableFrom
<1>6. refs[k] \subseteq Reachable /\ refs[k] \subseteq live
  BY <1>0, <1>1, ReachableClosed DEF TypeOK, HeapInv
<1>7. MarkInv'
  <2>1. Root \in reachObj' /\ objSet' \subseteq reachObj' /\ arrSet' \subseteq reachArr'
    BY <1>0 DEF MarkInv, Reach
  <2>2. Marked' \subseteq Reachable' /\ Marked' \subseteq live'
    BY <1>0, <1>2, <1>5, <1>6 DEF MarkInv
  <2>3. \A n \in Marked' \ (objSet' \cup arrSet') : refs'[n] \subseteq Marked'
    BY <1>0, <1>2 DEF MarkInv
  <2>4. QED
    BY <2>1, <2>2, <2>3 DEF MarkInv
<1>8. MutateInv' /\ SweepInv'
  BY <1>0 DEF MutateInv, SweepInv
<1>9. QED
  BY <1>3, <1>4, <1>7, <1>8 DEF GcInv

\* Deleting nodes that are not marked leaves the marked ones as they are.
LEMMA DeleteFacts ==
    ASSUME TypeOK, HeapInv, NEW nodes, Delete(nodes)
    PROVE  /\ live' = live \ nodes /\ refs' \in [Node -> SUBSET Node]
           /\ \A n \in Node : n \notin nodes => refs'[n] = refs[n]
           /\ \A n \in Node : n \notin live' => refs'[n] = {}
BY DEF Delete, TypeOK, HeapInv

LEMMA SweepObjectsGcInv ==
    ASSUME GcInv, SweepObjects
    PROVE  GcInv'
<1>0. /\ TypeOK /\ HeapInv /\ MarkInv /\ pc = "mark" /\ pc' = "sweepArrays"
      /\ objSet = {} /\ arrSet = {} /\ Delete(objQueue \ reachObj)
      /\ UNCHANGED <<objQueue, vecQueue, reachObj, reachArr, objSet, arrSet>>
  BY DEF GcInv, SweepObjects, queueVars, markVars
<1>1. /\ live' = live \ (objQueue \ reachObj) /\ refs' \in [Node -> SUBSET Node]
      /\ \A n \in Node : n \notin objQueue \ reachObj => refs'[n] = refs[n]
      /\ \A n \in Node : n \notin live' => refs'[n] = {}
  BY <1>0, DeleteFacts
<1>2. /\ objQueue = live \cap Obj /\ reachObj \subseteq Obj /\ reachArr \subseteq Arr
      /\ Marked \subseteq live /\ Root \in reachObj
  BY <1>0 DEF HeapInv, TypeOK, MarkInv
<1>3. /\ live' \cap Obj = reachObj /\ live' \cap Arr = live \cap Arr
      /\ Marked \subseteq live' /\ Marked' = Marked
  BY <1>0, <1>1, <1>2 DEF Marked
<1>4. \A n \in Marked : refs'[n] \subseteq Marked
  BY <1>0, <1>1, <1>2 DEF MarkInv, Marked, Node
<1>5. TypeOK'
  BY <1>0, <1>1 DEF TypeOK
<1>6. HeapInv'
  BY <1>0, <1>1, <1>2 DEF HeapInv
<1>7. SweepInv'
  BY <1>0, <1>2, <1>3, <1>4 DEF SweepInv, HeapInv
<1>8. MutateInv' /\ MarkInv'
  BY <1>0 DEF MutateInv, MarkInv
<1>9. QED
  BY <1>5, <1>6, <1>7, <1>8 DEF GcInv

LEMMA SweepArraysGcInv ==
    ASSUME GcInv, SweepArrays
    PROVE  GcInv'
<1>0. /\ TypeOK /\ HeapInv /\ SweepInv /\ pc = "sweepArrays" /\ pc' = "rebuild"
      /\ Delete(vecQueue \ reachArr)
      /\ UNCHANGED <<objQueue, vecQueue, reachObj, reachArr, objSet, arrSet>>
  BY DEF GcInv, SweepArrays, queueVars, markVars
<1>1. /\ live' = live \ (vecQueue \ reachArr) /\ refs' \in [Node -> SUBSET Node]
      /\ \A n \in Node : n \notin vecQueue \ reachArr => refs'[n] = refs[n]
      /\ \A n \in Node : n \notin live' => refs'[n] = {}
  BY <1>0, DeleteFacts
<1>2. /\ vecQueue = live \cap Arr /\ reachObj \subseteq Obj /\ reachArr \subseteq Arr
      /\ live \cap Obj = reachObj /\ Marked \subseteq live /\ Root \in reachObj
  BY <1>0 DEF SweepInv, TypeOK
<1>3. /\ live' \cap Obj = reachObj /\ live' \cap Arr = reachArr
      /\ Marked \subseteq live' /\ Marked' = Marked
  BY <1>0, <1>1, <1>2 DEF Marked
<1>4. \A n \in Marked : refs'[n] \subseteq Marked
  BY <1>0, <1>1, <1>2 DEF SweepInv, Marked, Node
<1>5. TypeOK'
  BY <1>0, <1>1 DEF TypeOK
<1>6. HeapInv'
  BY <1>0, <1>1, <1>2, <1>3 DEF HeapInv
<1>7. SweepInv'
  BY <1>0, <1>2, <1>3, <1>4 DEF SweepInv
<1>8. MutateInv' /\ MarkInv'
  BY <1>0 DEF MutateInv, MarkInv
<1>9. QED
  BY <1>5, <1>6, <1>7, <1>8 DEF GcInv

LEMMA RebuildGcInv ==
    ASSUME GcInv, Rebuild
    PROVE  GcInv' /\ live = Marked
<1>0. /\ TypeOK /\ HeapInv /\ SweepInv /\ pc = "rebuild" /\ pc' = "mutate"
      /\ objQueue' = reachObj /\ vecQueue' = reachArr /\ reachObj' = {} /\ reachArr' = {}
      /\ UNCHANGED <<live, refs, objSet, arrSet>>
  BY DEF GcInv, Rebuild
<1>1. /\ live \cap Obj = reachObj /\ live \cap Arr = reachArr /\ live \subseteq Obj \cup Arr
      /\ objSet = {} /\ arrSet = {}
  BY <1>0 DEF SweepInv, TypeOK, Node
<1>2. live = Marked
  BY <1>1 DEF Marked
<1>3. \A n \in Node : refs[n] \subseteq live
  BY <1>0, <1>2 DEF SweepInv, HeapInv
<1>4. HeapInv'
  BY <1>0, <1>1, <1>3 DEF HeapInv
<1>5. TypeOK'
  BY <1>0 DEF TypeOK
<1>6. MutateInv' /\ MarkInv' /\ SweepInv'
  BY <1>0, <1>1 DEF MutateInv, MarkInv, SweepInv, Marked
<1>7. QED
  BY <1>2, <1>4, <1>5, <1>6 DEF GcInv

LEMMA NextGcInv == GcInv /\ [Next]_vars => GcInv'
<1> SUFFICES ASSUME GcInv, [Next]_vars PROVE GcInv'
  OBVIOUS
<1>1. CASE UNCHANGED vars
  BY <1>1
  DEF vars, GcInv, TypeOK, HeapInv, MutateInv, MarkInv, SweepInv, Marked, Reachable,
      Collected!ReachableFrom
<1>2. CASE Next
  BY <1>2, MutateGcInv, StartGcInv, ScanGcInv, SweepObjectsGcInv, SweepArraysGcInv, RebuildGcInv
  DEF Next, Collecting
<1>3. QED
  BY <1>1, <1>2

\* The lists of the allocator hold what is allocated whenever scripts run.
THEOREM QueuesListLiveHolds == Spec => []QueuesListLive
<1>1. GcInv => QueuesListLive
  BY DEF GcInv, HeapInv, QueuesListLive, TypeOK, Node
<1>2. QED
  BY <1>1, InitGcInv, NextGcInv, PTL DEF Spec

\* No allocated node refers to a freed one whenever scripts run.
THEOREM NoDanglingHolds == Spec => []NoDangling
<1>1. GcInv => NoDangling
  BY DEF GcInv, HeapInv, NoDangling, TypeOK
<1>2. QED
  BY <1>1, InitGcInv, NextGcInv, PTL DEF Spec

-----------------------------------------------------------------------------
(* The refinement: the sweep of the objects is the abstract collection.      *)

RefsForScripts == [n \in Node |-> IF n \in LiveForScripts THEN refs[n] ELSE {}]

LEMMA MutateRefines ==
    ASSUME GcInv, GcInv', Mutate
    PROVE  Collected!Next
<1>0. /\ pc = "mutate" /\ pc' = "mutate" /\ LiveForScripts = live /\ LiveForScripts' = live'
      /\ TypeOK /\ HeapInv /\ TypeOK' /\ HeapInv'
  BY DEF GcInv, Mutate, AllocateObject, AllocateArray, Link, Unlink, LiveForScripts
<1>1. RefsForScripts = refs /\ RefsForScripts' = refs'
  BY <1>0 DEF RefsForScripts, HeapInv, TypeOK
<1>2. CASE \E n \in Node : AllocateObject(n) \/ AllocateArray(n)
  <2>1. PICK n \in Node : AllocateObject(n) \/ AllocateArray(n)
    BY <1>2
  <2>2. n \notin live /\ live' = live \cup {n} /\ refs' = refs
    BY <2>1 DEF AllocateObject, AllocateArray
  <2>3. Collected!Allocate(n)
    BY <1>0, <1>1, <2>2 DEF Collected!Allocate, RefsForScripts
  <2>4. QED
    BY <2>3 DEF Collected!Next
<1>3. CASE \E m, n \in Node : Link(m, n)
  <2>1. PICK m \in Node, n \in Node : Link(m, n)
    BY <1>3
  <2>2. m \in live /\ n \in live /\ live' = live /\ refs' = [refs EXCEPT ![m] = @ \cup {n}]
    BY <2>1 DEF Link
  <2>3. Collected!Link(m, n)
    BY <1>0, <1>1, <2>2 DEF Collected!Link, RefsForScripts
  <2>4. QED
    BY <2>3 DEF Collected!Next
<1>4. CASE \E m, n \in Node : Unlink(m, n)
  <2>1. PICK m \in Node, n \in Node : Unlink(m, n)
    BY <1>4
  <2>2. m \in live /\ live' = live /\ refs' = [refs EXCEPT ![m] = @ \ {n}]
    BY <2>1 DEF Unlink
  <2>3. Collected!Unlink(m, n)
    BY <1>0, <1>1, <2>2 DEF Collected!Unlink, RefsForScripts
  <2>4. QED
    BY <2>3 DEF Collected!Next
<1>5. QED
  BY <1>2, <1>3, <1>4 DEF Mutate

LEMMA SweepRefines ==
    ASSUME GcInv, GcInv', SweepObjects
    PROVE  Collected!Collect
<1>0. /\ pc = "mark" /\ pc' = "sweepArrays" /\ objSet = {} /\ arrSet = {}
      /\ Delete(objQueue \ reachObj) /\ UNCHANGED <<reachObj, reachArr>>
      /\ TypeOK /\ HeapInv /\ MarkInv
  BY DEF GcInv, SweepObjects, markVars
<1>1. LiveForScripts = live /\ LiveForScripts' = Marked /\ Marked' = Marked
  BY <1>0 DEF LiveForScripts, Marked
<1>2. RefsForScripts = refs
  BY <1>0, <1>1 DEF RefsForScripts, HeapInv, TypeOK
<1>3. Marked = Reachable /\ Marked \subseteq live /\ Marked \subseteq Node
  BY <1>0, MarksExact DEF MarkInv, Marked, TypeOK, Node
<1>4. LiveForScripts' = LiveForScripts \cap Collected!ReachableFrom(Root, RefsForScripts)
  BY <1>1, <1>2, <1>3 DEF Reachable
<1>5. \A n \in Marked : refs'[n] = refs[n]
  BY <1>0, <1>3, DeleteFacts DEF Marked, TypeOK
<1>6. RefsForScripts' = [n \in Node |-> IF n \in LiveForScripts' THEN RefsForScripts[n] ELSE {}]
  BY <1>1, <1>2, <1>5 DEF RefsForScripts
<1>7. QED
  BY <1>4, <1>6 DEF Collected!Collect, RefsForScripts

LEMMA OtherStepsStutter ==
    ASSUME GcInv, GcInv', Start \/ Collecting, ~SweepObjects
    PROVE  UNCHANGED <<LiveForScripts, RefsForScripts>>
<1>1. CASE Start \/ \E n \in Node : ScanObject(n) \/ ScanArray(n)
  BY <1>1 DEF Start, ScanObject, ScanArray, LiveForScripts, RefsForScripts
<1>2. CASE SweepArrays
  <2>1. /\ pc = "sweepArrays" /\ pc' = "rebuild" /\ Delete(vecQueue \ reachArr)
        /\ UNCHANGED <<reachObj, reachArr>> /\ TypeOK /\ HeapInv
        /\ vecQueue \subseteq Arr /\ Marked \subseteq Node
    BY <1>2 DEF SweepArrays, markVars, GcInv, TypeOK, Marked, Node
  <2>2. LiveForScripts = Marked /\ LiveForScripts' = Marked
    BY <2>1 DEF LiveForScripts, Marked
  <2>3. \A n \in Marked : refs'[n] = refs[n]
    BY <2>1, DeleteFacts DEF Marked, TypeOK
  <2>4. QED
    BY <2>2, <2>3 DEF RefsForScripts
<1>3. CASE Rebuild
  <2>1. pc = "rebuild" /\ pc' = "mutate" /\ UNCHANGED <<live, refs>> /\ live = Marked
    BY <1>3, RebuildGcInv DEF Rebuild
  <2>2. LiveForScripts = Marked /\ LiveForScripts' = Marked
    BY <2>1 DEF LiveForScripts
  <2>3. QED
    BY <2>1, <2>2 DEF RefsForScripts
<1>4. QED
  BY <1>1, <1>2, <1>3 DEF Collecting

LEMMA NextCollected ==
    ASSUME GcInv, GcInv', [Next]_vars
    PROVE  [Collected!Next]_(Collected!heapVars)
<1>1. CASE Mutate
  BY <1>1, MutateRefines
<1>2. CASE SweepObjects
  BY <1>2, SweepRefines DEF Collected!Next
<1>3. CASE (Start \/ Collecting) /\ ~SweepObjects
  BY <1>3, OtherStepsStutter DEF Collected!heapVars, RefsForScripts
<1>4. CASE UNCHANGED vars
  BY <1>4 DEF vars, Collected!heapVars, LiveForScripts, Marked
<1>5. QED
  BY <1>1, <1>2, <1>3, <1>4 DEF Next

LEMMA InitCollected == Init => Collected!Init
BY DEF Init, Collected!Init, LiveForScripts, Node

\* Mark and sweep frees exactly what cannot be reached from gc_root, as one step.
THEOREM ImplementsHeapHolds == Spec => ImplementsHeap
<1>1. GcInv /\ GcInv' /\ [Next]_vars => [Collected!Next]_(Collected!heapVars)
  BY NextCollected
<1>2. QED
  BY <1>1, InitCollected, InitGcInv, NextGcInv, PTL DEF Spec, ImplementsHeap, Collected!Spec

=============================================================================
