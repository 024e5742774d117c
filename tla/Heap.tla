---------------------------------- MODULE Heap ----------------------------------
(***************************************************************************)
(* What the collector promises (src/src/MemManger.cc, used by scripts as   *)
(* gc() and by the event loop): collecting is one step that frees exactly  *)
(* the objects and arrays that cannot be reached from gc_root.             *)
(***************************************************************************)
CONSTANTS Node, Root

VARIABLES
    live,   \* the allocated objects and arrays
    refs    \* what each of them refers to

heapVars == <<live, refs>>

\* The nodes in every set that has the root and is closed under references.
ReachableFrom(root, r) ==
    {n \in Node : \A S \in SUBSET Node :
        root \in S /\ (\A m \in S : r[m] \subseteq S) => n \in S}

Init == live = {Root} /\ refs = [n \in Node |-> {}]

Allocate(n) ==
    /\ n \notin live /\ live' = live \cup {n}
    /\ UNCHANGED refs

Link(m, n) ==
    /\ m \in live /\ n \in live
    /\ refs' = [refs EXCEPT ![m] = @ \cup {n}]
    /\ UNCHANGED live

Unlink(m, n) ==
    /\ m \in live
    /\ refs' = [refs EXCEPT ![m] = @ \ {n}]
    /\ UNCHANGED live

Collect ==
    /\ live' = live \cap ReachableFrom(Root, refs)
    /\ refs' = [n \in Node |-> IF n \in live' THEN refs[n] ELSE {}]

Next ==
    \/ \E n \in Node : Allocate(n)
    \/ \E m, n \in Node : Link(m, n) \/ Unlink(m, n)
    \/ Collect

Spec == Init /\ [][Next]_heapVars
===============================================================================
