----------------------------- MODULE JsonProofs -----------------------------
(***************************************************************************)
(* Proofs about what Json is made of, for all values and all texts.        *)
(*                                                                         *)
(* Containers: DeepCompare is sound in every heap a script can build       *)
(* (HeapOK), by induction over the depth of its calls; CompareTrue and     *)
(* CompareElse say what one call makes of the results of those inside it.  *)
(*                                                                         *)
(* TokenFlow and JsonReader: brackets counted by kind close as nested ones *)
(* do (NestedCloses); the calls of the descent and the phrases of the      *)
(* grammar have a rank, so both recursions have a solution (ResolveIs,     *)
(* GrammarIs), and by induction over it what one accepts the other derives *)
(* (Sound, AllComplete) and brackets that are nested keep the descent      *)
(* among the tokens (AllInTokens).                                         *)
(*                                                                         *)
(* Json, the round trip: a text is cut into tokens (Lexes), as what is     *)
(* written is; the tokenizer makes these tokens of it (CutInv), and the    *)
(* descent makes the value of them, wherever they stand (ReadsAs).  By     *)
(* induction over the containers that are not on the way, what Stringify   *)
(* writes is such a text for the tree that Unfold has (TextWritten).       *)
(***************************************************************************)
EXTENDS Json, TokenizerProofs

\* The containers hold values; arrays have no keys, objects no elements.
HeapOK ==
  /\ heap \in [Refs -> [arr : Seq(Stored), obj : UNION {[K -> Stored] : K \in SUBSET Range(KeyOrder)}]]
  /\ \A r \in Refs : IF KindOf[r] = "object" THEN heap[r].arr = <<>> ELSE DOMAIN heap[r].obj = {}

LEMMA StoredRefs ==
    /\ \A x \in Stored : IsRef(x) => x.v \in Refs /\ x.t = KindOf[x.v]
    /\ \A r \in Refs : Ref(r) \in Stored /\ IsRef(Ref(r)) /\ Ref(r).v = r /\ Ref(r).t = KindOf[r]
BY ContainersAssumption DEF Stored, IsRef, Ref, Val

-----------------------------------------------------------------------------
(* The heap.                                                               *)

LEMMA InitHeapOK == CInit => HeapOK
<1> SUFFICES ASSUME CInit PROVE HeapOK
  OBVIOUS
<1> DEFINE Objects == UNION {[K -> Stored] : K \in SUBSET Range(KeyOrder)}
<1>1. <<>> \in Objects /\ <<>> \in Seq(Stored) /\ DOMAIN <<>> = {}
  <2>1. <<>> \in [{} -> Stored]
    OBVIOUS
  <2>2. QED
    BY <2>1
<1> HIDE DEF Objects
<1>2. heap \in [Refs -> [arr : Seq(Stored), obj : Objects]]
  BY <1>1 DEF CInit
<1>3. \A r \in Refs : heap[r].arr = <<>> /\ DOMAIN heap[r].obj = {}
  BY <1>1 DEF CInit
<1>4. QED
  BY <1>2, <1>3 DEF HeapOK, Objects

LEMMA SetKeyHeapOK ==
    ASSUME HeapOK, NEW r \in Refs, NEW k \in Range(KeyOrder), NEW x \in Stored, SetKey(r, k, x)
    PROVE  HeapOK'
<1> DEFINE Objects == UNION {[K -> Stored] : K \in SUBSET Range(KeyOrder)}
           o == heap[r].obj
           new == [j \in DOMAIN o \cup {k} |-> IF j = k THEN x ELSE o[j]]
<1>1. heap \in [Refs -> [arr : Seq(Stored), obj : Objects]]
  BY DEF HeapOK
<1>2. new \in Objects
  <2>1. PICK K \in SUBSET Range(KeyOrder) : o \in [K -> Stored]
    <3>1. o \in Objects
      <4> HIDE DEF Objects
      <4>1. QED
        BY <1>1
    <3>2. QED
      BY <3>1
  <2>2. new \in [K \cup {k} -> Stored]
    <3>1. DOMAIN o = K /\ \A j \in K : o[j] \in Stored
      BY <2>1
    <3>2. QED
      BY <3>1
  <2>3. K \cup {k} \in SUBSET Range(KeyOrder)
    OBVIOUS
  <2>4. QED
    BY <2>2, <2>3
<1> HIDE DEF Objects, new
<1>3. heap' = [heap EXCEPT ![r].obj = new] /\ KindOf[r] = "object"
  BY DEF SetKey, new
<1>4. heap' \in [Refs -> [arr : Seq(Stored), obj : Objects]]
  BY <1>1, <1>2, <1>3
<1>5. \A q \in Refs : /\ heap'[q].arr = heap[q].arr
                      /\ q # r => heap'[q].obj = heap[q].obj
  BY <1>1, <1>3
<1>6. \A q \in Refs : IF KindOf[q] = "object" THEN heap'[q].arr = <<>> ELSE DOMAIN heap'[q].obj = {}
  BY <1>3, <1>5 DEF HeapOK
<1>7. QED
  BY <1>4, <1>6 DEF HeapOK, Objects

LEMMA PushItemHeapOK ==
    ASSUME HeapOK, NEW r \in Refs, NEW x \in Stored, PushItem(r, x)
    PROVE  HeapOK'
<1> DEFINE Objects == UNION {[K -> Stored] : K \in SUBSET Range(KeyOrder)}
<1>1. heap \in [Refs -> [arr : Seq(Stored), obj : Objects]]
  BY DEF HeapOK
<1> HIDE DEF Objects
<1>2. heap' = [heap EXCEPT ![r].arr = Append(heap[r].arr, x)] /\ KindOf[r] = "array"
  BY <1>1 DEF PushItem
<1>3. heap' \in [Refs -> [arr : Seq(Stored), obj : Objects]]
  <2>1. heap[r] \in [arr : Seq(Stored), obj : Objects] /\ Append(heap[r].arr, x) \in Seq(Stored)
    BY <1>1
  <2>2. QED
    BY <1>1, <1>2, <2>1
<1>4. \A q \in Refs : /\ heap'[q].obj = heap[q].obj
                      /\ q # r => heap'[q].arr = heap[q].arr
  BY <1>1, <1>2
<1>5. \A q \in Refs : IF KindOf[q] = "object" THEN heap'[q].arr = <<>> ELSE DOMAIN heap'[q].obj = {}
  BY <1>2, <1>4 DEF HeapOK
<1>6. QED
  BY <1>3, <1>5 DEF HeapOK, Objects

LEMMA HeapIsOK == CSpec => []HeapOK
<1>1. HeapOK /\ [CNext]_heap => HeapOK'
  <2>1. ASSUME HeapOK, CNext PROVE HeapOK'
    BY <2>1, SetKeyHeapOK, PushItemHeapOK DEF CNext
  <2>2. ASSUME HeapOK, UNCHANGED heap PROVE HeapOK'
    BY <2>2 DEF HeapOK
  <2>3. QED
    BY <2>1, <2>2
<1>2. QED
  BY <1>1, InitHeapOK, PTL DEF CSpec

-----------------------------------------------------------------------------
(* The recursive functions.                                                *)

LEMMA DepthIsNat == Depth \in Nat /\ Depth >= 1 /\ Cardinality(Refs) \in 0..(Depth - 1)
<1>1. Cardinality(Refs) \in Nat
  BY ContainersAssumption, FS_CardinalityType
<1>2. ASSUME NEW c \in Nat
      PROVE  c * c \in Nat /\ c * c >= c
  <2>1. CASE c = 0
    BY <2>1
  <2>2. CASE c >= 1
    BY <2>2
  <2>3. QED
    BY <2>1, <2>2
<1>3. QED
  BY <1>1, <1>2 DEF Depth

\* The recursive functions are what their equations say.
LEMMA CompareRecursion ==
    \A n \in 0..Depth : Compare[n] = [x \in Stored \X Stored |-> IF n = 0 THEN "endless" ELSE CompareWith(Compare[n - 1], x[1], x[2])]
<1> DEFINE Step(n, prev) == [x \in Stored \X Stored |-> IF n = 0 THEN "endless" ELSE CompareWith(prev, x[1], x[2])]
           Chain(f, k) == f = [n \in 0..k |-> Step(n, f[n - 1])]
           Broken == {k \in 0..Depth : ~ \E f : Chain(f, k)}
<1>1. Depth \in Nat
  BY DepthIsNat
<1>2. \A a, b : Step(0, a) = Step(0, b)
  OBVIOUS
<1> HIDE DEF Step
<1>3. Broken = {}
  <2>1. SUFFICES ASSUME Broken # {} PROVE FALSE
    OBVIOUS
  <2>2. PICK k \in Broken : \A j \in Broken : k <= j
    <3>1. Broken \in SUBSET Nat
      BY <1>1
    <3> HIDE DEF Broken
    <3>2. QED
      BY <2>1, <3>1, LeastOf
  <2>3. k \in 0..Depth /\ ~ \E f : Chain(f, k)
    BY <2>2
  <2>4. CASE k = 0
    <3> DEFINE f == [n \in 0..0 |-> Step(0, 0)]
    <3>1. ASSUME NEW n \in 0..0
          PROVE  Step(0, 0) = Step(n, f[n - 1])
      BY <1>2
    <3>2. f = [n \in 0..0 |-> Step(n, f[n - 1])]
      BY <3>1
    <3>3. Chain(f, 0)
      BY <3>2
    <3>4. QED
      BY <2>3, <2>4, <3>3
  <2>5. CASE k # 0
    <3>1. k - 1 \in 0..Depth /\ ~(k <= k - 1)
      BY <1>1, <2>3, <2>5
    <3>2. k - 1 \notin Broken
      BY <2>2, <3>1
    <3>3. PICK f : Chain(f, k - 1)
      BY <3>1, <3>2
    <3>4. \A n \in 0..(k - 1) : f[n] = Step(n, f[n - 1])
      BY <3>3
    <3> DEFINE g == [n \in 0..k |-> IF n < k THEN f[n] ELSE Step(k, f[k - 1])]
    <3> HIDE DEF Chain
    <3>5. ASSUME NEW n \in 0..k
          PROVE  g[n] = Step(n, g[n - 1])
      <4>1. CASE n = 0
        <5>1. 0 \in 0..(k - 1) /\ g[0] = f[0]
          BY <1>1, <2>3, <2>5
        <5>2. QED
          BY <1>2, <3>4, <4>1, <5>1
      <4>2. CASE n # 0 /\ n < k
        <5>1. n \in 0..(k - 1) /\ g[n] = f[n] /\ n - 1 \in 0..k /\ n - 1 < k /\ g[n - 1] = f[n - 1]
          BY <2>3, <4>2
        <5>2. QED
          BY <3>4, <5>1
      <4>3. CASE n = k
        <5>1. g[k] = Step(k, f[k - 1]) /\ k - 1 \in 0..k /\ k - 1 < k /\ g[k - 1] = f[k - 1]
          BY <2>3, <2>5
        <5>2. QED
          BY <4>3, <5>1
      <4>4. QED
        BY <2>3, <4>1, <4>2, <4>3
    <3>6. g = [n \in 0..k |-> g[n]]
      OBVIOUS
    <3> HIDE DEF g
    <3>7. g = [n \in 0..k |-> Step(n, g[n - 1])]
      BY <3>5, <3>6
    <3>8. QED
      BY <2>3, <3>7 DEF Chain
  <2>6. QED
    BY <2>4, <2>5
<1>4. \E f : Chain(f, Depth)
  BY <1>1, <1>3
<1>5. Compare = CHOOSE f : Chain(f, Depth)
  BY DEF Compare, Step
<1>6. Chain(Compare, Depth)
  BY <1>4, <1>5
<1> HIDE DEF Broken
<1>7. \A n \in 0..Depth : Compare[n] = Step(n, Compare[n - 1])
  BY <1>6
<1>8. QED
  BY <1>7 DEF Step

LEMMA UnfoldedRecursion ==
    \A n \in 0..Depth : Unfolded[n] = [x \in Stored |->
      IF n = 0 THEN Leaf(x.t, <<>>)
      ELSE IF ~IsRef(x) THEN Leaf(x.t, ValueText(x))
      ELSE Tree(x.t, <<>>, [i \in 1..Len(heap[x.v].arr) |-> Unfolded[n - 1][heap[x.v].arr[i]]],
                [k \in DOMAIN heap[x.v].obj |-> Unfolded[n - 1][heap[x.v].obj[k]]])]
<1> DEFINE Step(n, prev) == [x \in Stored |->
      IF n = 0 THEN Leaf(x.t, <<>>)
      ELSE IF ~IsRef(x) THEN Leaf(x.t, ValueText(x))
      ELSE Tree(x.t, <<>>, [i \in 1..Len(heap[x.v].arr) |-> prev[heap[x.v].arr[i]]],
                [k \in DOMAIN heap[x.v].obj |-> prev[heap[x.v].obj[k]]])]
           Chain(f, k) == f = [n \in 0..k |-> Step(n, f[n - 1])]
           Broken == {k \in 0..Depth : ~ \E f : Chain(f, k)}
<1>1. Depth \in Nat
  BY DepthIsNat
<1>2. \A a, b : Step(0, a) = Step(0, b)
  OBVIOUS
<1> HIDE DEF Step
<1>3. Broken = {}
  <2>1. SUFFICES ASSUME Broken # {} PROVE FALSE
    OBVIOUS
  <2>2. PICK k \in Broken : \A j \in Broken : k <= j
    <3>1. Broken \in SUBSET Nat
      BY <1>1
    <3> HIDE DEF Broken
    <3>2. QED
      BY <2>1, <3>1, LeastOf
  <2>3. k \in 0..Depth /\ ~ \E f : Chain(f, k)
    BY <2>2
  <2>4. CASE k = 0
    <3> DEFINE f == [n \in 0..0 |-> Step(0, 0)]
    <3>1. ASSUME NEW n \in 0..0
          PROVE  Step(0, 0) = Step(n, f[n - 1])
      BY <1>2
    <3>2. f = [n \in 0..0 |-> Step(n, f[n - 1])]
      BY <3>1
    <3>3. Chain(f, 0)
      BY <3>2
    <3>4. QED
      BY <2>3, <2>4, <3>3
  <2>5. CASE k # 0
    <3>1. k - 1 \in 0..Depth /\ ~(k <= k - 1)
      BY <1>1, <2>3, <2>5
    <3>2. k - 1 \notin Broken
      BY <2>2, <3>1
    <3>3. PICK f : Chain(f, k - 1)
      BY <3>1, <3>2
    <3>4. \A n \in 0..(k - 1) : f[n] = Step(n, f[n - 1])
      BY <3>3
    <3> DEFINE g == [n \in 0..k |-> IF n < k THEN f[n] ELSE Step(k, f[k - 1])]
    <3> HIDE DEF Chain
    <3>5. ASSUME NEW n \in 0..k
          PROVE  g[n] = Step(n, g[n - 1])
      <4>1. CASE n = 0
        <5>1. 0 \in 0..(k - 1) /\ g[0] = f[0]
          BY <1>1, <2>3, <2>5
        <5>2. QED
          BY <1>2, <3>4, <4>1, <5>1
      <4>2. CASE n # 0 /\ n < k
        <5>1. n \in 0..(k - 1) /\ g[n] = f[n] /\ n - 1 \in 0..k /\ n - 1 < k /\ g[n - 1] = f[n - 1]
          BY <2>3, <4>2
        <5>2. QED
          BY <3>4, <5>1
      <4>3. CASE n = k
        <5>1. g[k] = Step(k, f[k - 1]) /\ k - 1 \in 0..k /\ k - 1 < k /\ g[k - 1] = f[k - 1]
          BY <2>3, <2>5
        <5>2. QED
          BY <4>3, <5>1
      <4>4. QED
        BY <2>3, <4>1, <4>2, <4>3
    <3>6. g = [n \in 0..k |-> g[n]]
      OBVIOUS
    <3> HIDE DEF g
    <3>7. g = [n \in 0..k |-> Step(n, g[n - 1])]
      BY <3>5, <3>6
    <3>8. QED
      BY <2>3, <3>7 DEF Chain
  <2>6. QED
    BY <2>4, <2>5
<1>4. \E f : Chain(f, Depth)
  BY <1>1, <1>3
<1>5. Unfolded = CHOOSE f : Chain(f, Depth)
  BY DEF Unfolded, Step
<1>6. Chain(Unfolded, Depth)
  BY <1>4, <1>5
<1> HIDE DEF Broken
<1>7. \A n \in 0..Depth : Unfolded[n] = Step(n, Unfolded[n - 1])
  BY <1>6
<1>8. QED
  BY <1>7 DEF Step

LEMMA FlatRecursion ==
    \A n \in 0..Depth : Flat[n] = IF n = 0 THEN {} ELSE {r \in Refs : \A x \in Held(r) : IsRef(x) => x.v \in Flat[n - 1]}
<1> DEFINE Step(n, prev) == IF n = 0 THEN {} ELSE {r \in Refs : \A x \in Held(r) : IsRef(x) => x.v \in prev}
           Chain(f, k) == f = [n \in 0..k |-> Step(n, f[n - 1])]
           Broken == {k \in 0..Depth : ~ \E f : Chain(f, k)}
<1>1. Depth \in Nat
  BY DepthIsNat
<1>2. \A a, b : Step(0, a) = Step(0, b)
  OBVIOUS
<1> HIDE DEF Step
<1>3. Broken = {}
  <2>1. SUFFICES ASSUME Broken # {} PROVE FALSE
    OBVIOUS
  <2>2. PICK k \in Broken : \A j \in Broken : k <= j
    <3>1. Broken \in SUBSET Nat
      BY <1>1
    <3> HIDE DEF Broken
    <3>2. QED
      BY <2>1, <3>1, LeastOf
  <2>3. k \in 0..Depth /\ ~ \E f : Chain(f, k)
    BY <2>2
  <2>4. CASE k = 0
    <3> DEFINE f == [n \in 0..0 |-> Step(0, 0)]
    <3>1. ASSUME NEW n \in 0..0
          PROVE  Step(0, 0) = Step(n, f[n - 1])
      BY <1>2
    <3>2. f = [n \in 0..0 |-> Step(n, f[n - 1])]
      BY <3>1
    <3>3. Chain(f, 0)
      BY <3>2
    <3>4. QED
      BY <2>3, <2>4, <3>3
  <2>5. CASE k # 0
    <3>1. k - 1 \in 0..Depth /\ ~(k <= k - 1)
      BY <1>1, <2>3, <2>5
    <3>2. k - 1 \notin Broken
      BY <2>2, <3>1
    <3>3. PICK f : Chain(f, k - 1)
      BY <3>1, <3>2
    <3>4. \A n \in 0..(k - 1) : f[n] = Step(n, f[n - 1])
      BY <3>3
    <3> DEFINE g == [n \in 0..k |-> IF n < k THEN f[n] ELSE Step(k, f[k - 1])]
    <3> HIDE DEF Chain
    <3>5. ASSUME NEW n \in 0..k
          PROVE  g[n] = Step(n, g[n - 1])
      <4>1. CASE n = 0
        <5>1. 0 \in 0..(k - 1) /\ g[0] = f[0]
          BY <1>1, <2>3, <2>5
        <5>2. QED
          BY <1>2, <3>4, <4>1, <5>1
      <4>2. CASE n # 0 /\ n < k
        <5>1. n \in 0..(k - 1) /\ g[n] = f[n] /\ n - 1 \in 0..k /\ n - 1 < k /\ g[n - 1] = f[n - 1]
          BY <2>3, <4>2
        <5>2. QED
          BY <3>4, <5>1
      <4>3. CASE n = k
        <5>1. g[k] = Step(k, f[k - 1]) /\ k - 1 \in 0..k /\ k - 1 < k /\ g[k - 1] = f[k - 1]
          BY <2>3, <2>5
        <5>2. QED
          BY <4>3, <5>1
      <4>4. QED
        BY <2>3, <4>1, <4>2, <4>3
    <3>6. g = [n \in 0..k |-> g[n]]
      OBVIOUS
    <3> HIDE DEF g
    <3>7. g = [n \in 0..k |-> Step(n, g[n - 1])]
      BY <3>5, <3>6
    <3>8. QED
      BY <2>3, <3>7 DEF Chain
  <2>6. QED
    BY <2>4, <2>5
<1>4. \E f : Chain(f, Depth)
  BY <1>1, <1>3
<1>5. Flat = CHOOSE f : Chain(f, Depth)
  BY DEF Flat, Step
<1>6. Chain(Flat, Depth)
  BY <1>4, <1>5
<1> HIDE DEF Broken
<1>7. \A n \in 0..Depth : Flat[n] = Step(n, Flat[n - 1])
  BY <1>6
<1>8. QED
  BY <1>7 DEF Step

-----------------------------------------------------------------------------
(* One call of DeepCompare.                                                *)

\* The pairs that are compared inside a comparison of two containers.
Inner(l, r) ==
  LET a == heap[l.v]
      b == heap[r.v]
  IN  {<<a.arr[i], b.arr[i]>> : i \in (1..Len(a.arr)) \cap (1..Len(b.arr))}
        \cup {<<a.obj[k], b.obj[k]>> : k \in DOMAIN a.obj \cap DOMAIN b.obj}

\* Two containers of the same kind, with the same keys or as many elements.
Alike(l, r) ==
  /\ IsRef(l) /\ IsRef(r) /\ l.t = r.t
  /\ DOMAIN heap[l.v].obj = DOMAIN heap[r.v].obj
  /\ Len(heap[l.v].arr) = Len(heap[r.v].arr)

LEMMA Elements ==
    ASSUME HeapOK, NEW x \in Stored, IsRef(x)
    PROVE  /\ heap[x.v].arr \in Seq(Stored)
           /\ \A k \in DOMAIN heap[x.v].obj : heap[x.v].obj[k] \in Stored
           /\ DOMAIN heap[x.v].obj \subseteq Range(KeyOrder)
           /\ IsFiniteSet(DOMAIN heap[x.v].obj)
           /\ x.t = "object" => heap[x.v].arr = <<>>
           /\ x.t # "object" => DOMAIN heap[x.v].obj = {}
<1>1. x.v \in Refs /\ x.t = KindOf[x.v]
  BY StoredRefs
<1> DEFINE Objects == UNION {[K -> Stored] : K \in SUBSET Range(KeyOrder)}
<1>2. heap[x.v].arr \in Seq(Stored) /\ heap[x.v].obj \in Objects
  <2>1. heap \in [Refs -> [arr : Seq(Stored), obj : Objects]]
    BY DEF HeapOK
  <2> HIDE DEF Objects
  <2>2. QED
    BY <1>1, <2>1
<1>3. PICK K \in SUBSET Range(KeyOrder) : heap[x.v].obj \in [K -> Stored]
  BY <1>2
<1>4. DOMAIN heap[x.v].obj = K /\ \A k \in K : heap[x.v].obj[k] \in Stored
  BY <1>3
<1>5. IsFiniteSet(K)
  <2>1. IsFiniteSet({KeyOrder[i] : i \in 1..Len(KeyOrder)})
    <3>1. Len(KeyOrder) \in Nat
      BY ContainersAssumption
    <3>2. IsFiniteSet(1..Len(KeyOrder))
      BY <3>1, FS_Interval
    <3> DEFINE f == [i \in 1..Len(KeyOrder) |-> KeyOrder[i]]
               T == {KeyOrder[i] : i \in 1..Len(KeyOrder)}
    <3>3. f \in Surjection(1..Len(KeyOrder), T)
      BY DEF Surjection
    <3>4. QED
      BY <3>2, <3>3, FS_Surjection
  <2>2. K \in SUBSET {KeyOrder[i] : i \in 1..Len(KeyOrder)}
    BY ContainersAssumption DEF Range
  <2>3. QED
    BY <2>1, <2>2, FS_Subset
<1>6. QED
  BY <1>1, <1>2, <1>4, <1>5 DEF HeapOK

LEMMA LeastIs ==
    ASSUME NEW n \in Nat, NEW T \in SUBSET (1..n), T # {}
    PROVE  Min(T) \in T /\ Max(T) \in T
<1>1. T \in SUBSET Nat
  OBVIOUS
<1>2. Min(T) \in T
  <2>1. PICK m \in T : \A k \in T : m <= k
    BY <1>1, LeastOf
  <2>2. QED
    BY <2>1 DEF Min
<1>3. Max(T) \in T
  <2> DEFINE U == {k \in 0..n : n - k \in T}
  <2>1. U \in SUBSET Nat /\ U # {}
    <3>1. PICK k \in T : TRUE
      OBVIOUS
    <3>2. n - k \in 0..n /\ n - (n - k) = k
      OBVIOUS
    <3>3. n - k \in U
      BY <3>1, <3>2
    <3>4. U \in SUBSET Nat
      OBVIOUS
    <3> HIDE DEF U
    <3>5. QED
      BY <3>3, <3>4
  <2>2. PICK m \in U : \A k \in U : m <= k
    BY <2>1, LeastOf
  <2>3. \A k \in T : n - m >= k
    <3>1. ASSUME NEW k \in T
          PROVE  n - k \in U /\ k \in 1..n
      <4>1. n - k \in 0..n /\ n - (n - k) = k
        OBVIOUS
      <4>2. QED
        BY <4>1
    <3>2. m \in 0..n
      BY <2>2
    <3>3. ASSUME NEW k \in T
          PROVE  n - m >= k
      <4>1. m <= n - k
        BY <2>2, <3>1
      <4> HIDE DEF U
      <4>2. QED
        BY <3>1, <3>2, <4>1
    <3>4. QED
      BY <3>3
  <2>4. n - m \in T
    BY <2>2
  <2>5. QED
    BY <2>3, <2>4 DEF Max
<1>4. QED
  BY <1>2, <1>3

LEMMA CompareTrue ==
    ASSUME HeapOK, NEW called, NEW l \in Stored, NEW r \in Stored,
           CompareWith(called, l, r) = "true"
    PROVE  \/ l.t = r.t /\ ValueText(l) = ValueText(r)
           \/ Alike(l, r) /\ \A p \in Inner(l, r) : called[p] = "true"
<1> DEFINE a == heap[l.v]
           b == heap[r.v]
           Asked(k) == IF k \in DOMAIN b.obj THEN called[<<a.obj[k], b.obj[k]>>] ELSE "thrown"
           keys == {i \in 1..Len(KeyOrder) : KeyOrder[i] \in DOMAIN a.obj /\ Asked(KeyOrder[i]) # "true"}
           items == {i \in 1..Len(a.arr) : called[<<a.arr[i], b.arr[i]>>] # "true"}
<1>1. SUFFICES ASSUME ~(l.t = r.t /\ ValueText(l) = ValueText(r))
               PROVE  Alike(l, r) /\ \A p \in Inner(l, r) : called[p] = "true"
  OBVIOUS
<1>2. l.t = r.t /\ IsRef(l) /\ IsRef(r)
  BY <1>1 DEF CompareWith, IsRef
<1>3. /\ l.t = "object" => /\ Cardinality(DOMAIN a.obj) = Cardinality(DOMAIN b.obj)
                           /\ keys # {} => Asked(KeyOrder[Min(keys)]) = "true"
      /\ l.t # "object" => /\ Len(a.arr) = Len(b.arr)
                           /\ items # {} => called[<<a.arr[Max(items)], b.arr[Max(items)]>>] = "true"
  BY <1>1, <1>2 DEF CompareWith
<1>4. Len(KeyOrder) \in Nat /\ Len(a.arr) \in Nat
  BY <1>2, Elements, ContainersAssumption
<1>5. CASE l.t = "object"
  <2>1. keys = {}
    <3>1. SUFFICES ASSUME keys # {} PROVE FALSE
      OBVIOUS
    <3>2. Min(keys) \in keys
      <4>1. keys \in SUBSET (1..Len(KeyOrder))
        OBVIOUS
      <4> HIDE DEF keys
      <4>2. QED
        BY <1>4, <3>1, <4>1, LeastIs
    <3>3. Asked(KeyOrder[Min(keys)]) # "true"
      BY <3>2
    <3>4. QED
      BY <1>3, <1>5, <3>1, <3>3
  <2>2. \A k \in DOMAIN a.obj : k \in DOMAIN b.obj /\ called[<<a.obj[k], b.obj[k]>>] = "true"
    <3>1. TAKE k \in DOMAIN a.obj
    <3>2. PICK i \in 1..Len(KeyOrder) : KeyOrder[i] = k
      BY <1>2, Elements, ContainersAssumption DEF Range
    <3>3. Asked(k) = "true"
      BY <2>1, <3>2
    <3>4. QED
      BY <3>3
  <2>3. DOMAIN a.obj = DOMAIN b.obj
    <3>1. IsFiniteSet(DOMAIN b.obj) /\ DOMAIN a.obj \in SUBSET DOMAIN b.obj
      BY <1>2, <2>2, Elements
    <3>2. QED
      BY <1>3, <1>5, <3>1, FS_Subset
  <2>4. a.arr = <<>> /\ b.arr = <<>>
    BY <1>2, <1>5, Elements
  <2>5. \A p \in Inner(l, r) : called[p] = "true"
    BY <2>2, <2>4 DEF Inner
  <2>6. QED
    BY <1>2, <2>3, <2>4, <2>5 DEF Alike
<1>6. CASE l.t # "object"
  <2>1. items = {}
    <3>1. SUFFICES ASSUME items # {} PROVE FALSE
      OBVIOUS
    <3>2. Max(items) \in items
      <4>1. items \in SUBSET (1..Len(a.arr))
        OBVIOUS
      <4> HIDE DEF items
      <4>2. QED
        BY <1>4, <3>1, <4>1, LeastIs
    <3>3. called[<<a.arr[Max(items)], b.arr[Max(items)]>>] # "true"
      BY <3>2
    <3>4. QED
      BY <1>3, <1>6, <3>1, <3>3
  <2>2. DOMAIN a.obj = {} /\ DOMAIN b.obj = {}
    BY <1>2, <1>6, Elements
  <2>3. \A p \in Inner(l, r) : called[p] = "true"
    BY <2>1, <2>2 DEF Inner
  <2>4. QED
    BY <1>2, <1>3, <1>6, <2>2, <2>3 DEF Alike
<1>7. QED
  BY <1>5, <1>6

LEMMA CompareElse ==
    ASSUME HeapOK, NEW called, NEW l \in Stored, NEW r \in Stored,
           CompareWith(called, l, r) # "true"
    PROVE  /\ l.t = r.t => ValueText(l) # ValueText(r)
           /\ \/ /\ CompareWith(called, l, r) \in {"false", "thrown"}
                 /\ l.t = r.t /\ IsRef(l) => ~Alike(l, r)
              \/ /\ IsRef(l) /\ IsRef(r) /\ l.t = r.t
                 /\ \E p \in Inner(l, r) :
                      called[p] # "true" /\ CompareWith(called, l, r) = called[p]
<1> DEFINE a == heap[l.v]
           b == heap[r.v]
           Asked(k) == IF k \in DOMAIN b.obj THEN called[<<a.obj[k], b.obj[k]>>] ELSE "thrown"
           keys == {i \in 1..Len(KeyOrder) : KeyOrder[i] \in DOMAIN a.obj /\ Asked(KeyOrder[i]) # "true"}
           items == {i \in 1..Len(a.arr) : called[<<a.arr[i], b.arr[i]>>] # "true"}
<1>1. l.t = r.t => ValueText(l) # ValueText(r)
  BY DEF CompareWith
<1>2. CASE l.t # r.t \/ ~IsRef(l)
  BY <1>1, <1>2 DEF CompareWith
<1>3. ASSUME l.t = r.t, IsRef(l)
      PROVE  \/ CompareWith(called, l, r) = "false" /\ ~Alike(l, r)
             \/ CompareWith(called, l, r) = "thrown" /\ ~Alike(l, r)
             \/ \E p \in Inner(l, r) : called[p] # "true" /\ CompareWith(called, l, r) = called[p]
  <2>1. IsRef(r)
    BY <1>3 DEF IsRef
  <2>2. Len(KeyOrder) \in Nat /\ Len(a.arr) \in Nat
    BY <1>3, Elements, ContainersAssumption
  <2>3. CASE l.t = "object"
    <3>1. CASE Cardinality(DOMAIN a.obj) # Cardinality(DOMAIN b.obj)
      BY <1>1, <1>3, <2>3, <3>1 DEF CompareWith, Alike
    <3>2. CASE Cardinality(DOMAIN a.obj) = Cardinality(DOMAIN b.obj)
      <4>1. keys # {} /\ CompareWith(called, l, r) = Asked(KeyOrder[Min(keys)])
        BY <1>1, <1>3, <2>3, <3>2 DEF CompareWith
      <4>2. Min(keys) \in keys
        <5>1. keys \in SUBSET (1..Len(KeyOrder))
          OBVIOUS
        <5> HIDE DEF keys
        <5>2. QED
          BY <2>2, <4>1, <5>1, LeastIs
      <4>3. PICK k \in DOMAIN a.obj : Asked(k) # "true" /\ CompareWith(called, l, r) = Asked(k)
        BY <4>1, <4>2
      <4>4. QED
        BY <4>3 DEF Inner, Alike
    <3>3. QED
      BY <3>1, <3>2
  <2>4. CASE l.t # "object"
    <3>1. CASE Len(a.arr) # Len(b.arr)
      BY <1>1, <1>3, <2>4, <3>1 DEF CompareWith, Alike
    <3>2. CASE Len(a.arr) = Len(b.arr)
      <4>1. items # {} /\ CompareWith(called, l, r) = called[<<a.arr[Max(items)], b.arr[Max(items)]>>]
        BY <1>1, <1>3, <2>4, <3>2 DEF CompareWith
      <4>2. Max(items) \in items
        <5>1. items \in SUBSET (1..Len(a.arr))
          OBVIOUS
        <5> HIDE DEF items
        <5>2. QED
          BY <2>2, <4>1, <5>1, LeastIs
      <4>3. PICK i \in 1..Len(a.arr) : /\ called[<<a.arr[i], b.arr[i]>>] # "true"
                                        /\ CompareWith(called, l, r) = called[<<a.arr[i], b.arr[i]>>]
        BY <4>1, <4>2
      <4>4. <<a.arr[i], b.arr[i]>> \in Inner(l, r)
        BY <3>2 DEF Inner
      <4>5. QED
        BY <4>3, <4>4
    <3>3. QED
      BY <3>1, <3>2
  <2>5. QED
    BY <2>3, <2>4
<1>4. QED
  BY <1>1, <1>2, <1>3 DEF IsRef

-----------------------------------------------------------------------------
(* Values written out.                                                     *)

LEMMA InnerStored ==
    ASSUME HeapOK, NEW l \in Stored, NEW r \in Stored, IsRef(l), IsRef(r),
           NEW p \in Inner(l, r)
    PROVE  /\ p[1] \in Stored /\ p[2] \in Stored /\ p = <<p[1], p[2]>>
           /\ p[1] \in Held(l.v) /\ p[2] \in Held(r.v)
<1> DEFINE a == heap[l.v]
           b == heap[r.v]
<1>1. CASE \E k \in DOMAIN a.obj \cap DOMAIN b.obj : p = <<a.obj[k], b.obj[k]>>
  <2>1. PICK k \in DOMAIN a.obj \cap DOMAIN b.obj : p = <<a.obj[k], b.obj[k]>>
    BY <1>1
  <2>2. a.obj[k] \in Stored /\ b.obj[k] \in Stored
    BY Elements
  <2>3. a.obj[k] \in Held(l.v) /\ b.obj[k] \in Held(r.v)
    BY DEF Held, Range
  <2>4. QED
    BY <2>1, <2>2, <2>3
<1>2. CASE \E i \in (1..Len(a.arr)) \cap (1..Len(b.arr)) : p = <<a.arr[i], b.arr[i]>>
  <2>1. PICK i \in (1..Len(a.arr)) \cap (1..Len(b.arr)) : p = <<a.arr[i], b.arr[i]>>
    BY <1>2
  <2>2. a.arr \in Seq(Stored) /\ b.arr \in Seq(Stored)
    BY Elements
  <2>3. QED
    BY <2>1, <2>2 DEF Held, Range
<1>3. QED
  BY <1>1, <1>2 DEF Inner

LEMMA UnfoldedRef ==
    ASSUME NEW n \in 1..Depth, NEW x \in Stored, IsRef(x)
    PROVE  Unfolded[n][x] =
             [t |-> x.t, v |-> <<>>,
              arr |-> [i \in 1..Len(heap[x.v].arr) |-> Unfolded[n - 1][heap[x.v].arr[i]]],
              obj |-> [k \in DOMAIN heap[x.v].obj |-> Unfolded[n - 1][heap[x.v].obj[k]]]]
<1> DEFINE tree(y) ==
             Tree(y.t, <<>>, [i \in 1..Len(heap[y.v].arr) |-> Unfolded[n - 1][heap[y.v].arr[i]]],
                  [k \in DOMAIN heap[y.v].obj |-> Unfolded[n - 1][heap[y.v].obj[k]]])
<1>1. n \in 0..Depth /\ n # 0
  BY DepthIsNat
<1>2. Unfolded[n] = [y \in Stored |-> IF n = 0 THEN Leaf(y.t, <<>>)
                                       ELSE IF ~IsRef(y) THEN Leaf(y.t, ValueText(y)) ELSE tree(y)]
  BY <1>1, UnfoldedRecursion
<1> HIDE DEF tree
<1>3. Unfolded[n][x] = tree(x)
  BY <1>1, <1>2
<1>4. QED
  BY <1>3 DEF tree, Tree

LEMMA UnfoldedLeaf ==
    ASSUME NEW n \in 0..Depth, NEW x \in Stored
    PROVE  /\ Unfolded[n][x].t = x.t
           /\ n = 0 => Unfolded[n][x] = Leaf(x.t, <<>>)
           /\ n # 0 /\ ~IsRef(x) => Unfolded[n][x] = Leaf(x.t, ValueText(x))
<1> DEFINE tree == Tree(x.t, <<>>, [i \in 1..Len(heap[x.v].arr) |-> Unfolded[n - 1][heap[x.v].arr[i]]],
                        [k \in DOMAIN heap[x.v].obj |-> Unfolded[n - 1][heap[x.v].obj[k]]])
<1>1. Unfolded[n][x] = IF n = 0 THEN Leaf(x.t, <<>>) ELSE IF ~IsRef(x) THEN Leaf(x.t, ValueText(x)) ELSE tree
  BY UnfoldedRecursion
<1>2. Leaf(x.t, <<>>).t = x.t /\ Leaf(x.t, ValueText(x)).t = x.t /\ tree.t = x.t
  BY DEF Leaf, Tree
<1>3. QED
  BY <1>1, <1>2

\* What a value is written out as depends on nothing but what it is.
LEMMA UnfoldedSame ==
    ASSUME NEW n \in 0..Depth, NEW l \in Stored, NEW r \in Stored, l.t = r.t, ValueText(l) = ValueText(r)
    PROVE  Unfolded[n][l] = Unfolded[n][r]
<1>1. CASE n = 0 \/ ~IsRef(l)
  BY <1>1, UnfoldedLeaf DEF IsRef
<1>2. CASE n # 0 /\ IsRef(l)
  <2> DEFINE tree(t, v) ==
        [t |-> t, v |-> <<>>,
         arr |-> [i \in 1..Len(heap[v].arr) |-> Unfolded[n - 1][heap[v].arr[i]]],
         obj |-> [k \in DOMAIN heap[v].obj |-> Unfolded[n - 1][heap[v].obj[k]]]]
  <2>1. n \in 1..Depth /\ IsRef(r)
    BY <1>2, DepthIsNat DEF IsRef
  <2>2. Unfolded[n][l] = tree(l.t, l.v) /\ Unfolded[n][r] = tree(r.t, r.v)
    BY <1>2, <2>1, UnfoldedRef
  <2> HIDE DEF tree
  <2>3. l.v = r.v
    BY <1>2, <2>1 DEF ValueText, IsRef
  <2>4. QED
    BY <2>2, <2>3
<1>3. QED
  BY <1>1, <1>2

LEMMA UnfoldedAlike ==
    ASSUME HeapOK, NEW n \in 1..Depth, NEW l \in Stored, NEW r \in Stored, Alike(l, r),
           \A p \in Inner(l, r) : Unfolded[n - 1][p[1]] = Unfolded[n - 1][p[2]]
    PROVE  Unfolded[n][l] = Unfolded[n][r]
<1> DEFINE a == heap[l.v]
           b == heap[r.v]
<1>1. \A i \in 1..Len(a.arr) : Unfolded[n - 1][a.arr[i]] = Unfolded[n - 1][b.arr[i]]
  <2>1. TAKE i \in 1..Len(a.arr)
  <2>2. <<a.arr[i], b.arr[i]>> \in Inner(l, r)
    BY DEF Inner, Alike
  <2>3. QED
    BY <2>2
<1>2. \A k \in DOMAIN a.obj : Unfolded[n - 1][a.obj[k]] = Unfolded[n - 1][b.obj[k]]
  <2>1. TAKE k \in DOMAIN a.obj
  <2>2. <<a.obj[k], b.obj[k]>> \in Inner(l, r)
    BY DEF Inner, Alike
  <2>3. QED
    BY <2>2
<1>3. [i \in 1..Len(a.arr) |-> Unfolded[n - 1][a.arr[i]]] = [i \in 1..Len(b.arr) |-> Unfolded[n - 1][b.arr[i]]]
  BY <1>1 DEF Alike
<1>4. [k \in DOMAIN a.obj |-> Unfolded[n - 1][a.obj[k]]] = [k \in DOMAIN b.obj |-> Unfolded[n - 1][b.obj[k]]]
  BY <1>2 DEF Alike
<1> DEFINE A == [i \in 1..Len(a.arr) |-> Unfolded[n - 1][a.arr[i]]]
           B == [i \in 1..Len(b.arr) |-> Unfolded[n - 1][b.arr[i]]]
           C == [k \in DOMAIN a.obj |-> Unfolded[n - 1][a.obj[k]]]
           D == [k \in DOMAIN b.obj |-> Unfolded[n - 1][b.obj[k]]]
<1>5. /\ Unfolded[n][l] = [t |-> l.t, v |-> <<>>, arr |-> A, obj |-> C]
      /\ Unfolded[n][r] = [t |-> r.t, v |-> <<>>, arr |-> B, obj |-> D]
  BY UnfoldedRef DEF Alike
<1>6. A = B /\ C = D
  BY <1>3, <1>4
<1> HIDE DEF A, B, C, D
<1>7. QED
  BY <1>5, <1>6 DEF Alike

LEMMA UnfoldedDiffer ==
    ASSUME HeapOK, NEW n \in 1..Depth, NEW l \in Stored, NEW r \in Stored,
           l.t = r.t => ValueText(l) # ValueText(r),
           \/ l.t # r.t \/ ~IsRef(l) \/ ~Alike(l, r)
           \/ \E p \in Inner(l, r) : Unfolded[n - 1][p[1]] # Unfolded[n - 1][p[2]]
    PROVE  Unfolded[n][l] # Unfolded[n][r]
<1> DEFINE a == heap[l.v]
           b == heap[r.v]
<1>0. n \in 0..Depth /\ n # 0
  BY DepthIsNat
<1>1. CASE l.t # r.t
  BY <1>0, <1>1, UnfoldedLeaf
<1>2. CASE l.t = r.t /\ ~IsRef(l)
  <2>1. Unfolded[n][l] = Leaf(l.t, ValueText(l)) /\ Unfolded[n][r] = Leaf(r.t, ValueText(r))
    BY <1>0, <1>2, UnfoldedLeaf DEF IsRef
  <2>2. Leaf(l.t, ValueText(l)).v = ValueText(l) /\ Leaf(r.t, ValueText(r)).v = ValueText(r)
    BY DEF Leaf, Tree
  <2>3. QED
    BY <1>2, <2>1, <2>2
<1>3. ASSUME l.t = r.t, IsRef(l), Unfolded[n][l] = Unfolded[n][r]
      PROVE  FALSE
  <2>1. IsRef(r)
    BY <1>3 DEF IsRef
  <2>2. /\ [i \in 1..Len(a.arr) |-> Unfolded[n - 1][a.arr[i]]] = [i \in 1..Len(b.arr) |-> Unfolded[n - 1][b.arr[i]]]
        /\ [k \in DOMAIN a.obj |-> Unfolded[n - 1][a.obj[k]]] = [k \in DOMAIN b.obj |-> Unfolded[n - 1][b.obj[k]]]
    <3> DEFINE A == [i \in 1..Len(a.arr) |-> Unfolded[n - 1][a.arr[i]]]
               B == [i \in 1..Len(b.arr) |-> Unfolded[n - 1][b.arr[i]]]
               C == [k \in DOMAIN a.obj |-> Unfolded[n - 1][a.obj[k]]]
               D == [k \in DOMAIN b.obj |-> Unfolded[n - 1][b.obj[k]]]
    <3>1. /\ Unfolded[n][l] = [t |-> l.t, v |-> <<>>, arr |-> A, obj |-> C]
          /\ Unfolded[n][r] = [t |-> r.t, v |-> <<>>, arr |-> B, obj |-> D]
      BY <1>3, <2>1, UnfoldedRef
    <3> HIDE DEF A, B, C, D
    <3>2. Unfolded[n][l].arr = A /\ Unfolded[n][l].obj = C /\ Unfolded[n][r].arr = B /\ Unfolded[n][r].obj = D
      BY <3>1
    <3>3. A = B /\ C = D
      BY <1>3, <3>2
    <3>4. QED
      BY <3>3 DEF A, B, C, D
  <2>3. Len(a.arr) \in Nat /\ Len(b.arr) \in Nat
    BY <1>3, <2>1, Elements
  <2>4. 1..Len(a.arr) = 1..Len(b.arr) /\ DOMAIN a.obj = DOMAIN b.obj
    <3>1. 1..Len(a.arr) = 1..Len(b.arr)
      BY <2>2, DOMAIN [i \in 1..Len(a.arr) |-> Unfolded[n - 1][a.arr[i]]] = 1..Len(a.arr),
               DOMAIN [i \in 1..Len(b.arr) |-> Unfolded[n - 1][b.arr[i]]] = 1..Len(b.arr)
    <3>2. DOMAIN a.obj = DOMAIN b.obj
      BY <2>2, DOMAIN [k \in DOMAIN a.obj |-> Unfolded[n - 1][a.obj[k]]] = DOMAIN a.obj,
               DOMAIN [k \in DOMAIN b.obj |-> Unfolded[n - 1][b.obj[k]]] = DOMAIN b.obj
    <3>3. QED
      BY <3>1, <3>2
  <2>5. Len(a.arr) = Len(b.arr)
    BY <2>3, <2>4
  <2>6. Alike(l, r)
    BY <1>3, <2>1, <2>4, <2>5 DEF Alike
  <2>7. PICK p \in Inner(l, r) : Unfolded[n - 1][p[1]] # Unfolded[n - 1][p[2]]
    BY <1>3, <2>6
  <2>8. CASE \E i \in 1..Len(a.arr) : p = <<a.arr[i], b.arr[i]>>
    <3>1. PICK i \in 1..Len(a.arr) : p = <<a.arr[i], b.arr[i]>>
      BY <2>8
    <3>2. Unfolded[n - 1][a.arr[i]] = Unfolded[n - 1][b.arr[i]]
      BY <2>2, <2>4
    <3>3. QED
      BY <2>7, <3>1, <3>2
  <2>9. CASE \E k \in DOMAIN a.obj : p = <<a.obj[k], b.obj[k]>>
    <3>1. PICK k \in DOMAIN a.obj : p = <<a.obj[k], b.obj[k]>>
      BY <2>9
    <3>2. Unfolded[n - 1][a.obj[k]] = Unfolded[n - 1][b.obj[k]]
      BY <2>2, <2>4
    <3>3. QED
      BY <2>7, <3>1, <3>2
  <2>10. QED
    BY <2>7, <2>8, <2>9 DEF Inner
<1>4. QED
  BY <1>1, <1>2, <1>3

-----------------------------------------------------------------------------
(* DeepCompare.                                                            *)

LEMMA CompareAt ==
    ASSUME NEW n \in 0..Depth, NEW l \in Stored, NEW r \in Stored
    PROVE  Compare[n][<<l, r>>] = IF n = 0 THEN "endless" ELSE CompareWith(Compare[n - 1], l, r)
<1>1. Compare[n] = [x \in Stored \X Stored |-> IF n = 0 THEN "endless" ELSE CompareWith(Compare[n - 1], x[1], x[2])]
  BY CompareRecursion
<1>2. <<l, r>> \in Stored \X Stored /\ <<l, r>>[1] = l /\ <<l, r>>[2] = r
  OBVIOUS
<1>3. QED
  BY <1>1, <1>2

\* What compares as equal is equal, as deep as one looks.
LEMMA EqualWhenTrue ==
    ASSUME HeapOK
    PROVE  \A k, n \in 0..Depth : \A l, r \in Stored :
             Compare[n][<<l, r>>] = "true" => Unfolded[k][l] = Unfolded[k][r]
<1> DEFINE P(k) == \A n \in 0..Depth : \A l, r \in Stored :
                     Compare[n][<<l, r>>] = "true" => Unfolded[k][l] = Unfolded[k][r]
           Wrong == {k \in 0..Depth : ~P(k)}
<1>1. SUFFICES ASSUME Wrong # {} PROVE FALSE
  OBVIOUS
<1>2. PICK k \in Wrong : \A j \in Wrong : k <= j
  <2>1. Wrong \in SUBSET Nat
    BY DepthIsNat
  <2> HIDE DEF Wrong
  <2>2. QED
    BY <1>1, <2>1, LeastOf
<1>3. PICK n \in 0..Depth, l \in Stored, r \in Stored :
        Compare[n][<<l, r>>] = "true" /\ Unfolded[k][l] # Unfolded[k][r]
  BY <1>2
<1>4. k \in 0..Depth /\ n # 0 /\ CompareWith(Compare[n - 1], l, r) = "true"
  BY <1>2, <1>3, CompareAt
<1>5. Alike(l, r) /\ \A p \in Inner(l, r) : Compare[n - 1][p] = "true"
  <2>1. ~(l.t = r.t /\ ValueText(l) = ValueText(r))
    BY <1>3, <1>4, UnfoldedSame
  <2>2. QED
    BY <1>4, <2>1, CompareTrue
<1>6. k # 0
  <2>1. l.t = r.t
    BY <1>5 DEF Alike
  <2>2. QED
    BY <1>3, <1>4, <2>1, UnfoldedLeaf
<1>7. k - 1 \in 0..Depth /\ n - 1 \in 0..Depth /\ k \in 1..Depth /\ ~(k <= k - 1)
  BY <1>4, <1>6, DepthIsNat
<1>8. P(k - 1)
  <2>1. k - 1 \notin Wrong
    BY <1>2, <1>7
  <2>2. QED
    BY <1>7, <2>1
<1> HIDE DEF Wrong
<1>9. ASSUME NEW p \in Inner(l, r)
      PROVE  Unfolded[k - 1][p[1]] = Unfolded[k - 1][p[2]]
  <2>1. p[1] \in Stored /\ p[2] \in Stored /\ p = <<p[1], p[2]>>
    BY <1>5, InnerStored DEF Alike
  <2>2. Compare[n - 1][<<p[1], p[2]>>] = "true"
    BY <1>5, <2>1
  <2>3. QED
    BY <1>7, <1>8, <2>1, <2>2
<1>10. QED
  BY <1>3, <1>5, <1>7, <1>9, UnfoldedAlike

\* What compares as different is different, no deeper than was compared.
LEMMA DifferentWhenFalse ==
    ASSUME HeapOK
    PROVE  \A n, k \in 0..Depth : \A l, r \in Stored :
             n <= k /\ Compare[n][<<l, r>>] \notin {"true", "endless"} => Unfolded[k][l] # Unfolded[k][r]
<1> DEFINE P(n) == \A k \in 0..Depth : \A l, r \in Stored :
                     n <= k /\ Compare[n][<<l, r>>] \notin {"true", "endless"} => Unfolded[k][l] # Unfolded[k][r]
           Wrong == {n \in 0..Depth : ~P(n)}
<1>1. SUFFICES ASSUME Wrong # {} PROVE FALSE
  OBVIOUS
<1>2. PICK n \in Wrong : \A j \in Wrong : n <= j
  <2>1. Wrong \in SUBSET Nat
    BY DepthIsNat
  <2> HIDE DEF Wrong
  <2>2. QED
    BY <1>1, <2>1, LeastOf
<1>3. PICK k \in 0..Depth, l \in Stored, r \in Stored :
        /\ n <= k /\ Compare[n][<<l, r>>] \notin {"true", "endless"}
        /\ Unfolded[k][l] = Unfolded[k][r]
  BY <1>2
<1>4. /\ n \in 0..Depth /\ n # 0
      /\ Compare[n][<<l, r>>] = CompareWith(Compare[n - 1], l, r)
      /\ CompareWith(Compare[n - 1], l, r) \notin {"true", "endless"}
  BY <1>2, <1>3, CompareAt
<1>5. /\ k \in 1..Depth /\ k - 1 \in 0..Depth /\ n - 1 \in 0..Depth /\ n - 1 <= k - 1
      /\ ~(n <= n - 1)
  BY <1>3, <1>4, DepthIsNat
<1>6. P(n - 1)
  <2>1. n - 1 \notin Wrong
    BY <1>2, <1>5
  <2>2. QED
    BY <1>5, <2>1
<1> HIDE DEF Wrong
<1>7. l.t = r.t => ValueText(l) # ValueText(r)
  BY <1>4, CompareElse
<1>8. CASE l.t = r.t /\ IsRef(l) => ~Alike(l, r)
  BY <1>3, <1>5, <1>7, <1>8, UnfoldedDiffer
<1>9. CASE /\ IsRef(l) /\ IsRef(r) /\ l.t = r.t
           /\ \E p \in Inner(l, r) :
                Compare[n - 1][p] # "true" /\ CompareWith(Compare[n - 1], l, r) = Compare[n - 1][p]
  <2>1. PICK p \in Inner(l, r) :
          Compare[n - 1][p] # "true" /\ CompareWith(Compare[n - 1], l, r) = Compare[n - 1][p]
    BY <1>9
  <2>2. p[1] \in Stored /\ p[2] \in Stored /\ p = <<p[1], p[2]>>
    BY <1>9, InnerStored
  <2>3. Compare[n - 1][<<p[1], p[2]>>] \notin {"true", "endless"}
    BY <1>4, <2>1, <2>2
  <2>4. Unfolded[k - 1][p[1]] # Unfolded[k - 1][p[2]]
    BY <1>5, <1>6, <2>2, <2>3
  <2>5. QED
    BY <1>3, <1>5, <1>7, <2>4, UnfoldedDiffer
<1>10. QED
  BY <1>4, <1>8, <1>9, CompareElse

\* What is flat is flat however far one looks.
LEMMA FlatGrows ==
    \A m, n \in 0..Depth : m <= n => Flat[m] \subseteq Flat[n]
<1> DEFINE P(m) == \A n \in 0..Depth : m <= n => Flat[m] \subseteq Flat[n]
           Wrong == {m \in 0..Depth : ~P(m)}
<1>1. SUFFICES ASSUME Wrong # {} PROVE FALSE
  OBVIOUS
<1>2. PICK m \in Wrong : \A j \in Wrong : m <= j
  <2>1. Wrong \in SUBSET Nat
    BY DepthIsNat
  <2> HIDE DEF Wrong
  <2>2. QED
    BY <1>1, <2>1, LeastOf
<1>3. PICK n \in 0..Depth, r \in Flat[m] : m <= n /\ r \notin Flat[n]
  BY <1>2
<1>4. m \in 0..Depth /\ m # 0
  BY <1>2, <1>3, FlatRecursion
<1>5. m - 1 \in 0..Depth /\ n - 1 \in 0..Depth /\ m - 1 <= n - 1 /\ n # 0 /\ ~(m <= m - 1)
  BY <1>3, <1>4, DepthIsNat
<1>6. P(m - 1)
  <2>1. m - 1 \notin Wrong
    BY <1>2, <1>5
  <2>2. QED
    BY <1>5, <2>1
<1> HIDE DEF Wrong
<1>7. Flat[m - 1] \subseteq Flat[n - 1]
  BY <1>5, <1>6
<1>8. r \in Refs /\ \A x \in Held(r) : IsRef(x) => x.v \in Flat[m - 1]
  BY <1>3, <1>4, FlatRecursion
<1>9. r \in Flat[n]
  BY <1>5, <1>7, <1>8, FlatRecursion
<1>10. QED
  BY <1>3, <1>9

\* A comparison without end goes through containers without end, on both sides.
LEMMA EndlessIsDeep ==
    ASSUME HeapOK
    PROVE  \A n \in 1..Depth : \A l, r \in Stored :
             Compare[n][<<l, r>>] = "endless" =>
               /\ IsRef(l) /\ l.v \notin Flat[n - 1]
               /\ IsRef(r) /\ r.v \notin Flat[n - 1]
<1> DEFINE P(n) == \A l, r \in Stored :
                     Compare[n][<<l, r>>] = "endless" =>
                       /\ IsRef(l) /\ l.v \notin Flat[n - 1]
                       /\ IsRef(r) /\ r.v \notin Flat[n - 1]
           Wrong == {n \in 1..Depth : ~P(n)}
<1>1. SUFFICES ASSUME Wrong # {} PROVE FALSE
  OBVIOUS
<1>2. PICK n \in Wrong : \A j \in Wrong : n <= j
  <2>1. Wrong \in SUBSET Nat
    BY DepthIsNat
  <2> HIDE DEF Wrong
  <2>2. QED
    BY <1>1, <2>1, LeastOf
<1>3. PICK l \in Stored, r \in Stored :
        /\ Compare[n][<<l, r>>] = "endless"
        /\ ~ /\ IsRef(l) /\ l.v \notin Flat[n - 1]
             /\ IsRef(r) /\ r.v \notin Flat[n - 1]
  BY <1>2
<1>4. /\ n \in 1..Depth /\ n \in 0..Depth /\ n - 1 \in 0..Depth /\ n # 0 /\ ~(n <= n - 1)
      /\ CompareWith(Compare[n - 1], l, r) = "endless"
  <2>1. n \in 1..Depth /\ n \in 0..Depth /\ n - 1 \in 0..Depth /\ n # 0 /\ ~(n <= n - 1)
    BY <1>2, DepthIsNat
  <2>2. QED
    BY <1>3, <2>1, CompareAt
<1>5. /\ IsRef(l) /\ IsRef(r)
      /\ \E p \in Inner(l, r) : Compare[n - 1][p] = "endless"
  <2>1. CompareWith(Compare[n - 1], l, r) \notin {"true", "false", "thrown"}
    BY <1>4
  <2>2. /\ IsRef(l) /\ IsRef(r)
        /\ \E p \in Inner(l, r) : CompareWith(Compare[n - 1], l, r) = Compare[n - 1][p]
    BY <2>1, CompareElse
  <2>3. QED
    BY <1>4, <2>2
<1>6. PICK p \in Inner(l, r) : Compare[n - 1][p] = "endless"
  BY <1>5
<1>7. /\ p[1] \in Stored /\ p[2] \in Stored /\ p = <<p[1], p[2]>>
      /\ p[1] \in Held(l.v) /\ p[2] \in Held(r.v)
  BY <1>5, InnerStored
<1>8. n # 1
  <2>1. SUFFICES ASSUME n = 1 PROVE FALSE
    OBVIOUS
  <2>2. 0 \in 0..Depth /\ n - 1 = 0
    BY <2>1, DepthIsNat
  <2>3. Flat[n - 1] = {}
    BY <2>2, FlatRecursion
  <2>4. QED
    BY <1>3, <1>5, <2>3
<1>9. n - 1 \in 1..Depth /\ n - 1 # 0
  BY <1>4, <1>8, DepthIsNat
<1>10. P(n - 1)
  <2>1. n - 1 \notin Wrong
    BY <1>2, <1>4
  <2>2. QED
    BY <1>9, <2>1
<1> HIDE DEF Wrong
<1>11. /\ IsRef(p[1]) /\ p[1].v \notin Flat[n - 1 - 1]
       /\ IsRef(p[2]) /\ p[2].v \notin Flat[n - 1 - 1]
  <2>1. Compare[n - 1][<<p[1], p[2]>>] = "endless"
    BY <1>6, <1>7
  <2>2. QED
    BY <1>7, <1>10, <2>1
<1>12. Flat[n - 1] = {q \in Refs : \A x \in Held(q) : IsRef(x) => x.v \in Flat[n - 1 - 1]}
  BY <1>4, <1>9, FlatRecursion
<1>13. l.v \notin Flat[n - 1] /\ r.v \notin Flat[n - 1]
  BY <1>7, <1>11, <1>12
<1>14. QED
  BY <1>3, <1>5, <1>13

LEMMA HeapCompares == HeapOK => CompareIsSound
<1>1. SUFFICES ASSUME HeapOK, NEW l \in Refs, NEW r \in Refs
               PROVE  IF DeepCompare(Ref(l), Ref(r)) = "endless" THEN ~Acyclic(l) /\ ~Acyclic(r)
                      ELSE (DeepCompare(Ref(l), Ref(r)) = "true")
                             = (Unfolded[Depth][Ref(l)] = Unfolded[Depth][Ref(r)])
  BY DEF CompareIsSound
<1>2. Depth \in 1..Depth /\ Depth \in 0..Depth /\ Depth - 1 \in 0..Depth
  BY DepthIsNat
<1>3. Ref(l) \in Stored /\ Ref(r) \in Stored /\ Ref(l).v = l /\ Ref(r).v = r
  BY StoredRefs
<1>4. CASE DeepCompare(Ref(l), Ref(r)) = "endless"
  <2>1. l \notin Flat[Depth - 1] /\ r \notin Flat[Depth - 1]
    BY <1>1, <1>2, <1>3, <1>4, EndlessIsDeep DEF DeepCompare
  <2>2. Flat[Cardinality(Refs)] \subseteq Flat[Depth - 1]
    <3>1. Cardinality(Refs) \in 0..Depth /\ Cardinality(Refs) <= Depth - 1
      BY DepthIsNat
    <3>2. QED
      BY <1>2, <3>1, FlatGrows
  <2>3. QED
    BY <1>4, <2>1, <2>2 DEF Acyclic
<1>5. CASE DeepCompare(Ref(l), Ref(r)) = "true"
  BY <1>1, <1>2, <1>3, <1>5, EqualWhenTrue DEF DeepCompare
<1>6. CASE DeepCompare(Ref(l), Ref(r)) \notin {"true", "endless"}
  <2>1. Unfolded[Depth][Ref(l)] # Unfolded[Depth][Ref(r)]
    <3>1. Depth <= Depth
      BY DepthIsNat
    <3>2. QED
      BY <1>1, <1>2, <1>3, <1>6, <3>1, DifferentWhenFalse DEF DeepCompare
  <2>2. QED
    BY <1>6, <2>1
<1>7. QED
  BY <1>4, <1>5, <1>6

\* In every heap that scripts can build, with any values, keys and containers,
\* DeepCompare (Value.cc) tells equal values from different ones, and comes to
\* an end unless both values contain themselves.
THEOREM CompareIsSoundHolds == CSpec => []CompareIsSound
BY HeapIsOK, HeapCompares, PTL

-----------------------------------------------------------------------------
(* Brackets of one kind in a flow of tokens: how many are open.              *)

LEMMA CloserIs ==
    /\ DOMAIN Closer = {"(", "[", "{"}
    /\ Closer["("] = ")" /\ Closer["["] = "]" /\ Closer["{"] = "}"
    /\ Range(Closer) = {")", "]", "}"}
    /\ \A b \in DOMAIN Closer : Closer[b] \notin DOMAIN Closer
<1>1. DOMAIN Closer = {"(", "[", "{"}
  BY DEF Closer
<1>2. Closer["("] = ")" /\ Closer["["] = "]" /\ Closer["{"] = "}"
  BY DEF Closer
<1>3. Range(Closer) = {")", "]", "}"}
  <2>1. Range(Closer) = {Closer[b] : b \in {"(", "[", "{"}}
    BY <1>1 DEF Range
  <2>2. QED
    BY <1>2, <2>1
<1>4. \A b \in DOMAIN Closer : Closer[b] \notin DOMAIN Closer
  <2>1. ASSUME NEW b \in DOMAIN Closer
        PROVE  Closer[b] \in {")", "]", "}"}
    BY <1>1, <1>2
  <2>2. {")", "]", "}"} \cap {"(", "[", "{"} = {}
    OBVIOUS
  <2>3. QED
    BY <1>1, <2>1, <2>2
<1>5. QED
  BY <1>1, <1>2, <1>3, <1>4

Occurs(flow, c, i, j) == {k \in i..j : flow[k] = c}
Height(flow, b, j) == Cardinality(Occurs(flow, b, 1, j)) - Cardinality(Occurs(flow, Closer[b], 1, j))

LEMMA OccursIs ==
    ASSUME NEW flow, NEW c, NEW i \in Nat, NEW j \in Nat
    PROVE  IsFiniteSet(Occurs(flow, c, i, j)) /\ Cardinality(Occurs(flow, c, i, j)) \in Nat
<1>1. IsFiniteSet(i..j) /\ Occurs(flow, c, i, j) \in SUBSET (i..j)
  BY FS_Interval DEF Occurs
<1>2. QED
  BY <1>1, FS_Subset, FS_CardinalityType

LEMMA OccursSplit ==
    ASSUME NEW flow, NEW c, NEW i \in Nat, i # 0, NEW j \in Nat, i - 1 <= j
    PROVE  Cardinality(Occurs(flow, c, 1, j))
             = Cardinality(Occurs(flow, c, 1, i - 1)) + Cardinality(Occurs(flow, c, i, j))
<1> DEFINE A == Occurs(flow, c, 1, i - 1)
           B == Occurs(flow, c, i, j)
<1>1. Occurs(flow, c, 1, j) = A \cup B /\ A \cap B = {}
  BY DEF Occurs
<1>2. IsFiniteSet(A) /\ IsFiniteSet(B) /\ Cardinality(A) \in Nat /\ Cardinality(B) \in Nat
  BY OccursIs
<1> HIDE DEF A, B
<1>3. Cardinality(A \cup B) = Cardinality(A) + Cardinality(B) - Cardinality({})
  BY <1>1, <1>2, FS_Union
<1>4. Cardinality(Occurs(flow, c, 1, j)) = Cardinality(A) + Cardinality(B)
  <2>1. Cardinality({}) = 0
    BY FS_EmptySet
  <2>2. QED
    BY <1>1, <1>2, <1>3, <2>1
<1>5. QED
  BY <1>4 DEF A, B

LEMMA OccursOne ==
    ASSUME NEW flow, NEW c, NEW j \in Nat
    PROVE  Cardinality(Occurs(flow, c, j, j)) = IF flow[j] = c THEN 1 ELSE 0
<1>1. Occurs(flow, c, j, j) = IF flow[j] = c THEN {j} ELSE {}
  BY DEF Occurs
<1>2. QED
  BY <1>1, FS_Singleton, FS_EmptySet

\* What one token changes.
Change(b, c) == IF c = b THEN 1 ELSE IF c = Closer[b] THEN -1 ELSE 0

LEMMA HeightStep ==
    ASSUME NEW flow, NEW b \in DOMAIN Closer, NEW j \in Nat, j # 0
    PROVE  /\ Height(flow, b, j - 1) \in Int /\ Height(flow, b, j) \in Int
           /\ Height(flow, b, j) = Height(flow, b, j - 1) + Change(b, flow[j])
<1>1. Closer[b] # b
  BY CloserIs
<1>2. j - 1 \in Nat /\ j - 1 <= j
  OBVIOUS
<1>3. \A c : /\ Cardinality(Occurs(flow, c, 1, j - 1)) \in Nat
             /\ Cardinality(Occurs(flow, c, 1, j))
                  = Cardinality(Occurs(flow, c, 1, j - 1)) + (IF flow[j] = c THEN 1 ELSE 0)
  BY <1>2, OccursIs, OccursSplit, OccursOne
<1>4. QED
  BY <1>1, <1>3 DEF Height, Change

LEMMA HeightIs ==
    ASSUME NEW flow, NEW b \in DOMAIN Closer, NEW j \in Nat
    PROVE  Height(flow, b, j) \in Int
BY OccursIs DEF Height

\* The bracket at i is closed at e: it is open from i on to the token before e.
Closes(flow, i, e) ==
    /\ Height(flow, flow[i], e) = Height(flow, flow[i], i - 1)
    /\ flow[e] = Closer[flow[i]]
    /\ \A j \in i..e - 1 : Height(flow, flow[i], j) > Height(flow, flow[i], i - 1)

\* What ClosingBracket computes.
LEMMA ClosingIs ==
    ASSUME NEW C, NEW flow \in Seq(C), NEW i \in 1..Len(flow), flow[i] \in DOMAIN Closer
    PROVE  LET closed == {j \in i..Len(flow) : Height(flow, flow[i], j) = Height(flow, flow[i], i - 1)}
           IN  ClosingBracket(flow, i) = IF closed = {} THEN Overrun ELSE Min(closed)
<1> DEFINE b == flow[i]
           Surplus(j) == Cardinality({k \in i..j : flow[k] = b}) - Cardinality({k \in i..j : flow[k] = Closer[b]})
<1>1. Len(flow) \in Nat /\ i \in Nat /\ i # 0
  OBVIOUS
<1>2. ASSUME NEW j \in i..Len(flow)
      PROVE  Surplus(j) = Height(flow, b, j) - Height(flow, b, i - 1)
  <2>1. j \in Nat /\ i - 1 \in Nat /\ i - 1 <= j
    BY <1>1
  <2>2. \A c : /\ Cardinality(Occurs(flow, c, 1, i - 1)) \in Nat /\ Cardinality(Occurs(flow, c, i, j)) \in Nat
               /\ Cardinality(Occurs(flow, c, 1, j))
                    = Cardinality(Occurs(flow, c, 1, i - 1)) + Cardinality(Occurs(flow, c, i, j))
    BY <1>1, <2>1, OccursIs, OccursSplit
  <2>3. Surplus(j) = Cardinality(Occurs(flow, b, i, j)) - Cardinality(Occurs(flow, Closer[b], i, j))
    BY DEF Occurs
  <2> HIDE DEF b, Surplus
  <2>4. QED
    BY <2>2, <2>3 DEF Height
<1>3. \A j \in i..Len(flow) : Surplus(j) = 0 <=> Height(flow, b, j) = Height(flow, b, i - 1)
  <2>1. \A j \in i..Len(flow) : Height(flow, b, j) \in Int /\ Height(flow, b, i - 1) \in Int
    BY <1>1, HeightIs
  <2> HIDE DEF b, Surplus
  <2>2. QED
    BY <1>2, <2>1
<1>4. {j \in i..Len(flow) : Surplus(j) = 0}
        = {j \in i..Len(flow) : Height(flow, b, j) = Height(flow, b, i - 1)}
  <2> HIDE DEF b, Surplus
  <2>1. QED
    BY <1>3
<1>5. ClosingBracket(flow, i) = LET closed == {j \in i..Len(flow) : Surplus(j) = 0}
                                IN  IF closed = {} THEN Overrun ELSE Min(closed)
  BY <1>1 DEF ClosingBracket, Quantify
<1>6. QED
  BY <1>4, <1>5

LEMMA ClosingEnds ==
    ASSUME NEW C, NEW flow \in Seq(C), NEW i \in 1..Len(flow), flow[i] \in DOMAIN Closer
    PROVE  \/ /\ ClosingBracket(flow, i) = Overrun
              /\ \A j \in i..Len(flow) : Height(flow, flow[i], j) # Height(flow, flow[i], i - 1)
           \/ ClosingBracket(flow, i) \in i + 1..Len(flow) /\ Closes(flow, i, ClosingBracket(flow, i))
<1> DEFINE b == flow[i]
           h(j) == Height(flow, b, j)
           n == Len(flow)
           closed == {j \in i..n : h(j) = h(i - 1)}
<1>1. n \in Nat /\ i \in Nat /\ i # 0 /\ i - 1 \in Nat /\ i <= n
  OBVIOUS
<1>2. ClosingBracket(flow, i) = IF closed = {} THEN Overrun ELSE Min(closed)
  BY ClosingIs
<1>3. \A j \in i - 1..n : h(j) \in Int
  <2>1. b \in DOMAIN Closer
    OBVIOUS
  <2> HIDE DEF b
  <2>2. QED
    BY <1>1, <2>1, HeightIs
<1>4. \A j \in i..n : h(j) = h(j - 1) + Change(b, flow[j])
  <2>1. b \in DOMAIN Closer
    OBVIOUS
  <2> HIDE DEF b
  <2>2. QED
    BY <1>1, <2>1, HeightStep
<1>5. Change(b, b) = 1 /\ \A c : Change(b, c) \in {-1, 0, 1} /\ (Change(b, c) = -1 => c = Closer[b])
  BY DEF Change
<1>6. CASE closed = {}
  <2>1. \A j \in i..n : h(j) # h(i - 1)
    BY <1>6
  <2>2. QED
    BY <1>2, <1>6, <2>1
<1>7. CASE closed # {}
  <2> HIDE DEF h
  <2>1. PICK e \in closed : \A j \in closed : e <= j
    <3>1. closed \in SUBSET Nat
      BY <1>1
    <3> HIDE DEF closed
    <3>2. QED
      BY <1>7, <3>1, LeastOf
  <2>2. e \in i..n /\ h(e) = h(i - 1)
    OBVIOUS
  <2>3. Min(closed) = e
    <3>1. closed \in SUBSET Nat
      BY <1>1
    <3> HIDE DEF closed
    <3>2. QED
      BY <2>1, <3>1, MinIs
  <2>4. h(i) = h(i - 1) + 1
    BY <1>1, <1>4, <1>5
  <2>5. \A j \in i..e - 1 : h(j) > h(i - 1)
    <3> DEFINE T == {j \in i..e - 1 : ~ (h(j) > h(i - 1))}
    <3>1. SUFFICES ASSUME T # {} PROVE FALSE
      OBVIOUS
    <3>2. PICK m \in T : \A j \in T : m <= j
      <4>1. T \in SUBSET Nat
        BY <1>1, <2>2
      <4> HIDE DEF T
      <4>2. QED
        BY <3>1, <4>1, LeastOf
    <3>3. m \in i..e - 1 /\ ~ (h(m) > h(i - 1)) /\ m \in i..n /\ m < e
      BY <1>1, <2>2
    <3>4. h(m) # h(i - 1)
      <4>1. m \notin closed
        BY <1>1, <2>1, <2>2, <3>3
      <4>2. QED
        BY <3>3, <4>1
    <3>5. m # i
      BY <1>3, <1>1, <2>4, <3>3
    <3>6. m - 1 \in i..e - 1 /\ m - 1 \notin T
      BY <1>1, <2>2, <3>2, <3>3, <3>5
    <3>7. h(m - 1) > h(i - 1) /\ m - 1 \in i - 1..n /\ m \in i - 1..n /\ i - 1 \in i - 1..n
      BY <1>1, <2>2, <3>3, <3>6
    <3>8. h(m) = h(m - 1) + Change(b, flow[m]) /\ Change(b, flow[m]) \in {-1, 0, 1}
      BY <1>4, <1>5, <3>3
    <3> HIDE DEF T, closed
    <3>9. QED
      BY SMTT(30), <1>3, <3>3, <3>4, <3>7, <3>8
  <2>6. e # i
    BY <1>1, <1>3, <2>2, <2>4
  <2>7. flow[e] = Closer[b]
    <3>1. e - 1 \in i..e - 1 /\ e - 1 \in i - 1..n /\ e \in i - 1..n /\ i - 1 \in i - 1..n
      BY <1>1, <2>2, <2>6
    <3>2. h(e - 1) > h(i - 1) /\ h(e) = h(e - 1) + Change(b, flow[e]) /\ Change(b, flow[e]) \in {-1, 0, 1}
      BY <1>4, <1>5, <2>2, <2>5, <3>1
    <3>3. Change(b, flow[e]) = -1
      BY <1>3, <2>2, <3>1, <3>2
    <3>4. QED
      BY <1>5, <3>3
  <2>8. e \in i + 1..n
    BY <1>1, <2>2, <2>6
  <2>9. QED
    BY <1>2, <1>7, <2>2, <2>3, <2>5, <2>7, <2>8 DEF Closes, h
<1>8. QED
  BY <1>6, <1>7

\* Only one token can close it.
LEMMA ClosingUnique ==
    ASSUME NEW C, NEW flow \in Seq(C), NEW i \in 1..Len(flow), flow[i] \in DOMAIN Closer,
           NEW e \in i + 1..Len(flow), Closes(flow, i, e)
    PROVE  ClosingBracket(flow, i) = e
<1> DEFINE c == ClosingBracket(flow, i)
           h(j) == Height(flow, flow[i], j)
<1>1. i \in Nat /\ Len(flow) \in Nat /\ e \in i..Len(flow) /\ e \in Nat
  OBVIOUS
<1>2. h(e) = h(i - 1) /\ \A j \in i..e - 1 : h(j) > h(i - 1)
  BY DEF Closes
<1>3. c \in i + 1..Len(flow) /\ h(c) = h(i - 1) /\ \A j \in i..c - 1 : h(j) > h(i - 1)
  BY <1>1, <1>2, ClosingEnds DEF Closes
<1>4. h(i - 1) \in Int
  BY <1>1, HeightIs
<1> HIDE DEF c, h
<1>5. ~ (c < e) /\ ~ (e < c)
  BY <1>1, <1>2, <1>3, <1>4
<1>6. QED
  BY <1>1, <1>3, <1>5 DEF c

-----------------------------------------------------------------------------
(* Flows with nested brackets: the closers that are missing.                 *)

Missed == {")", "]", "}", "none"}
MissingStep(flow, i, open) ==
    IF i = 0 THEN <<>>
    ELSE IF flow[i] \in DOMAIN Closer THEN Append(open, Closer[flow[i]])
    ELSE IF flow[i] \notin Range(Closer) THEN open
    ELSE IF open # <<>> /\ Last(open) = flow[i] THEN Front(open)
    ELSE Append(open, "none")

LEMMA AppendIs ==
    ASSUME NEW C, NEW a \in Seq(C), NEW c \in C
    PROVE  /\ Append(a, c) \in Seq(C) /\ Len(Append(a, c)) = Len(a) + 1
           /\ Append(a, c)[Len(a) + 1] = c
           /\ \A q \in 1..Len(a) : Append(a, c)[q] = a[q]
OBVIOUS

LEMMA PrefixIs ==
    ASSUME NEW C, NEW a \in Seq(C), NEW n \in 0..Len(a)
    PROVE  /\ SubSeq(a, 1, n) \in Seq(C) /\ Len(SubSeq(a, 1, n)) = n
           /\ \A q \in 1..n : SubSeq(a, 1, n)[q] = a[q]
OBVIOUS

LEMMA FrontIs ==
    ASSUME NEW C, NEW a \in Seq(C), a # <<>>
    PROVE  /\ Len(a) \in Nat /\ Len(a) # 0
           /\ Front(a) \in Seq(C) /\ Len(Front(a)) = Len(a) - 1
           /\ \A q \in 1..Len(a) - 1 : Front(a)[q] = a[q]
<1>1. Len(a) \in Nat /\ Len(a) # 0
  OBVIOUS
<1>2. Front(a) = SubSeq(a, 1, Len(a) - 1)
  BY DEF Front
<1>3. Len(a) - 1 \in 0..Len(a)
  BY <1>1
<1>4. QED
  BY <1>1, <1>2, <1>3, PrefixIs

LEMMA MissingRecursion ==
    ASSUME NEW C, NEW flow \in Seq(C)
    PROVE  \A i \in 0..Len(flow) : Missing(flow)[i] = MissingStep(flow, i, Missing(flow)[i - 1])
<1> DEFINE N == Len(flow)
           Chain(f, k) == f = [i \in 0..k |-> MissingStep(flow, i, f[i - 1])]
           Broken == {k \in 0..N : ~ \E f : Chain(f, k)}
<1>1. N \in Nat
  OBVIOUS
<1>2. \A a : MissingStep(flow, 0, a) = <<>>
  BY DEF MissingStep
<1>3. Broken = {}
  <2>1. SUFFICES ASSUME Broken # {} PROVE FALSE
    OBVIOUS
  <2>2. PICK k \in Broken : \A j \in Broken : k <= j
    <3>1. Broken \in SUBSET Nat
      BY <1>1
    <3> HIDE DEF Broken
    <3>2. QED
      BY <2>1, <3>1, LeastOf
  <2>3. k \in 0..N /\ ~ \E f : Chain(f, k)
    BY <2>2
  <2> HIDE DEF N
  <2>4. CASE k = 0
    <3> DEFINE f == [i \in 0..0 |-> <<>>]
    <3>1. ASSUME NEW i \in 0..0
          PROVE  <<>> = MissingStep(flow, i, f[i - 1])
      BY <1>2
    <3>2. f = [i \in 0..0 |-> MissingStep(flow, i, f[i - 1])]
      BY <3>1
    <3>3. Chain(f, 0)
      BY <3>2
    <3>4. QED
      BY <2>3, <2>4, <3>3
  <2>5. CASE k # 0
    <3>1. k - 1 \in 0..N /\ ~(k <= k - 1)
      BY <1>1, <2>3, <2>5
    <3>2. k - 1 \notin Broken
      BY <2>2, <3>1
    <3>3. PICK f : Chain(f, k - 1)
      BY <3>1, <3>2
    <3>4. \A i \in 0..(k - 1) : f[i] = MissingStep(flow, i, f[i - 1])
      BY <3>3
    <3> DEFINE g == [i \in 0..k |-> IF i < k THEN f[i] ELSE MissingStep(flow, k, f[k - 1])]
    <3> HIDE DEF Chain
    <3>5. ASSUME NEW i \in 0..k
          PROVE  g[i] = MissingStep(flow, i, g[i - 1])
      <4>1. CASE i = 0
        <5>1. 0 \in 0..(k - 1) /\ g[0] = f[0]
          BY <1>1, <2>3, <2>5
        <5>2. QED
          BY <1>2, <3>4, <4>1, <5>1
      <4>2. CASE i # 0 /\ i < k
        <5>1. i \in 0..(k - 1) /\ g[i] = f[i] /\ i - 1 \in 0..k /\ i - 1 < k /\ g[i - 1] = f[i - 1]
          BY <1>1, <2>3, <4>2
        <5>2. QED
          BY <3>4, <5>1
      <4>3. CASE i = k
        <5>1. g[k] = MissingStep(flow, k, f[k - 1]) /\ k - 1 \in 0..k /\ k - 1 < k /\ g[k - 1] = f[k - 1]
          BY <1>1, <2>3, <2>5
        <5>2. QED
          BY <4>3, <5>1
      <4>4. QED
        BY <1>1, <2>3, <4>1, <4>2, <4>3
    <3>6. g = [i \in 0..k |-> g[i]]
      OBVIOUS
    <3> HIDE DEF g
    <3>7. g = [i \in 0..k |-> MissingStep(flow, i, g[i - 1])]
      BY <3>5, <3>6
    <3>8. QED
      BY <2>3, <3>7 DEF Chain
  <2>6. QED
    BY <2>4, <2>5
<1>4. \E f : Chain(f, N)
  BY <1>1, <1>3
<1>5. Missing(flow) = CHOOSE f : Chain(f, N)
  BY DEF Missing, MissingStep
<1>6. Chain(Missing(flow), N)
  BY <1>4, <1>5
<1> HIDE DEF Broken
<1>7. QED
  BY <1>6

LEMMA MissingType ==
    ASSUME NEW C, NEW flow \in Seq(C), NEW i \in 0..Len(flow)
    PROVE  Missing(flow)[i] \in Seq(Missed)
<1> DEFINE S == Missing(flow)
           T == {j \in 0..Len(flow) : S[j] \notin Seq(Missed)}
<1>1. \A j \in 0..Len(flow) : S[j] = MissingStep(flow, j, S[j - 1])
  BY MissingRecursion
<1> HIDE DEF S
<1>2. T = {}
  <2>1. SUFFICES ASSUME T # {} PROVE FALSE
    OBVIOUS
  <2>2. PICK k \in T : \A j \in T : k <= j
    <3>1. T \in SUBSET Nat
      OBVIOUS
    <3> HIDE DEF T
    <3>2. QED
      BY <2>1, <3>1, LeastOf
  <2>3. k \in 0..Len(flow) /\ S[k] \notin Seq(Missed)
    BY <2>2
  <2>4. CASE k = 0
    <3>1. 0 \in 0..Len(flow) /\ <<>> \in Seq(Missed)
      OBVIOUS
    <3>2. S[0] = MissingStep(flow, 0, S[0 - 1])
      BY <1>1, <3>1
    <3>3. S[0] = <<>>
      BY <3>2 DEF MissingStep
    <3>4. QED
      BY <2>3, <2>4, <3>1, <3>3
  <2>5. CASE k # 0
    <3>1. k - 1 \in 0..Len(flow) /\ ~(k <= k - 1)
      BY <2>3, <2>5
    <3>2. S[k - 1] \in Seq(Missed)
      BY <2>2, <3>1
    <3> DEFINE a == S[k - 1]
    <3>3. S[k] = MissingStep(flow, k, a)
      BY <1>1, <2>3
    <3> HIDE DEF a
    <3>4. a \in Seq(Missed)
      BY <3>2 DEF a
    <3>5. \A b \in DOMAIN Closer : Append(a, Closer[b]) \in Seq(Missed)
      <4>1. \A b \in DOMAIN Closer : Closer[b] \in Missed
        BY CloserIs DEF Missed
      <4>2. \A c \in Missed : Append(a, c) \in Seq(Missed)
        BY <3>4, AppendIs
      <4>3. QED
        BY <4>1, <4>2
    <3>6. Append(a, "none") \in Seq(Missed)
      <4>1. "none" \in Missed
        BY DEF Missed
      <4>2. QED
        BY <3>4, <4>1, AppendIs
    <3>7. a # <<>> => Front(a) \in Seq(Missed)
      BY <3>4, FrontIs
    <3>8. QED
      BY <2>3, <2>5, <3>3, <3>4, <3>5, <3>6, <3>7 DEF MissingStep
  <2>6. QED
    BY <2>4, <2>5
<1>3. QED
  BY <1>2 DEF S

\* The steps from one token to the next.
Opened(a, b, c) ==
    /\ Len(b) = Len(a) + 1 /\ b[Len(b)] = c
    /\ \A q \in 1..Len(a) : b[q] = a[q]

LEMMA MissingSteps ==
    ASSUME NEW C, NEW flow \in Seq(C), NEW i \in 1..Len(flow)
    PROVE  LET a == Missing(flow)[i - 1]
               b == Missing(flow)[i]
               k == flow[i]
           IN  /\ a \in Seq(Missed) /\ b \in Seq(Missed)
               /\ \/ k \in DOMAIN Closer /\ Opened(a, b, Closer[k])
                  \/ k \notin DOMAIN Closer /\ k \notin Range(Closer) /\ b = a
                  \/ k \in Range(Closer) /\ Opened(b, a, k)
                  \/ k \in Range(Closer) /\ Opened(a, b, "none")
<1> DEFINE a == Missing(flow)[i - 1]
           b == Missing(flow)[i]
           k == flow[i]
<1>1. i - 1 \in 0..Len(flow) /\ i \in 0..Len(flow) /\ i # 0
  OBVIOUS
<1>2. a \in Seq(Missed) /\ b \in Seq(Missed)
  BY <1>1, MissingType
<1>3. b = MissingStep(flow, i, a)
  BY <1>1, MissingRecursion
<1> HIDE DEF a, b
<1>4. \A c \in Missed : Opened(a, Append(a, c), c)
  BY <1>2, AppendIs DEF Opened
<1>5. a # <<>> => Opened(Front(a), a, a[Len(a)])
  <2>1. SUFFICES ASSUME a # <<>> PROVE Opened(Front(a), a, a[Len(a)])
    OBVIOUS
  <2>2. /\ Len(a) \in Nat /\ Len(a) # 0 /\ Len(Front(a)) = Len(a) - 1
        /\ \A q \in 1..Len(a) - 1 : Front(a)[q] = a[q]
    BY <1>2, <2>1, FrontIs
  <2>3. QED
    BY <2>2 DEF Opened
<1>6. CASE k \in DOMAIN Closer
  <2>1. b = Append(a, Closer[k]) /\ Closer[k] \in Missed
    BY <1>1, <1>3, <1>6, CloserIs DEF MissingStep, Missed
  <2>2. QED
    BY <1>2, <1>4, <1>6, <2>1 DEF a, b
<1>7. CASE k \notin DOMAIN Closer /\ k \notin Range(Closer)
  BY <1>1, <1>2, <1>3, <1>7 DEF MissingStep, a, b
<1>8. CASE k \notin DOMAIN Closer /\ k \in Range(Closer) /\ a # <<>> /\ Last(a) = k
  <2>1. b = Front(a) /\ a[Len(a)] = k
    BY <1>1, <1>3, <1>8 DEF MissingStep, Last
  <2>2. QED
    BY <1>2, <1>5, <1>8, <2>1 DEF a, b
<1>9. CASE k \notin DOMAIN Closer /\ k \in Range(Closer) /\ ~ (a # <<>> /\ Last(a) = k)
  <2>1. b = Append(a, "none") /\ "none" \in Missed
    BY <1>1, <1>3, <1>9 DEF MissingStep, Missed
  <2>2. QED
    BY <1>2, <1>4, <1>9, <2>1 DEF a, b
<1>10. QED
  BY <1>6, <1>7, <1>8, <1>9

\* A closer too many is missing for ever.
LEMMA NestedSteps ==
    ASSUME NEW C, NEW flow \in Seq(C), Nested(flow), NEW i \in 1..Len(flow)
    PROVE  ~ Opened(Missing(flow)[i - 1], Missing(flow)[i], "none")
<1> DEFINE S == Missing(flow)
           p == Len(S[i])
           Stuck(j) == p \in 1..Len(S[j]) /\ S[j][p] = "none"
           T == {j \in i..Len(flow) : ~Stuck(j)}
<1>1. SUFFICES ASSUME Opened(S[i - 1], S[i], "none") PROVE FALSE
  OBVIOUS
<1>2. /\ i \in Nat /\ i # 0 /\ Len(flow) \in Nat /\ i <= Len(flow)
      /\ \A j \in i - 1..Len(flow) : S[j] \in Seq(Missed)
  BY MissingType
<1>3. ASSUME NEW j \in i..Len(flow), j # i
      PROVE  LET a == S[j - 1]
                 b == S[j]
             IN  /\ a \in Seq(Missed) /\ b \in Seq(Missed)
                 /\ \/ \E c \in Missed : Opened(a, b, c)
                    \/ b = a
                    \/ Opened(b, a, flow[j]) /\ flow[j] \in Range(Closer)
  <2>1. j \in 1..Len(flow)
    BY <1>2
  <2>2. \A b \in DOMAIN Closer : Closer[b] \in Missed
    BY CloserIs DEF Missed
  <2>3. "none" \in Missed
    BY DEF Missed
  <2> HIDE DEF S
  <2>4. QED
    BY <2>1, <2>2, <2>3, MissingSteps DEF S
<1>4. S[Len(flow)] = <<>>
  BY DEF Nested
<1> HIDE DEF S
<1>5. Stuck(i)
  BY <1>1, <1>2 DEF Opened
<1>6. T = {}
  <2>1. SUFFICES ASSUME T # {} PROVE FALSE
    OBVIOUS
  <2>2. PICK k \in T : \A j \in T : k <= j
    <3>1. T \in SUBSET Nat
      BY <1>2
    <3> HIDE DEF T
    <3>2. QED
      BY <2>1, <3>1, LeastOf
  <2>3. k \in i..Len(flow) /\ ~Stuck(k) /\ k # i
    BY <1>5, <2>2
  <2>4. k - 1 \in i..Len(flow) /\ ~(k <= k - 1)
    BY <1>2, <2>3
  <2>5. Stuck(k - 1)
    BY <2>2, <2>4
  <2> DEFINE a == S[k - 1]
             b == S[k]
  <2>6. /\ a \in Seq(Missed) /\ b \in Seq(Missed)
        /\ \/ \E c \in Missed : Opened(a, b, c)
           \/ b = a
           \/ Opened(b, a, flow[k]) /\ flow[k] \in Range(Closer)
    BY <1>3, <2>3
  <2> HIDE DEF a, b, T, p
  <2>7. p \in 1..Len(a) /\ a[p] = "none"
    BY <2>5 DEF a
  <2>8. ~ (p \in 1..Len(b) /\ b[p] = "none")
    BY <2>3 DEF b
  <2>9. Len(a) \in Nat /\ Len(b) \in Nat
    BY <2>6
  <2>10. ~ \E c \in Missed : Opened(a, b, c)
    BY <2>7, <2>8, <2>9 DEF Opened
  <2>11. Opened(b, a, flow[k]) /\ flow[k] # "none"
    <3>1. "none" \notin Range(Closer)
      BY CloserIs
    <3>2. QED
      BY <2>6, <2>7, <2>8, <2>10, <3>1
  <2>12. p \in 1..Len(b) /\ b[p] = a[p]
    BY <2>7, <2>9, <2>11 DEF Opened
  <2>13. QED
    BY <2>7, <2>8, <2>12
<1>7. Stuck(Len(flow))
  BY <1>2, <1>6
<1>8. QED
  BY <1>4, <1>7
LEMMA OccursSame ==
    ASSUME NEW a, NEW b, NEW c, NEW n \in Nat, \A q \in 1..n : a[q] = b[q]
    PROVE  Occurs(a, c, 1, n) = Occurs(b, c, 1, n)
BY DEF Occurs

LEMMA OccursNext ==
    ASSUME NEW a, NEW c, NEW n \in Nat
    PROVE  /\ Cardinality(Occurs(a, c, 1, n)) \in Nat
           /\ Cardinality(Occurs(a, c, 1, n + 1))
                = Cardinality(Occurs(a, c, 1, n)) + (IF a[n + 1] = c THEN 1 ELSE 0)
<1>1. n + 1 \in Nat /\ n + 1 # 0 /\ n + 1 - 1 = n /\ n + 1 - 1 <= n + 1 /\ 1 \in Nat
  OBVIOUS
<1>2. Cardinality(Occurs(a, c, 1, n + 1))
        = Cardinality(Occurs(a, c, 1, n + 1 - 1)) + Cardinality(Occurs(a, c, n + 1, n + 1))
  BY <1>1, OccursSplit
<1>3. QED
  BY <1>1, <1>2, OccursIs, OccursOne

\* How often a closer is missing.
Misses(s, c) == Cardinality(Occurs(s, c, 1, Len(s)))

LEMMA OpenedMisses ==
    ASSUME NEW a \in Seq(Missed), NEW b \in Seq(Missed), NEW k, Opened(a, b, k), NEW c
    PROVE  Misses(a, c) \in Nat /\ Misses(b, c) = Misses(a, c) + (IF k = c THEN 1 ELSE 0)
<1>1. Len(a) \in Nat
  OBVIOUS
<1>2. Len(b) = Len(a) + 1 /\ b[Len(a) + 1] = k /\ \A q \in 1..Len(a) : b[q] = a[q]
  BY DEF Opened
<1>3. Occurs(a, c, 1, Len(a)) = Occurs(b, c, 1, Len(a))
  BY <1>1, <1>2, OccursSame
<1>4. /\ Cardinality(Occurs(b, c, 1, Len(a))) \in Nat
      /\ Cardinality(Occurs(b, c, 1, Len(a) + 1))
           = Cardinality(Occurs(b, c, 1, Len(a))) + (IF b[Len(a) + 1] = c THEN 1 ELSE 0)
  BY <1>1, OccursNext
<1>5. Misses(b, c) = Cardinality(Occurs(b, c, 1, Len(a) + 1))
  BY <1>2 DEF Misses
<1>6. Misses(a, c) = Cardinality(Occurs(b, c, 1, Len(a)))
  BY <1>3 DEF Misses
<1>7. QED
  BY <1>2, <1>4, <1>5, <1>6

LEMMA HeightIsMisses ==
    ASSUME NEW C, NEW flow \in Seq(C), Nested(flow), NEW b \in DOMAIN Closer, NEW i \in 0..Len(flow)
    PROVE  Height(flow, b, i) = Misses(Missing(flow)[i], Closer[b])
<1> DEFINE S == Missing(flow)
           h(j) == Height(flow, b, j)
           m(j) == Misses(S[j], Closer[b])
           T == {j \in 0..Len(flow) : h(j) # m(j)}
<1>1. T = {}
  <2>1. SUFFICES ASSUME T # {} PROVE FALSE
    OBVIOUS
  <2>2. PICK k \in T : \A j \in T : k <= j
    <3>1. T \in SUBSET Nat
      OBVIOUS
    <3> HIDE DEF T
    <3>2. QED
      BY <2>1, <3>1, LeastOf
  <2>3. k \in 0..Len(flow) /\ h(k) # m(k)
    BY <2>2
  <2>4. CASE k = 0
    <3>1. 1..0 = {} /\ 0 \in 0..Len(flow) /\ 0 \in Nat
      OBVIOUS
    <3>2. S[0] = <<>>
      BY <3>1, MissingRecursion DEF MissingStep
    <3>3. Len(S[0]) = 0
      BY <3>2
    <3>4. \A a, c : Occurs(a, c, 1, 0) = {}
      BY <3>1 DEF Occurs
    <3>5. Cardinality({}) = 0
      BY FS_EmptySet
    <3>6. h(0) = 0
      <4>1. h(0) = Cardinality({}) - Cardinality({})
        BY <3>4 DEF Height
      <4>2. QED
        BY <3>5, <4>1
    <3>7. m(0) = 0
      BY <3>3, <3>4, <3>5 DEF Misses
    <3> HIDE DEF h, m
    <3>8. QED
      BY <2>3, <2>4, <3>6, <3>7
  <2>5. CASE k # 0
    <3>1. k - 1 \in 0..Len(flow) /\ ~(k <= k - 1) /\ k \in 1..Len(flow) /\ k \in Nat
      BY <2>3, <2>5
    <3>2. h(k - 1) = m(k - 1)
      BY <2>2, <3>1
    <3>3. h(k - 1) \in Int /\ h(k) = h(k - 1) + Change(b, flow[k])
      BY <2>5, <3>1, HeightStep
    <3> DEFINE x == S[k - 1]
               y == S[k]
               t == flow[k]
    <3>4. /\ x \in Seq(Missed) /\ y \in Seq(Missed)
          /\ \/ t \in DOMAIN Closer /\ Opened(x, y, Closer[t])
             \/ t \notin DOMAIN Closer /\ t \notin Range(Closer) /\ y = x
             \/ t \in Range(Closer) /\ Opened(y, x, t)
      BY <3>1, MissingSteps, NestedSteps
    <3>5. m(k - 1) = Misses(x, Closer[b]) /\ m(k) = Misses(y, Closer[b])
      OBVIOUS
    <3> HIDE DEF h, m, T, S, x, y, t
    <3>6. Change(b, t) = IF t = b THEN 1 ELSE IF t = Closer[b] THEN -1 ELSE 0
      BY DEF Change
    <3>7. CASE t \in DOMAIN Closer /\ Opened(x, y, Closer[t])
      <4>1. t # Closer[b] /\ (Closer[t] = Closer[b] <=> t = b)
        BY <3>7, CloserIs
      <4>2. Misses(y, Closer[b]) = Misses(x, Closer[b]) + (IF Closer[t] = Closer[b] THEN 1 ELSE 0)
        BY <3>4, <3>7, OpenedMisses
      <4>3. QED
        BY <2>3, <3>2, <3>3, <3>5, <3>6, <4>1, <4>2 DEF t
    <3>8. CASE t \notin DOMAIN Closer /\ t \notin Range(Closer) /\ y = x
      <4>1. t # b /\ t # Closer[b]
        BY <3>8, CloserIs
      <4>2. QED
        BY <2>3, <3>2, <3>3, <3>5, <3>6, <3>8, <4>1 DEF t
    <3>9. CASE t \in Range(Closer) /\ Opened(y, x, t)
      <4>1. t # b
        BY <3>9, CloserIs
      <4>2. /\ Misses(y, Closer[b]) \in Nat
            /\ Misses(x, Closer[b]) = Misses(y, Closer[b]) + (IF t = Closer[b] THEN 1 ELSE 0)
        BY <3>4, <3>9, OpenedMisses
      <4>3. QED
        BY <2>3, <3>2, <3>3, <3>5, <3>6, <4>1, <4>2 DEF t
    <3>10. QED
      BY <3>4, <3>7, <3>8, <3>9
  <2>6. QED
    BY <2>4, <2>5
<1>2. QED
  BY <1>1

\* The bracket at i is closed where no more closers are missing than before it.
Back(flow, i, e) ==
    /\ Len(Missing(flow)[e]) = Len(Missing(flow)[i - 1])
    /\ \A j \in i..e - 1 : Len(Missing(flow)[j]) > Len(Missing(flow)[i - 1])

LEMMA MissesMore ==
    ASSUME NEW a \in Seq(Missed), NEW b \in Seq(Missed), NEW c, Len(b) > Len(a),
           b[Len(a) + 1] = c, \A q \in 1..Len(a) : b[q] = a[q]
    PROVE  Misses(b, c) > Misses(a, c)
<1>1. /\ Len(a) \in Nat /\ Len(a) + 2 \in Nat /\ Len(a) + 2 # 0 /\ Len(b) \in Nat
      /\ Len(a) + 2 - 1 <= Len(b) /\ Len(a) + 2 - 1 = Len(a) + 1
  OBVIOUS
<1>2. Occurs(a, c, 1, Len(a)) = Occurs(b, c, 1, Len(a))
  BY <1>1, OccursSame
<1>3. /\ Cardinality(Occurs(b, c, 1, Len(a))) \in Nat
      /\ Cardinality(Occurs(b, c, 1, Len(a) + 1)) = Cardinality(Occurs(b, c, 1, Len(a))) + 1
  BY <1>1, OccursNext
<1>4. /\ Cardinality(Occurs(b, c, Len(a) + 2, Len(b))) \in Nat
      /\ Cardinality(Occurs(b, c, 1, Len(b)))
           = Cardinality(Occurs(b, c, 1, Len(a) + 1)) + Cardinality(Occurs(b, c, Len(a) + 2, Len(b)))
  <2> DEFINE m == Len(a) + 2
             n == Len(b)
  <2>1. m \in Nat /\ m # 0 /\ n \in Nat /\ m - 1 <= n
    BY <1>1
  <2>2. m - 1 = Len(a) + 1
    BY <1>1
  <2> HIDE DEF m, n
  <2>3. /\ Cardinality(Occurs(b, c, m, n)) \in Nat
        /\ Cardinality(Occurs(b, c, 1, n))
             = Cardinality(Occurs(b, c, 1, m - 1)) + Cardinality(Occurs(b, c, m, n))
    BY <2>1, OccursIs, OccursSplit
  <2>4. QED
    BY <2>2, <2>3 DEF m, n
<1>5. QED
  BY <1>2, <1>3, <1>4 DEF Misses

LEMMA NestedBack ==
    ASSUME NEW C, NEW flow \in Seq(C), Nested(flow), NEW i \in 1..Len(flow), flow[i] \in DOMAIN Closer
    PROVE  \E e \in i + 1..Len(flow) : Back(flow, i, e) /\ Closes(flow, i, e)
<1> DEFINE S == Missing(flow)
           N == Len(flow)
           H(j) == Len(S[j])
           c == Closer[flow[i]]
           Low == {j \in i..N : H(j) <= H(i - 1)}
<1>1. N \in Nat /\ i \in Nat /\ i # 0 /\ i <= N /\ i - 1 \in 0..N
  OBVIOUS
<1>2. \A j \in 0..N : S[j] \in Seq(Missed) /\ H(j) \in Nat
  <2>1. \A j \in 0..N : S[j] \in Seq(Missed)
    BY MissingType
  <2> HIDE DEF S
  <2>2. QED
    BY <2>1
<1>3. \A j \in 1..N :
        \/ flow[j] \in DOMAIN Closer /\ Opened(S[j - 1], S[j], Closer[flow[j]])
        \/ flow[j] \notin DOMAIN Closer /\ flow[j] \notin Range(Closer) /\ S[j] = S[j - 1]
        \/ flow[j] \in Range(Closer) /\ Opened(S[j], S[j - 1], flow[j])
  BY MissingSteps, NestedSteps
<1>4. S[N] = <<>>
  BY DEF Nested
<1>5. Opened(S[i - 1], S[i], c)
  <2>1. flow[i] \notin Range(Closer)
    BY CloserIs
  <2> HIDE DEF S
  <2>2. QED
    BY <1>3, <2>1
<1>6. \A j \in 0..N : Height(flow, flow[i], j) = Misses(S[j], c)
  BY HeightIsMisses
<1> HIDE DEF S, c
<1>7. H(N) = 0 /\ N \in Low
  <2>1. H(N) = 0
    BY <1>4
  <2>2. QED
    BY <1>1, <1>2, <2>1
<1>8. PICK e \in Low : \A j \in Low : e <= j
  <2>1. Low \in SUBSET Nat
    BY <1>1
  <2> HIDE DEF Low
  <2>2. QED
    BY <1>7, <2>1, LeastOf
<1>9. e \in i..N /\ H(e) <= H(i - 1) /\ \A j \in i..e - 1 : H(j) > H(i - 1)
  <2>1. e \in i..N /\ H(e) <= H(i - 1)
    BY <1>8
  <2>2. ASSUME NEW j \in i..e - 1
        PROVE  H(j) > H(i - 1)
    <3>1. j \in i..N /\ ~ (e <= j) /\ j \in 0..N
      BY <1>1, <2>1
    <3>2. j \notin Low
      BY <1>8, <3>1
    <3> HIDE DEF H
    <3>3. QED
      BY <1>1, <1>2, <3>1, <3>2
  <2>3. QED
    BY <2>1, <2>2
<1> HIDE DEF Low, H
<1>10. /\ H(i) = H(i - 1) + 1 /\ S[i][H(i - 1) + 1] = c
       /\ \A q \in 1..H(i - 1) : S[i][q] = S[i - 1][q]
  BY <1>5 DEF Opened, H
<1>11. e # i /\ e \in i + 1..N /\ e - 1 \in i..e - 1 /\ e - 1 \in 0..N /\ e \in 0..N
  BY <1>1, <1>2, <1>9, <1>10
\* What was missing at the bracket is missing until then.
<1> DEFINE Kept(j) == S[j][H(i - 1) + 1] = c /\ \A q \in 1..H(i - 1) : S[j][q] = S[i - 1][q]
           T == {j \in i..e - 1 : ~Kept(j)}
<1>12. T = {}
  <2>1. SUFFICES ASSUME T # {} PROVE FALSE
    OBVIOUS
  <2>2. PICK k \in T : \A j \in T : k <= j
    <3>1. T \in SUBSET Nat
      BY <1>1
    <3> HIDE DEF T
    <3>2. QED
      BY <2>1, <3>1, LeastOf
  <2>3. k \in i..e - 1 /\ ~Kept(k) /\ k # i
    BY <1>10, <2>2
  <2>4. k - 1 \in i..e - 1 /\ ~(k <= k - 1) /\ k \in 1..N /\ k - 1 \in 0..N /\ k \in 0..N
    BY <1>1, <1>9, <2>3
  <2>5. Kept(k - 1) /\ H(k - 1) > H(i - 1) /\ H(k) > H(i - 1) /\ H(i - 1) \in Nat
        /\ H(k - 1) \in Nat /\ H(k) \in Nat
    BY <1>1, <1>2, <1>9, <2>2, <2>3, <2>4
  <2> HIDE DEF T
  <2>6. \A q \in 1..H(i - 1) + 1 : q \in 1..H(k - 1) /\ q \in 1..H(k)
    BY <2>5
  <2>7. \/ \E x : Opened(S[k - 1], S[k], x)
        \/ S[k] = S[k - 1]
        \/ \E x : Opened(S[k], S[k - 1], x)
    BY <1>3, <2>4
  <2>8. \A q \in 1..H(i - 1) + 1 : S[k][q] = S[k - 1][q]
    BY <2>6, <2>7 DEF Opened, H
  <2>9. H(i - 1) + 1 \in 1..H(i - 1) + 1 /\ \A q \in 1..H(i - 1) : q \in 1..H(i - 1) + 1
    BY <2>5
  <2>10. QED
    BY <2>3, <2>5, <2>8, <2>9
<1>13. \A j \in i..e - 1 : Kept(j)
  BY <1>12
<1>14. H(e) = H(i - 1) /\ flow[e] = c /\ \A q \in 1..H(i - 1) : S[e][q] = S[i - 1][q]
  <2>1. e \in 1..N /\ H(e - 1) > H(i - 1) /\ H(e - 1) \in Nat /\ H(e) \in Nat /\ H(i - 1) \in Nat
    BY <1>1, <1>2, <1>9, <1>11
  <2>2. Opened(S[e], S[e - 1], flow[e])
    <3>1. H(e) < H(e - 1)
      BY <1>9, <2>1
    <3>2. ~ \E x : Opened(S[e - 1], S[e], x)
      BY <2>1, <3>1 DEF Opened, H
    <3>3. S[e] # S[e - 1]
      BY <2>1, <3>1 DEF H
    <3>4. QED
      BY <1>3, <2>1, <3>2, <3>3
  <2>3. H(e - 1) = H(e) + 1 /\ S[e - 1][H(e) + 1] = flow[e] /\ \A q \in 1..H(e) : S[e - 1][q] = S[e][q]
    BY <2>2 DEF Opened, H
  <2>4. H(e) = H(i - 1)
    BY <1>9, <2>1, <2>3
  <2>5. Kept(e - 1)
    BY <1>11, <1>13
  <2>6. QED
    BY <2>3, <2>4, <2>5
<1>15. Back(flow, i, e)
  BY <1>9, <1>14 DEF Back, H, S
<1>16. Misses(S[e], c) = Misses(S[i - 1], c)
  <2>1. H(i - 1) \in Nat
    BY <1>1, <1>2
  <2>2. Occurs(S[e], c, 1, H(i - 1)) = Occurs(S[i - 1], c, 1, H(i - 1))
    BY <1>14, <2>1, OccursSame
  <2>3. QED
    BY <1>14, <2>2 DEF Misses, H
<1>17. \A j \in i..e - 1 : Misses(S[j], c) > Misses(S[i - 1], c)
  <2>1. ASSUME NEW j \in i..e - 1
        PROVE  Misses(S[j], c) > Misses(S[i - 1], c)
    <3>1. j \in 0..N /\ S[j] \in Seq(Missed) /\ S[i - 1] \in Seq(Missed)
      BY <1>1, <1>2, <1>9
    <3>2. H(j) > H(i - 1) /\ Kept(j)
      BY <1>9, <1>13
    <3>3. QED
      BY <3>1, <3>2, MissesMore DEF H
  <2>2. QED
    BY <2>1
<1>18. Closes(flow, i, e)
  <2>1. \A j \in i..e - 1 : j \in 0..N
    BY <1>1, <1>11
  <2>2. QED
    BY <1>1, <1>6, <1>11, <1>14, <1>16, <1>17, <2>1 DEF Closes, c
<1>19. QED
  BY <1>11, <1>15, <1>18

\* In a nested flow every bracket is closed, and closed within those around it.
LEMMA NestedCloses ==
    ASSUME NEW C, NEW flow \in Seq(C), Nested(flow), NEW i \in 1..Len(flow), flow[i] \in DOMAIN Closer
    PROVE  /\ ClosingBracket(flow, i) \in i + 1..Len(flow) /\ Back(flow, i, ClosingBracket(flow, i))
           /\ flow[ClosingBracket(flow, i)] = Closer[flow[i]]
<1>1. PICK e \in i + 1..Len(flow) : Back(flow, i, e) /\ Closes(flow, i, e)
  BY NestedBack
<1>2. ClosingBracket(flow, i) = e
  BY <1>1, ClosingUnique
<1>3. QED
  BY <1>1, <1>2 DEF Closes

LEMMA ClosesWithin ==
    ASSUME NEW C, NEW flow \in Seq(C), Nested(flow), NEW i \in 1..Len(flow), flow[i] \in DOMAIN Closer,
           NEW j \in i + 1..ClosingBracket(flow, i) - 1, flow[j] \in DOMAIN Closer
    PROVE  ClosingBracket(flow, j) < ClosingBracket(flow, i)
<1> DEFINE e == ClosingBracket(flow, i)
           f == ClosingBracket(flow, j)
           H(k) == Len(Missing(flow)[k])
<1>1. e \in i + 1..Len(flow) /\ Back(flow, i, e)
  BY NestedCloses
<1>2. i \in Nat /\ i # 0 /\ Len(flow) \in Nat /\ e \in Nat /\ j \in Nat /\ j \in 1..Len(flow)
  BY <1>1
<1>3. f \in j + 1..Len(flow) /\ Back(flow, j, f)
  BY <1>2, NestedCloses
<1>4. \A k \in 0..Len(flow) : H(k) \in Nat
  BY MissingType
<1>5. H(e) = H(i - 1) /\ \A k \in i..e - 1 : H(k) > H(i - 1)
  BY <1>1 DEF Back
<1>6. H(f) = H(j - 1) /\ \A k \in j..f - 1 : H(k) > H(j - 1)
  BY <1>3 DEF Back
<1> HIDE DEF H, e, f
<1>7. H(j - 1) > H(i - 1)
  <2>1. j \in i + 1..e - 1
    BY DEF e
  <2>2. j - 1 \in i..e - 1
    BY <1>2, <2>1
  <2>3. QED
    BY <1>5, <2>2
<1>8. e # f /\ ~ (e \in j..f - 1)
  <2>1. e \in 0..Len(flow) /\ j - 1 \in 0..Len(flow) /\ i - 1 \in 0..Len(flow)
    BY <1>1, <1>2
  <2>2. QED
    BY <1>4, <1>5, <1>6, <1>7, <2>1
<1>9. j <= e
  <2>1. j \in i + 1..e - 1
    BY DEF e
  <2>2. QED
    BY <1>2, <2>1
<1>10. f < e
  BY <1>1, <1>2, <1>3, <1>8, <1>9
<1>11. QED
  BY <1>10 DEF e, f
-----------------------------------------------------------------------------
(* Tokens, and what one call of the descent makes of the calls inside it.    *)

TokensOK == res \in Seq(TokenSet)
Token_ == Characters \cup {"word"}
Opening == {<<"[">>, <<"{">>}
KindOfList(k) == IF k = <<"[">> THEN "array" ELSE "object"
CloseOf(k) == IF k = <<"[">> THEN <<"]">> ELSE <<"}">>

LEMMA KwIs ==
    ASSUME TokensOK
    PROVE  /\ Len(res) \in Nat
           /\ \A i \in 1..Len(res) : Kw(i) \in Seq(Characters)
           /\ \A i : i \notin 1..Len(res) => Kw(i) = <<"undefined">>
<1>1. Len(res) \in Nat /\ \A i \in 1..Len(res) : res[i] \in TokenSet
  BY DEF TokensOK
<1>2. \A i \in 1..Len(res) : Kw(i) = res[i].kw
  BY DEF Kw
<1>3. \A i \in 1..Len(res) : res[i].kw \in Seq(Characters)
  BY <1>1 DEF TokenSet
<1>4. \A i : i \notin 1..Len(res) => Kw(i) = <<"undefined">>
  BY DEF Kw
<1>5. QED
  BY <1>1, <1>2, <1>3, <1>4

LEMMA OneElement ==
    ASSUME NEW C, NEW s \in Seq(C), Len(s) = 1
    PROVE  s = <<s[1]>> /\ s[1] \in C
OBVIOUS

LEMMA OneElementOf ==
    ASSUME NEW c, NEW s, s = <<c>>
    PROVE  Len(s) = 1 /\ s[1] = c
OBVIOUS

\* A token of one character that is no "undefined" is among the tokens.
LEMMA TokenIsThere ==
    ASSUME TokensOK, NEW i, NEW c, c # "undefined", Kw(i) = <<c>>
    PROVE  i \in 1..Len(res)
<1>1. <<"undefined">>[1] = "undefined" /\ <<c>>[1] = c
  OBVIOUS
<1>2. QED
  BY <1>1, KwIs

LEMMA BracketsAre ==
    ASSUME TokensOK
    PROVE  /\ Brackets \in Seq(Token_) /\ Len(Brackets) = Len(res)
           /\ \A i \in 1..Len(res) :
                /\ Len(Kw(i)) # 1 => Brackets[i] = "word"
                /\ Len(Kw(i)) = 1 => Brackets[i] = Kw(i)[1] /\ Kw(i) = <<Brackets[i]>>
<1>1. ASSUME NEW i \in 1..Len(res), Len(Kw(i)) = 1
      PROVE  Kw(i)[1] \in Characters /\ Kw(i) = <<Kw(i)[1]>>
  <2>1. Kw(i) \in Seq(Characters)
    BY KwIs
  <2>2. Kw(i) = <<Kw(i)[1]>>
    BY <1>1, <2>1, OneElement
  <2>3. Kw(i)[1] \in Characters
    BY <1>1, <2>1, OneElement
  <2>4. QED
    BY <2>2, <2>3
<1>2. Brackets = [i \in 1..Len(res) |-> IF Len(Kw(i)) = 1 THEN Kw(i)[1] ELSE "word"]
  BY DEF Brackets
<1>3. \A i \in 1..Len(res) : (IF Len(Kw(i)) = 1 THEN Kw(i)[1] ELSE "word") \in Token_
  BY <1>1 DEF Token_
<1>4. Len(res) \in Nat
  BY KwIs
<1>5. Brackets \in Seq(Token_) /\ Len(Brackets) = Len(res)
  BY <1>2, <1>3, <1>4
<1>6. QED
  BY <1>1, <1>2, <1>5

\* A bracket is a token of its own.
LEMMA BracketIs ==
    ASSUME TokensOK, NEW i \in 1..Len(res), NEW c, c # "word"
    PROVE  Brackets[i] = c <=> Kw(i) = <<c>>
<1>1. CASE Len(Kw(i)) = 1
  <2>1. Brackets[i] = Kw(i)[1] /\ Kw(i) = <<Brackets[i]>>
    BY <1>1, BracketsAre
  <2>2. Kw(i) = <<c>> => Kw(i)[1] = c
    BY OneElementOf
  <2>3. QED
    BY <2>1, <2>2
<1>2. CASE Len(Kw(i)) # 1
  <2>1. Brackets[i] = "word"
    BY <1>2, BracketsAre
  <2>2. Kw(i) # <<c>>
    BY <1>2, OneElementOf
  <2>3. QED
    BY <2>1, <2>2
<1>3. QED
  BY <1>1, <1>2

\* One token that is a value, a key or between values is no bracket.
LEMMA NoBrackets ==
    ASSUME NEW k, IsScalar(k) \/ IsStringLiteral(k) \/ k = <<":">> \/ k = <<",">>,
           NEW b \in {"(", "[", "{", ")", "]", "}"}
    PROVE  k # <<b>>
<1>1. SUFFICES ASSUME k = <<b>> PROVE FALSE
  OBVIOUS
<1>2. Len(k) = 1 /\ k[1] = b
  BY <1>1, OneElementOf
<1>3. k # <<":">> /\ k # <<",">>
  <2>1. k = <<":">> => k[1] = ":"
    BY OneElementOf
  <2>2. k = <<",">> => k[1] = ","
    BY OneElementOf
  <2>3. b # ":" /\ b # ","
    OBVIOUS
  <2>4. QED
    BY <1>2, <2>1, <2>2, <2>3
<1>4. b # "\"" /\ b # "'" /\ b # "bq" /\ b \notin Digits /\ b # "-"
  BY DEF Digits
<1>5. ~IsStringLiteral(k) /\ ~IsNumeric(k) /\ k[1] # "\""
  BY <1>2, <1>4 DEF IsStringLiteral, IsNumeric, const_str_set
<1>6. k \notin Booleans \cup {Null}
  <2>1. <<"t", "r", "u", "e">>[1] \notin {"(", "[", "{", ")", "]", "}"}
    OBVIOUS
  <2>2. <<"f", "a", "l", "s", "e">>[1] \notin {"(", "[", "{", ")", "]", "}"}
    OBVIOUS
  <2>3. <<"n", "u", "l", "l">>[1] \notin {"(", "[", "{", ")", "]", "}"}
    OBVIOUS
  <2>4. QED
    BY <1>2, <2>1, <2>2, <2>3 DEF Booleans, Null
<1>7. QED
  BY <1>3, <1>5, <1>6 DEF IsScalar

LEMMA OpeningIs ==
    ASSUME TokensOK, NEW i \in 1..Len(res), Kw(i) \in Opening
    PROVE  /\ i \in 1..Len(Brackets) /\ Brackets[i] \in DOMAIN Closer
           /\ \A j \in 1..Len(res) : Brackets[j] = Closer[Brackets[i]] <=> Kw(j) = CloseOf(Kw(i))
           /\ KindOfList(Kw(i)) \in {"array", "object"}
<1>1. /\ "[" # "word" /\ "{" # "word" /\ "]" # "word" /\ "}" # "word" /\ <<"[">> # <<"{">>
      /\ Len(Brackets) = Len(res)
  BY BracketsAre
<1>2. CASE Kw(i) = <<"[">>
  <2>1. Brackets[i] = "["
    BY <1>1, <1>2, BracketIs
  <2>2. Closer[Brackets[i]] = "]" /\ CloseOf(Kw(i)) = <<"]">> /\ Brackets[i] \in DOMAIN Closer
    BY <1>2, <2>1, CloserIs DEF CloseOf
  <2>3. QED
    BY <1>1, <2>2, BracketIs DEF KindOfList
<1>3. CASE Kw(i) = <<"{">>
  <2>1. Brackets[i] = "{"
    BY <1>1, <1>3, BracketIs
  <2>2. Closer[Brackets[i]] = "}" /\ CloseOf(Kw(i)) = <<"}">> /\ Brackets[i] \in DOMAIN Closer
    BY <1>1, <1>3, <2>1, CloserIs DEF CloseOf
  <2>3. QED
    BY <1>1, <2>2, BracketIs DEF KindOfList
<1>4. QED
  BY <1>2, <1>3 DEF Opening

LEMMA ResultIs ==
    ASSUME NEW tr, NEW i, NEW t, NEW v, NEW a, NEW o
    PROVE  /\ Result(tr, i).at = i /\ Result(tr, i).tree = tr /\ Fail(i).at = i
           /\ Tree(t, v, a, o).t = t /\ Leaf(t, v).t = t
BY DEF Result, Fail, Tree, Leaf

LEMMA ScalarIs ==
    ASSUME NEW k
    PROVE  /\ Scalar(k).t = "none" <=> ~IsScalar(k)
           /\ Scalar(k).t \notin {"array", "object"}
<1>1. \A t, v : Leaf(t, v).t = t
  BY ResultIs
<1>2. /\ k = Null => Scalar(k) = Leaf("null", k)
      /\ k # Null /\ k[1] = "\"" => Scalar(k) = Leaf("string", toStringContent(k))
      /\ k # Null /\ k[1] # "\"" /\ IsNumeric(k) => Scalar(k) = Leaf("number", k)
      /\ k # Null /\ k[1] # "\"" /\ ~IsNumeric(k) /\ k \in Booleans => Scalar(k) = Leaf("boolean", k)
      /\ ~IsScalar(k) => Scalar(k) = Leaf("none", k)
  BY DEF Scalar, IsScalar
<1>3. IsScalar(k) <=> k = Null \/ k[1] = "\"" \/ IsNumeric(k) \/ k \in Booleans
  <2>1. \A A : k \in A \cup {Null} <=> k \in A \/ k = Null
    OBVIOUS
  <2>2. QED
    BY <2>1 DEF IsScalar
<1>4. ASSUME IsScalar(k)
      PROVE  \E t \in {"null", "string", "number", "boolean"} : \E v : Scalar(k) = Leaf(t, v)
  <2>1. CASE k = Null
    BY <1>2, <2>1
  <2>2. CASE k # Null /\ k[1] = "\""
    BY <1>2, <2>2
  <2>3. CASE k # Null /\ k[1] # "\"" /\ IsNumeric(k)
    BY <1>2, <2>3
  <2>4. CASE k # Null /\ k[1] # "\"" /\ ~IsNumeric(k)
    BY <1>2, <1>3, <1>4, <2>4
  <2>5. QED
    BY <2>1, <2>2, <2>3, <2>4
<1>5. ~IsScalar(k) => Scalar(k).t = "none"
  BY <1>1, <1>2
<1>6. IsScalar(k) => Scalar(k).t \in {"null", "string", "number", "boolean"}
  BY <1>1, <1>2, <1>4
<1>7. \A t \in {"null", "string", "number", "boolean"} : t # "none" /\ t \notin {"array", "object"}
  OBVIOUS
<1>8. "none" \notin {"array", "object"}
  OBVIOUS
<1>9. QED
  BY <1>5, <1>6, <1>7, <1>8

\* What ResolveValue returns.
Valued(read, i, r) ==
    LET k == Kw(i)
        end == ClosingBracket(Brackets, i)
    IN  IF i > Len(res) THEN r.at = Overrun
        ELSE IF k \in Opening
             THEN IF end <= 0 THEN r.at = end
                  ELSE IF end = i + 1 THEN r.at = end /\ r.tree.t = KindOfList(k)
                  ELSE r = read[<<KindOfList(k), i + 1, end>>]
        ELSE IF IsScalar(k) THEN r.at = i /\ r.tree.t \notin {"array", "object"}
        ELSE r.at = Thrown

\* What ResolveArray and ResolveObject return.
From(kind, i) == IF kind = "object" THEN i + 2 ELSE i
Keyed(kind, i) == kind = "object" => IsStringLiteral(Kw(i)) /\ Kw(i + 1) = <<":">>
Listed(read, kind, i, e, r) ==
    LET x == read[<<"value", From(kind, i), 0>>]
        rest == read[<<kind, x.at + 2, e>>]
    IN  IF ~Keyed(kind, i) THEN r.at = Thrown
        ELSE IF x.at <= 0 THEN r = x
        ELSE IF x.at + 1 = e THEN r.at = e /\ r.tree.t = kind
        ELSE IF Kw(x.at + 1) # <<",">> THEN r.at = Thrown
        ELSE IF rest.at <= 0 THEN r = rest
        ELSE r.at = rest.at /\ r.tree.t = kind

StepOf(read, c) ==
    IF c[1] = "value" THEN ResolveValue(read, c[2])
    ELSE IF c[1] = "array" THEN ResolveArray(read, c[2], c[3])
    ELSE ResolveObject(read, c[2], c[3])

LEMMA ValuedIs ==
    ASSUME NEW read, NEW i, NEW e
    PROVE  Valued(read, i, StepOf(read, <<"value", i, e>>))
<1> DEFINE k == Kw(i)
           end == ClosingBracket(Brackets, i)
           r == StepOf(read, <<"value", i, e>>)
<1>1. r = IF i > Len(res) THEN Fail(Overrun)
          ELSE IF k \in Opening
               THEN IF end <= 0 THEN Fail(end)
                    ELSE IF end = i + 1 THEN Result(Leaf(KindOfList(k), <<>>), end)
                    ELSE read[<<KindOfList(k), i + 1, end>>]
          ELSE IF Scalar(k).t = "none" THEN Fail(Thrown)
          ELSE Result(Scalar(k), i)
  <2>1. r = ResolveValue(read, i)
    BY DEF StepOf
  <2>2. QED
    BY <2>1 DEF ResolveValue, Opening, KindOfList
<1>2. \A n : Fail(n).at = n
  BY ResultIs
<1>3. \A n, t : Result(Leaf(t, <<>>), n).at = n /\ Result(Leaf(t, <<>>), n).tree.t = t
  BY ResultIs
<1>4. Result(Scalar(k), i).at = i /\ Result(Scalar(k), i).tree = Scalar(k)
  BY ResultIs
<1>5. (Scalar(k).t = "none" <=> ~IsScalar(k)) /\ Scalar(k).t \notin {"array", "object"}
  BY ScalarIs
<1> HIDE DEF k, end, r
<1>6. Valued(read, i, r)
  <2>1. Valued(read, i, r)
          <=> IF i > Len(res) THEN r.at = Overrun
              ELSE IF k \in Opening
                   THEN IF end <= 0 THEN r.at = end
                        ELSE IF end = i + 1 THEN r.at = end /\ r.tree.t = KindOfList(k)
                        ELSE r = read[<<KindOfList(k), i + 1, end>>]
              ELSE IF IsScalar(k) THEN r.at = i /\ r.tree.t \notin {"array", "object"}
              ELSE r.at = Thrown
    BY DEF Valued, k, end
  <2>2. CASE i > Len(res)
    BY <1>1, <1>2, <2>1, <2>2
  <2>3. CASE ~(i > Len(res)) /\ k \in Opening
    BY <1>1, <1>2, <1>3, <2>1, <2>3
  <2>4. CASE ~(i > Len(res)) /\ k \notin Opening
    BY <1>1, <1>2, <1>4, <1>5, <2>1, <2>4
  <2>5. QED
    BY <2>2, <2>3, <2>4
<1>7. QED
  BY <1>6 DEF r

LEMMA ListedIs ==
    ASSUME NEW read, NEW kind \in {"array", "object"}, NEW i, NEW e
    PROVE  Listed(read, kind, i, e, StepOf(read, <<kind, i, e>>))
<1> DEFINE x == read[<<"value", From(kind, i), 0>>]
           rest == read[<<kind, x.at + 2, e>>]
           r == StepOf(read, <<kind, i, e>>)
<1>1. \E a, b : /\ a.t = kind /\ b.t = kind
               /\ r = IF ~Keyed(kind, i) THEN Fail(Thrown)
                      ELSE IF x.at <= 0 THEN x
                      ELSE IF x.at + 1 = e THEN Result(a, e)
                      ELSE IF Kw(x.at + 1) # <<",">> THEN Fail(Thrown)
                      ELSE IF rest.at <= 0 THEN rest
                      ELSE Result(b, rest.at)
  <2>1. CASE kind = "array"
    <3> DEFINE a == Tree("array", <<>>, <<x.tree>>, <<>>)
               b == Tree("array", <<>>, <<x.tree>> \o rest.tree.arr, <<>>)
    <3>1. r = ResolveArray(read, i, e) /\ From(kind, i) = i /\ Keyed(kind, i)
      BY <2>1 DEF StepOf, From, Keyed
    <3>2. r = IF x.at <= 0 THEN x
              ELSE IF x.at + 1 = e THEN Result(a, e)
              ELSE IF Kw(x.at + 1) # <<",">> THEN Fail(Thrown)
              ELSE IF rest.at <= 0 THEN rest
              ELSE Result(b, rest.at)
      BY <2>1, <3>1 DEF ResolveArray
    <3>3. a.t = "array" /\ b.t = "array"
      BY ResultIs
    <3> HIDE DEF a, b, x, rest, r
    <3>4. QED
      BY <2>1, <3>1, <3>2, <3>3
  <2>2. CASE kind = "object"
    <3> DEFINE key == toStringContent(Kw(i))
               Members(o) == [k \in DOMAIN o \cup {key} |-> IF k \in DOMAIN o THEN o[k] ELSE x.tree]
               a == Tree("object", <<>>, <<>>, Members(<<>>))
               b == Tree("object", <<>>, <<>>, Members(rest.tree.obj))
    <3>1. r = ResolveObject(read, i, e) /\ From(kind, i) = i + 2
          /\ (Keyed(kind, i) <=> IsStringLiteral(Kw(i)) /\ Kw(i + 1) = <<":">>)
      BY <2>2 DEF StepOf, From, Keyed
    <3>2. r = IF ~IsStringLiteral(Kw(i)) \/ Kw(i + 1) # <<":">> THEN Fail(Thrown)
              ELSE IF x.at <= 0 THEN x
              ELSE IF x.at + 1 = e THEN Result(a, e)
              ELSE IF Kw(x.at + 1) # <<",">> THEN Fail(Thrown)
              ELSE IF rest.at <= 0 THEN rest
              ELSE Result(b, rest.at)
      BY <2>2, <3>1 DEF ResolveObject
    <3>3. a.t = "object" /\ b.t = "object"
      BY SMTT(30), ResultIs
    <3> HIDE DEF a, b, x, rest, r
    <3>4. QED
      BY <2>2, <3>1, <3>2, <3>3
  <2>3. QED
    BY <2>1, <2>2
<1>2. \A n : Fail(n).at = n
  BY ResultIs
<1>3. \A n, t : Result(t, n).at = n /\ Result(t, n).tree = t
  BY ResultIs
<1>4. Listed(read, kind, i, e, r)
         <=> IF ~Keyed(kind, i) THEN r.at = Thrown
             ELSE IF x.at <= 0 THEN r = x
             ELSE IF x.at + 1 = e THEN r.at = e /\ r.tree.t = kind
             ELSE IF Kw(x.at + 1) # <<",">> THEN r.at = Thrown
             ELSE IF rest.at <= 0 THEN r = rest
             ELSE r.at = rest.at /\ r.tree.t = kind
  BY DEF Listed
<1> HIDE DEF x, rest, r
<1>5. Listed(read, kind, i, e, r)
  <2>1. PICK a, b : /\ a.t = kind /\ b.t = kind
                    /\ r = IF ~Keyed(kind, i) THEN Fail(Thrown)
                           ELSE IF x.at <= 0 THEN x
                           ELSE IF x.at + 1 = e THEN Result(a, e)
                           ELSE IF Kw(x.at + 1) # <<",">> THEN Fail(Thrown)
                           ELSE IF rest.at <= 0 THEN rest
                           ELSE Result(b, rest.at)
    BY <1>1
  <2>2. Result(a, e).at = e /\ Result(b, rest.at).at = rest.at /\ Fail(Thrown).at = Thrown
        /\ Result(a, e).tree = a /\ Result(b, rest.at).tree = b
    BY <1>2, <1>3
  <2>3. QED
    BY <1>4, <2>1, <2>2
<1>6. QED
  BY <1>5 DEF r

-----------------------------------------------------------------------------
(* The descent: what a call returns, and that it is a function of the calls  *)
(* inside it, which have less before them.                                   *)

Lists == {"array", "object"}
Rank(c) == 2 * (Len(res) + 1 - c[2]) + (IF c[1] = "value" THEN 0 ELSE 1)
End(i) == ClosingBracket(Brackets, i)

\* A value ends at one of its tokens, what is read up to a bracket ends there.
Ret(r, c) ==
    /\ r.at \in Int
    /\ r.at > 0 /\ c[1] = "value" =>
         r.at \in c[2]..Len(res) /\ (r.tree.t \in Lists <=> Kw(c[2]) \in Opening)
    /\ r.at > 0 /\ c[1] # "value" => r.at = c[3] /\ r.tree.t = c[1]

LEMMA CallIs ==
    ASSUME TokensOK
    PROVE  /\ \A c \in Calls : /\ c[1] \in {"value", "array", "object"}
                               /\ c[2] \in 1..Len(res) + 1 /\ c[3] \in 0..Len(res)
                               /\ c = <<c[1], c[2], c[3]>> /\ Rank(c) \in Nat
           /\ \A k \in {"value", "array", "object"}, i \in 1..Len(res) + 1, e \in 0..Len(res) :
                /\ <<k, i, e>> \in Calls
                /\ <<k, i, e>>[1] = k /\ <<k, i, e>>[2] = i /\ <<k, i, e>>[3] = e
                /\ Rank(<<k, i, e>>) = 2 * (Len(res) + 1 - i) + (IF k = "value" THEN 0 ELSE 1)
<1>1. Len(res) \in Nat
  BY KwIs
<1>2. ASSUME NEW c \in Calls
      PROVE  /\ c[1] \in {"value", "array", "object"}
             /\ c[2] \in 1..Len(res) + 1 /\ c[3] \in 0..Len(res) /\ c = <<c[1], c[2], c[3]>>
  BY DEF Calls
<1>3. \A c \in Calls : Rank(c) \in Nat
  BY <1>1, <1>2 DEF Rank
<1>4. ASSUME NEW k \in {"value", "array", "object"}, NEW i \in 1..Len(res) + 1, NEW e \in 0..Len(res)
      PROVE  /\ <<k, i, e>> \in Calls
             /\ <<k, i, e>>[1] = k /\ <<k, i, e>>[2] = i /\ <<k, i, e>>[3] = e
             /\ Rank(<<k, i, e>>) = 2 * (Len(res) + 1 - i) + (IF k = "value" THEN 0 ELSE 1)
  BY DEF Calls, Rank
<1>5. QED
  BY <1>2, <1>3, <1>4

\* Where the bracket of an array or of an object is.
LEMMA EndIs ==
    ASSUME TokensOK, NEW i \in 1..Len(res), Kw(i) \in Opening
    PROVE  \/ End(i) = Overrun
           \/ /\ End(i) \in i + 1..Len(res) /\ Closes(Brackets, i, End(i))
              /\ Kw(End(i)) = CloseOf(Kw(i))
<1>1. Brackets \in Seq(Token_) /\ Len(Brackets) = Len(res)
  BY BracketsAre
<1>2. i \in 1..Len(Brackets) /\ Brackets[i] \in DOMAIN Closer
      /\ \A j \in 1..Len(res) : Brackets[j] = Closer[Brackets[i]] <=> Kw(j) = CloseOf(Kw(i))
  BY OpeningIs
<1>3. \/ End(i) = Overrun
      \/ End(i) \in i + 1..Len(res) /\ Closes(Brackets, i, End(i))
  BY <1>1, <1>2, ClosingEnds DEF End
<1>4. CASE End(i) \in i + 1..Len(res) /\ Closes(Brackets, i, End(i))
  <2>1. Brackets[End(i)] = Closer[Brackets[i]]
    BY <1>4 DEF Closes
  <2>2. End(i) \in 1..Len(res)
    BY <1>1, <1>4
  <2>3. QED
    BY <1>2, <1>4, <2>1, <2>2
<1>5. QED
  BY <1>3, <1>4

LEMMA ListInside ==
    ASSUME TokensOK, NEW i \in 1..Len(res), NEW e \in i + 1..Len(res), NEW k
    PROVE  <<KindOfList(k), i + 1, e>> \in Calls
           /\ \A z \in 0..Len(res) : Rank(<<KindOfList(k), i + 1, e>>) < Rank(<<"value", i, z>>)
<1>1. KindOfList(k) \in {"value", "array", "object"} /\ KindOfList(k) # "value"
  BY DEF KindOfList
<1>2. Len(res) \in Nat /\ i \in 1..Len(res) + 1 /\ i + 1 \in 1..Len(res) + 1 /\ e \in 0..Len(res)
  <2>1. Len(res) \in Nat
    BY KwIs
  <2>2. QED
    BY <2>1
<1>3. <<KindOfList(k), i + 1, e>> \in Calls
      /\ Rank(<<KindOfList(k), i + 1, e>>) = 2 * (Len(res) + 1 - (i + 1)) + 1
  BY <1>1, <1>2, CallIs
<1>4. \A z \in 0..Len(res) : Rank(<<"value", i, z>>) = 2 * (Len(res) + 1 - i)
  BY <1>2, CallIs
<1>5. QED
  BY <1>2, <1>3, <1>4

LEMMA BehindComma ==
    ASSUME NEW n \in Nat, NEW a \in Int, a > 0, a + 1 \in 1..n
    PROVE  a + 2 \in 1..n + 1 /\ \A i \in 1..n + 1 : a >= i => i < a + 2
OBVIOUS

LEMMA CommaInside ==
    ASSUME TokensOK, NEW a \in Int, a > 0, Kw(a + 1) = <<",">>
    PROVE  a + 1 \in 1..Len(res) /\ a + 2 \in 1..Len(res) + 1
<1>1. a + 1 \in 1..Len(res)
  <2>1. "," # "undefined"
    OBVIOUS
  <2>2. QED
    BY <2>1, TokenIsThere
<1>2. Len(res) \in Nat
  BY KwIs
<1>3. QED
  BY <1>1, <1>2, BehindComma

LEMMA FromIs ==
    ASSUME TokensOK, NEW kind \in Lists, NEW i \in 1..Len(res) + 1, Keyed(kind, i)
    PROVE  From(kind, i) \in i..Len(res) + 1
<1>1. CASE kind = "object"
  <2>1. Kw(i + 1) = <<":">> /\ ":" # "undefined"
    BY <1>1 DEF Keyed
  <2>2. i + 1 \in 1..Len(res)
    BY <2>1, TokenIsThere
  <2>3. From(kind, i) = i + 2
    BY <1>1 DEF From
  <2>4. QED
    BY <2>2, <2>3, KwIs
<1>2. CASE kind # "object"
  <2>1. From(kind, i) = i
    BY <1>2 DEF From
  <2>2. QED
    BY <2>1, KwIs
<1>3. QED
  BY <1>1, <1>2

LEMMA ValueInside ==
    ASSUME TokensOK, NEW kind \in Lists, NEW i \in 1..Len(res) + 1, NEW e \in 0..Len(res), Keyed(kind, i)
    PROVE  /\ <<"value", From(kind, i), 0>> \in Calls
           /\ Rank(<<"value", From(kind, i), 0>>) < Rank(<<kind, i, e>>)
<1>1. From(kind, i) \in i..Len(res) + 1 /\ Len(res) \in Nat
  BY FromIs, KwIs
<1>2. From(kind, i) \in 1..Len(res) + 1 /\ 0 \in 0..Len(res)
  BY <1>1
<1>3. kind \in {"value", "array", "object"} /\ kind # "value" /\ "value" \in {"value", "array", "object"}
  BY DEF Lists
<1>4. Rank(<<kind, i, e>>) = 2 * (Len(res) + 1 - i) + 1
  BY <1>3, CallIs
<1>5. <<"value", From(kind, i), 0>> \in Calls
      /\ Rank(<<"value", From(kind, i), 0>>) = 2 * (Len(res) + 1 - From(kind, i))
  BY <1>2, CallIs
<1>6. QED
  BY <1>1, <1>4, <1>5

LEMMA Doubled ==
    ASSUME NEW n \in Nat, NEW i \in 1..n + 1, NEW b \in 1..n + 1, i < b
    PROVE  2 * (n + 1 - b) + 1 < 2 * (n + 1 - i) + 1
OBVIOUS

LEMMA ListIs ==
    ASSUME TokensOK, NEW kind \in Lists, NEW j \in 1..Len(res) + 1, NEW e \in 0..Len(res)
    PROVE  <<kind, j, e>> \in Calls /\ Rank(<<kind, j, e>>) = 2 * (Len(res) + 1 - j) + 1
<1>1. kind \in {"value", "array", "object"} /\ kind # "value"
  BY DEF Lists
<1>2. QED
  BY <1>1, CallIs

LEMMA RestInside ==
    ASSUME TokensOK, NEW kind \in Lists, NEW i \in 1..Len(res) + 1, NEW e \in 0..Len(res),
           NEW a \in Int, a > 0, a >= i, Kw(a + 1) = <<",">>
    PROVE  /\ <<kind, a + 2, e>> \in Calls
           /\ Rank(<<kind, a + 2, e>>) < Rank(<<kind, i, e>>)
<1>1. Len(res) \in Nat /\ a + 2 \in 1..Len(res) + 1
  BY CommaInside, KwIs
<1> DEFINE b == a + 2
<1>2. b \in 1..Len(res) + 1 /\ i < b
  BY <1>1, CommaInside, BehindComma
<1> HIDE DEF b
<1>3. <<kind, b, e>> \in Calls /\ Rank(<<kind, b, e>>) = 2 * (Len(res) + 1 - b) + 1
      /\ Rank(<<kind, i, e>>) = 2 * (Len(res) + 1 - i) + 1
  BY <1>2, ListIs
<1>4. 2 * (Len(res) + 1 - b) + 1 < 2 * (Len(res) + 1 - i) + 1
  BY <1>1, <1>2, Doubled
<1>5. <<kind, b, e>> \in Calls /\ Rank(<<kind, b, e>>) < Rank(<<kind, i, e>>)
  BY <1>3, <1>4
<1>6. QED
  BY <1>5 DEF b

LEMMA StepReturns ==
    ASSUME TokensOK, NEW f, NEW c \in Calls,
           \A d \in Calls : Rank(d) < Rank(c) => Ret(f[d], d)
    PROVE  Ret(StepOf(f, c), c)
<1> DEFINE r == StepOf(f, c)
           i == c[2]
           e == c[3]
<1>1. Len(res) \in Nat /\ i \in 1..Len(res) + 1 /\ e \in 0..Len(res) /\ c = <<c[1], i, e>>
      /\ c[1] \in {"value", "array", "object"}
  BY KwIs, CallIs
<1>2. CASE c[1] = "value"
  <2>1. Valued(f, i, r)
    <3>1. Valued(f, i, StepOf(f, <<"value", i, e>>))
      BY ValuedIs
    <3>2. QED
      BY <1>1, <1>2, <3>1
  <2>2. SUFFICES r.at \in Int /\ (r.at > 0 => r.at \in i..Len(res) /\ (r.tree.t \in Lists <=> Kw(i) \in Opening))
    BY <1>2 DEF Ret
  <2> HIDE DEF r, i, e
  <2>3. CASE i > Len(res)
    <3>1. r.at = Overrun
      BY <2>1, <2>3 DEF Valued
    <3>2. QED
      BY <3>1 DEF Overrun
  <2>4. CASE ~(i > Len(res)) /\ Kw(i) \in Opening
    <3>1. i \in 1..Len(res) /\ KindOfList(Kw(i)) \in Lists
      BY <1>1, <2>4 DEF KindOfList, Lists
    <3>2. IF End(i) <= 0 THEN r.at = End(i)
          ELSE IF End(i) = i + 1 THEN r.at = End(i) /\ r.tree.t = KindOfList(Kw(i))
          ELSE r = f[<<KindOfList(Kw(i)), i + 1, End(i)>>]
      BY <2>1, <2>4 DEF Valued, End
    <3>3. End(i) = Overrun \/ End(i) \in i + 1..Len(res)
      BY <2>4, <3>1, EndIs
    <3>4. CASE End(i) = Overrun
      <4>1. End(i) = -1
        BY <3>4 DEF Overrun
      <4>2. r.at = -1
        BY <3>2, <4>1
      <4>3. QED
        BY <4>2
    <3>5. CASE End(i) = i + 1 /\ End(i) \in i + 1..Len(res)
      <4>1. r.at = i + 1 /\ r.tree.t = KindOfList(Kw(i)) /\ i + 1 \in i..Len(res)
        BY <1>1, <3>1, <3>2, <3>5
      <4>2. QED
        BY <2>4, <3>1, <4>1
    <3>6. CASE End(i) # i + 1 /\ End(i) \in i + 1..Len(res)
      <4> DEFINE d == <<KindOfList(Kw(i)), i + 1, End(i)>>
      <4>1. d \in Calls /\ Rank(d) < Rank(c)
        BY <1>1, <1>2, <3>1, <3>6, ListInside
      <4>2. r = f[d] /\ Ret(f[d], d)
        <5>1. ~(End(i) <= 0)
          BY <1>1, <3>6
        <5>2. QED
          BY <3>2, <3>6, <4>1, <5>1
      <4>3. d[1] = KindOfList(Kw(i)) /\ d[3] = End(i) /\ d[1] # "value"
        BY <3>1 DEF Lists
      <4> HIDE DEF d
      <4>4. r.at \in Int /\ (r.at > 0 => r.at = End(i) /\ r.tree.t = KindOfList(Kw(i)))
        BY <4>2, <4>3 DEF Ret
      <4>5. End(i) \in i..Len(res)
        BY <1>1, <3>6
      <4>6. QED
        BY <2>4, <3>1, <4>4, <4>5
    <3>7. QED
      BY <3>3, <3>4, <3>5, <3>6
  <2>5. CASE ~(i > Len(res)) /\ Kw(i) \notin Opening
    <3>1. i \in i..Len(res) /\ i \in Int
      BY <1>1, <2>5
    <3>2. (r.at = i /\ r.tree.t \notin Lists) \/ r.at = Thrown
      BY <2>1, <2>5 DEF Valued, Lists
    <3>3. Thrown = 0
      BY DEF Thrown
    <3>4. QED
      BY <2>5, <3>1, <3>2, <3>3
  <2>6. QED
    BY <2>3, <2>4, <2>5
<1>3. CASE c[1] # "value"
  <2> DEFINE kind == c[1]
             x == f[<<"value", From(kind, i), 0>>]
             rest == f[<<kind, x.at + 2, e>>]
  <2>1. kind \in Lists
    BY <1>1, <1>3 DEF Lists
  <2>2. Listed(f, kind, i, e, r)
    <3>1. Listed(f, kind, i, e, StepOf(f, <<kind, i, e>>))
      BY <2>1, ListedIs DEF Lists
    <3>2. QED
      BY <1>1, <3>1
  <2>3. IF ~Keyed(kind, i) THEN r.at = Thrown
        ELSE IF x.at <= 0 THEN r = x
        ELSE IF x.at + 1 = e THEN r.at = e /\ r.tree.t = kind
        ELSE IF Kw(x.at + 1) # <<",">> THEN r.at = Thrown
        ELSE IF rest.at <= 0 THEN r = rest
        ELSE r.at = rest.at /\ r.tree.t = kind
    BY <2>2 DEF Listed
  <2>4. SUFFICES r.at \in Int /\ (r.at > 0 => r.at = e /\ r.tree.t = kind)
    BY <1>3 DEF Ret
  <2>5. Thrown = 0 /\ e \in Int
    BY <1>1 DEF Thrown
  <2>6. ASSUME Keyed(kind, i)
        PROVE  x.at \in Int /\ (x.at > 0 => x.at >= i)
    <3> DEFINE d == <<"value", From(kind, i), 0>>
    <3>1. d \in Calls /\ Rank(d) < Rank(c)
      BY <1>1, <2>1, <2>6, ValueInside
    <3>2. Ret(f[d], d)
      BY <3>1
    <3>3. From(kind, i) \in i..Len(res) + 1
      BY <1>1, <2>1, <2>6, FromIs
    <3>4. d[1] = "value" /\ d[2] = From(kind, i)
      OBVIOUS
    <3>5. f[d].at \in Int /\ (f[d].at > 0 => f[d].at \in From(kind, i)..Len(res))
      BY <3>2, <3>4 DEF Ret
    <3>6. QED
      BY <1>1, <3>3, <3>5
  <2>7. ASSUME Keyed(kind, i), x.at > 0, Kw(x.at + 1) = <<",">>
        PROVE  rest.at \in Int /\ (rest.at > 0 => rest.at = e)
    <3> DEFINE d == <<kind, x.at + 2, e>>
    <3>1. x.at \in Int /\ x.at >= i
      BY <2>6, <2>7
    <3> HIDE DEF x
    <3>2. d \in Calls /\ Rank(d) < Rank(c)
      BY <1>1, <2>1, <2>7, <3>1, RestInside
    <3>3. Ret(f[d], d)
      BY <3>2
    <3>4. d[1] = kind /\ d[3] = e
      OBVIOUS
    <3>5. QED
      BY <1>3, <3>3, <3>4 DEF Ret
  <2> DEFINE comma == Kw(x.at + 1) = <<",">>
  <2>8. Keyed(kind, i) => (x.at <= 0 <=> ~(x.at > 0)) /\ x.at \in Int
    BY <2>6
  <2> HIDE DEF r, i, e, x, rest, kind, comma
  <2>9. CASE ~Keyed(kind, i)
    BY <2>3, <2>5, <2>9
  <2>10. CASE Keyed(kind, i) /\ ~(x.at > 0)
    BY <2>3, <2>8, <2>10
  <2>11. CASE Keyed(kind, i) /\ x.at > 0 /\ x.at + 1 = e
    BY <2>3, <2>5, <2>8, <2>11
  <2>12. CASE Keyed(kind, i) /\ x.at > 0 /\ x.at + 1 # e /\ ~comma
    <3>1. r.at = Thrown
      BY <2>3, <2>8, <2>12 DEF comma
    <3>2. QED
      BY <2>5, <3>1
  <2>13. CASE Keyed(kind, i) /\ x.at > 0 /\ x.at + 1 # e /\ comma
    <3>1. rest.at \in Int /\ (rest.at > 0 => rest.at = e)
      BY <2>7, <2>13 DEF comma
    <3>2. IF rest.at <= 0 THEN r = rest ELSE r.at = rest.at /\ r.tree.t = kind
      BY <2>3, <2>8, <2>13 DEF comma
    <3>3. CASE rest.at <= 0
      BY <3>1, <3>2, <3>3
    <3>4. CASE ~(rest.at <= 0)
      BY <3>1, <3>2, <3>4
    <3>5. QED
      BY <3>3, <3>4
  <2>14. QED
    BY <2>9, <2>10, <2>11, <2>12, <2>13
<1>4. QED
  BY <1>2, <1>3

\* The same lists of values come of the same values.
LEMMA StepDepends ==
    ASSUME TokensOK, NEW f, NEW g, NEW c \in Calls,
           \A d \in Calls : Rank(d) < Rank(c) => Ret(f[d], d) /\ f[d] = g[d]
    PROVE  StepOf(f, c) = StepOf(g, c)
<1> DEFINE i == c[2]
           e == c[3]
<1>1. Len(res) \in Nat /\ i \in 1..Len(res) + 1 /\ e \in 0..Len(res) /\ c = <<c[1], i, e>>
      /\ c[1] \in {"value", "array", "object"}
  BY KwIs, CallIs
<1>2. CASE c[1] = "value"
  <2> DEFINE d == <<KindOfList(Kw(i)), i + 1, End(i)>>
             k == Kw(i)
             V(read) == IF i > Len(res) THEN Fail(Overrun)
                        ELSE IF k \in Opening
                             THEN IF End(i) <= 0 THEN Fail(End(i))
                                  ELSE IF End(i) = i + 1 THEN Result(Leaf(KindOfList(k), <<>>), End(i))
                                  ELSE read[d]
                        ELSE IF Scalar(k).t = "none" THEN Fail(Thrown)
                        ELSE Result(Scalar(k), i)
  <2>1. StepOf(f, c) = V(f) /\ StepOf(g, c) = V(g)
    BY <1>2 DEF StepOf, ResolveValue, Opening, KindOfList, End
  <2>2. CASE ~(i > Len(res)) /\ k \in Opening /\ ~(End(i) <= 0) /\ End(i) # i + 1
    <3>1. i \in 1..Len(res)
      BY <1>1, <2>2
    <3>2. End(i) \in i + 1..Len(res)
      <4>1. End(i) = Overrun \/ End(i) \in i + 1..Len(res)
        BY <2>2, <3>1, EndIs
      <4>2. Overrun <= 0
        BY DEF Overrun
      <4>3. QED
        BY <2>2, <4>1, <4>2
    <3>3. d \in Calls /\ Rank(d) < Rank(c)
      BY <1>1, <1>2, <3>1, <3>2, ListInside
    <3>4. f[d] = g[d]
      BY <3>3
    <3> HIDE DEF d, i, k
    <3>5. QED
      BY <2>1, <3>4
  <2> HIDE DEF d, i, k
  <2>3. CASE ~(~(i > Len(res)) /\ k \in Opening /\ ~(End(i) <= 0) /\ End(i) # i + 1)
    BY <2>1, <2>3
  <2>4. QED
    BY <2>2, <2>3
<1>3. CASE c[1] # "value"
  <2> DEFINE kind == c[1]
             x(read) == read[<<"value", From(kind, i), 0>>]
             rest(read) == read[<<kind, x(read).at + 2, e>>]
             key == toStringContent(Kw(i))
             Members(o, read) == [k \in DOMAIN o \cup {key} |-> IF k \in DOMAIN o THEN o[k] ELSE x(read).tree]
             One(read) == IF kind = "array" THEN Tree("array", <<>>, <<x(read).tree>>, <<>>)
                          ELSE Tree("object", <<>>, <<>>, Members(<<>>, read))
             More(read) == IF kind = "array" THEN Tree("array", <<>>, <<x(read).tree>> \o rest(read).tree.arr, <<>>)
                           ELSE Tree("object", <<>>, <<>>, Members(rest(read).tree.obj, read))
             comma(read) == Kw(x(read).at + 1) = <<",">>
             L(read) == IF ~Keyed(kind, i) THEN Fail(Thrown)
                        ELSE IF x(read).at <= 0 THEN x(read)
                        ELSE IF x(read).at + 1 = e THEN Result(One(read), e)
                        ELSE IF ~comma(read) THEN Fail(Thrown)
                        ELSE IF rest(read).at <= 0 THEN rest(read)
                        ELSE Result(More(read), rest(read).at)
  <2>1. kind \in Lists
    BY <1>1, <1>3 DEF Lists
  <2>2. ASSUME NEW read
        PROVE  StepOf(read, c) = L(read)
    <3>1. CASE kind = "array"
      <4>1. StepOf(read, c) = ResolveArray(read, i, e) /\ From(kind, i) = i /\ Keyed(kind, i)
        BY <3>1 DEF StepOf, From, Keyed
      <4>2. QED
        BY <3>1, <4>1 DEF ResolveArray
    <3>2. CASE kind = "object"
      <4>1. StepOf(read, c) = ResolveObject(read, i, e) /\ From(kind, i) = i + 2
            /\ (Keyed(kind, i) <=> IsStringLiteral(Kw(i)) /\ Kw(i + 1) = <<":">>)
        BY <3>2 DEF StepOf, From, Keyed
      <4>2. QED
        BY <3>2, <4>1 DEF ResolveObject
    <3>3. QED
      BY <2>1, <3>1, <3>2 DEF Lists
  <2>3. ASSUME Keyed(kind, i)
        PROVE  x(f) = x(g) /\ x(f).at \in Int /\ (x(f).at > 0 => x(f).at >= i)
    <3> DEFINE d == <<"value", From(kind, i), 0>>
    <3>1. d \in Calls /\ Rank(d) < Rank(c)
      BY <1>1, <2>1, <2>3, ValueInside
    <3>2. Ret(f[d], d) /\ f[d] = g[d]
      BY <3>1
    <3>3. From(kind, i) \in i..Len(res) + 1
      BY <1>1, <2>1, <2>3, FromIs
    <3>4. d[1] = "value" /\ d[2] = From(kind, i)
      OBVIOUS
    <3>5. f[d].at \in Int /\ (f[d].at > 0 => f[d].at \in From(kind, i)..Len(res))
      BY <3>2, <3>4 DEF Ret
    <3>6. QED
      BY <1>1, <3>2, <3>3, <3>5
  <2>4. ASSUME Keyed(kind, i), x(f).at > 0, comma(f)
        PROVE  rest(f) = rest(g)
    <3> DEFINE d == <<kind, x(f).at + 2, e>>
    <3>1. x(f).at \in Int /\ x(f).at >= i /\ x(f) = x(g)
      BY <2>3, <2>4
    <3> HIDE DEF x
    <3>2. d \in Calls /\ Rank(d) < Rank(c)
      BY <1>1, <2>1, <2>4, <3>1, RestInside
    <3>3. f[d] = g[d]
      BY <3>2
    <3>4. QED
      BY <3>1, <3>3
  <2>5. Keyed(kind, i) => (x(f).at <= 0 <=> ~(x(f).at > 0))
    BY <2>3
  <2>6. Keyed(kind, i) => One(f) = One(g) /\ (comma(f) <=> comma(g))
    BY <2>3
  <2>7. Keyed(kind, i) /\ x(f).at > 0 /\ comma(f) => More(f) = More(g)
    BY <2>3, <2>4
  <2> HIDE DEF x, rest, One, More, comma, kind, i, e
  <2>8. L(f) = L(g)
    <3>1. CASE ~Keyed(kind, i) \/ x(f).at <= 0 \/ x(f).at + 1 = e \/ ~comma(f)
      BY <2>3, <2>6, <3>1
    <3>2. CASE Keyed(kind, i) /\ x(f).at > 0 /\ comma(f)
      <4>1. rest(f) = rest(g) /\ More(f) = More(g) /\ x(f) = x(g) /\ One(f) = One(g) /\ comma(g)
        BY <2>3, <2>4, <2>6, <2>7, <3>2
      <4>2. QED
        BY <3>2, <4>1
    <3>3. QED
      BY <2>5, <3>1, <3>2
  <2>9. QED
    BY <2>2, <2>8
<1>4. QED
  BY <1>2, <1>3

\* A function that answers the calls of a rank below n as the descent does.
Answers(f, n) == \A c \in Calls : Rank(c) < n => f[c] = StepOf(f, c)

LEMMA AnswersReturn ==
    ASSUME TokensOK, NEW f, NEW n \in Nat, Answers(f, n), NEW c \in Calls, Rank(c) < n
    PROVE  Ret(f[c], c)
<1> DEFINE Bad == {m \in Nat : \E d \in Calls : Rank(d) = m /\ Rank(d) < n /\ ~Ret(f[d], d)}
<1>1. SUFFICES ASSUME ~Ret(f[c], c) PROVE FALSE
  OBVIOUS
<1>2. Bad # {}
  BY <1>1, CallIs
<1>3. PICK m \in Bad : \A k \in Bad : m <= k
  <2>1. Bad \in SUBSET Nat
    OBVIOUS
  <2> HIDE DEF Bad
  <2>2. QED
    BY <1>2, <2>1, LeastOf
<1>4. PICK d \in Calls : Rank(d) = m /\ Rank(d) < n /\ ~Ret(f[d], d)
  BY <1>3
<1>5. ASSUME NEW b \in Calls, Rank(b) < Rank(d)
      PROVE  Ret(f[b], b)
  <2>1. Rank(b) \in Nat /\ Rank(d) \in Nat
    BY CallIs
  <2>2. Rank(b) \notin Bad
    BY <1>3, <1>4, <1>5, <2>1
  <2>3. Rank(b) < n
    BY <1>4, <1>5, <2>1
  <2>4. QED
    BY <2>1, <2>2, <2>3
<1>6. Ret(StepOf(f, d), d)
  BY <1>5, StepReturns
<1>7. QED
  BY <1>4, <1>6 DEF Answers

LEMMA AnswersExist ==
    ASSUME TokensOK, NEW n \in Nat
    PROVE  \E f : Answers(f, n)
<1> DEFINE Bad == {m \in Nat : ~ \E f : Answers(f, m)}
<1>1. SUFFICES ASSUME Bad # {} PROVE FALSE
  OBVIOUS
<1>2. PICK m \in Bad : \A k \in Bad : m <= k
  <2>1. Bad \in SUBSET Nat
    OBVIOUS
  <2> HIDE DEF Bad
  <2>2. QED
    BY <1>1, <2>1, LeastOf
<1>3. m # 0
  <2>1. \A f : Answers(f, 0)
    <3>1. \A c \in Calls : ~(Rank(c) < 0)
      <4>1. \A c \in Calls : Rank(c) \in Nat
        BY CallIs
      <4>2. QED
        BY <4>1
    <3>2. QED
      BY <3>1 DEF Answers
  <2>2. QED
    BY <1>2, <2>1
<1>4. PICK f : Answers(f, m - 1)
  BY <1>2, <1>3
<1> DEFINE g == [c \in Calls |-> IF Rank(c) < m - 1 THEN f[c] ELSE StepOf(f, c)]
<1>5. ASSUME NEW c \in Calls, Rank(c) < m
      PROVE  g[c] = StepOf(g, c)
  <2>1. Rank(c) \in Nat /\ m \in Nat
    BY <1>2, CallIs
  <2>2. ASSUME NEW d \in Calls, Rank(d) < Rank(c)
        PROVE  Ret(f[d], d) /\ f[d] = g[d]
    <3>1. Rank(d) \in Nat
      BY CallIs
    <3>2. Rank(d) < m - 1
      BY <1>5, <2>1, <2>2, <3>1
    <3>3. Ret(f[d], d)
      <4>1. m - 1 \in Nat
        BY <1>3, <2>1
      <4>2. QED
        BY <1>4, <3>2, <4>1, AnswersReturn
    <3>4. QED
      BY <3>2, <3>3
  <2>3. StepOf(f, c) = StepOf(g, c)
    <3> HIDE DEF g
    <3>1. QED
      BY <2>2, StepDepends
  <2>4. g[c] = StepOf(f, c)
    <3>1. CASE Rank(c) < m - 1
      BY <1>4, <3>1 DEF Answers
    <3>2. CASE ~(Rank(c) < m - 1)
      BY <3>2
    <3>3. QED
      BY <3>1, <3>2
  <2>5. QED
    BY <2>3, <2>4
<1> HIDE DEF g
<1>6. Answers(g, m)
  BY <1>5 DEF Answers
<1>7. QED
  BY <1>2, <1>6

\* The recursion of the descent has a solution: what it calls has less before it.
LEMMA ResolveIs ==
    ASSUME TokensOK, NEW c \in Calls
    PROVE  Resolve[c] = StepOf(Resolve, c) /\ Ret(Resolve[c], c)
<1> DEFINE top == 2 * (Len(res) + 2)
           Whole(f) == f = [d \in Calls |-> StepOf(f, d)]
<1>1. top \in Nat
  BY KwIs
<1>2. ASSUME NEW d \in Calls
      PROVE  Rank(d) < top
  <2>1. d[2] \in 1..Len(res) + 1 /\ Len(res) \in Nat
    BY CallIs, KwIs
  <2>2. QED
    BY <2>1 DEF Rank
<1>3. PICK f : Answers(f, top)
  <2> HIDE DEF top
  <2>1. QED
    BY <1>1, AnswersExist
<1> DEFINE g == [d \in Calls |-> f[d]]
<1>4. ASSUME NEW d \in Calls
      PROVE  g[d] = StepOf(g, d)
  <2>1. \A b \in Calls : Ret(f[b], b) /\ f[b] = g[b]
    <3> HIDE DEF top
    <3>1. QED
      BY <1>1, <1>2, <1>3, AnswersReturn
  <2>2. StepOf(f, d) = StepOf(g, d)
    <3> HIDE DEF g
    <3>1. QED
      BY <2>1, StepDepends
  <2>3. f[d] = StepOf(f, d)
    BY <1>2, <1>3 DEF Answers
  <2>4. QED
    BY <2>2, <2>3
<1>5. Whole(g)
  <2>1. g = [d \in Calls |-> g[d]]
    OBVIOUS
  <2> HIDE DEF g
  <2>2. [d \in Calls |-> g[d]] = [d \in Calls |-> StepOf(g, d)]
    BY <1>4
  <2>3. QED
    BY <2>1, <2>2
<1>6. Resolve = CHOOSE h : Whole(h)
  BY DEF Resolve, StepOf
<1>7. Whole(Resolve)
  <2> HIDE DEF Whole, g
  <2>1. QED
    BY <1>5, <1>6
<1>8. \A d \in Calls : Resolve[d] = StepOf(Resolve, d)
  <2>1. Resolve = [d \in Calls |-> StepOf(Resolve, d)]
    BY <1>7
  <2> HIDE DEF Resolve
  <2>2. QED
    BY <2>1
<1>9. Answers(Resolve, top)
  <2> HIDE DEF top
  <2>1. QED
    BY <1>8 DEF Answers
<1> HIDE DEF top
<1>10. QED
  BY <1>1, <1>2, <1>8, <1>9, AnswersReturn

-----------------------------------------------------------------------------
(* Where the values and lists end, call by call and phrase by phrase.        *)

VAt(i) == Resolve[<<"value", i, 0>>].at
LAt(kind, i, e) == Resolve[<<kind, i, e>>].at
Comma(j) == Kw(j) = <<",">>

LEMMA ValueAt ==
    ASSUME TokensOK, NEW i \in 1..Len(res) + 1
    PROVE  /\ VAt(i) \in Int
           /\ VAt(i) > 0 => VAt(i) \in i..Len(res)
           /\ VAt(i) > 0 => (Resolve[<<"value", i, 0>>].tree.t \in Lists <=> Kw(i) \in Opening)
           /\ i > Len(res) => VAt(i) = Overrun
           /\ i <= Len(res) /\ Kw(i) \in Opening =>
                VAt(i) = IF End(i) <= 0 \/ End(i) = i + 1 THEN End(i) ELSE LAt(KindOfList(Kw(i)), i + 1, End(i))
           /\ i <= Len(res) /\ Kw(i) \notin Opening =>
                VAt(i) = IF IsScalar(Kw(i)) THEN i ELSE Thrown
<1> DEFINE c == <<"value", i, 0>>
           r == Resolve[c]
<1>1. Len(res) \in Nat /\ 0 \in 0..Len(res)
  BY KwIs
<1>2. c \in Calls /\ c[1] = "value" /\ c[2] = i
  <2>1. "value" \in {"value", "array", "object"}
    OBVIOUS
  <2>2. QED
    BY <1>1, <2>1, CallIs
<1>3. r = StepOf(Resolve, c) /\ Ret(r, c)
  BY <1>2, ResolveIs
<1>4. Valued(Resolve, i, r)
  BY <1>3, ValuedIs
<1>5. /\ r.at \in Int /\ (r.at > 0 => r.at \in i..Len(res))
      /\ r.at > 0 => (r.tree.t \in Lists <=> Kw(i) \in Opening)
  BY <1>2, <1>3 DEF Ret
<1>6. IF i > Len(res) THEN r.at = Overrun
      ELSE IF Kw(i) \in Opening
           THEN IF End(i) <= 0 THEN r.at = End(i)
                ELSE IF End(i) = i + 1 THEN r.at = End(i) /\ r.tree.t = KindOfList(Kw(i))
                ELSE r = Resolve[<<KindOfList(Kw(i)), i + 1, End(i)>>]
      ELSE IF IsScalar(Kw(i)) THEN r.at = i /\ r.tree.t \notin {"array", "object"}
      ELSE r.at = Thrown
  BY <1>4 DEF Valued, End
<1>7. VAt(i) = r.at /\ LAt(KindOfList(Kw(i)), i + 1, End(i)) = Resolve[<<KindOfList(Kw(i)), i + 1, End(i)>>].at
  BY DEF VAt, LAt
<1> HIDE DEF r, c
<1>8. i > Len(res) => VAt(i) = Overrun
  BY <1>6, <1>7
<1>9. i <= Len(res) /\ Kw(i) \in Opening =>
        VAt(i) = IF End(i) <= 0 \/ End(i) = i + 1 THEN End(i) ELSE LAt(KindOfList(Kw(i)), i + 1, End(i))
  <2>1. i <= Len(res) => ~(i > Len(res))
    BY <1>1
  <2>2. QED
    BY <1>6, <1>7, <2>1
<1>10. i <= Len(res) /\ Kw(i) \notin Opening => VAt(i) = IF IsScalar(Kw(i)) THEN i ELSE Thrown
  <2>1. i <= Len(res) => ~(i > Len(res))
    BY <1>1
  <2>2. QED
    BY <1>6, <1>7, <2>1
<1>11. QED
  BY <1>5, <1>7, <1>8, <1>9, <1>10 DEF r, c

\* What is read up to a bracket ends there or nowhere.
LEMMA ListAt ==
    ASSUME TokensOK, NEW kind \in Lists, NEW i \in 1..Len(res) + 1, NEW e \in 0..Len(res)
    PROVE  /\ LAt(kind, i, e) \in Int
           /\ LAt(kind, i, e) > 0 => LAt(kind, i, e) = e
           /\ LAt(kind, i, e) = IF ~Keyed(kind, i) THEN Thrown
                                ELSE IF VAt(From(kind, i)) <= 0 THEN VAt(From(kind, i))
                                ELSE IF VAt(From(kind, i)) + 1 = e THEN e
                                ELSE IF ~Comma(VAt(From(kind, i)) + 1) THEN Thrown
                                ELSE LAt(kind, VAt(From(kind, i)) + 2, e)
<1> DEFINE c == <<kind, i, e>>
           r == Resolve[c]
           x == Resolve[<<"value", From(kind, i), 0>>]
           rest == Resolve[<<kind, x.at + 2, e>>]
<1>1. c \in Calls
  BY ListIs
<1>2. c[1] = kind /\ c[3] = e /\ kind # "value" /\ kind \in {"array", "object"}
  BY DEF Lists
<1>3. r = StepOf(Resolve, c) /\ Ret(r, c)
  BY <1>1, ResolveIs
<1>4. Listed(Resolve, kind, i, e, r)
  BY <1>2, <1>3, ListedIs
<1>5. r.at \in Int /\ (r.at > 0 => r.at = e)
  BY <1>2, <1>3 DEF Ret
<1>6. IF ~Keyed(kind, i) THEN r.at = Thrown
      ELSE IF x.at <= 0 THEN r = x
      ELSE IF x.at + 1 = e THEN r.at = e /\ r.tree.t = kind
      ELSE IF ~Comma(x.at + 1) THEN r.at = Thrown
      ELSE IF rest.at <= 0 THEN r = rest
      ELSE r.at = rest.at /\ r.tree.t = kind
  BY <1>4 DEF Listed, Comma
<1>7. LAt(kind, i, e) = r.at /\ VAt(From(kind, i)) = x.at /\ LAt(kind, x.at + 2, e) = rest.at
  BY DEF VAt, LAt
<1> HIDE DEF r, x, rest, c
<1>8. r.at = IF ~Keyed(kind, i) THEN Thrown
             ELSE IF x.at <= 0 THEN x.at
             ELSE IF x.at + 1 = e THEN e
             ELSE IF ~Comma(x.at + 1) THEN Thrown
             ELSE rest.at
  BY <1>6
<1>9. QED
  BY <1>5, <1>7, <1>8

\* Calls by what they have before them.
LEMMA CallInduction ==
    ASSUME TokensOK, NEW Good,
           \A c \in Calls : (\A d \in Calls : Rank(d) < Rank(c) => d \in Good) => c \in Good
    PROVE  \A c \in Calls : c \in Good
<1> DEFINE Bad == {m \in Nat : \E d \in Calls : Rank(d) = m /\ d \notin Good}
<1>1. SUFFICES ASSUME NEW c \in Calls, c \notin Good PROVE FALSE
  OBVIOUS
<1>2. Bad # {}
  BY <1>1, CallIs
<1>3. PICK m \in Bad : \A k \in Bad : m <= k
  <2>1. Bad \in SUBSET Nat
    OBVIOUS
  <2> HIDE DEF Bad
  <2>2. QED
    BY <1>2, <2>1, LeastOf
<1>4. PICK d \in Calls : Rank(d) = m /\ d \notin Good
  BY <1>3
<1>5. ASSUME NEW b \in Calls, Rank(b) < Rank(d)
      PROVE  b \in Good
  <2>1. Rank(b) \in Nat /\ Rank(d) \in Nat
    BY CallIs
  <2>2. Rank(b) \notin Bad
    BY <1>3, <1>4, <1>5, <2>1
  <2>3. QED
    BY <2>1, <2>2
<1>6. QED
  BY <1>4, <1>5

-----------------------------------------------------------------------------
(* The grammar: a recursion over phrases that has a solution as well.        *)

PRank(p) == 2 * (Len(res) + 1 - p[2]) + (IF p[1] = "value" THEN 0 ELSE 1)

LEMMA PhraseIs ==
    ASSUME TokensOK
    PROVE  /\ \A p \in Phrases : /\ p[1] \in {"value", "array", "object"} /\ p[2] \in 1..Len(res) + 1
                                 /\ p = <<p[1], p[2]>> /\ PRank(p) \in Nat
           /\ \A k \in {"value", "array", "object"}, i \in 1..Len(res) + 1 :
                /\ <<k, i>> \in Phrases /\ <<k, i>>[1] = k /\ <<k, i>>[2] = i
                /\ PRank(<<k, i>>) = 2 * (Len(res) + 1 - i) + (IF k = "value" THEN 0 ELSE 1)
<1>1. Len(res) \in Nat
  BY KwIs
<1>2. ASSUME NEW p \in Phrases
      PROVE  p[1] \in {"value", "array", "object"} /\ p[2] \in 1..Len(res) + 1 /\ p = <<p[1], p[2]>>
  BY DEF Phrases
<1>3. \A p \in Phrases : PRank(p) \in Nat
  BY <1>1, <1>2 DEF PRank
<1>4. ASSUME NEW k \in {"value", "array", "object"}, NEW i \in 1..Len(res) + 1
      PROVE  /\ <<k, i>> \in Phrases /\ <<k, i>>[1] = k /\ <<k, i>>[2] = i
             /\ PRank(<<k, i>>) = 2 * (Len(res) + 1 - i) + (IF k = "value" THEN 0 ELSE 1)
  BY DEF Phrases, PRank
<1>5. QED
  BY <1>2, <1>3, <1>4

LEMMA PhraseInduction ==
    ASSUME TokensOK, NEW Good,
           \A p \in Phrases : (\A q \in Phrases : PRank(q) < PRank(p) => q \in Good) => p \in Good
    PROVE  \A p \in Phrases : p \in Good
<1> DEFINE Bad == {m \in Nat : \E q \in Phrases : PRank(q) = m /\ q \notin Good}
<1>1. SUFFICES ASSUME NEW p \in Phrases, p \notin Good PROVE FALSE
  OBVIOUS
<1>2. Bad # {}
  BY <1>1, PhraseIs
<1>3. PICK m \in Bad : \A k \in Bad : m <= k
  <2>1. Bad \in SUBSET Nat
    OBVIOUS
  <2> HIDE DEF Bad
  <2>2. QED
    BY <1>2, <2>1, LeastOf
<1>4. PICK q \in Phrases : PRank(q) = m /\ q \notin Good
  BY <1>3
<1>5. ASSUME NEW b \in Phrases, PRank(b) < PRank(q)
      PROVE  b \in Good
  <2>1. PRank(b) \in Nat /\ PRank(q) \in Nat
    BY PhraseIs
  <2>2. PRank(b) \notin Bad
    BY <1>3, <1>4, <1>5, <2>1
  <2>3. QED
    BY <2>1, <2>2
<1>6. QED
  BY <1>4, <1>5

\* What Derived gives, phrase by phrase.
LEMMA DerivedValue ==
    ASSUME NEW gr, NEW i, NEW j
    PROVE  j \in Derived(gr, "value", i)
             <=> /\ j \in i..Len(res)
                 /\ \/ j = i /\ IsScalar(Kw(i))
                    \/ /\ Kw(i) \in Opening /\ Kw(j) = CloseOf(Kw(i))
                       /\ j = i + 1 \/ j - 1 \in gr[<<KindOfList(Kw(i)), i + 1>>]
<1>1. j \in Derived(gr, "value", i)
        <=> /\ j \in i..Len(res)
            /\ \/ j = i /\ IsScalar(Kw(i))
               \/ Kw(i) = <<"[">> /\ Kw(j) = <<"]">> /\ (j = i + 1 \/ j - 1 \in gr[<<"array", i + 1>>])
               \/ Kw(i) = <<"{">> /\ Kw(j) = <<"}">> /\ (j = i + 1 \/ j - 1 \in gr[<<"object", i + 1>>])
  BY DEF Derived
<1>2. <<"[">> # <<"{">>
  <2>1. "[" # "{"
    OBVIOUS
  <2>2. QED
    BY <2>1
<1>3. Kw(i) = <<"[">> => Kw(i) \in Opening /\ CloseOf(Kw(i)) = <<"]">> /\ KindOfList(Kw(i)) = "array"
  BY DEF Opening, CloseOf, KindOfList
<1>4. Kw(i) = <<"{">> => Kw(i) \in Opening /\ CloseOf(Kw(i)) = <<"}">> /\ KindOfList(Kw(i)) = "object"
  BY <1>2 DEF Opening, CloseOf, KindOfList
<1>5. Kw(i) \in Opening <=> Kw(i) = <<"[">> \/ Kw(i) = <<"{">>
  BY DEF Opening
<1>6. QED
  BY <1>1, <1>3, <1>4, <1>5

LEMMA DerivedList ==
    ASSUME NEW gr, NEW kind \in Lists, NEW i, NEW j
    PROVE  j \in Derived(gr, kind, i)
             <=> /\ Keyed(kind, i)
                 /\ \/ j \in gr[<<"value", From(kind, i)>>]
                    \/ \E m \in From(kind, i)..Len(res) :
                         m \in gr[<<"value", From(kind, i)>>] /\ Comma(m + 1) /\ j \in gr[<<kind, m + 2>>]
<1>1. kind # "value" /\ kind \in {"array", "object"}
  BY DEF Lists
<1> DEFINE first == gr[<<"value", From(kind, i)>>]
           comma == {m \in From(kind, i)..Len(res) : m \in first /\ Comma(m + 1)}
<1>2. Derived(gr, kind, i) = IF ~Keyed(kind, i) THEN {} ELSE first \cup UNION {gr[<<kind, m + 2>>] : m \in comma}
  BY <1>1 DEF Derived, Keyed, From, Comma
<1>3. j \in UNION {gr[<<kind, m + 2>>] : m \in comma} <=> \E m \in comma : j \in gr[<<kind, m + 2>>]
  OBVIOUS
<1>4. \A m : m \in comma <=> m \in From(kind, i)..Len(res) /\ m \in first /\ Comma(m + 1)
  OBVIOUS
<1> HIDE DEF first, comma
<1>5. j \in Derived(gr, kind, i)
        <=> /\ Keyed(kind, i)
            /\ j \in first \/ \E m \in comma : j \in gr[<<kind, m + 2>>]
  BY <1>2, <1>3
<1>6. QED
  BY <1>4, <1>5 DEF first

\* The phrases that a phrase is made of have less before them.
LEMMA PhrasesInside ==
    ASSUME TokensOK, NEW i \in 1..Len(res) + 1
    PROVE  /\ \A k \in Lists : i <= Len(res) =>
                <<k, i + 1>> \in Phrases /\ PRank(<<k, i + 1>>) < PRank(<<"value", i>>)
           /\ \A k \in Lists : Keyed(k, i) =>
                /\ <<"value", From(k, i)>> \in Phrases /\ PRank(<<"value", From(k, i)>>) < PRank(<<k, i>>)
                /\ \A m \in From(k, i)..Len(res) : Comma(m + 1) =>
                     <<k, m + 2>> \in Phrases /\ PRank(<<k, m + 2>>) < PRank(<<k, i>>)
<1>1. Len(res) \in Nat
  BY KwIs
<1>2. \A n \in 1..Len(res) + 1 : <<"value", n>> \in Phrases /\ PRank(<<"value", n>>) = 2 * (Len(res) + 1 - n)
  <2>1. ASSUME NEW n \in 1..Len(res) + 1
        PROVE  <<"value", n>> \in Phrases /\ PRank(<<"value", n>>) = 2 * (Len(res) + 1 - n) + 0
    <3>1. "value" \in {"value", "array", "object"}
      OBVIOUS
    <3>2. QED
      BY <3>1, PhraseIs
  <2>2. \A n \in 1..Len(res) + 1 : 2 * (Len(res) + 1 - n) + 0 = 2 * (Len(res) + 1 - n)
    BY <1>1
  <2>3. QED
    BY <2>1, <2>2
<1>3. ASSUME NEW k \in Lists
      PROVE  \A n \in 1..Len(res) + 1 : <<k, n>> \in Phrases /\ PRank(<<k, n>>) = 2 * (Len(res) + 1 - n) + 1
  <2>1. k \in {"value", "array", "object"} /\ k # "value"
    BY DEF Lists
  <2>2. QED
    BY <2>1, PhraseIs
<1>4. ASSUME NEW k \in Lists, i <= Len(res)
      PROVE  <<k, i + 1>> \in Phrases /\ PRank(<<k, i + 1>>) < PRank(<<"value", i>>)
  <2> DEFINE b == i + 1
  <2>1. b \in 1..Len(res) + 1 /\ 2 * (Len(res) + 1 - b) + 1 < 2 * (Len(res) + 1 - i)
    BY <1>1, <1>4
  <2> HIDE DEF b
  <2>2. <<k, b>> \in Phrases /\ PRank(<<k, b>>) = 2 * (Len(res) + 1 - b) + 1
        /\ PRank(<<"value", i>>) = 2 * (Len(res) + 1 - i)
    BY <1>2, <1>3, <2>1
  <2>3. <<k, b>> \in Phrases /\ PRank(<<k, b>>) < PRank(<<"value", i>>)
    BY <2>1, <2>2
  <2>4. QED
    BY <2>3 DEF b
<1>5. ASSUME NEW k \in Lists, Keyed(k, i)
      PROVE  <<"value", From(k, i)>> \in Phrases /\ PRank(<<"value", From(k, i)>>) < PRank(<<k, i>>)
  <2>1. From(k, i) \in i..Len(res) + 1
    BY <1>5, FromIs
  <2>2. From(k, i) \in 1..Len(res) + 1
    BY <1>1, <2>1
  <2>3. <<"value", From(k, i)>> \in Phrases /\ PRank(<<"value", From(k, i)>>) = 2 * (Len(res) + 1 - From(k, i))
        /\ PRank(<<k, i>>) = 2 * (Len(res) + 1 - i) + 1
    BY <1>2, <1>3, <2>2
  <2>4. QED
    BY <1>1, <2>1, <2>3
<1>6. ASSUME NEW k \in Lists, Keyed(k, i), NEW m \in From(k, i)..Len(res), Comma(m + 1)
      PROVE  <<k, m + 2>> \in Phrases /\ PRank(<<k, m + 2>>) < PRank(<<k, i>>)
  <2>1. From(k, i) \in i..Len(res) + 1
    BY <1>6, FromIs
  <2>2. m \in Int /\ m > 0 /\ m >= i
    BY <1>1, <2>1
  <2>3. m + 1 \in 1..Len(res)
    BY <1>6, <2>2, CommaInside DEF Comma
  <2> DEFINE b == m + 2
  <2>4. b \in 1..Len(res) + 1 /\ i < b
    BY <1>1, <2>2, <2>3, BehindComma
  <2> HIDE DEF b
  <2>5. <<k, b>> \in Phrases /\ PRank(<<k, b>>) = 2 * (Len(res) + 1 - b) + 1
        /\ PRank(<<k, i>>) = 2 * (Len(res) + 1 - i) + 1
    BY <1>3, <2>4
  <2>6. 2 * (Len(res) + 1 - b) + 1 < 2 * (Len(res) + 1 - i) + 1
    BY <1>1, <2>4, Doubled
  <2>7. <<k, b>> \in Phrases /\ PRank(<<k, b>>) < PRank(<<k, i>>)
    BY <2>5, <2>6
  <2>8. QED
    BY <2>7 DEF b
<1>7. QED
  BY <1>4, <1>5, <1>6

LEMMA DerivedDepends ==
    ASSUME TokensOK, NEW f, NEW g, NEW p \in Phrases,
           \A q \in Phrases : PRank(q) < PRank(p) => f[q] = g[q]
    PROVE  Derived(f, p[1], p[2]) = Derived(g, p[1], p[2])
<1> DEFINE i == p[2]
           k == p[1]
<1>1. i \in 1..Len(res) + 1 /\ k \in {"value", "array", "object"} /\ p = <<k, i>> /\ Len(res) \in Nat
  BY PhraseIs, KwIs
<1> HIDE DEF i, k
<1>2. CASE k = "value"
  <2>1. ASSUME NEW j
        PROVE  j \in Derived(f, "value", i) <=> j \in Derived(g, "value", i)
    <3>1. KindOfList(Kw(i)) \in Lists
      BY DEF KindOfList, Lists
    <3>2. ASSUME j \in i..Len(res)
          PROVE  f[<<KindOfList(Kw(i)), i + 1>>] = g[<<KindOfList(Kw(i)), i + 1>>]
      <4>1. i <= Len(res)
        BY <1>1, <3>2
      <4>2. <<KindOfList(Kw(i)), i + 1>> \in Phrases
            /\ PRank(<<KindOfList(Kw(i)), i + 1>>) < PRank(<<"value", i>>)
        BY <1>1, <3>1, <4>1, PhrasesInside
      <4>3. QED
        BY <1>1, <1>2, <4>2
    <3>3. QED
      BY <3>2, DerivedValue
  <2>2. Derived(f, "value", i) = Derived(g, "value", i)
    <3> DEFINE a == Derived(f, "value", i)
               b == Derived(g, "value", i)
    <3>1. \A j : j \in a <=> j \in b
      BY <2>1
    <3> HIDE DEF a, b
    <3>2. a = b
      BY <3>1
    <3>3. QED
      BY <3>2 DEF a, b
  <2>3. QED
    BY <1>2, <2>2 DEF k, i
<1>3. CASE k # "value"
  <2>1. k \in Lists
    BY <1>1, <1>3 DEF Lists
  <2>2. ASSUME Keyed(k, i)
        PROVE  /\ f[<<"value", From(k, i)>>] = g[<<"value", From(k, i)>>]
               /\ \A m \in From(k, i)..Len(res) : Comma(m + 1) => f[<<k, m + 2>>] = g[<<k, m + 2>>]
    <3>1. <<"value", From(k, i)>> \in Phrases /\ PRank(<<"value", From(k, i)>>) < PRank(<<k, i>>)
      BY <1>1, <2>1, <2>2, PhrasesInside
    <3>2. \A m \in From(k, i)..Len(res) : Comma(m + 1) =>
            <<k, m + 2>> \in Phrases /\ PRank(<<k, m + 2>>) < PRank(<<k, i>>)
      BY <1>1, <2>1, <2>2, PhrasesInside
    <3>3. QED
      BY <1>1, <3>1, <3>2
  <2>3. ASSUME NEW j
        PROVE  j \in Derived(f, k, i) <=> j \in Derived(g, k, i)
    <3> DEFINE v == <<"value", From(k, i)>>
               In(gr) == /\ Keyed(k, i)
                         /\ \/ j \in gr[v]
                            \/ \E m \in From(k, i)..Len(res) :
                                 m \in gr[v] /\ Comma(m + 1) /\ j \in gr[<<k, m + 2>>]
    <3>1. (j \in Derived(f, k, i) <=> In(f)) /\ (j \in Derived(g, k, i) <=> In(g))
      BY <2>1, DerivedList
    <3>2. Keyed(k, i) => f[v] = g[v]
      BY <2>2
    <3> HIDE DEF v
    <3>3. In(f) <=> In(g)
      BY <2>2, <3>2
    <3>4. QED
      BY <3>1, <3>3
  <2>4. Derived(f, k, i) = Derived(g, k, i)
    <3> DEFINE a == Derived(f, k, i)
               b == Derived(g, k, i)
    <3>1. \A j : j \in a <=> j \in b
      BY <2>3
    <3> HIDE DEF a, b
    <3>2. a = b
      BY <3>1
    <3>3. QED
      BY <3>2 DEF a, b
  <2>5. QED
    BY <2>4 DEF k, i
<1>4. QED
  BY <1>2, <1>3

Derives(f, n) == \A p \in Phrases : PRank(p) < n => f[p] = Derived(f, p[1], p[2])

LEMMA DerivesExist ==
    ASSUME TokensOK, NEW n \in Nat
    PROVE  \E f : Derives(f, n)
<1> DEFINE Bad == {m \in Nat : ~ \E f : Derives(f, m)}
<1>1. SUFFICES ASSUME Bad # {} PROVE FALSE
  OBVIOUS
<1>2. PICK m \in Bad : \A k \in Bad : m <= k
  <2>1. Bad \in SUBSET Nat
    OBVIOUS
  <2> HIDE DEF Bad
  <2>2. QED
    BY <1>1, <2>1, LeastOf
<1>3. m # 0
  <2>1. \A f : Derives(f, 0)
    <3>1. \A p \in Phrases : ~(PRank(p) < 0)
      <4>1. \A p \in Phrases : PRank(p) \in Nat
        BY PhraseIs
      <4>2. QED
        BY <4>1
    <3>2. QED
      BY <3>1 DEF Derives
  <2>2. QED
    BY <1>2, <2>1
<1>4. PICK f : Derives(f, m - 1)
  BY <1>2, <1>3
<1> DEFINE g == [p \in Phrases |-> IF PRank(p) < m - 1 THEN f[p] ELSE Derived(f, p[1], p[2])]
<1>5. ASSUME NEW p \in Phrases, PRank(p) < m
      PROVE  g[p] = Derived(g, p[1], p[2])
  <2>1. PRank(p) \in Nat /\ m \in Nat
    BY <1>2, PhraseIs
  <2>2. ASSUME NEW q \in Phrases, PRank(q) < PRank(p)
        PROVE  f[q] = g[q]
    <3>1. PRank(q) \in Nat
      BY PhraseIs
    <3>2. PRank(q) < m - 1
      BY <1>5, <2>1, <2>2, <3>1
    <3>3. QED
      BY <3>2
  <2>3. Derived(f, p[1], p[2]) = Derived(g, p[1], p[2])
    <3> HIDE DEF g
    <3>1. QED
      BY <2>2, DerivedDepends
  <2>4. g[p] = Derived(f, p[1], p[2])
    <3>1. CASE PRank(p) < m - 1
      BY <1>4, <3>1 DEF Derives
    <3>2. CASE ~(PRank(p) < m - 1)
      BY <3>2
    <3>3. QED
      BY <3>1, <3>2
  <2>5. QED
    BY <2>3, <2>4
<1> HIDE DEF g
<1>6. Derives(g, m)
  BY <1>5 DEF Derives
<1>7. QED
  BY <1>2, <1>6

LEMMA GrammarIs ==
    ASSUME TokensOK, NEW p \in Phrases
    PROVE  Grammar[p] = Derived(Grammar, p[1], p[2])
<1> DEFINE top == 2 * (Len(res) + 2)
           Whole(f) == f = [q \in Phrases |-> Derived(f, q[1], q[2])]
<1>1. top \in Nat
  BY KwIs
<1>2. ASSUME NEW q \in Phrases
      PROVE  PRank(q) < top
  <2>1. q[2] \in 1..Len(res) + 1 /\ Len(res) \in Nat
    BY PhraseIs, KwIs
  <2>2. QED
    BY <2>1 DEF PRank
<1>3. PICK f : Derives(f, top)
  <2> HIDE DEF top
  <2>1. QED
    BY <1>1, DerivesExist
<1> DEFINE g == [q \in Phrases |-> f[q]]
<1>4. ASSUME NEW q \in Phrases
      PROVE  g[q] = Derived(g, q[1], q[2])
  <2>1. \A b \in Phrases : f[b] = g[b]
    OBVIOUS
  <2>2. Derived(f, q[1], q[2]) = Derived(g, q[1], q[2])
    <3> HIDE DEF g
    <3>1. QED
      BY <2>1, DerivedDepends
  <2>3. f[q] = Derived(f, q[1], q[2])
    BY <1>2, <1>3 DEF Derives
  <2>4. QED
    BY <2>2, <2>3
<1>5. Whole(g)
  <2>1. g = [q \in Phrases |-> g[q]]
    OBVIOUS
  <2> HIDE DEF g
  <2>2. [q \in Phrases |-> g[q]] = [q \in Phrases |-> Derived(g, q[1], q[2])]
    BY <1>4
  <2>3. QED
    BY <2>1, <2>2
<1>6. Grammar = CHOOSE h : Whole(h)
  BY DEF Grammar
<1>7. Whole(Grammar)
  <2> HIDE DEF Whole, g
  <2>1. QED
    BY <1>5, <1>6
<1>8. Grammar = [q \in Phrases |-> Derived(Grammar, q[1], q[2])]
  BY <1>7
<1> HIDE DEF Grammar
<1>9. QED
  BY <1>8

G(kind, i) == Grammar[<<kind, i>>]

LEMMA GrammarValue ==
    ASSUME TokensOK, NEW i \in 1..Len(res) + 1, NEW j
    PROVE  j \in G("value", i)
             <=> /\ j \in i..Len(res)
                 /\ \/ j = i /\ IsScalar(Kw(i))
                    \/ /\ Kw(i) \in Opening /\ Kw(j) = CloseOf(Kw(i))
                       /\ j = i + 1 \/ j - 1 \in G(KindOfList(Kw(i)), i + 1)
<1>1. <<"value", i>> \in Phrases /\ <<"value", i>>[1] = "value" /\ <<"value", i>>[2] = i
  <2>1. "value" \in {"value", "array", "object"}
    OBVIOUS
  <2>2. QED
    BY <2>1, PhraseIs
<1>2. G("value", i) = Derived(Grammar, "value", i)
  BY <1>1, GrammarIs DEF G
<1>3. QED
  BY <1>2, DerivedValue DEF G

LEMMA GrammarList ==
    ASSUME TokensOK, NEW kind \in Lists, NEW i \in 1..Len(res) + 1, NEW j
    PROVE  j \in G(kind, i)
             <=> /\ Keyed(kind, i)
                 /\ \/ j \in G("value", From(kind, i))
                    \/ \E m \in From(kind, i)..Len(res) :
                         m \in G("value", From(kind, i)) /\ Comma(m + 1) /\ j \in G(kind, m + 2)
<1>1. <<kind, i>> \in Phrases /\ <<kind, i>>[1] = kind /\ <<kind, i>>[2] = i
  <2>1. kind \in {"value", "array", "object"}
    BY DEF Lists
  <2>2. QED
    BY <2>1, PhraseIs
<1>2. G(kind, i) = Derived(Grammar, kind, i)
  BY <1>1, GrammarIs DEF G
<1>3. j \in Derived(Grammar, kind, i)
        <=> /\ Keyed(kind, i)
            /\ \/ j \in Grammar[<<"value", From(kind, i)>>]
               \/ \E m \in From(kind, i)..Len(res) :
                    m \in Grammar[<<"value", From(kind, i)>>] /\ Comma(m + 1) /\ j \in Grammar[<<kind, m + 2>>]
  BY Zenon, DerivedList
<1>4. QED
  BY Zenon, <1>2, <1>3 DEF G

\* What the descent accepts is JSON.
Accepted(c) ==
    /\ c[1] = "value" /\ c[3] = 0 /\ VAt(c[2]) > 0 => VAt(c[2]) \in G("value", c[2])
    /\ c[1] \in Lists /\ LAt(c[1], c[2], c[3]) > 0 => c[2] < c[3] /\ c[3] - 1 \in G(c[1], c[2])

LEMMA Sound ==
    ASSUME TokensOK, NEW c \in Calls
    PROVE  Accepted(c)
<1> DEFINE Good == {d \in Calls : Accepted(d)}
<1>1. ASSUME NEW b \in Calls, \A d \in Calls : Rank(d) < Rank(b) => d \in Good
      PROVE  b \in Good
  <2> DEFINE i == b[2]
             e == b[3]
  <2>1. Len(res) \in Nat /\ i \in 1..Len(res) + 1 /\ e \in 0..Len(res) /\ b = <<b[1], i, e>>
        /\ b[1] \in {"value", "array", "object"}
    BY KwIs, CallIs
  <2>2. \A d \in Calls : Rank(d) < Rank(b) => Accepted(d)
    BY <1>1
  <2> HIDE DEF i, e
  <2>3. ASSUME b[1] = "value", e = 0, VAt(i) > 0
        PROVE  VAt(i) \in G("value", i)
    <3>1. VAt(i) \in Int /\ VAt(i) \in i..Len(res) /\ i <= Len(res) /\ i \in 1..Len(res)
      <4>1. VAt(i) \in i..Len(res)
        BY <2>1, <2>3, ValueAt
      <4>2. QED
        BY <2>1, <4>1
    <3>2. CASE Kw(i) \notin Opening
      <4>1. VAt(i) = IF IsScalar(Kw(i)) THEN i ELSE Thrown
        BY <2>1, <3>1, <3>2, ValueAt
      <4>2. IsScalar(Kw(i)) /\ VAt(i) = i
        <5>1. ~(Thrown > 0)
          BY DEF Thrown
        <5>2. QED
          BY <2>3, <4>1, <5>1
      <4>3. QED
        BY <2>1, <3>1, <4>2, GrammarValue
    <3>3. CASE Kw(i) \in Opening
      <4> DEFINE k == KindOfList(Kw(i))
                 d == <<k, i + 1, End(i)>>
      <4>1. VAt(i) = IF End(i) <= 0 \/ End(i) = i + 1 THEN End(i) ELSE LAt(k, i + 1, End(i))
        BY <2>1, <3>1, <3>3, ValueAt
      <4>2. \/ End(i) = Overrun
            \/ End(i) \in i + 1..Len(res) /\ Kw(End(i)) = CloseOf(Kw(i))
        <5> HIDE DEF k, d
        <5>1. QED
          BY <3>1, <3>3, EndIs
      <4>3. End(i) # Overrun
        <5>1. Overrun <= 0 /\ ~(Overrun > 0)
          BY DEF Overrun
        <5>2. End(i) = Overrun => VAt(i) = Overrun
          BY <4>1, <5>1
        <5>3. QED
          BY <2>3, <5>1, <5>2
      <4>4. End(i) \in i + 1..Len(res) /\ Kw(End(i)) = CloseOf(Kw(i))
        BY <4>2, <4>3
      <4>5. CASE End(i) = i + 1
        <5>1. VAt(i) = i + 1 /\ i + 1 \in i..Len(res) /\ Kw(i + 1) = CloseOf(Kw(i))
          BY <2>1, <3>1, <4>1, <4>4, <4>5
        <5>2. QED
          BY <2>1, <3>3, <5>1, GrammarValue
      <4>6. CASE End(i) # i + 1
        <5>1. ~(End(i) <= 0) /\ End(i) \in i..Len(res) /\ End(i) \in 0..Len(res)
          BY <2>1, <3>1, <4>4
        <5>2. VAt(i) = LAt(k, i + 1, End(i))
          BY <4>1, <4>6, <5>1
        <5>3. k \in Lists /\ i + 1 \in 1..Len(res) + 1
          BY <3>1, <2>1 DEF KindOfList, Lists
        <5>4. LAt(k, i + 1, End(i)) = End(i)
          BY <2>3, <5>1, <5>2, <5>3, ListAt
        <5>5. d \in Calls /\ Rank(d) < Rank(b)
          BY <2>1, <2>3, <3>1, <4>4, ListInside
        <5>6. Accepted(d)
          BY <2>2, <5>5
        <5>7. d[1] = k /\ d[2] = i + 1 /\ d[3] = End(i)
          OBVIOUS
        <5> HIDE DEF d, k
        <5>8. End(i) - 1 \in G(k, i + 1)
          BY <2>3, <5>2, <5>3, <5>6, <5>7 DEF Accepted
        <5>9. QED
          BY <2>1, <3>3, <4>4, <5>1, <5>2, <5>4, <5>8, GrammarValue DEF k
      <4>7. QED
        BY <4>5, <4>6
    <3>4. QED
      BY <3>2, <3>3
  <2>4. ASSUME b[1] \in Lists, LAt(b[1], i, e) > 0
        PROVE  i < e /\ e - 1 \in G(b[1], i)
    <3> DEFINE kind == b[1]
               from == From(kind, i)
               x == VAt(from)
    <3>1. LAt(kind, i, e) = IF ~Keyed(kind, i) THEN Thrown
                            ELSE IF x <= 0 THEN x
                            ELSE IF x + 1 = e THEN e
                            ELSE IF ~Comma(x + 1) THEN Thrown
                            ELSE LAt(kind, x + 2, e)
      BY <2>1, <2>4, ListAt
    <3>2. ~(Thrown > 0)
      BY DEF Thrown
    <3>3. Keyed(kind, i)
      BY <2>4, <3>1, <3>2
    <3>4. from \in i..Len(res) + 1 /\ from \in 1..Len(res) + 1
      <4>1. from \in i..Len(res) + 1
        BY <2>1, <2>4, <3>3, FromIs
      <4>2. QED
        BY <2>1, <4>1
    <3>5. x \in Int /\ (x > 0 => x \in from..Len(res))
      BY <3>4, ValueAt
    <3>6. x > 0
      <4>1. x <= 0 => LAt(kind, i, e) = x
        BY <3>1, <3>3
      <4> HIDE DEF x, from
      <4>2. QED
        BY <2>4, <3>5, <4>1
    <3>7. x \in from..Len(res) /\ x \in i..Len(res) /\ ~(x <= 0)
      <4> HIDE DEF x, from
      <4>1. QED
        BY <2>1, <3>4, <3>5, <3>6
    <3>8. x \in G("value", from)
      <4> DEFINE d == <<"value", from, 0>>
      <4>1. d \in Calls /\ Rank(d) < Rank(b)
        BY <2>1, <2>4, <3>3, ValueInside
      <4>2. Accepted(d)
        BY <2>2, <4>1
      <4>3. d[1] = "value" /\ d[2] = from /\ d[3] = 0
        OBVIOUS
      <4> HIDE DEF d
      <4>4. QED
        BY <3>6, <4>2, <4>3 DEF Accepted
    <3> HIDE DEF x, from, kind
    <3>9. CASE x + 1 = e
      <4>1. i < e /\ e - 1 = x
        BY <2>1, <3>7, <3>9
      <4>2. x \in G(kind, i)
        BY <2>1, <2>4, <3>3, <3>8, GrammarList DEF from, kind
      <4>3. QED
        BY <4>1, <4>2 DEF kind
    <3>10. CASE x + 1 # e
      <4>1. Comma(x + 1) /\ LAt(kind, i, e) = LAt(kind, x + 2, e)
        BY <2>4, <3>1, <3>2, <3>3, <3>7, <3>10 DEF kind
      <4> DEFINE d == <<kind, x + 2, e>>
      <4>2. x \in Int /\ x > 0 /\ x >= i
        BY <2>1, <3>5, <3>7
      <4>3. d \in Calls /\ Rank(d) < Rank(b)
        BY <2>1, <2>4, <4>1, <4>2, RestInside DEF kind, Comma
      <4>4. Accepted(d)
        BY <2>2, <4>3
      <4>5. d[1] = kind /\ d[2] = x + 2 /\ d[3] = e
        OBVIOUS
      <4> HIDE DEF d
      <4>6. x + 2 < e /\ e - 1 \in G(kind, x + 2)
        BY <2>4, <4>1, <4>4, <4>5 DEF Accepted, kind
      <4>7. e - 1 \in G(kind, i)
        BY <2>1, <2>4, <3>3, <3>7, <3>8, <4>1, <4>6, GrammarList DEF from, kind
      <4>8. i < e
        BY <2>1, <4>2, <4>6
      <4>9. QED
        BY <4>7, <4>8 DEF kind
    <3>11. QED
      BY <3>9, <3>10
  <2>5. QED
    BY <2>3, <2>4 DEF Accepted, i, e
<1>2. \A b \in Calls : b \in Good
  <2> HIDE DEF Good
  <2>1. QED
    BY <1>1, CallInduction
<1>3. QED
  BY <1>2

-----------------------------------------------------------------------------
(* A phrase has its brackets balanced, so a bracket that begins it is closed *)
(* where it ends.                                                            *)

H(b, j) == Height(Brackets, b, j)
Balanced(i, j) ==
    \A b \in DOMAIN Closer : H(b, j) = H(b, i - 1) /\ \A k \in i..j : H(b, k) >= H(b, i - 1)

LEMMA HIs ==
    ASSUME TokensOK
    PROVE  /\ \A b \in DOMAIN Closer, j \in Nat : H(b, j) \in Int
           /\ \A b \in DOMAIN Closer, j \in 1..Len(res) : H(b, j) = H(b, j - 1) + Change(b, Brackets[j])
<1>1. Brackets \in Seq(Token_) /\ Len(Brackets) = Len(res)
  BY BracketsAre
<1>2. \A b \in DOMAIN Closer, j \in Nat : H(b, j) \in Int
  BY HeightIs DEF H
<1>3. \A b \in DOMAIN Closer, j \in 1..Len(res) : H(b, j) = H(b, j - 1) + Change(b, Brackets[j])
  BY <1>1, HeightStep DEF H
<1>4. QED
  BY <1>2, <1>3

NoBracketAt(i) == Brackets[i] \notin {"(", "[", "{", ")", "]", "}"}

LEMMA BalancedOne ==
    ASSUME TokensOK, NEW i \in 1..Len(res), NoBracketAt(i)
    PROVE  Balanced(i, i)
<1>1. i \in Nat /\ i - 1 \in Nat
  <2>1. Len(res) \in Nat
    BY KwIs
  <2>2. QED
    BY <2>1
<1>2. ASSUME NEW b \in DOMAIN Closer
      PROVE  H(b, i) = H(b, i - 1) /\ H(b, i - 1) \in Int
  <2>1. b \in {"(", "[", "{", ")", "]", "}"} /\ Closer[b] \in {"(", "[", "{", ")", "]", "}"}
    BY CloserIs
  <2>2. Change(b, Brackets[i]) = 0
    BY <2>1 DEF Change, NoBracketAt
  <2>3. H(b, i - 1) \in Int /\ H(b, i) = H(b, i - 1) + Change(b, Brackets[i])
    BY <1>1, HIs
  <2>4. QED
    BY <2>2, <2>3
<1>3. ASSUME NEW b \in DOMAIN Closer
      PROVE  \A k \in i..i : H(b, k) >= H(b, i - 1)
  <2>1. \A k \in i..i : k = i
    BY <1>1
  <2>2. H(b, i) >= H(b, i - 1)
    BY <1>2
  <2>3. QED
    BY <2>1, <2>2
<1>4. QED
  BY <1>2, <1>3 DEF Balanced

LEMMA BalancedJoin ==
    ASSUME TokensOK, NEW i \in 1..Len(res), NEW m \in i..Len(res), NEW j \in m + 1..Len(res),
           Balanced(i, m), Balanced(m + 1, j)
    PROVE  Balanced(i, j)
<1>1. ASSUME NEW b \in DOMAIN Closer
      PROVE  H(b, j) = H(b, i - 1) /\ \A k \in i..j : H(b, k) >= H(b, i - 1)
  <2>1. Len(res) \in Nat /\ i \in Nat /\ m \in Nat /\ j \in Nat /\ m + 1 - 1 = m /\ i - 1 \in Nat
    BY KwIs
  <2>2. H(b, m) = H(b, i - 1) /\ \A k \in i..m : H(b, k) >= H(b, i - 1)
    BY DEF Balanced
  <2>3. H(b, j) = H(b, m) /\ \A k \in m + 1..j : H(b, k) >= H(b, m)
    BY <2>1 DEF Balanced
  <2>4. \A k \in i..j : k \in i..m \/ k \in m + 1..j
    BY <2>1
  <2>5. QED
    BY <2>2, <2>3, <2>4
<1>2. QED
  BY <1>1 DEF Balanced

LEMMA BalancedEnclosed ==
    ASSUME TokensOK, NEW i \in 1..Len(res), NEW j \in i + 1..Len(res),
           Brackets[i] \in DOMAIN Closer, Brackets[j] = Closer[Brackets[i]],
           j = i + 1 \/ Balanced(i + 1, j - 1)
    PROVE  Balanced(i, j) /\ Closes(Brackets, i, j)
<1>1. Len(res) \in Nat /\ i \in Nat /\ j \in Nat /\ i - 1 \in Nat /\ j - 1 \in Nat /\ i + 1 - 1 = i /\ j \in 1..Len(res)
  BY KwIs
<1> DEFINE o == Brackets[i]
<1>2. ASSUME NEW b \in DOMAIN Closer
      PROVE  /\ H(b, i) = H(b, i - 1) + (IF b = o THEN 1 ELSE 0)
             /\ H(b, j) = H(b, i - 1)
             /\ \A k \in i..j - 1 : H(b, k) >= H(b, i)
             /\ H(b, i - 1) \in Int
  <2>1. H(b, i) = H(b, i - 1) + Change(b, o) /\ H(b, j) = H(b, j - 1) + Change(b, Closer[o])
    BY <1>1, HIs
  <2>2. H(b, i) \in Int /\ H(b, i - 1) \in Int /\ H(b, j) \in Int /\ H(b, j - 1) \in Int
    BY <1>1, HIs
  <2>3. Change(b, o) = IF b = o THEN 1 ELSE 0
    BY CloserIs DEF Change
  <2>4. Change(b, Closer[o]) = IF b = o THEN -1 ELSE 0
    <3>1. Closer[o] # b
      BY CloserIs
    <3>2. Closer[o] = Closer[b] <=> o = b
      <4>1. ")" # "]" /\ ")" # "}" /\ "]" # "}"
        OBVIOUS
      <4>2. QED
        BY <4>1, CloserIs
    <3>3. QED
      BY <3>1, <3>2 DEF Change
  <2>5. H(b, j - 1) = H(b, i) /\ \A k \in i..j - 1 : H(b, k) >= H(b, i)
    <3>1. CASE j = i + 1
      <4>1. j - 1 = i /\ \A k \in i..j - 1 : k = i
        BY <1>1, <3>1
      <4>2. QED
        BY <2>2, <4>1
    <3>2. CASE Balanced(i + 1, j - 1)
      <4>1. H(b, j - 1) = H(b, i) /\ \A k \in i + 1..j - 1 : H(b, k) >= H(b, i)
        BY <1>1, <3>2 DEF Balanced
      <4>2. \A k \in i..j - 1 : k = i \/ k \in i + 1..j - 1
        BY <1>1
      <4>3. QED
        BY <2>2, <4>1, <4>2
    <3>3. QED
      BY <3>1, <3>2
  <2> HIDE DEF o
  <2>6. QED
    BY <2>1, <2>2, <2>3, <2>4, <2>5
<1>3. Balanced(i, j)
  <2>1. ASSUME NEW b \in DOMAIN Closer
        PROVE  H(b, j) = H(b, i - 1) /\ \A k \in i..j : H(b, k) >= H(b, i - 1)
    <3>1. H(b, i) >= H(b, i - 1) /\ H(b, j) = H(b, i - 1) /\ H(b, i - 1) \in Int /\ H(b, i) \in Int
      <4>1. H(b, i) = H(b, i - 1) + 1 \/ H(b, i) = H(b, i - 1) + 0
        BY <1>2
      <4>2. H(b, j) = H(b, i - 1) /\ H(b, i - 1) \in Int
        BY <1>2
      <4>3. QED
        BY <4>1, <4>2
    <3>2. \A k \in i..j - 1 : H(b, k) >= H(b, i) /\ H(b, k) \in Int
      <4>1. \A k \in i..j - 1 : k \in Nat
        BY <1>1
      <4>2. \A k \in i..j - 1 : H(b, k) \in Int
        BY <4>1, HIs
      <4>3. QED
        BY <1>2, <4>2
    <3>3. \A k \in i..j : k = j \/ k \in i..j - 1
      BY <1>1
    <3>4. QED
      BY <3>1, <3>2, <3>3
  <2>2. QED
    BY <2>1 DEF Balanced
<1>4. Closes(Brackets, i, j)
  <2>1. H(o, j) = H(o, i - 1)
    BY <1>2
  <2>2. \A k \in i..j - 1 : H(o, k) > H(o, i - 1)
    <3>1. H(o, i) = H(o, i - 1) + 1 /\ H(o, i - 1) \in Int
      BY <1>2
    <3>2. \A k \in i..j - 1 : H(o, k) >= H(o, i) /\ H(o, k) \in Int
      BY <1>1, <1>2, HIs
    <3> HIDE DEF o
    <3>3. QED
      BY <3>1, <3>2
  <2>3. QED
    BY <2>1, <2>2 DEF Closes, H
<1>5. QED
  BY <1>3, <1>4

LEMMA PlainBalanced ==
    ASSUME TokensOK, NEW i \in 1..Len(res),
           IsScalar(Kw(i)) \/ IsStringLiteral(Kw(i)) \/ Kw(i) = <<":">> \/ Kw(i) = <<",">>
    PROVE  Balanced(i, i) /\ Kw(i) \notin Opening /\ \A k : Kw(i) # CloseOf(k)
<1>1. \A b \in {"(", "[", "{", ")", "]", "}"} : Kw(i) # <<b>>
  BY NoBrackets
<1>2. \A b \in {"(", "[", "{", ")", "]", "}"} : b # "word" => Brackets[i] # b
  BY <1>1, BracketIs
<1>3. \A b \in {"(", "[", "{", ")", "]", "}"} : b # "word"
  OBVIOUS
<1>4. NoBracketAt(i)
  BY <1>2, <1>3 DEF NoBracketAt
<1>5. Kw(i) \notin Opening /\ \A k : Kw(i) # CloseOf(k)
  BY <1>1 DEF Opening, CloseOf
<1>6. QED
  BY <1>4, <1>5, BalancedOne

LEMMA SpanArithmetic ==
    ASSUME NEW n \in Nat, NEW i \in 1..n + 1, NEW m \in i..n, NEW j \in m + 2..n
    PROVE  /\ i \in 1..n /\ m + 1 \in m + 1..n /\ m + 1 \in 1..n /\ m + 1 \in i..n
           /\ j \in m + 1 + 1..n /\ m + 2 = m + 1 + 1 /\ j \in i..n
OBVIOUS

\* A phrase spans tokens in which the brackets are balanced.
Spans(p) == \A j : j \in G(p[1], p[2]) => j \in p[2]..Len(res) /\ Balanced(p[2], j)

LEMMA PhraseSpans ==
    ASSUME TokensOK, NEW p \in Phrases
    PROVE  Spans(p)
<1> DEFINE Good == {q \in Phrases : Spans(q)}
<1>1. ASSUME NEW q \in Phrases, \A r \in Phrases : PRank(r) < PRank(q) => r \in Good
      PROVE  q \in Good
  <2> DEFINE i == q[2]
             kind == q[1]
  <2>1. Len(res) \in Nat /\ i \in 1..Len(res) + 1 /\ q = <<kind, i>> /\ kind \in {"value", "array", "object"}
    BY KwIs, PhraseIs
  <2>2. \A r \in Phrases : PRank(r) < PRank(q) => Spans(r)
    BY <1>1
  <2> HIDE DEF i, kind
  <2>3. ASSUME kind = "value", NEW j, j \in G(kind, i)
        PROVE  j \in i..Len(res) /\ Balanced(i, j)
    <3>1. /\ j \in i..Len(res)
          /\ \/ j = i /\ IsScalar(Kw(i))
             \/ /\ Kw(i) \in Opening /\ Kw(j) = CloseOf(Kw(i))
                /\ j = i + 1 \/ j - 1 \in G(KindOfList(Kw(i)), i + 1)
      BY <2>1, <2>3, GrammarValue
    <3>2. i \in 1..Len(res)
      BY <2>1, <3>1
    <3>3. CASE j = i /\ IsScalar(Kw(i))
      BY <3>1, <3>2, <3>3, PlainBalanced
    <3>4. CASE /\ Kw(i) \in Opening /\ Kw(j) = CloseOf(Kw(i))
               /\ j = i + 1 \/ j - 1 \in G(KindOfList(Kw(i)), i + 1)
      <4> DEFINE k == KindOfList(Kw(i))
                 r == <<k, i + 1>>
      <4>1. k \in Lists
        BY DEF KindOfList, Lists
      <4>2. r \in Phrases /\ PRank(r) < PRank(q)
        <5>1. i <= Len(res)
          BY <2>1, <3>2
        <5>2. QED
          BY <2>1, <2>3, <4>1, <5>1, PhrasesInside
      <4>3. Spans(r) /\ r[1] = k /\ r[2] = i + 1
        BY <2>2, <4>2
      <4> HIDE DEF r, k
      <4>4. j = i + 1 \/ (j - 1 \in i + 1..Len(res) /\ Balanced(i + 1, j - 1))
        BY <3>4, <4>3 DEF Spans, k
      <4>5. j \in i + 1..Len(res) /\ j \in 1..Len(res)
        BY <2>1, <3>1, <3>2, <4>4
      <4>6. Brackets[i] \in DOMAIN Closer /\ Brackets[j] = Closer[Brackets[i]]
        BY <3>2, <3>4, <4>5, OpeningIs
      <4>7. QED
        BY <3>1, <3>2, <4>4, <4>5, <4>6, BalancedEnclosed
    <3>5. QED
      BY <3>1, <3>3, <3>4
  <2>4. ASSUME kind \in Lists, NEW j, j \in G(kind, i)
        PROVE  j \in i..Len(res) /\ Balanced(i, j)
    <3> DEFINE from == From(kind, i)
    <3>1. /\ Keyed(kind, i)
          /\ \/ j \in G("value", from)
             \/ \E m \in from..Len(res) : m \in G("value", from) /\ Comma(m + 1) /\ j \in G(kind, m + 2)
      BY <2>1, <2>4, GrammarList
    <3>2. from \in i..Len(res) + 1
      BY <2>1, <2>4, <3>1, FromIs
    <3>3. ASSUME NEW m, m \in G("value", from)
          PROVE  m \in i..Len(res) /\ m \in from..Len(res) /\ Balanced(i, m)
      <4> DEFINE r == <<"value", from>>
      <4>1. r \in Phrases /\ PRank(r) < PRank(q)
        BY <2>1, <2>4, <3>1, PhrasesInside
      <4>2. Spans(r) /\ r[1] = "value" /\ r[2] = from
        BY <2>2, <4>1
      <4> HIDE DEF r, from
      <4>3. m \in from..Len(res) /\ Balanced(from, m)
        BY <3>3, <4>2 DEF Spans
      <4>4. CASE from = i
        BY <4>3, <4>4
      <4>5. CASE from # i
        <5>1. kind = "object" /\ from = i + 2
          BY <4>5 DEF from, From
        <5>2. IsStringLiteral(Kw(i)) /\ Kw(i + 1) = <<":">>
          BY <3>1, <5>1 DEF Keyed
        <5>3. i \in 1..Len(res) /\ i + 1 \in i + 1..Len(res) /\ i + 1 \in 1..Len(res)
              /\ m \in i + 1 + 1..Len(res) /\ i + 2 = i + 1 + 1 /\ i + 1 \in i..Len(res) /\ i \in i..Len(res)
          <6> HIDE DEF Keyed
          <6>1. m \in i + 2..Len(res)
            BY <4>3, <5>1
          <6>2. QED
            BY <2>1, <6>1
        <5>4. Balanced(i, i) /\ Balanced(i + 1, i + 1)
          BY <5>2, <5>3, PlainBalanced
        <5>5. Balanced(i, i + 1)
          BY <5>3, <5>4, BalancedJoin
        <5>6. Balanced(i + 1 + 1, m)
          BY <4>3, <5>1, <5>3
        <5>7. Balanced(i, m)
          BY <5>3, <5>5, <5>6, BalancedJoin
        <5>8. m \in i..Len(res)
          BY <2>1, <5>3
        <5>9. QED
          BY <4>3, <5>7, <5>8
      <4>6. QED
        BY <4>4, <4>5
    <3>4. CASE j \in G("value", from)
      BY <3>3, <3>4
    <3>5. CASE \E m \in from..Len(res) : m \in G("value", from) /\ Comma(m + 1) /\ j \in G(kind, m + 2)
      <4>1. PICK m \in from..Len(res) : m \in G("value", from) /\ Comma(m + 1) /\ j \in G(kind, m + 2)
        BY <3>5
      <4> DEFINE r == <<kind, m + 2>>
      <4>2. r \in Phrases /\ PRank(r) < PRank(q)
        BY <2>1, <2>4, <3>1, <4>1, PhrasesInside
      <4>3. Spans(r) /\ r[1] = kind /\ r[2] = m + 2
        BY <2>2, <4>2
      <4> HIDE DEF r, from
      <4>4. j \in m + 2..Len(res) /\ Balanced(m + 2, j)
        BY <4>1, <4>3 DEF Spans
      <4>5. m \in i..Len(res) /\ Balanced(i, m)
        BY <3>3, <4>1
      <4>6. i \in 1..Len(res) /\ m + 1 \in m + 1..Len(res) /\ m + 1 \in 1..Len(res) /\ m + 1 \in i..Len(res)
            /\ j \in m + 1 + 1..Len(res) /\ m + 2 = m + 1 + 1 /\ j \in i..Len(res)
        <5>1. j \in m + 2..Len(res) /\ m \in i..Len(res)
          BY <4>4, <4>5
        <5>2. QED
          BY <2>1, <5>1, SpanArithmetic
      <4>7. Balanced(m + 1, m + 1)
        BY <4>1, <4>6, PlainBalanced DEF Comma
      <4>8. Balanced(i, m + 1)
        BY <4>5, <4>6, <4>7, BalancedJoin
      <4>9. Balanced(m + 1 + 1, j)
        BY <4>4, <4>6
      <4>10. Balanced(i, j)
        BY <4>6, <4>8, <4>9, BalancedJoin
      <4>11. QED
        BY <4>6, <4>10
    <3>6. QED
      BY <3>1, <3>4, <3>5
  <2>5. kind = "value" \/ kind \in Lists
    BY <2>1 DEF Lists
  <2>6. \A j : j \in G(kind, i) => j \in i..Len(res) /\ Balanced(i, j)
    BY <2>3, <2>4, <2>5
  <2>7. QED
    BY <2>6 DEF Spans, kind, i
<1>2. \A q \in Phrases : q \in Good
  <2> HIDE DEF Good
  <2>1. QED
    BY <1>1, PhraseInduction
<1>3. QED
  BY <1>2

LEMMA ClosersOpenNothing ==
    ASSUME NEW k
    PROVE  CloseOf(k) \notin Opening
<1>1. \A a \in {"]", "}"}, b \in {"[", "{"} : <<a>> # <<b>>
  <2>1. \A a \in {"]", "}"}, b \in {"[", "{"} : a # b
    OBVIOUS
  <2>2. \A a, b : <<a>> = <<b>> => a = b
    OBVIOUS
  <2>3. QED
    BY <2>1, <2>2
<1>2. QED
  BY <1>1 DEF CloseOf, Opening

LEMMA WithinArithmetic ==
    ASSUME NEW i \in Int, NEW o \in Int, NEW x \in Int, NEW e \in Int, o < i, x >= i, x + 1 # e, x < e
    PROVE  o < x + 2 /\ x + 2 <= e
OBVIOUS

\* What is JSON the descent accepts, and ends where the grammar does.
Complete(c) ==
    /\ c[1] = "value" /\ c[3] = 0 => \A j \in G("value", c[2]) : VAt(c[2]) = j
    /\ c[1] \in Lists /\ c[3] > 0 /\ c[3] - 1 \in G(c[1], c[2]) => LAt(c[1], c[2], c[3]) = c[3]

LEMMA GrammarSpans ==
    ASSUME TokensOK, NEW kind \in {"value", "array", "object"}, NEW i \in 1..Len(res) + 1, NEW j \in G(kind, i)
    PROVE  j \in i..Len(res) /\ Balanced(i, j)
<1>1. <<kind, i>> \in Phrases /\ <<kind, i>>[1] = kind /\ <<kind, i>>[2] = i
  BY PhraseIs
<1>2. Spans(<<kind, i>>)
  BY <1>1, PhraseSpans
<1>3. QED
  BY <1>1, <1>2 DEF Spans

LEMMA AllComplete ==
    ASSUME TokensOK, NEW c \in Calls
    PROVE  Complete(c)
<1> DEFINE Good == {d \in Calls : Complete(d)}
<1>1. ASSUME NEW b \in Calls, \A d \in Calls : Rank(d) < Rank(b) => d \in Good
      PROVE  b \in Good
  <2> DEFINE i == b[2]
             e == b[3]
  <2>1. Len(res) \in Nat /\ i \in 1..Len(res) + 1 /\ e \in 0..Len(res) /\ b = <<b[1], i, e>>
        /\ b[1] \in {"value", "array", "object"}
    BY KwIs, CallIs
  <2>2. \A d \in Calls : Rank(d) < Rank(b) => Complete(d)
    BY <1>1
  <2> HIDE DEF i, e
  <2>3. ASSUME b[1] = "value", e = 0, NEW j \in G("value", i)
        PROVE  VAt(i) = j
    <3>1. /\ j \in i..Len(res)
          /\ \/ j = i /\ IsScalar(Kw(i))
             \/ /\ Kw(i) \in Opening /\ Kw(j) = CloseOf(Kw(i))
                /\ j = i + 1 \/ j - 1 \in G(KindOfList(Kw(i)), i + 1)
      BY <2>1, GrammarValue
    <3>2. i \in 1..Len(res) /\ i <= Len(res)
      BY <2>1, <3>1
    <3>3. CASE j = i /\ IsScalar(Kw(i))
      <4>1. Kw(i) \notin Opening
        BY <3>2, <3>3, PlainBalanced
      <4>2. VAt(i) = IF IsScalar(Kw(i)) THEN i ELSE Thrown
        BY <2>1, <3>2, <4>1, ValueAt
      <4>3. QED
        BY <3>3, <4>2
    <3>4. CASE /\ Kw(i) \in Opening /\ Kw(j) = CloseOf(Kw(i))
               /\ j = i + 1 \/ j - 1 \in G(KindOfList(Kw(i)), i + 1)
      <4> DEFINE k == KindOfList(Kw(i))
                 d == <<k, i + 1, j>>
      <4>1. k \in Lists /\ k \in {"value", "array", "object"} /\ i + 1 \in 1..Len(res) + 1
        BY <2>1, <3>2 DEF KindOfList, Lists
      <4>2. j = i + 1 \/ (j - 1 \in i + 1..Len(res) /\ Balanced(i + 1, j - 1))
        <5> HIDE DEF k
        <5>1. j - 1 \in G(k, i + 1) => j - 1 \in i + 1..Len(res) /\ Balanced(i + 1, j - 1)
          BY <4>1, GrammarSpans
        <5>2. QED
          BY <3>4, <5>1 DEF k
      <4>3. j \in i + 1..Len(res) /\ j \in 1..Len(res)
        <5>1. j = i + 1 \/ j - 1 \in i + 1..Len(res)
          BY <4>2
        <5> HIDE DEF k, d
        <5>2. QED
          BY <2>1, <3>1, <3>2, <5>1
      <4>4. Brackets[i] \in DOMAIN Closer /\ Brackets[j] = Closer[Brackets[i]]
        BY <3>2, <3>4, <4>3, OpeningIs
      <4>5. Closes(Brackets, i, j)
        BY <3>2, <4>2, <4>3, <4>4, BalancedEnclosed
      <4>6. End(i) = j
        BY <3>2, <4>3, <4>4, <4>5, BracketsAre, ClosingUnique DEF End
      <4>7. VAt(i) = IF End(i) <= 0 \/ End(i) = i + 1 THEN End(i) ELSE LAt(k, i + 1, End(i))
        BY <2>1, <3>2, <3>4, ValueAt
      <4>8. CASE j = i + 1
        BY <4>6, <4>7, <4>8
      <4>9. CASE j # i + 1
        <5>1. VAt(i) = LAt(k, i + 1, j)
          <6>1. ~(j <= 0)
            BY <4>3
          <6> HIDE DEF k, d
          <6>2. QED
            BY <4>6, <4>7, <4>9, <6>1
        <5>2. d \in Calls /\ Rank(d) < Rank(b)
          BY <2>1, <2>3, <3>2, <4>3, ListInside
        <5>3. Complete(d)
          BY <2>2, <5>2
        <5>4. d[1] = k /\ d[2] = i + 1 /\ d[3] = j
          OBVIOUS
        <5>5. j - 1 \in G(k, i + 1) /\ j > 0
          BY <3>4, <4>3, <4>9
        <5> HIDE DEF d, k
        <5>6. LAt(k, i + 1, j) = j
          BY <4>1, <5>3, <5>4, <5>5 DEF Complete
        <5>7. QED
          BY <5>1, <5>6
      <4>10. QED
        BY <4>8, <4>9
    <3>5. QED
      BY <3>1, <3>3, <3>4
  <2>4. ASSUME b[1] \in Lists, e > 0, e - 1 \in G(b[1], i)
        PROVE  LAt(b[1], i, e) = e
    <3> DEFINE kind == b[1]
               from == From(kind, i)
    <3>1. LAt(kind, i, e) = IF ~Keyed(kind, i) THEN Thrown
                            ELSE IF VAt(from) <= 0 THEN VAt(from)
                            ELSE IF VAt(from) + 1 = e THEN e
                            ELSE IF ~Comma(VAt(from) + 1) THEN Thrown
                            ELSE LAt(kind, VAt(from) + 2, e)
      BY <2>1, <2>4, ListAt
    <3>2. /\ Keyed(kind, i)
          /\ \/ e - 1 \in G("value", from)
             \/ \E m \in from..Len(res) : m \in G("value", from) /\ Comma(m + 1) /\ e - 1 \in G(kind, m + 2)
      BY <2>1, <2>4, GrammarList
    <3>3. from \in i..Len(res) + 1 /\ from \in 1..Len(res) + 1
      <4>1. from \in i..Len(res) + 1
        BY <2>1, <2>4, <3>2, FromIs
      <4>2. QED
        BY <2>1, <4>1
    <3>4. ASSUME NEW m \in G("value", from)
          PROVE  VAt(from) = m /\ m \in Int /\ m >= from /\ m > 0 /\ ~(m <= 0) /\ m <= Len(res)
      <4> DEFINE d == <<"value", from, 0>>
      <4>1. d \in Calls /\ Rank(d) < Rank(b)
        BY <2>1, <2>4, <3>2, ValueInside
      <4>2. Complete(d) /\ d[1] = "value" /\ d[2] = from /\ d[3] = 0
        BY <2>2, <4>1
      <4> HIDE DEF d, from
      <4>3. VAt(from) = m
        BY <4>2 DEF Complete
      <4>4. m \in from..Len(res)
        BY <3>3, GrammarSpans
      <4>5. QED
        BY <3>3, <4>3, <4>4
    <3> HIDE DEF from, kind
    <3>5. CASE e - 1 \in G("value", from)
      <4>1. VAt(from) = e - 1 /\ ~(e - 1 <= 0)
        BY <3>4, <3>5
      <4>2. e - 1 + 1 = e
        BY <2>1
      <4>3. LAt(kind, i, e) = e
        BY <3>1, <3>2, <4>1, <4>2
      <4>4. QED
        BY <4>3 DEF kind
    <3>6. CASE \E m \in from..Len(res) : m \in G("value", from) /\ Comma(m + 1) /\ e - 1 \in G(kind, m + 2)
      <4>1. PICK m : m \in G("value", from) /\ Comma(m + 1) /\ e - 1 \in G(kind, m + 2)
        BY <3>6
      <4>2. VAt(from) = m /\ m \in Int /\ m >= from /\ m > 0 /\ ~(m <= 0)
        BY <3>4, <4>1
      <4>3. m >= i
        BY <2>1, <3>3, <4>2
      <4> DEFINE d == <<kind, m + 2, e>>
      <4>4. d \in Calls /\ Rank(d) < Rank(b)
        BY <2>1, <2>4, <4>1, <4>2, <4>3, RestInside DEF kind, Comma
      <4>5. Complete(d) /\ d[1] = kind /\ d[2] = m + 2 /\ d[3] = e
        BY <2>2, <4>4
      <4>6. LAt(kind, m + 2, e) = e
        <5> HIDE DEF d
        <5>1. QED
          BY <2>4, <4>1, <4>5 DEF Complete, kind
      <4>7. m + 1 # e
        <5>1. m + 2 \in 1..Len(res) + 1
          BY <4>1, <4>2, CommaInside DEF Comma
        <5>2. kind \in {"value", "array", "object"}
          BY <2>4 DEF kind, Lists
        <5>3. e - 1 \in m + 2..Len(res)
          BY <4>1, <5>1, <5>2, GrammarSpans
        <5>4. QED
          BY <2>1, <4>2, <5>3
      <4>8. LAt(kind, i, e) = e
        BY <3>1, <3>2, <4>1, <4>2, <4>6, <4>7
      <4>9. QED
        BY <4>8 DEF kind
    <3>7. QED
      BY <3>2, <3>5, <3>6 DEF kind, from
  <2>5. QED
    BY <2>3, <2>4 DEF Complete, i, e
<1>2. \A b \in Calls : b \in Good
  <2> HIDE DEF Good
  <2>1. QED
    BY <1>1, CallInduction
<1>3. QED
  BY <1>2

\* In nested brackets the descent never reads past the end.
InTokens(c) ==
    /\ c[1] = "value" /\ c[2] <= Len(res) /\ c[3] = 0 => VAt(c[2]) # Overrun
    /\ c[1] \in Lists /\ (\E o \in 1..Len(res) : /\ Kw(o) \in Opening /\ End(o) = c[3]
                                                 /\ o < c[2] /\ c[2] <= c[3])
         => LAt(c[1], c[2], c[3]) # Overrun

LEMMA EndNested ==
    ASSUME TokensOK, Nested(Brackets), NEW i \in 1..Len(res), Kw(i) \in Opening
    PROVE  End(i) \in i + 1..Len(res) /\ Kw(End(i)) = CloseOf(Kw(i)) /\ End(i) # Overrun /\ ~(End(i) <= 0)
<1>1. Brackets \in Seq(Token_) /\ Len(Brackets) = Len(res)
  BY BracketsAre
<1>2. i \in 1..Len(Brackets) /\ Brackets[i] \in DOMAIN Closer
  BY OpeningIs
<1>3. End(i) \in i + 1..Len(res)
  BY <1>1, <1>2, NestedCloses DEF End
<1>4. Len(res) \in Nat
  BY KwIs
<1>5. End(i) # Overrun /\ ~(End(i) <= 0)
  BY <1>3, <1>4 DEF Overrun
<1>6. QED
  BY <1>3, <1>5, EndIs

LEMMA EndWithin ==
    ASSUME TokensOK, Nested(Brackets), NEW i \in 1..Len(res), Kw(i) \in Opening,
           NEW j \in i + 1..End(i) - 1, Kw(j) \in Opening, j \in 1..Len(res)
    PROVE  End(j) < End(i)
<1>1. Brackets \in Seq(Token_) /\ Len(Brackets) = Len(res)
  BY BracketsAre
<1>2. i \in 1..Len(Brackets) /\ Brackets[i] \in DOMAIN Closer /\ Brackets[j] \in DOMAIN Closer
  BY OpeningIs
<1>3. QED
  BY <1>1, <1>2, ClosesWithin DEF End

LEMMA AllInTokens ==
    ASSUME TokensOK, Nested(Brackets), NEW c \in Calls
    PROVE  InTokens(c)
<1> DEFINE Good == {d \in Calls : InTokens(d)}
<1>1. ASSUME NEW b \in Calls, \A d \in Calls : Rank(d) < Rank(b) => d \in Good
      PROVE  b \in Good
  <2> DEFINE i == b[2]
             e == b[3]
  <2>1. Len(res) \in Nat /\ i \in 1..Len(res) + 1 /\ e \in 0..Len(res) /\ b = <<b[1], i, e>>
        /\ b[1] \in {"value", "array", "object"}
    BY KwIs, CallIs
  <2>2. \A d \in Calls : Rank(d) < Rank(b) => InTokens(d)
    BY <1>1
  <2> HIDE DEF i, e
  <2>3. Thrown # Overrun
    BY DEF Thrown, Overrun
  <2>4. ASSUME b[1] = "value", i <= Len(res), e = 0
        PROVE  VAt(i) # Overrun
    <3>1. i \in 1..Len(res)
      BY <2>1, <2>4
    <3>2. CASE Kw(i) \notin Opening
      <4>1. VAt(i) = IF IsScalar(Kw(i)) THEN i ELSE Thrown
        BY <2>1, <2>4, <3>2, ValueAt
      <4>2. i # Overrun
        BY <2>1 DEF Overrun
      <4>3. QED
        BY <2>3, <4>1, <4>2
    <3>3. CASE Kw(i) \in Opening
      <4> DEFINE k == KindOfList(Kw(i))
                 d == <<k, i + 1, End(i)>>
      <4>1. End(i) \in i + 1..Len(res) /\ End(i) # Overrun /\ ~(End(i) <= 0)
        BY <3>1, <3>3, EndNested
      <4>2. VAt(i) = IF End(i) <= 0 \/ End(i) = i + 1 THEN End(i) ELSE LAt(k, i + 1, End(i))
        BY <2>1, <2>4, <3>3, ValueAt
      <4>3. d \in Calls /\ Rank(d) < Rank(b)
        BY <2>1, <2>4, <3>1, <4>1, ListInside
      <4>4. InTokens(d) /\ d[1] = k /\ d[2] = i + 1 /\ d[3] = End(i) /\ k \in Lists
        BY <2>2, <4>3 DEF KindOfList, Lists
      <4> HIDE DEF d, k
      <4>5. i < i + 1 /\ i + 1 <= End(i)
        BY <2>1, <4>1
      <4>6. LAt(k, i + 1, End(i)) # Overrun
        BY <3>1, <3>3, <4>4, <4>5 DEF InTokens
      <4>7. QED
        BY <4>1, <4>2, <4>6
    <3>4. QED
      BY <3>2, <3>3
  <2>5. ASSUME b[1] \in Lists,
               NEW o \in 1..Len(res), Kw(o) \in Opening, End(o) = e, o < i, i <= e
        PROVE  LAt(b[1], i, e) # Overrun
    <3> DEFINE kind == b[1]
               from == From(kind, i)
               x == VAt(from)
    <3>1. LAt(kind, i, e) = IF ~Keyed(kind, i) THEN Thrown
                            ELSE IF x <= 0 THEN x
                            ELSE IF x + 1 = e THEN e
                            ELSE IF ~Comma(x + 1) THEN Thrown
                            ELSE LAt(kind, x + 2, e)
      BY <2>1, <2>5, ListAt
    <3>2. e # Overrun
      BY <2>1 DEF Overrun
    <3>3. CASE ~Keyed(kind, i)
      BY <2>3, <3>1, <3>3
    <3>4. CASE Keyed(kind, i)
      <4>1. Kw(e) = CloseOf(Kw(o)) /\ e \in o + 1..Len(res) /\ e \in 1..Len(res)
        <5>1. Kw(e) = CloseOf(Kw(o)) /\ e \in o + 1..Len(res)
          BY <2>5, EndNested
        <5>2. QED
          BY <2>1, <5>1
      <4>2. from \in i..e
        <5>1. CASE kind = "object"
          <6>1. IsStringLiteral(Kw(i)) /\ Kw(i + 1) = <<":">> /\ from = i + 2
            BY <3>4, <5>1 DEF Keyed, From
          <6>2. \A n \in 1..Len(res) : IsStringLiteral(Kw(n)) \/ Kw(n) = <<":">> => n # e
            BY <4>1, PlainBalanced
          <6>3. i # e /\ i + 1 # e
            <7>1. i \in 1..Len(res)
              BY <2>1, <2>5, <4>1
            <7>2. i # e
              BY <6>1, <6>2, <7>1
            <7>3. i + 1 # e
              BY <4>1, <6>1, <6>2
            <7>4. QED
              BY <7>2, <7>3
          <6>4. i + 2 \in i..e
            <7> HIDE DEF x, from, kind
            <7>1. QED
              BY <2>1, <2>5, <6>3
          <6>5. QED
            BY <6>1, <6>4
        <5>2. CASE kind # "object"
          <6>1. from = i
            BY <5>2 DEF From
          <6>2. i \in i..e
            BY <2>1, <2>5
          <6>3. QED
            BY <6>1, <6>2
        <5>3. QED
          BY <5>1, <5>2
      <4>3. from \in 1..Len(res) + 1 /\ from <= Len(res) /\ from \in 1..Len(res)
        <5> HIDE DEF from
        <5>1. QED
          BY <2>1, <4>1, <4>2
      <4>4. x # Overrun
        <5> DEFINE d == <<"value", from, 0>>
        <5>1. d \in Calls /\ Rank(d) < Rank(b)
          BY <2>1, <2>5, <3>4, ValueInside
        <5>2. InTokens(d) /\ d[1] = "value" /\ d[2] = from /\ d[3] = 0
          BY <2>2, <5>1
        <5> HIDE DEF d
        <5>3. QED
          BY <4>3, <5>2 DEF InTokens
      <4>5. x \in Int /\ (x > 0 => x \in from..Len(res))
        BY <4>3, ValueAt
      <4>6. CASE x <= 0
        BY <3>1, <3>4, <4>4, <4>6
      <4>7. CASE x > 0 /\ x + 1 = e
        BY <3>1, <3>2, <3>4, <4>4, <4>7
      <4>8. CASE x > 0 /\ x + 1 # e /\ ~Comma(x + 1)
        <5>1. ~(x <= 0)
          BY <4>5, <4>8
        <5>2. QED
          BY <2>3, <3>1, <3>4, <4>8, <5>1
      <4>9. CASE x > 0 /\ x + 1 # e /\ Comma(x + 1)
        <5>1. ~(x <= 0) /\ x \in from..Len(res) /\ x \in Int /\ x >= i
          <6>1. from >= i /\ from \in Int
            <7> HIDE DEF from
            <7>1. QED
              BY <2>1, <4>2
          <6> HIDE DEF x, from
          <6>2. QED
            BY <2>1, <4>5, <4>9, <6>1
        <5>2. LAt(kind, i, e) = LAt(kind, x + 2, e)
          BY <3>1, <3>4, <4>9, <5>1
        <5>3. x < e
          <6>1. CASE Kw(from) \notin Opening
            <7>1. x = IF IsScalar(Kw(from)) THEN from ELSE Thrown
              BY <4>3, <6>1, ValueAt
            <7>2. IsScalar(Kw(from)) /\ x = from
              <8>1. ~(Thrown > 0)
                BY DEF Thrown
              <8>2. QED
                BY <4>9, <7>1, <8>1
            <7>3. from # e
              BY <4>1, <4>3, <7>2, PlainBalanced
            <7> HIDE DEF x, from
            <7>4. QED
              BY <2>1, <4>2, <7>2, <7>3
          <6>2. CASE Kw(from) \in Opening
            <7>1. x = End(from)
              <8>1. /\ x = IF End(from) <= 0 \/ End(from) = from + 1 THEN End(from)
                          ELSE LAt(KindOfList(Kw(from)), from + 1, End(from))
                BY <4>3, <6>2, ValueAt
              <8>2. End(from) \in from + 1..Len(res)
                BY <4>3, <6>2, EndNested
              <8>3. KindOfList(Kw(from)) \in Lists /\ from + 1 \in 1..Len(res) + 1 /\ End(from) \in 0..Len(res)
                <9>1. KindOfList(Kw(from)) \in Lists
                  BY DEF KindOfList, Lists
                <9> HIDE DEF from
                <9>2. QED
                  BY <2>1, <4>3, <8>2, <9>1
              <8>4. LAt(KindOfList(Kw(from)), from + 1, End(from)) > 0
                      => LAt(KindOfList(Kw(from)), from + 1, End(from)) = End(from)
                BY <8>3, ListAt
              <8>5. QED
                BY <4>9, <8>1, <8>4
            <7>2. from \in o + 1..e - 1
              <8>1. from # e
                <9>1. \A k : CloseOf(k) \notin Opening
                  BY ClosersOpenNothing
                <9>2. QED
                  BY <4>1, <6>2, <9>1
              <8> HIDE DEF from
              <8>2. QED
                BY <2>1, <2>5, <4>2, <8>1
            <7>3. QED
              BY <2>5, <4>3, <6>2, <7>1, <7>2, EndWithin
          <6>3. QED
            BY <6>1, <6>2
        <5> DEFINE d == <<kind, x + 2, e>>
        <5>4. d \in Calls /\ Rank(d) < Rank(b)
          BY <2>1, <2>5, <4>9, <5>1, RestInside DEF Comma
        <5>5. InTokens(d) /\ d[1] = kind /\ d[2] = x + 2 /\ d[3] = e
          BY <2>2, <5>4
        <5> HIDE DEF d, x, from, kind
        <5>6. o < x + 2 /\ x + 2 <= e
          BY <2>1, <2>5, <4>9, <5>1, <5>3, WithinArithmetic
        <5>7. LAt(kind, x + 2, e) # Overrun
          BY <2>5, <5>5, <5>6 DEF InTokens, kind
        <5>8. QED
          BY <5>2, <5>7 DEF kind
      <4>10. x <= 0 \/ x > 0
        BY <4>5
      <4>11. QED
        BY <4>6, <4>7, <4>8, <4>9, <4>10
    <3>5. QED
      BY <3>3, <3>4
  <2>6. QED
    BY <2>4, <2>5 DEF InTokens, i, e
<1>2. \A b \in Calls : b \in Good
  <2> HIDE DEF Good
  <2>1. QED
    BY <1>1, CallInduction
<1>3. QED
  BY <1>2

-----------------------------------------------------------------------------
(* What Call makes of the tokens, and of every text.                         *)

LEMMA ParseAccepts ==
    ASSUME TokensOK, res # <<>>
    PROVE  /\ Parse.at > 0 <=> \E j \in G("value", 1) : j = Len(res) \/ Kw(1) \in Opening
           /\ Parse.at > 0 => Parse.at \in G("value", 1)
           /\ Parse.at = Overrun => ~Nested(Brackets)
<1> DEFINE x == Resolve[<<"value", 1, 0>>]
           N == Len(res)
<1>1. N \in Nat /\ N > 0 /\ 1 \in 1..N + 1 /\ 0 \in 0..N /\ 1 <= N
  <2>1. N \in Nat
    BY KwIs
  <2>2. N # 0
    BY DEF TokensOK
  <2>3. QED
    BY <2>1, <2>2
<1>2. Parse = IF x.at > 0 /\ N # 1 /\ x.tree.t \notin Lists THEN Fail(Thrown) ELSE x
  BY DEF Parse, Lists
<1>3. x.at = VAt(1) /\ Fail(Thrown).at = 0
  BY ResultIs DEF VAt, Thrown
<1> DEFINE c == <<"value", 1, 0>>
<1>4. c \in Calls /\ c[1] = "value" /\ c[2] = 1 /\ c[3] = 0
  <2>1. "value" \in {"value", "array", "object"}
    OBVIOUS
  <2>2. QED
    BY <1>1, <2>1, CallIs
<1>5. VAt(1) > 0 => VAt(1) \in G("value", 1)
  BY <1>4, Sound DEF Accepted
<1>6. \A j \in G("value", 1) : VAt(1) = j
  BY <1>4, AllComplete DEF Complete
<1>7. Nested(Brackets) => VAt(1) # Overrun
  BY <1>1, <1>4, AllInTokens DEF InTokens
<1>8. /\ VAt(1) \in Int /\ (VAt(1) > 0 => VAt(1) \in 1..N)
      /\ VAt(1) > 0 => (x.tree.t \in Lists <=> Kw(1) \in Opening)
      /\ Kw(1) \notin Opening => VAt(1) = IF IsScalar(Kw(1)) THEN 1 ELSE Thrown
  BY <1>1, ValueAt
<1>9. Kw(1) \notin Opening /\ VAt(1) > 0 => VAt(1) = 1
  BY <1>8 DEF Thrown
<1>10. \A j \in G("value", 1) : j \in 1..N
  <2>1. "value" \in {"value", "array", "object"}
    OBVIOUS
  <2>2. QED
    BY <1>1, <2>1, GrammarSpans
<1> HIDE DEF x, N, c
<1>11. Parse.at > 0 <=> VAt(1) > 0 /\ (N = 1 \/ Kw(1) \in Opening)
  <2>1. CASE x.at > 0 /\ N # 1 /\ x.tree.t \notin Lists
    <3>1. Parse.at = 0 /\ VAt(1) > 0 /\ Kw(1) \notin Opening /\ N # 1
      BY <1>2, <1>3, <1>8, <2>1
    <3>2. QED
      BY <3>1
  <2>2. CASE ~(x.at > 0 /\ N # 1 /\ x.tree.t \notin Lists)
    <3>1. Parse.at = VAt(1)
      BY <1>2, <1>3, <2>2
    <3>2. VAt(1) > 0 => N = 1 \/ Kw(1) \in Opening
      BY <1>3, <1>8, <2>2
    <3>3. QED
      BY <3>1, <3>2
  <2>3. QED
    BY <2>1, <2>2
<1>12. Parse.at > 0 => Parse.at = VAt(1)
  BY <1>2, <1>3
<1>13. Parse.at = Overrun => VAt(1) = Overrun
  <2>1. 0 # Overrun
    BY DEF Overrun
  <2>2. QED
    BY <1>2, <1>3, <2>1
<1>14. VAt(1) > 0 /\ (N = 1 \/ Kw(1) \in Opening)
         <=> \E j \in G("value", 1) : j = N \/ Kw(1) \in Opening
  <2>1. ASSUME VAt(1) > 0, N = 1 \/ Kw(1) \in Opening
        PROVE  \E j \in G("value", 1) : j = N \/ Kw(1) \in Opening
    <3>1. VAt(1) \in G("value", 1)
      BY <1>5, <2>1
    <3>2. CASE Kw(1) \in Opening
      BY <3>1, <3>2
    <3>3. CASE N = 1 /\ Kw(1) \notin Opening
      <4>1. VAt(1) = N
        BY <1>9, <2>1, <3>3
      <4>2. QED
        BY <3>1, <4>1
    <3>4. QED
      BY <2>1, <3>2, <3>3
  <2>2. ASSUME NEW j \in G("value", 1), j = N \/ Kw(1) \in Opening
        PROVE  VAt(1) > 0 /\ (N = 1 \/ Kw(1) \in Opening)
    <3>1. VAt(1) = j /\ j \in 1..N
      BY <1>6, <1>10
    <3>2. VAt(1) > 0
      BY <1>1, <3>1
    <3>3. Kw(1) \notin Opening => N = 1
      BY <1>9, <2>2, <3>1, <3>2
    <3>4. QED
      BY <3>2, <3>3
  <2>3. QED
    BY <2>1, <2>2
<1>15. QED
  BY <1>5, <1>7, <1>11, <1>12, <1>13, <1>14 DEF N

LEMMA TokenizerRuns == TNext => outcome = "running"
BY DEF TNext, Operator, Number, LineComment, BlockComment, Identify, Empty, SingleChar, ConstString, Start, Reading

LEMMA GrammarStays ==
    ASSUME res' = res
    PROVE  /\ Grammar' = Grammar /\ Brackets' = Brackets /\ (Kw(1))' = Kw(1)
           /\ (Nested(Brackets))' = Nested(Brackets) /\ Unread' = Unread /\ Overrun' = Overrun
<1>1. Grammar' = Grammar
  BY DEF Grammar, Phrases, Derived, Kw
<1>2. Brackets' = Brackets
  BY DEF Brackets, Kw
<1>3. (Kw(1))' = Kw(1)
  BY DEF Kw
<1>4. (Nested(Brackets))' = Nested(Brackets)
  BY <1>2
<1>5. QED
  BY <1>1, <1>2, <1>3, <1>4

LEMMA AcceptsFrom ==
    ASSUME res' = res,
           res # <<>> =>
             /\ result'.at > 0 <=> \E j \in Grammar[<<"value", 1>>] : j = Len(res) \/ Kw(1) \in {<<"[">>, <<"{">>}
             /\ result'.at > 0 => result'.at \in Grammar[<<"value", 1>>]
             /\ result'.at = Overrun => ~Nested(Brackets)
    PROVE  AcceptsJson'
<1>1. res # <<>> =>
        /\ result'.at > 0 <=> \E j \in Grammar'[<<"value", 1>>] : j = Len(res') \/ (Kw(1))' \in {<<"[">>, <<"{">>}
        /\ result'.at > 0 => result'.at \in Grammar'[<<"value", 1>>]
        /\ result'.at = Overrun => ~(Nested(Brackets))'
  BY GrammarStays
<1>2. QED
  BY <1>1 DEF AcceptsJson

LEMMA AcceptsStays ==
    ASSUME UNCHANGED <<res, result>>, AcceptsJson
    PROVE  AcceptsJson'
<1>1. CASE result # Unread
  <2>1. res # <<>> =>
          /\ result.at > 0 <=> \E j \in Grammar[<<"value", 1>>] : j = Len(res) \/ Kw(1) \in {<<"[">>, <<"{">>}
          /\ result.at > 0 => result.at \in Grammar[<<"value", 1>>]
          /\ result.at = Overrun => ~Nested(Brackets)
    BY <1>1 DEF AcceptsJson
  <2>2. QED
    BY <2>1, AcceptsFrom
<1>2. CASE result = Unread
  <2>1. result' = Unread'
    BY <1>2, GrammarStays
  <2>2. QED
    BY <2>1 DEF AcceptsJson
<1>3. QED
  BY <1>1, <1>2

\* What is made of the tokens is made when they are all read.
ReaderInv == TokInv /\ (result # Unread => outcome = "done") /\ AcceptsJson

LEMMA InitReaderInv == RInit => ReaderInv
<1> SUFFICES ASSUME RInit PROVE ReaderInv
  OBVIOUS
<1>1. TokInv
  BY InitTokInv DEF RInit
<1>2. result = Unread
  BY DEF RInit
<1>3. QED
  BY <1>1, <1>2 DEF ReaderInv, AcceptsJson

LEMMA NextReaderInv == ReaderInv /\ [RNext]_rvars => ReaderInv'
<1> SUFFICES ASSUME ReaderInv, [RNext]_rvars PROVE ReaderInv'
  OBVIOUS
<1>1. TokInv'
  <2>1. [TNext]_tvars
    BY DEF RNext, Read, rvars
  <2>2. QED
    BY <2>1, NextTokInv DEF ReaderInv
<1>2. CASE UNCHANGED rvars
  <2>1. UNCHANGED <<res, outcome, result>>
    BY <1>2 DEF rvars, tvars
  <2>2. AcceptsJson'
    BY <2>1, AcceptsStays DEF ReaderInv
  <2>3. (result # Unread => outcome = "done")'
    BY <2>1, GrammarStays DEF ReaderInv
  <2>4. QED
    BY <1>1, <2>2, <2>3 DEF ReaderInv
<1>3. CASE TNext /\ UNCHANGED result
  <2>1. result = Unread
    BY <1>3, TokenizerRuns DEF ReaderInv
  <2>2. result' = Unread'
    BY <1>3, <2>1 DEF Unread, Fail, Result, Leaf, Tree
  <2>3. QED
    BY <1>1, <2>2 DEF ReaderInv, AcceptsJson
<1>4. CASE Read
  <2>1. result' = Parse /\ UNCHANGED tvars /\ outcome = "done"
    BY <1>4 DEF Read
  <2>2. outcome' = "done" /\ res' = res
    BY <2>1 DEF tvars
  <2>3. TokensOK
    BY DEF ReaderInv, TokInv, CursorInv, TokensOK
  <2>4. ASSUME res # <<>>
        PROVE  /\ result'.at > 0 <=> \E j \in Grammar[<<"value", 1>>] : j = Len(res) \/ Kw(1) \in {<<"[">>, <<"{">>}
               /\ result'.at > 0 => result'.at \in Grammar[<<"value", 1>>]
               /\ result'.at = Overrun => ~Nested(Brackets)
    BY <2>1, <2>3, <2>4, ParseAccepts DEF G, Opening
  <2>5. AcceptsJson'
    BY <2>2, <2>4, AcceptsFrom
  <2>6. QED
    BY <1>1, <2>2, <2>5 DEF ReaderInv
<1>5. QED
  BY <1>2, <1>3, <1>4 DEF RNext

\* For every text: what JsonParse makes of its tokens is a value just when they are
\* JSON by the grammar, the text of a number, a string or a word at its whole length,
\* of an array or an object up to its bracket; it reads past the end of the tokens
\* only when their brackets are not nested.
THEOREM AcceptsJsonHolds == RSpec => []AcceptsJson
<1>1. ReaderInv => AcceptsJson
  BY DEF ReaderInv
<1>2. QED
  BY <1>1, InitReaderInv, NextReaderInv, PTL DEF RSpec

\* In every flow of nested brackets the one that CalcEndBrackets finds by counting
\* brackets of one kind is the one that closes it among brackets of all kinds.
THEOREM ClosingBracketCloses ==
    ASSUME NEW C, NEW flow \in Seq(C), Nested(flow), NEW i \in 1..Len(flow), flow[i] \in DOMAIN Closer
    PROVE  /\ ClosingBracket(flow, i) \in i + 1..Len(flow)
           /\ flow[ClosingBracket(flow, i)] = Closer[flow[i]]
           /\ Len(Missing(flow)[ClosingBracket(flow, i)]) = Len(Missing(flow)[i - 1])
           /\ \A j \in i..ClosingBracket(flow, i) - 1 : Len(Missing(flow)[j]) > Len(Missing(flow)[i - 1])
BY NestedCloses DEF Back

-----------------------------------------------------------------------------
(* Texts cut into tokens.                                                    *)

Spaces == {" ", "\n"}
Words == Booleans \cup {Null, Source}
Marks == {"[", "]", "{", "}", ",", ":"}
\* What continues a word or a number.
Glue == Letters \cup {"."}

\* The text of a token, and what the token holds.
Lexeme(w, k) ==
    \/ \E c \in Marks : w = <<c>> /\ k = <<c>>
    \/ w \in Words /\ k = w
    \/ IsNumeral(w) /\ k = w
    \/ \E s : Escapable(s) /\ w = Quoted(s) /\ k = InQuotes(s)

Here(t, p, w) == p + Len(w) <= Len(t) /\ \A i \in 1..Len(w) : t[p + i] = w[i]
Free(t, q) == q = Len(t) \/ t[q + 1] \notin Glue

\* From one place, after so many characters and tokens, to the next: a blank or a token.
BlankPiece(t, x, y) == x[1] < Len(t) /\ t[x[1] + 1] \in Spaces /\ y = <<x[1] + 1, x[2]>>
TokenPiece(t, K, x, y, w) ==
    /\ x[2] < Len(K) /\ Lexeme(w, K[x[2] + 1]) /\ Here(t, x[1], w)
    /\ w[Len(w)] \in Glue => Free(t, x[1] + Len(w))
    /\ y = <<x[1] + Len(w), x[2] + 1>>
Piece(t, K, x, y) == BlankPiece(t, x, y) \/ \E w : TokenPiece(t, K, x, y, w)
Cut(t, K, B) ==
    /\ B \subseteq Nat \X Nat /\ <<0, 0>> \in B
    /\ \A x \in B : x = <<Len(t), Len(K)>> \/ \E y \in B : Piece(t, K, x, y)
Keywords == Seq(Characters)
Lexes(t, K) == t \in Seq(Characters) /\ K \in Seq(Keywords) /\ \E B : Cut(t, K, B)

Apart(a, b) == a = <<>> \/ b = <<>> \/ a[Len(a)] \notin Glue \/ b[1] \notin Glue

LEMMA NumeralIs ==
    \A w : IsNumeral(w) => w \in Seq(Characters) /\ Len(w) \in Nat /\ Len(w) > 0
<1> SUFFICES ASSUME NEW w, IsNumeral(w)
             PROVE  w \in Seq(Characters) /\ Len(w) \in Nat /\ Len(w) > 0
  OBVIOUS
<1> DEFINE C == Digits \cup {"-", "."}
<1>1. w \in Seq(C) /\ w # <<>>
  BY DEF IsNumeral
<1>2. C \subseteq Characters
  BY DEF Characters, Letters, operator_set
<1> HIDE DEF C
<1>3. Len(w) \in Nat /\ w = [i \in 1..Len(w) |-> w[i]] /\ (\A i \in 1..Len(w) : w[i] \in C) /\ Len(w) > 0
  BY <1>1
<1>4. QED
  BY <1>2, <1>3

LEMMA WordsAre ==
    \A w \in Words :
      /\ w \in Seq(Letters \ Digits) /\ Len(w) \in Nat /\ Len(w) > 0
      /\ w \in Seq(Characters) /\ \A i \in 1..Len(w) : w[i] \in Letters \ Digits
<1> SUFFICES ASSUME NEW w \in Words
             PROVE  w \in Seq(Letters \ Digits) /\ Len(w) \in Nat /\ Len(w) > 0
                    /\ w \in Seq(Characters) /\ \A i \in 1..Len(w) : w[i] \in Letters \ Digits
  OBVIOUS
<1> DEFINE C == Letters \ Digits
<1>1. \A c \in {"n", "u", "l", "t", "r", "e", "f", "a", "s"} : c \in C
  BY DEF Letters, Digits
<1>2. C \subseteq Characters
  BY DEF Characters
<1>3. w \in Seq(C) /\ Len(w) > 0
  <2> HIDE DEF C
  <2>1. w = <<"n", "u", "l", "l">> \/ w = <<"t", "r", "u", "e">> \/ w = <<"f", "a", "l", "s", "e">> \/ w = <<"f", "n">>
    BY DEF Words, Booleans, Null, Source
  <2>2. \A a, b \in C : <<a, b>> \in Seq(C) /\ Len(<<a, b>>) > 0
    OBVIOUS
  <2>3. \A a, b, c, d \in C : <<a, b, c, d>> \in Seq(C) /\ Len(<<a, b, c, d>>) > 0
    OBVIOUS
  <2>4. \A a, b, c, d, e \in C : <<a, b, c, d, e>> \in Seq(C) /\ Len(<<a, b, c, d, e>>) > 0
    OBVIOUS
  <2>5. <<"f", "n">> \in Seq(C) /\ Len(<<"f", "n">>) > 0
    BY <1>1, <2>2
  <2>6. <<"n", "u", "l", "l">> \in Seq(C) /\ Len(<<"n", "u", "l", "l">>) > 0
    BY <1>1, <2>3
  <2>7. <<"t", "r", "u", "e">> \in Seq(C) /\ Len(<<"t", "r", "u", "e">>) > 0
    BY <1>1, <2>3
  <2>8. <<"f", "a", "l", "s", "e">> \in Seq(C) /\ Len(<<"f", "a", "l", "s", "e">>) > 0
    BY <1>1, <2>4
  <2>9. QED
    BY <2>1, <2>5, <2>6, <2>7, <2>8
<1> HIDE DEF C
<1>4. Len(w) \in Nat /\ w = [i \in 1..Len(w) |-> w[i]] /\ (\A i \in 1..Len(w) : w[i] \in C)
  BY <1>3
<1>5. w \in Seq(Characters)
  BY <1>2, <1>4
<1>6. QED
  BY <1>3, <1>4, <1>5 DEF C

LEMMA MarkIs ==
    \A c \in Marks : c \in Characters /\ <<c>> \in Seq(Characters) /\ Len(<<c>>) = 1 /\ <<c>>[1] = c /\ c \notin Glue
<1>1. \A c \in Marks : c \in Characters /\ c \notin Glue
  BY DEF Marks, Characters, operator_set, single_char_set, Glue, Letters, Digits
<1>2. QED
  BY <1>1, SingleIs

LEMMA LexemeIs ==
    \A w, k : Lexeme(w, k) => w \in Seq(Characters) /\ k \in Keywords /\ Len(w) \in Nat /\ Len(w) > 0
<1> SUFFICES ASSUME NEW w, NEW k, Lexeme(w, k)
             PROVE  w \in Seq(Characters) /\ k \in Keywords /\ Len(w) \in Nat /\ Len(w) > 0
  OBVIOUS
<1>1. ASSUME NEW c \in Marks, w = <<c>>, k = <<c>>
      PROVE  w \in Seq(Characters) /\ k \in Seq(Characters) /\ Len(w) \in Nat /\ Len(w) > 0
  BY <1>1, MarkIs
<1>2. ASSUME w \in Words, k = w
      PROVE  w \in Seq(Characters) /\ k \in Seq(Characters) /\ Len(w) \in Nat /\ Len(w) > 0
  BY <1>2, WordsAre
<1>3. ASSUME IsNumeral(w), k = w
      PROVE  w \in Seq(Characters) /\ k \in Seq(Characters) /\ Len(w) \in Nat /\ Len(w) > 0
  BY <1>3, NumeralIs
<1>4. ASSUME NEW s, Escapable(s), w = Quoted(s), k = InQuotes(s)
      PROVE  w \in Seq(Characters) /\ k \in Seq(Characters) /\ Len(w) \in Nat /\ Len(w) > 0
  <2>1. s \in Seq(Characters)
    BY <1>4, EscapableIs
  <2>2. w = InQuotes(Escape(s)) /\ Escape(s) \in Seq(Characters)
    BY <1>4, <2>1, QuotedText
  <2>3. k \in Seq(Characters)
    BY <1>4, <2>1, InQuotesAre
  <2>4. w \in Seq(Characters) /\ Len(Escape(s)) \in Nat /\ Len(w) = Len(Escape(s)) + 2
    BY <2>2, InQuotesAre
  <2>5. QED
    BY <2>3, <2>4
<1>5. QED
  BY <1>1, <1>2, <1>3, <1>4 DEF Lexeme, Keywords

LEMMA LexNothing == Lexes(<<>>, <<>>)
<1> DEFINE B == {<<0, 0>>}
<1>1. Cut(<<>>, <<>>, B)
  BY DEF Cut
<1>2. QED
  BY <1>1 DEF Lexes

LEMMA LexToken ==
    \A w, k : Lexeme(w, k) => Lexes(w, <<k>>)
<1> SUFFICES ASSUME NEW w, NEW k, Lexeme(w, k)
             PROVE  Lexes(w, <<k>>)
  OBVIOUS
<1> DEFINE B == {<<0, 0>>, <<Len(w), 1>>}
           K == <<k>>
<1>1. w \in Seq(Characters) /\ k \in Keywords /\ Len(w) \in Nat /\ Len(w) > 0
  BY LexemeIs
<1>2. K \in Seq(Keywords) /\ Len(K) = 1 /\ K[0 + 1] = k
  BY <1>1
<1>3. Here(w, 0, w) /\ Free(w, 0 + Len(w))
  BY <1>1 DEF Here, Free
<1>4. <<Len(w), 1>> = <<0 + Len(w), 0 + 1>>
  BY <1>1
<1> HIDE DEF K
<1>5. TokenPiece(w, K, <<0, 0>>, <<Len(w), 1>>, w)
  BY <1>2, <1>3, <1>4 DEF TokenPiece
<1>6. Piece(w, K, <<0, 0>>, <<Len(w), 1>>)
  BY <1>5 DEF Piece
<1>7. Cut(w, K, B)
  BY <1>1, <1>2, <1>6 DEF Cut
<1>8. QED
  BY <1>1, <1>2, <1>7 DEF Lexes, K

LEMMA LexBlanks ==
    \A n \in Nat : \A c \in Spaces : Lexes([i \in 1..n |-> c], <<>>)
<1> SUFFICES ASSUME NEW n \in Nat, NEW c \in Spaces
             PROVE  Lexes([i \in 1..n |-> c], <<>>)
  OBVIOUS
<1> DEFINE t == [i \in 1..n |-> c]
           B == {<<i, 0>> : i \in 0..n}
<1>0. c \in Characters
  BY DEF Characters, empty_set, Spaces
<1>1. t \in Seq(Characters) /\ Len(t) = n /\ \A i \in 1..n : t[i] = c
  BY <1>0
<1> HIDE DEF t
<1>2. ASSUME NEW i \in 0..n, i # n
      PROVE  Piece(t, <<>>, <<i, 0>>, <<i + 1, 0>>) /\ <<i + 1, 0>> \in B
  <2>1. i + 1 \in 1..n /\ i + 1 \in 0..n /\ i < n
    BY <1>2
  <2>2. BlankPiece(t, <<i, 0>>, <<i + 1, 0>>)
    BY <1>1, <2>1 DEF BlankPiece
  <2>3. QED
    BY <2>1, <2>2 DEF Piece
<1>3. ASSUME NEW x \in B
      PROVE  x = <<Len(t), Len(<<>>)>> \/ \E y \in B : Piece(t, <<>>, x, y)
  <2>1. PICK i \in 0..n : x = <<i, 0>>
    OBVIOUS
  <2>2. CASE i = n
    BY <1>1, <2>1, <2>2
  <2>3. CASE i # n
    BY <1>2, <2>1, <2>3
  <2>4. QED
    BY <2>2, <2>3
<1>4. <<0, 0>> \in B /\ B \subseteq Nat \X Nat
  OBVIOUS
<1> HIDE DEF B
<1>5. Cut(t, <<>>, B)
  BY <1>3, <1>4 DEF Cut
<1>6. <<>> \in Seq(Keywords)
  OBVIOUS
<1>7. QED
  BY <1>1, <1>5, <1>6 DEF Lexes, t

LEMMA InsideIs ==
    \A p, n, l \in Nat : p + n <= l =>
      p + n \in Nat /\ (n > 0 => p + n >= 1) /\ \A i \in 1..n : p + i \in 1..l
OBVIOUS
LEMMA HereIs ==
    \A t, p, w : Here(t, p, w) /\ p \in Nat /\ Len(t) \in Nat /\ Len(w) \in Nat /\ Len(w) > 0 =>
      /\ p + Len(w) \in Nat /\ p + Len(w) <= Len(t) /\ p + Len(w) >= 1
      /\ \A i \in 1..Len(w) : t[p + i] = w[i] /\ p + i \in 1..Len(t)
BY InsideIs DEF Here

Shift(a, Ka, x) == <<Len(a) + x[1], Len(Ka) + x[2]>>

\* A piece stays one when a text and tokens are put behind it.
LEMMA PieceBefore ==
    \A a, b \in Seq(Characters) : \A Ka, Kb \in Seq(Keywords) : \A x \in Nat \X Nat : \A y :
      Apart(a, b) /\ Piece(a, Ka, x, y) => Piece(a \o b, Ka \o Kb, x, y)
<1> SUFFICES ASSUME NEW a \in Seq(Characters), NEW b \in Seq(Characters),
                    NEW Ka \in Seq(Keywords), NEW Kb \in Seq(Keywords), NEW x \in Nat \X Nat, NEW y,
                    Apart(a, b), Piece(a, Ka, x, y)
             PROVE  Piece(a \o b, Ka \o Kb, x, y)
  OBVIOUS
<1> DEFINE t == a \o b
           K == Ka \o Kb
<1>1. /\ Len(a) \in Nat /\ Len(b) \in Nat /\ Len(t) = Len(a) + Len(b) /\ \A p \in 1..Len(a) : t[p] = a[p]
      /\ \A p \in 1..Len(b) : t[Len(a) + p] = b[p]
  BY ConcatIs
<1>2. Len(Ka) \in Nat /\ Len(Kb) \in Nat /\ Len(K) = Len(Ka) + Len(Kb) /\ \A p \in 1..Len(Ka) : K[p] = Ka[p]
  BY ConcatIs
<1>3. x[1] \in Nat /\ x[2] \in Nat
  OBVIOUS
<1>4. a # <<>> /\ b # <<>> => a[Len(a)] \notin Glue \/ b[1] \notin Glue
  BY DEF Apart
<1>5. (a = <<>> <=> Len(a) = 0) /\ (b = <<>> <=> Len(b) = 0)
  BY EmptyIs
<1> HIDE DEF t, K
<1>6. ASSUME BlankPiece(a, x, y)
      PROVE  Piece(t, K, x, y)
  <2>1. x[1] < Len(a) /\ a[x[1] + 1] \in Spaces /\ y = <<x[1] + 1, x[2]>>
    BY <1>6 DEF BlankPiece
  <2>2. x[1] < Len(t) /\ x[1] + 1 \in 1..Len(a)
    BY <1>1, <1>3, <2>1
  <2>3. QED
    BY <1>1, <2>1, <2>2 DEF BlankPiece, Piece
<1>7. ASSUME NEW w, TokenPiece(a, Ka, x, y, w)
      PROVE  Piece(t, K, x, y)
  <2> DEFINE q == x[1] + Len(w)
  <2>1. /\ x[2] < Len(Ka) /\ Lexeme(w, Ka[x[2] + 1]) /\ Here(a, x[1], w)
        /\ w[Len(w)] \in Glue => Free(a, q)
        /\ y = <<q, x[2] + 1>>
    BY <1>7 DEF TokenPiece
  <2>2. Len(w) \in Nat /\ Len(w) > 0
    BY <2>1, LexemeIs
  <2>3. q \in Nat /\ q <= Len(a) /\ q >= 1 /\ \A i \in 1..Len(w) : a[x[1] + i] = w[i] /\ x[1] + i \in 1..Len(a)
    BY <1>1, <1>3, <2>1, <2>2, HereIs
  <2>4. x[2] < Len(K) /\ x[2] + 1 \in 1..Len(Ka) /\ K[x[2] + 1] = Ka[x[2] + 1]
    BY <1>2, <1>3, <2>1
  <2>5. Here(t, x[1], w)
    <3>1. q <= Len(t)
      BY <1>1, <2>3
    <3>2. QED
      BY <1>1, <2>3, <3>1 DEF Here
  <2>6. a[q] = w[Len(w)]
    <3>1. Len(w) \in 1..Len(w)
      BY <2>2
    <3>2. QED
      BY <2>3, <3>1
  <2>7. ASSUME w[Len(w)] \in Glue
        PROVE  Free(t, q)
    <3>1. Free(a, q)
      BY <2>1, <2>7
    <3>2. CASE q = Len(a)
      <4>1. Len(a) > 0 /\ a[Len(a)] \in Glue
        BY <2>3, <2>6, <2>7, <3>2
      <4>2. b = <<>> \/ b[1] \notin Glue
        BY <1>4, <1>5, <4>1
      <4>3. CASE b = <<>>
        <5>1. q = Len(t)
          BY <1>1, <1>5, <3>2, <4>3
        <5>2. QED
          BY <5>1 DEF Free
      <4>4. CASE b # <<>>
        <5>1. 1 \in 1..Len(b)
          BY <1>1, <1>5, <4>4
        <5>2. t[q + 1] = b[1]
          BY <1>1, <3>2, <5>1
        <5>3. QED
          BY <4>2, <4>4, <5>2 DEF Free
      <4>5. QED
        BY <4>3, <4>4
    <3>3. CASE q # Len(a)
      <4>1. q + 1 \in 1..Len(a)
        BY <1>1, <2>3, <3>3
      <4>2. t[q + 1] = a[q + 1]
        BY <1>1, <4>1
      <4>3. QED
        BY <3>1, <3>3, <4>2 DEF Free
    <3>4. QED
      BY <3>2, <3>3
  <2>8. TokenPiece(t, K, x, y, w)
    BY <2>1, <2>4, <2>5, <2>7 DEF TokenPiece
  <2>9. QED
    BY <2>8 DEF Piece
<1>8. Piece(t, K, x, y)
  BY <1>6, <1>7 DEF Piece
<1>9. QED
  BY <1>8 DEF t, K

\* A piece stays one when a text and tokens are put before it.
LEMMA PieceBehind ==
    \A a, b \in Seq(Characters) : \A Ka, Kb \in Seq(Keywords) : \A x, y \in Nat \X Nat :
      Piece(b, Kb, x, y) => Piece(a \o b, Ka \o Kb, Shift(a, Ka, x), Shift(a, Ka, y))
<1> SUFFICES ASSUME NEW a \in Seq(Characters), NEW b \in Seq(Characters),
                    NEW Ka \in Seq(Keywords), NEW Kb \in Seq(Keywords), NEW x \in Nat \X Nat, NEW y \in Nat \X Nat,
                    Piece(b, Kb, x, y)
             PROVE  Piece(a \o b, Ka \o Kb, Shift(a, Ka, x), Shift(a, Ka, y))
  OBVIOUS
<1> DEFINE t == a \o b
           K == Ka \o Kb
           u == Shift(a, Ka, x)
           v == Shift(a, Ka, y)
           A == Len(a)
           N == Len(Ka)
<1>1. A \in Nat /\ Len(b) \in Nat /\ Len(t) = A + Len(b) /\ \A p \in 1..Len(b) : t[A + p] = b[p]
  BY ConcatIs
<1>2. N \in Nat /\ Len(Kb) \in Nat /\ Len(K) = N + Len(Kb) /\ \A p \in 1..Len(Kb) : K[N + p] = Kb[p]
  BY ConcatIs
<1>3. x[1] \in Nat /\ x[2] \in Nat
  OBVIOUS
<1>4. u[1] = A + x[1] /\ u[2] = N + x[2] /\ v = <<A + y[1], N + y[2]>>
  BY DEF Shift
<1> HIDE DEF t, K, u, v, A, N
<1>5. ASSUME BlankPiece(b, x, y)
      PROVE  Piece(t, K, u, v)
  <2>1. x[1] < Len(b) /\ b[x[1] + 1] \in Spaces /\ y = <<x[1] + 1, x[2]>>
    BY <1>5 DEF BlankPiece
  <2>2. u[1] < Len(t) /\ x[1] + 1 \in 1..Len(b) /\ u[1] + 1 = A + (x[1] + 1)
    BY <1>1, <1>3, <1>4, <2>1
  <2>3. v = <<u[1] + 1, u[2]>>
    BY <1>4, <2>1, <2>2
  <2>4. t[u[1] + 1] \in Spaces
    BY <1>1, <2>1, <2>2
  <2>5. QED
    BY <2>2, <2>3, <2>4 DEF BlankPiece, Piece
<1>6. ASSUME NEW w, TokenPiece(b, Kb, x, y, w)
      PROVE  Piece(t, K, u, v)
  <2> DEFINE q == x[1] + Len(w)
  <2>1. /\ x[2] < Len(Kb) /\ Lexeme(w, Kb[x[2] + 1]) /\ Here(b, x[1], w)
        /\ w[Len(w)] \in Glue => Free(b, q)
        /\ y = <<q, x[2] + 1>>
    BY <1>6 DEF TokenPiece
  <2>2. Len(w) \in Nat /\ Len(w) > 0
    BY <2>1, LexemeIs
  <2>3. q \in Nat /\ q <= Len(b) /\ \A i \in 1..Len(w) : b[x[1] + i] = w[i] /\ x[1] + i \in 1..Len(b)
    BY <1>1, <1>3, <2>1, <2>2, HereIs
  <2>4. u[2] < Len(K) /\ x[2] + 1 \in 1..Len(Kb) /\ u[2] + 1 = N + (x[2] + 1)
    BY <1>2, <1>3, <1>4, <2>1
  <2>5. K[u[2] + 1] = Kb[x[2] + 1]
    BY <1>2, <2>4
  <2>6. u[1] + Len(w) = A + q /\ A + q <= Len(t) /\ \A i \in 1..Len(w) : u[1] + i = A + (x[1] + i)
    BY <1>1, <1>3, <1>4, <2>2, <2>3
  <2>7. Here(t, u[1], w)
    BY <1>1, <2>3, <2>6 DEF Here
  <2>8. ASSUME Free(b, q)
        PROVE  Free(t, A + q)
    <3>1. CASE q = Len(b)
      BY <1>1, <3>1 DEF Free
    <3>2. CASE q # Len(b)
      <4>1. q + 1 \in 1..Len(b) /\ A + q + 1 = A + (q + 1)
        BY <1>1, <2>3, <3>2
      <4>2. t[A + (q + 1)] = b[q + 1]
        <5> HIDE DEF q
        <5>1. QED
          BY <1>1, <4>1
      <4>3. QED
        BY <2>8, <3>2, <4>1, <4>2 DEF Free
    <3>3. QED
      BY <3>1, <3>2
  <2>9. v = <<u[1] + Len(w), u[2] + 1>>
    BY <1>4, <2>1, <2>4, <2>6
  <2>10. TokenPiece(t, K, u, v, w)
    <3>1. Lexeme(w, K[u[2] + 1])
      BY <2>1, <2>5
    <3>2. w[Len(w)] \in Glue => Free(t, u[1] + Len(w))
      BY <2>1, <2>6, <2>8
    <3>3. QED
      BY <2>4, <2>7, <2>9, <3>1, <3>2 DEF TokenPiece
  <2>11. QED
    BY <2>10 DEF Piece
<1>7. Piece(t, K, u, v)
  BY <1>5, <1>6 DEF Piece
<1>8. QED
  BY <1>7 DEF t, K, u, v

LEMMA LexJoin ==
    \A a, b, Ka, Kb : Lexes(a, Ka) /\ Lexes(b, Kb) /\ Apart(a, b) => Lexes(a \o b, Ka \o Kb)
<1> SUFFICES ASSUME NEW a, NEW b, NEW Ka, NEW Kb, Lexes(a, Ka), Lexes(b, Kb), Apart(a, b)
             PROVE  Lexes(a \o b, Ka \o Kb)
  OBVIOUS
<1> DEFINE t == a \o b
           K == Ka \o Kb
<1>1. /\ a \in Seq(Characters) /\ b \in Seq(Characters) /\ Ka \in Seq(Keywords) /\ Kb \in Seq(Keywords)
  BY DEF Lexes
<1>2. PICK A : Cut(a, Ka, A)
  BY DEF Lexes
<1>3. PICK D : Cut(b, Kb, D)
  BY DEF Lexes
<1>4. /\ t \in Seq(Characters) /\ Len(a) \in Nat /\ Len(b) \in Nat /\ Len(t) = Len(a) + Len(b)
      /\ K \in Seq(Keywords) /\ Len(Ka) \in Nat /\ Len(Kb) \in Nat /\ Len(K) = Len(Ka) + Len(Kb)
  BY <1>1, ConcatIs
<1> DEFINE B == A \cup {Shift(a, Ka, x) : x \in D}
<1>5. /\ A \subseteq Nat \X Nat /\ <<0, 0>> \in A
      /\ \A x \in A : x = <<Len(a), Len(Ka)>> \/ \E y \in A : Piece(a, Ka, x, y)
  BY <1>2 DEF Cut
<1>6. /\ D \subseteq Nat \X Nat /\ <<0, 0>> \in D
      /\ \A x \in D : x = <<Len(b), Len(Kb)>> \/ \E y \in D : Piece(b, Kb, x, y)
  BY <1>3 DEF Cut
<1>7. \A x \in Nat \X Nat : Shift(a, Ka, x) \in Nat \X Nat
  BY <1>4 DEF Shift
<1>8. Shift(a, Ka, <<0, 0>>) = <<Len(a), Len(Ka)>> /\ Shift(a, Ka, <<Len(b), Len(Kb)>>) = <<Len(t), Len(K)>>
  BY <1>4 DEF Shift
<1> HIDE DEF t, K
<1>9. ASSUME NEW x \in D
      PROVE  Shift(a, Ka, x) = <<Len(t), Len(K)>> \/ \E y \in B : Piece(t, K, Shift(a, Ka, x), y)
  <2>1. CASE x = <<Len(b), Len(Kb)>>
    BY <1>8, <2>1
  <2>2. CASE x # <<Len(b), Len(Kb)>>
    <3>1. PICK y \in D : Piece(b, Kb, x, y)
      BY <1>6, <2>2
    <3>2. x \in Nat \X Nat /\ y \in Nat \X Nat
      BY <1>6
    <3>3. Piece(t, K, Shift(a, Ka, x), Shift(a, Ka, y))
      BY <1>1, <3>1, <3>2, PieceBehind DEF t, K
    <3>4. QED
      BY <3>3
  <2>3. QED
    BY <2>1, <2>2
<1>10. ASSUME NEW x \in A
       PROVE  x = <<Len(t), Len(K)>> \/ \E y \in B : Piece(t, K, x, y)
  <2>1. CASE x = <<Len(a), Len(Ka)>>
    BY <1>6, <1>8, <1>9, <2>1
  <2>2. CASE x # <<Len(a), Len(Ka)>>
    <3>1. PICK y \in A : Piece(a, Ka, x, y)
      BY <1>5, <2>2
    <3>2. x \in Nat \X Nat
      BY <1>5
    <3>3. Piece(t, K, x, y)
      BY <1>1, <3>1, <3>2, PieceBefore DEF t, K
    <3>4. QED
      BY <3>3
  <2>3. QED
    BY <2>1, <2>2
<1>11. B \subseteq Nat \X Nat /\ <<0, 0>> \in B
  BY <1>5, <1>6, <1>7
<1>12. \A x \in B : x = <<Len(t), Len(K)>> \/ \E y \in B : Piece(t, K, x, y)
  BY <1>9, <1>10
<1> HIDE DEF B
<1>13. Cut(t, K, B)
  BY <1>11, <1>12 DEF Cut
<1>14. QED
  BY <1>4, <1>13 DEF Lexes, t, K

-----------------------------------------------------------------------------
(* SameLevelCompisition and its tokens.                                      *)

Flatly(parts, step) == step = 0 \/ parts = <<>>
Cr(flat) == IF flat THEN <<>> ELSE <<"\n">>
BlanksOf(flat, n) == IF flat THEN <<>> ELSE [i \in 1..n |-> " "]
CommaBehind(i, n) == IF i = n THEN <<>> ELSE <<",">>
PartsOf(parts, flat, depth) ==
    [i \in 1..Len(parts) |-> BlanksOf(flat, depth) \o parts[i] \o CommaBehind(i, Len(parts)) \o Cr(flat)]

\* The tokens of a list.
CommaToken(i, n) == IF i = n THEN <<>> ELSE << <<",">> >>
Separated(ks, n) == [i \in 1..n |-> ks[i] \o CommaToken(i, n)]
ListTokens(open, ks, n, close) == << <<open>> >> \o Joins(Separated(ks, n), n) \o << <<close>> >>

LEMMA ComposeIs ==
    \A open, parts, close, step, depth :
      Compose(open, parts, close, step, depth) =
        <<open>> \o Cr(Flatly(parts, step)) \o FlattenSeq(PartsOf(parts, Flatly(parts, step), depth))
          \o BlanksOf(Flatly(parts, step), depth - step) \o <<close>>
BY DEF Compose, Flatly, Cr, BlanksOf, CommaBehind, PartsOf

\* Nothing continues a text that is shut, nor is one that is loose continued.
Shut(a) == a # <<>> /\ a[Len(a)] \notin Glue
Loose(b) == b = <<>> \/ b[1] \notin Glue

LEMMA ApartIs ==
    \A a, b : Shut(a) \/ a = <<>> \/ Loose(b) => Apart(a, b)
BY DEF Shut, Loose, Apart

LEMMA ShutBehind ==
    \A a, b \in Seq(Characters) : Shut(b) => Shut(a \o b)
<1> SUFFICES ASSUME NEW a \in Seq(Characters), NEW b \in Seq(Characters), Shut(b)
             PROVE  Shut(a \o b)
  OBVIOUS
<1>1. /\ Len(a) \in Nat /\ Len(b) \in Nat /\ Len(a \o b) = Len(a) + Len(b) /\ a \o b \in Seq(Characters)
      /\ \A p \in 1..Len(b) : (a \o b)[Len(a) + p] = b[p]
  BY ConcatIs
<1>2. Len(b) # 0
  BY EmptyIs DEF Shut
<1>3. Len(b) \in 1..Len(b) /\ Len(a) + Len(b) # 0
  BY <1>1, <1>2
<1>4. (a \o b)[Len(a \o b)] = b[Len(b)] /\ Len(a \o b) # 0
  BY <1>1, <1>3
<1>5. a \o b # <<>>
  BY <1>1, <1>4, EmptyIs
<1>6. QED
  BY <1>4, <1>5 DEF Shut

LEMMA SpacesAre ==
    \A c \in Spaces : c \in Characters /\ c \notin Glue
BY DEF Spaces, Characters, empty_set, Glue, Letters, Digits

LEMMA CrIs ==
    ASSUME NEW flat
    PROVE  Lexes(Cr(flat), <<>>) /\ Cr(flat) \in Seq(Characters) /\ Loose(Cr(flat)) /\ (flat \/ Shut(Cr(flat)))
           /\ (flat => Cr(flat) = <<>>)
<1> DEFINE c == "\n"
           t == [i \in 1..1 |-> c]
<1>1. c \in Spaces
  BY DEF Spaces
<1>2. <<"\n">> = t
  OBVIOUS
<1> HIDE DEF c
<1>3. Lexes(t, <<>>)
  BY <1>1, LexBlanks
<1>4. t \in Seq(Characters) /\ Len(t) = 1 /\ t[1] = c /\ t # <<>>
  BY <1>1, SpacesAre
<1>5. Lexes(<<>>, <<>>) /\ <<>> \in Seq(Characters)
  BY LexNothing
<1> HIDE DEF t
<1>6. Loose(t) /\ Shut(t)
  BY <1>1, <1>4, SpacesAre DEF Loose, Shut
<1>7. Loose(<<>>)
  BY DEF Loose
<1>8. Cr(flat) = IF flat THEN <<>> ELSE t
  BY <1>2 DEF Cr
<1>9. QED
  BY <1>3, <1>4, <1>5, <1>6, <1>7, <1>8

LEMMA BlanksOfIs ==
    ASSUME NEW flat, NEW n \in Nat
    PROVE  Lexes(BlanksOf(flat, n), <<>>) /\ BlanksOf(flat, n) \in Seq(Characters) /\ Loose(BlanksOf(flat, n))
           /\ (BlanksOf(flat, n) = <<>> \/ Shut(BlanksOf(flat, n)))
<1> DEFINE c == " "
           t == [i \in 1..n |-> c]
<1>1. c \in Spaces
  BY DEF Spaces
<1>2. [i \in 1..n |-> " "] = t
  OBVIOUS
<1> HIDE DEF c
<1>3. Lexes(t, <<>>)
  BY <1>1, LexBlanks
<1>4. t \in Seq(Characters) /\ Len(t) = n /\ \A i \in 1..n : t[i] = c
  BY <1>1, SpacesAre
<1>5. Lexes(<<>>, <<>>) /\ <<>> \in Seq(Characters)
  BY LexNothing
<1> HIDE DEF t
<1>6. t # <<>> => 1 \in 1..n /\ n \in 1..n
  BY <1>4, EmptyIs
<1>7. Loose(t) /\ (t = <<>> \/ Shut(t))
  BY <1>1, <1>4, <1>6, SpacesAre DEF Loose, Shut
<1>8. Loose(<<>>)
  BY DEF Loose
<1>9. BlanksOf(flat, n) = IF flat THEN <<>> ELSE t
  BY <1>2 DEF BlanksOf
<1>10. QED
  BY <1>3, <1>4, <1>5, <1>7, <1>8, <1>9

LEMMA MarkLexes ==
    \A c \in Marks : Lexes(<<c>>, << <<c>> >>) /\ <<c>> \in Seq(Characters) /\ Loose(<<c>>) /\ Shut(<<c>>)
<1> SUFFICES ASSUME NEW c \in Marks
             PROVE  Lexes(<<c>>, << <<c>> >>) /\ <<c>> \in Seq(Characters) /\ Loose(<<c>>) /\ Shut(<<c>>)
  OBVIOUS
<1>1. Lexeme(<<c>>, <<c>>)
  BY DEF Lexeme
<1>2. Lexes(<<c>>, << <<c>> >>)
  BY <1>1, LexToken
<1>3. <<c>> \in Seq(Characters) /\ Len(<<c>>) = 1 /\ <<c>>[1] = c /\ c \notin Glue
  BY MarkIs
<1>4. <<c>> # <<>>
  OBVIOUS
<1>5. QED
  BY <1>2, <1>3, <1>4 DEF Loose, Shut

LEMMA CommaIs ==
    ASSUME NEW i, NEW n
    PROVE  /\ Lexes(CommaBehind(i, n), CommaToken(i, n)) /\ CommaBehind(i, n) \in Seq(Characters)
           /\ Loose(CommaBehind(i, n)) /\ (i = n \/ Shut(CommaBehind(i, n)))
           /\ CommaToken(i, n) \in Seq(Keywords)
<1> DEFINE c == ","
<1>1. c \in Marks
  BY DEF Marks
<1>2. CommaBehind(i, n) = (IF i = n THEN <<>> ELSE <<c>>) /\ CommaToken(i, n) = (IF i = n THEN <<>> ELSE << <<c>> >>)
  BY DEF CommaBehind, CommaToken
<1> HIDE DEF c
<1>3. Lexes(<<c>>, << <<c>> >>) /\ <<c>> \in Seq(Characters) /\ Loose(<<c>>) /\ Shut(<<c>>)
  BY <1>1, MarkLexes
<1>4. Lexes(<<>>, <<>>) /\ <<>> \in Seq(Characters) /\ Loose(<<>>)
  BY LexNothing DEF Loose
<1>5. Lexes(CommaBehind(i, n), CommaToken(i, n))
  BY <1>2, <1>3, <1>4
<1>6. CommaToken(i, n) \in Seq(Keywords)
  BY <1>5 DEF Lexes
<1>7. QED
  BY <1>2, <1>3, <1>4, <1>5, <1>6

\* Texts that are shut, but for the last one, one after the other.
LEMMA JoinsLex ==
    \A n \in Nat : \A x, ks :
      (\A i \in 1..n : Lexes(x[i], ks[i]) /\ (i = n \/ Shut(x[i])))
        => Lexes(Joins(x, n), Joins(ks, n)) 
<1> SUFFICES ASSUME NEW n \in Nat, NEW x, NEW ks, \A i \in 1..n : Lexes(x[i], ks[i]) /\ (i = n \/ Shut(x[i]))
             PROVE  Lexes(Joins(x, n), Joins(ks, n))
  OBVIOUS
<1>1. \A i \in 1..n : x[i] \in Seq(Characters) /\ ks[i] \in Seq(Keywords)
  BY DEF Lexes
<1> DEFINE X == [i \in 1..n |-> x[i]]
           Ks == [i \in 1..n |-> ks[i]]
<1>2. /\ \A m \in 0..n : Joins(X, m) = Joins(x, m)
      /\ \A m \in 0..n : Joins(Ks, m) = Joins(ks, m)
  <2>1. ASSUME NEW m \in 0..n
        PROVE  [i \in 1..m |-> X[i]] = [i \in 1..m |-> x[i]] /\ [i \in 1..m |-> Ks[i]] = [i \in 1..m |-> ks[i]]
    <3>1. \A i \in 1..m : i \in 1..n
      OBVIOUS
    <3>2. QED
      BY <3>1
  <2>2. QED
    BY <2>1 DEF Joins
<1>3. /\ Joins(X, 0) = <<>>
      /\ \A m \in 0..n : Joins(X, m) \in Seq(Characters)
      /\ \A m \in 1..n : Joins(X, m) = Joins(X, m - 1) \o X[m]
  <2>1. X \in [1..n -> Seq(Characters)]
    BY <1>1
  <2> HIDE DEF X
  <2>2. QED
    BY <2>1, JoinsOf
<1>4. /\ Joins(Ks, 0) = <<>>
      /\ \A m \in 1..n : Joins(Ks, m) = Joins(Ks, m - 1) \o Ks[m]
  <2>1. Ks \in [1..n -> Seq(Keywords)]
    BY <1>1
  <2> HIDE DEF Ks
  <2>2. QED
    BY <2>1, JoinsSteps
<1>5. \A i \in 1..n : X[i] = x[i] /\ Ks[i] = ks[i]
  OBVIOUS
<1>6. 0 \in 0..n /\ n \in 0..n /\ \A m \in 1..n : m \in 0..n /\ m - 1 \in 0..n /\ m - 1 # n /\ (m - 1 = 0 \/ m - 1 \in 1..n)
  OBVIOUS
<1> HIDE DEF X, Ks
<1> DEFINE T == {m \in 0..n : Lexes(Joins(X, m), Joins(Ks, m)) /\ (m = 0 \/ m = n \/ Shut(Joins(X, m)))}
<1>7. 0 \in T
  BY <1>3, <1>4, <1>6, LexNothing
<1>8. ASSUME NEW m \in 1..n, m - 1 \in T
      PROVE  m \in T
  <2>1. /\ Lexes(Joins(X, m - 1), Joins(Ks, m - 1)) /\ (m - 1 = 0 \/ Shut(Joins(X, m - 1)))
    BY <1>6, <1>8
  <2>2. Apart(Joins(X, m - 1), X[m])
    BY <1>3, <2>1, ApartIs
  <2>3. Lexes(X[m], Ks[m]) /\ (m = n \/ Shut(X[m]))
    BY <1>5
  <2>4. Lexes(Joins(X, m), Joins(Ks, m))
    BY <1>3, <1>4, <2>1, <2>2, <2>3, LexJoin
  <2>5. m = n \/ Shut(Joins(X, m))
    <3>1. X[m] \in Seq(Characters) /\ Joins(X, m - 1) \in Seq(Characters)
      BY <1>1, <1>3, <1>5, <1>6
    <3>2. QED
      BY <1>3, <2>3, <3>1, ShutBehind
  <2>6. QED
    BY <1>6, <2>4, <2>5
<1> HIDE DEF T
<1>9. \A m \in 0..n : m \in T
  BY <1>7, <1>8, Upward
<1>10. n \in T
  BY <1>6, <1>9
<1>11. QED
  BY <1>2, <1>6, <1>10 DEF T

LEMMA PartLexes ==
    \A flat, part, ks, i, n : \A depth \in Nat : Lexes(part, ks) =>
      LET x == BlanksOf(flat, depth) \o part \o CommaBehind(i, n) \o Cr(flat)
      IN  Lexes(x, ks \o CommaToken(i, n)) /\ (i = n \/ Shut(x))
<1> SUFFICES ASSUME NEW flat, NEW part, NEW ks, NEW i, NEW n, NEW depth \in Nat, Lexes(part, ks)
             PROVE  LET x == BlanksOf(flat, depth) \o part \o CommaBehind(i, n) \o Cr(flat)
                    IN  Lexes(x, ks \o CommaToken(i, n)) /\ (i = n \/ Shut(x))
  OBVIOUS
<1> DEFINE a == BlanksOf(flat, depth)
           b == CommaBehind(i, n)
           c == Cr(flat)
           kb == CommaToken(i, n)
<1>1. Lexes(a, <<>>) /\ a \in Seq(Characters) /\ (a = <<>> \/ Shut(a))
  BY BlanksOfIs
<1>2. Lexes(b, kb) /\ b \in Seq(Characters) /\ Loose(b) /\ (i = n \/ Shut(b)) /\ kb \in Seq(Keywords)
  BY CommaIs
<1>3. Lexes(c, <<>>) /\ c \in Seq(Characters) /\ Loose(c) /\ (c = <<>> \/ Shut(c))
  BY CrIs
<1>4. part \in Seq(Characters) /\ ks \in Seq(Keywords)
  BY DEF Lexes
<1> HIDE DEF a, b, c, kb
<1>5. Lexes(a \o part, <<>> \o ks)
  BY <1>1, ApartIs, LexJoin
<1>6. <<>> \o ks = ks
  BY <1>4, EmptyIs
<1>7. Lexes((a \o part) \o b, ks \o kb)
  BY <1>2, <1>5, <1>6, ApartIs, LexJoin
<1>8. ks \o kb \in Seq(Keywords) /\ (ks \o kb) \o <<>> = ks \o kb
  <2>1. ks \o kb \in Seq(Keywords)
    BY <1>2, <1>4, ConcatIs
  <2>2. QED
    BY <2>1, EmptyIs
<1>9. Lexes(((a \o part) \o b) \o c, ks \o kb)
  <2>1. Lexes(((a \o part) \o b) \o c, (ks \o kb) \o <<>>)
    BY <1>3, <1>7, ApartIs, LexJoin
  <2>2. QED
    BY <1>8, <2>1
<1>10. (a \o part) \o b \in Seq(Characters) /\ a \o part \in Seq(Characters)
  BY <1>5, <1>7 DEF Lexes
<1>11. i = n \/ Shut(((a \o part) \o b) \o c)
  <2>1. CASE c = <<>>
    <3>1. ((a \o part) \o b) \o c = (a \o part) \o b
      BY <1>10, <2>1, EmptyIs
    <3>2. QED
      BY <1>2, <1>10, <3>1, ShutBehind
  <2>2. CASE Shut(c)
    BY <1>3, <1>10, <2>2, ShutBehind
  <2>3. QED
    BY <1>3, <2>1, <2>2
<1>12. QED
  BY <1>9, <1>11 DEF a, b, c, kb

LEMMA ComposeLexes ==
    \A open, close \in Marks : \A n \in Nat : \A parts, ks : \A step, depth \in Nat :
      /\ parts \in Seq(Seq(Characters)) /\ Len(parts) = n /\ depth - step \in Nat
      /\ \A i \in 1..n : Lexes(parts[i], ks[i])
      => Lexes(Compose(open, parts, close, step, depth), ListTokens(open, ks, n, close))
<1> SUFFICES ASSUME NEW open \in Marks, NEW close \in Marks, NEW n \in Nat, NEW parts, NEW ks,
                    NEW step \in Nat, NEW depth \in Nat,
                    parts \in Seq(Seq(Characters)), Len(parts) = n, depth - step \in Nat,
                    \A i \in 1..n : Lexes(parts[i], ks[i])
             PROVE  Lexes(Compose(open, parts, close, step, depth), ListTokens(open, ks, n, close))
  OBVIOUS
<1> DEFINE flat == Flatly(parts, step)
           x == PartsOf(parts, flat, depth)
           K == Separated(ks, n)
           o == <<open>>
           c == <<close>>
           F == FlattenSeq(x)
           J == Joins(K, n)
           cr == Cr(flat)
           b == BlanksOf(flat, depth - step)
<1>1. Compose(open, parts, close, step, depth) = (((o \o cr) \o F) \o b) \o c
  BY ComposeIs
<1>2. ListTokens(open, ks, n, close) = (<<o>> \o J) \o <<c>>
  BY DEF ListTokens
<1>3. \A i \in 1..n : Lexes(x[i], K[i]) /\ (i = n \/ Shut(x[i]))
  <2>1. SUFFICES ASSUME NEW i \in 1..n
                 PROVE  Lexes(x[i], K[i]) /\ (i = n \/ Shut(x[i]))
    OBVIOUS
  <2> HIDE DEF flat
  <2>2. x[i] = BlanksOf(flat, depth) \o parts[i] \o CommaBehind(i, n) \o Cr(flat) /\ K[i] = ks[i] \o CommaToken(i, n)
    BY DEF PartsOf, Separated
  <2> HIDE DEF x, K
  <2>3. QED
    BY <2>2, PartLexes
<1>4. F = Joins(x, n)
  <2>1. Len(x) = n /\ x = [i \in 1..n |-> x[i]]
    BY DEF PartsOf
  <2>2. QED
    BY <2>1 DEF Joins
<1> HIDE DEF x, K
<1>5. Lexes(F, J)
  BY <1>3, <1>4, JoinsLex
<1>6. Lexes(o, <<o>>) /\ Shut(o) /\ Lexes(c, <<c>>) /\ Loose(c) /\ o \in Seq(Characters)
  BY MarkLexes
<1>7. Lexes(cr, <<>>) /\ cr \in Seq(Characters) /\ (cr = <<>> \/ Shut(cr))
  BY CrIs
<1>8. Lexes(b, <<>>) /\ Loose(b)
  BY BlanksOfIs
<1> HIDE DEF F, J, o, c, cr, b
<1>9. <<o>> \in Seq(Keywords) /\ J \in Seq(Keywords)
  BY <1>5, <1>6 DEF Lexes
<1>10. Lexes(o \o cr, <<o>>)
  <2>1. Lexes(o \o cr, <<o>> \o <<>>)
    BY <1>6, <1>7, ApartIs, LexJoin
  <2>2. <<o>> \o <<>> = <<o>>
    BY <1>9, EmptyIs
  <2>3. QED
    BY <2>1, <2>2
<1>11. Shut(o \o cr)
  <2>1. CASE cr = <<>>
    <3>1. o \o cr = o
      BY <1>6, <2>1, EmptyIs
    <3>2. QED
      BY <1>6, <3>1
  <2>2. CASE Shut(cr)
    BY <1>6, <1>7, <2>2, ShutBehind
  <2>3. QED
    BY <1>7, <2>1, <2>2
<1>12. Lexes((o \o cr) \o F, <<o>> \o J)
  BY <1>5, <1>10, <1>11, ApartIs, LexJoin
<1>13. <<o>> \o J \in Seq(Keywords) /\ (<<o>> \o J) \o <<>> = <<o>> \o J
  <2>1. <<o>> \o J \in Seq(Keywords)
    BY <1>9, ConcatIs
  <2>2. QED
    BY <2>1, EmptyIs
<1>14. Lexes(((o \o cr) \o F) \o b, <<o>> \o J)
  <2>1. Lexes(((o \o cr) \o F) \o b, (<<o>> \o J) \o <<>>)
    BY <1>8, <1>12, ApartIs, LexJoin
  <2>2. QED
    BY <1>13, <2>1
<1>15. Lexes((((o \o cr) \o F) \o b) \o c, (<<o>> \o J) \o <<c>>)
  BY <1>6, <1>14, ApartIs, LexJoin
<1>16. QED
  BY <1>1, <1>2, <1>15

-----------------------------------------------------------------------------
(* The tokenizer reads a text that is cut into tokens.                       *)

LEMMA BlankClass ==
    \A c \in Spaces : c \in empty_set /\ c \notin operator_set \cup Digits \cup single_char_set \cup const_str_set
BY DEF Spaces, empty_set, operator_set, Digits, single_char_set, const_str_set
LEMMA MarkClass ==
    \A c \in Marks : /\ c \in operator_set \cup single_char_set /\ c \notin Digits \cup empty_set \cup const_str_set
                     /\ c # "-" /\ c # "/" /\ c # "&" /\ c # ";"
BY DEF Marks, empty_set, operator_set, Digits, single_char_set, const_str_set
LEMMA LetterClass ==
    \A c \in Letters \ Digits :
      c \notin operator_set \cup Digits \cup empty_set \cup single_char_set \cup const_str_set /\ c # "-"
BY DEF Letters, empty_set, operator_set, Digits, single_char_set, const_str_set
LEMMA DigitClass ==
    \A c \in Digits : c \notin operator_set \cup empty_set \cup single_char_set \cup const_str_set /\ c \in Glue
BY DEF empty_set, operator_set, Digits, single_char_set, const_str_set, Glue, Letters
LEMMA MinusClass ==
    "-" \in operator_set /\ "-" \notin empty_set \cup single_char_set \cup const_str_set \cup Digits /\ "-" # "/"
BY DEF empty_set, operator_set, Digits, single_char_set, const_str_set
LEMMA QuoteClass ==
    /\ QuoteMark \in const_str_set /\ QuoteMark # "bq"
    /\ QuoteMark \notin operator_set \cup Digits \cup empty_set \cup single_char_set /\ QuoteMark # "-" /\ QuoteMark # "/"
BY DEF QuoteMark, empty_set, operator_set, Digits, single_char_set, const_str_set
LEMMA EndClass ==
    "\\0" \notin Glue /\ "\\0" # "." /\ "\\0" \notin Digits /\ "." \in Glue /\ Digits \subseteq Glue /\ Letters \subseteq Glue
BY DEF Glue, Letters, Digits

LEMMA FirstMeets ==
    \A T \in SUBSET Nat : \A e \in T : (\A k \in T : e <= k) => First(T) = e
<1> SUFFICES ASSUME NEW T \in SUBSET Nat, NEW e \in T, \A k \in T : e <= k
             PROVE  First(T) = e
  OBVIOUS
<1>1. First(T) \in T /\ \A k \in T : First(T) <= k
  BY FirstIs
<1> HIDE DEF First
<1>2. First(T) \in Nat /\ e \in Nat /\ First(T) <= e /\ e <= First(T)
  BY <1>1
<1>3. QED
  BY <1>2

LEMMA PlaceArithmetic ==
    \A p, n, l \in Nat : p + n <= l /\ n > 0 =>
      /\ p < l /\ p + n \in Nat /\ p <= p + n /\ p + n \in (p + 1)..l /\ (p + n) - p = n
      /\ \A i \in 1..n : p + i - 1 \in 0..l - 1 /\ (p + i - 1) + 1 = p + i
OBVIOUS

\* The text w stands at the cursor.
LEMMA WordAt ==
    ASSUME TextOK
    PROVE  \A w : w \in Seq(Characters) /\ Len(w) \in Nat /\ Len(w) > 0 /\ Here(text, ptr, w) =>
             /\ ptr < Len(text) /\ ptr + Len(w) \in (ptr + 1)..Len(text) /\ ptr + Len(w) \in Nat /\ ptr \in Nat
             /\ Len(text) \in Nat
             /\ Slice(ptr, ptr + Len(w)) = w /\ \A i \in 1..Len(w) : At(ptr + i - 1) = w[i]
<1> SUFFICES ASSUME NEW w, w \in Seq(Characters), Len(w) \in Nat, Len(w) > 0, Here(text, ptr, w)
             PROVE  /\ ptr < Len(text) /\ ptr + Len(w) \in (ptr + 1)..Len(text) /\ ptr + Len(w) \in Nat /\ ptr \in Nat
                    /\ Len(text) \in Nat
                    /\ Slice(ptr, ptr + Len(w)) = w /\ \A i \in 1..Len(w) : At(ptr + i - 1) = w[i]
  OBVIOUS
<1> DEFINE n == Len(w)
           s == Slice(ptr, ptr + n)
<1>1. ptr \in Nat /\ Len(text) \in Nat
  BY DEF TextOK
<1>2. ptr + n <= Len(text) /\ \A i \in 1..n : text[ptr + i] = w[i]
  BY DEF Here
<1>3. /\ ptr < Len(text) /\ ptr + n \in (ptr + 1)..Len(text) /\ ptr + n \in Nat /\ ptr <= ptr + n /\ (ptr + n) - ptr = n
      /\ \A i \in 1..n : ptr + i - 1 \in 0..Len(text) - 1 /\ (ptr + i - 1) + 1 = ptr + i
  <2> HIDE DEF n
  <2>1. QED
    BY <1>1, <1>2, PlaceArithmetic DEF n
<1>4. \A i \in 1..n : At(ptr + i - 1) = w[i]
  BY <1>2, <1>3, AtInText
<1>5. s \in Seq(Characters) /\ Len(s) = n /\ \A i \in 1..n : s[i] = At(ptr + i - 1)
  BY <1>1, <1>2, <1>3, SliceIs
<1>6. s = w
  <2> HIDE DEF s
  <2>1. QED
    BY <1>4, <1>5, SameSequence
<1>7. QED
  BY <1>1, <1>3, <1>4, <1>6

LEMMA FreeAt ==
    ASSUME TextOK
    PROVE  \A q \in 0..Len(text) : Free(text, q) => At(q) \notin Glue
<1> SUFFICES ASSUME NEW q \in 0..Len(text), Free(text, q)
             PROVE  At(q) \notin Glue
  OBVIOUS
<1>1. CASE q = Len(text)
  <2>1. At(q) = "\\0"
    BY <1>1 DEF At, TextOK
  <2>2. QED
    BY <2>1, EndClass
<1>2. CASE q # Len(text)
  <2>1. q \in 0..Len(text) - 1
    BY <1>2 DEF TextOK
  <2>2. At(q) = text[q + 1]
    BY <2>1, AtInText
  <2>3. QED
    BY <1>2, <2>2 DEF Free
<1>3. QED
  BY <1>1, <1>2

MarkLexeme(w, k) == w[1] \in Marks /\ w = <<w[1]>> /\ k = w
WordLexeme(w, k) == w \in Words /\ k = w /\ w[1] \in Letters \ Digits
NumberLexeme(w, k) == /\ IsNumeral(w) /\ k = w
                      /\ w[1] \in Digits \/ (w[1] = "-" /\ Len(w) >= 2 /\ w[2] \in Digits)
QuoteLexeme(w, k) == w[1] = QuoteMark /\ \E s : Escapable(s) /\ w = Quoted(s) /\ k = InQuotes(s)

LEMMA TailIs ==
    ASSUME NEW C
    PROVE  \A w \in Seq(C) : w # <<>> => Len(Tail(w)) = Len(w) - 1 /\ \A i \in 1..Len(w) - 1 : Tail(w)[i] = w[i + 1]
OBVIOUS

LEMMA MoreThanOne == \A n \in Nat : n > 0 /\ n # 1 => n >= 2 /\ 1 \in 1..n - 1 /\ 1 + 1 = 2
OBVIOUS

LEMMA NumeralSteps ==
    \A w : IsNumeral(w) =>
      /\ w \in Seq(Characters) /\ Len(w) \in Nat /\ Len(w) > 0
      /\ w[1] \in Digits \/ (w[1] = "-" /\ Len(w) >= 2 /\ w[2] \in Digits)
      /\ \A i \in 2..Len(w) : w[i] \in Digits \/ (w[i] = "." /\ (i < Len(w) => w[i + 1] # "."))
<1> SUFFICES ASSUME NEW w, IsNumeral(w)
             PROVE  /\ w[1] \in Digits \/ (w[1] = "-" /\ Len(w) >= 2 /\ w[2] \in Digits)
                    /\ \A i \in 2..Len(w) : w[i] \in Digits \/ (w[i] = "." /\ (i < Len(w) => w[i + 1] # "."))
  BY NumeralIs
<1> DEFINE d == IF w[1] = "-" THEN Tail(w) ELSE w
           Fine(x, i) == x[i] \in Digits \/ (x[i] = "." /\ (i < Len(x) => x[i + 1] # "."))
<1>1. w \in Seq(Characters) /\ Len(w) \in Nat /\ Len(w) > 0
  BY NumeralIs
<1>2. w # <<>> /\ d # <<>> /\ d[1] \in Digits /\ \A i \in 1..Len(d) : Fine(d, i)
  BY DEF IsNumeral
<1>3. CASE w[1] = "-"
  <2>1. d = Tail(w) /\ Len(d) = Len(w) - 1 /\ \A i \in 1..Len(w) - 1 : d[i] = w[i + 1]
    BY <1>1, <1>2, <1>3, TailIs
  <2>2. Len(w) # 1
    <3>1. Tail(w) \in Seq(Characters)
      BY <1>1, <1>2
    <3>2. Len(d) = 0 => d = <<>>
      BY <2>1, <3>1, EmptyIs
    <3> HIDE DEF d
    <3>3. QED
      BY <1>2, <2>1, <3>2
  <2> HIDE DEF d
  <2>3. Len(w) >= 2 /\ w[2] \in Digits
    <3>1. Len(w) >= 2 /\ 1 \in 1..Len(w) - 1 /\ 1 + 1 = 2
      BY <1>1, <2>2, MoreThanOne
    <3>2. QED
      BY <1>2, <2>1, <3>1
  <2>4. ASSUME NEW i \in 2..Len(w)
        PROVE  Fine(w, i)
    <3>1. i - 1 \in 1..Len(d) /\ (i - 1) + 1 = i /\ i \in Int
      BY <1>1, <2>1
    <3>2. d[i - 1] = w[i] /\ Fine(d, i - 1)
      BY <1>2, <2>1, <3>1
    <3>3. i < Len(w) => i - 1 < Len(d) /\ d[(i - 1) + 1] = w[i + 1]
      <4>1. i < Len(w) => i - 1 < Len(d) /\ (i - 1) + 1 \in 1..Len(w) - 1
        BY <1>1, <2>1, <3>1
      <4>2. QED
        BY <2>1, <3>1, <4>1
    <3>4. QED
      BY <3>2, <3>3
  <2>5. QED
    BY <1>3, <2>3, <2>4
<1>4. CASE w[1] # "-"
  <2>1. d = w
    BY <1>4
  <2>2. \A i \in 2..Len(w) : i \in 1..Len(w)
    BY <1>1
  <2> HIDE DEF d
  <2>3. QED
    BY <1>2, <2>1, <2>2
<1>5. QED
  BY <1>3, <1>4

LEMMA KindsOfLexeme ==
    \A w, k : Lexeme(w, k) => MarkLexeme(w, k) \/ WordLexeme(w, k) \/ NumberLexeme(w, k) \/ QuoteLexeme(w, k)
<1> SUFFICES ASSUME NEW w, NEW k, Lexeme(w, k)
             PROVE  MarkLexeme(w, k) \/ WordLexeme(w, k) \/ NumberLexeme(w, k) \/ QuoteLexeme(w, k)
  OBVIOUS
<1>1. ASSUME NEW c \in Marks, w = <<c>>, k = <<c>>
      PROVE  MarkLexeme(w, k)
  <2>1. w[1] = c
    BY <1>1, MarkIs
  <2>2. QED
    BY <1>1, <2>1 DEF MarkLexeme
<1>2. ASSUME w \in Words, k = w
      PROVE  WordLexeme(w, k)
  <2>1. Len(w) \in Nat /\ Len(w) > 0 /\ \A i \in 1..Len(w) : w[i] \in Letters \ Digits
    BY <1>2, WordsAre
  <2>2. 1 \in 1..Len(w)
    BY <2>1
  <2>3. QED
    BY <1>2, <2>1, <2>2 DEF WordLexeme
<1>3. ASSUME IsNumeral(w), k = w
      PROVE  NumberLexeme(w, k)
  BY <1>3, NumeralSteps DEF NumberLexeme
<1>4. ASSUME NEW s, Escapable(s), w = Quoted(s), k = InQuotes(s)
      PROVE  QuoteLexeme(w, k)
  <2>1. s \in Seq(Characters)
    BY <1>4, EscapableIs
  <2>2. w = InQuotes(Escape(s)) /\ Escape(s) \in Seq(Characters)
    BY <1>4, <2>1, QuotedText
  <2>3. w[1] = QuoteMark
    BY <2>2, InQuotesAre
  <2>4. QED
    BY <1>4, <2>3 DEF QuoteLexeme
<1>5. QED
  BY <1>1, <1>2, <1>3, <1>4 DEF Lexeme

\* The text w is read as the token k.
Reads(w, k) == /\ text' = text /\ mode' = mode /\ outcome' = "running" /\ ptr' = ptr + Len(w)
               /\ \E p, l : res' = Append(res, Token(k, p, l))
Standing(w, k) == /\ Lexeme(w, k) /\ Here(text, ptr, w)
                  /\ w[Len(w)] \in Glue => Free(text, ptr + Len(w))

LEMMA StandingIs ==
    ASSUME TextOK
    PROVE  \A w, k : Standing(w, k) =>
             /\ w \in Seq(Characters) /\ k \in Keywords /\ Len(w) \in Nat /\ Len(w) > 0
             /\ ptr < Len(text) /\ ptr + Len(w) \in (ptr + 1)..Len(text) /\ ptr + Len(w) \in Nat /\ ptr \in Nat
             /\ Len(text) \in Nat
             /\ Slice(ptr, ptr + Len(w)) = w /\ \A i \in 1..Len(w) : At(ptr + i - 1) = w[i]
             /\ At(ptr) = w[1] /\ (Len(w) >= 2 => At(ptr + 1) = w[2])
             /\ w[Len(w)] \in Glue => At(ptr + Len(w)) \notin Glue
<1> SUFFICES ASSUME NEW w, NEW k, Standing(w, k)
             PROVE
             /\ w \in Seq(Characters) /\ k \in Keywords /\ Len(w) \in Nat /\ Len(w) > 0
             /\ ptr < Len(text) /\ ptr + Len(w) \in (ptr + 1)..Len(text) /\ ptr + Len(w) \in Nat /\ ptr \in Nat
             /\ Len(text) \in Nat
             /\ Slice(ptr, ptr + Len(w)) = w /\ \A i \in 1..Len(w) : At(ptr + i - 1) = w[i]
             /\ At(ptr) = w[1] /\ (Len(w) >= 2 => At(ptr + 1) = w[2])
             /\ w[Len(w)] \in Glue => At(ptr + Len(w)) \notin Glue
  OBVIOUS
<1>1. Lexeme(w, k) /\ Here(text, ptr, w) /\ (w[Len(w)] \in Glue => Free(text, ptr + Len(w)))
  BY DEF Standing
<1>2. w \in Seq(Characters) /\ k \in Keywords /\ Len(w) \in Nat /\ Len(w) > 0
  BY <1>1, LexemeIs
<1>3. /\ ptr < Len(text) /\ ptr + Len(w) \in (ptr + 1)..Len(text) /\ ptr + Len(w) \in Nat /\ ptr \in Nat
      /\ Len(text) \in Nat
      /\ Slice(ptr, ptr + Len(w)) = w /\ \A i \in 1..Len(w) : At(ptr + i - 1) = w[i]
  BY <1>1, <1>2, WordAt
<1>4. At(ptr) = w[1] /\ (Len(w) >= 2 => At(ptr + 1) = w[2])
  <2>1. 1 \in 1..Len(w) /\ ptr + 1 - 1 = ptr /\ (Len(w) >= 2 => 2 \in 1..Len(w) /\ ptr + 2 - 1 = ptr + 1)
    BY <1>2, <1>3
  <2>2. QED
    BY <1>3, <2>1
<1>5. w[Len(w)] \in Glue => At(ptr + Len(w)) \notin Glue
  <2>1. ptr + Len(w) \in 0..Len(text)
    BY <1>3
  <2>2. QED
    BY <1>1, <2>1, FreeAt
<1>6. QED
  BY <1>2, <1>3, <1>4, <1>5

LEMMA OperatorReads ==
    ASSUME TextOK, Operator, mode = "json"
    PROVE  \A w, k : Standing(w, k) => Reads(w, k)
<1> SUFFICES ASSUME NEW w, NEW k, Standing(w, k)
             PROVE  Reads(w, k)
  OBVIOUS
<1>1. At(ptr) = w[1] /\ (Len(w) >= 2 => At(ptr + 1) = w[2]) /\ Lexeme(w, k)
  BY StandingIs DEF Standing
<1>2. At(ptr) \in operator_set /\ ~Negative /\ outcome = "running"
  BY DEF Operator, Reading
<1>3. MarkLexeme(w, k)
  <2>1. ~WordLexeme(w, k)
    BY <1>1, <1>2, LetterClass DEF WordLexeme
  <2>2. ~NumberLexeme(w, k)
    BY <1>1, <1>2, DigitClass DEF NumberLexeme, Negative
  <2>3. ~QuoteLexeme(w, k)
    BY <1>1, <1>2, QuoteClass DEF QuoteLexeme
  <2>4. QED
    BY <1>1, <2>1, <2>2, <2>3, KindsOfLexeme
<1>4. OperatorText = <<At(ptr)>>
  BY DEF OperatorText
<1>5. w = <<At(ptr)>> /\ k = w /\ At(ptr) \in Marks
  BY <1>1, <1>3 DEF MarkLexeme
<1>6. OperatorText # <<"&">>
  BY <1>4, <1>5, MarkClass
<1>7. ptr' = ptr + Len(w) /\ text' = text /\ mode' = mode /\ outcome' = outcome /\ res' = Append(res, Token(w, ptr, line))
  BY <1>4, <1>5, <1>6 DEF Operator, Push, Move
<1>8. QED
  BY <1>2, <1>5, <1>7 DEF Reads

LEMMA SingleCharReads ==
    ASSUME TextOK, SingleChar
    PROVE  \A w, k : Standing(w, k) => Reads(w, k)
<1> SUFFICES ASSUME NEW w, NEW k, Standing(w, k)
             PROVE  Reads(w, k)
  OBVIOUS
<1>1. At(ptr) = w[1] /\ Lexeme(w, k)
  BY StandingIs DEF Standing
<1>2. At(ptr) \in single_char_set /\ outcome = "running"
  BY DEF SingleChar, Reading
<1>3. MarkLexeme(w, k)
  <2>1. ~WordLexeme(w, k)
    BY <1>1, <1>2, LetterClass DEF WordLexeme
  <2>2. ~NumberLexeme(w, k)
    BY <1>1, <1>2, DigitClass, MinusClass DEF NumberLexeme
  <2>3. ~QuoteLexeme(w, k)
    BY <1>1, <1>2, QuoteClass DEF QuoteLexeme
  <2>4. QED
    BY <1>1, <2>1, <2>2, <2>3, KindsOfLexeme
<1>5. w = <<At(ptr)>> /\ k = w /\ At(ptr) \in Marks /\ Len(w) = 1
  BY <1>1, <1>3, MarkIs DEF MarkLexeme
<1>6. At(ptr) # ";"
  BY <1>5, MarkClass
<1>7. ptr' = ptr + Len(w) /\ text' = text /\ mode' = mode /\ outcome' = outcome /\ res' = Append(res, Token(w, ptr, line))
  BY <1>5, <1>6 DEF SingleChar, Push, Move
<1>8. QED
  BY <1>2, <1>5, <1>7 DEF Reads

LEMMA EmptyReads ==
    ASSUME TextOK, Empty
    PROVE  \A w, k : ~Standing(w, k)
<1> SUFFICES ASSUME NEW w, NEW k, Standing(w, k)
             PROVE  FALSE
  OBVIOUS
<1>1. At(ptr) = w[1] /\ Lexeme(w, k)
  BY StandingIs DEF Standing
<1>2. At(ptr) \in empty_set
  BY DEF Empty, Reading
<1>3. ~WordLexeme(w, k)
  BY <1>1, <1>2, LetterClass DEF WordLexeme
<1>4. ~NumberLexeme(w, k)
  BY <1>1, <1>2, DigitClass, MinusClass DEF NumberLexeme
<1>5. ~QuoteLexeme(w, k)
  BY <1>1, <1>2, QuoteClass DEF QuoteLexeme
<1>6. ~MarkLexeme(w, k)
  BY <1>1, <1>2, MarkClass DEF MarkLexeme
<1>7. QED
  BY <1>1, <1>3, <1>4, <1>5, <1>6, KindsOfLexeme

LEMMA CommentReads ==
    ASSUME TextOK, LineComment \/ BlockComment
    PROVE  \A w, k : ~Standing(w, k)
<1> SUFFICES ASSUME NEW w, NEW k, Standing(w, k)
             PROVE  FALSE
  OBVIOUS
<1>1. At(ptr) = w[1] /\ Lexeme(w, k)
  BY StandingIs DEF Standing
<1>2. At(ptr) = "/" /\ "/" \in operator_set
  BY DEF LineComment, BlockComment, Reading, operator_set
<1>3. ~WordLexeme(w, k)
  BY <1>1, <1>2, LetterClass DEF WordLexeme
<1>4. ~NumberLexeme(w, k)
  BY <1>1, <1>2, DigitClass, MinusClass DEF NumberLexeme
<1>5. ~QuoteLexeme(w, k)
  BY <1>1, <1>2, QuoteClass DEF QuoteLexeme
<1>6. ~MarkLexeme(w, k)
  BY <1>1, <1>2, MarkClass DEF MarkLexeme
<1>7. QED
  BY <1>1, <1>3, <1>4, <1>5, <1>6, KindsOfLexeme

LEMMA BetweenArithmetic ==
    \A p, n, l, k \in Nat : k \in (p + 1)..l /\ p + n <= l /\ ~(p + n <= k) =>
      /\ k - p + 1 \in 2..n /\ k - p + 1 \in 1..n /\ p + (k - p + 1) - 1 = k /\ k # l
      /\ k - p + 1 < n => (k - p + 1) + 1 \in 1..n /\ p + ((k - p + 1) + 1) - 1 = k + 1
      /\ ~(k - p + 1 < n) => k + 1 = p + n
OBVIOUS

LEMMA NumberReads ==
    ASSUME TextOK, Number
    PROVE  \A w, k : Standing(w, k) => Reads(w, k)
<1> SUFFICES ASSUME NEW w, NEW k, Standing(w, k)
             PROVE  Reads(w, k)
  OBVIOUS
<1> DEFINE Stop(i) == At(i) \notin Digits /\ ~(At(i) = "." /\ At(i + 1) # ".")
           T == {j \in (ptr + 1)..Len(text) : j = Len(text) \/ Stop(j)}
           n == Len(w)
           e == ptr + n
<1>1. /\ n \in Nat /\ n > 0 /\ At(ptr) = w[1] /\ Lexeme(w, k) /\ e \in (ptr + 1)..Len(text) /\ ptr \in Nat
      /\ Len(text) \in Nat
      /\ Slice(ptr, e) = w /\ \A i \in 1..n : At(ptr + i - 1) = w[i]
      /\ w[n] \in Glue => At(e) \notin Glue
  BY StandingIs DEF Standing
<1>2. (At(ptr) \in Digits \/ At(ptr) = "-") /\ outcome = "running"
  BY DEF Number, Negative, Reading
<1>3. NumberLexeme(w, k)
  <2>1. ~WordLexeme(w, k)
    BY <1>1, <1>2, LetterClass DEF WordLexeme
  <2>2. ~MarkLexeme(w, k)
    BY <1>1, <1>2, MarkClass DEF MarkLexeme
  <2>3. ~QuoteLexeme(w, k)
    BY <1>1, <1>2, QuoteClass DEF QuoteLexeme
  <2>4. QED
    BY <1>1, <2>1, <2>2, <2>3, KindsOfLexeme
<1>4. /\ k = w /\ (w[1] \in Digits \/ n >= 2)
      /\ \A i \in 2..n : w[i] \in Digits \/ (w[i] = "." /\ (i < n => w[i + 1] # "."))
  <2>1. IsNumeral(w) /\ k = w
    BY <1>3 DEF NumberLexeme
  <2>2. QED
    BY <2>1, NumeralSteps
<1>5. At(e) \notin Glue
  <2>1. w[n] \in Digits \/ w[n] = "."
    <3>1. CASE n = 1
      BY <1>4, <3>1
    <3>2. CASE n # 1
      <4>1. n \in 2..n
        <5> HIDE DEF n, e
        <5>1. QED
          BY <1>1, <3>2
      <4>2. QED
        BY <1>4, <4>1
    <3>3. QED
      BY <3>1, <3>2
  <2>2. w[n] \in Glue
    BY <2>1, EndClass
  <2>3. QED
    BY <1>1, <2>2
<1>6. Stop(e)
  BY <1>5, EndClass
<1> HIDE DEF n
<1>7. ASSUME NEW j \in (ptr + 1)..Len(text), ~(e <= j)
      PROVE  j # Len(text) /\ ~Stop(j)
  <2> DEFINE i == j - ptr + 1
  <2>1. /\ i \in 2..n /\ i \in 1..n /\ ptr + i - 1 = j /\ j # Len(text)
        /\ i < n => i + 1 \in 1..n /\ ptr + (i + 1) - 1 = j + 1
        /\ ~(i < n) => j + 1 = e
    <3>1. j \in Nat /\ e <= Len(text)
      BY <1>1, <1>7
    <3>2. QED
      BY <1>1, <1>7, <3>1, BetweenArithmetic
  <2> HIDE DEF i
  <2>2. At(j) = w[i]
    BY <1>1, <2>1
  <2>3. CASE w[i] \in Digits
    BY <2>1, <2>2, <2>3
  <2>4. CASE w[i] = "."
    <3>1. i < n => At(j + 1) # "."
      <4>1. i < n => At(j + 1) = w[i + 1]
        BY <1>1, <2>1
      <4>2. i < n => w[i + 1] # "."
        <5>1. "." \notin Digits
          BY DEF Digits
        <5>2. QED
          BY <1>4, <2>1, <2>4, <5>1
      <4>3. QED
        BY <4>1, <4>2
    <3>2. ~(i < n) => At(j + 1) # "."
      BY <1>5, <2>1, EndClass
    <3>3. QED
      BY <2>1, <2>2, <2>4, <3>1, <3>2
  <2>5. QED
    BY <1>4, <2>1, <2>3, <2>4
<1>8. First(T) = e
  <2>1. T \in SUBSET Nat /\ e \in T
    BY <1>1, <1>6
  <2>2. \A j \in T : e <= j
    BY <1>7
  <2> HIDE DEF T, e
  <2>3. QED
    BY <2>1, <2>2, FirstMeets
<1>9. /\ text' = text /\ mode' = mode /\ outcome' = outcome /\ ptr' = First(T)
      /\ res' = Append(res, Token(Slice(ptr, First(T)), ptr, line))
  BY DEF Number, Until, Push, Move
<1> HIDE DEF T
<1>10. QED
  BY <1>1, <1>2, <1>4, <1>8, <1>9 DEF Reads, n

LEMMA IdentifyReads ==
    ASSUME TextOK, Identify
    PROVE  \A w, k : Standing(w, k) => Reads(w, k)
<1> SUFFICES ASSUME NEW w, NEW k, Standing(w, k)
             PROVE  Reads(w, k)
  OBVIOUS
<1> DEFINE T == {j \in (ptr + 1)..Len(text) : j = Len(text) \/ At(j) \notin Letters}
           n == Len(w)
           e == ptr + n
<1>1. /\ n \in Nat /\ n > 0 /\ At(ptr) = w[1] /\ Lexeme(w, k) /\ e \in (ptr + 1)..Len(text) /\ ptr \in Nat
      /\ Len(text) \in Nat
      /\ Slice(ptr, e) = w /\ \A i \in 1..n : At(ptr + i - 1) = w[i]
      /\ w[n] \in Glue => At(e) \notin Glue
  BY StandingIs DEF Standing
<1>2. /\ At(ptr) \notin operator_set \cup Digits \cup empty_set \cup single_char_set \cup const_str_set
      /\ outcome = "running"
  BY DEF Identify
<1>3. WordLexeme(w, k)
  <2>1. ~NumberLexeme(w, k)
    BY <1>1, <1>2, MinusClass DEF NumberLexeme
  <2>2. ~MarkLexeme(w, k)
    BY <1>1, <1>2, MarkClass DEF MarkLexeme
  <2>3. ~QuoteLexeme(w, k)
    BY <1>1, <1>2, QuoteClass DEF QuoteLexeme
  <2>4. QED
    BY <1>1, <2>1, <2>2, <2>3, KindsOfLexeme
<1>4. k = w /\ \A i \in 1..n : w[i] \in Letters
  BY <1>3, WordsAre DEF WordLexeme
<1>5. At(e) \notin Letters
  <2>1. n \in 1..n
    BY <1>1
  <2>2. w[n] \in Glue
    BY <1>4, <2>1, EndClass
  <2>3. QED
    BY <1>1, <2>2, EndClass
<1> HIDE DEF n
<1>7. ASSUME NEW j \in (ptr + 1)..Len(text), ~(e <= j)
      PROVE  j # Len(text) /\ At(j) \in Letters
  <2> DEFINE i == j - ptr + 1
  <2>1. i \in 1..n /\ ptr + i - 1 = j /\ j # Len(text)
    <3>1. j \in Nat /\ e <= Len(text)
      BY <1>1, <1>7
    <3>2. QED
      BY <1>1, <1>7, <3>1, BetweenArithmetic
  <2> HIDE DEF i
  <2>2. QED
    BY <1>1, <1>4, <2>1
<1>8. First(T) = e
  <2>1. T \in SUBSET Nat /\ e \in T
    BY <1>1, <1>5
  <2>2. \A j \in T : e <= j
    BY <1>7
  <2> HIDE DEF T, e
  <2>3. QED
    BY <2>1, <2>2, FirstMeets
<1>9. /\ text' = text /\ mode' = mode /\ outcome' = outcome /\ ptr' = First(T)
      /\ res' = Append(res, Token(Slice(ptr, First(T)), ptr, line))
  BY DEF Identify, Until, Push, Move
<1> HIDE DEF T
<1>10. QED
  BY <1>1, <1>2, <1>4, <1>8, <1>9 DEF Reads, n

\* In a quoted text a quote has a backslash before it, but for the first and the last.
LEMMA QuotedInside ==
    \A s : Escapable(s) =>
      LET w == Quoted(s)
          l == Len(Escape(s))
      IN  /\ l \in Nat /\ Len(w) = l + 2 /\ w \in Seq(Characters) /\ w[1] = QuoteMark /\ w[l + 2] = QuoteMark
          /\ w[l + 1] # Backslash
          /\ \A i \in 2..l + 1 : w[i] # "\n" /\ (w[i] = QuoteMark => w[i - 1] = Backslash)
          /\ (\A i \in 2..l + 1 : w[i] # QuoteMark) => w = InQuotes(s)
<1> SUFFICES ASSUME NEW s, Escapable(s)
             PROVE
      LET w == Quoted(s)
          l == Len(Escape(s))
      IN  /\ l \in Nat /\ Len(w) = l + 2 /\ w \in Seq(Characters) /\ w[1] = QuoteMark /\ w[l + 2] = QuoteMark
          /\ w[l + 1] # Backslash
          /\ \A i \in 2..l + 1 : w[i] # "\n" /\ (w[i] = QuoteMark => w[i - 1] = Backslash)
          /\ (\A i \in 2..l + 1 : w[i] # QuoteMark) => w = InQuotes(s)
  OBVIOUS
<1> DEFINE w == Quoted(s)
           e == Escape(s)
           l == Len(e)
<1>1. s \in Seq(Characters) /\ w = InQuotes(e) /\ e \in Seq(Characters)
  BY EscapableIs, QuotedText
<1>2. /\ w \in Seq(Characters) /\ l \in Nat /\ Len(w) = l + 2
      /\ w[1] = QuoteMark /\ w[l + 2] = QuoteMark /\ \A p \in 1..l : w[p + 1] = e[p]
  BY <1>1, InQuotesAre
<1>3. /\ \A p \in 1..l : e[p] # "\n" /\ (e[p] = QuoteMark => p - 1 \in 1..l /\ e[p - 1] = Backslash)
      /\ l > 0 => e[l] # Backslash
  BY EscapedWell
<1>4. (\A p \in 1..l : e[p] # QuoteMark) => e = s
  BY <1>1, EscapeNothing
<1> HIDE DEF w, e, l
<1>5. w[l + 1] # Backslash
  <2>1. CASE l = 0
    <3>1. l + 1 = 1 /\ w[1] = QuoteMark
      BY <1>2, <2>1
    <3>2. QED
      BY <3>1, MarksAre
  <2>2. CASE l # 0
    <3>1. l > 0 /\ l \in 1..l
      BY <1>2, <2>2
    <3>2. QED
      BY <1>2, <1>3, <3>1
  <2>3. QED
    BY <2>1, <2>2
<1>6. ASSUME NEW i \in 2..l + 1
      PROVE  w[i] # "\n" /\ (w[i] = QuoteMark => w[i - 1] = Backslash)
  <2>1. i - 1 \in 1..l /\ (i - 1) + 1 = i
    BY <1>2
  <2>2. w[i] = e[i - 1]
    BY <1>2, <2>1
  <2>3. ASSUME e[i - 1] = QuoteMark
        PROVE  w[i - 1] = Backslash
    <3>1. (i - 1) - 1 \in 1..l /\ e[(i - 1) - 1] = Backslash
      BY <1>3, <2>1, <2>3
    <3>2. ((i - 1) - 1) + 1 = i - 1
      BY <2>1
    <3>3. QED
      BY <1>2, <3>1, <3>2
  <2>4. QED
    BY <1>3, <2>1, <2>2, <2>3
<1>7. ASSUME \A i \in 2..l + 1 : w[i] # QuoteMark
      PROVE  w = InQuotes(s)
  <2>1. ASSUME NEW p \in 1..l
        PROVE  e[p] # QuoteMark
    <3>1. p + 1 \in 2..l + 1
      BY <1>2
    <3>2. QED
      BY <1>2, <1>7, <3>1
  <2>2. e = s
    BY <1>4, <2>1
  <2>3. QED
    BY <1>1, <2>2
<1>8. QED
  BY <1>2, <1>5, <1>6, <1>7 DEF w, e, l

LEMMA QuoteArithmetic ==
    \A p, l, t \in Nat : p + (l + 2) <= t =>
      /\ p + l + 1 \in (p + 1)..t /\ p + l + 1 \in Nat /\ l + 2 \in 1..l + 2 /\ l + 1 \in 1..l + 2
      /\ p + (l + 2) - 1 = p + l + 1 /\ p + (l + 1) - 1 = (p + l + 1) - 1 /\ (p + l + 1) + 1 = p + (l + 2)
      /\ \A j \in (p + 1)..t : ~(p + l + 1 <= j) =>
           /\ j - p + 1 \in 2..l + 1 /\ j - p + 1 \in 1..l + 2 /\ (j - p + 1) - 1 \in 1..l + 2
           /\ p + (j - p + 1) - 1 = j /\ p + ((j - p + 1) - 1) - 1 = j - 1 /\ j # t
      /\ \A j \in (p + 1)..((p + l + 1) - 1) : j - p + 1 \in 2..l + 1 /\ j - p + 1 \in 1..l + 2 /\ p + (j - p + 1) - 1 = j
      /\ \A i \in 2..l + 1 : i \in 1..l + 2 /\ p + i - 1 \in (p + 1)..((p + l + 1) - 1)
OBVIOUS

StopsAt(j) == (At(j) = QuoteMark /\ At(j - 1) # Backslash) \/ At(j) = "\n"

\* What the definition says when the quote is that of JSON.
LEMMA ConstStringIs ==
    ASSUME ConstString, At(ptr) = QuoteMark
    PROVE  LET T == {j \in (ptr + 1)..Len(text) : j = Len(text) \/ StopsAt(j)}
               end == First(T)
               escaped == \E i \in (ptr + 1)..(end - 1) : At(i) = QuoteMark
               kw == IF escaped THEN Unescape(Slice(ptr, end + 1)) ELSE Slice(ptr, end + 1)
           IN  /\ outcome = "running"
               /\ At(end) = QuoteMark =>
                    /\ text' = text /\ mode' = mode /\ outcome' = outcome /\ ptr' = end + 1
                    /\ res' = Append(res, Token(kw, ptr', line'))
<1> DEFINE quote == At(ptr)
           Stop(i) == \/ At(i) = quote /\ At(i - 1) # "\\"
                      \/ At(i) = "\n" /\ quote # "bq"
           U == {j \in (ptr + 1)..Len(text) : j = Len(text) \/ Stop(j)}
           T == {j \in (ptr + 1)..Len(text) : j = Len(text) \/ StopsAt(j)}
<1>1. \A i : Stop(i) <=> StopsAt(i)
  BY QuoteClass DEF StopsAt, Backslash
<1>2. U = T
  BY <1>1
<1> DEFINE end(S) == First(S)
           escaped(S) == \E i \in (ptr + 1)..(end(S) - 1) : At(i) = quote
           kw(S) == IF escaped(S) THEN Unescape(Slice(ptr, end(S) + 1)) ELSE Slice(ptr, end(S) + 1)
<1>3. outcome = "running"
  BY DEF ConstString, Reading
<1>4. At(end(U)) = quote =>
        /\ text' = text /\ mode' = mode /\ outcome' = outcome /\ ptr' = end(U) + 1
        /\ res' = Append(res, Token(kw(U), ptr', line'))
  BY DEF ConstString, Until, Move
<1> HIDE DEF U, T
<1>5. At(end(T)) = quote =>
        /\ text' = text /\ mode' = mode /\ outcome' = outcome /\ ptr' = end(T) + 1
        /\ res' = Append(res, Token(kw(T), ptr', line'))
  BY <1>2, <1>4
<1>6. QED
  BY <1>3, <1>5 DEF T

LEMMA ConstStringReads ==
    ASSUME TextOK, ConstString
    PROVE  \A w, k : Standing(w, k) => Reads(w, k)
<1> SUFFICES ASSUME NEW w, NEW k, Standing(w, k)
             PROVE  Reads(w, k)
  OBVIOUS
<1>1. /\ Len(w) \in Nat /\ At(ptr) = w[1] /\ Lexeme(w, k) /\ ptr + Len(w) \in (ptr + 1)..Len(text) /\ ptr \in Nat
      /\ Len(text) \in Nat
      /\ Slice(ptr, ptr + Len(w)) = w /\ \A i \in 1..Len(w) : At(ptr + i - 1) = w[i]
  BY StandingIs DEF Standing
<1>2. At(ptr) \in const_str_set
  BY DEF ConstString, Reading
<1>3. QuoteLexeme(w, k)
  <2>1. ~NumberLexeme(w, k)
    BY <1>1, <1>2, MinusClass, DigitClass DEF NumberLexeme
  <2>2. ~MarkLexeme(w, k)
    BY <1>1, <1>2, MarkClass DEF MarkLexeme
  <2>3. ~WordLexeme(w, k)
    BY <1>1, <1>2, LetterClass DEF WordLexeme
  <2>4. QED
    BY <1>1, <2>1, <2>2, <2>3, KindsOfLexeme
<1>4. PICK s : Escapable(s) /\ w = Quoted(s) /\ k = InQuotes(s)
  BY <1>3 DEF QuoteLexeme
<1> DEFINE l == Len(Escape(s))
           e == ptr + l + 1
           T == {j \in (ptr + 1)..Len(text) : j = Len(text) \/ StopsAt(j)}
<1>5. /\ l \in Nat /\ Len(w) = l + 2 /\ w[1] = QuoteMark /\ w[l + 2] = QuoteMark
      /\ w[l + 1] # Backslash
      /\ \A i \in 2..l + 1 : w[i] # "\n" /\ (w[i] = QuoteMark => w[i - 1] = Backslash)
      /\ (\A i \in 2..l + 1 : w[i] # QuoteMark) => w = InQuotes(s)
  BY <1>4, QuotedInside
<1>6. Unescape(w) = InQuotes(s)
  BY <1>4, UnescapeQuoted
<1> HIDE DEF l
<1>7. ptr + (l + 2) <= Len(text) /\ ptr + (l + 2) = ptr + Len(w)
  BY <1>1, <1>5
<1>8. /\ e \in (ptr + 1)..Len(text) /\ e \in Nat /\ l + 2 \in 1..l + 2 /\ l + 1 \in 1..l + 2
      /\ ptr + (l + 2) - 1 = e /\ ptr + (l + 1) - 1 = e - 1 /\ e + 1 = ptr + (l + 2)
      /\ \A j \in (ptr + 1)..Len(text) : ~(e <= j) =>
           /\ j - ptr + 1 \in 2..l + 1 /\ j - ptr + 1 \in 1..l + 2 /\ (j - ptr + 1) - 1 \in 1..l + 2
           /\ ptr + (j - ptr + 1) - 1 = j /\ ptr + ((j - ptr + 1) - 1) - 1 = j - 1 /\ j # Len(text)
      /\ \A j \in (ptr + 1)..(e - 1) : j - ptr + 1 \in 2..l + 1 /\ j - ptr + 1 \in 1..l + 2 /\ ptr + (j - ptr + 1) - 1 = j
      /\ \A i \in 2..l + 1 : i \in 1..l + 2 /\ ptr + i - 1 \in (ptr + 1)..(e - 1)
  BY <1>1, <1>5, <1>7, QuoteArithmetic
<1> HIDE DEF e
<1>9. \A i \in 1..l + 2 : At(ptr + i - 1) = w[i]
  BY <1>1, <1>5
<1>10. At(e) = QuoteMark /\ At(e - 1) # Backslash
  BY <1>5, <1>8, <1>9
<1>11. ASSUME NEW j \in (ptr + 1)..Len(text), ~(e <= j)
       PROVE  j # Len(text) /\ ~StopsAt(j)
  <2> DEFINE i == j - ptr + 1
  <2>1. /\ i \in 2..l + 1 /\ i \in 1..l + 2 /\ i - 1 \in 1..l + 2
        /\ ptr + i - 1 = j /\ ptr + (i - 1) - 1 = j - 1 /\ j # Len(text)
    BY <1>8, <1>11
  <2> HIDE DEF i
  <2>2. At(j) = w[i] /\ At(j - 1) = w[i - 1]
    BY <1>9, <2>1
  <2>3. QED
    BY <1>5, <2>1, <2>2 DEF StopsAt
<1>12. First(T) = e
  <2>1. T \in SUBSET Nat /\ e \in T
    BY <1>1, <1>8, <1>10 DEF StopsAt
  <2>2. \A j \in T : e <= j
    BY <1>11
  <2> HIDE DEF T
  <2>3. QED
    BY <2>1, <2>2, FirstMeets
<1> DEFINE escaped(x) == \E i \in (ptr + 1)..(x - 1) : At(i) = QuoteMark
           kw(x) == IF escaped(x) THEN Unescape(Slice(ptr, x + 1)) ELSE Slice(ptr, x + 1)
<1>13. /\ outcome = "running"
       /\ At(First(T)) = QuoteMark =>
            /\ text' = text /\ mode' = mode /\ outcome' = outcome /\ ptr' = First(T) + 1
            /\ res' = Append(res, Token(kw(First(T)), ptr', line'))
  BY <1>1, <1>5, ConstStringIs
<1> HIDE DEF T
<1>14. /\ text' = text /\ mode' = mode /\ outcome' = outcome /\ ptr' = e + 1
       /\ res' = Append(res, Token(kw(e), ptr', line')) /\ outcome = "running"
  BY <1>10, <1>12, <1>13
<1>15. kw(e) = k
  <2>1. Slice(ptr, e + 1) = w
    BY <1>1, <1>7, <1>8
  <2>2. CASE escaped(e)
    BY <1>4, <1>6, <2>1, <2>2
  <2>3. CASE ~escaped(e)
    <3>1. \A i \in 2..l + 1 : w[i] # QuoteMark
      BY <1>8, <1>9, <2>3
    <3>2. QED
      BY <1>4, <1>5, <2>1, <2>3, <3>1
  <2>4. QED
    BY <2>2, <2>3
<1>16. ptr' = ptr + Len(w)
  BY <1>7, <1>8, <1>14
<1> HIDE DEF kw
<1>17. QED
  BY <1>14, <1>15, <1>16 DEF Reads

LEMMA StepReads ==
    ASSUME TextOK, TNext, mode = "json" \/ At(ptr) \notin operator_set
    PROVE  \A w, k : Standing(w, k) => Reads(w, k)
<1>1. CASE Operator
  <2>1. mode = "json"
    BY <1>1 DEF Operator, Reading
  <2>2. QED
    BY <1>1, <2>1, OperatorReads
<1>2. CASE Start
  <2>1. \A w, k : Standing(w, k) => ptr < Len(text) /\ Len(text) \in Nat
    BY StandingIs
  <2>2. ptr = Len(text)
    BY <1>2 DEF Start
  <2>3. QED
    BY <2>1, <2>2
<1>3. QED
  BY <1>1, <1>2, NumberReads, IdentifyReads, ConstStringReads, SingleCharReads, EmptyReads, CommentReads DEF TNext

LEMMA StepSkips ==
    ASSUME TextOK, TNext, mode = "json", ptr < Len(text), text[ptr + 1] \in Spaces
    PROVE  text' = text /\ mode' = mode /\ outcome' = "running" /\ ptr' = ptr + 1 /\ res' = res
<1>1. At(ptr) \in Spaces
  <2>1. ptr \in 0..Len(text) - 1
    BY DEF TextOK
  <2>2. QED
    BY <2>1, AtInText
<1>2. At(ptr) \in empty_set /\ At(ptr) \notin operator_set \cup Digits \cup single_char_set \cup const_str_set
  BY <1>1, BlankClass
<1>3. "-" \in operator_set /\ "/" \in operator_set
  BY DEF operator_set
<1>4. ~Operator /\ ~Number /\ ~SingleChar /\ ~ConstString
  BY <1>2 DEF Operator, Number, SingleChar, ConstString, Reading
<1>5. ~LineComment /\ ~BlockComment
  BY <1>2, <1>3 DEF LineComment, BlockComment, Reading
<1>6. ~Identify
  BY <1>2 DEF Identify
<1>7. ~Start
  BY DEF Start, TextOK
<1>8. Empty
  BY <1>4, <1>5, <1>6, <1>7 DEF TNext
<1>9. mode # "agumi" /\ outcome = "running"
  BY <1>8 DEF Empty, Reading
<1>10. res' = res /\ ptr' = ptr + 1 /\ text' = text /\ mode' = mode /\ outcome' = outcome
  BY <1>8, <1>9 DEF Empty, Move
<1>11. QED
  BY <1>9, <1>10

LEMMA TextAndMode == TNext => text' = text /\ mode' = mode
BY DEF TNext, Operator, Number, LineComment, BlockComment, Identify, Empty, SingleChar, ConstString, Start, Throw, Move

\* So far the tokens are those of the cut.
ReadOff(K, B) ==
    /\ outcome \in {"running", "done"} /\ <<ptr, Len(res)>> \in B /\ Len(res) <= Len(K)
    /\ \A i \in 1..Len(res) : res[i].kw = K[i]
    /\ outcome = "done" => Len(res) = Len(K)
CutInv == mode = "json" /\ outcome # "built" =>
            \A K \in Seq(Keywords) : \A B : Cut(text, K, B) => ReadOff(K, B)

LEMMA AppendedIs ==
    ASSUME NEW C
    PROVE  \A r \in Seq(C) : \A t : \A s : s = Append(r, t) =>
             Len(r) \in Nat /\ Len(s) = Len(r) + 1 /\ s[Len(r) + 1] = t /\ \A i \in 1..Len(r) : s[i] = r[i]
OBVIOUS

LEMMA LastPlace == \A n \in Nat : \A i \in 1..n + 1 : i \in 1..n \/ i = n + 1
OBVIOUS

LEMMA CutStep ==
    ASSUME TextOK, res \in Seq(TokenSet), TNext, mode = "json"
    PROVE  \A K \in Seq(Keywords) : \A B : Cut(text, K, B) /\ ReadOff(K, B) => ReadOff(K, B)'
<1> SUFFICES ASSUME NEW K \in Seq(Keywords), NEW B, Cut(text, K, B), ReadOff(K, B)
             PROVE  ReadOff(K, B)'
  OBVIOUS
<1> DEFINE n == Len(res)
           x == <<ptr, n>>
<1>1. /\ x \in B /\ n <= Len(K) /\ \A i \in 1..n : res[i].kw = K[i]
  BY DEF ReadOff
<1>2. ptr \in Nat /\ Len(text) \in Nat /\ n \in Nat /\ Len(K) \in Nat
  BY DEF TextOK
<1>3. x = <<Len(text), Len(K)>> \/ \E y \in B : Piece(text, K, x, y)
  BY <1>1 DEF Cut
<1>4. x[1] = ptr /\ x[2] = n
  OBVIOUS
<1>5. CASE x = <<Len(text), Len(K)>>
  <2>1. ptr = Len(text) /\ n = Len(K)
    BY <1>4, <1>5
  <2>2. ~(ptr < Len(text))
    BY <1>2, <2>1
  <2>3. Start
    BY <2>2 DEF TNext, Operator, Number, LineComment, BlockComment, Identify, Empty, SingleChar, ConstString, Reading
  <2>4. outcome' = "done" /\ ptr' = ptr /\ res' = res
    BY <2>3 DEF Start
  <2>5. QED
    BY <1>1, <2>1, <2>4 DEF ReadOff
<1>6. ASSUME NEW y \in B, Piece(text, K, x, y)
      PROVE  ReadOff(K, B)'
  <2> HIDE DEF x, n
  <2>1. CASE BlankPiece(text, x, y)
    <3>1. ptr < Len(text) /\ text[ptr + 1] \in Spaces /\ y = <<ptr + 1, n>>
      BY <1>4, <2>1 DEF BlankPiece
    <3>2. outcome' = "running" /\ ptr' = ptr + 1 /\ res' = res
      BY <3>1, StepSkips
    <3>3. <<ptr', Len(res')>> = y
      BY <3>1, <3>2 DEF n
    <3>4. QED
      BY <1>1, <1>6, <3>2, <3>3 DEF ReadOff, n
  <2>2. ASSUME NEW w, TokenPiece(text, K, x, y, w)
        PROVE  ReadOff(K, B)'
    <3>1. /\ n < Len(K) /\ Lexeme(w, K[n + 1]) /\ Here(text, ptr, w)
          /\ w[Len(w)] \in Glue => Free(text, ptr + Len(w))
          /\ y = <<ptr + Len(w), n + 1>>
      BY <1>4, <2>2 DEF TokenPiece
    <3>2. Reads(w, K[n + 1])
      <4>1. Standing(w, K[n + 1])
        BY <3>1 DEF Standing
      <4>2. QED
        BY <4>1, StepReads
    <3>3. PICK p, l : res' = Append(res, Token(K[n + 1], p, l))
      BY <3>2 DEF Reads
    <3>4. outcome' = "running" /\ ptr' = ptr + Len(w)
      BY <3>2 DEF Reads
    <3>5. Len(res') = n + 1 /\ res'[n + 1].kw = K[n + 1] /\ \A i \in 1..n : res'[i] = res[i]
      <4>1. Len(res') = n + 1 /\ res'[n + 1] = Token(K[n + 1], p, l) /\ \A i \in 1..n : res'[i] = res[i]
        BY <3>3, AppendedIs DEF n
      <4>2. QED
        BY <4>1 DEF Token
    <3>6. \A i \in 1..n + 1 : res'[i].kw = K[i]
      BY <1>1, <1>2, <3>5, LastPlace
    <3>7. n + 1 <= Len(K)
      BY <1>2, <3>1
    <3>8. <<ptr', Len(res')>> \in B
      BY <1>6, <3>1, <3>4, <3>5
    <3>9. QED
      BY <3>4, <3>5, <3>6, <3>7, <3>8 DEF ReadOff
  <2>3. QED
    BY <1>6, <2>1, <2>2 DEF Piece
<1>7. QED
  BY <1>3, <1>5, <1>6

LEMMA NextCutInv ==
    ASSUME TextOK, res \in Seq(TokenSet), CutInv, [TNext]_tvars
    PROVE  CutInv'
<1>1. CASE TNext
  <2>1. text' = text /\ mode' = mode /\ outcome # "built"
    BY <1>1, TextAndMode, TokenizerRuns
  <2>2. SUFFICES ASSUME mode = "json", NEW K \in Seq(Keywords), NEW B, Cut(text, K, B)
                 PROVE  ReadOff(K, B)'
    BY <2>1 DEF CutInv
  <2>3. ReadOff(K, B)
    BY <2>1, <2>2 DEF CutInv
  <2>4. QED
    BY <1>1, <2>2, <2>3, CutStep
<1>2. CASE UNCHANGED tvars
  BY <1>2 DEF tvars, CutInv, ReadOff
<1>3. QED
  BY <1>1, <1>2

\* A text that is one quoted text is read as one token, in scripts too.
QuoteInv ==
    \A s : Escapable(s) /\ text = Quoted(s) /\ outcome # "built" =>
      \/ outcome = "running" /\ ptr = 0 /\ res = <<>>
      \/ outcome \in {"running", "done"} /\ ptr = Len(text) /\ Len(res) = 1 /\ res[1].kw = InQuotes(s)

LEMMA NextQuoteInv ==
    ASSUME TextOK, res \in Seq(TokenSet), QuoteInv, [TNext]_tvars
    PROVE  QuoteInv'
<1>1. CASE TNext
  <2>1. text' = text /\ mode' = mode /\ outcome = "running"
    BY <1>1, TextAndMode, TokenizerRuns
  <2>2. SUFFICES ASSUME NEW s, Escapable(s), text = Quoted(s)
                 PROVE  \/ outcome' = "running" /\ ptr' = 0 /\ res' = <<>>
                        \/ outcome' \in {"running", "done"} /\ ptr' = Len(text) /\ Len(res') = 1 /\ res'[1].kw = InQuotes(s)
    BY <2>1 DEF QuoteInv
  <2> DEFINE w == Quoted(s)
             k == InQuotes(s)
  <2>3. ptr \in Nat /\ Len(text) \in Nat
    BY DEF TextOK
  <2>4. \/ ptr = 0 /\ res = <<>>
        \/ ptr = Len(text) /\ Len(res) = 1 /\ res[1].kw = k
    BY <2>1, <2>2 DEF QuoteInv
  <2>5. CASE ptr = 0 /\ res = <<>>
    <3>1. Lexeme(w, k)
      BY <2>2 DEF Lexeme
    <3>2. Here(text, ptr, w) /\ Free(text, ptr + Len(w)) /\ ptr + Len(w) = Len(text)
      <4>1. Len(w) = Len(text) /\ 0 + Len(w) = Len(text) /\ \A i \in 1..Len(w) : 0 + i = i
        BY <2>2, <2>3
      <4> HIDE DEF w
      <4>2. QED
        BY <2>2, <2>3, <2>5, <4>1 DEF Here, Free, w
    <3>3. Standing(w, k)
      BY <3>1, <3>2 DEF Standing
    <3>4. At(ptr) \notin operator_set
      <4>1. At(ptr) = w[1] /\ w[1] = QuoteMark
        BY <2>2, <3>3, StandingIs, QuotedInside
      <4>2. QED
        BY <4>1, QuoteClass
    <3> HIDE DEF w, k
    <3>5. Reads(w, k)
      BY <1>1, <3>3, <3>4, StepReads
    <3>6. PICK p, l : res' = Append(res, Token(k, p, l))
      BY <3>5 DEF Reads
    <3>7. outcome' = "running" /\ ptr' = Len(text)
      BY <3>2, <3>5 DEF Reads
    <3>8. Len(res') = 1 /\ res'[1].kw = k
      <4>1. res' = <<Token(k, p, l)>>
        BY <2>5, <3>6
      <4>2. Len(res') = 1 /\ res'[1] = Token(k, p, l)
        BY <4>1
      <4>3. QED
        BY <4>2 DEF Token
    <3>9. QED
      BY <3>7, <3>8 DEF k
  <2>6. CASE ptr = Len(text) /\ Len(res) = 1 /\ res[1].kw = k
    <3>1. ~(ptr < Len(text))
      BY <2>3, <2>6
    <3>2. Start
      BY <1>1, <3>1 DEF TNext, Operator, Number, LineComment, BlockComment, Identify, Empty, SingleChar, ConstString, Reading
    <3>3. outcome' = "done" /\ ptr' = ptr /\ res' = res
      BY <3>2 DEF Start
    <3>4. QED
      BY <2>6, <3>3
  <2>7. QED
    BY <2>4, <2>5, <2>6
<1>2. CASE UNCHANGED tvars
  BY <1>2 DEF tvars, QuoteInv
<1>3. QED
  BY <1>1, <1>2

-----------------------------------------------------------------------------
(* What the descent makes of tokens that are written.                        *)

\* The value that begins at one token and ends at another.
ValueIs(i, j, tr) == j \in G("value", i) /\ Resolve[<<"value", i, 0>>] = Result(tr, j)

LEMMA LastElement ==
    ASSUME TokensOK, NEW i \in 1..Len(res) + 1, NEW e \in 1..Len(res), NEW v, NEW tr,
           ValueIs(i, v, tr), v + 1 = e
    PROVE  Resolve[<<"array", i, e>>] = Result(Tree("array", <<>>, <<tr>>, <<>>), e)
<1>1. <<"array", i, e>> \in Calls /\ Len(res) \in Nat
  BY KwIs, CallIs
<1>2. Resolve[<<"array", i, e>>] = ResolveArray(Resolve, i, e)
  BY <1>1, ResolveIs DEF StepOf
<1>3. v \in i..Len(res)
  BY GrammarSpans DEF ValueIs
<1>4. v > 0
  BY <1>1, <1>3
<1>5. ResolveArray(Resolve, i, e) = Result(Tree("array", <<>>, <<tr>>, <<>>), e)
  <2> DEFINE x == Resolve[<<"value", i, 0>>]
  <2>1. x.at = v /\ x.tree = tr
    BY DEF ValueIs, Result
  <2>2. ~(v <= 0)
    BY <1>3, <1>4
  <2>3. ~(x.at <= 0) /\ x.at + 1 = e
    BY <2>1, <2>2
  <2>4. QED
    BY <2>1, <2>3 DEF ResolveArray
<1>6. QED
  BY <1>2, <1>5

LEMMA MoreElements ==
    ASSUME TokensOK, NEW i \in 1..Len(res) + 1, NEW e \in 1..Len(res), NEW v, NEW tr, NEW arr,
           ValueIs(i, v, tr), v + 1 # e, Comma(v + 1),
           Resolve[<<"array", v + 2, e>>] = Result(Tree("array", <<>>, arr, <<>>), e)
    PROVE  Resolve[<<"array", i, e>>] = Result(Tree("array", <<>>, <<tr>> \o arr, <<>>), e)
<1>1. <<"array", i, e>> \in Calls /\ Len(res) \in Nat
  BY KwIs, CallIs
<1>2. Resolve[<<"array", i, e>>] = ResolveArray(Resolve, i, e)
  BY <1>1, ResolveIs DEF StepOf
<1>3. v \in i..Len(res)
  BY GrammarSpans DEF ValueIs
<1>4. ~(v <= 0) /\ ~(e <= 0)
  BY <1>1, <1>3
<1>5. ResolveArray(Resolve, i, e) = Result(Tree("array", <<>>, <<tr>> \o arr, <<>>), e)
  <2> DEFINE x == Resolve[<<"value", i, 0>>]
             rest == Resolve[<<"array", v + 2, e>>]
  <2>1. x.at = v /\ x.tree = tr
    BY DEF ValueIs, Result
  <2>2. rest.at = e /\ rest.tree.arr = arr
    BY DEF Result, Tree
  <2>3. Kw(x.at + 1) = <<",">> /\ x.at + 1 # e
    BY <2>1 DEF Comma
  <2>4. ~(x.at <= 0) /\ ~(rest.at <= 0) /\ rest = Resolve[<<"array", x.at + 2, e>>]
    BY <1>4, <2>1, <2>2
  <2> HIDE DEF rest
  <2>5. QED
    BY <2>1, <2>2, <2>3, <2>4 DEF ResolveArray
<1>6. QED
  BY <1>2, <1>5

\* A member and those behind it, which win.
MembersOf(o, key, tr) == [k \in DOMAIN o \cup {key} |-> IF k \in DOMAIN o THEN o[k] ELSE tr]

LEMMA LastMember ==
    ASSUME TokensOK, NEW i \in 1..Len(res) + 1, NEW e \in 1..Len(res), NEW v, NEW tr,
           Keyed("object", i), ValueIs(i + 2, v, tr), v + 1 = e
    PROVE  Resolve[<<"object", i, e>>] =
             Result(Tree("object", <<>>, <<>>, MembersOf(<<>>, toStringContent(Kw(i)), tr)), e)
<1>1. <<"object", i, e>> \in Calls /\ Len(res) \in Nat
  BY KwIs, CallIs
<1>2. Resolve[<<"object", i, e>>] = ResolveObject(Resolve, i, e)
  BY <1>1, ResolveIs DEF StepOf
<1>0. i + 2 \in 1..Len(res) + 1
  BY <1>1, FromIs DEF Lists, From
<1>3. v \in i + 2..Len(res)
  BY <1>0, GrammarSpans DEF ValueIs
<1>4. ~(v <= 0)
  BY <1>1, <1>0, <1>3
<1>5. ResolveObject(Resolve, i, e) = Result(Tree("object", <<>>, <<>>, MembersOf(<<>>, toStringContent(Kw(i)), tr)), e)
  <2> DEFINE x == Resolve[<<"value", i + 2, 0>>]
  <2>1. x.at = v /\ x.tree = tr
    BY DEF ValueIs, Result
  <2>2. ~(x.at <= 0) /\ x.at + 1 = e
    BY <1>4, <2>1
  <2>3. IsStringLiteral(Kw(i)) /\ Kw(i + 1) = <<":">>
    BY DEF Keyed
  <2>4. QED
    BY <2>1, <2>2, <2>3 DEF ResolveObject, MembersOf
<1>6. QED
  BY <1>2, <1>5

LEMMA MoreMembers ==
    ASSUME TokensOK, NEW i \in 1..Len(res) + 1, NEW e \in 1..Len(res), NEW v, NEW tr, NEW obj,
           Keyed("object", i), ValueIs(i + 2, v, tr), v + 1 # e, Comma(v + 1),
           Resolve[<<"object", v + 2, e>>] = Result(Tree("object", <<>>, <<>>, obj), e)
    PROVE  Resolve[<<"object", i, e>>] =
             Result(Tree("object", <<>>, <<>>, MembersOf(obj, toStringContent(Kw(i)), tr)), e)
<1>1. <<"object", i, e>> \in Calls /\ Len(res) \in Nat
  BY KwIs, CallIs
<1>2. Resolve[<<"object", i, e>>] = ResolveObject(Resolve, i, e)
  BY <1>1, ResolveIs DEF StepOf
<1>0. i + 2 \in 1..Len(res) + 1
  BY <1>1, FromIs DEF Lists, From
<1>3. v \in i + 2..Len(res)
  BY <1>0, GrammarSpans DEF ValueIs
<1>4. ~(v <= 0) /\ ~(e <= 0)
  BY <1>1, <1>0, <1>3
<1>5. ResolveObject(Resolve, i, e) = Result(Tree("object", <<>>, <<>>, MembersOf(obj, toStringContent(Kw(i)), tr)), e)
  <2> DEFINE x == Resolve[<<"value", i + 2, 0>>]
             rest == Resolve[<<"object", v + 2, e>>]
  <2>1. x.at = v /\ x.tree = tr
    BY DEF ValueIs, Result
  <2>2. rest.at = e /\ rest.tree.obj = obj
    BY DEF Result, Tree
  <2>3. Kw(x.at + 1) = <<",">> /\ x.at + 1 # e /\ IsStringLiteral(Kw(i)) /\ Kw(i + 1) = <<":">>
    BY <2>1 DEF Comma, Keyed
  <2>4. ~(x.at <= 0) /\ ~(rest.at <= 0) /\ rest = Resolve[<<"object", x.at + 2, e>>]
    BY <1>4, <2>1, <2>2
  <2> HIDE DEF rest
  <2>5. QED
    BY <2>1, <2>2, <2>3, <2>4 DEF ResolveObject, MembersOf
<1>6. QED
  BY <1>2, <1>5

\* An array or an object ends at the bracket that the grammar gives it.
LEMMA EnclosedReads ==
    ASSUME TokensOK, NEW i \in 1..Len(res), NEW e \in i + 1..Len(res), NEW tr,
           Kw(i) \in Opening, Kw(e) = CloseOf(Kw(i)),
           \/ e = i + 1 /\ tr = Leaf(KindOfList(Kw(i)), <<>>)
           \/ /\ e # i + 1 /\ e - 1 \in G(KindOfList(Kw(i)), i + 1)
              /\ Resolve[<<KindOfList(Kw(i)), i + 1, e>>] = Result(tr, e)
    PROVE  ValueIs(i, e, tr)
<1>1. Len(res) \in Nat /\ i \in 1..Len(res) + 1 /\ e \in i..Len(res) /\ i <= Len(res) /\ ~(i > Len(res)) /\ ~(e <= 0) /\ e > 0 /\ 0 \in 0..Len(res)
  BY KwIs
<1>2. e \in G("value", i)
  BY <1>1, GrammarValue
<1>3. <<"value", i, 0>> \in Calls
  BY <1>1, CallIs
<1>4. VAt(i) = e
  BY <1>2, <1>3, AllComplete DEF Complete
<1>5. VAt(i) = IF End(i) <= 0 \/ End(i) = i + 1 THEN End(i) ELSE LAt(KindOfList(Kw(i)), i + 1, End(i))
  BY <1>1, ValueAt
<1>6. End(i) = e
  <2>1. End(i) = Overrun \/ End(i) \in i + 1..Len(res)
    BY EndIs
  <2>2. CASE End(i) = Overrun
    <3>1. End(i) <= 0
      BY <2>2 DEF Overrun
    <3>2. QED
      BY <1>1, <1>4, <1>5, <3>1
  <2>3. CASE End(i) \in i + 1..Len(res)
    <3>1. CASE End(i) = i + 1
      BY <1>4, <1>5, <3>1
    <3>2. CASE End(i) # i + 1
      <4>1. ~(End(i) <= 0) /\ i + 1 \in 1..Len(res) + 1 /\ End(i) \in 0..Len(res)
        BY <1>1, <2>3
      <4>2. LAt(KindOfList(Kw(i)), i + 1, End(i)) = e
        BY <1>4, <1>5, <3>2, <4>1
      <4>3. KindOfList(Kw(i)) \in Lists
        BY DEF KindOfList, Lists
      <4>4. QED
        BY <1>1, <4>1, <4>2, <4>3, ListAt
    <3>3. QED
      BY <3>1, <3>2
  <2>4. QED
    BY <2>1, <2>2, <2>3
<1>7. Resolve[<<"value", i, 0>>] = ResolveValue(Resolve, i)
  BY <1>3, ResolveIs DEF StepOf
<1>8. ClosingBracket(Brackets, i) = e /\ Kw(i) \in {<<"[">>, <<"{">>}
  BY <1>6 DEF End, Opening
<1>9. Resolve[<<"value", i, 0>>] = IF e = i + 1 THEN Result(Leaf(KindOfList(Kw(i)), <<>>), e)
                                   ELSE Resolve[<<KindOfList(Kw(i)), i + 1, e>>]
  BY <1>1, <1>7, <1>8 DEF ResolveValue, KindOfList
<1>10. QED
  BY <1>2, <1>9 DEF ValueIs

\* A value that is one token.
LEMMA ScalarReads ==
    ASSUME TokensOK, NEW i \in 1..Len(res), IsScalar(Kw(i))
    PROVE  ValueIs(i, i, Scalar(Kw(i)))
<1>1. Len(res) \in Nat /\ i \in 1..Len(res) + 1 /\ i \in i..Len(res) /\ ~(i > Len(res)) /\ 0 \in 0..Len(res)
  BY KwIs
<1>2. i \in G("value", i)
  BY <1>1, GrammarValue
<1>3. Kw(i) \notin {<<"[">>, <<"{">>}
  BY NoBrackets
<1>4. Scalar(Kw(i)).t # "none"
  BY ScalarIs
<1>5. <<"value", i, 0>> \in Calls
  BY <1>1, CallIs
<1>6. Resolve[<<"value", i, 0>>] = ResolveValue(Resolve, i)
  BY <1>5, ResolveIs DEF StepOf
<1>7. ResolveValue(Resolve, i) = Result(Scalar(Kw(i)), i)
  BY <1>1, <1>3, <1>4 DEF ResolveValue
<1>8. QED
  BY <1>2, <1>6, <1>7 DEF ValueIs

\* The elements of an array or the members of an object: where each begins, where
\* its value ends, and what it is.
ElementsAre(kind, n, e, S, V, tr) ==
    /\ n \in Nat /\ n >= 1 /\ e \in 1..Len(res) /\ ~Comma(e)
    /\ \A m \in 1..n : S[m] \in 1..Len(res) + 1 /\ Keyed(kind, S[m]) /\ ValueIs(From(kind, S[m]), V[m], tr[m])
    /\ \A m \in 1..n : m # n => Comma(V[m] + 1) /\ S[m + 1] = V[m] + 2
    /\ V[n] + 1 = e

LEMMA ElementIs ==
    ASSUME TokensOK, NEW kind \in Lists, NEW n, NEW e, NEW S, NEW V, NEW tr, ElementsAre(kind, n, e, S, V, tr)
    PROVE  /\ Len(res) \in Nat /\ n \in 1..n /\ \A m \in 1..n : m # 1 => m - 1 \in 1..n /\ m - 1 # n
           /\ \A m \in 1..n : From(kind, S[m]) \in 1..Len(res) + 1 /\ V[m] \in From(kind, S[m])..Len(res)
           /\ \A m \in 1..n : m # 1 => V[m - 1] + 1 # e /\ Comma(V[m - 1] + 1) /\ S[m] = V[m - 1] + 2
<1>1. /\ n \in Nat /\ n >= 1 /\ e \in 1..Len(res) /\ ~Comma(e)
      /\ \A m \in 1..n : S[m] \in 1..Len(res) + 1 /\ Keyed(kind, S[m]) /\ ValueIs(From(kind, S[m]), V[m], tr[m])
      /\ \A m \in 1..n : m # n => Comma(V[m] + 1) /\ S[m + 1] = V[m] + 2
  BY DEF ElementsAre
<1>2. Len(res) \in Nat
  BY KwIs
<1>3. n \in 1..n /\ \A m \in 1..n : m # 1 => m - 1 \in 1..n /\ m - 1 # n /\ (m - 1) + 1 = m
  BY <1>1
<1>4. ASSUME NEW m \in 1..n
      PROVE  From(kind, S[m]) \in 1..Len(res) + 1 /\ V[m] \in From(kind, S[m])..Len(res)
  <2>1. S[m] \in 1..Len(res) + 1 /\ Keyed(kind, S[m]) /\ ValueIs(From(kind, S[m]), V[m], tr[m])
    BY <1>1
  <2>2. From(kind, S[m]) \in S[m]..Len(res) + 1
    BY <2>1, FromIs
  <2>3. From(kind, S[m]) \in 1..Len(res) + 1
    BY <1>2, <2>1, <2>2
  <2>4. QED
    BY <2>1, <2>3, GrammarSpans DEF ValueIs
<1>5. ASSUME NEW m \in 1..n, m # 1
      PROVE  V[m - 1] + 1 # e /\ Comma(V[m - 1] + 1) /\ S[m] = V[m - 1] + 2
  BY <1>1, <1>3, <1>5
<1>6. QED
  BY <1>2, <1>3, <1>4, <1>5

LEMMA ElementsDerive ==
    ASSUME TokensOK, NEW kind \in Lists, NEW n, NEW e, NEW S, NEW V, NEW tr, ElementsAre(kind, n, e, S, V, tr)
    PROVE  e - 1 \in G(kind, S[1])
<1> DEFINE T == {m \in 0..n : m = 0 \/ e - 1 \in G(kind, S[m])}
<1>1. /\ Len(res) \in Nat /\ n \in 1..n /\ \A m \in 1..n : m # 1 => m - 1 \in 1..n /\ m - 1 # n
      /\ \A m \in 1..n : From(kind, S[m]) \in 1..Len(res) + 1 /\ V[m] \in From(kind, S[m])..Len(res)
      /\ \A m \in 1..n : m # 1 => V[m - 1] + 1 # e /\ Comma(V[m - 1] + 1) /\ S[m] = V[m - 1] + 2
  BY ElementIs
<1>2. /\ n \in Nat /\ e \in 1..Len(res)
      /\ \A m \in 1..n : S[m] \in 1..Len(res) + 1 /\ Keyed(kind, S[m]) /\ V[m] \in G("value", From(kind, S[m]))
      /\ V[n] + 1 = e
  BY DEF ElementsAre, ValueIs
<1>3. n \in T
  <2>1. V[n] = e - 1
    <3>1. From(kind, S[n]) \in 1..Len(res) + 1 /\ V[n] \in From(kind, S[n])..Len(res) /\ V[n] + 1 = e
      BY <1>1, <1>2
    <3>2. \A l \in Nat : \A a \in 1..l + 1 : \A v \in a..l : \A d : v + 1 = d => v = d - 1
      OBVIOUS
    <3>3. QED
      BY <1>1, <3>1, <3>2
  <2>2. e - 1 \in G(kind, S[n])
    BY <1>1, <1>2, <2>1, GrammarList
  <2>3. n \in 0..n
    BY <1>2
  <2>4. QED
    BY <2>2, <2>3
<1>4. ASSUME NEW m \in 1..n, m \in T
      PROVE  m - 1 \in T
  <2>1. CASE m = 1
    <3>1. m - 1 = 0 /\ 0 \in 0..n
      BY <1>2, <2>1
    <3>2. QED
      BY <3>1
  <2>2. CASE m # 1
    <3>1. m - 1 \in 1..n /\ m - 1 \in 0..n /\ m # 0
      BY <1>1, <1>2, <2>2
    <3>2. e - 1 \in G(kind, V[m - 1] + 2)
      <4>1. e - 1 \in G(kind, S[m])
        BY <1>4, <3>1
      <4>2. QED
        BY <1>1, <2>2, <4>1
    <3>3. /\ V[m - 1] \in From(kind, S[m - 1])..Len(res) /\ V[m - 1] \in G("value", From(kind, S[m - 1]))
          /\ Comma(V[m - 1] + 1) /\ Keyed(kind, S[m - 1]) /\ S[m - 1] \in 1..Len(res) + 1
      BY <1>1, <1>2, <2>2, <3>1
    <3>4. e - 1 \in G(kind, S[m - 1])
      BY <3>2, <3>3, GrammarList
    <3>5. QED
      BY <3>1, <3>4
  <2>3. QED
    BY <2>1, <2>2
<1> HIDE DEF T
<1>5. \A m \in 0..n : m \in T
  BY <1>2, <1>3, <1>4, Downward
<1>6. 1 \in 0..n
  BY <1>1, <1>2
<1>7. 1 \in T
  BY <1>5, <1>6
<1>8. QED
  BY <1>7 DEF T

LEMMA ConsIs ==
    ASSUME NEW C
    PROVE  \A n \in Nat : \A s \in [1..n -> C] : \A t \in [1..n + 1 -> C] :
             (\A j \in 1..n : t[j + 1] = s[j]) => <<t[1]>> \o s = t
<1> SUFFICES ASSUME NEW n \in Nat, NEW s \in [1..n -> C], NEW t \in [1..n + 1 -> C], \A j \in 1..n : t[j + 1] = s[j]
             PROVE  <<t[1]>> \o s = t
  OBVIOUS
<1>1. t[1] \in C /\ <<t[1]>> \in Seq(C) /\ Len(<<t[1]>>) = 1
  OBVIOUS
<1>2. s \in Seq(C) /\ Len(s) = n /\ t \in Seq(C) /\ Len(t) = n + 1
  OBVIOUS
<1> DEFINE u == <<t[1]>> \o s
<1>3. u \in Seq(C) /\ Len(u) = n + 1 /\ u[1] = t[1] /\ \A j \in 1..n : u[j + 1] = s[j]
  BY <1>1, <1>2
<1>4. ASSUME NEW p \in 1..n + 1
      PROVE  u[p] = t[p]
  <2>1. CASE p = 1
    BY <1>3, <2>1
  <2>2. CASE p # 1
    <3>1. p - 1 \in 1..n /\ (p - 1) + 1 = p
      BY <2>2
    <3> HIDE DEF u
    <3>2. QED
      BY <1>3, <3>1
  <2>3. QED
    BY <2>1, <2>2
<1> HIDE DEF u
<1>5. u = t
  BY <1>2, <1>3, <1>4, SameSequence
<1>6. QED
  BY <1>5 DEF u

Rest(tr, m, n) == [j \in 1..n - m + 1 |-> tr[m + j - 1]]

LEMMA RestGrows ==
    \A n \in Nat : \A tr : \A m \in 2..n : <<tr[m - 1]>> \o Rest(tr, m, n) = Rest(tr, m - 1, n)
<1> SUFFICES ASSUME NEW n \in Nat, NEW tr, NEW m \in 2..n
             PROVE  <<tr[m - 1]>> \o Rest(tr, m, n) = Rest(tr, m - 1, n)
  OBVIOUS
<1> DEFINE C == {tr[j] : j \in 1..n}
           l == n - m + 1
           s == Rest(tr, m, n)
           t == Rest(tr, m - 1, n)
<1>1. l \in Nat /\ n - (m - 1) + 1 = l + 1 /\ \A j \in 1..l : m + j - 1 \in 1..n /\ j + 1 \in 1..l + 1 /\ (m - 1) + (j + 1) - 1 = m + j - 1
  OBVIOUS
<1>2. \A j \in 1..l + 1 : (m - 1) + j - 1 \in 1..n
  OBVIOUS
<1>3. 1 \in 1..l + 1 /\ (m - 1) + 1 - 1 = m - 1
  BY <1>1
<1>4. \A j \in 1..l : tr[m + j - 1] \in C
  BY <1>1
<1>5. \A j \in 1..l + 1 : tr[(m - 1) + j - 1] \in C
  BY <1>2
<1>6. s = [j \in 1..l |-> tr[m + j - 1]] /\ t = [j \in 1..l + 1 |-> tr[(m - 1) + j - 1]]
  BY <1>1 DEF Rest
<1> HIDE DEF s, t, l, C
<1>7. s \in [1..l -> C] /\ t \in [1..l + 1 -> C]
  BY <1>4, <1>5, <1>6
<1>8. t[1] = tr[m - 1]
  BY <1>3, <1>6
<1>9. \A j \in 1..l : t[j + 1] = s[j]
  <2>1. ASSUME NEW j \in 1..l
        PROVE  t[j + 1] = s[j]
    <3>1. t[j + 1] = tr[(m - 1) + (j + 1) - 1] /\ s[j] = tr[m + j - 1]
      BY <1>1, <1>6
    <3>2. QED
      BY <1>1, <3>1
  <2>2. QED
    BY <2>1
<1>10. <<t[1]>> \o s = t
  BY <1>1, <1>7, <1>9, ConsIs
<1>11. QED
  BY <1>8, <1>10 DEF s, t

LEMMA RestLast == \A n \in Nat : \A tr : n >= 1 => Rest(tr, n, n) = <<tr[n]>> /\ Rest(tr, 1, n) = [j \in 1..n |-> tr[j]]
<1> SUFFICES ASSUME NEW n \in Nat, NEW tr, n >= 1
             PROVE  Rest(tr, n, n) = <<tr[n]>> /\ Rest(tr, 1, n) = [j \in 1..n |-> tr[j]]
  OBVIOUS
<1>1. n - n + 1 = 1 /\ n + 1 - 1 = n /\ n - 1 + 1 = n /\ \A j \in 1..n : 1 + j - 1 = j
  OBVIOUS
<1>2. Rest(tr, 1, n) = [j \in 1..n |-> tr[j]]
  BY <1>1 DEF Rest
<1>3. Rest(tr, n, n) = [j \in 1..1 |-> tr[n]]
  <2>1. \A j \in 1..1 : n + j - 1 = n
    OBVIOUS
  <2>2. QED
    BY <1>1, <2>1 DEF Rest
<1>4. [j \in 1..1 |-> tr[n]] = <<tr[n]>>
  OBVIOUS
<1>5. QED
  BY <1>2, <1>3, <1>4

LEMMA ArrayIs ==
    ASSUME TokensOK, NEW n, NEW e, NEW S, NEW V, NEW tr, ElementsAre("array", n, e, S, V, tr)
    PROVE  Resolve[<<"array", S[1], e>>] = Result(Tree("array", <<>>, [j \in 1..n |-> tr[j]], <<>>), e)
<1> DEFINE Read_(m) == Resolve[<<"array", S[m], e>>] = Result(Tree("array", <<>>, Rest(tr, m, n), <<>>), e)
           T == {m \in 0..n : m = 0 \/ Read_(m)}
<1>0. "array" \in Lists /\ \A i : From("array", i) = i
  BY DEF Lists, From
<1>1. /\ Len(res) \in Nat /\ n \in 1..n /\ \A m \in 1..n : m # 1 => m - 1 \in 1..n /\ m - 1 # n
      /\ \A m \in 1..n : m # 1 => V[m - 1] + 1 # e /\ Comma(V[m - 1] + 1) /\ S[m] = V[m - 1] + 2
  BY <1>0, ElementIs
<1>2. /\ n \in Nat /\ n >= 1 /\ e \in 1..Len(res)
      /\ \A m \in 1..n : S[m] \in 1..Len(res) + 1 /\ ValueIs(S[m], V[m], tr[m])
      /\ V[n] + 1 = e
  BY <1>0 DEF ElementsAre
<1>3. n \in T
  <2>1. Read_(n)
    <3>1. Resolve[<<"array", S[n], e>>] = Result(Tree("array", <<>>, <<tr[n]>>, <<>>), e)
      BY <1>1, <1>2, LastElement
    <3>2. Rest(tr, n, n) = <<tr[n]>>
      BY <1>2, RestLast
    <3>3. QED
      BY <3>1, <3>2
  <2>2. n \in 0..n
    BY <1>2
  <2>3. QED
    BY <2>1, <2>2
<1>4. ASSUME NEW m \in 1..n, m \in T
      PROVE  m - 1 \in T
  <2>1. CASE m = 1
    <3>1. m - 1 = 0 /\ 0 \in 0..n
      BY <1>2, <2>1
    <3>2. QED
      BY <3>1
  <2>2. CASE m # 1
    <3>1. m - 1 \in 1..n /\ m - 1 \in 0..n /\ m # 0 /\ m \in 2..n
      BY <1>1, <1>2, <2>2
    <3>2. Read_(m)
      BY <1>4, <3>1
    <3>3. Read_(m - 1)
      <4>1. S[m - 1] \in 1..Len(res) + 1 /\ ValueIs(S[m - 1], V[m - 1], tr[m - 1])
        BY <1>2, <3>1
      <4>2. V[m - 1] + 1 # e /\ Comma(V[m - 1] + 1) /\ S[m] = V[m - 1] + 2
        BY <1>1, <2>2
      <4>3. Resolve[<<"array", S[m - 1], e>>] = Result(Tree("array", <<>>, <<tr[m - 1]>> \o Rest(tr, m, n), <<>>), e)
        BY <1>2, <3>2, <4>1, <4>2, MoreElements
      <4>4. QED
        BY <1>2, <3>1, <4>3, RestGrows
    <3>4. QED
      BY <3>1, <3>3
  <2>3. QED
    BY <2>1, <2>2
<1> HIDE DEF T
<1>5. \A m \in 0..n : m \in T
  BY <1>2, <1>3, <1>4, Downward
<1>6. 1 \in 0..n
  BY <1>2
<1>7. 1 \in T
  BY <1>5, <1>6
<1>8. Read_(1)
  BY <1>7 DEF T
<1>9. QED
  BY <1>2, <1>8, RestLast

\* The object of so many keys.
ObjectTree(key, n, f) == Tree("object", <<>>, <<>>, [k \in {key[j] : j \in 1..n} |-> f[k]])

LEMMA ObjectIs ==
    ASSUME TokensOK, NEW n, NEW e, NEW S, NEW V, NEW tr, ElementsAre("object", n, e, S, V, tr),
           NEW key, NEW f, \A m \in 1..n : key[m] = toStringContent(Kw(S[m])) /\ tr[m] = f[key[m]]
    PROVE  Resolve[<<"object", S[1], e>>] = Result(ObjectTree(key, n, f), e)
<1> DEFINE Obj(m) == [k \in {key[j] : j \in m..n} |-> f[k]]
           Read_(m) == Resolve[<<"object", S[m], e>>] = Result(Tree("object", <<>>, <<>>, Obj(m)), e)
           T == {m \in 0..n : m = 0 \/ Read_(m)}
<1>0. "object" \in Lists /\ \A i : From("object", i) = i + 2
  BY DEF Lists, From
<1>1. /\ Len(res) \in Nat /\ n \in 1..n /\ \A m \in 1..n : m # 1 => m - 1 \in 1..n /\ m - 1 # n
      /\ \A m \in 1..n : m # 1 => V[m - 1] + 1 # e /\ Comma(V[m - 1] + 1) /\ S[m] = V[m - 1] + 2
  BY <1>0, ElementIs
<1>2. /\ n \in Nat /\ n >= 1 /\ e \in 1..Len(res)
      /\ \A m \in 1..n : S[m] \in 1..Len(res) + 1 /\ Keyed("object", S[m]) /\ ValueIs(S[m] + 2, V[m], tr[m])
      /\ V[n] + 1 = e
  BY <1>0 DEF ElementsAre
<1>3. n \in T
  <2>1. Resolve[<<"object", S[n], e>>] = Result(Tree("object", <<>>, <<>>, MembersOf(<<>>, toStringContent(Kw(S[n])), tr[n])), e)
    BY <1>1, <1>2, LastMember
  <2>2. MembersOf(<<>>, key[n], tr[n]) = Obj(n)
    <3>1. DOMAIN <<>> = {}
      OBVIOUS
    <3>2. {key[j] : j \in n..n} = {key[n]}
      BY <1>2
    <3>3. tr[n] = f[key[n]]
      BY <1>1
    <3>4. QED
      BY <3>1, <3>2, <3>3 DEF MembersOf
  <2>3. key[n] = toStringContent(Kw(S[n]))
    BY <1>1
  <2>4. Read_(n)
    BY <2>1, <2>2, <2>3
  <2>5. n \in 0..n
    BY <1>2
  <2>6. QED
    BY <2>4, <2>5
<1>4. ASSUME NEW m \in 1..n, m \in T
      PROVE  m - 1 \in T
  <2>1. CASE m = 1
    <3>1. m - 1 = 0 /\ 0 \in 0..n
      BY <1>2, <2>1
    <3>2. QED
      BY <3>1
  <2>2. CASE m # 1
    <3>1. m - 1 \in 1..n /\ m - 1 \in 0..n /\ m # 0 /\ m \in 2..n
      BY <1>1, <1>2, <2>2
    <3>2. Read_(m)
      BY <1>4, <3>1
    <3>3. Read_(m - 1)
      <4>1. S[m - 1] \in 1..Len(res) + 1 /\ Keyed("object", S[m - 1]) /\ ValueIs(S[m - 1] + 2, V[m - 1], tr[m - 1])
        BY <1>2, <3>1
      <4>2. V[m - 1] + 1 # e /\ Comma(V[m - 1] + 1) /\ S[m] = V[m - 1] + 2
        BY <1>1, <2>2
      <4>3. Resolve[<<"object", S[m - 1], e>>] =
              Result(Tree("object", <<>>, <<>>, MembersOf(Obj(m), toStringContent(Kw(S[m - 1])), tr[m - 1])), e)
        <5> DEFINE o == Obj(m)
        <5>1. Resolve[<<"object", V[m - 1] + 2, e>>] = Result(Tree("object", <<>>, <<>>, o), e)
          BY <3>2, <4>2
        <5> HIDE DEF o
        <5>2. Resolve[<<"object", S[m - 1], e>>] =
                Result(Tree("object", <<>>, <<>>, MembersOf(o, toStringContent(Kw(S[m - 1])), tr[m - 1])), e)
          BY <1>2, <4>1, <4>2, <5>1, MoreMembers
        <5>3. QED
          BY <5>2 DEF o
      <4>4. key[m - 1] = toStringContent(Kw(S[m - 1])) /\ tr[m - 1] = f[key[m - 1]]
        BY <3>1
      <4>5. MembersOf(Obj(m), key[m - 1], tr[m - 1]) = Obj(m - 1)
        <5>1. {key[j] : j \in m..n} \cup {key[m - 1]} = {key[j] : j \in m - 1..n}
          <6>1. \A j : j \in m - 1..n <=> j \in m..n \/ j = m - 1
            BY <1>2, <3>1
          <6>2. QED
            BY <6>1
        <5>2. QED
          BY <4>4, <5>1 DEF MembersOf
      <4>6. QED
        BY <4>3, <4>4, <4>5
    <3>4. QED
      BY <3>1, <3>3
  <2>3. QED
    BY <2>1, <2>2
<1> HIDE DEF T
<1>5. \A m \in 0..n : m \in T
  BY <1>2, <1>3, <1>4, Downward
<1>6. 1 \in 0..n
  BY <1>2
<1>7. 1 \in T
  BY <1>5, <1>6
<1>8. QED
  BY <1>7 DEF T, ObjectTree

\* The tokens from one on hold so many texts.
Found(K, i) ==
    /\ i \in Nat /\ i >= 1 /\ Len(K) \in Nat /\ i + Len(K) - 1 <= Len(res)
    /\ \A q \in 1..Len(K) : Kw(i + q - 1) = K[q]

LEMMA FoundConcat ==
    ASSUME NEW C, Len(res) \in Nat
    PROVE  \A a, b \in Seq(C) : \A i : Found(a \o b, i) => Found(a, i) /\ Found(b, i + Len(a))
<1> SUFFICES ASSUME NEW a \in Seq(C), NEW b \in Seq(C), NEW i, Found(a \o b, i)
             PROVE  Found(a, i) /\ Found(b, i + Len(a))
  OBVIOUS
<1> DEFINE c == a \o b
           l == Len(a)
           m == Len(b)
<1>1. l \in Nat /\ m \in Nat /\ Len(c) = l + m /\ (\A p \in 1..l : c[p] = a[p]) /\ \A p \in 1..m : c[l + p] = b[p]
  BY ConcatIs
<1>2. i \in Nat /\ i >= 1 /\ i + Len(c) - 1 <= Len(res) /\ \A q \in 1..Len(c) : Kw(i + q - 1) = c[q]
  BY DEF Found
<1> HIDE DEF c
<1>3. \A q \in 1..l : q \in 1..Len(c)
  BY <1>1
<1>4. Found(a, i)
  <2>1. i + l - 1 <= Len(res)
    BY <1>1, <1>2
  <2>2. \A q \in 1..l : Kw(i + q - 1) = a[q]
    BY <1>1, <1>2, <1>3
  <2>3. QED
    BY <1>1, <1>2, <2>1, <2>2 DEF Found
<1>5. Found(b, i + l)
  <2>1. i + l + m - 1 <= Len(res) /\ i + l >= 1 /\ i + l \in Nat
    BY <1>1, <1>2
  <2>2. \A q \in 1..m : l + q \in 1..Len(c) /\ i + (l + q) - 1 = (i + l) + q - 1
    BY <1>1, <1>2
  <2>3. \A q \in 1..m : Kw((i + l) + q - 1) = b[q]
    BY <1>1, <1>2, <2>2
  <2>4. QED
    BY <1>1, <2>1, <2>3 DEF Found
<1>6. QED
  BY <1>4, <1>5

LEMMA FoundOne ==
    ASSUME Len(res) \in Nat
    PROVE  \A k, i : Found(<<k>>, i) => Kw(i) = k /\ i \in 1..Len(res)
<1> SUFFICES ASSUME NEW k, NEW i, Found(<<k>>, i)
             PROVE  Kw(i) = k /\ i \in 1..Len(res)
  OBVIOUS
<1> DEFINE K == <<k>>
<1>1. Len(K) = 1 /\ K[1] = k
  OBVIOUS
<1>2. i \in Nat /\ i >= 1 /\ i + Len(K) - 1 <= Len(res) /\ \A q \in 1..Len(K) : Kw(i + q - 1) = K[q]
  BY DEF Found
<1> HIDE DEF K
<1>3. i + 1 - 1 = i /\ 1 \in 1..Len(K)
  BY <1>1, <1>2
<1>4. QED
  BY <1>1, <1>2, <1>3

LEMMA FoundJoins ==
    ASSUME NEW C, Len(res) \in Nat, NEW n \in Nat, NEW x \in [1..n -> Seq(C)], NEW i, Found(Joins(x, n), i)
    PROVE  \A m \in 1..n : Found(x[m], i + Len(Joins(x, m - 1)))
<1> DEFINE J(m) == Joins(x, m)
           T == {m \in 0..n : Found(J(m), i)}
<1>1. (\A m \in 0..n : J(m) \in Seq(C)) /\ \A m \in 1..n : J(m) = J(m - 1) \o x[m]
  BY JoinsSteps
<1>2. \A m \in 1..n : x[m] \in Seq(C) /\ J(m - 1) \in Seq(C) /\ m - 1 \in 0..n /\ m \in 0..n
  <2>1. \A m \in 1..n : x[m] \in Seq(C) /\ m - 1 \in 0..n /\ m \in 0..n
    OBVIOUS
  <2>2. QED
    BY <1>1, <2>1
<1>3. Found(J(n), i)
  OBVIOUS
<1> HIDE DEF J
<1>4. ASSUME NEW m \in 1..n, Found(J(m), i)
      PROVE  Found(J(m - 1), i) /\ Found(x[m], i + Len(J(m - 1)))
  <2>1. J(m) = J(m - 1) \o x[m] /\ x[m] \in Seq(C) /\ J(m - 1) \in Seq(C)
    BY <1>1, <1>2
  <2>2. Found(J(m - 1) \o x[m], i)
    BY <1>4, <2>1
  <2>3. QED
    BY <2>1, <2>2, FoundConcat
<1>5. n \in T
  BY <1>3
<1>6. \A m \in 1..n : m \in T => m - 1 \in T
  BY <1>2, <1>4
<1> HIDE DEF T
<1>7. \A m \in 0..n : m \in T
  BY <1>5, <1>6, Downward
<1>8. \A m \in 1..n : Found(J(m), i)
  BY <1>2, <1>7 DEF T
<1>9. QED
  BY <1>4, <1>8 DEF J

\* The tokens of a list, one element after the other.
Ahead(ks, n, m) == Len(Joins(Separated(ks, n), m))

LEMMA CommaTokenIs == \A i, n : CommaToken(i, n) \in Seq(Keywords)
BY CommaIs

LEMMA CommaTokenLength == \A i, n : Len(CommaToken(i, n)) = IF i = n THEN 0 ELSE 1
<1>1. ASSUME NEW k PROVE Len(<<k>>) = 1 /\ Len(<<>>) = 0
  OBVIOUS
<1>2. QED
  BY <1>1 DEF CommaToken

LEMMA ListsOfKeywords ==
    \A a, b \in Seq(Keywords) :
      a \o b \in Seq(Keywords) /\ Len(a) \in Nat /\ Len(b) \in Nat /\ Len(a \o b) = Len(a) + Len(b)
BY ConcatIs

LEMMA SeparatedType ==
    \A n \in Nat : \A ks : (\A m \in 1..n : ks[m] \in Seq(Keywords)) =>
      /\ Separated(ks, n) \in [1..n -> Seq(Keywords)]
      /\ \A m \in 1..n : Separated(ks, n)[m] = ks[m] \o CommaToken(m, n)
<1> SUFFICES ASSUME NEW n \in Nat, NEW ks, \A m \in 1..n : ks[m] \in Seq(Keywords)
             PROVE  /\ Separated(ks, n) \in [1..n -> Seq(Keywords)]
                    /\ \A m \in 1..n : Separated(ks, n)[m] = ks[m] \o CommaToken(m, n)
  OBVIOUS
<1>1. \A m \in 1..n : ks[m] \o CommaToken(m, n) \in Seq(Keywords)
  BY CommaTokenIs, ConcatIs
<1>2. QED
  BY <1>1 DEF Separated

LEMMA AheadIs ==
    \A n \in Nat : \A ks : (\A m \in 1..n : ks[m] \in Seq(Keywords)) =>
      /\ Ahead(ks, n, 0) = 0 /\ \A m \in 0..n : Ahead(ks, n, m) \in Nat
      /\ \A m \in 1..n : /\ Len(ks[m]) \in Nat
                         /\ Ahead(ks, n, m) = Ahead(ks, n, m - 1) + Len(ks[m]) + (IF m = n THEN 0 ELSE 1)
<1> SUFFICES ASSUME NEW n \in Nat, NEW ks, \A m \in 1..n : ks[m] \in Seq(Keywords)
             PROVE
      /\ Ahead(ks, n, 0) = 0 /\ \A m \in 0..n : Ahead(ks, n, m) \in Nat
      /\ \A m \in 1..n : /\ Len(ks[m]) \in Nat
                         /\ Ahead(ks, n, m) = Ahead(ks, n, m - 1) + Len(ks[m]) + (IF m = n THEN 0 ELSE 1)
  OBVIOUS
<1> DEFINE x == Separated(ks, n)
           J(m) == Joins(x, m)
<1>1. \A m \in 1..n : x[m] = ks[m] \o CommaToken(m, n)
  BY SeparatedType
<1>2. /\ J(0) = <<>> /\ (\A m \in 0..n : J(m) \in Seq(Keywords)) /\ \A m \in 1..n : J(m) = J(m - 1) \o x[m]
  <2>1. x \in [1..n -> Seq(Keywords)]
    BY SeparatedType
  <2> HIDE DEF x
  <2>2. QED
    BY <2>1, JoinsSteps
<1>3. \A m : Ahead(ks, n, m) = Len(J(m))
  BY DEF Ahead
<1> HIDE DEF J, x
<1>4. Ahead(ks, n, 0) = 0
  BY <1>2, <1>3, EmptyIs
<1>5. \A m \in 0..n : Ahead(ks, n, m) \in Nat
  BY <1>2, <1>3, LenIsNat
<1>6. ASSUME NEW m \in 1..n
      PROVE  /\ Len(ks[m]) \in Nat
             /\ Ahead(ks, n, m) = Ahead(ks, n, m - 1) + Len(ks[m]) + (IF m = n THEN 0 ELSE 1)
  <2>1. m - 1 \in 0..n /\ m \in 0..n
    OBVIOUS
  <2>2. CommaToken(m, n) \in Seq(Keywords) /\ ks[m] \in Seq(Keywords)
    BY CommaTokenIs
  <2>3. Len(CommaToken(m, n)) = IF m = n THEN 0 ELSE 1
    BY CommaTokenLength
  <2>4. x[m] \in Seq(Keywords) /\ Len(ks[m]) \in Nat /\ Len(x[m]) = Len(ks[m]) + Len(CommaToken(m, n))
    BY <1>1, <2>2, ListsOfKeywords
  <2>5. Len(J(m)) = Len(J(m - 1)) + Len(x[m]) /\ Len(J(m - 1)) \in Nat
    BY <1>2, <2>1, <2>4, ListsOfKeywords
  <2>6. Ahead(ks, n, m) = Len(J(m)) /\ Ahead(ks, n, m - 1) = Len(J(m - 1))
    BY <1>3
  <2> DEFINE p == Len(J(m - 1))
             l == Len(ks[m])
             t == Len(CommaToken(m, n))
             z == Len(x[m])
             y == Len(J(m))
  <2>7. t = (IF m = n THEN 0 ELSE 1) /\ p \in Nat /\ l \in Nat /\ z = l + t /\ y = p + z
    BY <2>3, <2>4, <2>5
  <2> HIDE DEF p, l, t, z, y
  <2>8. t \in Nat
    BY <2>7
  <2>9. y = p + l + t
    BY <2>7, <2>8
  <2>10. QED
    BY <2>6, <2>7, <2>9 DEF p, l, y
<1>7. QED
  BY <1>4, <1>5, <1>6

LEMMA ListFound ==
    ASSUME Len(res) \in Nat, NEW n \in Nat, NEW ks, \A m \in 1..n : ks[m] \in Seq(Keywords),
           NEW open \in Marks, NEW close \in Marks, NEW i, Found(ListTokens(open, ks, n, close), i)
    PROVE  /\ i \in 1..Len(res) /\ Kw(i) = <<open>>
           /\ Len(ListTokens(open, ks, n, close)) = Ahead(ks, n, n) + 2
           /\ i + 1 + Ahead(ks, n, n) \in i + 1..Len(res) /\ Kw(i + 1 + Ahead(ks, n, n)) = <<close>>
           /\ \A m \in 1..n : /\ Found(ks[m], i + 1 + Ahead(ks, n, m - 1))
                              /\ m # n => Comma(i + Ahead(ks, n, m))
<1> DEFINE x == Separated(ks, n)
           J == Joins(x, n)
           o == << <<open>> >>
           c == << <<close>> >>
           B(m) == Ahead(ks, n, m)
<1>1. o \in Seq(Keywords) /\ c \in Seq(Keywords) /\ Len(o) = 1 /\ Len(c) = 1
  <2>1. <<open>> \in Keywords /\ <<close>> \in Keywords
    BY MarkIs DEF Keywords
  <2>2. QED
    BY <2>1
<1>2. x \in [1..n -> Seq(Keywords)] /\ \A m \in 1..n : x[m] = ks[m] \o CommaToken(m, n)
  BY SeparatedType
<1>3. J \in Seq(Keywords)
  <2>1. n \in 0..n
    OBVIOUS
  <2> HIDE DEF x
  <2>2. QED
    BY <1>2, <2>1, JoinsSteps
<1>4. ListTokens(open, ks, n, close) = (o \o J) \o c
  BY DEF ListTokens
<1>5. B(n) = Len(J) /\ B(n) \in Nat
  BY <1>3, LenIsNat DEF Ahead
<1> HIDE DEF o, c, J
<1>6. o \o J \in Seq(Keywords) /\ Len(o \o J) = 1 + B(n) /\ Len((o \o J) \o c) = (1 + B(n)) + 1
  <2>1. o \o J \in Seq(Keywords) /\ Len(o \o J) = 1 + B(n)
    BY <1>1, <1>3, <1>5, ListsOfKeywords
  <2>2. QED
    BY <1>1, <2>1, ListsOfKeywords
<1>7. Found(o \o J, i) /\ Found(c, i + Len(o \o J))
  BY <1>1, <1>4, <1>6, FoundConcat
<1>8. Found(o, i) /\ Found(J, i + 1)
  BY <1>1, <1>3, <1>7, FoundConcat
<1>9. i \in 1..Len(res) /\ Kw(i) = <<open>>
  BY <1>8, FoundOne DEF o
<1>10. i + 1 + B(n) \in i + 1..Len(res) /\ Kw(i + 1 + B(n)) = <<close>>
  <2>1. i + Len(o \o J) = i + 1 + B(n)
    BY <1>5, <1>6, <1>9
  <2>2. Kw(i + 1 + B(n)) = <<close>> /\ i + 1 + B(n) \in 1..Len(res)
    BY <1>7, <2>1, FoundOne DEF c
  <2>3. QED
    BY <1>5, <1>9, <2>2
<1>11. ASSUME NEW m \in 1..n
       PROVE  /\ Found(ks[m], i + 1 + B(m - 1))
              /\ m # n => Comma(i + B(m))
  <2>1. Found(x[m], i + 1 + B(m - 1))
    <3> HIDE DEF x
    <3>1. Found(x[m], i + 1 + Len(Joins(x, m - 1)))
      BY <1>2, <1>8, FoundJoins DEF J
    <3>2. QED
      BY <3>1 DEF Ahead, x
  <2>2. x[m] = ks[m] \o CommaToken(m, n) /\ ks[m] \in Seq(Keywords) /\ CommaToken(m, n) \in Seq(Keywords)
    BY <1>2, CommaTokenIs
  <2> HIDE DEF x
  <2>3. Found(ks[m], i + 1 + B(m - 1)) /\ Found(CommaToken(m, n), i + 1 + B(m - 1) + Len(ks[m]))
    BY <2>1, <2>2, FoundConcat
  <2>4. ASSUME m # n
        PROVE  Comma(i + B(m))
    <3>1. CommaToken(m, n) = << <<",">> >>
      BY <2>4 DEF CommaToken
    <3>2. Kw(i + 1 + B(m - 1) + Len(ks[m])) = <<",">>
      BY <2>3, <3>1, FoundOne
    <3>3. B(m) = B(m - 1) + Len(ks[m]) + 1 /\ B(m - 1) \in Nat /\ Len(ks[m]) \in Nat
      <4>1. m - 1 \in 0..n
        OBVIOUS
      <4>2. QED
        BY <2>4, <4>1, AheadIs
    <3>4. i + B(m) = i + 1 + B(m - 1) + Len(ks[m])
      BY <1>9, <3>3
    <3>5. QED
      BY <3>2, <3>4 DEF Comma
  <2>5. QED
    BY <2>3, <2>4
<1>12. Len(ListTokens(open, ks, n, close)) = B(n) + 2
  BY <1>4, <1>5, <1>6
<1>13. QED
  BY <1>9, <1>10, <1>11, <1>12

\* The tokens of a value, of an element of an array or of a member of an object.
ReadsAs(K, tr) == K \in Seq(Keywords) /\ Len(K) > 0 /\ \A i : Found(K, i) => ValueIs(i, i + Len(K) - 1, tr)
ElementReads(kind, K, tr) ==
    /\ K \in Seq(Keywords) /\ Len(K) > 0
    /\ \A i : Found(K, i) => Keyed(kind, i) /\ ValueIs(From(kind, i), i + Len(K) - 1, tr)
Starts(ks, n, i) == [m \in 1..n |-> i + 1 + Ahead(ks, n, m - 1)]
Stops(ks, n, i) == [m \in 1..n |-> i + Ahead(ks, n, m - 1) + Len(ks[m])]

CommaMark == ","
LEMMA NoComma == \A j, c : c # CommaMark /\ Kw(j) = <<c>> => ~Comma(j)
<1>1. \A c, d : <<c>> = <<d>> => c = d
  OBVIOUS
<1>2. \A j, c : Kw(j) = <<c>> /\ Comma(j) => <<c>> = <<CommaMark>>
  BY DEF Comma, CommaMark
<1>3. QED
  BY <1>1, <1>2

LEMMA StopArithmetic ==
    \A i, a, l \in Nat :
      /\ (i + 1 + a) + l - 1 = i + a + l
      /\ \A b : b = a + l + 1 => (i + a + l) + 1 = i + b /\ i + 1 + b = (i + a + l) + 2
      /\ \A b : b = a + l + 0 => (i + a + l) + 1 = i + 1 + b
OBVIOUS

LEMMA ListElements ==
    ASSUME TokensOK, NEW kind \in Lists, NEW n \in Nat, n >= 1, NEW ks, NEW tr,
           \A m \in 1..n : ElementReads(kind, ks[m], tr[m]),
           NEW open \in Marks, NEW close \in Marks, close # CommaMark, NEW i, Found(ListTokens(open, ks, n, close), i)
    PROVE  ElementsAre(kind, n, i + 1 + Ahead(ks, n, n), Starts(ks, n, i), Stops(ks, n, i), tr)
<1> DEFINE B(m) == Ahead(ks, n, m)
           S == Starts(ks, n, i)
           V == Stops(ks, n, i)
           e == i + 1 + B(n)
<1>1. Len(res) \in Nat /\ \A m \in 1..n : ks[m] \in Seq(Keywords)
  BY KwIs DEF ElementReads
<1>2. /\ i \in 1..Len(res) /\ e \in i + 1..Len(res) /\ Kw(e) = <<close>>
      /\ \A m \in 1..n : /\ Found(ks[m], i + 1 + B(m - 1))
                         /\ m # n => Comma(i + B(m))
  BY <1>1, ListFound
<1>3. /\ \A m \in 0..n : B(m) \in Nat
      /\ \A m \in 1..n : Len(ks[m]) \in Nat /\ B(m) = B(m - 1) + Len(ks[m]) + (IF m = n THEN 0 ELSE 1)
  BY <1>1, AheadIs
<1>4. \A m \in 1..n : S[m] = i + 1 + B(m - 1) /\ V[m] = i + B(m - 1) + Len(ks[m]) /\ m - 1 \in 0..n /\ (m + 1) - 1 = m
  BY DEF Starts, Stops
<1>5. \A m \in 1..n : m # n => m + 1 \in 1..n
  OBVIOUS
<1>6. n \in 1..n /\ i \in Nat
  BY <1>1, <1>2
<1> HIDE DEF S, V, B
<1>7. ASSUME NEW m \in 1..n
      PROVE  S[m] \in 1..Len(res) + 1 /\ Keyed(kind, S[m]) /\ ValueIs(From(kind, S[m]), V[m], tr[m])
  <2> DEFINE a == B(m - 1)
             l == Len(ks[m])
  <2>1. a \in Nat /\ l \in Nat /\ l > 0
    BY <1>3, <1>4 DEF ElementReads
  <2>2. Found(ks[m], S[m]) /\ S[m] = i + 1 + a
    BY <1>2, <1>4
  <2>3. i + 1 + a + l - 1 <= Len(res)
    BY <2>2 DEF Found
  <2>4. Keyed(kind, S[m]) /\ ValueIs(From(kind, S[m]), S[m] + l - 1, tr[m])
    BY <2>2 DEF ElementReads
  <2>5. S[m] + l - 1 = V[m]
    <3>1. V[m] = i + a + l
      BY <1>4
    <3> HIDE DEF a, l
    <3>2. QED
      BY <1>6, <2>1, <2>2, <3>1, StopArithmetic
  <2> HIDE DEF a, l
  <2>6. S[m] \in 1..Len(res) + 1
    BY <1>1, <1>6, <2>1, <2>2, <2>3
  <2>7. QED
    BY <2>4, <2>5, <2>6
<1>8. ASSUME NEW m \in 1..n, m # n
      PROVE  Comma(V[m] + 1) /\ S[m + 1] = V[m] + 2
  <2> DEFINE a == B(m - 1)
             l == Len(ks[m])
             b == B(m)
  <2>1. a \in Nat /\ l \in Nat /\ b = a + l + 1 /\ V[m] = i + a + l
    BY <1>3, <1>4, <1>8
  <2>2. S[m + 1] = i + 1 + b
    BY <1>4, <1>5, <1>8
  <2>3. Comma(i + b)
    BY <1>2, <1>8
  <2> HIDE DEF a, l, b
  <2>4. V[m] + 1 = i + b /\ S[m + 1] = V[m] + 2
    BY <1>6, <2>1, <2>2, StopArithmetic
  <2>5. QED
    BY <2>3, <2>4
<1>9. V[n] + 1 = e
  <2> DEFINE a == B(n - 1)
             l == Len(ks[n])
             b == B(n)
  <2>1. a \in Nat /\ l \in Nat /\ b = a + l + 0 /\ V[n] = i + a + l
    BY <1>3, <1>4, <1>6
  <2> HIDE DEF a, l
  <2>2. QED
    BY <1>6, <2>1, StopArithmetic
<1>10. e \in 1..Len(res) /\ ~Comma(e)
  <2>1. ~Comma(e)
    BY <1>2, NoComma
  <2>2. e \in 1..Len(res)
    BY <1>1, <1>2
  <2>3. QED
    BY <2>1, <2>2
<1> HIDE DEF e
<1>11. ElementsAre(kind, n, e, S, V, tr)
  BY <1>7, <1>8, <1>9, <1>10 DEF ElementsAre
<1>12. QED
  BY <1>11 DEF S, V, B, e

LEMMA ListTokensAre ==
    \A n \in Nat : \A ks : \A open, close \in Marks : (\A m \in 1..n : ks[m] \in Seq(Keywords)) =>
      LET K == ListTokens(open, ks, n, close)
      IN  K \in Seq(Keywords) /\ Len(K) = Ahead(ks, n, n) + 2
<1> SUFFICES ASSUME NEW n \in Nat, NEW ks, NEW open \in Marks, NEW close \in Marks, \A m \in 1..n : ks[m] \in Seq(Keywords)
             PROVE LET K == ListTokens(open, ks, n, close)
                   IN  K \in Seq(Keywords) /\ Len(K) = Ahead(ks, n, n) + 2
  OBVIOUS
<1> DEFINE x == Separated(ks, n)
           J == Joins(x, n)
           o == << <<open>> >>
           c == << <<close>> >>
           b == Ahead(ks, n, n)
<1>1. o \in Seq(Keywords) /\ c \in Seq(Keywords) /\ Len(o) = 1 /\ Len(c) = 1
  <2>1. <<open>> \in Keywords /\ <<close>> \in Keywords
    BY MarkIs DEF Keywords
  <2>2. QED
    BY <2>1
<1>2. x \in [1..n -> Seq(Keywords)]
  BY SeparatedType
<1>3. J \in Seq(Keywords)
  <2>1. n \in 0..n
    OBVIOUS
  <2> HIDE DEF x
  <2>2. QED
    BY <1>2, <2>1, JoinsSteps
<1>4. ListTokens(open, ks, n, close) = (o \o J) \o c
  BY DEF ListTokens
<1>5. b = Len(J) /\ b \in Nat
  BY <1>3, LenIsNat DEF Ahead
<1> HIDE DEF o, c, J, b
<1>6. o \o J \in Seq(Keywords) /\ Len(o \o J) = 1 + b
  BY <1>1, <1>3, <1>5, ListsOfKeywords
<1>7. (o \o J) \o c \in Seq(Keywords) /\ Len((o \o J) \o c) = (1 + b) + 1
  BY <1>1, <1>6, ListsOfKeywords
<1>8. (1 + b) + 1 = b + 2
  BY <1>5
<1>9. QED
  BY <1>4, <1>7, <1>8 DEF b

\* A list of elements that are read.
Bracketing(kind, open, close) ==
    /\ kind \in Lists /\ open \in Marks /\ close \in Marks /\ close # CommaMark
    /\ <<open>> \in Opening /\ KindOfList(<<open>>) = kind /\ CloseOf(<<open>>) = <<close>>
Gives(kind, n, ks, tr, new) ==
    \A e, S, V : ElementsAre(kind, n, e, S, V, tr) /\ (\A m \in 1..n : Found(ks[m], S[m]))
                   => Resolve[<<kind, S[1], e>>] = Result(new, e)
ListOf(kind, n, ks, tr, new) ==
    /\ n \in Nat /\ \A m \in 1..n : ElementReads(kind, ks[m], tr[m])
    /\ n = 0 => new = Leaf(kind, <<>>)
    /\ Gives(kind, n, ks, tr, new)

LEMMA ListReads ==
    ASSUME TokensOK, NEW kind, NEW open, NEW close, Bracketing(kind, open, close),
           NEW n, NEW ks, NEW tr, NEW new, ListOf(kind, n, ks, tr, new)
    PROVE  ReadsAs(ListTokens(open, ks, n, close), new)
<1>0. /\ kind \in Lists /\ open \in Marks /\ close \in Marks /\ close # CommaMark
      /\ <<open>> \in Opening /\ KindOfList(<<open>>) = kind /\ CloseOf(<<open>>) = <<close>>
      /\ n \in Nat /\ \A m \in 1..n : ElementReads(kind, ks[m], tr[m])
      /\ n = 0 => new = Leaf(kind, <<>>)
  BY DEF Bracketing, ListOf
<1> DEFINE K == ListTokens(open, ks, n, close)
           b == Ahead(ks, n, n)
<1>1. Len(res) \in Nat /\ \A m \in 1..n : ks[m] \in Seq(Keywords)
  BY <1>0, KwIs DEF ElementReads
<1>2. b \in Nat /\ Ahead(ks, n, 0) = 0
  <2>1. n \in 0..n
    BY <1>0
  <2>2. QED
    BY <1>0, <1>1, <2>1, AheadIs
<1>3. K \in Seq(Keywords) /\ Len(K) = b + 2
  BY <1>0, <1>1, ListTokensAre
<1>4. ASSUME NEW i, Found(K, i)
      PROVE  ValueIs(i, i + Len(K) - 1, new)
  <2> DEFINE e == i + 1 + b
  <2>1. i \in 1..Len(res) /\ Kw(i) = <<open>> /\ e \in i + 1..Len(res) /\ Kw(e) = <<close>>
    BY <1>0, <1>1, <1>4, ListFound
  <2>2. i + Len(K) - 1 = e
    BY <1>2, <1>3, <2>1
  <2>3. CASE n = 0
    <3>1. e = i + 1 /\ new = Leaf(KindOfList(Kw(i)), <<>>)
      BY <1>0, <1>2, <2>1, <2>3
    <3> HIDE DEF e
    <3>2. ValueIs(i, e, new)
      BY <1>0, <2>1, <3>1, EnclosedReads
    <3>3. QED
      BY <2>2, <3>2
  <2>4. CASE n >= 1
    <3> DEFINE S == Starts(ks, n, i)
               V == Stops(ks, n, i)
    <3>1. ElementsAre(kind, n, e, S, V, tr)
      BY <1>0, <1>4, <2>4, ListElements
    <3>2. S[1] = i + 1
      <4>1. 1 \in 1..n /\ 1 - 1 = 0 /\ i + 1 + 0 = i + 1
        BY <2>1, <2>4
      <4>2. QED
        BY <1>2, <4>1 DEF Starts
    <3>8. \A m \in 1..n : Found(ks[m], S[m])
      <4>1. \A m \in 1..n : S[m] = i + 1 + Ahead(ks, n, m - 1)
        BY DEF Starts
      <4>2. \A m \in 1..n : Found(ks[m], i + 1 + Ahead(ks, n, m - 1))
        BY <1>0, <1>1, <1>4, ListFound
      <4> HIDE DEF S
      <4>3. QED
        BY <4>1, <4>2
    <3> HIDE DEF S, V
    <3>3. e - 1 \in G(kind, i + 1)
      BY <1>0, <3>1, <3>2, ElementsDerive
    <3>4. Resolve[<<kind, i + 1, e>>] = Result(new, e)
      BY <3>1, <3>2, <3>8 DEF ListOf, Gives
    <3>5. e # i + 1
      <4>1. S[1] \in 1..Len(res) + 1 /\ 1 \in 1..n
        BY <2>4, <3>1 DEF ElementsAre
      <4>2. e - 1 \in i + 1..Len(res)
        <5>1. kind \in {"value", "array", "object"}
          BY <1>0 DEF Lists
        <5>2. QED
          BY <3>2, <3>3, <4>1, <5>1, GrammarSpans
      <4>3. QED
        BY <1>1, <2>1, <4>2
    <3> HIDE DEF e
    <3>6. ValueIs(i, e, new)
      BY <1>0, <2>1, <3>3, <3>4, <3>5, EnclosedReads
    <3>7. QED
      BY <2>2, <3>6
  <2>5. QED
    BY <1>0, <2>3, <2>4
<1> HIDE DEF K
<1>5. Len(K) > 0
  BY <1>2, <1>3
<1>6. QED
  BY <1>3, <1>4, <1>5 DEF ReadsAs, K

LEMMA BracketingIs == Bracketing("array", "[", "]") /\ Bracketing("object", "{", "}")
BY DEF Bracketing, Marks, KindOfList, CloseOf, CommaMark, Opening, Lists

LEMMA ScalarReadsAs ==
    ASSUME TokensOK, NEW k \in Keywords, IsScalar(k)
    PROVE  ReadsAs(<<k>>, Scalar(k))
<1> DEFINE K == <<k>>
<1>1. K \in Seq(Keywords) /\ Len(K) = 1
  OBVIOUS
<1>2. Len(res) \in Nat
  BY KwIs
<1>3. ASSUME NEW i, Found(K, i)
      PROVE  ValueIs(i, i + Len(K) - 1, Scalar(k))
  <2>1. i \in 1..Len(res) /\ Kw(i) = k
    BY <1>2, <1>3, FoundOne
  <2>2. ValueIs(i, i, Scalar(k))
    BY <2>1, ScalarReads
  <2>3. i + Len(K) - 1 = i
    BY <1>1, <2>1
  <2>4. QED
    BY <2>2, <2>3
<1> HIDE DEF K
<1>4. Len(K) > 0
  BY <1>1
<1>5. QED
  BY <1>1, <1>3, <1>4 DEF ReadsAs, K

LEMMA ArrayGives ==
    ASSUME TokensOK, NEW n, NEW ks, NEW tr
    PROVE  Gives("array", n, ks, tr, Tree("array", <<>>, [j \in 1..n |-> tr[j]], <<>>))
<1>1. ASSUME NEW e, NEW S, NEW V, ElementsAre("array", n, e, S, V, tr)
      PROVE  Resolve[<<"array", S[1], e>>] = Result(Tree("array", <<>>, [j \in 1..n |-> tr[j]], <<>>), e)
  BY <1>1, ArrayIs
<1>2. QED
  BY <1>1 DEF Gives

LEMMA ArrayReadsAs ==
    ASSUME TokensOK, NEW n \in Nat, NEW ks, NEW tr, \A m \in 1..n : ReadsAs(ks[m], tr[m])
    PROVE  ReadsAs(ListTokens("[", ks, n, "]"), Tree("array", <<>>, [j \in 1..n |-> tr[j]], <<>>))
<1> DEFINE open == "["
           close == "]"
           kind == "array"
           new == Tree(kind, <<>>, [j \in 1..n |-> tr[j]], <<>>)
<1>1. Bracketing(kind, open, close)
  BY BracketingIs
<1>2. n = 0 => new = Leaf(kind, <<>>)
  <2>1. n = 0 => [j \in 1..n |-> tr[j]] = <<>>
    OBVIOUS
  <2>2. QED
    BY <2>1 DEF Leaf
<1>3. \A m \in 1..n : ElementReads(kind, ks[m], tr[m])
  <2>1. \A i : From(kind, i) = i /\ Keyed(kind, i)
    BY DEF From, Keyed
  <2> HIDE DEF kind
  <2>2. QED
    BY <2>1 DEF ElementReads, ReadsAs
<1>4. Gives(kind, n, ks, tr, new)
  BY ArrayGives
<1> HIDE DEF open, close, kind, new
<1>5. ListOf(kind, n, ks, tr, new)
  BY <1>2, <1>3, <1>4 DEF ListOf
<1>6. ReadsAs(ListTokens(open, ks, n, close), new)
  BY <1>1, <1>5, ListReads
<1>7. QED
  BY <1>6 DEF open, close, kind, new

\* A key in quotes, ":" and a value.
MemberTokens(key, K) == << InQuotes(key), <<":">> >> \o K

LEMMA KeyIs ==
    \A s \in Seq(Characters) : IsStringLiteral(InQuotes(s)) /\ toStringContent(InQuotes(s)) = s /\ InQuotes(s) \in Keywords
<1> SUFFICES ASSUME NEW s \in Seq(Characters)
             PROVE  IsStringLiteral(InQuotes(s)) /\ toStringContent(InQuotes(s)) = s /\ InQuotes(s) \in Keywords
  OBVIOUS
<1> DEFINE w == InQuotes(s)
           n == Len(s)
<1>1. /\ w \in Seq(Characters) /\ n \in Nat /\ Len(w) = n + 2 /\ w[1] = QuoteMark
      /\ \A p \in 1..n : w[p + 1] = s[p]
  BY InQuotesAre
<1> HIDE DEF w
<1>2. QuoteMark \in const_str_set
  BY DEF QuoteMark, const_str_set
<1>3. SubSeq(w, 2, Len(w) - 1) = s
  <2>1. Len(w) - 1 = n + 1
    BY <1>1
  <2>2. SubSeq(w, 2, n + 1) = [p \in 1..n |-> w[p + 1]]
    BY <1>1
  <2>3. s = [p \in 1..n |-> s[p]]
    OBVIOUS
  <2>4. [p \in 1..n |-> w[p + 1]] = [p \in 1..n |-> s[p]]
    BY <1>1
  <2>5. QED
    BY <2>1, <2>2, <2>3, <2>4
<1>4. QED
  BY <1>1, <1>2, <1>3 DEF IsStringLiteral, toStringContent, Keywords, w

LEMMA MemberFound ==
    ASSUME TokensOK, NEW key \in Seq(Characters), NEW K \in Seq(Keywords)
    PROVE  /\ MemberTokens(key, K) \in Seq(Keywords) /\ Len(K) \in Nat /\ Len(MemberTokens(key, K)) = Len(K) + 2
           /\ \A i : Found(MemberTokens(key, K), i) =>
                /\ i \in Nat /\ Found(K, i + 2) /\ Keyed("object", i) /\ toStringContent(Kw(i)) = key
<1> DEFINE q == InQuotes(key)
           a == <<q>>
           b == << <<":">> >>
<1>1. a \in Seq(Keywords) /\ b \in Seq(Keywords) /\ Len(a) = 1 /\ Len(b) = 1 /\ <<q, <<":">> >> = a \o b
  <2>1. q \in Keywords
    BY KeyIs
  <2>2. <<":">> \in Keywords
    <3>1. ":" \in Marks
      BY DEF Marks
    <3>2. QED
      BY <3>1, MarkIs DEF Keywords
  <2>3. QED
    BY <2>1, <2>2
<1>2. MemberTokens(key, K) = (a \o b) \o K
  BY <1>1 DEF MemberTokens
<1>3. Len(res) \in Nat
  BY KwIs
<1> HIDE DEF a, b
<1>4. a \o b \in Seq(Keywords) /\ Len(a \o b) = 2
  BY <1>1, ListsOfKeywords
<1>5. (a \o b) \o K \in Seq(Keywords) /\ Len(K) \in Nat /\ Len((a \o b) \o K) = 2 + Len(K)
  BY <1>4, ListsOfKeywords
<1>6. 2 + Len(K) = Len(K) + 2
  BY <1>5
<1>7. ASSUME NEW i, Found((a \o b) \o K, i)
      PROVE  i \in Nat /\ Found(K, i + 2) /\ Keyed("object", i) /\ toStringContent(Kw(i)) = key
  <2>1. Found(a \o b, i) /\ Found(K, i + 2)
    BY <1>3, <1>4, <1>7, FoundConcat
  <2>2. Found(a, i) /\ Found(b, i + 1)
    BY <1>1, <1>3, <2>1, FoundConcat
  <2>3. Kw(i) = q /\ i \in 1..Len(res)
    BY <1>3, <2>2, FoundOne DEF a
  <2>4. Kw(i + 1) = <<":">>
    BY <1>3, <2>2, FoundOne DEF b
  <2>5. Keyed("object", i) /\ toStringContent(Kw(i)) = key
    BY <2>3, <2>4, KeyIs DEF Keyed
  <2>6. i \in Nat
    BY <2>3
  <2>7. QED
    BY <2>1, <2>5, <2>6
<1>8. QED
  BY <1>2, <1>5, <1>6, <1>7

LEMMA ObjectGives ==
    ASSUME TokensOK, NEW n, NEW ks, NEW tr, NEW keys, NEW f,
           \A m \in 1..n : tr[m] = f[keys[m]] /\ \A i : Found(ks[m], i) => toStringContent(Kw(i)) = keys[m]
    PROVE  Gives("object", n, ks, tr, ObjectTree(keys, n, f))
<1>1. ASSUME NEW e, NEW S, NEW V, ElementsAre("object", n, e, S, V, tr), \A m \in 1..n : Found(ks[m], S[m])
      PROVE  Resolve[<<"object", S[1], e>>] =
               Result(ObjectTree(keys, n, f), e)
  <2>1. \A m \in 1..n : keys[m] = toStringContent(Kw(S[m])) /\ tr[m] = f[keys[m]]
    BY <1>1
  <2>2. QED
    BY <1>1, <2>1, ObjectIs
<1>2. QED
  BY <1>1 DEF Gives

LEMMA ObjectReadsAs ==
    ASSUME TokensOK, NEW n \in Nat, NEW keys, NEW vs, NEW f,
           \A m \in 1..n : keys[m] \in Seq(Characters) /\ ReadsAs(vs[m], f[keys[m]])
    PROVE  ReadsAs(ListTokens("{", [m \in 1..n |-> MemberTokens(keys[m], vs[m])], n, "}"),
                   ObjectTree(keys, n, f))
<1> DEFINE open == "{"
           close == "}"
           kind == "object"
           ks == [m \in 1..n |-> MemberTokens(keys[m], vs[m])]
           tr == [m \in 1..n |-> f[keys[m]]]
           new == ObjectTree(keys, n, f)
<1>1. Bracketing(kind, open, close)
  BY BracketingIs
<1>2. n = 0 => new = Leaf(kind, <<>>)
  <2>1. n = 0 => [k \in {keys[m] : m \in 1..n} |-> f[k]] = <<>>
    OBVIOUS
  <2>2. QED
    BY <2>1 DEF Leaf, ObjectTree
<1>3. \A m \in 1..n : ks[m] = MemberTokens(keys[m], vs[m]) /\ tr[m] = f[keys[m]]
  OBVIOUS
<1>0. "object" = kind /\ \A i : From(kind, i) = i + 2
  BY DEF From
<1> HIDE DEF ks, tr, kind
<1>4. ASSUME NEW m \in 1..n
      PROVE  ElementReads(kind, ks[m], tr[m]) /\ \A i : Found(ks[m], i) => toStringContent(Kw(i)) = keys[m]
  <2> DEFINE K == vs[m]
             M == MemberTokens(keys[m], K)
  <2>1. keys[m] \in Seq(Characters) /\ K \in Seq(Keywords) /\ Len(K) > 0
        /\ \A i : Found(K, i) => ValueIs(i, i + Len(K) - 1, tr[m])
    BY <1>3 DEF ReadsAs
  <2>2. /\ M \in Seq(Keywords) /\ Len(K) \in Nat /\ Len(M) = Len(K) + 2
        /\ \A i : Found(M, i) =>
                /\ i \in Nat /\ Found(K, i + 2) /\ Keyed(kind, i) /\ toStringContent(Kw(i)) = keys[m]
    BY <1>0, <2>1, MemberFound
  <2>3. ks[m] = M
    BY <1>3
  <2> HIDE DEF K, M
  <2>4. \A i, l \in Nat : (i + 2) + l - 1 = i + (l + 2) - 1
    OBVIOUS
  <2>5. ASSUME NEW i, Found(M, i)
        PROVE  ValueIs(From(kind, i), i + Len(M) - 1, tr[m])
    <3>1. ValueIs(i + 2, (i + 2) + Len(K) - 1, tr[m]) /\ i \in Nat
      BY <2>1, <2>2, <2>5
    <3>2. (i + 2) + Len(K) - 1 = i + Len(M) - 1
      BY <2>2, <2>4, <3>1
    <3>3. QED
      BY <1>0, <3>1, <3>2
  <2>6. Len(M) > 0
    BY <2>2
  <2>7. QED
    BY <2>2, <2>3, <2>5, <2>6 DEF ElementReads
<1>5. Gives(kind, n, ks, tr, new)
  <2>1. Gives("object", n, ks, tr, ObjectTree(keys, n, f))
    <3>1. \A m \in 1..n : tr[m] = f[keys[m]] /\ \A i : Found(ks[m], i) => toStringContent(Kw(i)) = keys[m]
      BY <1>3, <1>4
    <3>2. QED
      BY <3>1, ObjectGives
  <2>2. QED
    BY <2>1 DEF kind
<1> HIDE DEF open, close, new
<1>6. ListOf(kind, n, ks, tr, new)
  BY <1>2, <1>4, <1>5 DEF ListOf
<1>7. ReadsAs(ListTokens(open, ks, n, close), new)
  BY <1>1, <1>6, ListReads
<1>8. QED
  BY <1>7 DEF open, close, kind, new, ks

-----------------------------------------------------------------------------
(* The keys of an object.                                                    *)

LEMMA JoinsHold ==
    ASSUME NEW C, NEW n \in Nat, NEW x \in [1..n -> Seq(C)]
    PROVE  \A i \in 1..n : \A c : Contains(x[i], c) => Contains(FlattenSeq(x), c)
<1> DEFINE J(m) == Joins(x, m)
           Holds(m) == \A i \in 1..m : \A q \in 1..Len(x[i]) : \E p \in 1..Len(J(m)) : J(m)[p] = x[i][q]
           T == {m \in 0..n : Holds(m)}
<1>1. /\ J(0) = <<>> /\ FlattenSeq(x) = J(n)
      /\ \A m \in 0..n : J(m) \in Seq(C)
      /\ \A m \in 1..n : J(m) = J(m - 1) \o x[m]
  BY JoinsSteps
<1>2. \A m \in 1..n : x[m] \in Seq(C)
  OBVIOUS
<1>3. 0 \in T
  OBVIOUS
<1> HIDE DEF J
<1>4. ASSUME NEW m \in 1..n, m - 1 \in T
      PROVE  m \in T
  <2> DEFINE a == J(m - 1)
             b == x[m]
  <2>1. a \in Seq(C) /\ b \in Seq(C) /\ J(m) = a \o b /\ m \in 0..n /\ Holds(m - 1)
    <3>1. m - 1 \in 0..n /\ m \in 0..n
      OBVIOUS
    <3>2. QED
      BY <1>1, <1>2, <1>4, <3>1
  <2>2. /\ Len(a) \in Nat /\ Len(b) \in Nat /\ Len(a \o b) = Len(a) + Len(b)
        /\ \A p \in 1..Len(a) : (a \o b)[p] = a[p]
        /\ \A p \in 1..Len(b) : (a \o b)[Len(a) + p] = b[p]
    BY <2>1, ConcatIs
  <2>3. ASSUME NEW i \in 1..m, NEW q \in 1..Len(x[i])
        PROVE  \E p \in 1..Len(J(m)) : J(m)[p] = x[i][q]
    <3>1. CASE i = m
      <4>1. q \in 1..Len(b) /\ x[i][q] = b[q]
        BY <3>1
      <4> HIDE DEF a, b
      <4>2. Len(a) + q \in 1..Len(a \o b)
        BY <2>2, <4>1
      <4>3. QED
        BY <2>1, <2>2, <4>1, <4>2
    <3>2. CASE i # m
      <4>1. i \in 1..m - 1
        BY <3>2
      <4>2. PICK p \in 1..Len(a) : a[p] = x[i][q]
        BY <2>1, <4>1
      <4> HIDE DEF a, b
      <4>3. p \in 1..Len(a \o b)
        BY <2>2
      <4>4. QED
        BY <2>1, <2>2, <4>2, <4>3
    <3>3. QED
      BY <3>1, <3>2
  <2>4. QED
    BY <2>1, <2>3
<1> HIDE DEF T
<1>5. \A m \in 0..n : m \in T
  BY <1>3, <1>4, Upward
<1>6. n \in T
  BY <1>5
<1>7. Holds(n)
  BY <1>6 DEF T
<1>8. \A i \in 1..n : \A q \in 1..Len(x[i]) : Contains(J(n), x[i][q])
  BY <1>7 DEF Contains
<1> HIDE DEF Holds
<1>9. ASSUME NEW i \in 1..n, NEW c, Contains(x[i], c)
      PROVE  Contains(FlattenSeq(x), c)
  <2>1. PICK q \in 1..Len(x[i]) : x[i][q] = c
    BY <1>9 DEF Contains
  <2>2. Contains(J(n), x[i][q]) /\ FlattenSeq(x) = J(n)
    BY <1>1, <1>8
  <2>3. QED
    BY <2>1, <2>2
<1>10. QED
  BY <1>9

Choice(s, n, D) == [i \in 1..n |-> IF s[i] \in D THEN <<s[i]>> ELSE <<>>]

LEMMA ChosenAre ==
    \A n \in Nat : \A s, D :
      LET K == FlattenSeq(Choice(s, n, D))
      IN  K \in Seq(D) /\ \A i \in 1..n : s[i] \in D => Contains(K, s[i])
<1> SUFFICES ASSUME NEW n \in Nat, NEW s, NEW D
             PROVE  LET K == FlattenSeq(Choice(s, n, D))
                    IN  K \in Seq(D) /\ \A i \in 1..n : s[i] \in D => Contains(K, s[i])
  OBVIOUS
<1> DEFINE x == Choice(s, n, D)
<1>1. x \in [1..n -> Seq(D)]
  BY DEF Choice
<1>2. \A i \in 1..n : s[i] \in D => Contains(x[i], s[i])
  <2>1. \A i \in 1..n : s[i] \in D => 1 \in 1..Len(x[i]) /\ x[i][1] = s[i]
    BY DEF Choice
  <2>2. QED
    BY <2>1 DEF Contains
<1> HIDE DEF x
<1>3. /\ \A m \in 0..n : Joins(x, m) \in Seq(D)
      /\ FlattenSeq(x) = Joins(x, n)
  BY <1>1, JoinsSteps
<1>4. \A i \in 1..n : \A c : Contains(x[i], c) => Contains(FlattenSeq(x), c)
  BY <1>1, JoinsHold
<1>5. FlattenSeq(x) \in Seq(D)
  <2>1. n \in 0..n
    OBVIOUS
  <2>2. QED
    BY <1>3, <2>1
<1>6. \A i \in 1..n : s[i] \in D => Contains(FlattenSeq(x), s[i])
  BY <1>2, <1>4
<1>7. QED
  BY <1>5, <1>6 DEF x

LEMMA KeysAre ==
    \A o : DOMAIN o \in SUBSET Range(KeyOrder) =>
      /\ Keys(o) \in Seq(DOMAIN o) /\ Len(Keys(o)) \in Nat
      /\ {Keys(o)[m] : m \in 1..Len(Keys(o))} = DOMAIN o
<1> SUFFICES ASSUME NEW o, DOMAIN o \in SUBSET Range(KeyOrder)
             PROVE  /\ Keys(o) \in Seq(DOMAIN o) /\ Len(Keys(o)) \in Nat
                    /\ {Keys(o)[m] : m \in 1..Len(Keys(o))} = DOMAIN o
  OBVIOUS
<1> DEFINE D == DOMAIN o
           n == Len(KeyOrder)
           K == Keys(o)
<1>1. n \in Nat /\ \A k \in D : \E i \in 1..n : KeyOrder[i] = k
  <2>1. KeyOrder \in Seq(Range(KeyOrder))
    BY ContainersAssumption
  <2>2. n \in Nat /\ DOMAIN KeyOrder = 1..n
    BY <2>1
  <2>3. QED
    BY <2>2 DEF Range
<1>2. K \in Seq(D) /\ \A i \in 1..n : KeyOrder[i] \in D => Contains(K, KeyOrder[i])
  <2>1. K = FlattenSeq(Choice(KeyOrder, n, D))
    BY DEF Keys, Choice
  <2> HIDE DEF D, n, K
  <2>2. QED
    BY <1>1, <2>1, ChosenAre
<1> HIDE DEF D, n, K
<1>3. Len(K) \in Nat /\ \A p \in 1..Len(K) : K[p] \in D
  BY <1>2
<1>4. \A k \in D : \E p \in 1..Len(K) : K[p] = k
  BY <1>1, <1>2 DEF Contains
<1>5. {K[m] : m \in 1..Len(K)} = D
  BY <1>3, <1>4
<1>6. QED
  BY <1>2, <1>3, <1>5 DEF K, D

-----------------------------------------------------------------------------
(* The recursion of Stringify has a solution: the path grows.                *)

Writes == Refs \X (SUBSET Refs) \X Nat \X Nat
PathOf(c) == c[2] \cup {c[1]}
Deeper(c, r) == <<r, PathOf(c), c[3], c[4] + c[3]>>
ItemOf(f, c, x) ==
    IF ~IsRef(x) THEN Plain(x, KindOf[c[1]])
    ELSE IF x.v \in PathOf(c) THEN Quoted(CircleRef)
    ELSE f[Deeper(c, x.v)]
MemberOf(f, c, k) == Quoted(k) \o <<":", " ">> \o ItemOf(f, c, heap[c[1]].obj[k])
ArrayParts(f, c) == [i \in 1..Len(heap[c[1]].arr) |-> ItemOf(f, c, heap[c[1]].arr[i])]
ObjectParts(f, c) == [i \in 1..Len(Keys(heap[c[1]].obj)) |-> MemberOf(f, c, Keys(heap[c[1]].obj)[i])]
StringOf(f, c) ==
    IF KindOf[c[1]] = "array" THEN Compose("[", ArrayParts(f, c), "]", c[3], c[4] + c[3])
    ELSE Compose("{", ObjectParts(f, c), "}", c[3], c[4] + c[3])
Left(P) == Cardinality(Refs \ P)
StringRank(c) == Left(PathOf(c))

LEMMA LeftIs ==
    \A P \in SUBSET Refs :
      /\ Left(P) \in Nat
      /\ \A r \in Refs \ P : P \cup {r} \in SUBSET Refs /\ Left(P \cup {r}) < Left(P)
<1> SUFFICES ASSUME NEW P \in SUBSET Refs
             PROVE  /\ Left(P) \in Nat
                    /\ \A r \in Refs \ P : P \cup {r} \in SUBSET Refs /\ Left(P \cup {r}) < Left(P)
  OBVIOUS
<1> DEFINE S == Refs \ P
<1>1. IsFiniteSet(S) /\ Cardinality(S) \in Nat
  <2>1. S \in SUBSET Refs
    OBVIOUS
  <2>2. IsFiniteSet(S)
    BY <2>1, ContainersAssumption, FS_Subset
  <2>3. QED
    BY <2>2, FS_CardinalityType
<1>2. ASSUME NEW r \in S
      PROVE  P \cup {r} \in SUBSET Refs /\ Left(P \cup {r}) < Left(P)
  <2>1. Refs \ (P \cup {r}) = S \ {r}
    OBVIOUS
  <2>2. Cardinality(S \ {r}) = Cardinality(S) - 1
    <3> HIDE DEF S
    <3>1. QED
      BY <1>1, FS_RemoveElement
  <2>3. Left(P \cup {r}) = Left(P) - 1
    BY <2>1, <2>2 DEF Left
  <2>4. QED
    BY <1>1, <2>3 DEF Left
<1>3. QED
  BY <1>1, <1>2 DEF Left

LEMMA WriteIs ==
    \A c \in Writes :
      /\ c[1] \in Refs /\ c[2] \in SUBSET Refs /\ c[3] \in Nat /\ c[4] \in Nat /\ c[4] + c[3] \in Nat
      /\ PathOf(c) \in SUBSET Refs /\ StringRank(c) \in Nat
      /\ \A r \in Refs : r \notin PathOf(c) => Deeper(c, r) \in Writes /\ StringRank(Deeper(c, r)) < StringRank(c)
<1> SUFFICES ASSUME NEW c \in Writes
             PROVE  /\ c[1] \in Refs /\ c[2] \in SUBSET Refs /\ c[3] \in Nat /\ c[4] \in Nat /\ c[4] + c[3] \in Nat
                    /\ PathOf(c) \in SUBSET Refs /\ StringRank(c) \in Nat
                    /\ \A r \in Refs : r \notin PathOf(c) => Deeper(c, r) \in Writes /\ StringRank(Deeper(c, r)) < StringRank(c)
  OBVIOUS
<1>1. c[1] \in Refs /\ c[2] \in SUBSET Refs /\ c[3] \in Nat /\ c[4] \in Nat
  BY DEF Writes
<1>2. PathOf(c) \in SUBSET Refs /\ c[4] + c[3] \in Nat
  BY <1>1 DEF PathOf
<1>3. ASSUME NEW r \in Refs, r \notin PathOf(c)
      PROVE  Deeper(c, r) \in Writes /\ StringRank(Deeper(c, r)) < StringRank(c)
  <2>1. Deeper(c, r) \in Writes
    BY <1>1, <1>2 DEF Deeper, Writes
  <2>2. Deeper(c, r)[1] = r /\ Deeper(c, r)[2] = PathOf(c)
    BY DEF Deeper
  <2>3. PathOf(Deeper(c, r)) = PathOf(c) \cup {r}
    BY <2>2 DEF PathOf
  <2>4. QED
    BY <1>2, <1>3, <2>1, <2>3, LeftIs DEF StringRank
<1>4. QED
  BY <1>1, <1>2, <1>3, LeftIs DEF StringRank

LEMMA StoredIn ==
    ASSUME HeapOK
    PROVE  \A r \in Refs :
             /\ heap[r].arr \in Seq(Stored) /\ Len(heap[r].arr) \in Nat
             /\ \A i \in 1..Len(heap[r].arr) : heap[r].arr[i] \in Stored /\ heap[r].arr[i] \in Held(r)
             /\ \A k \in DOMAIN heap[r].obj : heap[r].obj[k] \in Stored /\ heap[r].obj[k] \in Held(r)
             /\ DOMAIN heap[r].obj \in SUBSET Range(KeyOrder)
             /\ KindOf[r] \in {"array", "object"}
             /\ KindOf[r] = "object" => heap[r].arr = <<>>
             /\ KindOf[r] = "array" => DOMAIN heap[r].obj = {}
<1> SUFFICES ASSUME NEW r \in Refs
             PROVE  /\ heap[r].arr \in Seq(Stored) /\ Len(heap[r].arr) \in Nat
                    /\ \A i \in 1..Len(heap[r].arr) : heap[r].arr[i] \in Stored /\ heap[r].arr[i] \in Held(r)
                    /\ \A k \in DOMAIN heap[r].obj : heap[r].obj[k] \in Stored /\ heap[r].obj[k] \in Held(r)
                    /\ DOMAIN heap[r].obj \in SUBSET Range(KeyOrder)
                    /\ KindOf[r] \in {"array", "object"}
                    /\ KindOf[r] = "object" => heap[r].arr = <<>>
                    /\ KindOf[r] = "array" => DOMAIN heap[r].obj = {}
  OBVIOUS
<1>1. Ref(r) \in Stored /\ IsRef(Ref(r)) /\ Ref(r).v = r /\ Ref(r).t = KindOf[r] /\ KindOf[r] \in {"array", "object"}
  BY StoredRefs, ContainersAssumption
<1> DEFINE a == heap[r].arr
           o == heap[r].obj
<1>2. /\ a \in Seq(Stored)
      /\ \A k \in DOMAIN o : o[k] \in Stored
      /\ DOMAIN o \subseteq Range(KeyOrder)
      /\ KindOf[r] = "object" => a = <<>>
      /\ KindOf[r] # "object" => DOMAIN o = {}
  BY <1>1, Elements
<1>3. Held(r) = Range(a) \cup Range(o)
  BY DEF Held
<1> HIDE DEF a, o
<1>4. Len(a) \in Nat /\ DOMAIN a = 1..Len(a) /\ \A i \in 1..Len(a) : a[i] \in Stored
  BY <1>2
<1>5. (\A i \in 1..Len(a) : a[i] \in Held(r)) /\ \A k \in DOMAIN o : o[k] \in Held(r)
  BY <1>3, <1>4 DEF Range
<1>6. QED
  BY <1>1, <1>2, <1>4, <1>5 DEF a, o

LEMMA ItemDepends ==
    ASSUME NEW f, NEW g, NEW c \in Writes, \A d \in Writes : StringRank(d) < StringRank(c) => f[d] = g[d]
    PROVE  \A x \in Stored : ItemOf(f, c, x) = ItemOf(g, c, x)
<1> SUFFICES ASSUME NEW x \in Stored PROVE ItemOf(f, c, x) = ItemOf(g, c, x)
  OBVIOUS
<1>1. CASE IsRef(x) /\ x.v \notin PathOf(c)
  <2>1. Deeper(c, x.v) \in Writes /\ StringRank(Deeper(c, x.v)) < StringRank(c)
    BY <1>1, StoredRefs, WriteIs
  <2>2. f[Deeper(c, x.v)] = g[Deeper(c, x.v)]
    BY <2>1
  <2>3. QED
    BY <1>1, <2>2 DEF ItemOf
<1>2. CASE ~(IsRef(x) /\ x.v \notin PathOf(c))
  BY <1>2 DEF ItemOf
<1>3. QED
  BY <1>1, <1>2

LEMMA StringDepends ==
    ASSUME HeapOK, NEW f, NEW g, NEW c \in Writes, \A d \in Writes : StringRank(d) < StringRank(c) => f[d] = g[d]
    PROVE  StringOf(f, c) = StringOf(g, c)
<1>1. \A x \in Stored : ItemOf(f, c, x) = ItemOf(g, c, x)
  BY ItemDepends
<1> DEFINE r == c[1]
<1>2. r \in Refs
  BY WriteIs
<1>3. ArrayParts(f, c) = ArrayParts(g, c)
  <2>1. \A i \in 1..Len(heap[r].arr) : ItemOf(f, c, heap[r].arr[i]) = ItemOf(g, c, heap[r].arr[i])
    BY <1>1, <1>2, StoredIn
  <2>2. QED
    BY <2>1 DEF ArrayParts
<1>4. ObjectParts(f, c) = ObjectParts(g, c)
  <2> DEFINE K == Keys(heap[r].obj)
  <2>1. DOMAIN heap[r].obj \in SUBSET Range(KeyOrder)
    BY <1>2, StoredIn
  <2>2. \A i \in 1..Len(K) : K[i] \in DOMAIN heap[r].obj
    BY <2>1, KeysAre
  <2>3. \A i \in 1..Len(K) : MemberOf(f, c, K[i]) = MemberOf(g, c, K[i])
    <3> HIDE DEF K
    <3>1. QED
      BY <1>1, <1>2, <2>2, StoredIn DEF MemberOf
  <2>4. QED
    BY <2>3 DEF ObjectParts
<1>5. QED
  BY <1>3, <1>4 DEF StringOf

StringsUpTo(f, n) == \A c \in Writes : StringRank(c) < n => f[c] = StringOf(f, c)

LEMMA StringsExist ==
    ASSUME HeapOK, NEW n \in Nat
    PROVE  \E f : StringsUpTo(f, n)
<1> DEFINE T == {m \in 0..n : \E f : StringsUpTo(f, m)}
<1>0. \A c \in Writes : StringRank(c) \in Nat
  BY WriteIs
<1>1. 0 \in T
  <2>1. \A c \in Writes : ~(StringRank(c) < 0)
    BY <1>0
  <2>2. \A f : StringsUpTo(f, 0)
    BY <2>1 DEF StringsUpTo
  <2>3. QED
    BY <2>2
<1>2. ASSUME NEW m \in 1..n, m - 1 \in T
      PROVE  m \in T
  <2>1. PICK f : StringsUpTo(f, m - 1)
    BY <1>2
  <2> DEFINE g == [c \in Writes |-> IF StringRank(c) < m - 1 THEN f[c] ELSE StringOf(f, c)]
  <2>2. ASSUME NEW c \in Writes, StringRank(c) < m
        PROVE  g[c] = StringOf(g, c)
    <3>1. \A d \in Writes : StringRank(d) < StringRank(c) => f[d] = g[d]
      <4>1. \A d \in Writes : StringRank(d) < StringRank(c) => StringRank(d) < m - 1
        BY <1>0, <2>2
      <4>2. QED
        BY <4>1
    <3>2. StringOf(f, c) = StringOf(g, c)
      <4> HIDE DEF g
      <4>1. QED
        BY <3>1, StringDepends
    <3>3. g[c] = StringOf(f, c)
      <4>1. CASE StringRank(c) < m - 1
        BY <2>1, <4>1 DEF StringsUpTo
      <4>2. CASE ~(StringRank(c) < m - 1)
        BY <4>2
      <4>3. QED
        BY <4>1, <4>2
    <3>4. QED
      BY <3>2, <3>3
  <2> HIDE DEF g
  <2>3. StringsUpTo(g, m)
    BY <2>2 DEF StringsUpTo
  <2>4. m \in 0..n
    OBVIOUS
  <2>5. QED
    BY <2>3, <2>4
<1> HIDE DEF T
<1>3. \A m \in 0..n : m \in T
  BY <1>1, <1>2, Upward
<1>4. n \in T
  BY <1>3
<1>5. QED
  BY <1>4 DEF T

LEMMA StringifyIs ==
    ASSUME HeapOK
    PROVE  \A c \in Writes : Stringify[c] = StringOf(Stringify, c)
<1> DEFINE top == Cardinality(Refs) + 1
           Whole(f) == f = [c \in Writes |-> StringOf(f, c)]
<1>1. top \in Nat /\ \A c \in Writes : StringRank(c) < top
  <2>1. Cardinality(Refs) \in Nat
    BY ContainersAssumption, FS_CardinalityType
  <2>2. ASSUME NEW c \in Writes
        PROVE  StringRank(c) < top
    <3>1. Refs \ PathOf(c) \in SUBSET Refs
      OBVIOUS
    <3>2. Cardinality(Refs \ PathOf(c)) <= Cardinality(Refs)
      BY <3>1, ContainersAssumption, FS_Subset
    <3>3. StringRank(c) \in Nat
      BY WriteIs
    <3>4. QED
      BY <2>1, <3>2, <3>3 DEF StringRank, Left
  <2>3. QED
    BY <2>1, <2>2
<1> HIDE DEF top
<1>2. PICK f : StringsUpTo(f, top)
  BY <1>1, StringsExist
<1> DEFINE g == [c \in Writes |-> f[c]]
<1>3. ASSUME NEW c \in Writes
      PROVE  g[c] = StringOf(g, c)
  <2>1. \A d \in Writes : f[d] = g[d]
    OBVIOUS
  <2>2. StringOf(f, c) = StringOf(g, c)
    <3> HIDE DEF g
    <3>1. QED
      BY <2>1, StringDepends
  <2>3. f[c] = StringOf(f, c)
    BY <1>1, <1>2 DEF StringsUpTo
  <2>4. QED
    BY <2>2, <2>3
<1>4. Whole(g)
  <2>1. g = [c \in Writes |-> g[c]]
    OBVIOUS
  <2> HIDE DEF g
  <2>2. [c \in Writes |-> g[c]] = [c \in Writes |-> StringOf(g, c)]
    BY <1>3
  <2>3. QED
    BY <2>1, <2>2
<1>5. Stringify = CHOOSE h : Whole(h)
  BY DEF Stringify, StringOf, ArrayParts, ObjectParts, MemberOf, ItemOf, PathOf, Deeper, Writes
<1>6. Whole(Stringify)
  <2> HIDE DEF Whole, g
  <2>1. QED
    BY <1>4, <1>5
<1>7. Stringify = [c \in Writes |-> StringOf(Stringify, c)]
  BY <1>6
<1> HIDE DEF Stringify
<1>8. QED
  BY <1>7

-----------------------------------------------------------------------------
(* The recursion of Unfold has a solution, too.                              *)

Views == Stored \X (SUBSET Refs)
Below(c, y) == <<y, c[2] \cup {c[1].v}>>
PlainTree(x) == IF x.t = "function" THEN Leaf("string", Source) ELSE Leaf(x.t, ValueText(x))
TreeOf(f, c) ==
    IF ~IsRef(c[1]) THEN PlainTree(c[1])
    ELSE IF c[1].v \in c[2] THEN Leaf("string", CircleRef)
    ELSE Tree(c[1].t, <<>>, [i \in 1..Len(heap[c[1].v].arr) |-> f[Below(c, heap[c[1].v].arr[i])]],
              [k \in DOMAIN heap[c[1].v].obj |-> f[Below(c, heap[c[1].v].obj[k])]])
UnfoldRank(c) == Left(c[2])

LEMMA ViewIs ==
    \A c \in Views :
      /\ c[1] \in Stored /\ c[2] \in SUBSET Refs /\ UnfoldRank(c) \in Nat
      /\ IsRef(c[1]) => c[1].v \in Refs
      /\ IsRef(c[1]) /\ c[1].v \notin c[2] =>
           \A y \in Stored : Below(c, y) \in Views /\ UnfoldRank(Below(c, y)) < UnfoldRank(c)
<1> SUFFICES ASSUME NEW c \in Views
             PROVE  /\ c[1] \in Stored /\ c[2] \in SUBSET Refs /\ UnfoldRank(c) \in Nat
                    /\ IsRef(c[1]) => c[1].v \in Refs
                    /\ IsRef(c[1]) /\ c[1].v \notin c[2] =>
                         \A y \in Stored : Below(c, y) \in Views /\ UnfoldRank(Below(c, y)) < UnfoldRank(c)
  OBVIOUS
<1>1. c[1] \in Stored /\ c[2] \in SUBSET Refs
  BY DEF Views
<1>2. IsRef(c[1]) => c[1].v \in Refs
  BY <1>1, StoredRefs
<1>3. UnfoldRank(c) \in Nat
  BY <1>1, LeftIs DEF UnfoldRank
<1>4. ASSUME IsRef(c[1]), c[1].v \notin c[2], NEW y \in Stored
      PROVE  Below(c, y) \in Views /\ UnfoldRank(Below(c, y)) < UnfoldRank(c)
  <2>1. c[2] \cup {c[1].v} \in SUBSET Refs /\ Left(c[2] \cup {c[1].v}) < Left(c[2])
    BY <1>1, <1>2, <1>4, LeftIs
  <2>2. Below(c, y) \in Views
    BY <2>1 DEF Below, Views
  <2>3. Below(c, y)[2] = c[2] \cup {c[1].v}
    BY DEF Below
  <2>4. QED
    BY <2>1, <2>2, <2>3 DEF UnfoldRank
<1>5. QED
  BY <1>1, <1>2, <1>3, <1>4

LEMMA TreeDepends ==
    ASSUME HeapOK, NEW f, NEW g, NEW c \in Views, \A d \in Views : UnfoldRank(d) < UnfoldRank(c) => f[d] = g[d]
    PROVE  TreeOf(f, c) = TreeOf(g, c)
<1>1. CASE IsRef(c[1]) /\ c[1].v \notin c[2]
  <2>1. \A y \in Stored : f[Below(c, y)] = g[Below(c, y)]
    BY <1>1, ViewIs
  <2> DEFINE r == c[1].v
  <2>2. r \in Refs
    BY <1>1, ViewIs
  <2>3. /\ \A i \in 1..Len(heap[r].arr) : heap[r].arr[i] \in Stored
        /\ \A k \in DOMAIN heap[r].obj : heap[r].obj[k] \in Stored
    BY <2>2, StoredIn
  <2>4. /\ \A i \in 1..Len(heap[r].arr) : f[Below(c, heap[r].arr[i])] = g[Below(c, heap[r].arr[i])]
        /\ \A k \in DOMAIN heap[r].obj : f[Below(c, heap[r].obj[k])] = g[Below(c, heap[r].obj[k])]
    BY <2>1, <2>3
  <2>5. QED
    BY <2>4 DEF TreeOf
<1>2. CASE ~(IsRef(c[1]) /\ c[1].v \notin c[2])
  BY <1>2 DEF TreeOf
<1>3. QED
  BY <1>1, <1>2

TreesUpTo(f, n) == \A c \in Views : UnfoldRank(c) < n => f[c] = TreeOf(f, c)

LEMMA TreesExist ==
    ASSUME HeapOK, NEW n \in Nat
    PROVE  \E f : TreesUpTo(f, n)
<1> DEFINE T == {m \in 0..n : \E f : TreesUpTo(f, m)}
<1>0. \A c \in Views : UnfoldRank(c) \in Nat
  BY ViewIs
<1>1. 0 \in T
  <2>1. \A c \in Views : ~(UnfoldRank(c) < 0)
    BY <1>0
  <2>2. \A f : TreesUpTo(f, 0)
    BY <2>1 DEF TreesUpTo
  <2>3. QED
    BY <2>2
<1>2. ASSUME NEW m \in 1..n, m - 1 \in T
      PROVE  m \in T
  <2>1. PICK f : TreesUpTo(f, m - 1)
    BY <1>2
  <2> DEFINE g == [c \in Views |-> IF UnfoldRank(c) < m - 1 THEN f[c] ELSE TreeOf(f, c)]
  <2>2. ASSUME NEW c \in Views, UnfoldRank(c) < m
        PROVE  g[c] = TreeOf(g, c)
    <3>1. \A d \in Views : UnfoldRank(d) < UnfoldRank(c) => f[d] = g[d]
      <4>1. \A d \in Views : UnfoldRank(d) < UnfoldRank(c) => UnfoldRank(d) < m - 1
        BY <1>0, <2>2
      <4>2. QED
        BY <4>1
    <3>2. TreeOf(f, c) = TreeOf(g, c)
      <4> HIDE DEF g
      <4>1. QED
        BY <3>1, TreeDepends
    <3>3. g[c] = TreeOf(f, c)
      <4>1. CASE UnfoldRank(c) < m - 1
        BY <2>1, <4>1 DEF TreesUpTo
      <4>2. CASE ~(UnfoldRank(c) < m - 1)
        BY <4>2
      <4>3. QED
        BY <4>1, <4>2
    <3>4. QED
      BY <3>2, <3>3
  <2> HIDE DEF g
  <2>3. TreesUpTo(g, m)
    BY <2>2 DEF TreesUpTo
  <2>4. m \in 0..n
    OBVIOUS
  <2>5. QED
    BY <2>3, <2>4
<1> HIDE DEF T
<1>3. \A m \in 0..n : m \in T
  BY <1>1, <1>2, Upward
<1>4. n \in T
  BY <1>3
<1>5. QED
  BY <1>4 DEF T

LEMMA UnfoldIs ==
    ASSUME HeapOK
    PROVE  \A c \in Views : Unfold[c] = TreeOf(Unfold, c)
<1> DEFINE top == Cardinality(Refs) + 1
           Whole(f) == f = [c \in Views |-> TreeOf(f, c)]
<1>1. top \in Nat /\ \A c \in Views : UnfoldRank(c) < top
  <2>1. Cardinality(Refs) \in Nat
    BY ContainersAssumption, FS_CardinalityType
  <2>2. ASSUME NEW c \in Views
        PROVE  UnfoldRank(c) < top
    <3>1. Refs \ c[2] \in SUBSET Refs
      OBVIOUS
    <3>2. Cardinality(Refs \ c[2]) <= Cardinality(Refs)
      BY <3>1, ContainersAssumption, FS_Subset
    <3>3. UnfoldRank(c) \in Nat
      BY ViewIs
    <3>4. QED
      BY <2>1, <3>2, <3>3 DEF UnfoldRank, Left
  <2>3. QED
    BY <2>1, <2>2
<1> HIDE DEF top
<1>2. PICK f : TreesUpTo(f, top)
  BY <1>1, TreesExist
<1> DEFINE g == [c \in Views |-> f[c]]
<1>3. ASSUME NEW c \in Views
      PROVE  g[c] = TreeOf(g, c)
  <2>1. \A d \in Views : f[d] = g[d]
    OBVIOUS
  <2>2. TreeOf(f, c) = TreeOf(g, c)
    <3> HIDE DEF g
    <3>1. QED
      BY <2>1, TreeDepends
  <2>3. f[c] = TreeOf(f, c)
    BY <1>1, <1>2 DEF TreesUpTo
  <2>4. QED
    BY <2>2, <2>3
<1>4. Whole(g)
  <2>1. g = [c \in Views |-> g[c]]
    OBVIOUS
  <2> HIDE DEF g
  <2>2. [c \in Views |-> g[c]] = [c \in Views |-> TreeOf(g, c)]
    BY <1>3
  <2>3. QED
    BY <2>1, <2>2
<1>5. Unfold = CHOOSE h : Whole(h)
  BY DEF Unfold, TreeOf, PlainTree, Below, Views
<1>6. Whole(Unfold)
  <2> HIDE DEF Whole, g
  <2>1. QED
    BY <1>4, <1>5
<1>7. Unfold = [c \in Views |-> TreeOf(Unfold, c)]
  BY <1>6
<1> HIDE DEF Unfold
<1>8. QED
  BY <1>7

-----------------------------------------------------------------------------
(* What is written of a value reads as the value.                            *)

\* (where that is claimed).
Written(t, tr, ok) == \E K \in Seq(Keywords) : Lexes(t, K) /\ (ok = TRUE => ReadsAs(K, tr))

LEMMA LexemeWritten ==
    ASSUME TokensOK, NEW ok
    PROVE  \A w, k : Lexeme(w, k) /\ IsScalar(k) => Written(w, Scalar(k), ok)
<1> SUFFICES ASSUME NEW w, NEW k, Lexeme(w, k), IsScalar(k)
             PROVE  Written(w, Scalar(k), ok)
  OBVIOUS
<1>1. k \in Keywords
  BY LexemeIs
<1>2. Lexes(w, <<k>>)
  BY LexToken
<1>3. ReadsAs(<<k>>, Scalar(k))
  BY <1>1, ScalarReadsAs
<1>4. <<k>> \in Seq(Keywords)
  BY <1>1
<1>5. QED
  BY <1>2, <1>3, <1>4 DEF Written

LEMMA QuotedWritten ==
    ASSUME TokensOK, NEW ok
    PROVE  \A s : Escapable(s) => Written(Quoted(s), Leaf("string", s), ok)
<1> SUFFICES ASSUME NEW s, Escapable(s)
             PROVE  Written(Quoted(s), Leaf("string", s), ok)
  OBVIOUS
<1> DEFINE k == InQuotes(s)
<1>1. s \in Seq(Characters)
  BY EscapableIs
<1>2. k[1] = QuoteMark /\ toStringContent(k) = s
  BY <1>1, KeyIs, InQuotesAre
<1>3. Lexeme(Quoted(s), k)
  BY DEF Lexeme
<1> HIDE DEF k
<1>4. k[1] = "\""
  BY <1>2 DEF QuoteMark
<1>5. k # Null
  <2>1. Null[1] = "n"
    BY DEF Null
  <2>2. QED
    BY <1>4, <2>1
<1>6. IsScalar(k) /\ Scalar(k) = Leaf("string", s)
  BY <1>2, <1>4, <1>5 DEF IsScalar, Scalar
<1>7. QED
  BY <1>3, <1>6, LexemeWritten

LEMMA NumeralWritten ==
    ASSUME TokensOK, NEW ok
    PROVE  \A v : IsNumeral(v) => Written(v, Leaf("number", v), ok)
<1> SUFFICES ASSUME NEW v, IsNumeral(v)
             PROVE  Written(v, Leaf("number", v), ok)
  OBVIOUS
<1>1. Lexeme(v, v)
  BY DEF Lexeme
<1>2. v[1] \in Digits \/ (v[1] = "-" /\ Len(v) > 1)
  <2>1. Len(v) \in Nat /\ (v[1] \in Digits \/ (v[1] = "-" /\ Len(v) >= 2))
    BY NumeralSteps
  <2>2. QED
    BY <2>1
<1>3. v[1] # "\"" /\ v[1] # "n"
  BY <1>2 DEF Digits
<1>4. v # Null
  <2>1. Null[1] = "n"
    BY DEF Null
  <2>2. QED
    BY <1>3, <2>1
<1>5. IsNumeric(v)
  BY <1>2 DEF IsNumeric
<1>6. IsScalar(v) /\ Scalar(v) = Leaf("number", v)
  BY <1>3, <1>4, <1>5 DEF IsScalar, Scalar
<1>7. QED
  BY <1>1, <1>6, LexemeWritten

LEMMA WordsWritten ==
    ASSUME TokensOK, NEW ok
    PROVE  /\ Written(Null, Leaf("null", Null), ok)
           /\ \A v \in Booleans : Written(v, Leaf("boolean", v), ok)
<1>1. Written(Null, Leaf("null", Null), ok)
  <2>1. Lexeme(Null, Null)
    BY DEF Lexeme, Words
  <2>2. IsScalar(Null) /\ Scalar(Null) = Leaf("null", Null)
    BY DEF IsScalar, Scalar
  <2>3. QED
    BY <2>1, <2>2, LexemeWritten
<1>2. ASSUME NEW v \in Booleans
      PROVE  Written(v, Leaf("boolean", v), ok)
  <2>1. Lexeme(v, v)
    BY DEF Lexeme, Words
  <2>2. v[1] \in {"t", "f"}
    BY DEF Booleans
  <2>3. v # Null
    <3>1. Null[1] = "n"
      BY DEF Null
    <3>2. QED
      BY <2>2, <3>1
  <2>4. v[1] # "\"" /\ ~IsNumeric(v)
    BY <2>2 DEF IsNumeric, Digits
  <2>5. IsScalar(v) /\ Scalar(v) = Leaf("boolean", v)
    BY <2>3, <2>4 DEF IsScalar, Scalar
  <2>6. QED
    BY <2>1, <2>5, LexemeWritten
<1>3. QED
  BY <1>1, <1>2

LEMMA NamesAreEscapable == Escapable(CircleRef) /\ Escapable(Source)
<1> DEFINE C == {"r", "e", "f", "n"}
<1>1. C \subseteq Characters /\ "\n" \notin C /\ "\\" \notin C
  BY DEF Characters, Letters
<1>2. CircleRef \in Seq(C) /\ Source \in Seq(C) /\ Len(CircleRef) = 3 /\ Len(Source) = 2
  BY DEF CircleRef, Source
<1> HIDE DEF C
<1>3. ASSUME NEW s \in Seq(C)
      PROVE  Escapable(s)
  <2>1. Len(s) \in Nat /\ s = [i \in 1..Len(s) |-> s[i]] /\ \A i \in 1..Len(s) : s[i] \in C
    OBVIOUS
  <2>2. s \in Seq(Characters)
    BY <1>1, <2>1
  <2>3. "\n" \notin Range(s)
    BY <1>1, <2>1 DEF Range
  <2>4. s # <<>> => s[Len(s)] # "\\"
    <3>1. s # <<>> => Len(s) \in 1..Len(s)
      BY <2>1
    <3>2. QED
      BY <1>1, <2>1, <3>1
  <2>5. QED
    BY <2>2, <2>3, <2>4 DEF Escapable
<1>4. QED
  BY <1>2, <1>3

\* A numeral that is cut behind a digit is one.
LEMMA PrefixIsNumeral ==
    \A s : \A n : /\ IsNumeral(s) /\ n \in 1..Len(s) /\ s[n] # "-"
               => IsNumeral(SubSeq(s, 1, n))
<1> SUFFICES ASSUME NEW s, NEW n, IsNumeral(s), n \in 1..Len(s), s[n] # "-"
             PROVE  IsNumeral(SubSeq(s, 1, n))
  OBVIOUS
<1> DEFINE C == Digits \cup {"-", "."}
           u == SubSeq(s, 1, n)
           Fine(x, i) == x[i] \in Digits \/ (x[i] = "." /\ (i < Len(x) => x[i + 1] # "."))
<1>1. s \in Seq(C) /\ Len(s) \in Nat
  BY NumeralIs DEF IsNumeral
<1>2. /\ s[1] \in Digits \/ (s[1] = "-" /\ Len(s) >= 2 /\ s[2] \in Digits)
      /\ \A i \in 2..Len(s) : Fine(s, i)
  BY NumeralSteps
<1>3. "-" \notin Digits
  BY DEF Digits
<1> HIDE DEF C
<1>4. u \in Seq(C) /\ Len(u) = n /\ u # <<>> /\ \A i \in 1..n : u[i] = s[i]
  BY <1>1
<1> HIDE DEF u
<1>5. \A i \in 2..n : Fine(u, i)
  BY <1>1, <1>2, <1>4
<1>6. CASE s[1] = "-"
  <2>1. n >= 2 /\ u[1] = "-" /\ u[2] \in Digits
    BY <1>2, <1>3, <1>4, <1>6
  <2>2. Tail(u) # <<>> /\ Len(Tail(u)) = n - 1 /\ \A i \in 1..(n - 1) : Tail(u)[i] = u[i + 1]
    <3>1. n \in Nat /\ u \in Seq(C) /\ Len(u) = n
      BY <1>1, <1>4
    <3>2. Len(Tail(u)) = n - 1 /\ \A i \in 1..(n - 1) : Tail(u)[i] = u[i + 1]
      BY <2>1, <3>1
    <3>3. Len(<<>>) = 0
      OBVIOUS
    <3>4. Len(Tail(u)) # 0
      BY <2>1, <3>1, <3>2
    <3>5. QED
      BY <3>2, <3>3, <3>4
  <2>3. \A i \in 1..Len(Tail(u)) : Fine(Tail(u), i)
    <3>1. TAKE i \in 1..Len(Tail(u))
    <3>2. i + 1 \in 2..n /\ Tail(u)[i] = u[i + 1] /\ (i < n - 1 => Tail(u)[i + 1] = u[i + 1 + 1])
      BY <2>1, <2>2, <3>1
    <3>3. QED
      BY <1>4, <1>5, <2>2, <3>2
  <2>4. Tail(u)[1] = u[2]
    BY <1>1, <2>1, <2>2
  <2>5. IsNumeral(u)
    BY <1>4, <2>1, <2>2, <2>3, <2>4 DEF IsNumeral, C
  <2>6. QED
    BY <2>5 DEF u
<1>7. CASE s[1] # "-"
  <2>1. u[1] # "-" /\ u[1] \in Digits
    BY <1>2, <1>4, <1>7
  <2>2. \A i \in 1..Len(u) : Fine(u, i)
    BY <1>4, <1>5, <2>1
  <2>3. QED
    BY <1>4, <2>1, <2>2 DEF IsNumeral, C, u
<1>8. QED
  BY <1>6, <1>7

\* What double2stringEarse0 leaves of a numeral is one.
LEMMA CutIsNumeral ==
    \A s : IsNumeral(s) => IsNumeral(double2stringEarse0(s))
<1> SUFFICES ASSUME NEW s, IsNumeral(s)
             PROVE  IsNumeral(double2stringEarse0(s))
  OBVIOUS
<1> DEFINE dots == {i \in 1..Len(s) : s[i] = "."}
           dot == Min(dots)
           zeros == {i \in (dot + 1)..(Len(s) - 2) : \A j \in i..(i + 2) : s[j] = "0"}
           end == Min(zeros) - 1
<1>1. CASE dots = {} \/ zeros = {}
  BY <1>1 DEF double2stringEarse0
<1>2. CASE dots # {} /\ zeros # {}
  <2>1. Len(s) \in Nat
    BY NumeralIs
  <2>2. dot \in 1..Len(s) /\ s[dot] = "."
    <3>1. dots \in SUBSET (1..Len(s))
      OBVIOUS
    <3>2. dot \in dots
      <4> HIDE DEF dots
      <4>1. QED
        BY <1>2, <2>1, <3>1, LeastIs
    <3>3. QED
      BY <3>2
  <2> HIDE DEF dot
  <2>3. end \in dot..(Len(s) - 3)
    <3>1. zeros \in SUBSET (1..Len(s))
      BY <2>1, <2>2
    <3>2. Min(zeros) \in zeros
      <4> HIDE DEF zeros
      <4>1. QED
        BY <1>2, <2>1, <3>1, LeastIs
    <3>3. Min(zeros) \in (dot + 1)..(Len(s) - 2)
      BY <3>2
    <3>4. QED
      BY <2>1, <2>2, <3>3
  <2> DEFINE n == IF end = dot THEN dot - 1 ELSE end
  <2>4. double2stringEarse0(s) = SubSeq(s, 1, n)
    BY <1>2 DEF double2stringEarse0, dot
  <2> HIDE DEF end
  <2>5. /\ s[1] \in Digits \/ (s[1] = "-" /\ Len(s) >= 2 /\ s[2] \in Digits)
        /\ \A i \in 2..Len(s) : s[i] \in Digits \cup {"."}
    BY NumeralSteps
  <2>6. "." \notin Digits /\ "-" \notin Digits /\ "." # "-"
    BY DEF Digits
  <2>7. n \in 1..Len(s) /\ s[n] # "-"
    BY <2>1, <2>2, <2>3, <2>5, <2>6
  <2>8. QED
    BY <2>4, <2>7, PrefixIsNumeral
<1>3. QED
  BY <1>1, <1>2

LEMMA PlainWritten ==
    ASSUME TokensOK, NEW ok
    PROVE  \A x \in Values : \A in : (ok = TRUE /\ x.t = "function" => in = "object") => Written(Plain(x, in), PlainTree(x), ok)
<1> SUFFICES ASSUME NEW x \in Values, NEW in, ok = TRUE /\ x.t = "function" => in = "object"
             PROVE  Written(Plain(x, in), PlainTree(x), ok)
  OBVIOUS
<1>1. CASE x.t = "string" /\ Quotable(x.v)
  <2>1. Plain(x, in) = Quoted(x.v) /\ PlainTree(x) = Leaf("string", x.v)
    BY <1>1 DEF Plain, PlainTree, ValueText
  <2>2. QED
    BY <1>1, <2>1, QuotableIs, QuotedWritten
<1>2. CASE x.t = "number" /\ IsNumeral(to_string[x.v])
  <2>1. Plain(x, in) = ValueText(x) /\ PlainTree(x) = Leaf("number", ValueText(x))
    BY <1>2 DEF Plain, PlainTree
  <2>2. IsNumeral(ValueText(x))
    BY <1>2, CutIsNumeral DEF ValueText
  <2>3. QED
    BY <2>1, <2>2, NumeralWritten
<1>3. CASE x.t = "boolean" /\ x.v \in Booleans
  <2>1. Plain(x, in) = x.v /\ PlainTree(x) = Leaf("boolean", x.v)
    BY <1>3 DEF Plain, PlainTree, ValueText
  <2>2. QED
    BY <1>3, <2>1, WordsWritten
<1>4. CASE x.t = "null" /\ x.v = Null
  <2>1. Plain(x, in) = Null /\ PlainTree(x) = Leaf("null", Null)
    BY <1>4 DEF Plain, PlainTree, ValueText
  <2>2. QED
    BY <2>1, WordsWritten
<1>5. CASE x.t = "function" /\ in = "object"
  <2>1. Plain(x, in) = Quoted(Source) /\ PlainTree(x) = Leaf("string", Source)
    BY <1>5 DEF Plain, PlainTree
  <2>2. QED
    BY <2>1, NamesAreEscapable, QuotedWritten
<1>6. CASE x.t = "function" /\ x.v = Source /\ in # "object"
  <2>1. Plain(x, in) = Source /\ ok # TRUE
    BY <1>6 DEF Plain, ValueText
  <2>2. Lexeme(Source, Source)
    BY DEF Lexeme, Words
  <2>3. Lexes(Source, <<Source>>)
    BY <2>2, LexToken
  <2>4. QED
    BY <2>1, <2>3 DEF Written, Lexes
<1>7. QED
  BY <1>1, <1>2, <1>3, <1>4, <1>5, <1>6, WritableAssumption

LEMMA PartsType ==
    \A n \in Nat : \A parts : (\A i \in 1..n : parts[i] \in Seq(Characters)) =>
      [i \in 1..n |-> parts[i]] \in Seq(Seq(Characters)) /\ Len([i \in 1..n |-> parts[i]]) = n
<1> DEFINE C == Seq(Characters)
<1> HIDE DEF C
<1>1. \A n \in Nat : \A parts : (\A i \in 1..n : parts[i] \in C) =>
        [i \in 1..n |-> parts[i]] \in Seq(C) /\ Len([i \in 1..n |-> parts[i]]) = n
  OBVIOUS
<1>2. QED
  BY <1>1 DEF C

\* The tokens of the parts of a list.
LEMMA PartsRead ==
    \A ok, n, parts, tr : (\A i \in 1..n : Written(parts[i], tr[i], ok)) =>
      \E ks : \A i \in 1..n : ks[i] \in Seq(Keywords) /\ Lexes(parts[i], ks[i]) /\ (ok = TRUE => ReadsAs(ks[i], tr[i]))
<1> SUFFICES ASSUME NEW ok, NEW n, NEW parts, NEW tr, \A i \in 1..n : Written(parts[i], tr[i], ok)
             PROVE  \E ks : \A i \in 1..n : ks[i] \in Seq(Keywords) /\ Lexes(parts[i], ks[i]) /\ (ok = TRUE => ReadsAs(ks[i], tr[i]))
  OBVIOUS
<1> DEFINE Good(i, K) == Lexes(parts[i], K) /\ (ok = TRUE => ReadsAs(K, tr[i]))
           ks == [i \in 1..n |-> CHOOSE K \in Seq(Keywords) : Good(i, K)]
<1>1. \A i \in 1..n : \E K \in Seq(Keywords) : Good(i, K)
  BY DEF Written
<1> HIDE DEF Good
<1>2. \A i \in 1..n : ks[i] \in Seq(Keywords) /\ Good(i, ks[i])
  BY <1>1
<1> HIDE DEF ks
<1>3. QED
  BY <1>2 DEF Good

LEMMA ListLexes ==
    ASSUME NEW open \in Marks, NEW close \in Marks, NEW n \in Nat, NEW parts, NEW ks,
           \A i \in 1..n : Lexes(parts[i], ks[i]),
           NEW step \in Nat, NEW depth \in Nat, depth - step \in Nat
    PROVE  Lexes(Compose(open, [i \in 1..n |-> parts[i]], close, step, depth), ListTokens(open, ks, n, close))
<1> DEFINE P == [i \in 1..n |-> parts[i]]
<1>1. \A i \in 1..n : parts[i] \in Seq(Characters) /\ P[i] = parts[i]
  BY DEF Lexes
<1>2. P \in Seq(Seq(Characters)) /\ Len(P) = n
  BY <1>1, PartsType
<1>3. \A i \in 1..n : Lexes(P[i], ks[i])
  BY <1>1
<1> HIDE DEF P
<1>4. Lexes(Compose(open, P, close, step, depth), ListTokens(open, ks, n, close))
  BY <1>2, <1>3, ComposeLexes
<1>5. QED
  BY <1>4 DEF P

LEMMA ArrayWritten ==
    ASSUME TokensOK, NEW ok, NEW n \in Nat, NEW parts, NEW tr, \A i \in 1..n : Written(parts[i], tr[i], ok),
           NEW step \in Nat, NEW depth \in Nat, depth - step \in Nat
    PROVE  Written(Compose("[", [i \in 1..n |-> parts[i]], "]", step, depth),
                   Tree("array", <<>>, [j \in 1..n |-> tr[j]], <<>>), ok)
<1>1. PICK ks : \A i \in 1..n : ks[i] \in Seq(Keywords) /\ Lexes(parts[i], ks[i]) /\ (ok = TRUE => ReadsAs(ks[i], tr[i]))
  BY PartsRead
<1>2. "[" \in Marks /\ "]" \in Marks
  BY DEF Marks
<1>3. Lexes(Compose("[", [i \in 1..n |-> parts[i]], "]", step, depth), ListTokens("[", ks, n, "]"))
  BY <1>1, <1>2, ListLexes
<1>4. ok = TRUE => ReadsAs(ListTokens("[", ks, n, "]"), Tree("array", <<>>, [j \in 1..n |-> tr[j]], <<>>))
  BY <1>1, ArrayReadsAs
<1>5. QED
  BY <1>3, <1>4 DEF Written, Lexes

LEMMA JoinPair ==
    ASSUME NEW C
    PROVE  \A c, d \in C : <<c>> \o <<d>> = <<c, d>> /\ <<c>> \o <<>> = <<c>>
<1> SUFFICES ASSUME NEW c \in C, NEW d \in C
             PROVE  <<c>> \o <<d>> = <<c, d>> /\ <<c>> \o <<>> = <<c>>
  OBVIOUS
<1> DEFINE a == <<c>>
           b == <<d>>
           e == <<c, d>>
<1>1. a \in Seq(C) /\ Len(a) = 1 /\ a[1] = c /\ b \in Seq(C) /\ Len(b) = 1 /\ b[1] = d
  BY SingleIs
<1>2. e \in Seq(C) /\ Len(e) = 2 /\ e[1] = c /\ e[2] = d
  BY PairIs
<1> HIDE DEF a, b, e
<1>3. a \o <<>> = a
  BY <1>1, EmptyIs
<1>4. /\ a \o b \in Seq(C) /\ Len(a \o b) = Len(a) + Len(b)
      /\ \A p \in 1..Len(a) : (a \o b)[p] = a[p]
      /\ \A p \in 1..Len(b) : (a \o b)[Len(a) + p] = b[p]
  BY <1>1, ConcatIs
<1>5. Len(a \o b) = 2 /\ (a \o b)[1] = c /\ (a \o b)[1 + 1] = d
  BY <1>1, <1>4
<1>6. \A p \in 1..2 : p = 1 \/ p = 1 + 1
  OBVIOUS
<1>7. e[1 + 1] = d
  BY <1>2
<1>8. a \o b = e
  <2>1. \A p \in 1..2 : (a \o b)[p] = e[p]
    BY <1>2, <1>5, <1>6, <1>7
  <2>2. QED
    BY <1>2, <1>4, <1>5, <2>1, SameSequence
<1>9. QED
  BY <1>3, <1>8 DEF a, b, e

LEMMA ColonIs ==
    /\ Lexes(<<":", " ">>, << <<":">> >>) /\ Loose(<<":", " ">>) /\ Shut(<<":", " ">>)
    /\ <<":", " ">> \in Seq(Characters)
<1> DEFINE c == ":"
           b == " "
<1>1. c \in Marks /\ b \in Spaces
  BY DEF Marks, Spaces
<1>2. <<":", " ">> = <<c, b>> /\ << <<":">> >> = << <<c>> >>
  OBVIOUS
<1> HIDE DEF c, b
<1>3. c \in Characters /\ b \in Characters /\ c \notin Glue /\ b \notin Glue
  BY <1>1, MarkIs, SpacesAre
<1>4. Lexes(<<c>>, << <<c>> >>) /\ Shut(<<c>>)
  BY <1>1, MarkLexes
<1>5. Lexes(<<b>>, <<>>)
  <2>1. Lexes([i \in 1..1 |-> b], <<>>)
    BY <1>1, LexBlanks
  <2>2. [i \in 1..1 |-> b] = <<b>>
    OBVIOUS
  <2>3. QED
    BY <2>1, <2>2
<1>6. Lexes(<<c>> \o <<b>>, << <<c>> >> \o <<>>)
  BY <1>4, <1>5, ApartIs, LexJoin
<1>7. <<c>> \o <<b>> = <<c, b>> /\ << <<c>> >> \o <<>> = << <<c>> >>
  <2>1. <<c>> \in Keywords
    BY <1>3 DEF Keywords
  <2>2. QED
    BY <1>3, <2>1, JoinPair
<1>8. <<c, b>> # <<>> /\ Len(<<c, b>>) = 2 /\ <<c, b>>[1] = c /\ <<c, b>>[2] = b
  OBVIOUS
<1>9. Loose(<<c, b>>) /\ Shut(<<c, b>>)
  BY <1>3, <1>8 DEF Loose, Shut
<1>10. <<c, b>> \in Seq(Characters)
  BY <1>3, PairIs
<1>11. QED
  BY <1>2, <1>6, <1>7, <1>9, <1>10

LEMMA MemberLexes ==
    \A key, item, K : Escapable(key) /\ Lexes(item, K) =>
      Lexes(Quoted(key) \o <<":", " ">> \o item, MemberTokens(key, K))
<1> SUFFICES ASSUME NEW key, NEW item, NEW K, Escapable(key), Lexes(item, K)
             PROVE  Lexes(Quoted(key) \o <<":", " ">> \o item, MemberTokens(key, K))
  OBVIOUS
<1> DEFINE q == Quoted(key)
           k == InQuotes(key)
           c == <<":", " ">>
           m == <<":">>
<1>1. Lexes(q, <<k>>)
  <2>1. Lexeme(q, k)
    BY DEF Lexeme
  <2> HIDE DEF q, k
  <2>2. QED
    BY <2>1, LexToken
<1>2. Lexes(c, <<m>>) /\ Loose(c) /\ Shut(c) /\ c \in Seq(Characters)
  BY ColonIs
<1>3. MemberTokens(key, K) = <<k, m>> \o K
  BY DEF MemberTokens
<1>4. q \in Seq(Characters)
  BY <1>1 DEF Lexes
<1> HIDE DEF q, k, c, m
<1>5. Lexes(q \o c, <<k>> \o <<m>>)
  BY <1>1, <1>2, ApartIs, LexJoin
<1>6. <<k>> \o <<m>> = <<k, m>>
  <2>1. <<k>> \in Seq(Keywords) /\ <<m>> \in Seq(Keywords)
    BY <1>1, <1>2 DEF Lexes
  <2>2. <<k>>[1] \in Keywords /\ <<m>>[1] \in Keywords
    BY <2>1
  <2>3. QED
    BY <2>2, JoinPair
<1>7. Shut(q \o c)
  BY <1>2, <1>4, ShutBehind
<1>8. Lexes((q \o c) \o item, <<k, m>> \o K)
  BY <1>5, <1>6, <1>7, ApartIs, LexJoin
<1>9. QED
  BY <1>3, <1>8 DEF q, c

LEMMA ObjectWritten ==
    ASSUME TokensOK, NEW ok, NEW n \in Nat, NEW keys, NEW items, NEW f,
           \A m \in 1..n : Escapable(keys[m]) /\ Written(items[m], f[keys[m]], ok),
           NEW step \in Nat, NEW depth \in Nat, depth - step \in Nat
    PROVE  Written(Compose("{", [m \in 1..n |-> Quoted(keys[m]) \o <<":", " ">> \o items[m]], "}", step, depth),
                   ObjectTree(keys, n, f), ok)
<1> DEFINE tr == [m \in 1..n |-> f[keys[m]]]
           parts == [m \in 1..n |-> Quoted(keys[m]) \o <<":", " ">> \o items[m]]
<1>1. PICK vs : \A m \in 1..n : vs[m] \in Seq(Keywords) /\ Lexes(items[m], vs[m]) /\ (ok = TRUE => ReadsAs(vs[m], f[keys[m]]))
  <2>1. \A m \in 1..n : Written(items[m], tr[m], ok) /\ tr[m] = f[keys[m]]
    OBVIOUS
  <2> HIDE DEF tr, parts
  <2>2. \A m \in 1..n : Written(items[m], tr[m], ok)
    BY <2>1
  <2>3. PICK vs : \A m \in 1..n : vs[m] \in Seq(Keywords) /\ Lexes(items[m], vs[m]) /\ (ok = TRUE => ReadsAs(vs[m], tr[m]))
    BY <2>2, PartsRead
  <2>4. QED
    BY <2>1, <2>3
<1> DEFINE ks == [m \in 1..n |-> MemberTokens(keys[m], vs[m])]
<1>2. "{" \in Marks /\ "}" \in Marks
  BY DEF Marks
<1>3. \A m \in 1..n : Lexes(parts[m], ks[m])
  <2>1. \A m \in 1..n : Lexes(Quoted(keys[m]) \o <<":", " ">> \o items[m], MemberTokens(keys[m], vs[m]))
    BY <1>1, MemberLexes
  <2>2. \A m \in 1..n : parts[m] = Quoted(keys[m]) \o <<":", " ">> \o items[m] /\ ks[m] = MemberTokens(keys[m], vs[m])
    OBVIOUS
  <2> HIDE DEF parts, ks
  <2>3. QED
    BY <2>1, <2>2
<1>4. [m \in 1..n |-> parts[m]] = parts
  OBVIOUS
<1>5. ASSUME ok = TRUE
      PROVE  ReadsAs(ListTokens("{", ks, n, "}"), ObjectTree(keys, n, f))
  <2>1. \A m \in 1..n : keys[m] \in Seq(Characters) /\ ReadsAs(vs[m], f[keys[m]])
    BY <1>1, <1>5, EscapableIs
  <2>2. QED
    BY <2>1, ObjectReadsAs
<1> HIDE DEF parts, ks
<1>6. Lexes(Compose("{", [m \in 1..n |-> parts[m]], "}", step, depth), ListTokens("{", ks, n, "}"))
  BY <1>2, <1>3, ListLexes
<1>7. Written(Compose("{", parts, "}", step, depth), ObjectTree(keys, n, f), ok)
  BY <1>4, <1>5, <1>6 DEF Written, Lexes
<1>8. QED
  BY <1>7 DEF parts

-----------------------------------------------------------------------------
(* Containers, by induction over those that are not on the way.              *)

\* Containers that hold no others than these and (where it is claimed) no
\* functions in arrays.
Closed(S, ok) ==
    /\ S \in SUBSET Refs
    /\ \A s \in S : \A x \in Held(s) : IsRef(x) => x.v \in S
    /\ ok = TRUE => \A s \in S : \A x \in Range(heap[s].arr) : x.t # "function"
WrittenBelow(S, c, ok) ==
    \A r \in S : r \notin PathOf(c) => Written(Stringify[Deeper(c, r)], Unfold[<<Ref(r), PathOf(c)>>], ok)

LEMMA StoredIs ==
    \A x \in Stored : (IsRef(x) => x.v \in Refs /\ x = Ref(x.v)) /\ (~IsRef(x) => x \in Values)
<1>1. \A r \in Refs : Ref(r).v = r /\ IsRef(Ref(r))
  BY StoredRefs
<1>2. QED
  BY <1>1, ContainersAssumption DEF Stored

LEMMA ItemWritten ==
    ASSUME TokensOK, HeapOK, NEW ok, NEW S, Closed(S, ok), NEW c \in Writes, c[1] \in S, WrittenBelow(S, c, ok)
    PROVE  \A x \in Held(c[1]) : x \in Stored /\ (ok = TRUE /\ x.t = "function" => KindOf[c[1]] = "object") =>
             Written(ItemOf(Stringify, c, x), Unfold[<<x, PathOf(c)>>], ok)
<1> SUFFICES ASSUME NEW x \in Held(c[1]), x \in Stored, ok = TRUE /\ x.t = "function" => KindOf[c[1]] = "object"
             PROVE  Written(ItemOf(Stringify, c, x), Unfold[<<x, PathOf(c)>>], ok)
  OBVIOUS
<1> DEFINE P == PathOf(c)
           d == <<x, P>>
<1>1. d \in Views /\ d[1] = x /\ d[2] = P
  BY WriteIs DEF Views
<1>2. Unfold[d] = TreeOf(Unfold, d)
  BY <1>1, UnfoldIs
<1> HIDE DEF d, P
<1>3. CASE ~IsRef(x)
  <2>1. ItemOf(Stringify, c, x) = Plain(x, KindOf[c[1]])
    BY <1>3 DEF ItemOf
  <2>2. Unfold[d] = PlainTree(x)
    BY <1>1, <1>2, <1>3 DEF TreeOf
  <2>3. Written(Plain(x, KindOf[c[1]]), PlainTree(x), ok)
    BY <1>3, StoredIs, PlainWritten
  <2>4. QED
    BY <2>1, <2>2, <2>3 DEF d, P
<1>4. CASE IsRef(x) /\ x.v \in P
  <2>1. ItemOf(Stringify, c, x) = Quoted(CircleRef)
    BY <1>4 DEF ItemOf, P
  <2>2. Unfold[d] = Leaf("string", CircleRef)
    BY <1>1, <1>2, <1>4 DEF TreeOf
  <2>3. Written(Quoted(CircleRef), Leaf("string", CircleRef), ok)
    BY NamesAreEscapable, QuotedWritten
  <2>4. QED
    BY <2>1, <2>2, <2>3 DEF d, P
<1>5. CASE IsRef(x) /\ x.v \notin P
  <2>1. ItemOf(Stringify, c, x) = Stringify[Deeper(c, x.v)]
    BY <1>5 DEF ItemOf, P
  <2>2. x = Ref(x.v) /\ x.v \in S
    BY <1>5, StoredIs DEF Closed
  <2>3. Written(Stringify[Deeper(c, x.v)], Unfold[<<Ref(x.v), PathOf(c)>>], ok)
    BY <1>5, <2>2 DEF WrittenBelow, P
  <2>4. QED
    BY <2>1, <2>2, <2>3 DEF d, P
<1>6. QED
  BY <1>3, <1>4, <1>5

LEMMA StringWritten ==
    ASSUME TokensOK, HeapOK, NEW ok, NEW S, Closed(S, ok), NEW c \in Writes, c[1] \in S, c[1] \notin c[2], WrittenBelow(S, c, ok)
    PROVE  Written(Stringify[c], Unfold[<<Ref(c[1]), c[2]>>], ok)
<1> DEFINE r == c[1]
           P == PathOf(c)
           step == c[3]
           depth == c[4] + c[3]
           v == <<Ref(r), c[2]>>
           arr == heap[r].arr
           obj == heap[r].obj
           At_(x) == ItemOf(Stringify, c, x)
           Tr(x) == Unfold[<<x, P>>]
<1>1. r \in Refs /\ step \in Nat /\ depth \in Nat /\ depth - step \in Nat /\ c[2] \in SUBSET Refs
  BY WriteIs
<1>2. Stringify[c] = StringOf(Stringify, c)
  BY StringifyIs
<1>3. Unfold[v] = Tree(KindOf[r], <<>>, [i \in 1..Len(arr) |-> Tr(arr[i])], [k \in DOMAIN obj |-> Tr(obj[k])])
  <2>1. v \in Views /\ v[1] = Ref(r) /\ v[2] = c[2]
    BY <1>1, StoredRefs DEF Views
  <2>2. Unfold[v] = TreeOf(Unfold, v)
    BY <2>1, UnfoldIs
  <2>3. IsRef(Ref(r)) /\ Ref(r).v = r /\ Ref(r).t = KindOf[r]
    BY <1>1, StoredRefs
  <2>4. \A y : Below(v, y) = <<y, P>>
    BY <2>1, <2>3 DEF Below, PathOf
  <2> HIDE DEF v, P
  <2>5. Unfold[v] = Tree(Ref(r).t, <<>>, [i \in 1..Len(arr) |-> Unfold[Below(v, arr[i])]],
                         [k \in DOMAIN obj |-> Unfold[Below(v, obj[k])]])
    BY <2>1, <2>2, <2>3 DEF TreeOf
  <2>6. \A i \in 1..Len(arr) : Unfold[Below(v, arr[i])] = Unfold[<<arr[i], P>>]
    BY <2>4
  <2>7. \A k \in DOMAIN obj : Unfold[Below(v, obj[k])] = Unfold[<<obj[k], P>>]
    BY <2>4
  <2> HIDE DEF arr, obj
  <2>8. [i \in 1..Len(arr) |-> Unfold[Below(v, arr[i])]] = [i \in 1..Len(arr) |-> Unfold[<<arr[i], P>>]]
    BY <2>6
  <2>9. [k \in DOMAIN obj |-> Unfold[Below(v, obj[k])]] = [k \in DOMAIN obj |-> Unfold[<<obj[k], P>>]]
    BY <2>7
  <2>10. QED
    BY <2>3, <2>5, <2>8, <2>9
<1>4. /\ Len(arr) \in Nat
      /\ \A i \in 1..Len(arr) : arr[i] \in Stored /\ arr[i] \in Held(r) /\ arr[i] \in Range(arr)
      /\ \A k \in DOMAIN obj : obj[k] \in Stored /\ obj[k] \in Held(r)
      /\ DOMAIN obj \in SUBSET Range(KeyOrder)
      /\ KindOf[r] \in {"array", "object"}
      /\ KindOf[r] = "object" => arr = <<>>
      /\ KindOf[r] = "array" => DOMAIN obj = {}
  <2>1. arr \in Seq(Stored) => \A i \in 1..Len(arr) : arr[i] \in Range(arr)
    <3> HIDE DEF arr
    <3>1. QED
      BY DEF Range
  <2>2. QED
    BY <1>1, <2>1, StoredIn
<1>5. CASE KindOf[r] = "array"
  <2> DEFINE n == Len(arr)
             parts == [i \in 1..n |-> At_(arr[i])]
             tr == [i \in 1..n |-> Tr(arr[i])]
  <2>1. \A i \in 1..n : Written(At_(arr[i]), Tr(arr[i]), ok)
    <3>1. ok = TRUE => \A i \in 1..n : arr[i].t # "function"
      BY <1>4 DEF Closed
    <3>2. QED
      BY <1>4, <3>1, ItemWritten
  <2>2. Stringify[c] = Compose("[", parts, "]", step, depth)
    BY <1>2, <1>5 DEF StringOf, ArrayParts
  <2>3. Unfold[v] = Tree("array", <<>>, tr, <<>>)
    <3>1. [k \in DOMAIN obj |-> Tr(obj[k])] = <<>>
      <4>1. DOMAIN obj = {}
        BY <1>4, <1>5
      <4> HIDE DEF obj
      <4>2. QED
        BY <4>1
    <3>2. QED
      BY <1>3, <1>5, <3>1
  <2>4. /\ \A i \in 1..n : parts[i] = At_(arr[i]) /\ tr[i] = Tr(arr[i])
        /\ [i \in 1..n |-> parts[i]] = parts /\ [i \in 1..n |-> tr[i]] = tr
    OBVIOUS
  <2>0. n \in Nat
    BY <1>4
  <2> HIDE DEF parts, tr, At_, Tr, n, step, depth, v
  <2>5. \A i \in 1..n : Written(parts[i], tr[i], ok)
    BY <2>1, <2>4
  <2>6. Written(Compose("[", [i \in 1..n |-> parts[i]], "]", step, depth),
                Tree("array", <<>>, [i \in 1..n |-> tr[i]], <<>>), ok)
    BY <1>1, <2>0, <2>5, ArrayWritten
  <2>7. QED
    BY <2>2, <2>3, <2>4, <2>6 DEF v
<1>6. CASE KindOf[r] = "object"
  <2> DEFINE keys == Keys(obj)
             n == Len(keys)
             items == [i \in 1..n |-> At_(obj[keys[i]])]
             f == [k \in DOMAIN obj |-> Tr(obj[k])]
  <2>1. keys \in Seq(DOMAIN obj) /\ n \in Nat /\ {keys[m] : m \in 1..n} = DOMAIN obj
    <3> HIDE DEF obj
    <3>1. QED
      BY <1>4, KeysAre
  <2>2. \A m \in 1..n : keys[m] \in DOMAIN obj /\ Escapable(keys[m])
    <3>1. \A m \in 1..n : keys[m] \in DOMAIN obj
      <4> HIDE DEF keys
      <4>1. QED
        BY <2>1
    <3>2. \A k \in DOMAIN obj : Escapable(k)
      BY <1>4, WritableAssumption, QuotableIs
    <3>3. QED
      BY <3>1, <3>2
  <2>3. \A k \in DOMAIN obj : Written(At_(obj[k]), Tr(obj[k]), ok)
    BY <1>4, <1>6, ItemWritten
  <2>4. Stringify[c] = Compose("{", [m \in 1..n |-> Quoted(keys[m]) \o <<":", " ">> \o At_(obj[keys[m]])], "}", step, depth)
    <3>1. KindOf[r] # "array"
      BY <1>6
    <3>2. QED
      BY <1>2, <3>1 DEF StringOf, ObjectParts, MemberOf
  <2> HIDE DEF keys
  <2>5. Unfold[v] = ObjectTree(keys, n, f)
    <3>1. [i \in 1..Len(arr) |-> Tr(arr[i])] = <<>>
      <4>1. arr = <<>>
        BY <1>4, <1>6
      <4> HIDE DEF arr
      <4>2. Len(arr) = 0
        BY <4>1
      <4>3. QED
        BY <4>2
    <3>2. \A k \in DOMAIN obj : f[k] = Tr(obj[k])
      OBVIOUS
    <3>3. ObjectTree(keys, n, f) = Tree("object", <<>>, <<>>, [k \in DOMAIN obj |-> f[k]])
      BY <2>1 DEF ObjectTree
    <3>4. [k \in DOMAIN obj |-> f[k]] = f
      OBVIOUS
    <3>5. QED
      BY <1>3, <1>6, <3>1, <3>3, <3>4
  <2>6. /\ \A m \in 1..n : items[m] = At_(obj[keys[m]]) /\ f[keys[m]] = Tr(obj[keys[m]])
        /\ [m \in 1..n |-> Quoted(keys[m]) \o <<":", " ">> \o At_(obj[keys[m]])]
             = [m \in 1..n |-> Quoted(keys[m]) \o <<":", " ">> \o items[m]]
    BY <2>2
  <2> HIDE DEF items, f, At_, Tr, n, step, depth, v
  <2>7. \A m \in 1..n : Escapable(keys[m]) /\ Written(items[m], f[keys[m]], ok)
    BY <2>2, <2>3, <2>6
  <2>8. Written(Compose("{", [m \in 1..n |-> Quoted(keys[m]) \o <<":", " ">> \o items[m]], "}", step, depth),
                ObjectTree(keys, n, f), ok)
    BY <1>1, <2>1, <2>7, ObjectWritten
  <2>9. QED
    BY <2>4, <2>5, <2>6, <2>8 DEF v
<1>7. QED
  BY <1>4, <1>5, <1>6

LEMMA AllWritten ==
    ASSUME TokensOK, HeapOK, NEW ok, NEW S, Closed(S, ok)
    PROVE  \A c \in Writes : c[1] \in S /\ c[1] \notin c[2] => Written(Stringify[c], Unfold[<<Ref(c[1]), c[2]>>], ok)
<1> DEFINE top == Cardinality(Refs) + 1
           Done(c) == c[1] \in S /\ c[1] \notin c[2] => Written(Stringify[c], Unfold[<<Ref(c[1]), c[2]>>], ok)
           T == {m \in 0..top : \A c \in Writes : StringRank(c) < m => Done(c)}
<1>0. top \in Nat /\ \A c \in Writes : StringRank(c) \in Nat /\ StringRank(c) < top
  <2>1. Cardinality(Refs) \in Nat
    BY ContainersAssumption, FS_CardinalityType
  <2>2. ASSUME NEW c \in Writes
        PROVE  StringRank(c) \in Nat /\ StringRank(c) < top
    <3>1. Refs \ PathOf(c) \in SUBSET Refs
      OBVIOUS
    <3>2. Cardinality(Refs \ PathOf(c)) <= Cardinality(Refs)
      BY <3>1, ContainersAssumption, FS_Subset
    <3>3. StringRank(c) \in Nat
      BY WriteIs
    <3>4. QED
      BY <2>1, <3>2, <3>3 DEF StringRank, Left
  <2>3. QED
    BY <2>1, <2>2
<1> HIDE DEF top
<1>1. 0 \in T
  <2>1. \A c \in Writes : ~(StringRank(c) < 0)
    BY <1>0
  <2> HIDE DEF Done
  <2>2. QED
    BY <1>0, <2>1
<1>2. ASSUME NEW m \in 1..top, m - 1 \in T
      PROVE  m \in T
  <2>1. ASSUME NEW c \in Writes, StringRank(c) < m, c[1] \in S, c[1] \notin c[2]
        PROVE  Written(Stringify[c], Unfold[<<Ref(c[1]), c[2]>>], ok)
    <3>1. ASSUME NEW r \in S, r \notin PathOf(c)
          PROVE  Written(Stringify[Deeper(c, r)], Unfold[<<Ref(r), PathOf(c)>>], ok)
      <4> DEFINE d == Deeper(c, r)
      <4>1. d \in Writes /\ StringRank(d) < StringRank(c)
        BY <3>1, WriteIs DEF Closed
      <4>2. d[1] = r /\ d[2] = PathOf(c)
        BY DEF Deeper
      <4> HIDE DEF d
      <4>3. StringRank(d) < m - 1
        BY <1>0, <2>1, <4>1
      <4>4. Done(d)
        <5> HIDE DEF Done
        <5>1. QED
          BY <1>2, <4>1, <4>3
      <4>5. QED
        BY <3>1, <4>2, <4>4 DEF d
    <3>2. WrittenBelow(S, c, ok)
      BY <3>1 DEF WrittenBelow
    <3>3. QED
      BY <2>1, <3>2, StringWritten
  <2>2. \A c \in Writes : StringRank(c) < m => Done(c)
    BY <2>1
  <2> HIDE DEF Done
  <2>3. m \in 0..top
    BY <1>0
  <2>4. QED
    BY <2>2, <2>3
<1> HIDE DEF T
<1>3. \A m \in 0..top : m \in T
  BY <1>0, <1>1, <1>2, Upward
<1>4. top \in T
  BY <1>0, <1>3
<1>5. \A c \in Writes : Done(c)
  <2> HIDE DEF Done
  <2>1. QED
    BY <1>0, <1>4 DEF T
<1>6. QED
  BY <1>5

\* What a container reaches is closed.
LEMMA ReachedClosed ==
    ASSUME HeapOK, NEW ok, NEW r \in Refs, ok = TRUE => ~FunctionInArray(r)
    PROVE  Closed(Reached(r), ok) /\ r \in Reached(r)
<1> DEFINE closed == {S \in SUBSET Refs : \A s \in S : \A x \in Held(s) : IsRef(x) => x.v \in S}
<1>1. Reached(r) = {s \in Refs : \A S \in closed : r \in S => s \in S}
  BY DEF Reached
<1>2. ASSUME NEW s \in Reached(r), NEW x \in Held(s), IsRef(x)
      PROVE  x.v \in Reached(r)
  <2>1. s \in Refs /\ \A S \in closed : r \in S => s \in S
    BY <1>1
  <2>2. x \in Stored
    <3>2. x \in Range(heap[s].arr) \cup Range(heap[s].obj)
      BY DEF Held
    <3>3. /\ heap[s].arr \in Seq(Stored) /\ \A i \in 1..Len(heap[s].arr) : heap[s].arr[i] \in Stored
          /\ \A k \in DOMAIN heap[s].obj : heap[s].obj[k] \in Stored
      BY <2>1, StoredIn
    <3> DEFINE a == heap[s].arr
               o == heap[s].obj
    <3>4. DOMAIN a = 1..Len(a)
      <4>1. a \in Seq(Stored)
        BY <3>3
      <4> HIDE DEF a
      <4>2. QED
        BY <4>1
    <3> HIDE DEF a, o
    <3>5. QED
      BY <3>2, <3>3, <3>4 DEF Range, a, o
  <2>3. x.v \in Refs
    BY <1>2, <2>2, StoredIs
  <2>4. \A S \in closed : r \in S => x.v \in S
    BY <1>2, <2>1
  <2>5. QED
    BY <1>1, <2>3, <2>4
<1>3. ok = TRUE => \A s \in Reached(r) : \A x \in Range(heap[s].arr) : x.t # "function"
  BY DEF FunctionInArray
<1>4. Reached(r) \in SUBSET Refs /\ r \in Reached(r)
  BY <1>1
<1>5. QED
  BY <1>2, <1>3, <1>4 DEF Closed

LEMMA RootWritten ==
    ASSUME TokensOK, HeapOK, NEW ok, NEW r \in Refs, ok = TRUE => ~FunctionInArray(r), NEW step \in Nat
    PROVE  Written(Stringify[<<r, {}, step, 0>>], Unfold[<<Ref(r), {}>>], ok)
<1> DEFINE c == <<r, {}, step, 0>>
<1>1. c \in Writes /\ c[1] = r /\ c[2] = {}
  BY DEF Writes
<1> HIDE DEF c
<1>2. c[1] \in Reached(r) /\ c[1] \notin c[2] /\ Closed(Reached(r), ok)
  BY <1>1, ReachedClosed
<1>3. Written(Stringify[c], Unfold[<<Ref(c[1]), c[2]>>], ok)
  BY <1>1, <1>2, AllWritten
<1>4. QED
  BY <1>1, <1>3 DEF c

-----------------------------------------------------------------------------
(* What is written is read back.                                             *)

\* Nothing is tokenized before a value is written; then the text is its own.
RootInv ==
    /\ root = "" => Fresh /\ text = <<>> /\ outcome = "built" /\ mode = "json" /\ result = Unread
    /\ root # "" => outcome # "built"
    /\ root \in Refs => mode = "json" /\ \E step \in Indents : text = Stringify[<<root, {}, step, 0>>]
ReadInv ==
    root \in Refs /\ result # Unread /\ ~FunctionInArray(root) =>
      result.at = Len(res) /\ result.tree = Unfold[<<Ref(root), {}>>]
JInv == HeapOK /\ ReaderInv /\ CutInv /\ QuoteInv /\ RootInv /\ ReadInv

LEMMA FreshCuts == Fresh => CutInv /\ QuoteInv
<1> SUFFICES ASSUME Fresh PROVE CutInv /\ QuoteInv
  OBVIOUS
<1>1. ptr = 0 /\ res = <<>> /\ Len(res) = 0 /\ outcome \in {"built", "running"}
  BY DEF Fresh
<1>2. ASSUME outcome # "built", NEW K \in Seq(Keywords), NEW B, Cut(text, K, B)
      PROVE  ReadOff(K, B)
  <2>1. <<0, 0>> \in B
    BY <1>2 DEF Cut
  <2>2. Len(K) \in Nat
    BY LenIsNat
  <2>3. QED
    BY <1>1, <1>2, <2>1, <2>2 DEF ReadOff
<1>3. CutInv
  BY <1>2 DEF CutInv
<1>4. QED
  BY <1>1, <1>3 DEF QuoteInv

LEMMA TextWritten ==
    ASSUME HeapOK, NEW r \in Refs, ~FunctionInArray(r), NEW step \in Nat, TokensOK
    PROVE  \E K \in Seq(Keywords) : /\ \E B : Cut(Stringify[<<r, {}, step, 0>>], K, B)
                                    /\ ReadsAs(K, Unfold[<<Ref(r), {}>>])
<1>1. Written(Stringify[<<r, {}, step, 0>>], Unfold[<<Ref(r), {}>>], TRUE)
  BY RootWritten
<1>2. QED
  BY <1>1 DEF Written, Lexes

LEMMA TextTyped ==
    ASSUME HeapOK, NEW r \in Refs, NEW step \in Nat, TokensOK
    PROVE  Stringify[<<r, {}, step, 0>>] \in Seq(Characters)
<1>1. Written(Stringify[<<r, {}, step, 0>>], Unfold[<<Ref(r), {}>>], FALSE)
  BY RootWritten
<1>2. QED
  BY <1>1 DEF Written, Lexes

LEMMA RootTree ==
    ASSUME HeapOK, NEW r \in Refs
    PROVE  Unfold[<<Ref(r), {}>>].t \in {"array", "object"}
<1> DEFINE v == <<Ref(r), {}>>
<1>1. v \in Views /\ v[1] = Ref(r) /\ v[2] = {}
  BY StoredRefs DEF Views
<1>2. Unfold[v] = TreeOf(Unfold, v)
  BY <1>1, UnfoldIs
<1>3. IsRef(Ref(r)) /\ Ref(r).t = KindOf[r] /\ KindOf[r] \in {"array", "object"}
  BY StoredRefs, ContainersAssumption
<1>4. \A t, a, o : Tree(t, <<>>, a, o).t = t
  BY DEF Tree
<1> HIDE DEF v
<1>5. \E a, o : TreeOf(Unfold, v) = Tree(Ref(r).t, <<>>, a, o)
  BY <1>1, <1>3 DEF TreeOf
<1>6. Unfold[v].t = Ref(r).t
  BY <1>2, <1>4, <1>5
<1>7. QED
  BY <1>3, <1>6 DEF v

LEMMA ParseReadsBack ==
    ASSUME JInv, root \in Refs, ~FunctionInArray(root), outcome = "done"
    PROVE  Parse = Result(Unfold[<<Ref(root), {}>>], Len(res))
<1> DEFINE tr == Unfold[<<Ref(root), {}>>]
<1>1. TokensOK /\ HeapOK
  BY DEF JInv, ReaderInv, TokInv, CursorInv, TokensOK
<1>2. mode = "json" /\ \E step \in Indents : text = Stringify[<<root, {}, step, 0>>]
  BY DEF JInv, RootInv
<1>3. PICK step \in Nat : text = Stringify[<<root, {}, step, 0>>]
  BY <1>2, WritableAssumption
<1>4. PICK K \in Seq(Keywords) : (\E B : Cut(text, K, B)) /\ ReadsAs(K, tr)
  BY <1>1, <1>3, TextWritten
<1>5. PICK B : Cut(text, K, B)
  BY <1>4
<1>6. ReadOff(K, B)
  BY <1>2, <1>5 DEF JInv, CutInv
<1>7. tr.t \in {"array", "object"}
  BY <1>1, RootTree
<1> HIDE DEF tr
<1>8. Len(res) = Len(K) /\ Len(K) \in Nat /\ Len(K) > 0 /\ \A i \in 1..Len(res) : res[i].kw = K[i]
  BY <1>4, <1>6 DEF ReadOff, ReadsAs
<1>9. \A q \in 1..Len(K) : Kw(1 + q - 1) = K[q]
  <2>1. \A q \in 1..Len(K) : 1 + q - 1 = q /\ q \in 1..Len(res)
    BY <1>8
  <2>2. QED
    BY <1>8, <2>1 DEF Kw
<1>10. Found(K, 1) /\ 1 + Len(K) - 1 = Len(res)
  BY <1>8, <1>9 DEF Found
<1>11. ValueIs(1, Len(res), tr)
  BY <1>4, <1>10 DEF ReadsAs
<1>12. Resolve[<<"value", 1, 0>>] = Result(tr, Len(res))
  BY <1>11 DEF ValueIs
<1>13. Result(tr, Len(res)).at = Len(res) /\ Result(tr, Len(res)).tree = tr
  BY DEF Result
<1>14. res # <<>>
  BY <1>8
<1>15. Parse = Result(tr, Len(res))
  BY <1>7, <1>12, <1>13, <1>14 DEF Parse
<1>16. QED
  BY <1>15 DEF tr

LEMMA HeapStays ==
    ASSUME heap' = heap
    PROVE  /\ Stringify' = Stringify /\ Unfold' = Unfold
           /\ \A r : FunctionInArray(r)' <=> FunctionInArray(r)
           /\ HeapOK' <=> HeapOK
<1>1. Stringify' = Stringify
  BY DEF Stringify
<1>2. Unfold' = Unfold
  BY DEF Unfold
<1>3. \A r : FunctionInArray(r)' <=> FunctionInArray(r)
  BY DEF FunctionInArray, Reached, Held
<1>4. HeapOK' <=> HeapOK
  BY DEF HeapOK
<1>5. QED
  BY <1>1, <1>2, <1>3, <1>4

LEMMA RunsOn == TNext => outcome' # "built"
BY DEF TNext, Operator, Number, LineComment, BlockComment, Identify, Empty, SingleChar, ConstString, Start,
       Throw, Reading

LEMMA UnreadStays == Unread' = Unread
BY DEF Unread, Fail, Result, Leaf, Tree

LEMMA FreshReads == Fresh /\ result = Unread => ReaderInv
<1>1. Fresh => TokInv
  BY FreshTokInv
<1>2. QED
  BY <1>1 DEF ReaderInv, AcceptsJson

LEMMA EmptyText == <<>> \in Seq(Characters)
OBVIOUS

LEMMA NoRefs == "" \notin Refs /\ "elsewhere" \notin Refs
BY WritableAssumption

LEMMA InitJInv == JInit => JInv
<1> SUFFICES ASSUME JInit PROVE JInv
  OBVIOUS
<1>1. HeapOK /\ result = Unread
  BY InitHeapOK DEF JInit
<1>2. Fresh
  <2>1. CASE TInit
    BY <2>1, InitFresh
  <2>2. CASE outcome = "built" /\ text = <<>> /\ res = <<>> /\ ptr = 0 /\ line = 0 /\ offset = 0
    BY <2>2, EmptyText DEF Fresh
  <2>3. QED
    BY <2>1, <2>2 DEF JInit
<1>3. ReaderInv /\ CutInv /\ QuoteInv
  BY <1>1, <1>2, FreshReads, FreshCuts
<1>4. RootInv
  <2>1. CASE root = "elsewhere" /\ TInit
    <3>1. outcome # "built"
      BY <2>1 DEF TInit
    <3>2. QED
      BY <2>1, <3>1, NoRefs DEF RootInv
  <2>2. CASE root = "" /\ outcome = "built" /\ mode = "json" /\ text = <<>>
    BY <1>1, <1>2, <2>2, NoRefs DEF RootInv
  <2>3. QED
    BY <2>1, <2>2 DEF JInit
<1>5. ReadInv
  BY <1>1 DEF ReadInv
<1>6. QED
  BY <1>1, <1>3, <1>4, <1>5 DEF JInv

\* What the steps of the reader keep.
LEMMA ReaderKeeps ==
    ASSUME JInv, [RNext]_rvars
    PROVE  ReaderInv' /\ CutInv' /\ QuoteInv'
<1>1. ReaderInv'
  BY NextReaderInv DEF JInv
<1>2. [TNext]_tvars
  BY DEF RNext, Read, rvars
<1>3. TextOK /\ res \in Seq(TokenSet) /\ CutInv /\ QuoteInv
  BY DEF JInv, ReaderInv, TokInv, CursorInv
<1>4. QED
  BY <1>1, <1>2, <1>3, NextCutInv, NextQuoteInv

LEMMA BuildKeeps ==
    ASSUME JInv, Build
    PROVE  JInv'
<1>1. root = "" /\ root' = "" /\ UNCHANGED rvars /\ CNext
  BY DEF Build, rvars
<1>2. HeapOK'
  BY <1>1, SetKeyHeapOK, PushItemHeapOK DEF CNext, JInv
<1>3. ReaderInv' /\ CutInv' /\ QuoteInv'
  BY <1>1, ReaderKeeps
<1>4. UNCHANGED <<text, mode, ptr, line, offset, res, outcome, result>>
  BY <1>1 DEF rvars, tvars
<1>5. Fresh /\ text = <<>> /\ outcome = "built" /\ mode = "json" /\ result = Unread
  BY <1>1 DEF JInv, RootInv
<1>6. Fresh'
  BY <1>4, <1>5 DEF Fresh
<1>7. RootInv'
  BY <1>1, <1>4, <1>5, <1>6, NoRefs, UnreadStays DEF RootInv
<1>8. ReadInv'
  BY <1>1, NoRefs DEF ReadInv
<1>9. QED
  BY <1>2, <1>3, <1>7, <1>8 DEF JInv

LEMMA WriteKeeps ==
    ASSUME JInv, NEW r \in Refs, NEW step \in Indents, Write(r, step)
    PROVE  JInv'
<1>1. /\ root = "" /\ root' = r /\ text' = Stringify[<<r, {}, step, 0>>] /\ outcome' = "running"
      /\ UNCHANGED <<mode, ptr, line, offset, res, heap, result>>
  BY DEF Write
<1>2. Fresh /\ mode = "json" /\ result = Unread /\ HeapOK
  BY <1>1 DEF JInv, RootInv
<1>3. Fresh'
  <2>1. TokensOK /\ step \in Nat
    BY WritableAssumption DEF JInv, ReaderInv, TokInv, CursorInv, TokensOK
  <2>2. text' \in Seq(Characters)
    BY <1>1, <1>2, <2>1, TextTyped
  <2>3. QED
    BY <1>1, <1>2, <2>2 DEF Fresh
<1>4. result' = Unread'
  BY <1>1, <1>2, UnreadStays
<1>5. ReaderInv' /\ CutInv' /\ QuoteInv'
  <2>1. Fresh' => CutInv' /\ QuoteInv'
    BY FreshCuts, PTL
  <2>2. (Fresh /\ result = Unread)' => ReaderInv'
    BY FreshReads, PTL
  <2>3. QED
    BY <1>3, <1>4, <2>1, <2>2
<1>6. HeapOK' /\ Stringify' = Stringify
  BY <1>1, <1>2, HeapStays
<1>7. RootInv'
  <2>1. mode' = "json" /\ text' = Stringify'[<<root', {}, step, 0>>]
    BY <1>1, <1>2, <1>6
  <2>2. root' # "" /\ outcome' # "built"
    BY <1>1, NoRefs
  <2>3. QED
    BY <2>1, <2>2 DEF RootInv
<1>8. ReadInv'
  BY <1>4 DEF ReadInv
<1>9. QED
  BY <1>5, <1>6, <1>7, <1>8 DEF JInv

LEMMA ReadKeeps ==
    ASSUME JInv, root' = root, heap' = heap, (TNext /\ UNCHANGED result) \/ Read \/ UNCHANGED rvars
    PROVE  JInv'
<1>1. [RNext]_rvars
  BY DEF RNext
<1>2. ReaderInv' /\ CutInv' /\ QuoteInv'
  BY <1>1, ReaderKeeps
<1>3. HeapOK' /\ Stringify' = Stringify /\ Unfold' = Unfold /\ \A r : FunctionInArray(r)' <=> FunctionInArray(r)
  BY HeapStays DEF JInv
<1>4. text' = text /\ mode' = mode
  BY TextAndMode DEF Read, rvars, tvars
<1>5. RootInv'
  <2>1. ASSUME TNext
        PROVE  root # "" /\ outcome' # "built"
    BY <2>1, TokenizerRuns, RunsOn DEF JInv, RootInv
  <2>2. ASSUME Read
        PROVE  root # "" /\ outcome' = outcome
    BY <2>2 DEF Read, tvars, JInv, RootInv
  <2>3. ASSUME UNCHANGED rvars
        PROVE  outcome' = outcome /\ result' = result /\ (Fresh' <=> Fresh)
    BY <2>3 DEF rvars, tvars, Fresh
  <2>4. root # "" => outcome' # "built"
    BY <2>1, <2>2, <2>3 DEF JInv, RootInv
  <2>5. root = "" => Fresh' /\ text' = <<>> /\ outcome' = "built" /\ mode' = "json" /\ result' = Unread'
    <3>1. SUFFICES ASSUME root = ""
                   PROVE  Fresh' /\ text' = <<>> /\ outcome' = "built" /\ mode' = "json" /\ result' = Unread'
      OBVIOUS
    <3>2. UNCHANGED rvars
      BY <2>1, <2>2, <3>1
    <3>3. outcome' = outcome /\ result' = result /\ (Fresh' <=> Fresh)
      BY <2>3, <3>2
    <3>4. QED
      BY <1>4, <3>1, <3>3, UnreadStays DEF JInv, RootInv
  <2>6. root \in Refs => mode' = "json" /\ \E step \in Indents : text' = Stringify'[<<root, {}, step, 0>>]
    BY <1>3, <1>4 DEF JInv, RootInv
  <2>7. QED
    BY <2>4, <2>5, <2>6 DEF RootInv
<1>6. ReadInv'
  <2>1. SUFFICES ASSUME root \in Refs, result' # Unread, ~FunctionInArray(root)
                 PROVE  result'.at = Len(res') /\ result'.tree = Unfold[<<Ref(root), {}>>]
    BY <1>3, UnreadStays DEF ReadInv, Ref, Val
  <2>2. CASE TNext /\ UNCHANGED result
    BY <2>1, <2>2, TokenizerRuns DEF JInv, ReaderInv
  <2>3. CASE Read
    <3>1. result' = Parse /\ res' = res /\ outcome = "done"
      BY <2>3 DEF Read, tvars
    <3>2. Parse = Result(Unfold[<<Ref(root), {}>>], Len(res))
      BY <2>1, <3>1, ParseReadsBack
    <3>3. QED
      BY <3>1, <3>2 DEF Result
  <2>4. CASE UNCHANGED rvars
    <3>1. result' = result /\ res' = res
      BY <2>4 DEF rvars, tvars
    <3>2. QED
      BY <2>1, <3>1 DEF JInv, ReadInv
  <2>5. QED
    BY <2>2, <2>3, <2>4
<1>7. QED
  BY <1>2, <1>3, <1>5, <1>6 DEF JInv

LEMMA NextJInv == JInv /\ [JNext]_jvars => JInv'
<1>1. ASSUME JInv, UNCHANGED jvars PROVE JInv'
  BY <1>1, ReadKeeps DEF jvars
<1>2. ASSUME JInv, Tokenize \/ ReadText PROVE JInv'
  BY <1>2, ReadKeeps DEF Tokenize, ReadText
<1>3. QED
  BY <1>1, <1>2, BuildKeeps, WriteKeeps DEF JNext

LEMMA JInvReadsBack == JInv => ReadsBack
<1> SUFFICES ASSUME JInv PROVE ReadsBack
  OBVIOUS
<1>1. QuotesReadBack
  <2>1. SUFFICES ASSUME NEW s \in Contents, text = Quoted(s), outcome # "running"
                 PROVE  /\ outcome = "done" /\ Len(res) = 1
                        /\ SubSeq(res[1].kw, 2, Len(res[1].kw) - 1) = s
    BY DEF QuotesReadBack
  <2>2. Escapable(s) /\ s \in Seq(Characters)
    BY TextsAssumption, QuotableIs, EscapableIs
  <2>3. outcome # "built"
    <3>1. Len(Escape(s)) \in Nat /\ Len(text) = Len(Escape(s)) + 2
      BY <2>1, <2>2, QuotedInside
    <3>2. Len(<<>>) = 0
      OBVIOUS
    <3>3. text # <<>>
      BY <3>1, <3>2
    <3>4. QED
      BY <3>3 DEF JInv, RootInv
  <2>4. outcome = "done" /\ Len(res) = 1 /\ res[1].kw = InQuotes(s)
    BY <2>1, <2>2, <2>3 DEF JInv, QuoteInv
  <2>5. toStringContent(InQuotes(s)) = s
    BY <2>2, KeyIs
  <2>6. QED
    BY <2>4, <2>5 DEF toStringContent
<1>2. ASSUME root \in Refs, outcome # "running", ~FunctionInArray(root)
      PROVE  /\ outcome = "done"
             /\ result # Unread => result.at = Len(res) /\ result.tree = Unfold[<<Ref(root), {}>>]
  <2>1. TokensOK /\ HeapOK /\ mode = "json" /\ outcome # "built"
    BY <1>2, NoRefs DEF JInv, ReaderInv, TokInv, CursorInv, TokensOK, RootInv
  <2>2. PICK step \in Nat : text = Stringify[<<root, {}, step, 0>>]
    BY <1>2, WritableAssumption DEF JInv, RootInv
  <2>3. PICK K \in Seq(Keywords) : \E B : Cut(text, K, B)
    BY <1>2, <2>1, <2>2, TextWritten
  <2>4. PICK B : ReadOff(K, B)
    BY <2>1, <2>3 DEF JInv, CutInv
  <2>5. outcome = "done"
    BY <1>2, <2>4 DEF ReadOff
  <2>6. QED
    BY <1>2, <2>5 DEF JInv, ReadInv
<1>3. QED
  BY <1>1, <1>2 DEF ReadsBack

\* For all values a script can build of any number of objects and arrays, shared or
\* inside themselves, with any strings, keys and numbers that a JSON text can carry,
\* and at any indent: the text that json_stringify makes of a container, read by the
\* tokenizer, is never an error, and json_parse reads it to its last token and makes
\* the value of it that was written.
THEOREM ReadsBackHolds == JSpec => []ReadsBack
<1>1. QED
  BY InitJInv, NextJInv, JInvReadsBack, PTL DEF JSpec
=============================================================================
