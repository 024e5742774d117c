------------------------------ MODULE Containers ------------------------------
(***************************************************************************)
(* Objects and arrays in a heap (Object.cc, Vector.cc), which may share    *)
(* and contain each other, and Value::DeepCompare, deep_compare and ==     *)
(* of the scripts.  A value names its container by its address.            *)
(***************************************************************************)
EXTENDS Trees, Integers, Sequences, FiniteSetsExt, Functions

CONSTANTS KindOf,              \* the containers: "object" or "array" by name
          KeyOrder,            \* the keys, in the order of std::map
          Values,              \* the values that are no containers
          to_string,           \* std::to_string, of the numbers: six decimals
          MaxItems             \* bound on the elements of all containers

VARIABLES heap                 \* the containers: [arr, obj]

Refs == DOMAIN KindOf
Ref(r) == Val(KindOf[r], r)
IsRef(x) == x.t \in {"object", "array"}
Stored == Values \cup {Ref(r) : r \in Refs}

\* The keys of a std::map are in its order once; a value that is no container
\* has another type.
ASSUME ContainersAssumption ==
  /\ IsFiniteSet(Refs) /\ \A r \in Refs : KindOf[r] \in {"object", "array"}
  /\ KeyOrder \in Seq(Range(KeyOrder))
  /\ \A i, j \in 1..Len(KeyOrder) : KeyOrder[i] = KeyOrder[j] => i = j
  /\ \A x \in Values : ~IsRef(x)

-----------------------------------------------------------------------------
CInit == heap = [r \in Refs |-> [arr |-> <<>>, obj |-> <<>>]]

Items == FoldSet(LAMBDA r, n : n + Len(heap[r].arr) + Cardinality(DOMAIN heap[r].obj), 0, Refs)

\* What a script does: o[k] = x (GetOrCreate) and a.push(x).
SetKey(r, k, x) ==
  /\ KindOf[r] = "object" /\ Items < MaxItems
  /\ LET o == heap[r].obj
     IN  heap' = [heap EXCEPT ![r].obj = [j \in DOMAIN o \cup {k} |-> IF j = k THEN x ELSE o[j]]]
PushItem(r, x) ==
  /\ KindOf[r] = "array" /\ Items < MaxItems
  /\ heap' = [heap EXCEPT ![r].arr = Append(@, x)]

CNext == \E r \in Refs, x \in Stored : PushItem(r, x) \/ \E k \in Range(KeyOrder) : SetKey(r, k, x)

CSpec == CInit /\ [][CNext]_heap

-----------------------------------------------------------------------------
(* Value::ToString and Value::DeepCompare.                                 *)

\* What std::to_string gives is cut at the first three zeros in a row behind the
\* dot, whatever follows them: 1.0001 is "1".
double2stringEarse0(s) ==
  LET dots == {i \in 1..Len(s) : s[i] = "."}
      dot == Min(dots)
      zeros == {i \in (dot + 1)..(Len(s) - 2) : \A j \in i..(i + 2) : s[j] = "0"}
      end == Min(zeros) - 1
  IN  IF dots = {} \/ zeros = {} THEN s
      ELSE SubSeq(s, 1, IF end = dot THEN dot - 1 ELSE end)

\* Value::ToString: the text of a value that is no container; for one that is, its
\* address.
ValueText(x) == IF x.t = "number" THEN double2stringEarse0(to_string[x.v]) ELSE x.v

\* Mutant: the sizes are not compared.
CompareWithKeys(called, l, r) ==
  IF l.t # r.t THEN "false"
  ELSE IF ~IsRef(l) THEN IF ValueText(l) = ValueText(r) THEN "true" ELSE "false"
  ELSE IF /\ \A k \in DOMAIN heap[l.v].obj :
               k \in DOMAIN heap[r.v].obj /\ called[<<heap[l.v].obj[k], heap[r.v].obj[k]>>] = "true"
          /\ \A i \in 1..Len(heap[l.v].arr) :
               i <= Len(heap[r.v].arr) /\ called[<<heap[l.v].arr[i], heap[r.v].arr[i]>>] = "true"
       THEN "true" ELSE "false"

\* One call, with the results of the calls it makes: for the keys in their order,
\* where "at" throws for a key that r does not have, for the elements from the
\* last on, up to one that decides.  Containers are compared by address first, and
\* all other values by their texts alone.
CompareWith(called, l, r) ==
  LET a == heap[l.v]
      b == heap[r.v]
      Asked(k) == IF k \in DOMAIN b.obj THEN called[<<a.obj[k], b.obj[k]>>] ELSE "thrown"
      keys == {i \in 1..Len(KeyOrder) : KeyOrder[i] \in DOMAIN a.obj /\ Asked(KeyOrder[i]) # "true"}
      items == {i \in 1..Len(a.arr) : called[<<a.arr[i], b.arr[i]>>] # "true"}
  IN  IF l.t = r.t /\ ValueText(l) = ValueText(r) THEN "true"
      ELSE IF l.t # r.t \/ ~IsRef(l) THEN "false"
      ELSE IF l.t = "object"
           THEN IF Cardinality(DOMAIN a.obj) # Cardinality(DOMAIN b.obj) THEN "false"
                ELSE IF keys = {} THEN "true" ELSE Asked(KeyOrder[Min(keys)])
           ELSE IF Len(a.arr) # Len(b.arr) THEN "false"
                ELSE IF items = {} THEN "true" ELSE called[<<a.arr[Max(items)], b.arr[Max(items)]>>]

\* More calls inside each other than there are pairs of containers: a pair comes
\* twice, and the recursion has no end.
Depth == Cardinality(Refs) * Cardinality(Refs) + 1
Compare[n \in 0..Depth] ==
  [x \in Stored \X Stored |-> IF n = 0 THEN "endless" ELSE CompareWith(Compare[n - 1], x[1], x[2])]
DeepCompare(l, r) == Compare[Depth][<<l, r>>]

-----------------------------------------------------------------------------
(* Properties.                                                             *)

\* A value written out, n containers deep; a leaf is its type and its text.
Unfolded[n \in 0..Depth] ==
  [x \in Stored |->
     IF n = 0 THEN Leaf(x.t, <<>>)
     ELSE IF ~IsRef(x) THEN Leaf(x.t, ValueText(x))
     ELSE Tree(x.t, <<>>, [i \in 1..Len(heap[x.v].arr) |-> Unfolded[n - 1][heap[x.v].arr[i]]],
               [k \in DOMAIN heap[x.v].obj |-> Unfolded[n - 1][heap[x.v].obj[k]]])]

\* The containers below which no way leads through more than n of them.
Held(r) == Range(heap[r].arr) \cup Range(heap[r].obj)
Flat[n \in 0..Depth] ==
  IF n = 0 THEN {} ELSE {r \in Refs : \A x \in Held(r) : IsRef(x) => x.v \in Flat[n - 1]}
Acyclic(r) == r \in Flat[Cardinality(Refs)]

\* DeepCompare says "equal" just of containers with the same keys and elements down
\* to leaves of the same type and text, and "different" of others, whatever is
\* shared: an exception, for a key the other does not have, means different.  It has
\* no end only for two values that both contain themselves.  Leaves are told apart
\* by their texts: 1.0001 equals 1, since both are "1" (double2stringEarse0).
CompareIsSound ==
  \A l, r \in Refs :
    LET c == DeepCompare(Ref(l), Ref(r))
    IN  IF c = "endless" THEN ~Acyclic(l) /\ ~Acyclic(r)
        ELSE (c = "true") = (Unfolded[Depth][Ref(l)] = Unfolded[Depth][Ref(r)])
===============================================================================
