--------------------------- MODULE TokenizerProofs ---------------------------
(***************************************************************************)
(* Theorem about the tokenizer, for every set of texts: the tokens found   *)
(* so far stand where they say they stand, in order, and nothing but blank *)
(* lies between them.  The texts are data, so what holds of all their      *)
(* bytes is shown by a least counterexample (LeastOf); the lemmas about    *)
(* sequences before the invariant are cited by the proofs about the HTTP   *)
(* client as well.  Behind the theorem, for the proofs about JSON: what    *)
(* Escape makes of a text, and that Unescape takes it back                 *)
(* (UnescapeQuoted).                                                       *)
(***************************************************************************)
EXTENDS Tokenizer, FiniteSetTheorems, WellFoundedInduction, TLAPS

\* A set of natural numbers that is not empty has a least element.
LEMMA LeastOf ==
    ASSUME NEW T \in SUBSET Nat, T # {}
    PROVE  \E m \in T : \A k \in T : m <= k
<1>1. PICK m \in T : \A k \in T : ~ (<<k, m>> \in OpToRel(<, Nat))
  BY NatLessThanWellFounded, WFMin
<1>2. ASSUME NEW k \in T
      PROVE  m <= k
  <2>1. ~ (<<k, m>> \in {x \in Nat \X Nat : x[1] < x[2]})
    BY <1>1 DEF OpToRel
  <2>2. QED
    BY <2>1
<1>3. QED
  BY <1>2

LEMMA FirstIs ==
    ASSUME NEW T \in SUBSET Nat, T # {}
    PROVE  First(T) \in T /\ \A k \in T : First(T) <= k
BY LeastOf DEF First

LEMMA MinIs ==
    ASSUME NEW T \in SUBSET Nat, NEW m \in T, \A k \in T : m <= k
    PROVE  Min(T) = m
<1>1. Min(T) \in T /\ \A k \in T : Min(T) <= k
  BY DEF Min
<1>2. Min(T) \in Nat /\ m \in Nat /\ m <= Min(T) /\ Min(T) <= m
  BY <1>1
<1> HIDE DEF Min
<1>3. QED
  BY <1>2

\* A bounded set of natural numbers that is not empty has a greatest element.
LEMMA MaxIs ==
    ASSUME NEW n \in Nat, NEW T \in SUBSET (0..n), T # {}
    PROVE  Max(T) \in T /\ \A k \in T : Max(T) >= k
<1> DEFINE U == {k \in 0..n : n - k \in T}
<1>1. U \in SUBSET Nat
  OBVIOUS
<1>2. U # {}
  <2>1. PICK k \in T : TRUE
    OBVIOUS
  <2>2. n - k \in 0..n /\ n - (n - k) = k
    OBVIOUS
  <2>3. QED
    BY <2>1, <2>2
<1>3. PICK m \in U : \A k \in U : m <= k
  BY <1>1, <1>2, LeastOf
<1>4. n - m \in T /\ m \in 0..n
  BY <1>3
<1>5. ASSUME NEW k \in T
      PROVE  n - m >= k
  <2>1. n - k \in U
    <3>1. n - k \in 0..n /\ n - (n - k) = k
      OBVIOUS
    <3>2. QED
      BY <3>1
  <2>2. m <= n - k /\ k \in 0..n
    BY <1>3, <2>1
  <2>3. QED
    BY <1>4, <2>2
<1>6. QED
  BY <1>4, <1>5 DEF Max

-----------------------------------------------------------------------------
(* The cursor.                                                               *)

\* The characters of texts are strings; of a literal the provers do not know it.
Characters == STRING \cup operator_set \cup empty_set \cup single_char_set \cup const_str_set
                \cup Letters \cup {"\\"}

LEMMA StringsAreCharacters == \A s \in Seq(STRING) : s \in Seq(Characters)
<1> SUFFICES ASSUME NEW s \in Seq(STRING)
             PROVE  s \in Seq(Characters)
  OBVIOUS
<1>1. Len(s) \in Nat /\ s = [i \in 1..Len(s) |-> s[i]] /\ \A i \in 1..Len(s) : s[i] \in STRING
  OBVIOUS
<1>2. \A i \in 1..Len(s) : s[i] \in Characters
  BY <1>1 DEF Characters
<1>3. QED
  BY <1>1, <1>2

TextOK == text \in Seq(Characters) /\ ptr \in 0..Len(text)

\* Until finds a position that stops it, or the end.
LEMMA AtInText ==
    ASSUME TextOK
    PROVE  /\ \A i \in 0..Len(text) - 1 : At(i) = text[i + 1]
           /\ \A i \in Nat : At(i) # "\\0" => i < Len(text)
BY DEF TextOK, At

LEMMA SliceIs ==
    ASSUME TextOK, NEW i \in Nat, NEW j \in Nat, i <= j, j <= Len(text)
    PROVE  /\ Slice(i, j) \in Seq(Characters) /\ Len(Slice(i, j)) = j - i
           /\ \A k \in 1..j - i : Slice(i, j)[k] = At(i + k - 1)
<1>1. Min({j, Len(text)}) = j
  BY DEF TextOK, Min
<1>2. Slice(i, j) = SubSeq(text, i + 1, j)
  BY <1>1 DEF Slice
<1>3. QED
  BY <1>2 DEF TextOK, At

\* The newlines before a position.
Newlines(p) == {i \in 1..p : text[i] = "\n"}
NewlinesIn(p, q) == {i \in p..(q - 1) : At(i) = "\n"}

LEMMA NewlinesSplit ==
    ASSUME TextOK, NEW p \in 0..Len(text), NEW q \in p..Len(text)
    PROVE  /\ Cardinality(Newlines(q)) = Cardinality(Newlines(p)) + Cardinality(NewlinesIn(p, q))
           /\ Cardinality(Newlines(p)) \in Nat /\ Cardinality(NewlinesIn(p, q)) \in Nat
<1> DEFINE A == Newlines(p)
           B == NewlinesIn(p, q)
           C == {i \in p + 1..q : text[i] = "\n"}
           f == [i \in B |-> i + 1]
<1>1. IsFiniteSet(A) /\ IsFiniteSet(B) /\ IsFiniteSet(C)
  <2>1. IsFiniteSet(1..p) /\ IsFiniteSet(p..q - 1) /\ IsFiniteSet(p + 1..q)
    BY FS_Interval
  <2>2. A \in SUBSET (1..p) /\ B \in SUBSET (p..q - 1) /\ C \in SUBSET (p + 1..q)
    BY DEF Newlines, NewlinesIn
  <2> HIDE DEF A, B, C
  <2>3. QED
    BY <2>1, <2>2, FS_Subset
<1>2. f \in Bijection(B, C)
  <2>1. \A i \in B : i \in Int /\ i + 1 \in C
    BY DEF NewlinesIn, At, TextOK
  <2>2. \A j \in C : j - 1 \in B /\ j = (j - 1) + 1
    BY DEF NewlinesIn, At, TextOK
  <2> HIDE DEF B, C
  <2>3. f \in [B -> C] /\ \A i, k \in B : f[i] = f[k] => i = k
    BY <2>1
  <2>4. \A j \in C : \E i \in B : f[i] = j
    BY <2>2
  <2>5. QED
    BY <2>3, <2>4 DEF Bijection, Injection, Surjection, IsInjective
<1>3. Cardinality(C) = Cardinality(B)
  BY <1>1, <1>2, FS_Bijection DEF ExistsBijection
<1>4. Newlines(q) = A \cup C /\ A \cap C = {}
  BY DEF Newlines
<1> HIDE DEF A, B, C
<1>5. Cardinality(A \cup C) = Cardinality(A) + Cardinality(C) - Cardinality({})
  BY <1>1, <1>4, FS_Union
<1>6. Cardinality({}) = 0 /\ Cardinality(A) \in Nat /\ Cardinality(B) \in Nat
  BY <1>1, FS_EmptySet, FS_CardinalityType
<1>7. QED
  BY <1>3, <1>4, <1>5, <1>6 DEF A, B

LEMMA NoNewlines ==
    ASSUME TextOK, NEW p \in 0..Len(text), NEW q \in p..Len(text),
           \A i \in p..(q - 1) : At(i) # "\n"
    PROVE  Cardinality(Newlines(q)) = Cardinality(Newlines(p))
<1>1. NewlinesIn(p, q) = {}
  BY DEF NewlinesIn
<1>2. Cardinality(NewlinesIn(p, q)) = 0
  BY <1>1, FS_EmptySet
<1>3. QED
  BY <1>2, NewlinesSplit

-----------------------------------------------------------------------------
(* FlattenSeq, by induction over the number of sequences.                    *)

Joined(x, n, f) ==
    \A i \in 1..n : f[i] = IF i = 1 THEN x[i] ELSE f[i - 1] \o x[i]

LEMMA JoinedExists ==
    ASSUME NEW C, NEW x \in Seq(Seq(C))
    PROVE  \E f \in [1..Len(x) -> Seq(C)] : Joined(x, Len(x), f)
<1> DEFINE P(n) == \E f \in [1..n -> Seq(C)] : Joined(x, n, f)
           T == {n \in 0..Len(x) : ~P(n)}
<1>1. SUFFICES ASSUME T # {} PROVE FALSE
  OBVIOUS
<1>2. PICK m \in T : \A k \in T : m <= k
  <2>1. T \in SUBSET Nat
    OBVIOUS
  <2> HIDE DEF T
  <2>2. QED
    BY <1>1, <2>1, LeastOf
<1>3. m \in 0..Len(x) /\ ~P(m)
  OBVIOUS
<1>4. m # 0
  <2>1. [i \in 1..0 |-> x[i]] \in [1..0 -> Seq(C)] /\ Joined(x, 0, [i \in 1..0 |-> x[i]])
    BY DEF Joined
  <2>2. P(0)
    BY <2>1
  <2>3. QED
    BY <1>3, <2>2
<1>5. P(m - 1)
  <2>1. m - 1 \in 0..Len(x) /\ ~ (m <= m - 1)
    BY <1>3, <1>4
  <2>2. m - 1 \notin T
    BY <1>2, <2>1
  <2>3. QED
    BY <2>1, <2>2
<1>6. PICK f \in [1..m - 1 -> Seq(C)] : Joined(x, m - 1, f)
  BY <1>5
<1> DEFINE g == [i \in 1..m |-> IF i < m THEN f[i] ELSE IF m = 1 THEN x[m] ELSE f[m - 1] \o x[m]]
<1>7. g \in [1..m -> Seq(C)]
  <2>1. ASSUME NEW i \in 1..m
        PROVE  g[i] \in Seq(C)
    <3>1. x[m] \in Seq(C)
      BY <1>3, <1>4
    <3>2. CASE i < m
      BY <1>3, <3>2
    <3>3. CASE i = m /\ m = 1
      BY <3>1, <3>3
    <3>4. CASE i = m /\ m # 1
      <4>1. m - 1 \in 1..m - 1
        BY <1>3, <1>4, <3>4
      <4>2. QED
        BY <3>1, <3>4, <4>1
    <3>5. QED
      BY <1>3, <3>2, <3>3, <3>4
  <2>2. QED
    BY <2>1
<1>8. ASSUME NEW i \in 1..m
      PROVE  g[i] = IF i = 1 THEN x[i] ELSE g[i - 1] \o x[i]
  <2>1. CASE i < m
    <3>1. i \in 1..m - 1 /\ g[i] = f[i] /\ (i # 1 => i - 1 \in 1..m /\ g[i - 1] = f[i - 1])
      BY <1>3, <2>1
    <3>2. QED
      BY <1>6, <3>1 DEF Joined
  <2>2. CASE i = m
    <3>1. m # 1 => m - 1 \in 1..m /\ m - 1 < m /\ g[m - 1] = f[m - 1]
      BY <1>3, <1>4
    <3>2. QED
      BY <2>2, <3>1
  <2>3. QED
    BY <1>3, <2>1, <2>2
<1>9. P(m)
  BY <1>7, <1>8 DEF Joined
<1>10. QED
  BY <1>3, <1>9

\* What FlattenSeq computes.
LEMMA FlattenIs ==
    ASSUME NEW C, NEW x \in Seq(Seq(C)), Len(x) > 0
    PROVE  \E f \in [1..Len(x) -> Seq(C)] : Joined(x, Len(x), f) /\ FlattenSeq(x) = f[Len(x)]
<1> DEFINE S == 1..Len(x)
           F(h) == [i \in S |-> IF i = 1 THEN x[i] ELSE h[i - 1] \o x[i]]
           f == CHOOSE h : h = F(h)
<1>1. PICK g \in [1..Len(x) -> Seq(C)] : Joined(x, Len(x), g)
  BY JoinedExists
<1>2. g = F(g)
  BY <1>1 DEF Joined
<1>3. f = F(f)
  BY <1>2
<1>4. FlattenSeq(x) = f[Len(x)]
  BY DEF FlattenSeq
<1> HIDE DEF f
<1>5. DOMAIN f = S /\ Joined(x, Len(x), f)
  <2>1. \A i \in S : f[i] = F(f)[i]
    BY <1>3
  <2>2. QED
    BY <1>3, <2>1 DEF Joined
<1>6. f = g
  <2> DEFINE T == {i \in S : f[i] # g[i]}
  <2>0. SUFFICES \A i \in S : f[i] = g[i]
    <3>1. F(f) = [i \in S |-> F(f)[i]] /\ F(g) = [i \in S |-> F(g)[i]]
      OBVIOUS
    <3>2. \A i \in S : F(f)[i] = F(g)[i]
      BY <1>2, <1>3, <2>0
    <3>3. F(f) = F(g)
      BY <3>1, <3>2
    <3>4. QED
      BY <1>2, <1>3, <3>3
  <2>1. SUFFICES ASSUME T # {} PROVE FALSE
    OBVIOUS
  <2>2. PICK m \in T : \A k \in T : m <= k
    <3>1. T \in SUBSET Nat
      OBVIOUS
    <3> HIDE DEF T
    <3>2. QED
      BY <2>1, <3>1, LeastOf
  <2>3. m \in S /\ f[m] # g[m]
    OBVIOUS
  <2>4. m # 1 => m - 1 \in S /\ f[m - 1] = g[m - 1]
    <3>1. m # 1 => m - 1 \in S /\ ~ (m <= m - 1)
      BY <2>3
    <3>2. QED
      BY <2>2, <3>1
  <2>5. QED
    BY <1>1, <1>5, <2>3, <2>4 DEF Joined
<1>7. QED
  BY <1>1, <1>4, <1>6

LEMMA ConcatFirst ==
    ASSUME NEW C, NEW a \in Seq(C), NEW b \in Seq(C), Len(a) > 0
    PROVE  /\ a \o b \in Seq(C) /\ Len(a \o b) = Len(a) + Len(b)
           /\ Len(a \o b) > 0 /\ (a \o b)[1] = a[1]
OBVIOUS

\* The first element is the first one of the first sequence.
LEMMA FlattenFirst ==
    ASSUME NEW C, NEW x \in Seq(Seq(C)), Len(x) > 0, x[1] # <<>>
    PROVE  /\ FlattenSeq(x) \in Seq(C)
           /\ Len(FlattenSeq(x)) > 0 /\ FlattenSeq(x)[1] = x[1][1]
<1>1. PICK f \in [1..Len(x) -> Seq(C)] : Joined(x, Len(x), f) /\ FlattenSeq(x) = f[Len(x)]
  BY FlattenIs
<1>0. /\ 1 \in 1..Len(x) /\ Len(x) \in 1..Len(x)
      /\ \A i \in 1..Len(x) : x[i] \in Seq(C) /\ f[i] \in Seq(C)
  <2>1. Len(x) \in Nat /\ x \in [1..Len(x) -> Seq(C)]
    OBVIOUS
  <2>2. \A i \in 1..Len(x) : x[i] \in Seq(C)
    BY <2>1
  <2>3. \A i \in 1..Len(x) : f[i] \in Seq(C)
    OBVIOUS
  <2>4. QED
    BY <2>1, <2>2, <2>3
<1> DEFINE Good(i) == Len(f[i]) > 0 /\ f[i][1] = x[1][1]
           T == {i \in 1..Len(x) : ~Good(i)}
<1>2. T = {}
  <2>1. SUFFICES ASSUME T # {} PROVE FALSE
    OBVIOUS
  <2>2. PICK m \in T : \A k \in T : m <= k
    <3>1. T \in SUBSET Nat
      OBVIOUS
    <3> HIDE DEF T
    <3>2. QED
      BY <2>1, <3>1, LeastOf
  <2>3. m \in 1..Len(x) /\ ~Good(m)
    OBVIOUS
  <2>4. Good(1)
    <3>1. f[1] = x[1] /\ x[1] \in Seq(C)
      BY <1>0, <1>1 DEF Joined
    <3>2. QED
      BY <3>1
  <2>5. m # 1
    BY <2>3, <2>4
  <2>6. m - 1 \in 1..Len(x) /\ Good(m - 1)
    <3>1. m - 1 \in 1..Len(x) /\ ~ (m <= m - 1)
      BY <2>3, <2>5
    <3>2. m - 1 \notin T
      BY <2>2, <3>1
    <3>3. QED
      BY <3>1, <3>2
  <2>7. f[m] = f[m - 1] \o x[m] /\ f[m - 1] \in Seq(C) /\ x[m] \in Seq(C)
    BY <1>0, <1>1, <2>3, <2>5, <2>6 DEF Joined
  <2>8. Len(f[m - 1]) > 0 /\ f[m - 1][1] = x[1][1]
    BY <2>6
  <2>9. Len(f[m]) > 0 /\ f[m][1] = f[m - 1][1]
    <3>1. f[m - 1] \in Seq(C) /\ x[m] \in Seq(C)
      BY <2>7
    <3> HIDE DEF Good, T
    <3>2. Len(f[m - 1] \o x[m]) > 0 /\ (f[m - 1] \o x[m])[1] = f[m - 1][1]
      BY <2>8, <3>1, ConcatFirst
    <3>3. QED
      BY <2>7, <3>2
  <2>10. QED
    BY <2>3, <2>8, <2>9
<1>3. Good(Len(x)) /\ FlattenSeq(x) \in Seq(C)
  <2>1. Len(x) \in 1..Len(x) /\ Len(x) \notin T
    BY <1>0, <1>2
  <2>2. Good(Len(x))
    BY <2>1 DEF T
  <2>3. QED
    BY <1>0, <1>1, <2>1, <2>2
<1>4. QED
  BY <1>1, <1>3

-----------------------------------------------------------------------------
(* The tokens and the gaps between them.                                     *)

TokenSet == [kw : Seq(Characters), pos : Nat, line : Nat]

\* Where the gap before the token i begins.
GapFrom(i) == IF i = 1 THEN 0 ELSE Ends(res[i - 1])
LastEnd == IF Len(res) = 0 THEN 0 ELSE Ends(res[Len(res)])

\* The cursor stands in the source, which is not changed, and line counts the
\* newlines before it.
CursorInv ==
    /\ TextOK /\ TypeOK /\ res \in Seq(TokenSet)
    /\ line = Cardinality(Newlines(ptr))

TokInv == CursorInv /\ LineNumbers /\ NothingLost

LEMMA TextStays ==
    ASSUME UNCHANGED text
    PROVE  /\ \A i : (At(i))' = At(i)
           /\ \A t : (Begins(t))' = Begins(t)
           /\ \A t : (Ends(t))' = Ends(t)
           /\ \A i, j : (Gap(i, j))' <=> Gap(i, j)
           /\ (OpenComment)' <=> OpenComment
<1>1. \A i : (At(i))' = At(i)
  BY DEF At
<1>2. \A i, j : (Slice(i, j))' = Slice(i, j)
  BY DEF Slice
<1>3. \A t : (Begins(t))' = Begins(t)
  BY <1>2 DEF Begins, IsString
<1>4. \A t : (Ends(t))' = Ends(t)
  BY DEF Ends, IsString
<1>5. \A i, j : (Skipped(i, j))' <=> Skipped(i, j)
  BY <1>1 DEF Skipped
<1>6. \A i, j : (Gap(i, j))' <=> Gap(i, j)
  BY <1>5 DEF Gap
<1>7. (OpenComment)' <=> OpenComment
  BY DEF OpenComment
<1>8. QED
  BY <1>1, <1>3, <1>4, <1>6, <1>7

\* NothingLost, in the shape the steps need.
GapsFilled ==
    /\ \A i \in 1..Len(res) : \E b \in Begins(res[i]) : GapFrom(i) <= b /\ Gap(GapFrom(i), b)
    /\ Gap(LastEnd, ptr)

LEMMA NothingLostIs ==
    res \in Seq(TokenSet) => (NothingLost <=> (~OpenComment => GapsFilled))
<1> SUFFICES ASSUME res \in Seq(TokenSet)
             PROVE  NothingLost <=> (~OpenComment => GapsFilled)
  OBVIOUS
<1>1. Len(res) \in Nat
  OBVIOUS
<1>2. \A i : GapFrom(i) = IF i = 1 THEN 0 ELSE Ends(res[i - 1])
  BY DEF GapFrom
<1>3. NothingLost <=> (~OpenComment =>
         \A i \in 1..(Len(res) + 1) :
            IF i > Len(res) THEN Gap(GapFrom(i), ptr)
            ELSE \E b \in Begins(res[i]) : GapFrom(i) <= b /\ Gap(GapFrom(i), b))
  BY <1>2 DEF NothingLost
<1>4. /\ \A i \in 1..(Len(res) + 1) : i > Len(res) <=> i = Len(res) + 1
      /\ \A i \in 1..Len(res) : i \in 1..(Len(res) + 1) /\ ~(i > Len(res))
      /\ Len(res) + 1 \in 1..(Len(res) + 1) /\ Len(res) + 1 > Len(res)
      /\ \A i \in 1..(Len(res) + 1) : i # Len(res) + 1 => i \in 1..Len(res)
  BY <1>1
<1>5. GapFrom(Len(res) + 1) = LastEnd
  <2>1. (Len(res) + 1 = 1 <=> Len(res) = 0) /\ (Len(res) + 1) - 1 = Len(res)
    BY <1>1
  <2>2. QED
    BY <2>1 DEF GapFrom, LastEnd
<1>6. QED
  BY <1>3, <1>4, <1>5 DEF GapsFilled

LEMMA GapOfNothing ==
    ASSUME NEW p \in Nat
    PROVE  Gap(p, p)
<1>1. {p} \in SUBSET (p..p) /\ {p, p} \subseteq {p} /\ {p} \ {p} = {}
  OBVIOUS
<1>2. QED
  BY <1>1 DEF Gap

LEMMA GapGrows ==
    ASSUME NEW i, NEW p \in Nat, NEW q \in Nat, Gap(i, p), Skipped(p, q), p < q
    PROVE  Gap(i, q)
<1>1. PICK cuts \in SUBSET (i..p) :
        {i, p} \subseteq cuts /\ \A a \in cuts \ {p} : \E b \in cuts : Skipped(a, b)
  BY DEF Gap
<1>2. i \in i..p /\ p \in i..p
  BY <1>1
<1>3. i \in Int /\ \A a \in i..p : a \in i..q /\ a # q
  BY <1>2
<1>4. cuts \cup {q} \in SUBSET (i..q)
  BY <1>1, <1>2, <1>3
<1>5. \A a \in (cuts \cup {q}) \ {q} : \E b \in cuts \cup {q} : Skipped(a, b)
  BY <1>1
<1>6. QED
  BY <1>1, <1>4, <1>5 DEF Gap

LEMMA GapIsOrdered ==
    ASSUME NEW i, NEW p \in Nat, Gap(i, p)
    PROVE  i <= p
<1>1. i \in i..p
  BY DEF Gap
<1>2. QED
  BY <1>1

\* A token at the cursor, which goes behind it.
LEMMA GapsAroundToken ==
    ASSUME CursorInv, NothingLost, UNCHANGED text, NEW t \in TokenSet,
           res' = Append(res, t), ptr' \in Nat, ptr \in Begins(t), Ends(t) = ptr'
    PROVE  NothingLost'
<1>0. /\ res \in Seq(TokenSet) /\ res' \in Seq(TokenSet) /\ Len(res) \in Nat
      /\ Len(res') = Len(res) + 1 /\ res'[Len(res) + 1] = t
      /\ \A i \in 1..Len(res) : res'[i] = res[i]
      /\ ptr \in Nat
  BY DEF CursorInv, TextOK
<1>n. (res \in Seq(TokenSet) => (NothingLost <=> (~OpenComment => GapsFilled)))'
  BY NothingLostIs, PTL
<1>1. SUFFICES ASSUME ~OpenComment PROVE GapsFilled'
  BY <1>0, <1>n, TextStays
<1>2. GapsFilled
  BY <1>0, <1>1, NothingLostIs
<1>3. \A i \in 1..Len(res) + 1 : GapFrom(i)' = GapFrom(i)
  <2>1. \A i \in 1..Len(res) + 1 : i = 1 \/ i - 1 \in 1..Len(res)
    BY <1>0
  <2>2. QED
    BY <1>0, <2>1 DEF GapFrom, Ends, IsString
<1>4. LastEnd' = ptr'
  <2>1. Len(res') # 0 /\ res'[Len(res')] = t
    BY <1>0
  <2>2. LastEnd' = Ends(t)
    BY <2>1 DEF LastEnd, Ends, IsString
  <2>3. QED
    BY <2>2
<1>5. ASSUME NEW i \in 1..Len(res) + 1
      PROVE  \E b \in (Begins(res[i]))' : GapFrom(i)' <= b /\ (Gap(GapFrom(i), b))'
  <2>1. CASE i \in 1..Len(res)
    <3>1. PICK b \in Begins(res[i]) : GapFrom(i) <= b /\ Gap(GapFrom(i), b)
      BY <1>2, <2>1 DEF GapsFilled
    <3>2. (Begins(res[i]))' = Begins(res[i]) /\ GapFrom(i)' = GapFrom(i)
      BY <1>0, <1>3, <2>1, TextStays
    <3>3. (Gap(GapFrom(i), b))'
      BY <3>1, <3>2, TextStays
    <3>4. QED
      BY <3>1, <3>2, <3>3
  <2>2. CASE i = Len(res) + 1
    <3>0. GapFrom(i) = LastEnd
      <4>1. (i = 1 <=> Len(res) = 0) /\ i - 1 = Len(res)
        BY <1>0, <2>2
      <4>2. QED
        BY <4>1 DEF GapFrom, LastEnd
    <3>1. Gap(GapFrom(i), ptr) /\ GapFrom(i) <= ptr
      BY <1>0, <1>2, <3>0, GapIsOrdered DEF GapsFilled
    <3>2. (Begins(res[i]))' = Begins(t) /\ GapFrom(i)' = GapFrom(i)
      BY <1>0, <1>3, <2>2, TextStays
    <3>3. \A b : (Gap(GapFrom(i), b))' <=> Gap(GapFrom(i), b)
      BY <3>2, TextStays
    <3>4. QED
      BY <3>1, <3>2, <3>3
  <2>3. QED
    BY <1>0, <2>1, <2>2
<1>6. (Gap(LastEnd, ptr))'
  <2>1. \A n : n = ptr' => (Gap(n, n))'
    BY GapOfNothing, TextStays
  <2>2. QED
    BY <1>4, <2>1
<1>7. QED
  BY <1>0, <1>5, <1>6 DEF GapsFilled

\* Something without a token at the cursor, which goes behind it.
LEMMA GapsWithoutToken ==
    ASSUME CursorInv, NothingLost, UNCHANGED <<text, res>>,
           ptr' \in Nat, ptr < ptr', Skipped(ptr, ptr')
    PROVE  NothingLost'
<1>0. res \in Seq(TokenSet) /\ res' \in Seq(TokenSet) /\ ptr \in Nat /\ UNCHANGED text
  BY DEF CursorInv, TextOK
<1>n. (res \in Seq(TokenSet) => (NothingLost <=> (~OpenComment => GapsFilled)))'
  BY NothingLostIs, PTL
<1>1. SUFFICES ASSUME ~OpenComment PROVE GapsFilled'
  BY <1>0, <1>n, TextStays
<1>2. GapsFilled
  BY <1>0, <1>1, NothingLostIs
<1>3. \A i : GapFrom(i)' = GapFrom(i)
  BY <1>0, TextStays DEF GapFrom
<1>4. Gap(LastEnd, ptr')
  BY <1>0, <1>2, GapGrows DEF GapsFilled
<1>5. (Gap(LastEnd, ptr))'
  <2>1. LastEnd' = LastEnd
    BY DEF LastEnd, Ends, IsString
  <2>2. QED
    BY <1>0, <1>4, <2>1, TextStays
<1>6. ASSUME NEW i \in 1..Len(res)
      PROVE  \E b \in (Begins(res[i]))' : GapFrom(i)' <= b /\ (Gap(GapFrom(i), b))'
  <2>1. PICK b \in Begins(res[i]) : GapFrom(i) <= b /\ Gap(GapFrom(i), b)
    BY <1>2 DEF GapsFilled
  <2>2. (Begins(res[i]))' = Begins(res[i]) /\ (Gap(GapFrom(i), b))'
    BY <1>0, <1>3, <2>1, TextStays
  <2>3. QED
    BY <1>3, <2>1, <2>2
<1>7. QED
  BY <1>5, <1>6 DEF GapsFilled

-----------------------------------------------------------------------------
(* The kinds of steps: a token, something skipped, or an end.                *)

OutcomeOK == outcome \in {"built", "running", "done", "thrown"}

\* The line and the place of the cursor, and of what is pushed, fit together.
LEMMA CursorStep ==
    ASSUME CursorInv, LineNumbers, UNCHANGED text, OutcomeOK',
           ptr' \in 0..Len(text), offset' \in Int, line' = Cardinality(Newlines(ptr')),
           \/ res' = res
           \/ \E t \in TokenSet : res' = Append(res, t) /\ t.line = Cardinality(Newlines(t.pos))
    PROVE  CursorInv' /\ LineNumbers'
<1>0. /\ TextOK /\ res \in Seq(TokenSet) /\ line' \in Nat
      /\ \A p \in Nat : (Newlines(p))' = Newlines(p)
      /\ (Newlines(ptr))' = Newlines(ptr')
  <2>1. TextOK /\ res \in Seq(TokenSet)
    BY DEF CursorInv
  <2>2. line' \in Nat
    <3>1. ptr' \in 0..Len(text) /\ Len(text) \in ptr'..Len(text)
      BY <2>1 DEF TextOK
    <3>2. Cardinality(Newlines(ptr')) \in Nat
      BY <2>1, <3>1, NewlinesSplit
    <3>3. QED
      BY <3>2
  <2>3. QED
    BY <2>1, <2>2 DEF Newlines
<1>1. TextOK' /\ TypeOK'
  BY <1>0 DEF TextOK, TypeOK, OutcomeOK
<1>2. line' = (Cardinality(Newlines(ptr)))'
  BY <1>0
<1>3. CASE res' = res
  BY <1>0, <1>1, <1>2, <1>3 DEF CursorInv, LineNumbers
<1>4. CASE \E t \in TokenSet : res' = Append(res, t) /\ t.line = Cardinality(Newlines(t.pos))
  <2>1. PICK t \in TokenSet : res' = Append(res, t) /\ t.line = Cardinality(Newlines(t.pos))
    BY <1>4
  <2>2. res' \in Seq(TokenSet)
    BY <1>0, <2>1
  <2>3. Range(res') = Range(res) \cup {t}
    <3>1. /\ DOMAIN res' = DOMAIN res \cup {Len(res) + 1} /\ res'[Len(res) + 1] = t
          /\ \A i \in DOMAIN res : res'[i] = res[i]
      BY <1>0, <2>1
    <3>2. QED
      BY <3>1 DEF Range
  <2>4. \A u \in Range(res) : u.line = Cardinality(Newlines(u.pos))
    BY DEF LineNumbers, Newlines
  <2>5. \A u \in Range(res') : u.line = Cardinality(Newlines(u.pos))
    BY <2>1, <2>3, <2>4
  <2>6. LineNumbers'
    BY <2>5 DEF LineNumbers, Newlines
  <2>7. QED
    BY <1>1, <1>2, <2>2, <2>6 DEF CursorInv
<1>5. QED
  BY <1>3, <1>4

\* The text at its place, read as one token that is no string.
LEMMA PlainToken ==
    ASSUME CursorInv, NEW end \in (ptr + 1)..Len(text), At(ptr) \notin const_str_set
    PROVE  /\ Token(Slice(ptr, end), ptr, line) \in TokenSet
           /\ ptr \in Begins(Token(Slice(ptr, end), ptr, line))
           /\ Ends(Token(Slice(ptr, end), ptr, line)) = end
<1> DEFINE kw == Slice(ptr, end)
           t == Token(kw, ptr, line)
<1>0. TextOK /\ ptr \in Nat /\ end \in Nat /\ ptr < end /\ end <= Len(text) /\ line \in Nat
  BY DEF CursorInv, TextOK, TypeOK
<1>1. kw \in Seq(Characters) /\ Len(kw) = end - ptr /\ kw[1] = At(ptr)
  <2>1. 1 \in 1..end - ptr /\ ptr + 1 - 1 = ptr
    BY <1>0
  <2>2. Len(kw) = end - ptr /\ \A k \in 1..end - ptr : kw[k] = At(ptr + k - 1)
    BY <1>0, SliceIs
  <2>3. kw[1] = At(ptr + 1 - 1)
    BY <2>1, <2>2
  <2>4. QED
    BY <1>0, <2>1, <2>2, <2>3, SliceIs
<1>2. t.kw = kw /\ t.pos = ptr /\ t.line = line
  BY DEF Token
<1>3. t \in TokenSet
  <2> HIDE DEF kw
  <2>1. QED
    BY <1>0, <1>1 DEF Token, TokenSet
<1> HIDE DEF t
<1>4. ~IsString(t) /\ ptr + Len(t.kw) = end
  BY <1>0, <1>1, <1>2 DEF IsString
<1>5. ptr \in Begins(t)
  BY <1>2, <1>4 DEF Begins
<1>6. Ends(t) = end
  BY <1>2, <1>4 DEF Ends
<1>7. QED
  BY <1>3, <1>5, <1>6 DEF t

\* A plain token has been read, up to "end".
LEMMA ReadToken ==
    ASSUME TokInv, UNCHANGED text, OutcomeOK', NEW end \in (ptr + 1)..Len(text),
           At(ptr) \notin const_str_set, ptr' = end, offset' \in Int,
           line' = Cardinality(Newlines(end)),
           res' = Append(res, Token(Slice(ptr, end), ptr, line))
    PROVE  TokInv'
<1> DEFINE t == Token(Slice(ptr, end), ptr, line)
<1>1. CursorInv /\ LineNumbers /\ NothingLost
  BY DEF TokInv
<1>2. t \in TokenSet /\ ptr \in Begins(t) /\ Ends(t) = end
  BY <1>1, PlainToken
<1>3. t.line = Cardinality(Newlines(t.pos))
  BY <1>1 DEF Token, CursorInv
<1>4. end \in 0..Len(text) /\ end \in Nat
  BY <1>1 DEF CursorInv, TextOK
<1> HIDE DEF t
<1>5. CursorInv' /\ LineNumbers'
  BY <1>1, <1>2, <1>3, <1>4, CursorStep DEF t
<1>6. NothingLost'
  BY <1>1, <1>2, <1>4, GapsAroundToken DEF t
<1>7. QED
  BY <1>5, <1>6 DEF TokInv

\* A blank or a comment has been skipped.
LEMMA SkipText ==
    ASSUME TokInv, UNCHANGED <<text, res>>, OutcomeOK', NEW end \in (ptr + 1)..Len(text),
           ptr' = end, offset' \in Int, line' = Cardinality(Newlines(end)), Skipped(ptr, end)
    PROVE  TokInv'
<1>1. CursorInv /\ LineNumbers /\ NothingLost
  BY DEF TokInv
<1>2. end \in 0..Len(text) /\ end \in Nat /\ ptr < end
  BY <1>1 DEF CursorInv, TextOK
<1>3. CursorInv' /\ LineNumbers'
  BY <1>1, <1>2, CursorStep
<1>4. NothingLost'
  BY <1>1, <1>2, GapsWithoutToken
<1>5. QED
  BY <1>3, <1>4 DEF TokInv

\* Nothing is read.
LEMMA StayThere ==
    ASSUME TokInv, UNCHANGED <<text, ptr, line, offset, res>>, OutcomeOK'
    PROVE  TokInv'
<1>1. CursorInv /\ LineNumbers /\ NothingLost
  BY DEF TokInv
<1>2. CursorInv'
  BY <1>1 DEF CursorInv, TextOK, TypeOK, OutcomeOK, Newlines
<1>3. LineNumbers'
  BY <1>1 DEF LineNumbers
<1>4. NothingLost'
  <2>1. (res \in Seq(TokenSet) => (NothingLost <=> (~OpenComment => GapsFilled)))'
    BY NothingLostIs, PTL
  <2>2. LastEnd' = LastEnd /\ \A i : GapFrom(i)' = GapFrom(i)
    BY DEF LastEnd, GapFrom, Ends, IsString
  <2>3. GapsFilled => GapsFilled'
    BY <2>2, TextStays DEF GapsFilled
  <2>4. QED
    BY <1>1, <2>1, <2>3, NothingLostIs, TextStays DEF CursorInv
<1>5. QED
  BY <1>2, <1>3, <1>4 DEF TokInv

-----------------------------------------------------------------------------
(* The steps of Dispatch, one lemma each.                                    *)

LEMMA OneCharacter ==
    ASSUME TextOK, ptr < Len(text)
    PROVE  /\ <<At(ptr)>> = Slice(ptr, ptr + 1) /\ ptr + 1 \in (ptr + 1)..Len(text)
           /\ ptr \in 0..Len(text) /\ ptr + 1 \in ptr..Len(text)
<1>0. ptr \in Nat /\ ptr + 1 \in Nat /\ ptr <= ptr + 1 /\ ptr + 1 <= Len(text) /\ Len(text) \in Nat
  BY DEF TextOK
<1>1. /\ Slice(ptr, ptr + 1) \in Seq(Characters) /\ Len(Slice(ptr, ptr + 1)) = (ptr + 1) - ptr
      /\ \A k \in 1..(ptr + 1) - ptr : Slice(ptr, ptr + 1)[k] = At(ptr + k - 1)
  BY <1>0, SliceIs
<1>2. Len(Slice(ptr, ptr + 1)) = 1 /\ Slice(ptr, ptr + 1)[1] = At(ptr)
  <2>1. (ptr + 1) - ptr = 1 /\ ptr + 1 - 1 = ptr /\ 1 \in 1..1
    BY <1>0
  <2>2. Slice(ptr, ptr + 1)[1] = At(ptr + 1 - 1)
    BY <1>1, <2>1
  <2>3. QED
    BY <1>1, <2>1, <2>2
<1>3. QED
  BY <1>0, <1>1, <1>2

\* The newline is among the blanks only.
LEMMA CharacterClasses ==
    /\ \A c \in operator_set \cup Digits \cup Letters \cup single_char_set :
         c # "\n" /\ c \notin const_str_set
    /\ \A c \in empty_set : c \notin const_str_set
    /\ \A c \in const_str_set : c # "\n" /\ c # "\\0" /\ c # "\\"
BY DEF operator_set, Digits, Letters, single_char_set, empty_set, const_str_set

LEMMA OperatorTextIs ==
    ASSUME TextOK, ptr < Len(text), At(ptr) \in operator_set
    PROVE  \E end \in (ptr + 1)..Len(text) :
             /\ OperatorText = Slice(ptr, end) /\ Len(OperatorText) = end - ptr
             /\ \A i \in ptr..(end - 1) : At(i) # "\n"
<1>0. ptr \in Nat /\ Len(text) \in Nat
  BY DEF TextOK
<1> DEFINE match == {m \in multi_token_set : Slice(ptr, ptr + Len(m)) = m}
<1>1. CASE mode = "agumi" /\ match # {}
  <2>1. \A m \in multi_token_set :
          m \in Seq(operator_set) /\ Len(m) \in {2, 3} /\ \A k \in 1..Len(m) : m[k] # "\n"
    <3>2. \A a \in operator_set : a # "\n"
      BY CharacterClasses
    <3>3. \A a, b \in operator_set :
            /\ <<a, b>> \in Seq(operator_set) /\ Len(<<a, b>>) = 2
            /\ \A k \in 1..2 : <<a, b>>[k] # "\n"
      BY <3>2
    <3>4. \A a, b, c \in operator_set :
            /\ <<a, b, c>> \in Seq(operator_set) /\ Len(<<a, b, c>>) = 3
            /\ \A k \in 1..3 : <<a, b, c>>[k] # "\n"
      BY <3>2
    <3>5. {"=", "!", ">", "<", "+", "-", ".", "&", "|"} \subseteq operator_set
      BY DEF operator_set
    <3>6. \A m \in multi_token_set :
            \/ \E a, b \in operator_set : m = <<a, b>>
            \/ \E a, b, c \in operator_set : m = <<a, b, c>>
      BY <3>5 DEF multi_token_set
    <3>7. SUFFICES ASSUME NEW m \in multi_token_set
                   PROVE  /\ m \in Seq(operator_set) /\ Len(m) \in {2, 3}
                          /\ \A k \in 1..Len(m) : m[k] # "\n"
      OBVIOUS
    <3>8. CASE \E a, b \in operator_set : m = <<a, b>>
      <4>1. PICK a, b \in operator_set : m = <<a, b>>
        BY <3>8
      <4>2. QED
        BY <3>3, <4>1
    <3>9. CASE \E a, b, c \in operator_set : m = <<a, b, c>>
      <4>1. PICK a, b, c \in operator_set : m = <<a, b, c>>
        BY <3>9
      <4>2. QED
        BY <3>4, <4>1
    <3>10. QED
      BY <3>6, <3>8, <3>9
  <2>3. \E m \in match : \A n \in match : Len(n) <= Len(m)
    <3>1. CASE \E m \in match : Len(m) = 3
      BY <2>1, <3>1
    <3>2. CASE \A m \in match : Len(m) = 2
      BY <1>1, <3>2
    <3>3. QED
      BY <2>1, <3>1, <3>2
  <2>4. PICK m \in match : OperatorText = m
    BY <1>1, <2>3 DEF OperatorText
  <2>5. m \in multi_token_set /\ Slice(ptr, ptr + Len(m)) = m
    BY <2>4
  <2>6. m \in Seq(operator_set) /\ Len(m) \in {2, 3} /\ \A k \in 1..Len(m) : m[k] # "\n"
    BY <2>1, <2>5
  <2> HIDE DEF match
  <2>e. PICK end \in Nat : end = ptr + Len(m)
    BY <1>0, <2>6
  <2>7. end <= Len(text)
    <3>1. SUFFICES ASSUME end > Len(text) PROVE FALSE
      BY <1>0
    <3>2. Min({end, Len(text)}) = Len(text)
      BY <1>0, <3>1 DEF Min
    <3>3. Slice(ptr, end) = SubSeq(text, ptr + 1, Len(text))
      BY <3>2 DEF Slice
    <3>4. Len(SubSeq(text, ptr + 1, Len(text))) = Len(text) - ptr
      BY <1>0 DEF TextOK
    <3>5. QED
      BY <1>0, <2>5, <2>6, <2>e, <3>1, <3>3, <3>4
  <2>8. \A i \in ptr..(end - 1) : At(i) # "\n"
    <3>1. ASSUME NEW i \in ptr..(end - 1)
          PROVE  At(i) # "\n"
      <4>1. i - ptr + 1 \in 1..end - ptr /\ ptr + (i - ptr + 1) - 1 = i /\ end - ptr = Len(m)
        BY <1>0, <2>6, <2>e
      <4>2. \A k \in 1..end - ptr : Slice(ptr, end)[k] = At(ptr + k - 1)
        BY SMTT(30), <1>0, <2>6, <2>e, <2>7, SliceIs
      <4>3. Slice(ptr, end)[i - ptr + 1] = At(i)
        BY <4>1, <4>2
      <4>4. QED
        BY <2>5, <2>6, <2>e, <4>1, <4>3
    <3>2. QED
      BY <3>1
  <2>9. end \in (ptr + 1)..Len(text) /\ Len(m) = end - ptr
    BY <1>0, <2>6, <2>7, <2>e
  <2>10. OperatorText = Slice(ptr, end) /\ Len(OperatorText) = end - ptr
    BY <2>4, <2>5, <2>9, <2>e
  <2>11. QED
    BY <2>8, <2>9, <2>10
<1>2. CASE ~(mode = "agumi" /\ match # {})
  <2>1. OperatorText = <<At(ptr)>>
    BY <1>2 DEF OperatorText
  <2>2. Len(<<At(ptr)>>) = (ptr + 1) - ptr
    BY <1>0
  <2>3. \A i \in ptr..(ptr + 1 - 1) : i = ptr
    BY <1>0
  <2>4. At(ptr) # "\n"
    BY CharacterClasses
  <2>5. QED
    BY <2>1, <2>2, <2>3, <2>4, OneCharacter
<1>3. QED
  BY <1>1, <1>2

\* What Dispatch needs of the invariant, before every step.
LEMMA Before ==
    ASSUME TokInv
    PROVE  /\ TextOK /\ OutcomeOK /\ CursorInv
           /\ ptr \in Nat /\ Len(text) \in Nat /\ line \in Nat /\ offset \in Int
           /\ line = Cardinality(Newlines(ptr))
BY DEF TokInv, CursorInv, TextOK, TypeOK, OutcomeOK

LEMMA OperatorStep ==
    ASSUME TokInv, Operator
    PROVE  TokInv'
<1>0. /\ TextOK /\ OutcomeOK /\ ptr \in Nat /\ Len(text) \in Nat /\ offset \in Int
      /\ line = Cardinality(Newlines(ptr))
  BY Before
<1>1. CASE OperatorText = <<"&">>
  <2>1. UNCHANGED <<text, ptr, line, offset, res>> /\ OutcomeOK'
    BY <1>1 DEF Operator, Throw, OutcomeOK
  <2>2. QED
    BY <2>1, StayThere
<1>2. CASE OperatorText # <<"&">>
  <2>1. ptr < Len(text) /\ At(ptr) \in operator_set /\ At(ptr) \notin const_str_set
    BY CharacterClasses DEF Operator, Reading
  <2>2. PICK end \in (ptr + 1)..Len(text) :
             /\ OperatorText = Slice(ptr, end) /\ Len(OperatorText) = end - ptr
             /\ \A i \in ptr..(end - 1) : At(i) # "\n"
    BY <1>0, <2>1, OperatorTextIs
  <2>3. ptr \in 0..Len(text) /\ end \in ptr..Len(text)
    BY <1>0
  <2>4. Cardinality(Newlines(end)) = line
    BY <1>0, <2>2, <2>3, NoNewlines
  <2>5. /\ UNCHANGED <<text, outcome, line>> /\ ptr' = ptr + Len(OperatorText)
        /\ offset' = offset + Len(OperatorText)
        /\ res' = Append(res, Token(OperatorText, ptr, line))
    BY <1>2 DEF Operator, Push, Move
  <2>6. ptr' = end /\ offset' \in Int /\ res' = Append(res, Token(Slice(ptr, end), ptr, line))
    BY <1>0, <2>2, <2>5
  <2>7. OutcomeOK'
    BY <1>0, <2>5 DEF OutcomeOK
  <2>8. QED
    BY <2>1, <2>4, <2>5, <2>6, <2>7, ReadToken
<1>3. QED
  BY <1>1, <1>2

LEMMA NumberStep ==
    ASSUME TokInv, Number
    PROVE  TokInv'
<1>0. /\ TextOK /\ OutcomeOK /\ ptr \in Nat /\ Len(text) \in Nat /\ offset \in Int
      /\ line = Cardinality(Newlines(ptr))
  BY Before
<1> DEFINE Stop(i) == At(i) \notin Digits /\ ~(At(i) = "." /\ At(i + 1) # ".")
           T == {j \in (ptr + 1)..Len(text) : j = Len(text) \/ Stop(j)}
           end == First(T)
<1>1. /\ ptr < Len(text) /\ (At(ptr) \in Digits \/ At(ptr) = "-")
      /\ At(ptr) \in operator_set \cup Digits
  BY DEF Number, Reading, Negative
<1>2. end \in T /\ \A k \in T : end <= k
  <2>1. T \in SUBSET Nat /\ Len(text) \in T
    BY <1>0, <1>1
  <2> HIDE DEF T
  <2>2. QED
    BY <2>1, FirstIs
<1>3. /\ UNCHANGED <<text, outcome, line>> /\ ptr' = end /\ offset' = offset + (end - ptr - 1)
      /\ res' = Append(res, Token(Slice(ptr, end), ptr, line))
  BY DEF Number, Until, Push, Move
<1>4. end \in (ptr + 1)..Len(text)
  BY <1>2
<1>5. \A i \in ptr..(end - 1) : At(i) # "\n"
  <2>1. ASSUME NEW i \in ptr..(end - 1), i # ptr
        PROVE  At(i) # "\n"
    <3>1. i \in (ptr + 1)..Len(text) /\ ~ (end <= i)
      BY <1>0, <1>4, <2>1
    <3>2. ~Stop(i)
      BY <1>2, <3>1
    <3>3. QED
      BY <3>2, CharacterClasses
  <2>2. At(ptr) # "\n"
    BY <1>1, CharacterClasses
  <2>3. QED
    BY <2>1, <2>2
<1> HIDE DEF end
<1>6. Cardinality(Newlines(end)) = line
  <2>1. ptr \in 0..Len(text) /\ end \in ptr..Len(text)
    BY <1>0, <1>1, <1>4
  <2>2. QED
    BY <1>0, <1>5, <2>1, NoNewlines
<1>7. At(ptr) \notin const_str_set /\ OutcomeOK' /\ offset' \in Int
  BY <1>0, <1>1, <1>3, <1>4, CharacterClasses DEF OutcomeOK
<1>8. QED
  BY <1>3, <1>4, <1>6, <1>7, ReadToken

LEMMA IdentifyStep ==
    ASSUME TokInv, Identify
    PROVE  TokInv'
<1>0. /\ TextOK /\ OutcomeOK /\ ptr \in Nat /\ Len(text) \in Nat /\ offset \in Int
      /\ line = Cardinality(Newlines(ptr))
  BY Before
<1> DEFINE T == {j \in (ptr + 1)..Len(text) : j = Len(text) \/ At(j) \notin Letters}
           end == First(T)
<1>1. ptr < Len(text) /\ At(ptr) \notin empty_set \cup const_str_set
  BY DEF Identify
<1>2. end \in T /\ \A k \in T : end <= k
  <2>1. T \in SUBSET Nat /\ Len(text) \in T
    BY <1>0, <1>1
  <2> HIDE DEF T
  <2>2. QED
    BY <2>1, FirstIs
<1>3. /\ UNCHANGED <<text, outcome, line>> /\ ptr' = end /\ offset' = offset + (end - ptr)
      /\ res' = Append(res, Token(Slice(ptr, end), ptr, line))
  BY DEF Identify, Until, Push, Move
<1>4. end \in (ptr + 1)..Len(text)
  BY <1>2
<1>5. \A i \in ptr..(end - 1) : At(i) # "\n"
  <2>1. ASSUME NEW i \in ptr..(end - 1), i # ptr
        PROVE  At(i) # "\n"
    <3>1. i \in (ptr + 1)..Len(text) /\ ~ (end <= i)
      BY <1>0, <1>4, <2>1
    <3>2. At(i) \in Letters
      BY <1>2, <3>1
    <3>3. QED
      BY <3>2, CharacterClasses
  <2>2. At(ptr) # "\n"
    BY <1>1 DEF empty_set
  <2>3. QED
    BY <2>1, <2>2
<1> HIDE DEF end
<1>6. Cardinality(Newlines(end)) = line
  <2>1. ptr \in 0..Len(text) /\ end \in ptr..Len(text)
    BY <1>0, <1>1, <1>4
  <2>2. QED
    BY <1>0, <1>5, <2>1, NoNewlines
<1>7. At(ptr) \notin const_str_set /\ OutcomeOK' /\ offset' \in Int
  BY <1>0, <1>1, <1>3, <1>4 DEF OutcomeOK
<1>8. QED
  BY <1>3, <1>4, <1>6, <1>7, ReadToken

LEMMA SingleCharStep ==
    ASSUME TokInv, SingleChar
    PROVE  TokInv'
<1>0. /\ TextOK /\ OutcomeOK /\ ptr \in Nat /\ Len(text) \in Nat /\ offset \in Int
      /\ line = Cardinality(Newlines(ptr))
  BY Before
<1>1. ptr < Len(text) /\ At(ptr) \in single_char_set
  BY DEF SingleChar, Reading
<1>2. CASE At(ptr) = ";"
  <2>1. UNCHANGED <<text, ptr, line, offset, res>> /\ OutcomeOK'
    BY <1>2 DEF SingleChar, Throw, OutcomeOK
  <2>2. QED
    BY <2>1, StayThere
<1>3. CASE At(ptr) # ";"
  <2>1. /\ <<At(ptr)>> = Slice(ptr, ptr + 1) /\ ptr + 1 \in (ptr + 1)..Len(text)
        /\ ptr \in 0..Len(text) /\ ptr + 1 \in ptr..Len(text)
    BY <1>0, <1>1, OneCharacter
  <2>2. /\ UNCHANGED <<text, outcome, line>> /\ ptr' = ptr + 1 /\ offset' = offset + 1
        /\ res' = Append(res, Token(Slice(ptr, ptr + 1), ptr, line))
    BY <1>3, <2>1 DEF SingleChar, Push, Move
  <2>3. At(ptr) # "\n" /\ At(ptr) \notin const_str_set
    BY <1>1, CharacterClasses
  <2>4. Cardinality(Newlines(ptr + 1)) = line
    <3>1. \A i \in ptr..(ptr + 1 - 1) : At(i) # "\n"
      BY <1>0, <2>3
    <3>2. QED
      BY <1>0, <2>1, <3>1, NoNewlines
  <2>5. OutcomeOK' /\ offset' \in Int
    BY <1>0, <2>2 DEF OutcomeOK
  <2>6. QED
    BY <2>1, <2>2, <2>3, <2>4, <2>5, ReadToken
<1>4. QED
  BY <1>2, <1>3

LEMMA EmptyStep ==
    ASSUME TokInv, Empty
    PROVE  TokInv'
<1>0. /\ TextOK /\ OutcomeOK /\ ptr \in Nat /\ Len(text) \in Nat /\ offset \in Int
      /\ line = Cardinality(Newlines(ptr)) /\ line \in Nat
  BY Before
<1>1. ptr < Len(text) /\ At(ptr) \in empty_set
  BY DEF Empty, Reading
<1>2. /\ <<At(ptr)>> = Slice(ptr, ptr + 1) /\ ptr + 1 \in (ptr + 1)..Len(text)
      /\ ptr \in 0..Len(text) /\ ptr + 1 \in ptr..Len(text)
  BY <1>0, <1>1, OneCharacter
<1>3. /\ UNCHANGED <<text, outcome>> /\ ptr' = ptr + 1
      /\ \/ res' = Append(res, Token(Slice(ptr, ptr + 1), ptr, line))
         \/ res' = res
      /\ IF At(ptr) = "\n" THEN line' = line + 1 /\ offset' = 0
                           ELSE line' = line /\ offset' = offset + 1
  BY <1>2 DEF Empty, Push, Move
<1>4. OutcomeOK' /\ offset' \in Int
  BY <1>0, <1>3 DEF OutcomeOK
<1>5. line' = Cardinality(Newlines(ptr + 1))
  <2>1. CASE At(ptr) = "\n"
    <3>1. NewlinesIn(ptr, ptr + 1) = {ptr}
      BY <1>0, <2>1 DEF NewlinesIn
    <3>2. Cardinality(NewlinesIn(ptr, ptr + 1)) = 1
      BY <3>1, FS_Singleton
    <3>3. QED
      BY <1>0, <1>2, <1>3, <2>1, <3>2, NewlinesSplit
  <2>2. CASE At(ptr) # "\n"
    <3>1. \A i \in ptr..(ptr + 1 - 1) : At(i) # "\n"
      BY <1>0, <2>2
    <3>2. QED
      BY <1>0, <1>2, <1>3, <2>2, <3>1, NoNewlines
  <2>3. QED
    BY <2>1, <2>2
<1>6. Skipped(ptr, ptr + 1) /\ At(ptr) \notin const_str_set
  BY <1>1, CharacterClasses DEF Skipped
<1>7. CASE res' = res
  BY <1>2, <1>3, <1>4, <1>5, <1>6, <1>7, SkipText
<1>8. CASE res' = Append(res, Token(Slice(ptr, ptr + 1), ptr, line))
  BY <1>2, <1>3, <1>4, <1>5, <1>6, <1>8, ReadToken
<1>9. QED
  BY <1>3, <1>7, <1>8

LEMMA StartStep ==
    ASSUME TokInv, Start
    PROVE  TokInv'
<1>1. UNCHANGED <<text, ptr, line, offset, res>> /\ OutcomeOK'
  BY DEF Start, OutcomeOK
<1>2. QED
  BY <1>1, StayThere

LEMMA LineCommentStep ==
    ASSUME TokInv, LineComment
    PROVE  TokInv'
<1>0. /\ TextOK /\ OutcomeOK /\ ptr \in Nat /\ Len(text) \in Nat /\ offset \in Int
      /\ line = Cardinality(Newlines(ptr)) /\ CursorInv
  BY Before
<1> DEFINE T == {j \in ptr..Len(text) : j = Len(text) \/ At(j) = "\n"}
           end == First(T)
           to == IF end = Len(text) THEN Len(text) - 1 ELSE end
<1>1. At(ptr) = "/" /\ At(ptr + 1) = "/" /\ ptr + 1 < Len(text)
  <2>1. At(ptr) = "/" /\ At(ptr + 1) = "/"
    BY DEF LineComment, Reading
  <2>2. QED
    BY <1>0, <2>1, AtInText
<1>2. end \in T /\ \A k \in T : end <= k
  <2>1. T \in SUBSET Nat /\ Len(text) \in T
    BY <1>0, <1>1
  <2> HIDE DEF T
  <2>2. QED
    BY <2>1, FirstIs
<1>3. /\ UNCHANGED <<text, outcome, line, res>> /\ ptr' = to /\ offset' = offset + (end - ptr)
  BY DEF LineComment, Until, Move
<1>4. end \in ptr..Len(text) /\ (end # Len(text) => At(end) = "\n")
  BY <1>2
<1>5. \A i \in ptr..(end - 1) : At(i) # "\n"
  <2>1. SUFFICES ASSUME NEW i \in ptr..(end - 1), At(i) = "\n" PROVE FALSE
    OBVIOUS
  <2>2. i \in ptr..Len(text) /\ ~ (end <= i)
    BY <1>0, <1>4
  <2>3. QED
    BY <1>2, <2>1, <2>2
<1>6. ptr + 2 <= end
  <2>1. end # ptr /\ end # ptr + 1
    BY <1>0, <1>1, <1>4
  <2>2. QED
    BY <1>0, <1>4, <2>1
<1> HIDE DEF end
<1>7. to \in (ptr + 1)..Len(text) /\ to \in ptr..Len(text) /\ to \in 0..Len(text) /\ to <= end
  BY <1>0, <1>1, <1>4, <1>6
<1>8. Cardinality(Newlines(to)) = line
  <2>1. \A i \in ptr..(to - 1) : At(i) # "\n"
    BY <1>0, <1>4, <1>5, <1>7
  <2>2. ptr \in 0..Len(text)
    BY <1>0, <1>1
  <2>3. QED
    BY <1>0, <1>7, <2>1, <2>2, NoNewlines
<1>9. OutcomeOK' /\ offset' \in Int
  BY <1>0, <1>3, <1>4 DEF OutcomeOK
<1>10. CASE end # Len(text)
  <2>1. to = end /\ end \in Nat
    BY <1>0, <1>4, <1>10
  <2>2. Skipped(ptr, to)
    BY <1>1, <1>4, <1>5, <1>6, <1>10, <2>1 DEF Skipped
  <2> HIDE DEF to
  <2>3. QED
    BY <1>3, <1>7, <1>8, <1>9, <2>2, SkipText
<1>11. CASE end = Len(text)
  <2>1. OpenComment
    <3>1. /\ ptr \in 0..Len(text) - 1 /\ ptr + 1 \in 0..Len(text) - 1
          /\ ptr + 1 \in 1..(Len(text) - 1)
      BY <1>0, <1>1
    <3>2. text[ptr + 1] = "/" /\ text[ptr + 1 + 1] = "/"
      BY <1>0, <1>1, <3>1, AtInText
    <3>3. ASSUME NEW j \in (ptr + 1)..Len(text)
          PROVE  text[j] # "\n"
      <4>1. j - 1 \in ptr..(end - 1) /\ j - 1 \in 0..Len(text) - 1 /\ j - 1 + 1 = j
        BY <1>0, <1>11
      <4>2. At(j - 1) # "\n" /\ At(j - 1) = text[j - 1 + 1]
        BY <1>0, <1>5, <4>1, AtInText
      <4>3. QED
        BY <4>1, <4>2
    <3>4. QED
      BY <3>1, <3>2, <3>3 DEF OpenComment
  <2>2. NothingLost'
    BY <1>3, <2>1, TextStays DEF NothingLost
  <2> HIDE DEF to
  <2>3. CursorInv' /\ LineNumbers'
    BY <1>0, <1>3, <1>7, <1>8, <1>9, CursorStep DEF TokInv
  <2>4. QED
    BY <2>2, <2>3 DEF TokInv
<1>12. QED
  BY <1>10, <1>11

\* line and offset behind a text of several lines that ends at "end".
LEMMA BehindBreaks ==
    ASSUME TextOK, NEW end \in ptr..Len(text)
    PROVE  /\ Cardinality(Newlines(end)) = Cardinality(Newlines(ptr)) + Breaks(end)
           /\ Breaks(end) # 0 => LastBreak(end) \in Int
<1>1. ptr \in 0..Len(text) /\ Len(text) \in Nat /\ end \in Nat
  BY DEF TextOK
<1>2. Breaks(end) = Cardinality(NewlinesIn(ptr, end))
  BY DEF Breaks, NewlinesIn
<1>3. Breaks(end) # 0 => LastBreak(end) \in Int
  <2>1. SUFFICES ASSUME Breaks(end) # 0 PROVE Max(NewlinesIn(ptr, end)) \in Int
    BY DEF LastBreak, NewlinesIn
  <2>2. NewlinesIn(ptr, end) # {}
    BY <1>2, <2>1, FS_EmptySet
  <2>3. NewlinesIn(ptr, end) \in SUBSET (0..end)
    BY <1>1 DEF NewlinesIn
  <2>4. Max(NewlinesIn(ptr, end)) \in 0..end
    BY <1>1, <2>2, <2>3, MaxIs
  <2>5. QED
    BY <2>4
<1>4. QED
  BY <1>1, <1>2, <1>3, NewlinesSplit

LEMMA BlockCommentStep ==
    ASSUME TokInv, BlockComment
    PROVE  TokInv'
<1>0. /\ TextOK /\ OutcomeOK /\ ptr \in Nat /\ Len(text) \in Nat /\ offset \in Int
      /\ line = Cardinality(Newlines(ptr))
  BY Before
<1> DEFINE Stop(j) == At(j) = "*" /\ At(j + 1) = "/"
           T == {j \in ptr..Len(text) : j = Len(text) \/ Stop(j)}
           end == First(T)
<1>1. At(ptr) = "/" /\ At(ptr + 1) = "*" /\ ptr < Len(text)
  BY DEF BlockComment, Reading
<1>2. end \in T /\ \A k \in T : end <= k
  <2>1. T \in SUBSET Nat /\ Len(text) \in T
    BY <1>0, <1>1
  <2> HIDE DEF T
  <2>2. QED
    BY <2>1, FirstIs
<1>3. IF end = Len(text) THEN Throw
      ELSE /\ UNCHANGED <<text, outcome, res>> /\ ptr' = end + 2 /\ line' = line + Breaks(end)
           /\ offset' = IF Breaks(end) = 0 THEN offset + (end - ptr)
                        ELSE end - LastBreak(end) - 1
  BY DEF BlockComment, Until, Move
<1>4. end \in ptr..Len(text) /\ (end # Len(text) => Stop(end))
  BY <1>2
<1>5. \A k \in ptr..(end - 1) : ~Stop(k)
  <2>1. SUFFICES ASSUME NEW k \in ptr..(end - 1), Stop(k) PROVE FALSE
    OBVIOUS
  <2>2. k \in ptr..Len(text) /\ ~ (end <= k)
    BY <1>0, <1>4
  <2>3. QED
    BY <1>2, <2>1, <2>2
<1> HIDE DEF end
<1>6. CASE end = Len(text)
  <2>1. UNCHANGED <<text, ptr, line, offset, res>> /\ OutcomeOK'
    BY <1>3, <1>6 DEF Throw, OutcomeOK
  <2>2. QED
    BY <2>1, StayThere
<1>7. CASE end # Len(text)
  <2>1. At(end) = "*" /\ At(end + 1) = "/" /\ end \in Nat
    BY <1>0, <1>4, <1>7
  <2>2. end + 1 < Len(text) /\ ptr + 1 <= end
    <3>1. end # ptr
      BY <1>1, <2>1
    <3>2. QED
      BY <1>0, <1>4, <2>1, <3>1, AtInText
  <2>3. /\ end + 2 \in (ptr + 1)..Len(text) /\ end \in 0..Len(text)
        /\ end + 2 \in end..Len(text) /\ end + 2 - 2 = end /\ end + 2 - 1 = end + 1
        /\ end + 2 - 3 = end - 1 /\ ptr + 3 <= end + 2
    BY <1>0, <2>1, <2>2
  <2>4. Skipped(ptr, end + 2)
    BY <1>1, <1>5, <2>1, <2>3 DEF Skipped
  <2>5. Cardinality(Newlines(end + 2)) = Cardinality(Newlines(end))
    <3>1. \A i \in end..(end + 2 - 1) : i = end \/ i = end + 1
      BY <2>1
    <3>2. \A i \in end..(end + 2 - 1) : At(i) # "\n"
      BY <2>1, <3>1
    <3>3. QED
      BY <1>0, <2>3, <3>2, NoNewlines
  <2>6. line' = Cardinality(Newlines(end + 2)) /\ offset' \in Int
    <3>1. /\ Cardinality(Newlines(end)) = Cardinality(Newlines(ptr)) + Breaks(end)
          /\ Breaks(end) # 0 => LastBreak(end) \in Int
      BY <1>0, <1>4, BehindBreaks
    <3>2. QED
      BY <1>0, <1>3, <1>7, <2>1, <2>5, <3>1
  <2>7. UNCHANGED <<text, res>> /\ ptr' = end + 2 /\ OutcomeOK'
    BY <1>0, <1>3, <1>7 DEF OutcomeOK
  <2>8. QED
    BY <2>3, <2>4, <2>6, <2>7, SkipText
<1>8. QED
  BY <1>6, <1>7

LEMMA UnescapeFirst ==
    ASSUME NEW s \in Seq(Characters), Len(s) > 0, s[1] # "\\"
    PROVE  Unescape(s) \in Seq(Characters) /\ Unescape(s)[1] = s[1]
<1> DEFINE dropped(i) == s[i] = "\\" /\ i < Len(s) /\ s[i + 1] = "\""
           x == [i \in 1..Len(s) |-> IF dropped(i) THEN <<>> ELSE <<s[i]>>]
<1>1. Len(s) \in Nat /\ 1 \in 1..Len(s) /\ \A i \in 1..Len(s) : s[i] \in Characters
  OBVIOUS
<1>2. \A i \in 1..Len(s) : x[i] \in Seq(Characters)
  <2>1. \A c \in Characters : <<c>> \in Seq(Characters)
    OBVIOUS
  <2>2. <<>> \in Seq(Characters)
    OBVIOUS
  <2>3. QED
    BY <1>1, <2>1, <2>2
<1>3. x \in Seq(Seq(Characters)) /\ Len(x) = Len(s)
  <2>1. x \in [1..Len(s) -> Seq(Characters)]
    BY <1>2
  <2> HIDE DEF x
  <2>2. QED
    BY <1>1, <2>1
<1>4. x[1] = <<s[1]>> /\ x[1] # <<>> /\ x[1][1] = s[1]
  BY <1>1
<1>5. Unescape(s) = FlattenSeq(x)
  BY DEF Unescape
<1> HIDE DEF x
<1>6. FlattenSeq(x) \in Seq(Characters) /\ FlattenSeq(x)[1] = x[1][1]
  BY <1>3, <1>4, FlattenFirst
<1>7. QED
  BY <1>4, <1>5, <1>6

LEMMA ConstStringStep ==
    ASSUME TokInv, ConstString
    PROVE  TokInv'
<1>0. /\ TextOK /\ OutcomeOK /\ ptr \in Nat /\ Len(text) \in Nat /\ offset \in Int
      /\ line = Cardinality(Newlines(ptr)) /\ line \in Nat
      /\ CursorInv /\ LineNumbers /\ NothingLost
  BY Before DEF TokInv
<1> DEFINE quote == At(ptr)
           Stop(i) == \/ At(i) = quote /\ At(i - 1) # "\\"
                      \/ At(i) = "\n" /\ quote # "bq"
           T == {j \in (ptr + 1)..Len(text) : j = Len(text) \/ Stop(j)}
           end == First(T)
           escaped == \E i \in (ptr + 1)..(end - 1) : At(i) = quote
           kw == IF escaped THEN Unescape(Slice(ptr, end + 1)) ELSE Slice(ptr, end + 1)
<1>1. ptr < Len(text) /\ quote \in const_str_set
  BY DEF ConstString, Reading
<1>2. end \in T /\ \A k \in T : end <= k
  <2>1. T \in SUBSET Nat /\ Len(text) \in T
    BY <1>0, <1>1
  <2> HIDE DEF T
  <2>2. QED
    BY <2>1, FirstIs
<1>3. IF At(end) # quote THEN Throw
      ELSE /\ UNCHANGED <<text, outcome>> /\ ptr' = end + 1 /\ line' = line + Breaks(end)
           /\ offset' = IF Breaks(end) = 0 THEN offset + (end - ptr - 1)
                        ELSE end - LastBreak(end) - 1
           /\ res' = Append(res, Token(kw, ptr', line'))
  BY DEF ConstString, Until, Move
<1>4. end \in (ptr + 1)..Len(text)
  BY <1>2
<1> HIDE DEF end
<1>5. CASE At(end) # quote
  <2>1. UNCHANGED <<text, ptr, line, offset, res>> /\ OutcomeOK'
    BY <1>3, <1>5 DEF Throw, OutcomeOK
  <2>2. QED
    BY <2>1, StayThere
<1>6. CASE At(end) = quote
  <2>1. end < Len(text) /\ end \in Nat
    BY <1>0, <1>1, <1>4, <1>6, AtInText, CharacterClasses
  <2>2. /\ end + 1 \in 0..Len(text) /\ end \in ptr..Len(text) /\ end \in 0..Len(text)
        /\ end + 1 \in end..Len(text) /\ end + 1 \in Nat /\ ptr <= end + 1
        /\ ptr \in 0..(end + 1) - 1
    BY <1>0, <1>4, <2>1
  <2>3. Cardinality(Newlines(end + 1)) = Cardinality(Newlines(end))
    <3>1. \A i \in end..(end + 1 - 1) : i = end
      BY <2>1
    <3>2. \A i \in end..(end + 1 - 1) : At(i) # "\n"
      BY <1>1, <1>6, <3>1, CharacterClasses
    <3>3. QED
      BY <1>0, <2>2, <3>2, NoNewlines
  <2>4. line' = Cardinality(Newlines(end + 1)) /\ offset' \in Int /\ line' \in Nat
    <3>1. /\ Cardinality(Newlines(end)) = Cardinality(Newlines(ptr)) + Breaks(end)
          /\ Breaks(end) # 0 => LastBreak(end) \in Int
      BY <1>0, <2>2, BehindBreaks
    <3>2. Cardinality(Newlines(end)) \in Nat
      BY <1>0, <2>2, NewlinesSplit
    <3>3. QED
      BY <1>0, <1>3, <1>6, <2>1, <2>3, <3>1, <3>2
  <2>5. kw \in Seq(Characters) /\ kw[1] = quote
    <3> DEFINE s == Slice(ptr, end + 1)
    <3>1. s \in Seq(Characters) /\ Len(s) = end + 1 - ptr /\ \A k \in 1..end + 1 - ptr : s[k] = At(ptr + k - 1)
      BY <1>0, <2>2, SliceIs
    <3>2. Len(s) > 0 /\ s[1] = quote
      <4>1. 1 \in 1..end + 1 - ptr /\ ptr + 1 - 1 = ptr /\ end + 1 - ptr > 0
        BY <1>0, <1>4
      <4>2. s[1] = At(ptr + 1 - 1)
        BY <3>1, <4>1
      <4>3. QED
        BY <3>1, <4>1, <4>2
    <3> HIDE DEF s
    <3>3. s[1] # "\\"
      BY <1>1, <3>2, CharacterClasses
    <3>4. Unescape(s) \in Seq(Characters) /\ Unescape(s)[1] = quote
      BY <3>1, <3>2, <3>3, UnescapeFirst
    <3>5. QED
      BY <3>1, <3>2, <3>4 DEF s
  <2> DEFINE t == Token(kw, end + 1, line')
  <2>6. t.kw = kw /\ t.pos = end + 1 /\ t.line = line'
    BY DEF Token
  <2>7. kw \in {Slice(ptr, end + 1), Unescape(Slice(ptr, end + 1))}
    OBVIOUS
  <2> HIDE DEF kw
  <2>8. t \in TokenSet
    BY <2>2, <2>4, <2>5 DEF Token, TokenSet
  <2> HIDE DEF t
  <2>9. IsString(t)
    BY <1>1, <2>5, <2>6 DEF IsString
  <2>10. ptr \in Begins(t) /\ Ends(t) = end + 1
    BY <2>2, <2>6, <2>7, <2>9 DEF Begins, Ends
  <2>11. /\ UNCHANGED text /\ ptr' = end + 1 /\ OutcomeOK' /\ res' = Append(res, t)
         /\ t.line = Cardinality(Newlines(t.pos))
    BY <1>0, <1>3, <1>6, <2>4, <2>6 DEF OutcomeOK, t
  <2>12. CursorInv' /\ LineNumbers'
    BY <1>0, <2>2, <2>4, <2>8, <2>11, CursorStep
  <2>13. NothingLost'
    BY <1>0, <2>2, <2>8, <2>10, <2>11, GapsAroundToken
  <2>14. QED
    BY <2>12, <2>13 DEF TokInv
<1>7. QED
  BY <1>5, <1>6

-----------------------------------------------------------------------------

\* Before the first step, of a text or of what a text is made of later.
Fresh ==
    /\ text \in Seq(Characters) /\ ptr = 0 /\ line = 0 /\ offset = 0 /\ res = <<>>
    /\ outcome \in {"built", "running"}

LEMMA FreshTokInv == Fresh => TokInv
<1> SUFFICES ASSUME Fresh PROVE TokInv
  OBVIOUS
<1>1. text \in Seq(Characters) /\ ptr = 0 /\ line = 0 /\ offset = 0 /\ res = <<>> /\ outcome \in {"built", "running"}
  BY DEF Fresh
<1>2. TextOK /\ TypeOK
  BY <1>1 DEF TextOK, TypeOK
<1>3. res \in Seq(TokenSet) /\ Len(res) = 0
  BY <1>1
<1>4. line = Cardinality(Newlines(ptr))
  <2>1. Newlines(0) = {}
    BY DEF Newlines
  <2>2. QED
    BY <1>1, <2>1, FS_EmptySet
<1>5. LineNumbers
  BY <1>1 DEF LineNumbers, Range
<1>6. NothingLost
  <2>1. GapsFilled
    BY <1>1, <1>3, GapOfNothing DEF GapsFilled, LastEnd
  <2>2. QED
    BY <1>3, <2>1, NothingLostIs
<1>7. QED
  BY <1>2, <1>3, <1>4, <1>5, <1>6 DEF TokInv, CursorInv

LEMMA InitFresh == TInit => Fresh
BY TextsAssumption, StringsAreCharacters DEF TInit, Fresh

LEMMA InitTokInv == TInit => TokInv
BY InitFresh, FreshTokInv

LEMMA NextTokInv == TokInv /\ [TNext]_tvars => TokInv'
<1> SUFFICES ASSUME TokInv, [TNext]_tvars PROVE TokInv'
  OBVIOUS
<1>1. CASE TNext
  BY <1>1, OperatorStep, NumberStep, LineCommentStep, BlockCommentStep, IdentifyStep,
     EmptyStep, SingleCharStep, ConstStringStep, StartStep DEF TNext
<1>2. CASE UNCHANGED tvars
  <2>1. UNCHANGED <<text, ptr, line, offset, res>> /\ OutcomeOK'
    BY <1>2, Before DEF tvars, OutcomeOK
  <2>2. QED
    BY <2>1, StayThere
<1>3. QED
  BY <1>1, <1>2

\* For every text: the tokens, with blanks and comments between them, are the
\* text, each at its place and with its line (unless the text ends in a comment
\* of one line), and the cursor never leaves it.
THEOREM TokensInPlaceHolds == TSpec => []TokensInPlace
<1>1. TokInv => TokensInPlace
  BY DEF TokInv, CursorInv, TokensInPlace
<1>2. QED
  BY <1>1, InitTokInv, NextTokInv, PTL DEF TSpec


-----------------------------------------------------------------------------
(* FlattenSeq, one sequence at a time.                                       *)

Joins(x, m) == FlattenSeq([i \in 1..m |-> x[i]])

LEMMA JoinedUnique ==
    \A x, f, g : \A n \in Nat : \A m \in 0..n :
      Joined(x, m, f) /\ Joined(x, n, g) => \A i \in 1..m : f[i] = g[i]
<1> SUFFICES ASSUME NEW x, NEW f, NEW g, NEW n \in Nat, NEW m \in 0..n, Joined(x, m, f), Joined(x, n, g)
             PROVE  \A i \in 1..m : f[i] = g[i]
  OBVIOUS
<1> DEFINE T == {i \in 1..m : f[i] # g[i]}
<1>1. SUFFICES ASSUME T # {} PROVE FALSE
  OBVIOUS
<1>2. PICK i \in T : \A k \in T : i <= k
  <2>1. T \in SUBSET Nat
    OBVIOUS
  <2> HIDE DEF T
  <2>2. QED
    BY <1>1, <2>1, LeastOf
<1>3. i \in 1..m /\ i \in 1..n /\ f[i] # g[i]
  BY <1>2
<1>4. i # 1 => i - 1 \in 1..m /\ ~ (i <= i - 1)
  BY <1>3
<1>5. i # 1 => f[i - 1] = g[i - 1]
  BY <1>2, <1>4
<1>6. QED
  BY <1>3, <1>5 DEF Joined

LEMMA JoinsSteps ==
    ASSUME NEW C, NEW n \in Nat, NEW x \in [1..n -> Seq(C)]
    PROVE  /\ Joins(x, 0) = <<>>
           /\ \A m \in 0..n : Joins(x, m) \in Seq(C)
           /\ \A m \in 1..n : Joins(x, m) = Joins(x, m - 1) \o x[m]
           /\ FlattenSeq(x) = Joins(x, n)
<1> DEFINE y(m) == [i \in 1..m |-> x[i]]
<1>1. \A m \in 0..n : y(m) \in Seq(Seq(C)) /\ Len(y(m)) = m /\ \A i \in 1..m : y(m)[i] = x[i]
  OBVIOUS
<1>2. Joins(x, 0) = <<>>
  <2>1. y(0) = <<>>
    OBVIOUS
  <2>2. QED
    BY <2>1 DEF Joins, FlattenSeq
<1>3. FlattenSeq(x) = Joins(x, n)
  <2>1. x = y(n)
    OBVIOUS
  <2>2. QED
    BY <2>1 DEF Joins
<1> HIDE DEF y
<1>4. PICK g \in [1..n -> Seq(C)] : Joined(y(n), n, g)
  <2>1. y(n) \in Seq(Seq(C)) /\ Len(y(n)) = n
    BY <1>1
  <2>2. QED
    BY <2>1, JoinedExists
<1>5. Joined(x, n, g)
  <2>1. \A i \in 1..n : y(n)[i] = x[i]
    BY <1>1
  <2>2. QED
    BY <1>4, <2>1 DEF Joined
<1>6. ASSUME NEW m \in 1..n
      PROVE  Joins(x, m) = g[m]
  <2>1. y(m) \in Seq(Seq(C)) /\ Len(y(m)) = m /\ m > 0
    BY <1>1
  <2>2. PICK f : Joined(y(m), m, f) /\ FlattenSeq(y(m)) = f[m]
    BY <2>1, FlattenIs
  <2>3. Joined(x, m, f)
    <3>1. \A i \in 1..m : y(m)[i] = x[i]
      BY <1>1
    <3>2. ASSUME NEW i \in 1..m
          PROVE  f[i] = IF i = 1 THEN x[i] ELSE f[i - 1] \o x[i]
      <4>1. f[i] = IF i = 1 THEN y(m)[i] ELSE f[i - 1] \o y(m)[i]
        BY <2>2 DEF Joined
      <4>2. QED
        BY <3>1, <4>1
    <3>3. QED
      BY <3>2 DEF Joined
  <2>4. m \in 0..n /\ m \in 1..m
    OBVIOUS
  <2>5. \A i \in 1..m : f[i] = g[i]
    BY <1>5, <2>3, <2>4, JoinedUnique
  <2>6. QED
    BY <2>2, <2>4, <2>5 DEF Joins, y
<1>7. \A m \in 0..n : Joins(x, m) \in Seq(C)
  <2>1. \A m \in 1..n : g[m] \in Seq(C)
    BY <1>4
  <2>2. <<>> \in Seq(C)
    OBVIOUS
  <2>3. \A m \in 0..n : m = 0 \/ m \in 1..n
    OBVIOUS
  <2>4. QED
    BY <1>2, <1>6, <2>1, <2>2, <2>3
<1>8. ASSUME NEW m \in 1..n
      PROVE  Joins(x, m) = Joins(x, m - 1) \o x[m]
  <2>1. CASE m = 1
    <3>1. g[1] = x[1]
      BY <1>5, <2>1 DEF Joined
    <3>2. x[1] \in Seq(C)
      BY <2>1
    <3>3. <<>> \o x[1] = x[1]
      BY <3>2
    <3>4. m - 1 = 0
      BY <2>1
    <3>5. QED
      BY <1>2, <1>6, <2>1, <3>1, <3>3, <3>4
  <2>2. CASE m # 1
    <3>1. m - 1 \in 1..n
      BY <2>2
    <3>2. g[m] = g[m - 1] \o x[m]
      BY <1>5, <2>2 DEF Joined
    <3>3. QED
      BY <1>6, <3>1, <3>2
  <2>3. QED
    BY <2>1, <2>2
<1>9. QED
  BY <1>2, <1>3, <1>7, <1>8

\* What is joined stays where it is when more is joined.
LEMMA JoinsStay ==
    ASSUME NEW C, NEW n \in Nat, NEW x \in [1..n -> Seq(C)], NEW m \in 0..n, NEW k \in m..n
    PROVE  /\ Len(Joins(x, m)) <= Len(Joins(x, k))
           /\ \A p \in 1..Len(Joins(x, m)) : Joins(x, k)[p] = Joins(x, m)[p]
<1> DEFINE P(j) == /\ Len(Joins(x, m)) <= Len(Joins(x, j))
                   /\ \A p \in 1..Len(Joins(x, m)) : Joins(x, j)[p] = Joins(x, m)[p]
           T == {j \in m..n : ~P(j)}
<1>1. SUFFICES ASSUME T # {} PROVE FALSE
  OBVIOUS
<1>2. PICK j \in T : \A i \in T : j <= i
  <2>1. T \in SUBSET Nat
    OBVIOUS
  <2> HIDE DEF T
  <2>2. QED
    BY <1>1, <2>1, LeastOf
<1>3. j \in m..n /\ ~P(j)
  BY <1>2
<1>0. Joins(x, m) \in Seq(C)
  BY JoinsSteps
<1>4. P(m)
  BY <1>0
<1>5. j # m
  BY <1>3, <1>4
<1>6. j - 1 \in m..n /\ j - 1 \in 0..n /\ j \in 1..n /\ ~ (j <= j - 1)
  BY <1>3, <1>5
<1>7. P(j - 1)
  <2>1. j - 1 \notin T
    BY <1>2, <1>6
  <2>2. QED
    BY <1>6, <2>1 DEF T
<1>8. Joins(x, j) = Joins(x, j - 1) \o x[j] /\ Joins(x, j - 1) \in Seq(C) /\ x[j] \in Seq(C)
  BY <1>6, JoinsSteps
<1> HIDE DEF T
<1>9. P(j)
  <2>1. Len(Joins(x, j)) = Len(Joins(x, j - 1)) + Len(x[j])
    BY <1>8
  <2>2. \A p \in 1..Len(Joins(x, j - 1)) : Joins(x, j)[p] = Joins(x, j - 1)[p]
    BY <1>8
  <2>3. Len(Joins(x, m)) \in Nat /\ Len(Joins(x, j - 1)) \in Nat /\ Len(x[j]) \in Nat
    BY <1>0, <1>8
  <2>4. Len(Joins(x, m)) <= Len(Joins(x, j - 1)) /\ Len(Joins(x, m)) <= Len(Joins(x, j))
    <3>1. Len(Joins(x, m)) <= Len(Joins(x, j - 1))
      BY <1>7
    <3>2. \A a, b, c \in Nat : a <= b => a <= b + c
      OBVIOUS
    <3> HIDE DEF P
    <3>3. QED
      BY <2>1, <2>3, <3>1, <3>2
  <2>5. ASSUME NEW p \in 1..Len(Joins(x, m))
        PROVE  Joins(x, j)[p] = Joins(x, m)[p]
    <3>1. p \in 1..Len(Joins(x, j - 1))
      BY <2>3, <2>4
    <3>2. QED
      <4>1. Joins(x, j - 1)[p] = Joins(x, m)[p]
        BY <1>7
      <4>2. QED
        BY <2>2, <3>1, <4>1
  <2>6. QED
    BY <2>4, <2>5
<1>10. QED
  BY <1>3, <1>9

\* Sequences in a row.
LEMMA ConcatIs ==
    ASSUME NEW C
    PROVE  \A a, b \in Seq(C) :
             /\ a \o b \in Seq(C) /\ Len(a) \in Nat /\ Len(b) \in Nat /\ Len(a \o b) = Len(a) + Len(b)
             /\ \A p \in 1..Len(a) : (a \o b)[p] = a[p]
             /\ \A p \in 1..Len(b) : (a \o b)[Len(a) + p] = b[p]
OBVIOUS

LEMMA ConcatAssociates ==
    ASSUME NEW C
    PROVE  \A a, b, c \in Seq(C) : (a \o b) \o c = a \o (b \o c)
OBVIOUS

LEMMA EmptyIs ==
    ASSUME NEW C
    PROVE  /\ <<>> \in Seq(C) /\ Len(<<>>) = 0
           /\ \A a \in Seq(C) : a \o <<>> = a /\ <<>> \o a = a /\ (a = <<>> <=> Len(a) = 0)
OBVIOUS

LEMMA SingleIs ==
    ASSUME NEW C
    PROVE  \A c \in C : <<c>> \in Seq(C) /\ Len(<<c>>) = 1 /\ <<c>>[1] = c
OBVIOUS

LEMMA PairIs ==
    ASSUME NEW C
    PROVE  \A c, d \in C : <<c, d>> \in Seq(C) /\ Len(<<c, d>>) = 2 /\ <<c, d>>[1] = c /\ <<c, d>>[2] = d
OBVIOUS

LEMMA SameSequence ==
    ASSUME NEW C
    PROVE  \A a, b \in Seq(C) : Len(a) = Len(b) /\ (\A p \in 1..Len(a) : a[p] = b[p]) => a = b
OBVIOUS

\* A position is in the one or in the other.
LEMMA PositionIs ==
    \A m, n \in Nat : \A p \in 1..m + n : p \in 1..m \/ \E q \in 1..n : p = m + q
<1> SUFFICES ASSUME NEW m \in Nat, NEW n \in Nat, NEW p \in 1..m + n, p \notin 1..m
             PROVE  \E q \in 1..n : p = m + q
  OBVIOUS
<1>1. p - m \in 1..n /\ p = m + (p - m)
  OBVIOUS
<1>2. QED
  BY <1>1

\* What is left of a sequence, and one more element.
LEMMA PrefixGrows ==
    ASSUME NEW C, NEW s \in Seq(C)
    PROVE  /\ SubSeq(s, 1, 0) = <<>> /\ SubSeq(s, 1, Len(s)) = s
           /\ \A m \in 1..Len(s) : SubSeq(s, 1, m) = SubSeq(s, 1, m - 1) \o <<s[m]>>
           /\ \A m \in 0..Len(s) : SubSeq(s, 1, m) \in Seq(C)
OBVIOUS

-----------------------------------------------------------------------------
(* Texts quoted.                                                             *)

\* The two characters by a name.
Backslash == "\\"
QuoteMark == "\""

Escapes(s) == [i \in 1..Len(s) |-> IF s[i] = "\"" THEN <<"\\", "\"">> ELSE <<s[i]>>]
Escaped(s, m) == Joins(Escapes(s), m)

LEMMA CharactersAre ==
    /\ STRING \subseteq Characters /\ operator_set \subseteq Characters /\ empty_set \subseteq Characters
    /\ single_char_set \subseteq Characters /\ const_str_set \subseteq Characters /\ Letters \subseteq Characters
    /\ "\\" \in Characters /\ "\"" \in Characters
BY DEF Characters, const_str_set

LEMMA QuoteIs == <<"\\", "\"">> \in Seq(Characters) /\ "\\" \in Characters /\ "\"" \in Characters
BY CharactersAre, PairIs

LEMMA TwoMore == \A x \in Nat : \A y : y = x + 2 => x + 1 \in 1..y /\ x + 2 \in 1..y
OBVIOUS
LEMMA OneMore == \A x \in Nat : \A y : y = x + 1 => x + 1 \in 1..y
OBVIOUS
LEMMA TwoAppended ==
    ASSUME NEW C
    PROVE  \A c, d : \A a \in Seq(C) : \A b : b = a \o <<c, d>> =>
             Len(a) \in Nat /\ Len(b) = Len(a) + 2 /\ b[Len(a) + 1] = c /\ b[Len(a) + 2] = d
OBVIOUS
LEMMA QuoteAppended ==
    \A a \in Seq(Characters) : \A b : b = a \o <<Backslash, QuoteMark>> =>
      Len(a) \in Nat /\ Len(b) = Len(a) + 2 /\ b[Len(a) + 1] = Backslash /\ b[Len(a) + 2] = QuoteMark
BY TwoAppended
LEMMA OneAppended ==
    ASSUME NEW C
    PROVE  \A c \in C : \A a \in Seq(C) : \A b : b = a \o <<c>> =>
             b \in Seq(C) /\ Len(a) \in Nat /\ Len(b) = Len(a) + 1 /\ b[Len(a) + 1] = c
OBVIOUS
LEMMA OneOrTwo ==
    \A x \in Nat : \A p \in Nat : \A P : \A y : y = x + (IF P THEN 2 ELSE 1) /\ x < p /\ y >= p => p = x + 1 \/ (P /\ p = x + 2)
OBVIOUS

LEMMA JoinsOf ==
    \A n \in Nat : \A x \in [1..n -> Seq(Characters)] :
      /\ Joins(x, 0) = <<>>
      /\ \A m \in 0..n : Joins(x, m) \in Seq(Characters)
      /\ \A m \in 1..n : Joins(x, m) = Joins(x, m - 1) \o x[m]
      /\ FlattenSeq(x) = Joins(x, n)
BY JoinsSteps

LEMMA EscapesType ==
    ASSUME NEW s \in Seq(Characters)
    PROVE  Escapes(s) \in [1..Len(s) -> Seq(Characters)]
<1> DEFINE c(i) == IF s[i] = "\"" THEN <<"\\", "\"">> ELSE <<s[i]>>
<1>1. \A i \in 1..Len(s) : c(i) \in Seq(Characters)
  <2>1. \A i \in 1..Len(s) : s[i] \in Characters
    OBVIOUS
  <2>2. \A d \in Characters : <<d>> \in Seq(Characters)
    BY SingleIs
  <2>3. QED
    BY <2>1, <2>2, QuoteIs
<1>2. Escapes(s) = [i \in 1..Len(s) |-> c(i)]
  BY DEF Escapes
<1> HIDE DEF c
<1>3. QED
  BY <1>1, <1>2

LEMMA EscapeSteps ==
    \A s \in Seq(Characters) :
      /\ Len(s) \in Nat /\ Escaped(s, 0) = <<>> /\ Escape(s) = Escaped(s, Len(s)) /\ Escape(s) \in Seq(Characters)
      /\ \A m \in 0..Len(s) : Escaped(s, m) \in Seq(Characters)
      /\ \A m \in 1..Len(s) :
           /\ s[m] \in Characters /\ m - 1 \in 0..Len(s) /\ m \in 0..Len(s)
           /\ Escaped(s, m) = Escaped(s, m - 1) \o (IF s[m] = "\"" THEN <<"\\", "\"">> ELSE <<s[m]>>)
<1> SUFFICES ASSUME NEW s \in Seq(Characters)
             PROVE
      /\ Len(s) \in Nat /\ Escaped(s, 0) = <<>> /\ Escape(s) = Escaped(s, Len(s)) /\ Escape(s) \in Seq(Characters)
      /\ \A m \in 0..Len(s) : Escaped(s, m) \in Seq(Characters)
      /\ \A m \in 1..Len(s) :
           /\ s[m] \in Characters /\ m - 1 \in 0..Len(s) /\ m \in 0..Len(s)
           /\ Escaped(s, m) = Escaped(s, m - 1) \o (IF s[m] = "\"" THEN <<"\\", "\"">> ELSE <<s[m]>>)
  OBVIOUS
<1>0. \A m \in 1..Len(s) : s[m] \in Characters /\ m - 1 \in 0..Len(s) /\ m \in 0..Len(s)
  OBVIOUS
<1> DEFINE x == Escapes(s)
           n == Len(s)
<1>1. n \in Nat
  OBVIOUS
<1>2. \A i \in 1..n : x[i] = IF s[i] = "\"" THEN <<"\\", "\"">> ELSE <<s[i]>>
  BY DEF Escapes
<1>3. Escape(s) = FlattenSeq(x)
  BY DEF Escape, Escapes
<1> HIDE DEF x
<1>4. /\ Joins(x, 0) = <<>>
      /\ \A m \in 0..n : Joins(x, m) \in Seq(Characters)
      /\ \A m \in 1..n : Joins(x, m) = Joins(x, m - 1) \o x[m]
      /\ FlattenSeq(x) = Joins(x, n)
  BY <1>1, EscapesType, JoinsOf DEF x
<1>5. \A m : Escaped(s, m) = Joins(x, m)
  BY DEF Escaped, x
<1>6. n \in 0..n
  BY <1>1
<1> HIDE DEF n
<1>7. QED
  BY <1>0, <1>1, <1>2, <1>3, <1>4, <1>5, <1>6 DEF n


\* Every quote is escaped, and nothing else is.
EscapedAt(s, m) ==
    LET e == Escape(s)
        L == Len(Escaped(s, m - 1))
    IN  /\ L \in Nat /\ Len(Escaped(s, m)) = L + (IF s[m] = "\"" THEN 2 ELSE 1)
        /\ Len(Escaped(s, m)) <= Len(e)
        /\ s[m] = "\"" => e[L + 1] = "\\" /\ e[L + 2] = "\""
        /\ s[m] # "\"" => e[L + 1] = s[m]

LEMMA EscapedIs ==
    ASSUME NEW s \in Seq(Characters)
    PROVE  /\ Escape(s) \in Seq(Characters)
           /\ \A m \in 1..Len(s) : EscapedAt(s, m)
<1> DEFINE x == Escapes(s)
           n == Len(s)
           c(m) == IF s[m] = "\"" THEN <<"\\", "\"">> ELSE <<s[m]>>
<1>0. Escape(s) \in Seq(Characters) /\ n \in Nat /\ Escape(s) = Escaped(s, n)
  BY EscapeSteps
<1>1. SUFFICES ASSUME NEW m \in 1..n
               PROVE  EscapedAt(s, m)
  BY <1>0
<1> HIDE DEF x
<1>3. /\ Len(Joins(x, m)) <= Len(Joins(x, n))
      /\ \A p \in 1..Len(Joins(x, m)) : Joins(x, n)[p] = Joins(x, m)[p]
  <2>1. m \in 0..n /\ n \in m..n
    BY <1>0
  <2>2. QED
    <3>1. x \in [1..n -> Seq(Characters)]
      BY EscapesType DEF x
    <3>2. QED
      BY <1>0, <2>1, <3>1, JoinsStay
<1> DEFINE e == Escaped(s, n)
           a == Escaped(s, m - 1)
           b == Escaped(s, m)
<1>4. Len(b) <= Len(e) /\ \A p \in 1..Len(b) : e[p] = b[p]
  BY <1>3 DEF Escaped, x
<1>5. a \in Seq(Characters) /\ b = a \o c(m) /\ s[m] \in Characters
  <2>1. m \in 1..Len(s) /\ m - 1 \in 0..Len(s)
    BY <1>0
  <2>2. QED
    BY <2>1, EscapeSteps
<1> HIDE DEF a, b, e
<1>6. CASE s[m] = "\""
  <2>1. c(m) = <<"\\", "\"">> /\ Len(c(m)) = 2 /\ c(m) \in Seq(Characters) /\ c(m)[1] = "\\" /\ c(m)[2] = "\""
    BY <1>6, PairIs, QuoteIs
  <2> HIDE DEF c
  <2>2. /\ Len(a) \in Nat /\ Len(b) = Len(a) + 2
        /\ b[Len(a) + 1] = "\\" /\ b[Len(a) + 2] = "\""
    <3>1. b = a \o <<"\\", "\"">>
      BY <1>5, <2>1
    <3>2. b = a \o <<Backslash, QuoteMark>> /\ Backslash = "\\" /\ QuoteMark = "\""
      BY <3>1 DEF Backslash, QuoteMark
    <3>3. QED
      BY <1>5, <3>2, QuoteAppended
  <2>3. Len(a) + 1 \in 1..Len(b) /\ Len(a) + 2 \in 1..Len(b)
    BY <2>2, TwoMore
  <2>4. e[Len(a) + 1] = "\\" /\ e[Len(a) + 2] = "\""
    BY <1>4, <2>2, <2>3
  <2>5. QED
    BY <1>0, <1>4, <1>6, <2>2, <2>4 DEF EscapedAt, a, b, e
<1>7. CASE s[m] # "\""
  <2>1. c(m) = <<s[m]>> /\ Len(c(m)) = 1 /\ c(m) \in Seq(Characters) /\ c(m)[1] = s[m]
    BY <1>5, <1>7, SingleIs
  <2> HIDE DEF c
  <2>2. /\ Len(a) \in Nat /\ Len(b) = Len(a) + 1
        /\ b[Len(a) + 1] = s[m]
    BY <1>5, <2>1, ConcatIs
  <2>3. Len(a) + 1 \in 1..Len(b)
    BY <2>2, OneMore
  <2>4. e[Len(a) + 1] = s[m]
    BY <1>4, <2>2, <2>3
  <2>5. QED
    BY <1>0, <1>4, <1>7, <2>2, <2>4 DEF EscapedAt, a, b, e
<1>8. QED
  BY <1>6, <1>7

\* A position of an escaped text is that of a character or of its backslash.
LEMMA EscapedCovers ==
    ASSUME NEW s \in Seq(Characters)
    PROVE  \A p \in 1..Len(Escape(s)) : \E m \in 1..Len(s) :
             p = Len(Escaped(s, m - 1)) + 1 \/ (s[m] = "\"" /\ p = Len(Escaped(s, m - 1)) + 2)
<1> SUFFICES ASSUME NEW p \in 1..Len(Escape(s))
             PROVE  \E m \in 1..Len(s) :
               p = Len(Escaped(s, m - 1)) + 1 \/ (s[m] = "\"" /\ p = Len(Escaped(s, m - 1)) + 2)
  OBVIOUS
<1> DEFINE L(m) == Len(Escaped(s, m))
           T == {m \in 0..Len(s) : L(m) >= p}
<1>0. /\ Len(s) \in Nat /\ L(Len(s)) = Len(Escape(s)) /\ L(0) = 0
      /\ \A m \in 0..Len(s) : L(m) \in Nat
  BY EscapeSteps, EmptyIs, ConcatIs
<1>1. Len(s) \in T
  BY <1>0
<1>2. PICK m \in T : \A k \in T : m <= k
  <2>1. T \in SUBSET Nat /\ T # {}
    BY <1>1
  <2> HIDE DEF T
  <2>2. QED
    BY <2>1, LeastOf
<1>3. m \in 1..Len(s) /\ m - 1 \in 0..Len(s) /\ ~(m <= m - 1)
  <2>1. m \in 0..Len(s) /\ L(m) >= p
    BY <1>2
  <2>2. m # 0
    BY <1>0, <2>1
  <2>3. QED
    BY <1>0, <2>1, <2>2
<1>4. L(m - 1) < p /\ L(m) >= p
  <2>1. m - 1 \notin T
    BY <1>2, <1>3
  <2>2. QED
    BY <1>0, <1>2, <1>3, <2>1
<1>5. L(m - 1) \in Nat /\ L(m) = L(m - 1) + (IF s[m] = "\"" THEN 2 ELSE 1)
  BY <1>3, EscapedIs DEF EscapedAt
<1>7. p \in Nat
  <2>1. Len(Escape(s)) \in Nat
    BY <1>0
  <2>2. QED
    BY <2>1
<1> HIDE DEF L, T
<1>6. p = L(m - 1) + 1 \/ (s[m] = "\"" /\ p = L(m - 1) + 2)
  BY <1>4, <1>5, <1>7, OneOrTwo
<1>8. QED
  BY <1>3, <1>6 DEF L

\* Induction up to n, and down from it.
LEMMA Upward ==
    \A n \in Nat : \A T : 0 \in T /\ (\A m \in 1..n : m - 1 \in T => m \in T) => \A m \in 0..n : m \in T
<1> SUFFICES ASSUME NEW n \in Nat, NEW T, 0 \in T, \A m \in 1..n : m - 1 \in T => m \in T
             PROVE  \A m \in 0..n : m \in T
  OBVIOUS
<1> DEFINE U == {m \in 0..n : m \notin T}
<1>1. SUFFICES ASSUME U # {} PROVE FALSE
  OBVIOUS
<1>2. PICK m \in U : \A k \in U : m <= k
  <2>1. U \in SUBSET Nat
    OBVIOUS
  <2> HIDE DEF U
  <2>2. QED
    BY <1>1, <2>1, LeastOf
<1>3. m \in 1..n /\ m - 1 \in 0..n /\ ~(m <= m - 1) /\ m \notin T
  OBVIOUS
<1>4. QED
  BY <1>2, <1>3

LEMMA Downward ==
    \A n \in Nat : \A T : n \in T /\ (\A m \in 1..n : m \in T => m - 1 \in T) => \A m \in 0..n : m \in T
<1> SUFFICES ASSUME NEW n \in Nat, NEW T, n \in T, \A m \in 1..n : m \in T => m - 1 \in T
             PROVE  \A m \in 0..n : m \in T
  OBVIOUS
<1> DEFINE U == {k \in 0..n : n - k \in T}
<1>1. 0 \in U
  OBVIOUS
<1>2. ASSUME NEW k \in 1..n, k - 1 \in U
      PROVE  k \in U
  <2>1. n - (k - 1) \in T /\ n - (k - 1) \in 1..n /\ n - (k - 1) - 1 = n - k
    BY <1>2
  <2>2. QED
    BY <2>1
<1> HIDE DEF U
<1>3. \A k \in 0..n : k \in U
  BY <1>1, <1>2, Upward
<1>4. ASSUME NEW m \in 0..n
      PROVE  m \in T
  <2>1. n - m \in 0..n /\ n - (n - m) = m
    OBVIOUS
  <2>2. QED
    BY <1>3, <2>1 DEF U
<1>5. QED
  BY <1>4

-----------------------------------------------------------------------------
(* Quoted texts.                                                             *)

InQuotes(s) == <<QuoteMark>> \o s \o <<QuoteMark>>

LEMMA MarksAre ==
    /\ Backslash = "\\" /\ QuoteMark = "\"" /\ Backslash # QuoteMark /\ Backslash # "\n" /\ QuoteMark # "\n"
    /\ Backslash \in Characters /\ QuoteMark \in Characters
BY QuoteIs DEF Backslash, QuoteMark

LEMMA EnclosedIs ==
    ASSUME NEW C
    PROVE  \A c, d \in C : \A e \in Seq(C) : \A w : w = <<c>> \o e \o <<d>> =>
             /\ w \in Seq(C) /\ Len(e) \in Nat /\ Len(w) = Len(e) + 2
             /\ w[1] = c /\ w[Len(e) + 2] = d /\ \A p \in 1..Len(e) : w[p + 1] = e[p]
OBVIOUS

LEMMA InQuotesAre ==
    \A e \in Seq(Characters) : \A w : w = InQuotes(e) =>
      /\ w \in Seq(Characters) /\ Len(e) \in Nat /\ Len(w) = Len(e) + 2
      /\ w[1] = QuoteMark /\ w[Len(e) + 2] = QuoteMark /\ \A p \in 1..Len(e) : w[p + 1] = e[p]
<1>1. QuoteMark \in Characters
  BY MarksAre
<1>2. QED
  BY <1>1, EnclosedIs DEF InQuotes

\* The texts that are read back.
Escapable(s) == s \in Seq(Characters) /\ "\n" \notin Range(s) /\ (s # <<>> => s[Len(s)] # "\\")

LEMMA QuotableIs == \A s : Quotable(s) => Escapable(s)
BY StringsAreCharacters DEF Quotable, Escapable

LEMMA EscapableIs ==
    \A s : Escapable(s) =>
      /\ s \in Seq(Characters) /\ Len(s) \in Nat
      /\ \A i \in 1..Len(s) : s[i] # "\n"
      /\ Len(s) > 0 => s[Len(s)] # Backslash
<1> SUFFICES ASSUME NEW s, Escapable(s)
             PROVE  /\ s \in Seq(Characters) /\ Len(s) \in Nat
                    /\ \A i \in 1..Len(s) : s[i] # "\n"
                    /\ Len(s) > 0 => s[Len(s)] # Backslash
  OBVIOUS
<1>1. s \in Seq(Characters) /\ "\n" \notin Range(s) /\ (s # <<>> => s[Len(s)] # "\\")
  BY DEF Escapable
<1>2. s \in Seq(Characters)
  BY <1>1
<1>3. Len(s) \in Nat /\ DOMAIN s = 1..Len(s)
  BY <1>1
<1>4. \A i \in 1..Len(s) : s[i] # "\n"
  BY <1>1, <1>3 DEF Range
<1>5. Len(s) > 0 => s # <<>>
  OBVIOUS
<1>6. QED
  BY <1>1, <1>2, <1>3, <1>4, <1>5, MarksAre

LEMMA QuotedText ==
    \A s \in Seq(Characters) : Quoted(s) = InQuotes(Escape(s)) /\ Escape(s) \in Seq(Characters)
<1> SUFFICES ASSUME NEW s \in Seq(Characters)
             PROVE  Quoted(s) = InQuotes(Escape(s)) /\ Escape(s) \in Seq(Characters)
  OBVIOUS
<1>1. Escape(s) \in Seq(Characters)
  BY EscapeSteps
<1>2. Quoted(s) = <<QuoteMark>> \o Escape(s) \o <<QuoteMark>>
  BY DEF Quoted, QuoteMark
<1>3. QED
  BY <1>1, <1>2 DEF InQuotes

\* Inside, there is no newline and every quote is behind a backslash.
LEMMA EscapedWell ==
    \A s : Escapable(s) =>
      /\ \A p \in 1..Len(Escape(s)) :
           /\ Escape(s)[p] # "\n"
           /\ Escape(s)[p] = QuoteMark => p - 1 \in 1..Len(Escape(s)) /\ Escape(s)[p - 1] = Backslash
      /\ Len(Escape(s)) > 0 => Escape(s)[Len(Escape(s))] # Backslash
<1> SUFFICES ASSUME NEW s, Escapable(s)
             PROVE  /\ \A p \in 1..Len(Escape(s)) :
                         /\ Escape(s)[p] # "\n"
                         /\ Escape(s)[p] = QuoteMark =>
                              p - 1 \in 1..Len(Escape(s)) /\ Escape(s)[p - 1] = Backslash
                    /\ Len(Escape(s)) > 0 => Escape(s)[Len(Escape(s))] # Backslash
  OBVIOUS
<1> DEFINE e == Escape(s)
           n == Len(s)
           L(m) == Len(Escaped(s, m))
<1>1. /\ s \in Seq(Characters) /\ n \in Nat /\ \A i \in 1..n : s[i] # "\n"
      /\ n > 0 => s[n] # Backslash
  BY EscapableIs
<1>2. e \in Seq(Characters) /\ e = Escaped(s, n) /\ Escaped(s, 0) = <<>> /\ Len(e) \in Nat
  BY <1>1, EscapeSteps, ConcatIs
<1>3. \A m \in 1..n : /\ L(m - 1) \in Nat /\ L(m) = L(m - 1) + (IF s[m] = QuoteMark THEN 2 ELSE 1)
                      /\ L(m) <= Len(e)
                      /\ s[m] = QuoteMark => e[L(m - 1) + 1] = Backslash /\ e[L(m - 1) + 2] = QuoteMark
                      /\ s[m] # QuoteMark => e[L(m - 1) + 1] = s[m]
  BY <1>1, EscapedIs, MarksAre DEF EscapedAt
<1>4. ASSUME NEW p \in 1..Len(e)
      PROVE  e[p] # "\n" /\ (e[p] = QuoteMark => p - 1 \in 1..Len(e) /\ e[p - 1] = Backslash)
  <2>1. PICK m \in 1..n : p = L(m - 1) + 1 \/ (s[m] = QuoteMark /\ p = L(m - 1) + 2)
    BY <1>1, EscapedCovers, MarksAre
  <2> DEFINE k == L(m - 1)
  <2>2. /\ k \in Nat
        /\ s[m] = QuoteMark => e[k + 1] = Backslash /\ e[k + 2] = QuoteMark
        /\ s[m] # QuoteMark => e[k + 1] = s[m]
    BY <1>3
  <2>3. p = k + 1 \/ (s[m] = QuoteMark /\ p = k + 2)
    BY <2>1
  <2>4. s[m] # "\n"
    BY <1>1
  <2> HIDE DEF k, e
  <2>5. p - 1 = k + 1 => p - 1 \in 1..Len(e)
    BY <1>2, <2>2
  <2>6. QED
    <3>1. CASE p = k + 1 /\ s[m] = QuoteMark
      <4>1. e[p] = Backslash
        BY <2>2, <3>1
      <4>2. QED
        BY <4>1, MarksAre
    <3>2. CASE p = k + 1 /\ s[m] # QuoteMark
      <4>1. e[p] = s[m]
        BY <2>2, <3>2
      <4>2. QED
        BY <2>4, <3>2, <4>1
    <3>3. CASE p = k + 2 /\ s[m] = QuoteMark
      <4>1. p - 1 = k + 1
        BY <2>2, <3>3
      <4>2. e[p] = QuoteMark /\ e[p - 1] = Backslash
        BY <2>2, <3>3, <4>1
      <4>3. QED
        BY <2>5, <4>1, <4>2, MarksAre
    <3>4. QED
      BY <2>3, <3>1, <3>2, <3>3
<1>5. ASSUME Len(e) > 0
      PROVE  e[Len(e)] # Backslash
  <2>1. n # 0
    BY <1>2, <1>5, EmptyIs
  <2>2. n \in 1..n
    BY <1>1, <2>1
  <2> DEFINE k == L(n - 1)
  <2>3. /\ k \in Nat /\ Len(e) = k + (IF s[n] = QuoteMark THEN 2 ELSE 1)
        /\ s[n] = QuoteMark => e[k + 2] = QuoteMark
        /\ s[n] # QuoteMark => e[k + 1] = s[n]
    BY <1>2, <1>3, <2>2
  <2>4. s[n] # Backslash
    BY <1>1, <2>2
  <2> HIDE DEF k, e, n
  <2>5. QED
    BY <2>3, <2>4, MarksAre
<1>6. QED
  BY <1>4, <1>5

\* What Unescape drops of a quoted text.
Dropped(w, i) == w[i] = "\\" /\ i < Len(w) /\ w[i + 1] = "\""
Staying(w) == [i \in 1..Len(w) |-> IF Dropped(w, i) THEN <<>> ELSE <<w[i]>>]

LEMMA StayingType ==
    \A w \in Seq(Characters) : Staying(w) \in [1..Len(w) -> Seq(Characters)] /\ Unescape(w) = FlattenSeq(Staying(w))
<1> SUFFICES ASSUME NEW w \in Seq(Characters)
             PROVE  Staying(w) \in [1..Len(w) -> Seq(Characters)] /\ Unescape(w) = FlattenSeq(Staying(w))
  OBVIOUS
<1> DEFINE c(i) == IF Dropped(w, i) THEN <<>> ELSE <<w[i]>>
<1>1. \A i \in 1..Len(w) : c(i) \in Seq(Characters)
  <2>1. \A i \in 1..Len(w) : w[i] \in Characters
    OBVIOUS
  <2>2. \A d \in Characters : <<d>> \in Seq(Characters) /\ <<>> \in Seq(Characters)
    BY SingleIs, EmptyIs
  <2>3. QED
    BY <2>1, <2>2
<1>2. Staying(w) = [i \in 1..Len(w) |-> c(i)]
  BY DEF Staying
<1>3. Unescape(w) = FlattenSeq(Staying(w))
  BY DEF Unescape, Staying, Dropped
<1> HIDE DEF c
<1>4. QED
  BY <1>1, <1>2, <1>3

\* One text after the other, dropped or kept.
LEMMA StayingSteps ==
    \A w \in Seq(Characters) :
      /\ Len(w) \in Nat /\ Joins(Staying(w), 0) = <<>> /\ Unescape(w) = Joins(Staying(w), Len(w))
      /\ \A m \in 0..Len(w) : Joins(Staying(w), m) \in Seq(Characters)
      /\ \A m \in 1..Len(w) :
           Joins(Staying(w), m) = IF Dropped(w, m) THEN Joins(Staying(w), m - 1) ELSE Joins(Staying(w), m - 1) \o <<w[m]>>
<1> SUFFICES ASSUME NEW w \in Seq(Characters)
             PROVE
      /\ Len(w) \in Nat /\ Joins(Staying(w), 0) = <<>> /\ Unescape(w) = Joins(Staying(w), Len(w))
      /\ \A m \in 0..Len(w) : Joins(Staying(w), m) \in Seq(Characters)
      /\ \A m \in 1..Len(w) :
           Joins(Staying(w), m) = IF Dropped(w, m) THEN Joins(Staying(w), m - 1) ELSE Joins(Staying(w), m - 1) \o <<w[m]>>
  OBVIOUS
<1> DEFINE n == Len(w)
           x == Staying(w)
<1>1. n \in Nat /\ \A m \in 1..n : m - 1 \in 0..n
  OBVIOUS
<1>2. \A m \in 1..n : x[m] = IF Dropped(w, m) THEN <<>> ELSE <<w[m]>>
  BY DEF Staying
<1>3. Unescape(w) = FlattenSeq(x)
  BY StayingType
<1>4. /\ Joins(x, 0) = <<>> /\ FlattenSeq(x) = Joins(x, n)
      /\ \A m \in 0..n : Joins(x, m) \in Seq(Characters)
      /\ \A m \in 1..n : Joins(x, m) = Joins(x, m - 1) \o x[m]
  <2>1. x \in [1..n -> Seq(Characters)]
    BY StayingType
  <2> HIDE DEF x, n
  <2>2. QED
    BY <1>1, <2>1, JoinsOf
<1> HIDE DEF x, n
<1>5. ASSUME NEW m \in 1..n
      PROVE  Joins(x, m) = IF Dropped(w, m) THEN Joins(x, m - 1) ELSE Joins(x, m - 1) \o <<w[m]>>
  <2>1. Joins(x, m - 1) \o <<>> = Joins(x, m - 1)
    BY <1>1, <1>4, EmptyIs
  <2>2. Joins(x, m) = Joins(x, m - 1) \o x[m]
    BY <1>4
  <2>3. QED
    BY <1>2, <2>1, <2>2
<1>6. QED
  BY <1>1, <1>3, <1>4, <1>5 DEF x, n

LEMMA LenIsNat ==
    ASSUME NEW C
    PROVE  \A a \in Seq(C) : Len(a) \in Nat
OBVIOUS
LEMMA UpTo == \A n \in Nat : 0 \in 0..n /\ n \in 0..n /\ \A m \in 1..n : m \in 0..n /\ m - 1 \in 0..n
OBVIOUS
LEMMA NotLess == \A n \in Nat : ~(n < n)
OBVIOUS

LEMMA DropArithmetic ==
    \A k, l \in Nat :
      /\ k + 2 <= l => /\ k + 1 \in 1..l /\ k + 2 \in 1..l /\ k + 2 \in 1..l + 2 /\ k + 3 \in 1..l + 2 /\ k + 2 < l + 2
                       /\ (k + 1) + 1 = k + 2 /\ (k + 2) + 1 = k + 3 /\ (k + 3) - 1 = k + 2 /\ (k + 2) - 1 = k + 1
      /\ k + 1 <= l => /\ k + 1 \in 1..l /\ k + 2 \in 1..l + 2 /\ (k + 1) + 1 = k + 2 /\ (k + 2) + 1 = k + 3
                       /\ (k + 2) - 1 = k + 1
                       /\ k + 1 # l => k + 2 \in 1..l
                       /\ k + 1 = l => k + 3 = l + 2
OBVIOUS

\* Unescape drops the backslashes of Escape and no others.
LEMMA DroppedIs ==
    \A s : Escapable(s) => \A m \in 1..Len(s) :
      LET w == Quoted(s)
          k == Len(Escaped(s, m - 1))
      IN  /\ k \in Nat
          /\ s[m] = QuoteMark =>
               /\ Len(Escaped(s, m)) = k + 2 /\ k + 2 <= Len(Escape(s))
               /\ Dropped(w, k + 2) /\ ~Dropped(w, k + 3) /\ w[k + 3] = s[m]
          /\ s[m] # QuoteMark =>
               /\ Len(Escaped(s, m)) = k + 1 /\ k + 1 <= Len(Escape(s))
               /\ ~Dropped(w, k + 2) /\ w[k + 2] = s[m]
<1> SUFFICES ASSUME NEW s, Escapable(s), NEW m \in 1..Len(s)
             PROVE LET w == Quoted(s)
                       k == Len(Escaped(s, m - 1))
                   IN  /\ k \in Nat
                       /\ s[m] = QuoteMark =>
                            /\ Len(Escaped(s, m)) = k + 2 /\ k + 2 <= Len(Escape(s))
                            /\ Dropped(w, k + 2) /\ ~Dropped(w, k + 3) /\ w[k + 3] = s[m]
                       /\ s[m] # QuoteMark =>
                            /\ Len(Escaped(s, m)) = k + 1 /\ k + 1 <= Len(Escape(s))
                            /\ ~Dropped(w, k + 2) /\ w[k + 2] = s[m]
  OBVIOUS
<1> DEFINE w == Quoted(s)
           e == Escape(s)
           k == Len(Escaped(s, m - 1))
           l == Len(e)
<1>1. s \in Seq(Characters) /\ Len(s) \in Nat
  BY EscapableIs
<1>2. EscapedAt(s, m) /\ l \in Nat /\ k \in Nat
  <2>1. EscapedAt(s, m)
    BY <1>1, EscapedIs
  <2>2. e \in Seq(Characters)
    BY <1>1, EscapedIs
  <2>3. QED
    <3>1. l \in Nat
      BY <2>2, LenIsNat
    <3>2. k \in Nat
      BY <2>1 DEF EscapedAt
    <3>3. QED
      BY <2>1, <3>1, <3>2
<1>3. /\ Len(w) = l + 2 /\ w[1] = QuoteMark /\ w[l + 2] = QuoteMark
      /\ \A p \in 1..l : w[p + 1] = e[p]
  <2>1. w = InQuotes(e) /\ e \in Seq(Characters)
    BY <1>1, QuotedText
  <2>2. QED
    BY <2>1, InQuotesAre
<1>4. Len(Escaped(s, m)) = k + (IF s[m] = QuoteMark THEN 2 ELSE 1) /\ Len(Escaped(s, m)) <= l
  BY <1>2, MarksAre DEF EscapedAt
<1>5. ASSUME s[m] = QuoteMark
      PROVE  /\ Len(Escaped(s, m)) = k + 2 /\ k + 2 <= l
             /\ Dropped(w, k + 2) /\ ~Dropped(w, k + 3) /\ w[k + 3] = s[m]
  <2>1. Len(Escaped(s, m)) = k + 2 /\ k + 2 <= l
    BY <1>4, <1>5
  <2>2. e[k + 1] = Backslash /\ e[k + 2] = QuoteMark
    BY <1>2, <1>5, MarksAre DEF EscapedAt
  <2>3. w[k + 2] = Backslash /\ w[k + 3] = QuoteMark /\ k + 2 < Len(w) /\ (k + 2) + 1 = k + 3
    BY <1>2, <1>3, <2>1, <2>2, DropArithmetic
  <2> HIDE DEF w, e, k, l
  <2>4. QED
    BY <1>5, <2>1, <2>3, MarksAre DEF Dropped
<1>6. ASSUME s[m] # QuoteMark
      PROVE  /\ Len(Escaped(s, m)) = k + 1 /\ k + 1 <= l
             /\ ~Dropped(w, k + 2) /\ w[k + 2] = s[m]
  <2>1. Len(Escaped(s, m)) = k + 1 /\ k + 1 <= l
    BY <1>4, <1>6
  <2>2. e[k + 1] = s[m]
    BY <1>2, <1>6, MarksAre DEF EscapedAt
  <2>3. w[k + 2] = s[m] /\ (k + 2) + 1 = k + 3
    BY <1>2, <1>3, <2>1, <2>2, DropArithmetic
  <2>4. CASE k + 1 = l
    <3>1. e[l] # Backslash
      <4>1. l > 0 => e[l] # Backslash
        BY EscapedWell
      <4>2. QED
        BY <1>2, <2>4, <4>1
    <3>2. w[k + 2] # Backslash
      BY <2>2, <2>3, <2>4, <3>1
    <3> HIDE DEF w, e, k, l
    <3>3. QED
      BY <2>1, <2>3, <3>2, MarksAre DEF Dropped
  <2>5. CASE k + 1 # l
    <3>1. m # Len(s)
      <4>1. e = Escaped(s, Len(s))
        BY <1>1, EscapeSteps
      <4>2. QED
        BY <2>1, <2>5, <4>1
    <3>2. m + 1 \in 1..Len(s) /\ (m + 1) - 1 = m
      BY <1>1, <3>1
    <3>3. EscapedAt(s, m + 1)
      BY <1>1, <3>2, EscapedIs
    <3>4. e[(k + 1) + 1] # QuoteMark
      <4>1. /\ s[m + 1] = "\"" => e[Len(Escaped(s, (m + 1) - 1)) + 1] = "\\"
            /\ s[m + 1] # "\"" => e[Len(Escaped(s, (m + 1) - 1)) + 1] = s[m + 1]
        BY <3>3 DEF EscapedAt
      <4>2. Len(Escaped(s, (m + 1) - 1)) = k + 1
        BY <2>1, <3>2
      <4> HIDE DEF e, k
      <4>3. QED
        BY <4>1, <4>2, MarksAre
    <3>5. w[k + 3] # QuoteMark
      BY <1>2, <1>3, <2>1, <2>5, <3>4, DropArithmetic
    <3> HIDE DEF w, e, k, l
    <3>6. QED
      BY <2>1, <2>3, <3>5, MarksAre DEF Dropped
  <2>6. QED
    BY <2>4, <2>5
<1>7. QED
  BY <1>2, <1>5, <1>6

\* What is quoted reads back.
LEMMA UnescapeQuoted ==
    \A s : Escapable(s) => Unescape(Quoted(s)) = InQuotes(s)
<1> SUFFICES ASSUME NEW s, Escapable(s)
             PROVE  Unescape(Quoted(s)) = InQuotes(s)
  OBVIOUS
<1> DEFINE w == Quoted(s)
           n == Len(s)
           L(m) == Len(Escaped(s, m))
           J(i) == Joins(Staying(w), i)
           T == {m \in 0..n : J(L(m) + 1) = <<QuoteMark>> \o SubSeq(s, 1, m)}
<1>1. s \in Seq(Characters) /\ n \in Nat
  BY EscapableIs
<1>2. /\ w \in Seq(Characters) /\ Len(w) = L(n) + 2 /\ L(n) \in Nat /\ L(0) = 0 /\ L(n) = Len(Escape(s))
      /\ w[1] = QuoteMark /\ w[L(n) + 2] = QuoteMark
  <2>1. w = InQuotes(Escape(s)) /\ Escape(s) \in Seq(Characters)
    BY <1>1, QuotedText
  <2>2. Escape(s) = Escaped(s, n) /\ Escaped(s, 0) = <<>>
    BY <1>1, EscapeSteps
  <2>3. Len(<<>>) = 0
    OBVIOUS
  <2>4. QED
    BY <2>1, <2>2, <2>3, InQuotesAre
<1>3. /\ J(0) = <<>> /\ Unescape(w) = J(Len(w))
      /\ \A m \in 0..Len(w) : J(m) \in Seq(Characters)
      /\ \A m \in 1..Len(w) : J(m) = IF Dropped(w, m) THEN J(m - 1) ELSE J(m - 1) \o <<w[m]>>
  BY <1>2, StayingSteps
<1>4. \A m \in 1..n :
        /\ L(m - 1) \in Nat
        /\ s[m] = QuoteMark =>
             /\ L(m) = L(m - 1) + 2 /\ L(m - 1) + 2 <= L(n)
             /\ Dropped(w, L(m - 1) + 2) /\ ~Dropped(w, L(m - 1) + 3) /\ w[L(m - 1) + 3] = s[m]
        /\ s[m] # QuoteMark =>
             /\ L(m) = L(m - 1) + 1 /\ L(m - 1) + 1 <= L(n)
             /\ ~Dropped(w, L(m - 1) + 2) /\ w[L(m - 1) + 2] = s[m]
  BY <1>2, DroppedIs
<1>5. \A m \in 1..n : /\ SubSeq(s, 1, m) = SubSeq(s, 1, m - 1) \o <<s[m]>>
                      /\ <<s[m]>> \in Seq(Characters) /\ SubSeq(s, 1, m - 1) \in Seq(Characters)
                      /\ m - 1 \in 0..n /\ m \in 0..n
  <2>1. \A m \in 1..n : m - 1 \in 0..n /\ m \in 0..n /\ s[m] \in Characters
    BY <1>1
  <2>2. QED
    BY <1>1, <2>1, PrefixGrows, SingleIs
<1>6. <<QuoteMark>> \in Seq(Characters)
  BY MarksAre, SingleIs
<1>0. SubSeq(s, 1, 0) = <<>> /\ SubSeq(s, 1, n) = s
  BY <1>1, PrefixGrows
<1> HIDE DEF w, n, L, J
<1>7. 0 \in T
  <2>1. 1 \in 1..Len(w) /\ 1 - 1 = 0 /\ L(0) + 1 = 1
    BY <1>2
  <2>2. ~Dropped(w, 1)
    BY <1>2, MarksAre DEF Dropped
  <2>3. J(1) = J(0) \o <<w[1]>>
    BY <1>3, <2>1, <2>2
  <2>4. J(1) = <<QuoteMark>> /\ <<QuoteMark>> \o <<>> = <<QuoteMark>>
    BY <1>2, <1>3, <1>6, <2>3, EmptyIs
  <2>5. 0 \in 0..n
    BY <1>1
  <2>6. QED
    BY <1>0, <2>1, <2>4, <2>5
<1>8. ASSUME NEW m \in 1..n, m - 1 \in T
      PROVE  m \in T
  <2> DEFINE k == L(m - 1)
             a == <<QuoteMark>> \o SubSeq(s, 1, m - 1)
  <2>1. J(k + 1) = a /\ k \in Nat
    BY <1>4, <1>8
  <2>2. a \o <<s[m]>> = <<QuoteMark>> \o SubSeq(s, 1, m)
    BY <1>5, <1>6, ConcatAssociates
  <2>3. J(L(m) + 1) = a \o <<s[m]>>
    <3>1. CASE s[m] = QuoteMark
      <4>1. /\ L(m) = k + 2 /\ k + 2 <= L(n)
            /\ Dropped(w, k + 2) /\ ~Dropped(w, k + 3) /\ w[k + 3] = s[m]
        BY <1>4, <3>1
      <4>2. k + 2 \in 1..Len(w) /\ k + 3 \in 1..Len(w) /\ (k + 3) - 1 = k + 2 /\ (k + 2) - 1 = k + 1 /\ (k + 2) + 1 = k + 3
        BY <1>2, <2>1, <4>1, DropArithmetic
      <4> HIDE DEF k, a
      <4>3. J(k + 2) = J(k + 1) /\ J(k + 3) = J(k + 2) \o <<w[k + 3]>>
        BY <1>3, <4>1, <4>2
      <4>4. QED
        BY <2>1, <4>1, <4>2, <4>3
    <3>2. CASE s[m] # QuoteMark
      <4>1. /\ L(m) = k + 1 /\ k + 1 <= L(n)
            /\ ~Dropped(w, k + 2) /\ w[k + 2] = s[m]
        BY <1>4, <3>2
      <4>2. k + 2 \in 1..Len(w) /\ (k + 2) - 1 = k + 1 /\ (k + 1) + 1 = k + 2
        BY <1>2, <2>1, <4>1, DropArithmetic
      <4> HIDE DEF k, a
      <4>3. J(k + 2) = J(k + 1) \o <<w[k + 2]>>
        BY <1>3, <4>1, <4>2
      <4>4. QED
        BY <2>1, <4>1, <4>2, <4>3
    <3>3. QED
      BY <3>1, <3>2
  <2>4. QED
    BY <1>5, <2>2, <2>3
<1> HIDE DEF T
<1>9. n \in T
  <2>1. \A m \in 0..n : m \in T
    BY <1>1, <1>7, <1>8, Upward
  <2>2. QED
    BY <1>1, <2>1
<1>10. J(L(n) + 1) = <<QuoteMark>> \o s
  BY <1>0, <1>9 DEF T
<1>11. Unescape(w) = (<<QuoteMark>> \o s) \o <<QuoteMark>>
  <2>1. Len(w) \in 1..Len(w) /\ Len(w) - 1 = L(n) + 1
    BY <1>2
  <2>2. ~Dropped(w, Len(w))
    <3>1. Len(w) \in Nat
      BY <1>2
    <3>2. QED
      BY <3>1, NotLess DEF Dropped
  <2>3. J(Len(w)) = J(L(n) + 1) \o <<w[Len(w)]>>
    BY <1>3, <2>1, <2>2
  <2>4. QED
    BY <1>2, <1>3, <1>10, <2>3
<1>12. QED
  BY <1>11 DEF w, InQuotes

\* A text without quotes is not escaped.
LEMMA EscapeNothing ==
    \A s \in Seq(Characters) :
      (\A p \in 1..Len(Escape(s)) : Escape(s)[p] # QuoteMark) => Escape(s) = s
<1> SUFFICES ASSUME NEW s \in Seq(Characters), \A p \in 1..Len(Escape(s)) : Escape(s)[p] # QuoteMark
             PROVE  Escape(s) = s
  OBVIOUS
<1> DEFINE n == Len(s)
           T == {m \in 0..n : Escaped(s, m) = SubSeq(s, 1, m)}
<1>1. /\ n \in Nat /\ Escaped(s, 0) = <<>> /\ Escape(s) = Escaped(s, n) /\ Escape(s) \in Seq(Characters)
      /\ \A m \in 1..n : Escaped(s, m) = Escaped(s, m - 1) \o (IF s[m] = QuoteMark THEN <<"\\", "\"">> ELSE <<s[m]>>)
  BY EscapeSteps, MarksAre
<1>2. SubSeq(s, 1, 0) = <<>> /\ SubSeq(s, 1, n) = s /\ \A m \in 1..n : SubSeq(s, 1, m) = SubSeq(s, 1, m - 1) \o <<s[m]>>
  BY PrefixGrows
<1>3. ASSUME NEW m \in 1..n
      PROVE  s[m] # QuoteMark
  <2>1. EscapedAt(s, m)
    BY EscapedIs
  <2> DEFINE k == Len(Escaped(s, m - 1))
             e == Escape(s)
  <2>2. s[m] = QuoteMark => k \in Nat /\ k + 2 <= Len(e) /\ e[k + 2] = QuoteMark
    BY <2>1, MarksAre DEF EscapedAt
  <2>3. Len(e) \in Nat
    BY <1>1, LenIsNat
  <2> HIDE DEF k, e
  <2>4. s[m] = QuoteMark => k + 2 \in 1..Len(e)
    BY <2>2, <2>3, DropArithmetic
  <2>5. QED
    BY <2>2, <2>4 DEF e
<1>0. 0 \in 0..n /\ n \in 0..n /\ \A m \in 1..n : m \in 0..n
  BY <1>1, UpTo
<1> HIDE DEF n
<1>4. 0 \in T
  BY <1>0, <1>1, <1>2
<1>5. ASSUME NEW m \in 1..n, m - 1 \in T
      PROVE  m \in T
  <2>1. Escaped(s, m - 1) = SubSeq(s, 1, m - 1) /\ m \in 0..n
    BY <1>0, <1>5
  <2>2. QED
    BY <1>1, <1>2, <1>3, <2>1
<1> HIDE DEF T
<1>6. \A m \in 0..n : m \in T
  BY <1>1, <1>4, <1>5, Upward
<1>7. n \in T
  BY <1>0, <1>6
<1>8. QED
  BY <1>1, <1>2, <1>7 DEF T
=============================================================================
