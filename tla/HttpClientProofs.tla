-------------------------- MODULE HttpClientProofs --------------------------
(***************************************************************************)
(* Theorems about the HTTP client, for every set of replies and however    *)
(* they are cut into pieces: the body returned is the one the peer sent,   *)
(* and a reply that has come whole is answered.  How the reply lies on the *)
(* wire, where check_end sees its end and what ParseBody takes from it are *)
(* lemmas; the number of chunks and of zeros in a size is not bounded.     *)
(***************************************************************************)
EXTENDS HttpClient, TokenizerProofs
-----------------------------------------------------------------------------
(* The reply on the wire.                                                    *)

\* No byte is the mark of an exception.
Byte == (STRING \ {"thrown"}) \cup {CR, LF, "head", "bare"} \cup {HexDigits[i] : i \in 1..16}

\* A declared reply, or chunks with data.
ReplyOK(r) ==
    /\ r.head \in {"head", "bare"} /\ r.coding \in {"length", "chunked", "none"}
    /\ r.zeros \in Nat /\ r.chunks \in Seq(Seq(Byte))
    /\ r.coding = "none" => r.chunks = <<>>
    /\ r.coding = "chunked" => \A k \in 1..Len(r.chunks) : Len(r.chunks[k]) \in Nat \ {0}

LEMMA RepliesOK == \A r \in Replies : ReplyOK(r)
<1> SUFFICES ASSUME NEW r \in Replies PROVE ReplyOK(r)
  OBVIOUS
<1>1. /\ r.head \in {"head", "bare"} /\ r.coding \in {"length", "chunked", "none"}
      /\ r.zeros \in Nat /\ r.chunks \in Seq(Seq(STRING))
      /\ r.coding = "none" => r.chunks = <<>>
      /\ \A d \in Range(r.chunks) :
           "thrown" \notin Range(d) /\ (r.coding = "chunked" => d # <<>>)
  BY RepliesAssumption
<1>2. Len(r.chunks) \in Nat /\ r.chunks \in [1..Len(r.chunks) -> Seq(STRING)]
  BY <1>1
<1>3. ASSUME NEW k \in 1..Len(r.chunks)
      PROVE  r.chunks[k] \in Seq(Byte) /\ (r.coding = "chunked" => Len(r.chunks[k]) \in Nat \ {0})
  <2> DEFINE d == r.chunks[k]
  <2>1. d \in Seq(STRING) /\ d \in Range(r.chunks)
    BY <1>2 DEF Range
  <2>2. d \in [1..Len(d) -> STRING] /\ Len(d) \in Nat /\ DOMAIN d = 1..Len(d)
    BY <2>1
  <2>3. \A i \in 1..Len(d) : d[i] # "thrown"
    BY <1>1, <2>1, <2>2 DEF Range
  <2>4. d \in [1..Len(d) -> Byte]
    BY <2>2, <2>3 DEF Byte
  <2>5. d \in Seq(Byte)
    BY <2>2, <2>4
  <2>6. QED
    BY <1>1, <2>1, <2>5
<1>4. r.chunks \in [1..Len(r.chunks) -> Seq(Byte)]
  BY <1>2, <1>3
<1>5. r.chunks \in Seq(Seq(Byte))
  BY <1>2, <1>4
<1>6. QED
  BY <1>1, <1>3, <1>5 DEF ReplyOK

LEMMA ConcatAt ==
    ASSUME NEW a \in Seq(Byte), NEW b \in Seq(Byte)
    PROVE  /\ a \o b \in Seq(Byte) /\ Len(a \o b) = Len(a) + Len(b)
           /\ \A i \in 1..Len(a) : (a \o b)[i] = a[i]
           /\ \A i \in 1..Len(b) : (a \o b)[Len(a) + i] = b[i]
OBVIOUS

-----------------------------------------------------------------------------
(* Numerals: the sizes on the wire, and what std::stoi makes of them.        *)

LEMMA Associative ==
    ASSUME NEW a \in Seq(Byte), NEW b \in Seq(Byte), NEW c \in Seq(Byte)
    PROVE  (a \o b) \o c = a \o (b \o c)
OBVIOUS

\* No byte of a size is one of a line's end.
LEMMA SizesAreNoLines ==
    /\ CR # LF /\ CR # "0" /\ LF # "0" /\ HexDigits[1] = "0"
    /\ \A n \in 0..15 : HexDigits[n + 1] # CR /\ HexDigits[n + 1] # LF
    /\ \A n \in 1..15 : HexDigits[n + 1] # "0"
BY DEF CR, LF, HexDigits

LEMMA DigitIs ==
    /\ \A n \in 0..15 : IsHex(HexDigits[n + 1]) /\ Digit(HexDigits[n + 1]) = n
    /\ \A c : IsHex(c) => Digit(c) \in 0..15
<1>1. Len(HexDigits) = 16
  BY DEF HexDigits
<1>2. \A c : IsHex(c) <=> \E i \in 1..16 : HexDigits[i] = c
  BY <1>1 DEF IsHex, Contains
<1>3. ASSUME NEW n \in 0..15
      PROVE  IsHex(HexDigits[n + 1])
  <2>1. n + 1 \in 1..16
    OBVIOUS
  <2>2. QED
    BY <1>2, <2>1
<1>4. ASSUME NEW c, IsHex(c)
      PROVE  Digit(c) \in 0..15 /\ HexDigits[Digit(c) + 1] = c
  <2>1. PICK i \in 1..16 : HexDigits[i] = c
    BY <1>2, <1>4
  <2>2. i - 1 \in 0..15 /\ HexDigits[i - 1 + 1] = c
    BY <2>1
  <2>3. QED
    BY <2>2 DEF Digit
<1>5. ASSUME NEW a \in 0..15, NEW b \in 0..15, HexDigits[a + 1] = HexDigits[b + 1]
      PROVE  a = b
  BY <1>5 DEF HexDigits
<1>6. ASSUME NEW n \in 0..15
      PROVE  Digit(HexDigits[n + 1]) = n
  BY <1>3, <1>4, <1>5
<1>7. QED
  BY <1>3, <1>4, <1>6

\* The least number of a set that is not empty.
LEMMA MinOf ==
    ASSUME NEW T \in SUBSET Nat, T # {}
    PROVE  Min(T) \in T /\ \A k \in T : Min(T) <= k
<1>1. PICK m \in T : \A k \in T : m <= k
  BY LeastOf
<1>2. Min(T) = m
  BY <1>1, MinIs
<1>3. QED
  BY <1>1, <1>2

LEMMA ValueExists ==
    ASSUME NEW m \in Nat, NEW d \in [1..m -> Nat]
    PROVE  \E v \in [0..m -> Nat] :
             \A i \in 0..m : v[i] = IF i = 0 THEN 0 ELSE 16 * v[i - 1] + d[i]
<1> DEFINE P(k) == \E v \in [0..k -> Nat] :
                     \A i \in 0..k : v[i] = IF i = 0 THEN 0 ELSE 16 * v[i - 1] + d[i]
           T == {k \in 0..m : ~P(k)}
<1>1. SUFFICES ASSUME T # {} PROVE FALSE
  <2>1. m \in 0..m
    OBVIOUS
  <2>2. P(m)
    BY <1>1, <2>1
  <2>3. QED
    BY <2>2
<1>2. PICK k \in T : \A i \in T : k <= i
  <2>1. T \in SUBSET Nat
    OBVIOUS
  <2> HIDE DEF T
  <2>2. QED
    BY <1>1, <2>1, LeastOf
<1>3. k \in 0..m /\ ~P(k)
  OBVIOUS
<1>4. k # 0
  <2> DEFINE v == [i \in 0..0 |-> 0]
  <2>1. v \in [0..0 -> Nat] /\ \A i \in 0..0 : i = 0 /\ v[i] = 0
    OBVIOUS
  <2> HIDE DEF v
  <2>2. \A i \in 0..0 : v[i] = IF i = 0 THEN 0 ELSE 16 * v[i - 1] + d[i]
    BY <2>1
  <2>3. P(0)
    BY <2>1, <2>2
  <2>4. QED
    BY <1>3, <2>3
<1>5. P(k - 1)
  <2>1. k - 1 \in 0..m /\ ~ (k <= k - 1)
    BY <1>3, <1>4
  <2>2. k - 1 \notin T
    BY <1>2, <2>1
  <2>3. QED
    BY <2>1, <2>2
<1>6. PICK v \in [0..k - 1 -> Nat] :
        \A i \in 0..k - 1 : v[i] = IF i = 0 THEN 0 ELSE 16 * v[i - 1] + d[i]
  BY <1>5
<1> DEFINE u == [i \in 0..k |-> IF i < k THEN v[i] ELSE 16 * v[k - 1] + d[k]]
<1>7. v[k - 1] \in Nat /\ d[k] \in Nat
  BY <1>3, <1>4, <1>6
<1>8. u \in [0..k -> Nat]
  <2>1. ASSUME NEW i \in 0..k
        PROVE  (IF i < k THEN v[i] ELSE 16 * v[k - 1] + d[k]) \in Nat
    <3>1. i < k => i \in 0..k - 1
      BY <1>3
    <3>2. QED
      BY <1>6, <1>7, <3>1
  <2>2. QED
    BY <2>1
<1>9. ASSUME NEW i \in 0..k
      PROVE  u[i] = IF i = 0 THEN 0 ELSE 16 * u[i - 1] + d[i]
  <2>1. CASE i < k
    <3>1. i \in 0..k - 1 /\ u[i] = v[i] /\ (i # 0 => i - 1 \in 0..k /\ i - 1 < k /\ u[i - 1] = v[i - 1])
      BY <1>3, <2>1
    <3>2. QED
      BY <1>6, <3>1
  <2>2. CASE i = k
    <3>1. k - 1 \in 0..k /\ k - 1 < k /\ u[k - 1] = v[k - 1] /\ u[k] = 16 * v[k - 1] + d[k]
      BY <1>3, <1>4
    <3>2. QED
      BY <1>4, <2>2, <3>1
  <2>3. QED
    BY <1>3, <2>1, <2>2
<1>10. P(k)
  BY <1>8, <1>9
<1>11. QED
  BY <1>3, <1>10

\* What Stoi computes from the m digits in front.
LEMMA StoiUnfolds ==
    ASSUME NEW s \in Seq(Byte), NEW m \in 0..Len(s), \A j \in 1..m : IsHex(s[j]),
           m = Len(s) \/ ~IsHex(s[m + 1])
    PROVE  \E v \in [0..m -> Nat] :
             /\ \A i \in 0..m : v[i] = IF i = 0 THEN 0 ELSE 16 * v[i - 1] + Digit(s[i])
             /\ Stoi(s) = v[m]
<1> DEFINE T == {i \in 1..(Len(s) + 1) : i > Len(s) \/ ~IsHex(s[i])}
           F(h) == [i \in 0..m |-> IF i = 0 THEN 0 ELSE 16 * h[i - 1] + Digit(s[i])]
           v == CHOOSE h : h = F(h)
<1>1. Len(s) \in Nat /\ m \in Nat /\ m <= Len(s)
  OBVIOUS
<1>2. Min(T) - 1 = m
  <2>1. T \in SUBSET Nat
    OBVIOUS
  <2>2. m + 1 \in T
    BY <1>1
  <2>3. ASSUME NEW i \in T
        PROVE  m + 1 <= i
    <3>1. i \in 1..Len(s) + 1 /\ (i > Len(s) \/ ~IsHex(s[i]))
      OBVIOUS
    <3>2. i \notin 1..m
      BY <1>1, <3>1
    <3>3. QED
      BY <1>1, <3>1, <3>2
  <2> HIDE DEF T
  <2>4. Min(T) = m + 1
    BY <2>1, <2>2, <2>3, MinIs
  <2>5. QED
    BY <1>1, <2>4
<1>3. Stoi(s) = v[m]
  BY <1>2 DEF Stoi
<1> DEFINE d == [i \in 1..m |-> Digit(s[i])]
<1>4. d \in [1..m -> Nat] /\ \A i \in 1..m : Digit(s[i]) = d[i]
  <2>1. ASSUME NEW i \in 1..m
        PROVE  Digit(s[i]) \in Nat
    <3>1. Digit(s[i]) \in 0..15
      BY DigitIs
    <3>2. QED
      BY SMTT(30), <3>1
  <2>2. QED
    BY <2>1
<1> HIDE DEF d
<1>5. PICK u \in [0..m -> Nat] :
        \A i \in 0..m : u[i] = IF i = 0 THEN 0 ELSE 16 * u[i - 1] + d[i]
  BY <1>1, <1>4, ValueExists
<1>6. u = F(u)
  <2>1. ASSUME NEW i \in 0..m
        PROVE  u[i] = IF i = 0 THEN 0 ELSE 16 * u[i - 1] + Digit(s[i])
    <3>1. i # 0 => i \in 1..m
      BY <1>1
    <3>2. QED
      BY <1>4, <1>5, <3>1
  <2>2. u = [i \in 0..m |-> u[i]]
    OBVIOUS
  <2>3. QED
    BY <2>1, <2>2
<1>7. v = F(v)
  BY <1>6
<1> HIDE DEF v
<1>8. \A i \in 0..m : v[i] = IF i = 0 THEN 0 ELSE 16 * v[i - 1] + Digit(s[i])
  <2>1. ASSUME NEW i \in 0..m
        PROVE  v[i] = F(v)[i]
    BY <1>7
  <2>2. QED
    BY <2>1
<1>9. \A i \in 0..m : v[i] \in Nat
  <2> DEFINE W == {i \in 0..m : v[i] \notin Nat}
  <2>1. SUFFICES ASSUME W # {} PROVE FALSE
    OBVIOUS
  <2>2. PICK k \in W : \A i \in W : k <= i
    <3>1. W \in SUBSET Nat
      OBVIOUS
    <3> HIDE DEF W
    <3>2. QED
      BY <2>1, <3>1, LeastOf
  <2>3. k \in 0..m /\ v[k] \notin Nat
    OBVIOUS
  <2>4. k # 0 /\ v[k] = 16 * v[k - 1] + Digit(s[k])
    <3>1. v[k] = IF k = 0 THEN 0 ELSE 16 * v[k - 1] + Digit(s[k])
      BY <1>8, <2>3
    <3>2. k # 0
      BY <2>3, <3>1
    <3>3. QED
      BY <3>1, <3>2
  <2>5. v[k - 1] \in Nat
    <3>1. k - 1 \in 0..m /\ ~ (k <= k - 1)
      BY <2>3, <2>4
    <3>2. k - 1 \notin W
      BY <2>2, <3>1
    <3>3. QED
      BY <3>1, <3>2
  <2>6. Digit(s[k]) \in Nat
    <3>1. k \in 1..m
      BY <2>3, <2>4
    <3>2. Digit(s[k]) = d[k] /\ d[k] \in Nat
      BY <1>4, <3>1
    <3>3. QED
      BY <3>2
  <2>7. QED
    BY SMTT(30), <2>3, <2>4, <2>5, <2>6
<1>10. v \in [0..m -> Nat]
  <2>1. DOMAIN v = 0..m /\ v = [i \in DOMAIN v |-> v[i]]
    <3>1. DOMAIN F(v) = 0..m /\ F(v) = [i \in DOMAIN F(v) |-> F(v)[i]]
      OBVIOUS
    <3>2. QED
      BY <1>7, <3>1
  <2>2. QED
    BY <1>9, <2>1
<1>11. QED
  BY <1>3, <1>8, <1>10

LEMMA StoiNat ==
    ASSUME NEW s \in Seq(Byte)
    PROVE  Stoi(s) \in Nat
<1> DEFINE T == {i \in 1..(Len(s) + 1) : i > Len(s) \/ ~IsHex(s[i])}
           m == Min(T) - 1
<1>1. Len(s) \in Nat
  OBVIOUS
<1>2. Min(T) \in T /\ \A i \in T : Min(T) <= i
  <2>1. T \in SUBSET Nat
    OBVIOUS
  <2>2. Len(s) + 1 \in T
    BY <1>1
  <2> HIDE DEF T
  <2>3. QED
    BY <2>1, <2>2, MinOf
<1>3. PICK k \in 1..Len(s) + 1 : k = Min(T)
  BY <1>2
<1>4. k > Len(s) \/ ~IsHex(s[k])
  BY <1>2, <1>3
<1>5. ASSUME NEW j \in 1..k - 1
      PROVE  IsHex(s[j])
  <2>1. j \in 1..Len(s) + 1 /\ ~ (k <= j) /\ j <= Len(s)
    BY <1>1
  <2>2. j \notin T
    BY <1>2, <1>3, <2>1
  <2>3. QED
    BY <2>1, <2>2
<1>6. k - 1 \in 0..Len(s) /\ k - 1 + 1 = k /\ (k > Len(s) => k - 1 = Len(s))
  BY <1>1
<1>7. PICK n \in 0..Len(s) : n = k - 1 /\ n + 1 = k
  BY <1>6
<1>8. PICK v \in [0..n -> Nat] : Stoi(s) = v[n]
  <2>1. (\A j \in 1..n : IsHex(s[j])) /\ (n = Len(s) \/ ~IsHex(s[n + 1]))
    BY <1>4, <1>5, <1>6, <1>7
  <2>2. QED
    BY ZenonT(30), <2>1, StoiUnfolds
<1>9. n \in 0..n
  BY <1>7
<1>10. QED
  BY <1>8, <1>9

\* Leading zeros do not count.
LEMMA StoiIs ==
    ASSUME NEW s \in Seq(Byte), NEW z \in Nat, NEW n \in 0..15, Len(s) = z + 1,
           \A j \in 1..z : s[j] = "0", s[z + 1] = HexDigits[n + 1]
    PROVE  Stoi(s) = n /\ s # <<>> /\ IsHex(s[1])
<1>1. IsHex("0") /\ Digit("0") = 0 /\ IsHex(s[z + 1]) /\ Digit(s[z + 1]) = n
  <2>1. 0 \in 0..15 /\ HexDigits[0 + 1] = "0"
    BY SizesAreNoLines
  <2>2. QED
    BY <2>1, DigitIs
<1>2. ASSUME NEW j \in 1..z + 1
      PROVE  IsHex(s[j]) /\ (j \in 1..z => Digit(s[j]) = 0)
  <2>1. j \in 1..z \/ j = z + 1
    OBVIOUS
  <2>2. QED
    BY <1>1, <2>1
<1> DEFINE m == z + 1
<1>3. m \in 0..Len(s) /\ m = Len(s) /\ 1 \in 1..z + 1
  OBVIOUS
<1>4. PICK v \in [0..m -> Nat] :
        /\ \A i \in 0..m : v[i] = IF i = 0 THEN 0 ELSE 16 * v[i - 1] + Digit(s[i])
        /\ Stoi(s) = v[m]
  <2>1. \A j \in 1..m : IsHex(s[j])
    BY <1>2
  <2> HIDE DEF m
  <2>2. QED
    BY <1>3, <2>1, StoiUnfolds
<1>5. \A i \in 0..z : v[i] = 0
  <2> DEFINE T == {i \in 0..z : v[i] # 0}
  <2>1. SUFFICES ASSUME T # {} PROVE FALSE
    OBVIOUS
  <2>2. PICK k \in T : \A i \in T : k <= i
    <3>1. T \in SUBSET Nat
      OBVIOUS
    <3> HIDE DEF T
    <3>2. QED
      BY <2>1, <3>1, LeastOf
  <2>3. k \in 0..z /\ k \in 0..m /\ v[k] # 0
    OBVIOUS
  <2>4. v[k] = IF k = 0 THEN 0 ELSE 16 * v[k - 1] + Digit(s[k])
    BY <1>4, <2>3
  <2>5. CASE k = 0
    BY <2>3, <2>4, <2>5
  <2>6. CASE k # 0
    <3>1. k - 1 \in 0..z /\ ~ (k <= k - 1) /\ k \in 1..z /\ k \in 1..z + 1
      BY <2>3, <2>6
    <3>2. k - 1 \notin T
      BY <2>2, <3>1
    <3>3. v[k - 1] = 0
      BY <3>1, <3>2
    <3>4. Digit(s[k]) = 0
      BY <1>2, <3>1
    <3>5. QED
      BY <2>3, <2>4, <2>6, <3>3, <3>4
  <2>7. QED
    BY <2>5, <2>6
<1>6. v[m] = n
  <2>1. v[m] = IF m = 0 THEN 0 ELSE 16 * v[m - 1] + Digit(s[m])
    <3>1. m \in 0..m
      OBVIOUS
    <3>2. QED
      BY <1>4, <3>1
  <2>2. m # 0 /\ m - 1 = z /\ z \in 0..z
    OBVIOUS
  <2>3. v[z] = 0
    BY <1>5, <2>2
  <2>4. QED
    BY <1>1, <2>1, <2>2, <2>3
<1>7. QED
  BY <1>2, <1>3, <1>4, <1>6

\* A digit behind a numeral.
LEMMA StoiAppend ==
    ASSUME NEW s \in Seq(Byte), \A j \in 1..Len(s) : IsHex(s[j]), NEW d \in 0..15
    PROVE  /\ s \o <<HexDigits[d + 1]>> \in Seq(Byte)
           /\ Len(s \o <<HexDigits[d + 1]>>) = Len(s) + 1
           /\ \A j \in 1..Len(s) + 1 : IsHex((s \o <<HexDigits[d + 1]>>)[j])
           /\ Stoi(s \o <<HexDigits[d + 1]>>) = 16 * Stoi(s) + d
<1> DEFINE b == <<HexDigits[d + 1]>>
           t == s \o b
           m == Len(s)
<1>1. m \in Nat /\ m \in 0..m /\ m + 1 \in 0..m + 1 /\ \A i \in 0..m : i \in 0..m + 1
  OBVIOUS
<1>2. b \in Seq(Byte) /\ Len(b) = 1 /\ b[1] = HexDigits[d + 1]
  <2>1. d + 1 \in 1..16
    OBVIOUS
  <2>2. HexDigits[d + 1] \in Byte
    BY <2>1 DEF Byte
  <2>3. QED
    BY <2>2
<1> HIDE DEF b
<1>3. /\ t \in Seq(Byte) /\ Len(t) = m + 1
      /\ \A j \in 1..m : t[j] = s[j]
      /\ t[m + 1] = HexDigits[d + 1]
  <2>1. /\ t \in Seq(Byte) /\ Len(t) = Len(s) + Len(b)
        /\ \A i \in 1..Len(s) : t[i] = s[i]
        /\ \A i \in 1..Len(b) : t[Len(s) + i] = b[i]
    BY <1>2, ConcatAt
  <2>2. 1 \in 1..Len(b)
    BY <1>2
  <2>3. QED
    BY <1>2, <2>1, <2>2
<1> HIDE DEF t
<1>4. IsHex(HexDigits[d + 1]) /\ Digit(HexDigits[d + 1]) = d
  BY DigitIs
<1>5. \A j \in 1..m + 1 : IsHex(t[j])
  <2>1. ASSUME NEW j \in 1..m + 1
        PROVE  IsHex(t[j])
    <3>1. j \in 1..m \/ j = m + 1
      BY <1>1
    <3>2. QED
      BY <1>3, <1>4, <3>1
  <2>2. QED
    BY <2>1
<1>6. PICK v \in [0..m -> Nat] :
        /\ \A i \in 0..m : v[i] = IF i = 0 THEN 0 ELSE 16 * v[i - 1] + Digit(s[i])
        /\ Stoi(s) = v[m]
  <2>1. m \in 0..Len(s) /\ m = Len(s) /\ \A j \in 1..m : IsHex(s[j])
    OBVIOUS
  <2> HIDE DEF m
  <2>2. QED
    BY <2>1, StoiUnfolds
<1>7. PICK u \in [0..m + 1 -> Nat] :
        /\ \A i \in 0..m + 1 : u[i] = IF i = 0 THEN 0 ELSE 16 * u[i - 1] + Digit(t[i])
        /\ Stoi(t) = u[m + 1]
  <2>1. m + 1 \in 0..Len(t) /\ m + 1 = Len(t)
    BY <1>1, <1>3
  <2> HIDE DEF m
  <2>2. QED
    BY <1>3, <1>5, <2>1, StoiUnfolds
<1>8. \A i \in 0..m : u[i] = v[i]
  <2> DEFINE T == {i \in 0..m : u[i] # v[i]}
  <2>1. SUFFICES ASSUME T # {} PROVE FALSE
    OBVIOUS
  <2>2. PICK k \in T : \A i \in T : k <= i
    <3>1. T \in SUBSET Nat
      OBVIOUS
    <3> HIDE DEF T
    <3>2. QED
      BY <2>1, <3>1, LeastOf
  <2>3. k \in 0..m /\ k \in 0..m + 1 /\ u[k] # v[k]
    BY <1>1
  <2>4. /\ v[k] = IF k = 0 THEN 0 ELSE 16 * v[k - 1] + Digit(s[k])
        /\ u[k] = IF k = 0 THEN 0 ELSE 16 * u[k - 1] + Digit(t[k])
    BY <1>6, <1>7, <2>3
  <2>5. CASE k = 0
    BY <2>3, <2>4, <2>5
  <2>6. CASE k # 0
    <3>1. k - 1 \in 0..m /\ ~ (k <= k - 1) /\ k \in 1..m
      BY <1>1, <2>3, <2>6
    <3>2. k - 1 \notin T
      BY <2>2, <3>1
    <3>3. u[k - 1] = v[k - 1] /\ t[k] = s[k]
      BY <1>3, <3>1, <3>2
    <3>4. QED
      BY <2>3, <2>4, <2>6, <3>3
  <2>7. QED
    BY <2>5, <2>6
<1>9. u[m + 1] = 16 * v[m] + d
  <2>1. u[m + 1] = IF m + 1 = 0 THEN 0 ELSE 16 * u[m + 1 - 1] + Digit(t[m + 1])
    BY SMTT(30), <1>1, <1>7
  <2>2. m + 1 # 0 /\ m + 1 - 1 = m
    BY <1>1
  <2>3. u[m] = v[m] /\ Digit(t[m + 1]) = d
    BY <1>1, <1>3, <1>4, <1>8
  <2>4. QED
    BY <2>1, <2>2, <2>3
<1>10. QED
  BY <1>3, <1>5, <1>6, <1>7, <1>9 DEF t, b

\* A number less by one digit.
LEMMA Quotient ==
    ASSUME NEW n \in Nat, n >= 16
    PROVE  n \div 16 \in 0..n - 1 /\ n % 16 \in 0..15 /\ n = 16 * (n \div 16) + (n % 16)
OBVIOUS

\* Hex is what its definition says: the recursion ends.
LEMMA HexRecursion ==
    \A n \in Nat : Hex[n] = IF n < 16 THEN <<HexDigits[n + 1]>>
                            ELSE Hex[n \div 16] \o <<HexDigits[(n % 16) + 1]>>
<1> DEFINE One(n) == <<HexDigits[n + 1]>>
           More(n, s) == s \o <<HexDigits[(n % 16) + 1]>>
           Step(n, h) == IF n < 16 THEN One(n) ELSE More(n, h[n \div 16])
           Upto(k, f) == \A i \in 0..k : f[i] = Step(i, f)
<1> HIDE DEF One, More
<1>1. ASSUME NEW k \in Nat
      PROVE  \E f : Upto(k, f)
  <2> DEFINE T == {j \in 0..k : ~ \E f : Upto(j, f)}
  <2>1. SUFFICES ASSUME T # {} PROVE FALSE
    <3>1. k \in 0..k
      OBVIOUS
    <3>2. QED
      BY <2>1, <3>1
  <2>2. PICK m \in T : \A i \in T : m <= i
    <3>1. T \in SUBSET Nat
      OBVIOUS
    <3> HIDE DEF T
    <3>2. QED
      BY <2>1, <3>1, LeastOf
  <2>3. m \in 0..k /\ ~ \E f : Upto(m, f)
    BY <2>2
  <2>4. PICK f : \A i \in 0..m - 1 : f[i] = Step(i, f)
    <3>1. CASE m = 0
      <4>1. 0..m - 1 = {}
        BY <3>1
      <4>2. QED
        BY <4>1
    <3>2. CASE m # 0
      <4>1. m - 1 \in 0..k /\ ~ (m <= m - 1)
        BY <2>3, <3>2
      <4>2. m - 1 \notin T
        BY <2>2, <4>1
      <4>3. \E f : Upto(m - 1, f)
        BY <4>1, <4>2
      <4>4. QED
        BY <4>3
    <3>3. QED
      BY <3>1, <3>2
  <2> DEFINE g == [i \in 0..m |-> IF i < m THEN f[i] ELSE Step(m, f)]
  <2>5. ASSUME NEW i \in 0..m
        PROVE  g[i] = Step(i, g)
    <3>1. i >= 16 => g[i \div 16] = f[i \div 16]
      <4>1. SUFFICES ASSUME i >= 16 PROVE g[i \div 16] = f[i \div 16]
        OBVIOUS
      <4>2. PICK j \in 0..i - 1 : j = i \div 16
        BY <4>1, Quotient
      <4>3. j \in 0..m /\ j < m
        OBVIOUS
      <4>4. QED
        BY <4>2, <4>3
    <3>2. CASE i < m
      <4>1. i \in 0..m - 1 /\ g[i] = f[i]
        BY <3>2
      <4>2. f[i] = Step(i, f)
        BY <2>4, <4>1
      <4> HIDE DEF g
      <4>3. QED
        BY <3>1, <4>1, <4>2
    <3>3. CASE i = m
      <4>1. g[i] = Step(i, f)
        BY <3>3
      <4> HIDE DEF g
      <4>2. QED
        BY <3>1, <4>1
    <3>4. QED
      BY <3>2, <3>3
  <2> HIDE DEF g
  <2>6. Upto(m, g)
    BY <2>5
  <2>7. QED
    BY <2>3, <2>6
<1>2. ASSUME NEW k \in Nat, NEW f, NEW g, Upto(k, f), NEW l \in Nat, k <= l, Upto(l, g)
      PROVE  f[k] = g[k]
  <2> DEFINE T == {i \in 0..k : f[i] # g[i]}
  <2>1. SUFFICES ASSUME T # {} PROVE FALSE
    <3>1. k \in 0..k
      OBVIOUS
    <3>2. QED
      BY <2>1, <3>1
  <2>2. PICK m \in T : \A i \in T : m <= i
    <3>1. T \in SUBSET Nat
      OBVIOUS
    <3> HIDE DEF T
    <3>2. QED
      BY <2>1, <3>1, LeastOf
  <2>3. m \in 0..k /\ m \in 0..l /\ f[m] # g[m]
    BY <1>2, <2>2
  <2>4. f[m] = Step(m, f) /\ g[m] = Step(m, g)
    BY <1>2, <2>3
  <2>5. m >= 16 => f[m \div 16] = g[m \div 16]
    <3>1. SUFFICES ASSUME m >= 16 PROVE f[m \div 16] = g[m \div 16]
      OBVIOUS
    <3>2. PICK j \in 0..m - 1 : j = m \div 16
      BY <2>3, <3>1, Quotient
    <3>3. j \in 0..k /\ ~ (m <= j)
      BY <2>3
    <3>4. j \notin T
      BY <2>2, <3>3
    <3>5. QED
      BY <3>2, <3>3, <3>4
  <2>6. QED
    BY <2>3, <2>4, <2>5
<1> DEFINE H(n) == CHOOSE f : Upto(n, f)
           F == [n \in Nat |-> H(n)[n]]
<1>3. ASSUME NEW n \in Nat
      PROVE  Upto(n, H(n))
  BY <1>1
<1> HIDE DEF H
<1>4. ASSUME NEW n \in Nat
      PROVE  F[n] = Step(n, F)
  <2>1. F[n] = Step(n, H(n))
    <3>1. Upto(n, H(n)) /\ n \in 0..n
      BY <1>3
    <3>2. QED
      BY <3>1
  <2>2. n >= 16 => H(n)[n \div 16] = F[n \div 16]
    <3>1. SUFFICES ASSUME n >= 16 PROVE H(n)[n \div 16] = F[n \div 16]
      OBVIOUS
    <3>2. PICK j \in 0..n - 1 : j = n \div 16
      BY <3>1, Quotient
    <3>3. j \in Nat /\ j <= n /\ F[j] = H(j)[j]
      OBVIOUS
    <3>4. Upto(j, H(j)) /\ Upto(n, H(n))
      BY <1>3, <3>3
    <3> HIDE DEF F, Upto
    <3>5. H(j)[j] = H(n)[j]
      BY <1>2, <3>3, <3>4
    <3>6. QED
      BY <3>2, <3>3, <3>5
  <2> HIDE DEF F
  <2>3. QED
    BY <2>1, <2>2
<1>5. F = [n \in Nat |-> Step(n, F)]
  <2>1. F = [n \in Nat |-> F[n]]
    OBVIOUS
  <2> HIDE DEF F
  <2>2. QED
    BY <1>4, <2>1
<1> HIDE DEF F
<1>6. Hex = CHOOSE h : h = [n \in Nat |-> Step(n, h)]
  BY DEF Hex, One, More
<1>7. Hex = [n \in Nat |-> Step(n, Hex)]
  BY <1>5, <1>6
<1>8. ASSUME NEW n \in Nat
      PROVE  Hex[n] = Step(n, Hex)
  BY <1>7
<1>9. QED
  BY <1>8 DEF One, More

\* A numeral, and the number it stands for.
Numeral(s, n) ==
    /\ s \in Seq(Byte) /\ Len(s) >= 1
    /\ \A j \in 1..Len(s) : IsHex(s[j])
    /\ Stoi(s) = n

\* Hex writes every number; zeros in front do not count.
LEMMA HexIs ==
    ASSUME NEW z \in Nat
    PROVE  \A n \in Nat :
             /\ Hex[n] \in Seq(Byte) /\ Len(Hex[n]) >= 1
             /\ Numeral([i \in 1..z |-> "0"] \o Hex[n], n)
<1> DEFINE a == [i \in 1..z |-> "0"]
           P(n) == /\ Hex[n] \in Seq(Byte) /\ Len(Hex[n]) >= 1
                   /\ Numeral(a \o Hex[n], n)
           T == {n \in Nat : ~P(n)}
<1>1. SUFFICES ASSUME T # {} PROVE FALSE
  OBVIOUS
<1>2. PICK n \in T : \A i \in T : n <= i
  <2>1. T \in SUBSET Nat
    OBVIOUS
  <2> HIDE DEF T
  <2>2. QED
    BY <1>1, <2>1, LeastOf
<1>3. n \in Nat /\ ~P(n) /\ \A i \in Nat : i < n => P(i)
  BY SMTT(30), <1>2
<1>4. a \in Seq(Byte) /\ Len(a) = z /\ \A j \in 1..z : a[j] = "0"
  <2>1. "0" \in Byte
    <3>1. HexDigits[1] = "0" /\ 1 \in 1..16
      BY SizesAreNoLines
    <3>2. QED
      BY <3>1 DEF Byte
  <2>2. a \in [1..z -> Byte]
    BY <2>1
  <2>3. QED
    BY <2>2
<1> HIDE DEF a, T
<1>5. CASE n < 16
  <2> DEFINE b == <<HexDigits[n + 1]>>
             s == a \o b
  <2>1. Hex[n] = b
    BY <1>3, <1>5, HexRecursion
  <2>2. n \in 0..15 /\ n + 1 \in 1..16
    BY <1>3, <1>5
  <2>3. b \in Seq(Byte) /\ Len(b) = 1 /\ b[1] = HexDigits[n + 1] /\ 1 \in 1..Len(b)
    <3>1. HexDigits[n + 1] \in Byte
      BY <2>2 DEF Byte
    <3>2. QED
      BY <3>1
  <2> HIDE DEF b
  <2>4. /\ s \in Seq(Byte) /\ Len(s) = z + 1 /\ s[z + 1] = HexDigits[n + 1]
        /\ \A j \in 1..z : s[j] = "0"
    <3>1. /\ s \in Seq(Byte) /\ Len(s) = Len(a) + Len(b)
          /\ \A j \in 1..Len(a) : s[j] = a[j]
          /\ \A j \in 1..Len(b) : s[Len(a) + j] = b[j]
      BY <1>4, <2>3, ConcatAt
    <3> HIDE DEF s
    <3>2. QED
      BY <1>4, <2>3, <3>1
  <2> HIDE DEF s
  <2>5. Stoi(s) = n
    BY <2>2, <2>4, StoiIs
  <2>6. \A j \in 1..Len(s) : IsHex(s[j])
    <3>1. IsHex(HexDigits[n + 1]) /\ IsHex(HexDigits[0 + 1]) /\ HexDigits[0 + 1] = "0"
      <4>1. 0 \in 0..15
        OBVIOUS
      <4>2. QED
        BY <2>2, <4>1, DigitIs, SizesAreNoLines
    <3>2. ASSUME NEW j \in 1..Len(s)
          PROVE  IsHex(s[j])
      <4>1. j \in 1..z \/ j = z + 1
        BY <2>4
      <4>2. QED
        BY <2>4, <3>1, <4>1
    <3>3. QED
      BY <3>2
  <2>7. Len(s) >= 1
    BY <2>4
  <2>8. Numeral(s, n)
    BY <2>4, <2>5, <2>6, <2>7 DEF Numeral
  <2>9. P(n)
    BY <2>1, <2>3, <2>8 DEF s
  <2>10. QED
    BY <1>3, <2>9
<1>6. CASE n >= 16
  <2>1. PICK k \in 0..n - 1 : k = n \div 16
    BY <1>3, <1>6, Quotient
  <2>2. PICK d \in 0..15 : d = n % 16
    BY <1>3, <1>6, Quotient
  <2>3. n = 16 * k + d
    BY <1>3, <1>6, <2>1, <2>2, Quotient
  <2> DEFINE h == Hex[k]
             b == <<HexDigits[d + 1]>>
             s == a \o h
  <2>4. Hex[n] = h \o b
    <3>1. ~ (n < 16)
      BY <1>3, <1>6
    <3>2. QED
      BY <1>3, <2>1, <2>2, <3>1, HexRecursion
  <2>5. h \in Seq(Byte) /\ Len(h) >= 1 /\ Numeral(s, k)
    <3>1. k \in Nat /\ k < n
      BY <1>3
    <3>2. QED
      BY <1>3, <3>1
  <2>6. b \in Seq(Byte) /\ Len(b) = 1
    <3>1. d + 1 \in 1..16
      OBVIOUS
    <3>2. HexDigits[d + 1] \in Byte
      BY <3>1 DEF Byte
    <3>3. QED
      BY <3>2
  <2>7. s \in Seq(Byte) /\ Len(s) >= 1 /\ (\A j \in 1..Len(s) : IsHex(s[j])) /\ Stoi(s) = k
    BY <2>5 DEF Numeral
  <2> HIDE DEF s, h
  <2>8. /\ s \o b \in Seq(Byte) /\ Len(s \o b) = Len(s) + 1
        /\ \A j \in 1..Len(s) + 1 : IsHex((s \o b)[j])
        /\ Stoi(s \o b) = 16 * k + d
    BY <2>7, StoiAppend
  <2> HIDE DEF b
  <2>9. Len(s \o b) >= 1
    BY <2>7, <2>8
  <2>10. Numeral(s \o b, n)
    BY <2>3, <2>8, <2>9 DEF Numeral
  <2>11. s \o b = a \o (h \o b)
    BY <1>4, <2>5, <2>6, Associative DEF s
  <2>12. h \o b \in Seq(Byte) /\ Len(h \o b) = Len(h) + Len(b)
    BY <2>5, <2>6, ConcatAt
  <2>13. P(n)
    <3>1. Len(h \o b) >= 1
      BY <2>5, <2>6, <2>12
    <3>2. QED
      BY <2>4, <2>10, <2>11, <2>12, <3>1
  <2>14. QED
    BY <1>3, <2>13
<1>7. QED
  BY <1>3, <1>5, <1>6

\* A numeral is no line's end, and all zeros mean nothing.
LEMMA NumeralIs ==
    ASSUME NEW s, NEW n, Numeral(s, n)
    PROVE  /\ \A j \in 1..Len(s) : s[j] # CR /\ s[j] # LF
           /\ n # 0 => \E j \in 1..Len(s) : s[j] # "0"
<1>1. \A c : IsHex(c) => c # CR /\ c # LF
  BY SizesAreNoLines DEF IsHex, Contains, HexDigits
<1>2. ASSUME \A j \in 1..Len(s) : s[j] = "0"
      PROVE  n = 0
  <2>1. PICK z \in Nat : Len(s) = z + 1
    <3>1. Len(s) - 1 \in Nat /\ Len(s) = Len(s) - 1 + 1
      BY DEF Numeral
    <3>2. QED
      BY <3>1
  <2>2. /\ \A j \in 1..z : s[j] = "0"
        /\ s[z + 1] = HexDigits[0 + 1] /\ 0 \in 0..15
    <3>1. z + 1 \in 1..Len(s) /\ \A j \in 1..z : j \in 1..Len(s)
      BY <2>1
    <3>2. QED
      BY <1>2, <3>1, SizesAreNoLines
  <2>3. Stoi(s) = 0
    BY <2>1, <2>2, StoiIs DEF Numeral
  <2>4. QED
    BY <2>3 DEF Numeral
<1>3. QED
  BY <1>1, <1>2 DEF Numeral

-----------------------------------------------------------------------------
(* The chunks on the wire.                                                   *)

\* A size line and a newline, behind the position p; the size has z digits before
\* its last one.
CrlfAt(w, p) == w[p + 1] = CR /\ w[p + 2] = LF
SizeAt(w, p, z, n) ==
    /\ \E t : Numeral(t, n) /\ Len(t) = z + 1 /\ \A j \in 1..z + 1 : w[p + j] = t[j]
    /\ CrlfAt(w, p + z + 1)
Z(r, n) == r.zeros + Len(Hex[n]) - 1

\* A chunk with the data d behind p.
ChunkAt(w, p, z, d) ==
    /\ SizeAt(w, p, z, Len(d))
    /\ \A j \in 1..Len(d) : w[p + z + 3 + j] = d[j]
    /\ CrlfAt(w, p + z + 3 + Len(d))

LEMMA CrlfIs == Crlf \in Seq(Byte) /\ Len(Crlf) = 2 /\ Crlf[1] = CR /\ Crlf[2] = LF
BY DEF Crlf, Byte

LEMMA CrlfBehind ==
    ASSUME NEW a \in Seq(Byte), NEW n \in Nat, Len(a) = n
    PROVE  /\ a \o Crlf \in Seq(Byte) /\ Len(a \o Crlf) = n + 2
           /\ \A i \in 1..n : (a \o Crlf)[i] = a[i]
           /\ CrlfAt(a \o Crlf, n)
<1>1. /\ a \o Crlf \in Seq(Byte) /\ Len(a \o Crlf) = Len(a) + Len(Crlf)
      /\ \A i \in 1..Len(a) : (a \o Crlf)[i] = a[i]
      /\ \A i \in 1..Len(Crlf) : (a \o Crlf)[Len(a) + i] = Crlf[i]
  BY CrlfIs, ConcatAt
<1>2. 1 \in 1..Len(Crlf) /\ 2 \in 1..Len(Crlf)
  BY CrlfIs
<1>3. (a \o Crlf)[Len(a) + 1] = CR /\ (a \o Crlf)[Len(a) + 2] = LF
  BY <1>1, <1>2, CrlfIs
<1>4. QED
  BY <1>1, <1>3, CrlfIs DEF CrlfAt

LEMMA ZIs ==
    ASSUME NEW r, r.zeros \in Nat
    PROVE  (\A n \in Nat : Z(r, n) \in Nat) /\ Z(r, 0) = r.zeros
<1>1. \A n \in Nat : Len(Hex[n]) \in Nat /\ Len(Hex[n]) >= 1
  <2>1. 0 \in Nat
    OBVIOUS
  <2>2. \A n \in Nat : Hex[n] \in Seq(Byte) /\ Len(Hex[n]) >= 1
    BY <2>1, HexIs
  <2>3. QED
    BY <2>2
<1>2. Hex[0] = <<HexDigits[0 + 1]>>
  <2>1. 0 \in Nat /\ 0 < 16
    OBVIOUS
  <2>2. QED
    BY <2>1, HexRecursion
<1>3. Len(Hex[0]) = 1
  BY <1>2
<1>4. QED
  BY <1>1, <1>3 DEF Z

LEMMA SizeIs ==
    ASSUME NEW r, r.zeros \in Nat, NEW n \in Nat
    PROVE  /\ Size(r, n) \in Seq(Byte) /\ Len(Size(r, n)) = Z(r, n) + 3
           /\ SizeAt(Size(r, n), 0, Z(r, n), n)
           /\ n = 0 => \A j \in 1..r.zeros + 1 : Size(r, n)[j] = "0"
<1> DEFINE a == [i \in 1..r.zeros |-> "0"]
           h == Hex[n]
           t == a \o h
           w == t \o Crlf
           z == Z(r, n)
<1>1. h \in Seq(Byte) /\ Len(h) >= 1 /\ Numeral(t, n)
  BY HexIs
<1>2. a \in Seq(Byte) /\ Len(a) = r.zeros /\ \A j \in 1..r.zeros : a[j] = "0"
  <2>1. "0" \in Byte
    <3>1. HexDigits[1] = "0" /\ 1 \in 1..16
      BY SizesAreNoLines
    <3>2. QED
      BY <3>1 DEF Byte
  <2>2. a \in [1..r.zeros -> Byte]
    BY <2>1
  <2>3. QED
    BY <2>2
<1>3. Size(r, n) = w
  <2>1. a \o (h \o Crlf) = (a \o h) \o Crlf
    BY <1>1, <1>2, CrlfIs, Associative
  <2>2. Size(r, n) = a \o h \o Crlf
    BY DEF Size
  <2>3. QED
    BY <2>1, <2>2
<1>4. h = Hex[n] /\ Z(r, n) = z
  OBVIOUS
<1> HIDE DEF a, h
<1>5. z \in Nat /\ Len(t) = z + 1 /\ t \in Seq(Byte)
  <2>1. t \in Seq(Byte) /\ Len(t) = Len(a) + Len(h)
    BY <1>1, <1>2, ConcatAt
  <2>2. z \in Nat /\ z = r.zeros + Len(h) - 1
    BY <1>4, ZIs DEF Z
  <2>3. Len(h) \in Nat
    BY <1>1
  <2> HIDE DEF t, z
  <2>4. QED
    BY <1>2, <2>1, <2>2, <2>3
<1>6. n = 0 => \A j \in 1..r.zeros + 1 : t[j] = "0"
  <2>1. SUFFICES ASSUME n = 0, NEW j \in 1..r.zeros + 1 PROVE t[j] = "0"
    OBVIOUS
  <2>2. h = <<HexDigits[0 + 1]>>
    <3>1. 0 \in Nat /\ 0 < 16
      OBVIOUS
    <3>2. Hex[0] = <<HexDigits[0 + 1]>>
      BY <3>1, HexRecursion
    <3>3. QED
      BY <1>4, <2>1, <3>2
  <2>3. h[1] = "0" /\ 1 \in 1..Len(h)
    BY <2>2, SizesAreNoLines
  <2>4. /\ \A i \in 1..Len(a) : t[i] = a[i]
        /\ \A i \in 1..Len(h) : t[Len(a) + i] = h[i]
    BY <1>1, <1>2, ConcatAt
  <2>5. j \in 1..r.zeros \/ j = r.zeros + 1
    OBVIOUS
  <2> HIDE DEF t
  <2>6. QED
    BY <1>2, <2>3, <2>4, <2>5
<1> HIDE DEF t, z
<1>7. /\ w \in Seq(Byte) /\ Len(w) = z + 1 + 2
      /\ \A i \in 1..z + 1 : w[i] = t[i]
      /\ CrlfAt(w, z + 1)
  <2>1. z + 1 \in Nat
    BY <1>5
  <2>2. QED
    BY <1>5, <2>1, CrlfBehind
<1> HIDE DEF w
<1>8. SizeAt(w, 0, z, n)
  <2>1. \A j \in 1..z + 1 : w[0 + j] = t[j]
    BY <1>5, <1>7
  <2>2. 0 + z + 1 = z + 1
    BY <1>5
  <2>3. QED
    BY <1>1, <1>5, <1>7, <2>1, <2>2 DEF SizeAt
<1>9. n = 0 => \A j \in 1..r.zeros + 1 : w[j] = "0"
  <2>1. SUFFICES ASSUME n = 0 PROVE \A j \in 1..r.zeros + 1 : w[j] = "0"
    OBVIOUS
  <2>2. z = r.zeros
    BY <1>4, <2>1, ZIs
  <2>3. QED
    BY <1>6, <1>7, <2>1, <2>2
<1>10. Len(w) = z + 3
  BY <1>5, <1>7
<1>11. QED
  BY <1>3, <1>4, <1>7, <1>8, <1>9, <1>10

\* What stands in a text stands behind a text before it, too.
LEMMA SizeMoves ==
    ASSUME NEW w, NEW s, NEW p \in Nat, NEW q \in Nat, NEW z \in Nat, NEW n,
           SizeAt(s, q, z, n),
           \A j \in 1..z + 3 : w[p + j] = s[q + j]
    PROVE  SizeAt(w, p, z, n)
<1>1. \A j \in 1..z + 1 : j \in 1..z + 3
  OBVIOUS
<1>2. /\ z + 2 \in 1..z + 3 /\ z + 3 \in 1..z + 3
      /\ p + z + 1 + 1 = p + (z + 2) /\ p + z + 1 + 2 = p + (z + 3)
      /\ q + z + 1 + 1 = q + (z + 2) /\ q + z + 1 + 2 = q + (z + 3)
  OBVIOUS
<1>3. PICK t : Numeral(t, n) /\ Len(t) = z + 1 /\ \A j \in 1..z + 1 : s[q + j] = t[j]
  BY DEF SizeAt
<1>4. \A j \in 1..z + 1 : w[p + j] = t[j]
  BY <1>1, <1>3
<1>5. CrlfAt(w, p + z + 1)
  <2>1. CrlfAt(s, q + z + 1)
    BY DEF SizeAt
  <2>2. QED
    BY <1>2, <2>1 DEF CrlfAt
<1>6. QED
  BY <1>3, <1>4, <1>5 DEF SizeAt

LEMMA ChunkIs ==
    ASSUME NEW r, r.zeros \in Nat, NEW d \in Seq(Byte)
    PROVE  /\ Chunk(r, d) \in Seq(Byte) /\ Len(Chunk(r, d)) = Z(r, Len(d)) + Len(d) + 5
           /\ ChunkAt(Chunk(r, d), 0, Z(r, Len(d)), d)
<1> DEFINE n == Len(d)
           z == Z(r, n)
           s == Size(r, n)
           t == s \o d
           u == t \o Crlf
<1>0. z \in Nat /\ n \in Nat
  BY ZIs
<1>1. Chunk(r, d) = u
  BY DEF Chunk
<1>2. s \in Seq(Byte) /\ Len(s) = z + 3 /\ SizeAt(s, 0, z, n)
  BY SizeIs
<1> HIDE DEF s
<1>3. /\ t \in Seq(Byte) /\ Len(t) = z + 3 + n
      /\ \A i \in 1..z + 3 : t[i] = s[i]
      /\ \A i \in 1..n : t[z + 3 + i] = d[i]
  <2>1. /\ t \in Seq(Byte) /\ Len(t) = Len(s) + Len(d)
        /\ \A i \in 1..Len(s) : t[i] = s[i]
        /\ \A i \in 1..Len(d) : t[Len(s) + i] = d[i]
    BY <1>2, ConcatAt
  <2>2. QED
    BY <1>0, <1>2, <2>1
<1> HIDE DEF t
<1>4. /\ u \in Seq(Byte) /\ Len(u) = z + n + 5
      /\ \A i \in 1..z + 3 + n : u[i] = t[i]
      /\ CrlfAt(u, z + 3 + n)
  <2>1. z + 3 + n \in Nat
    BY <1>0
  <2>2. /\ u \in Seq(Byte) /\ Len(u) = z + 3 + n + 2
        /\ \A i \in 1..z + 3 + n : u[i] = t[i]
        /\ CrlfAt(u, z + 3 + n)
    BY <1>3, <2>1, CrlfBehind
  <2>3. QED
    BY SMTT(30), <1>0, <2>2
<1> HIDE DEF u
<1>5. SizeAt(u, 0, z, n)
  <2>1. ASSUME NEW j \in 1..z + 3
        PROVE  u[0 + j] = s[0 + j]
    <3>1. 0 + j = j /\ j \in 1..z + 3 + n
      BY <1>0
    <3>2. QED
      BY <1>3, <1>4, <3>1
  <2>2. QED
    BY <1>0, <1>2, <2>1, SizeMoves
<1>6. ASSUME NEW j \in 1..n
      PROVE  u[0 + z + 3 + j] = d[j]
  <2>1. 0 + z + 3 + j = z + 3 + j /\ z + 3 + j \in 1..z + 3 + n
    BY <1>0
  <2>2. QED
    BY <1>3, <1>4, <2>1
<1>7. CrlfAt(u, 0 + z + 3 + n)
  <2>1. 0 + z + 3 + n = z + 3 + n
    BY <1>0
  <2>2. QED
    BY <1>4, <2>1
<1>8. QED
  BY <1>1, <1>4, <1>5, <1>6, <1>7 DEF ChunkAt

LEMMA ChunkMoves ==
    ASSUME NEW w, NEW s, NEW p \in Nat, NEW q \in Nat, NEW z \in Nat, NEW d, Len(d) \in Nat,
           ChunkAt(s, q, z, d),
           \A j \in 1..z + Len(d) + 5 : w[p + j] = s[q + j]
    PROVE  ChunkAt(w, p, z, d)
<1> DEFINE n == Len(d)
<1>0. n \in Nat
  OBVIOUS
<1>1. SizeAt(s, q, z, n) /\ CrlfAt(s, q + z + 3 + n) /\ \A j \in 1..n : s[q + z + 3 + j] = d[j]
  BY DEF ChunkAt
<1>2. \A j \in 1..z + n + 5 : w[p + j] = s[q + j]
  OBVIOUS
<1> HIDE DEF n
<1>3. SizeAt(w, p, z, n)
  <2>1. \A j \in 1..z + 3 : j \in 1..z + n + 5
    BY <1>0
  <2>2. \A j \in 1..z + 3 : w[p + j] = s[q + j]
    BY <1>2, <2>1
  <2>3. QED
    BY <1>1, <2>2, SizeMoves
<1>4. ASSUME NEW j \in 1..n
      PROVE  w[p + z + 3 + j] = d[j]
  <2>1. /\ z + 3 + j \in 1..z + n + 5
        /\ p + z + 3 + j = p + (z + 3 + j) /\ q + z + 3 + j = q + (z + 3 + j)
    BY <1>0
  <2>2. w[p + (z + 3 + j)] = s[q + (z + 3 + j)]
    BY <1>2, <2>1
  <2>3. QED
    BY <1>1, <2>1, <2>2
<1>5. CrlfAt(w, p + z + 3 + n)
  <2>1. /\ z + n + 4 \in 1..z + n + 5 /\ z + n + 5 \in 1..z + n + 5
        /\ p + z + 3 + n + 1 = p + (z + n + 4) /\ q + z + 3 + n + 1 = q + (z + n + 4)
        /\ p + z + 3 + n + 2 = p + (z + n + 5) /\ q + z + 3 + n + 2 = q + (z + n + 5)
    BY <1>0
  <2>2. w[p + (z + n + 4)] = s[q + (z + n + 4)] /\ w[p + (z + n + 5)] = s[q + (z + n + 5)]
    BY <1>2, <2>1
  <2>3. QED
    BY <1>1, <2>1, <2>2 DEF CrlfAt
<1>6. QED
  BY <1>3, <1>4, <1>5 DEF ChunkAt, n

\* Each sequence that FlattenSeq makes begins with the ones before it.
LEMMA JoinedGrows ==
    ASSUME NEW n \in Nat, NEW x \in [1..n -> Seq(Byte)], NEW f \in [1..n -> Seq(Byte)],
           Joined(x, n, f), NEW k \in 1..n, NEW m \in k..n
    PROVE  Len(f[k]) <= Len(f[m]) /\ \A j \in 1..Len(f[k]) : f[m][j] = f[k][j]
<1> DEFINE P(i) == Len(f[k]) <= Len(f[i]) /\ \A j \in 1..Len(f[k]) : f[i][j] = f[k][j]
           T == {i \in k..n : ~P(i)}
<1>1. SUFFICES ASSUME T # {} PROVE FALSE
  <2>1. \A i \in k..n : P(i)
    BY <1>1
  <2>2. QED
    BY <2>1
<1>2. PICK i \in T : \A h \in T : i <= h
  <2>1. T \in SUBSET Nat
    OBVIOUS
  <2> HIDE DEF T
  <2>2. QED
    BY <1>1, <2>1, LeastOf
<1>3. i \in k..n /\ ~P(i) /\ i \in 1..n /\ k \in 1..n
  OBVIOUS
<1>4. Len(f[k]) \in Nat /\ f[k] \in Seq(Byte)
  OBVIOUS
<1>5. i # k
  BY <1>3, <1>4
<1>6. P(i - 1)
  <2>1. i - 1 \in k..n /\ ~ (i <= i - 1)
    BY <1>3, <1>5
  <2>2. i - 1 \notin T
    BY <1>2, <2>1
  <2>3. QED
    BY <2>1, <2>2
<1>7. f[i] = f[i - 1] \o x[i] /\ f[i - 1] \in Seq(Byte) /\ x[i] \in Seq(Byte)
  <2>1. i - 1 \in 1..n /\ i # 1
    BY <1>3, <1>5
  <2>2. QED
    BY <1>3, <2>1 DEF Joined
<1> DEFINE g == f[i - 1]
           y == x[i]
           h == f[i]
           b == f[k]
<1>8. h = g \o y /\ g \in Seq(Byte) /\ y \in Seq(Byte) /\ b \in Seq(Byte)
  BY <1>4, <1>7
<1>9. Len(b) <= Len(g) /\ \A j \in 1..Len(b) : g[j] = b[j]
  BY <1>6
<1>10. ~ (Len(b) <= Len(h) /\ \A j \in 1..Len(b) : h[j] = b[j])
  BY <1>3
<1> HIDE DEF g, y, h, b, T, P
<1>11. /\ Len(h) = Len(g) + Len(y)
       /\ \A j \in 1..Len(g) : h[j] = g[j]
  BY <1>8, ConcatAt
<1>12. Len(g) \in Nat /\ Len(y) \in Nat /\ Len(b) \in Nat
  BY <1>8
<1>13. \A j \in 1..Len(b) : j \in 1..Len(g)
  BY <1>9, <1>12
<1>14. \A j \in 1..Len(b) : h[j] = b[j]
  BY <1>9, <1>11, <1>13
<1>15. QED
  BY <1>9, <1>10, <1>11, <1>12, <1>14

\* Chunk k of the reply r lies in w between e[k - 1] and e[k].
Laid(w, r, e) ==
    /\ e \in [0..Len(r.chunks) -> Nat] /\ e[0] = 0
    /\ \A k \in 1..Len(r.chunks) :
         /\ e[k] = e[k - 1] + Z(r, Len(r.chunks[k])) + Len(r.chunks[k]) + 5
         /\ ChunkAt(w, e[k - 1], Z(r, Len(r.chunks[k])), r.chunks[k])

LEMMA ChunksLaid ==
    ASSUME NEW r, ReplyOK(r), r.coding = "chunked",
           NEW x, x = [i \in 1..Len(r.chunks) |-> Chunk(r, r.chunks[i])]
    PROVE  /\ FlattenSeq(x) \in Seq(Byte)
           /\ \E e : Laid(FlattenSeq(x), r, e) /\ e[Len(r.chunks)] = Len(FlattenSeq(x))
<1> DEFINE n == Len(r.chunks)
           z(k) == Z(r, Len(r.chunks[k]))
           d == r.chunks
           w == FlattenSeq(x)
<1>1. /\ n \in Nat /\ r.zeros \in Nat /\ d \in Seq(Seq(Byte))
      /\ \A k \in 1..n : d[k] \in Seq(Byte) /\ Len(d[k]) \in Nat /\ z(k) \in Nat
  <2>1. n \in Nat /\ r.zeros \in Nat /\ d \in Seq(Seq(Byte))
    BY DEF ReplyOK
  <2>2. \A k \in 1..n : d[k] \in Seq(Byte)
    BY <2>1
  <2>3. \A k \in 1..n : Len(d[k]) \in Nat
    BY <2>2
  <2>4. \A k \in 1..n : z(k) \in Nat
    BY <2>1, <2>3, ZIs
  <2>5. QED
    BY <2>1, <2>2, <2>3, <2>4
<1>2. /\ x \in [1..n -> Seq(Byte)]
      /\ \A k \in 1..n : /\ x[k] \in Seq(Byte) /\ Len(x[k]) = z(k) + Len(d[k]) + 5
                         /\ ChunkAt(x[k], 0, z(k), d[k])
  <2>1. ASSUME NEW k \in 1..n
        PROVE  /\ x[k] \in Seq(Byte) /\ Len(x[k]) = z(k) + Len(d[k]) + 5
               /\ ChunkAt(x[k], 0, z(k), d[k])
    <3>1. x[k] = Chunk(r, d[k])
      OBVIOUS
    <3>2. d[k] \in Seq(Byte) /\ r.zeros \in Nat
      BY <1>1
    <3>3. QED
      BY <3>1, <3>2, ChunkIs
  <2>2. QED
    BY <2>1
<1>3. x \in Seq(Seq(Byte)) /\ Len(x) = n
  BY <1>1, <1>2
<1>4. CASE n = 0
  <2>1. w = x /\ x \in Seq(Byte) /\ Len(x) = 0
    BY <1>2, <1>3, <1>4 DEF FlattenSeq
  <2> DEFINE e == [i \in 0..0 |-> 0]
  <2>2. e \in [0..n -> Nat] /\ e[0] = 0 /\ e[n] = 0 /\ 1..n = {}
    BY <1>4
  <2> HIDE DEF e
  <2>3. Laid(w, r, e)
    BY <2>2 DEF Laid
  <2>4. QED
    BY <2>1, <2>2, <2>3
<1>5. CASE n > 0
  <2>1. PICK f \in [1..n -> Seq(Byte)] : Joined(x, n, f) /\ w = f[n]
    <3>1. Len(x) > 0
      BY <1>3, <1>5
    <3>2. QED
      BY <1>3, <3>1, FlattenIs
  <2> DEFINE e == [i \in 0..n |-> IF i = 0 THEN 0 ELSE Len(f[i])]
  <2>2. w \in Seq(Byte)
    <3>1. n \in 1..n
      BY <1>1, <1>5
    <3>2. f[n] \in Seq(Byte)
      BY <3>1
    <3>3. QED
      BY <2>1, <3>2
  <2>3. /\ e \in [0..n -> Nat] /\ e[0] = 0 /\ e[n] = Len(w)
    <3>1. \A i \in 1..n : Len(f[i]) \in Nat
      BY <2>1
    <3>2. QED
      BY <1>1, <1>5, <2>1, <3>1
  <2>4. ASSUME NEW k \in 1..n
        PROVE  /\ e[k] = e[k - 1] + z(k) + Len(d[k]) + 5
               /\ ChunkAt(w, e[k - 1], z(k), d[k])
    <3> DEFINE b == IF k = 1 THEN <<>> ELSE f[k - 1]
               c == x[k]
               g == f[k]
    <3>1. b \in Seq(Byte) /\ c \in Seq(Byte) /\ g \in Seq(Byte)
      <4>1. k # 1 => k - 1 \in 1..n
        BY <1>1
      <4>2. QED
        BY <1>2, <2>1, <4>1
    <3>2. g = b \o c
      <4>1. k # 1 => g = f[k - 1] \o c
        BY <2>1 DEF Joined
      <4>2. k = 1 => g = c
        BY <2>1 DEF Joined
      <4>3. <<>> \o c = c
        BY <3>1
      <4>4. QED
        BY <4>1, <4>2, <4>3
    <3>3. e[k - 1] = Len(b) /\ e[k] = Len(g)
      <4>1. k # 1 => k - 1 \in 0..n /\ k - 1 # 0
        BY <1>1
      <4>2. k = 1 => k - 1 = 0 /\ Len(b) = 0
        OBVIOUS
      <4>3. 0 \in 0..n /\ k \in 0..n /\ k # 0
        BY <1>1
      <4>4. QED
        BY <4>1, <4>2, <4>3
    <3>4. \A j \in 1..Len(g) : w[j] = g[j]
      <4>1. n \in k..n /\ x \in [1..n -> Seq(Byte)]
        BY <1>1, <1>2
      <4>2. \A j \in 1..Len(f[k]) : f[n][j] = f[k][j]
        BY <1>1, <2>1, <4>1, JoinedGrows
      <4>3. QED
        BY <2>1, <4>2
    <3>5. Len(c) = z(k) + Len(d[k]) + 5 /\ ChunkAt(c, 0, z(k), d[k])
      BY <1>2
    <3> HIDE DEF b, c, g, e, w, z
    <3>6. /\ Len(g) = Len(b) + Len(c)
          /\ \A j \in 1..Len(c) : g[Len(b) + j] = c[j]
      BY <3>1, <3>2, ConcatAt
    <3>7. Len(b) \in Nat /\ Len(c) \in Nat /\ z(k) \in Nat /\ Len(d[k]) \in Nat
      BY <1>1, <3>1
    <3>8. ASSUME NEW j \in 1..z(k) + Len(d[k]) + 5
          PROVE  w[Len(b) + j] = c[0 + j]
      <4>1. j \in 1..Len(c)
        BY <3>5, <3>7
      <4>2. Len(b) + j \in 1..Len(g) /\ 0 + j = j
        BY <3>6, <3>7, <4>1
      <4>3. QED
        BY <3>4, <3>6, <4>1, <4>2
    <3>9. ChunkAt(w, Len(b), z(k), d[k])
      BY <3>5, <3>7, <3>8, ChunkMoves
    <3>10. QED
      BY SMTT(30), <3>3, <3>5, <3>6, <3>7, <3>9
  <2> HIDE DEF e
  <2>5. Laid(w, r, e)
    BY <2>3, <2>4 DEF Laid
  <2>6. QED
    BY <2>2, <2>3, <2>5
<1>6. n = 0 \/ n > 0
  BY <1>1
<1>7. QED
  BY <1>4, <1>5, <1>6

LEMMA LaidTypes ==
    ASSUME NEW w, NEW r, ReplyOK(r), r.coding = "chunked", NEW e, Laid(w, r, e)
    PROVE  /\ Len(r.chunks) \in Nat /\ r.zeros \in Nat
           /\ \A k \in 0..Len(r.chunks) : e[k] \in Nat
           /\ \A k \in 1..Len(r.chunks) :
                /\ r.chunks[k] \in Seq(Byte) /\ Len(r.chunks[k]) \in Nat \ {0}
                /\ Z(r, Len(r.chunks[k])) \in Nat
                /\ k - 1 \in 0..Len(r.chunks) /\ e[k - 1] \in Nat /\ e[k] \in Nat
                /\ e[k] = e[k - 1] + Z(r, Len(r.chunks[k])) + Len(r.chunks[k]) + 5
                /\ ChunkAt(w, e[k - 1], Z(r, Len(r.chunks[k])), r.chunks[k])
<1> DEFINE n == Len(r.chunks)
           d == r.chunks
<1>1. /\ n \in Nat /\ r.zeros \in Nat /\ d \in Seq(Seq(Byte))
      /\ \A k \in 1..n : Len(d[k]) \in Nat \ {0}
  BY DEF ReplyOK
<1>2. \A k \in 1..n : d[k] \in Seq(Byte)
  BY <1>1
<1>3. /\ e \in [0..n -> Nat]
      /\ \A k \in 1..n : /\ e[k] = e[k - 1] + Z(r, Len(d[k])) + Len(d[k]) + 5
                         /\ ChunkAt(w, e[k - 1], Z(r, Len(d[k])), d[k])
  BY DEF Laid
<1> HIDE DEF n, d
<1>4. \A k \in 1..n : k - 1 \in 0..n /\ k \in 0..n
  BY <1>1
<1>5. \A k \in 1..n : Z(r, Len(d[k])) \in Nat
  BY <1>1, ZIs
<1>6. QED
  BY <1>1, <1>2, <1>3, <1>4, <1>5 DEF n, d

LEMMA LaidGrows ==
    ASSUME NEW w, NEW r, ReplyOK(r), r.coding = "chunked", NEW e, Laid(w, r, e),
           NEW k \in 0..Len(r.chunks)
    PROVE  e[k] <= e[Len(r.chunks)]
<1> DEFINE n == Len(r.chunks)
           T == {i \in 0..n : e[i] > e[n]}
<1>1. SUFFICES ASSUME T # {} PROVE FALSE
  <2>1. n \in Nat /\ \A i \in 0..n : e[i] \in Nat
    BY LaidTypes
  <2>2. e[k] \in Nat /\ e[n] \in Nat
    BY <2>1
  <2>3. k \notin T
    BY <1>1
  <2>4. QED
    BY <2>2, <2>3
<1>2. n \in Nat /\ \A i \in 0..n : e[i] \in Nat
  BY LaidTypes
<1> DEFINE m == Max(T)
<1>3. m \in T /\ \A i \in T : m >= i
  <2>1. T \in SUBSET (0..n)
    OBVIOUS
  <2> HIDE DEF T
  <2>2. QED
    BY <1>1, <1>2, <2>1, MaxIs
<1> HIDE DEF m
<1>4. m \in 0..n /\ e[m] > e[n]
  BY <1>3
<1>5. m # n /\ e[m] \in Nat /\ e[n] \in Nat
  BY <1>2, <1>4
<1>6. m + 1 \in 1..n /\ m + 1 \in 0..n /\ m + 1 - 1 = m /\ ~ (m >= m + 1)
  BY <1>2, <1>4, <1>5
<1>7. e[m + 1] <= e[n]
  <2>1. m + 1 \notin T /\ e[m + 1] \in Nat
    BY <1>2, <1>3, <1>6
  <2>2. QED
    BY <1>5, <1>6, <2>1
<1> DEFINE l == Len(r.chunks[m + 1])
           z == Z(r, l)
<1>8. z \in Nat /\ l \in Nat
  BY <1>6, LaidTypes
<1>9. e[m + 1] = e[m] + z + l + 5
  <2>1. PICK i \in 1..n : i = m + 1 /\ i - 1 = m
    BY <1>4, <1>6
  <2>2. e[i] = e[i - 1] + Z(r, Len(r.chunks[i])) + Len(r.chunks[i]) + 5
    BY DEF Laid
  <2>3. QED
    BY <2>1, <2>2
<1> HIDE DEF l, z
<1>10. QED
  BY SMTT(30), <1>4, <1>5, <1>7, <1>8, <1>9

\* What is read after the head.
Coded(r) ==
    IF r.coding = "chunked"
    THEN FlattenSeq([i \in 1..Len(r.chunks) |-> Chunk(r, r.chunks[i])]) \o Size(r, 0) \o Crlf
    ELSE Content(r)

\* The last chunk lies behind p, and ends the text w.
LastAt(w, r, p) ==
    /\ SizeAt(w, p, r.zeros, 0) /\ \A j \in 1..r.zeros + 1 : w[p + j] = "0"
    /\ CrlfAt(w, p + r.zeros + 3) /\ Len(w) = p + r.zeros + 5

LEMMA CodedShape ==
    ASSUME NEW r, ReplyOK(r), r.coding = "chunked"
    PROVE  /\ Coded(r) \in Seq(Byte)
           /\ \E e : Laid(Coded(r), r, e) /\ LastAt(Coded(r), r, e[Len(r.chunks)])
<1> DEFINE x == [i \in 1..Len(r.chunks) |-> Chunk(r, r.chunks[i])]
           p == FlattenSeq(x)
           s == Size(r, 0)
           z == r.zeros
           n == Len(r.chunks)
<1>1. p \in Seq(Byte)
  BY ChunksLaid
<1>2. PICK e : Laid(p, r, e) /\ e[n] = Len(p)
  BY ChunksLaid
<1>3. z \in Nat
  BY DEF ReplyOK
<1>4. /\ s \in Seq(Byte) /\ Len(s) = z + 3 /\ SizeAt(s, 0, z, 0)
      /\ \A j \in 1..z + 1 : s[j] = "0"
  <2>1. Z(r, 0) = z /\ 0 \in Nat
    BY <1>3, ZIs
  <2>2. QED
    BY <1>3, <2>1, SizeIs
<1> DEFINE t == p \o s
           w == t \o Crlf
<1>5. Coded(r) = w
  BY DEF Coded
<1> HIDE DEF x, p, s
<1>6. /\ t \in Seq(Byte) /\ Len(t) = Len(p) + z + 3
      /\ \A i \in 1..Len(p) : t[i] = p[i]
      /\ \A i \in 1..z + 3 : t[Len(p) + i] = s[i]
  <2>1. /\ t \in Seq(Byte) /\ Len(t) = Len(p) + Len(s)
        /\ \A i \in 1..Len(p) : t[i] = p[i]
        /\ \A i \in 1..Len(s) : t[Len(p) + i] = s[i]
    BY <1>1, <1>4, ConcatAt
  <2>2. Len(p) \in Nat
    BY <1>1
  <2>3. QED
    BY <1>3, <1>4, <2>1, <2>2
<1> HIDE DEF t
<1>7. Len(p) \in Nat /\ Len(p) + z + 3 \in Nat
  BY <1>1, <1>3
<1>8. /\ w \in Seq(Byte) /\ Len(w) = Len(p) + z + 3 + 2
      /\ \A i \in 1..Len(p) + z + 3 : w[i] = t[i]
      /\ CrlfAt(w, Len(p) + z + 3)
  BY <1>6, <1>7, CrlfBehind
<1> HIDE DEF w
<1>9. SizeAt(w, Len(p), z, 0)
  <2>1. ASSUME NEW j \in 1..z + 3
        PROVE  w[Len(p) + j] = s[0 + j]
    <3>1. 0 + j = j /\ Len(p) + j \in 1..Len(p) + z + 3
      BY <1>3, <1>7
    <3>2. w[Len(p) + j] = t[Len(p) + j]
      BY <1>8, <3>1
    <3>3. QED
      BY <1>6, <3>1, <3>2
  <2>2. QED
    BY <1>3, <1>4, <1>7, <2>1, SizeMoves
<1>10. LastAt(w, r, e[n])
  <2>1. Len(w) = Len(p) + z + 5
    BY <1>3, <1>7, <1>8
  <2>2. \A j \in 1..z + 1 : w[Len(p) + j] = "0"
    <3>1. ASSUME NEW j \in 1..z + 1
          PROVE  w[Len(p) + j] = "0"
      <4>1. j \in 1..z + 3 /\ Len(p) + j \in 1..Len(p) + z + 3
        BY <1>3, <1>7
      <4>2. w[Len(p) + j] = t[Len(p) + j] /\ t[Len(p) + j] = s[j]
        BY <1>6, <1>8, <4>1
      <4>3. QED
        BY <1>4, <4>2
    <3>2. QED
      BY <3>1
  <2>3. QED
    BY <1>2, <1>8, <1>9, <2>1, <2>2 DEF LastAt
<1>11. ASSUME NEW k \in 1..n
       PROVE  ChunkAt(w, e[k - 1], Z(r, Len(r.chunks[k])), r.chunks[k])
  <2> DEFINE q == e[k - 1]
             d == r.chunks[k]
             y == Z(r, Len(d))
  <2>1. /\ q \in Nat /\ y \in Nat /\ d \in Seq(Byte) /\ e[k] = q + y + Len(d) + 5 /\ e[k] \in Nat
        /\ ChunkAt(p, q, y, d)
    <3>1. /\ d \in Seq(Byte) /\ y \in Nat /\ e[k - 1] \in Nat /\ e[k] \in Nat
          /\ e[k] = e[k - 1] + Z(r, Len(r.chunks[k])) + Len(r.chunks[k]) + 5
          /\ ChunkAt(p, e[k - 1], Z(r, Len(r.chunks[k])), r.chunks[k])
      BY <1>2, LaidTypes
    <3>2. QED
      BY <3>1
  <2>2. e[k] <= e[n]
    <3>1. k \in 0..n
      OBVIOUS
    <3>2. QED
      BY <1>2, <3>1, LaidGrows
  <2> HIDE DEF q, y, d
  <2>3. Len(d) \in Nat
    BY <2>1
  <2>4. ASSUME NEW j \in 1..y + Len(d) + 5
        PROVE  w[q + j] = p[q + j]
    <3>0. e[k] <= Len(p)
      BY <1>2, <2>2
    <3>1. q + j \in 1..Len(p) /\ q + j \in 1..Len(p) + z + 3
      <4>1. \A a, b, l, i \in Nat : a = q + y + l + 5 /\ a <= b /\ j \in 1..y + l + 5 =>
              q + j \in 1..b /\ q + j \in 1..b + i + 3
        BY <2>1
      <4>2. QED
        BY <1>3, <1>7, <2>1, <2>3, <3>0, <4>1
    <3>2. QED
      BY <1>6, <1>8, <3>1
  <2>5. ChunkAt(w, q, y, d)
    BY <1>3, <2>1, <2>3, <2>4, ChunkMoves
  <2>6. QED
    BY <2>5 DEF q, y, d
<1>12. Laid(w, r, e)
  BY <1>2, <1>11 DEF Laid
<1>13. QED
  BY <1>5, <1>8, <1>10, <1>12

-----------------------------------------------------------------------------
(* What is looked for in the text.                                           *)

LEMMA SubSeqIs ==
    ASSUME NEW s \in Seq(Byte), NEW i \in 1..Len(s), NEW l \in 0..Len(s), i + l - 1 <= Len(s)
    PROVE  /\ SubSeq(s, i, i + l - 1) \in Seq(Byte) /\ Len(SubSeq(s, i, i + l - 1)) = l
           /\ \A j \in 1..l : SubSeq(s, i, i + l - 1)[j] = s[i + j - 1]
OBVIOUS

LEMMA BytesOf ==
    ASSUME NEW s \in Seq(Byte), NEW n \in Nat, Len(s) = n
    PROVE  s \in [1..n -> Byte]
OBVIOUS

LEMMA HoldsCrlf ==
    ASSUME NEW s \in Seq(Byte), NEW i \in 1..Len(s) - 1
    PROVE  Holds(s, i, Crlf) <=> s[i] = CR /\ s[i + 1] = LF
<1> DEFINE t == SubSeq(s, i, i + 2 - 1)
<1>1. i \in 1..Len(s) /\ 2 \in 0..Len(s) /\ i + 2 - 1 <= Len(s) /\ i \in Nat
  OBVIOUS
<1>2. t \in Seq(Byte) /\ Len(t) = 2 /\ \A j \in 1..2 : t[j] = s[i + j - 1]
  BY <1>1, SubSeqIs
<1>3. Holds(s, i, Crlf) <=> t = Crlf
  BY CrlfIs DEF Holds
<1> HIDE DEF t
<1>4. 1 \in 1..2 /\ 2 \in 1..2 /\ i + 1 - 1 = i /\ i + 2 - 1 = i + 1
  BY <1>1
<1>5. t[1] = s[i] /\ t[2] = s[i + 1]
  BY <1>2, <1>4
<1>6. t = Crlf <=> t[1] = Crlf[1] /\ t[2] = Crlf[2]
  <2>1. Crlf \in [1..2 -> Byte] /\ t \in [1..2 -> Byte]
    BY <1>2, CrlfIs, BytesOf
  <2>2. \A j \in 1..2 : j = 1 \/ j = 2
    OBVIOUS
  <2>3. QED
    BY <2>1, <2>2
<1>7. QED
  BY <1>3, <1>5, <1>6, CrlfIs

LEMMA EmptyLineIs ==
    /\ Crlf \o Crlf \in Seq(Byte) /\ Len(Crlf \o Crlf) = 4
    /\ (Crlf \o Crlf)[1] = CR /\ (Crlf \o Crlf)[2] = LF
    /\ (Crlf \o Crlf)[3] = CR /\ (Crlf \o Crlf)[4] = LF
<1> DEFINE c == Crlf
<1>1. /\ c \o Crlf \in Seq(Byte) /\ Len(c \o Crlf) = 2 + 2
      /\ \A i \in 1..2 : (c \o Crlf)[i] = c[i]
      /\ CrlfAt(c \o Crlf, 2)
  BY CrlfIs, CrlfBehind
<1>2. 1 \in 1..2 /\ 2 \in 1..2
  OBVIOUS
<1>3. (c \o Crlf)[1] = CR /\ (c \o Crlf)[2] = LF
  BY <1>1, <1>2, CrlfIs
<1>4. (c \o Crlf)[3] = CR /\ (c \o Crlf)[4] = LF
  BY <1>1 DEF CrlfAt
<1>5. QED
  BY <1>1, <1>3, <1>4

LEMMA HoldsEmptyLine ==
    ASSUME NEW s \in Seq(Byte), NEW i \in 1..Len(s) - 3
    PROVE  Holds(s, i, Crlf \o Crlf) <=>
             s[i] = CR /\ s[i + 1] = LF /\ s[i + 2] = CR /\ s[i + 3] = LF
<1> DEFINE t == SubSeq(s, i, i + 4 - 1)
           e == Crlf \o Crlf
<1>1. i \in 1..Len(s) /\ 4 \in 0..Len(s) /\ i + 4 - 1 <= Len(s) /\ i \in Nat
  OBVIOUS
<1>2. t \in Seq(Byte) /\ Len(t) = 4 /\ \A j \in 1..4 : t[j] = s[i + j - 1]
  BY <1>1, SubSeqIs
<1>3. Holds(s, i, e) <=> t = e
  BY EmptyLineIs DEF Holds
<1>4. e \in Seq(Byte) /\ Len(e) = 4 /\ e[1] = CR /\ e[2] = LF /\ e[3] = CR /\ e[4] = LF
  BY EmptyLineIs
<1> HIDE DEF t, e
<1>5. /\ 1 \in 1..4 /\ 2 \in 1..4 /\ 3 \in 1..4 /\ 4 \in 1..4
      /\ i + 1 - 1 = i /\ i + 2 - 1 = i + 1 /\ i + 3 - 1 = i + 2 /\ i + 4 - 1 = i + 3
  BY <1>1
<1>6. t[1] = s[i] /\ t[2] = s[i + 1] /\ t[3] = s[i + 2] /\ t[4] = s[i + 3]
  BY <1>2, <1>5
<1>7. t = e <=> t[1] = e[1] /\ t[2] = e[2] /\ t[3] = e[3] /\ t[4] = e[4]
  <2>1. e \in [1..4 -> Byte] /\ t \in [1..4 -> Byte]
    BY <1>2, <1>4, BytesOf
  <2>2. \A j \in 1..4 : j = 1 \/ j = 2 \/ j = 3 \/ j = 4
    OBVIOUS
  <2>3. QED
    BY <2>1, <2>2
<1>8. QED
  BY <1>3, <1>4, <1>6, <1>7 DEF e

LEMMA FoundCrlf ==
    ASSUME NEW s \in Seq(Byte), NEW i \in Nat \ {0}, NEW j
    PROVE  j \in Found(s, Crlf, i) <=> j \in i..Len(s) - 1 /\ s[j] = CR /\ s[j + 1] = LF
<1>1. Len(s) \in Nat /\ Len(Crlf) = 2
  BY CrlfIs
<1>2. j \in Found(s, Crlf, i) <=> j \in i..Len(s) - 2 + 1 /\ Holds(s, j, Crlf)
  BY <1>1 DEF Found
<1>3. j \in i..Len(s) - 2 + 1 <=> j \in i..Len(s) - 1
  BY <1>1
<1>4. j \in i..Len(s) - 1 => j \in 1..Len(s) - 1
  BY <1>1
<1>5. QED
  BY <1>2, <1>3, <1>4, HoldsCrlf

LEMMA FoundEmptyLine ==
    ASSUME NEW s \in Seq(Byte), NEW i \in Nat \ {0}, NEW j
    PROVE  j \in Found(s, Crlf \o Crlf, i) <=>
             /\ j \in i..Len(s) - 3
             /\ s[j] = CR /\ s[j + 1] = LF /\ s[j + 2] = CR /\ s[j + 3] = LF
<1> DEFINE e == Crlf \o Crlf
<1>1. Len(s) \in Nat /\ Len(e) = 4
  BY EmptyLineIs
<1>2. j \in Found(s, e, i) <=> j \in i..Len(s) - 4 + 1 /\ Holds(s, j, e)
  <2> HIDE DEF e
  <2>1. QED
    BY <1>1 DEF Found
<1>3. j \in i..Len(s) - 4 + 1 <=> j \in i..Len(s) - 3
  BY <1>1
<1>4. j \in i..Len(s) - 3 => j \in 1..Len(s) - 3
  BY <1>1
<1>5. j \in 1..Len(s) - 3 =>
        (Holds(s, j, e) <=> s[j] = CR /\ s[j + 1] = LF /\ s[j + 2] = CR /\ s[j + 3] = LF)
  BY HoldsEmptyLine
<1> HIDE DEF e
<1>6. QED
  BY <1>2, <1>3, <1>4, <1>5 DEF e

-----------------------------------------------------------------------------
(* check_end sees the end of the reply, and nothing before it.               *)

\* An empty line behind zeros on a line, which ends at the byte h of w.
EndAt(w, h) ==
    /\ w[h - 3] = CR /\ w[h - 2] = LF /\ w[h - 1] = CR /\ w[h] = LF
    /\ \E i \in 3..h - 4 : /\ w[i - 2] = CR /\ w[i - 1] = LF
                           /\ \A j \in i..h - 4 : w[j] = "0"

LEMMA EndedIs ==
    ASSUME reply.coding = "chunked", body \in Seq(Byte)
    PROVE  Ended <=> Len(body) >= 7 /\ EndAt(body, Len(body))
<1> DEFINE h == Len(body)
           e == Crlf \o Crlf
<1>1. h \in Nat
  OBVIOUS
<1>2. Ended <=> /\ h >= 7 /\ Holds(body, h - 3, e)
                /\ \E i \in 3..(h - 4) :
                     /\ Holds(body, i - 2, Crlf)
                     /\ \A j \in i..(h - 4) : body[j] = "0"
  BY DEF Ended
<1>3. CASE h >= 7
  <2>1. /\ h - 3 \in 1..h - 3 /\ h - 3 + 1 = h - 2 /\ h - 3 + 2 = h - 1 /\ h - 3 + 3 = h
    BY <1>1, <1>3
  <2>2. Holds(body, h - 3, e) <=>
          body[h - 3] = CR /\ body[h - 3 + 1] = LF /\ body[h - 3 + 2] = CR /\ body[h - 3 + 3] = LF
    BY <2>1, HoldsEmptyLine
  <2>3. ASSUME NEW i \in 3..h - 4
        PROVE  Holds(body, i - 2, Crlf) <=> body[i - 2] = CR /\ body[i - 1] = LF
    <3>1. i - 2 \in 1..h - 1 /\ i - 2 + 1 = i - 1
      BY <1>1
    <3>2. QED
      BY <3>1, HoldsCrlf
  <2> HIDE DEF h, e
  <2>4. Holds(body, h - 3, e) <=>
          body[h - 3] = CR /\ body[h - 2] = LF /\ body[h - 1] = CR /\ body[h] = LF
    BY <2>1, <2>2
  <2>5. Ended <=> EndAt(body, h)
    BY <1>2, <1>3, <2>3, <2>4 DEF EndAt
  <2>6. QED
    BY <1>3, <2>5 DEF h
<1>4. CASE ~(h >= 7)
  BY <1>2, <1>4
<1>5. QED
  BY <1>3, <1>4

LEMMA ContentIs ==
    ASSUME NEW r, ReplyOK(r)
    PROVE  Content(r) \in Seq(Byte) /\ (r.chunks = <<>> => Len(Content(r)) = 0)
<1> DEFINE d == r.chunks
<1>1. d \in Seq(Seq(Byte)) /\ Len(d) \in Nat
  BY DEF ReplyOK
<1>2. CASE Len(d) = 0
  <2>1. d = <<>> /\ FlattenSeq(d) = d
    BY <1>1, <1>2 DEF FlattenSeq
  <2>2. Content(r) = <<>>
    BY <2>1 DEF Content
  <2>3. <<>> \in Seq(Byte) /\ Len(<<>>) = 0
    OBVIOUS
  <2>4. QED
    BY <2>2, <2>3
<1>3. CASE Len(d) > 0
  <2>1. PICK f \in [1..Len(d) -> Seq(Byte)] : FlattenSeq(d) = f[Len(d)]
    BY <1>1, <1>3, FlattenIs
  <2>2. Len(d) \in 1..Len(d) /\ d # <<>>
    BY <1>1, <1>3
  <2>3. QED
    BY <2>1, <2>2 DEF Content
<1>4. QED
  BY <1>1, <1>2, <1>3

\* The chunk in which a byte lies.
LEMMA ChunkOf ==
    ASSUME NEW w, NEW r, ReplyOK(r), r.coding = "chunked", NEW e, Laid(w, r, e),
           NEW h \in 1..e[Len(r.chunks)]
    PROVE  \E k \in 1..Len(r.chunks) : e[k - 1] < h /\ h <= e[k]
<1> DEFINE n == Len(r.chunks)
           T == {k \in 1..n : h <= e[k]}
<1>1. n \in Nat
  BY LaidTypes
<1>2. e[0] = 0
  BY DEF Laid
<1>3. \A k \in 1..n : e[k - 1] \in Nat /\ e[k] \in Nat
  BY LaidTypes
<1>4. n # 0
  BY <1>2
<1>5. n \in T
  <2>1. n \in 1..n /\ e[n] \in Nat
    BY <1>1, <1>3, <1>4
  <2>2. h <= e[n]
    BY <2>1
  <2>3. QED
    BY <2>1, <2>2
<1>6. PICK k \in T : \A i \in T : k <= i
  <2>1. T \in SUBSET Nat
    OBVIOUS
  <2> HIDE DEF T
  <2>2. QED
    BY <1>5, <2>1, LeastOf
<1>7. k \in 1..n /\ h <= e[k] /\ e[k - 1] \in Nat
  BY <1>3
<1>8. h \in Nat /\ h > 0
  <2>1. n \in 1..n
    BY <1>1, <1>4
  <2>2. e[n] \in Nat
    BY <1>3, <2>1
  <2>3. QED
    BY <2>2
<1>9. e[k - 1] < h
  <2>1. CASE k = 1
    <3>1. k - 1 = 0
      BY <2>1
    <3>2. QED
      BY <1>2, <1>8, <3>1
  <2>2. CASE k # 1
    <3>1. k - 1 \in 1..n /\ ~ (k <= k - 1)
      BY <1>1, <1>7, <2>2
    <3>2. k - 1 \notin T
      BY <1>6, <3>1
    <3>3. ~ (h <= e[k - 1])
      BY <3>1, <3>2
    <3>4. QED
      BY <1>7, <1>8, <3>3
  <2>3. QED
    BY <2>1, <2>2
<1>10. QED
  BY <1>7, <1>9

\* A chunk in which the end of a reply seems to lie holds a line of zeros.
LEMMA EndInChunk ==
    ASSUME NEW w, NEW d \in Seq(Byte), Len(d) # 0, NEW z \in Nat, NEW q \in Nat,
           ChunkAt(w, q, z, d),
           NEW h \in q + 1..q + z + Len(d) + 5, EndAt(w, h)
    PROVE  ZeroLine(d)
<1> DEFINE n == Len(d)
           D == q + z + 1
<1>1. /\ \A j \in 1..z + 1 : w[q + j] # CR /\ w[q + j] # LF
      /\ \E j \in 1..z + 1 : w[q + j] # "0"
      /\ w[D + 1] = CR /\ w[D + 2] = LF
      /\ \A j \in 1..n : w[D + 2 + j] = d[j]
      /\ w[D + n + 3] = CR /\ w[D + n + 4] = LF
  <2>1. SizeAt(w, q, z, n) /\ CrlfAt(w, q + z + 3 + n) /\ \A j \in 1..n : w[q + z + 3 + j] = d[j]
    BY DEF ChunkAt
  <2>2. n \in Nat /\ q + z + 3 = D + 2 /\ D \in Nat
    OBVIOUS
  <2>3. q + z + 3 + n + 1 = D + n + 3 /\ q + z + 3 + n + 2 = D + n + 4
    BY <2>2
  <2>4. \A j \in 1..n : w[D + 2 + j] = d[j]
    BY <2>1, <2>2
  <2>5. CrlfAt(w, D)
    BY <2>1 DEF SizeAt
  <2> HIDE DEF D, n
  <2>6. w[D + n + 3] = CR /\ w[D + n + 4] = LF
    BY <2>1, <2>3 DEF CrlfAt
  <2>7. PICK t : Numeral(t, n) /\ Len(t) = z + 1 /\ \A j \in 1..z + 1 : w[q + j] = t[j]
    BY <2>1 DEF SizeAt
  <2>8. n # 0
    BY DEF n
  <2>9. (\A j \in 1..z + 1 : t[j] # CR /\ t[j] # LF) /\ \E j \in 1..z + 1 : t[j] # "0"
    BY <2>7, <2>8, NumeralIs
  <2>10. QED
    BY <2>4, <2>5, <2>6, <2>7, <2>9 DEF CrlfAt
<1>2. /\ w[h - 3] = CR /\ w[h - 2] = LF /\ w[h - 1] = CR /\ w[h] = LF
  BY DEF EndAt
<1>3. PICK i \in 3..h - 4 : /\ w[i - 2] = CR /\ w[i - 1] = LF
                            /\ \A j \in i..h - 4 : w[j] = "0"
  BY DEF EndAt
<1>4. D \in Nat /\ h \in Nat /\ i \in Nat /\ n \in Nat /\ h <= D + n + 4
      /\ 3 <= i /\ i <= h - 4 /\ q < h /\ D = q + z + 1
  OBVIOUS
<1> HIDE DEF D, n
<1>5. CR # LF
  BY SizesAreNoLines
<1>6. h > D
  <2>1. SUFFICES ASSUME h <= D PROVE FALSE
    BY <1>4
  <2>2. h - q \in 1..z + 1 /\ q + (h - q) = h
    BY <1>4, <2>1
  <2>3. w[h] # LF
    BY <1>1, <2>2
  <2>4. QED
    BY <1>2, <2>3
<1>7. i - 2 > D
  <2>1. SUFFICES ASSUME i - 2 <= D PROVE FALSE
    BY <1>4
  <2>2. i <= q + 1
    <3>1. SUFFICES ASSUME i > q + 1 PROVE FALSE
      BY <1>4
    <3>2. CASE i = D + 2
      <4>1. i - 1 = D + 1
        BY <1>4, <3>2
      <4>2. QED
        BY <1>1, <1>3, <1>5, <4>1
    <3>3. CASE i # D + 2
      <4>1. i - 1 - q \in 1..z + 1 /\ q + (i - 1 - q) = i - 1
        BY <1>4, <2>1, <3>1, <3>3
      <4>2. w[i - 1] # LF
        BY <1>1, <4>1
      <4>3. QED
        BY <1>3, <4>2
    <3>4. QED
      BY <3>2, <3>3
  <2>3. ASSUME NEW j \in 1..z + 1
        PROVE  w[q + j] = "0"
    <3>1. \/ q + j \in i..h - 4 \/ q + j = h - 3 \/ q + j = h - 2 \/ q + j = h - 1
      BY <1>4, <1>6, <2>2
    <3>2. w[q + j] # CR /\ w[q + j] # LF
      BY <1>1
    <3>3. QED
      BY <1>2, <1>3, <3>1, <3>2
  <2>4. QED
    BY <1>1, <2>3
<1> DEFINE c == Crlf \o d
           s == c \o Crlf
<1>8. /\ c \in Seq(Byte) /\ Len(c) = n + 2 /\ c[1] = CR /\ c[2] = LF
      /\ \A j \in 1..n : c[2 + j] = d[j]
  <2>1. /\ c \in Seq(Byte) /\ Len(c) = Len(Crlf) + Len(d)
        /\ \A j \in 1..Len(Crlf) : c[j] = Crlf[j]
        /\ \A j \in 1..Len(d) : c[Len(Crlf) + j] = d[j]
    BY CrlfIs, ConcatAt
  <2>2. 1 \in 1..2 /\ 2 \in 1..2
    OBVIOUS
  <2> HIDE DEF c
  <2>3. QED
    BY <1>4, <2>1, <2>2, CrlfIs DEF n
<1> HIDE DEF c
<1>9. /\ s \in Seq(Byte) /\ Len(s) = n + 4
      /\ \A j \in 1..n + 2 : s[j] = c[j]
      /\ s[n + 3] = CR /\ s[n + 4] = LF
  <2>1. n + 2 \in Nat
    BY <1>4
  <2>2. /\ s \in Seq(Byte) /\ Len(s) = n + 2 + 2
        /\ \A j \in 1..n + 2 : s[j] = c[j]
        /\ CrlfAt(s, n + 2)
    BY <1>8, <2>1, CrlfBehind
  <2> HIDE DEF s
  <2>3. n + 2 + 1 = n + 3 /\ n + 2 + 2 = n + 4
    BY <1>4
  <2>4. QED
    BY <2>2, <2>3 DEF CrlfAt
<1>10. ZeroLine(d) <=> \E a \in Found(s, Crlf, 1), b \in Found(s, Crlf \o Crlf, 1) :
                         a + 2 < b /\ \A k \in (a + 2)..(b - 1) : s[k] = "0"
  BY DEF ZeroLine, c
<1> HIDE DEF s
<1>11. ASSUME NEW j \in D + 1..D + n + 4
       PROVE  w[j] = s[j - D] /\ j - D \in 1..n + 4
  <2>1. j - D \in 1..n + 4 /\ D + (j - D) = j
    BY <1>4
  <2>2. CASE j = D + 1 \/ j = D + 2
    <3>1. /\ (j = D + 1 => j - D = 1) /\ (j = D + 2 => j - D = 2)
          /\ 1 \in 1..n + 2 /\ 2 \in 1..n + 2
      BY <1>4
    <3>2. s[1] = CR /\ s[2] = LF
      BY <1>8, <1>9, <3>1
    <3>3. QED
      BY <1>1, <2>1, <2>2, <3>1, <3>2
  <2>3. CASE j = D + n + 3 \/ j = D + n + 4
    <3>1. (j = D + n + 3 => j - D = n + 3) /\ (j = D + n + 4 => j - D = n + 4)
      BY <1>4
    <3>2. QED
      BY <1>1, <1>9, <2>1, <2>3, <3>1
  <2>4. CASE j \in D + 3..D + n + 2
    <3>1. PICK k \in 1..n : k = j - D - 2 /\ 2 + k = j - D /\ D + 2 + k = j /\ j - D \in 1..n + 2
      <4>1. j - D - 2 \in 1..n /\ 2 + (j - D - 2) = j - D /\ D + 2 + (j - D - 2) = j
            /\ j - D \in 1..n + 2
        BY <1>4, <2>4
      <4>2. QED
        BY <4>1
    <3>2. w[D + 2 + k] = d[k] /\ c[2 + k] = d[k] /\ s[j - D] = c[j - D]
      BY <1>1, <1>8, <1>9, <3>1
    <3>3. QED
      BY <2>1, <3>1, <3>2
  <2>5. QED
    BY <1>4, <2>2, <2>3, <2>4
<1>12. PICK a \in 1..n + 4 : a = i - 2 - D
  BY <1>3, <1>4, <1>6, <1>7
<1>13. PICK b \in 1..n + 4 : b = h - 3 - D
  BY <1>3, <1>4, <1>6, <1>7
<1>14. a \in Found(s, Crlf, 1)
  <2>1. /\ i - 2 \in D + 1..D + n + 4 /\ i - 1 \in D + 1..D + n + 4
        /\ i - 2 - D = a /\ i - 1 - D = a + 1 /\ a \in 1..n + 3
    BY <1>3, <1>4, <1>7, <1>12
  <2>2. s[a] = CR /\ s[a + 1] = LF
    BY <1>3, <1>11, <2>1
  <2>3. a \in 1..Len(s) - 1
    BY <1>4, <1>9, <2>1
  <2>4. 1 \in Nat \ {0}
    OBVIOUS
  <2>5. QED
    BY <1>9, <2>2, <2>3, <2>4, FoundCrlf
<1>15. b \in Found(s, Crlf \o Crlf, 1)
  <2>1. /\ h - 3 \in D + 1..D + n + 4 /\ h - 2 \in D + 1..D + n + 4
        /\ h - 1 \in D + 1..D + n + 4 /\ h \in D + 1..D + n + 4
        /\ h - 3 - D = b /\ h - 2 - D = b + 1 /\ h - 1 - D = b + 2 /\ h - D = b + 3
        /\ b \in 1..n + 1
    BY <1>3, <1>4, <1>7, <1>13
  <2>2. w[h - 3] = s[b] /\ w[h - 2] = s[b + 1] /\ w[h - 1] = s[b + 2] /\ w[h] = s[b + 3]
    BY <1>11, <2>1
  <2>3. b \in 1..Len(s) - 3
    BY <1>4, <1>9, <2>1
  <2>4. 1 \in Nat \ {0}
    OBVIOUS
  <2>5. QED
    BY <1>2, <1>9, <2>2, <2>3, <2>4, FoundEmptyLine
<1>16. a + 2 < b
  BY <1>4, <1>12, <1>13
<1>17. ASSUME NEW k \in (a + 2)..(b - 1)
       PROVE  s[k] = "0"
  <2>1. PICK j \in i..h - 4 : j = k + D /\ j - D = k /\ j \in D + 1..D + n + 4
    <3>1. k \in Int /\ k + D \in i..h - 4 /\ k + D - D = k /\ k + D \in D + 1..D + n + 4
      BY <1>3, <1>4, <1>7, <1>12, <1>13
    <3>2. QED
      BY <1>4, <3>1
  <2>2. QED
    BY <1>3, <1>11, <2>1
<1>18. QED
  BY <1>10, <1>14, <1>15, <1>16, <1>17

LEMMA LaidLast ==
    ASSUME NEW w, NEW r, ReplyOK(r), r.coding = "chunked", NEW e, Laid(w, r, e),
           Len(r.chunks) # 0
    PROVE  LET n == Len(r.chunks)
               l == Len(r.chunks[n])
               y == Z(r, l)
           IN  /\ r.zeros \in Nat /\ e[n] \in Nat /\ e[n - 1] \in Nat /\ l \in Nat /\ y \in Nat
               /\ e[n] = e[n - 1] + y + l + 5
               /\ ChunkAt(w, e[n - 1], y, r.chunks[n])
<1>1. Len(r.chunks) \in 1..Len(r.chunks)
  BY DEF ReplyOK
<1>2. /\ Len(r.chunks) \in Nat /\ r.zeros \in Nat
      /\ \A k \in 0..Len(r.chunks) : e[k] \in Nat
      /\ \A k \in 1..Len(r.chunks) :
           /\ r.chunks[k] \in Seq(Byte) /\ Len(r.chunks[k]) \in Nat \ {0}
           /\ Z(r, Len(r.chunks[k])) \in Nat
           /\ k - 1 \in 0..Len(r.chunks) /\ e[k - 1] \in Nat /\ e[k] \in Nat
           /\ e[k] = e[k - 1] + Z(r, Len(r.chunks[k])) + Len(r.chunks[k]) + 5
           /\ ChunkAt(w, e[k - 1], Z(r, Len(r.chunks[k])), r.chunks[k])
  BY LaidTypes
<1>3. QED
  BY <1>1, <1>2

LEMMA WholeIsEnded ==
    ASSUME ReplyOK(reply), Recognised(reply), body = Coded(reply)
    PROVE  Ended
<1> DEFINE n == Len(reply.chunks)
           z == reply.zeros
<1>1. CASE reply.coding # "chunked"
  <2>1. body = Content(reply) /\ (reply.coding = "none" => Len(Content(reply)) = 0)
        /\ reply.coding \in {"length", "none"}
    BY <1>1, ContentIs DEF Coded, ReplyOK
  <2>2. QED
    BY <1>1, <2>1 DEF Ended, Declared
<1>2. CASE reply.coding = "chunked"
  <2>1. body \in Seq(Byte)
    BY <1>2, CodedShape
  <2>2. PICK e : Laid(body, reply, e) /\ LastAt(body, reply, e[n])
    BY <1>2, CodedShape
  <2>3. n \in Nat /\ n # 0
    BY <1>2 DEF ReplyOK, Recognised
  <2>4. n \in 1..n
    BY <2>3
  <2> DEFINE p == e[n]
             q == e[n - 1]
             l == Len(reply.chunks[n])
             y == Z(reply, l)
             h == Len(body)
  <2>5. /\ z \in Nat /\ p \in Nat /\ q \in Nat /\ l \in Nat /\ y \in Nat /\ p = q + y + l + 5
        /\ ChunkAt(body, q, y, reply.chunks[n])
    BY <1>2, <2>2, <2>3, LaidLast
  <2>6. /\ h = p + z + 5 /\ SizeAt(body, p, z, 0) /\ CrlfAt(body, p + z + 3)
        /\ \A j \in 1..z + 1 : body[p + j] = "0"
    BY <2>2 DEF LastAt
  <2>7. CrlfAt(body, q + y + 3 + l)
    BY <2>5 DEF ChunkAt
  <2> HIDE DEF p, q, l, h, z, y
  <2>8. /\ h - 3 = p + z + 2 /\ h - 2 = p + z + 3 /\ h - 1 = p + z + 4 /\ h = p + z + 5
        /\ p + z + 3 + 1 = p + z + 4 /\ p + z + 3 + 2 = p + z + 5
        /\ p + z + 1 + 1 = p + z + 2 /\ p + z + 1 + 2 = p + z + 3
        /\ q + y + 3 + l + 1 = p - 1 /\ q + y + 3 + l + 2 = p
        /\ h >= 7 /\ h - 4 = p + z + 1 /\ p >= 5
    BY <2>5, <2>6
  <2>9. /\ body[h - 3] = CR /\ body[h - 2] = LF /\ body[h - 1] = CR /\ body[h] = LF
        /\ body[p - 1] = CR /\ body[p] = LF
    <3>1. CrlfAt(body, p + z + 1)
      BY <2>6 DEF SizeAt
    <3>2. QED
      BY <2>6, <2>7, <2>8, <3>1 DEF CrlfAt
  <2>10. ASSUME NEW j \in p + 1..h - 4
         PROVE  body[j] = "0"
    <3>1. j - p \in 1..z + 1 /\ p + (j - p) = j
      BY <2>5, <2>8
    <3>2. QED
      BY <2>6, <3>1
  <2>11. PICK i \in 3..h - 4 : i = p + 1 /\ i - 2 = p - 1 /\ i - 1 = p
    BY <2>5, <2>8
  <2>12. EndAt(body, h)
    <3>1. body[i - 2] = CR /\ body[i - 1] = LF /\ \A j \in i..h - 4 : body[j] = "0"
      BY <2>9, <2>10, <2>11
    <3>2. QED
      BY <2>9, <3>1 DEF EndAt
  <2>13. QED
    BY <1>2, <2>1, <2>8, <2>12, EndedIs DEF h
<1>3. QED
  BY <1>1, <1>2

\* A text that has come, and the text it is the beginning of.
LEMMA BeginsWith ==
    ASSUME NEW a \in Seq(Byte), NEW b \in Seq(Byte)
    PROVE  /\ Len(a) \in Nat /\ Len(b) \in Nat /\ Len(a \o b) = Len(a) + Len(b)
           /\ \A j \in 1..Len(a) : a[j] = (a \o b)[j]
           /\ Len(a) = Len(a \o b) => b = <<>> /\ a = a \o b
<1>1. Len(a) \in Nat /\ Len(b) \in Nat /\ Len(a \o b) = Len(a) + Len(b)
  OBVIOUS
<1>2. \A j \in 1..Len(a) : a[j] = (a \o b)[j]
  BY ConcatAt
<1>3. ASSUME Len(a) = Len(a \o b)
      PROVE  b = <<>> /\ a = a \o b
  <2>1. Len(b) = 0
    BY <1>1, <1>3
  <2>2. b = <<>>
    BY <2>1
  <2>3. a \o <<>> = a
    OBVIOUS
  <2>4. QED
    BY <2>2, <2>3
<1>4. QED
  BY <1>1, <1>2, <1>3

LEMMA EndedIsWhole ==
    ASSUME ReplyOK(reply), body \in Seq(Byte), NEW rest \in Seq(Byte), body \o rest = Coded(reply),
           Ended, ~(reply.coding = "chunked" /\ \E d \in Range(reply.chunks) : ZeroLine(d))
    PROVE  body = Coded(reply)
<1> DEFINE w == Coded(reply)
           h == Len(body)
<1>1. /\ h \in Nat /\ h <= Len(w) /\ (h = Len(w) => body = w)
      /\ \A j \in 1..h : body[j] = w[j]
  <2>1. /\ Len(body) \in Nat /\ Len(rest) \in Nat /\ Len(body \o rest) = Len(body) + Len(rest)
        /\ \A j \in 1..Len(body) : body[j] = (body \o rest)[j]
        /\ Len(body) = Len(body \o rest) => rest = <<>> /\ body = body \o rest
    BY BeginsWith
  <2>2. QED
    BY <2>1
<1>2. CASE reply.coding # "chunked"
  <2>1. w = Content(reply) /\ (reply.coding = "none" => Len(w) = 0)
        /\ reply.coding \in {"length", "none"}
    BY <1>2, ContentIs DEF Coded, ReplyOK
  <2>2. Len(body) = Declared(reply)
    BY <1>2 DEF Ended
  <2>3. Len(body) = Len(w)
    BY <2>1, <2>2 DEF Declared
  <2>4. QED
    BY <1>1, <2>3
<1>3. CASE reply.coding = "chunked"
  <2> DEFINE n == Len(reply.chunks)
             z == reply.zeros
  <2>1. h >= 7 /\ EndAt(body, h)
    BY <1>3, EndedIs
  <2>2. PICK e : Laid(w, reply, e) /\ LastAt(w, reply, e[n])
    BY <1>3, CodedShape
  <2>3. n \in Nat /\ z \in Nat /\ e[n] \in Nat
    <3>1. n \in Nat /\ z \in Nat /\ \A k \in 0..n : e[k] \in Nat
      BY <1>3, <2>2, LaidTypes
    <3>2. n \in 0..n
      BY <3>1
    <3>3. QED
      BY <3>1, <3>2
  <2>4. EndAt(w, h)
    <3>1. PICK i \in 3..h - 4 : /\ body[i - 2] = CR /\ body[i - 1] = LF
                                /\ \A j \in i..h - 4 : body[j] = "0"
      BY <2>1 DEF EndAt
    <3>2. /\ body[h - 3] = CR /\ body[h - 2] = LF /\ body[h - 1] = CR /\ body[h] = LF
      BY <2>1 DEF EndAt
    <3> HIDE DEF w, h
    <3>3. /\ h - 3 \in 1..h /\ h - 2 \in 1..h /\ h - 1 \in 1..h /\ h \in 1..h
          /\ i - 2 \in 1..h /\ i - 1 \in 1..h /\ \A j \in i..h - 4 : j \in 1..h
      BY <1>1, <2>1
    <3>4. w[h - 3] = CR /\ w[h - 2] = LF /\ w[h - 1] = CR /\ w[h] = LF
      BY <1>1, <3>2, <3>3
    <3>5. w[i - 2] = CR /\ w[i - 1] = LF /\ \A j \in i..h - 4 : w[j] = "0"
      BY <1>1, <3>1, <3>3
    <3>6. QED
      BY <3>4, <3>5 DEF EndAt
  <2>5. CASE h <= e[n]
    <3>1. h \in 1..e[n]
      BY <1>1, <2>1, <2>3, <2>5
    <3>2. PICK k \in 1..n : e[k - 1] < h /\ h <= e[k]
      BY <1>3, <2>2, <3>1, ChunkOf
    <3> DEFINE q == e[k - 1]
               d == reply.chunks[k]
               y == Z(reply, Len(d))
    <3>3. /\ d \in Seq(Byte) /\ Len(d) \in Nat \ {0} /\ y \in Nat /\ q \in Nat
          /\ e[k] = q + y + Len(d) + 5 /\ ChunkAt(w, q, y, d)
      BY <1>3, <2>2, LaidTypes
    <3>4. d \in Range(reply.chunks)
      <4>1. DOMAIN reply.chunks = 1..n
        BY DEF ReplyOK
      <4>2. QED
        BY <4>1 DEF Range
    <3>5. q < h /\ h <= e[k]
      BY <3>2
    <3> HIDE DEF q, d, y, z, h, w
    <3>6. h \in q + 1..q + y + Len(d) + 5
      BY <1>1, <2>3, <3>3, <3>5
    <3>7. ZeroLine(d)
      BY <2>3, <2>4, <3>3, <3>6, EndInChunk
    <3>8. QED
      BY <1>3, <3>4, <3>7
  <2>6. CASE h > e[n]
    <3> DEFINE p == e[n]
    <3>1. /\ SizeAt(w, p, z, 0) /\ CrlfAt(w, p + z + 3) /\ Len(w) = p + z + 5
          /\ \A j \in 1..z + 1 : w[p + j] = "0"
      BY <2>2 DEF LastAt
    <3>2. w[h] = LF /\ w[h - 2] = LF
      BY <2>4 DEF EndAt
    <3>3. p \in Nat /\ p < h
      BY <2>3, <2>6
    <3> HIDE DEF p, z, h, w
    <3>4. CR # LF /\ CR # "0" /\ LF # "0" /\ HexDigits[0 + 1] = "0"
      BY SizesAreNoLines
    <3>5. /\ \A j \in 1..z : w[p + j] = "0"
          /\ w[p + z + 1] = "0" /\ w[p + z + 1 + 1] = CR /\ w[p + z + 3 + 1] = CR
      <4>1. CrlfAt(w, p + z + 1)
        BY <3>1 DEF SizeAt
      <4>2. z + 1 \in 1..z + 1 /\ p + (z + 1) = p + z + 1 /\ \A j \in 1..z : j \in 1..z + 1
        BY <2>3, <3>3 DEF z
      <4>3. w[p + (z + 1)] = "0" /\ \A j \in 1..z : w[p + j] = "0"
        BY <3>1, <4>2
      <4>4. QED
        BY <3>1, <4>1, <4>2, <4>3 DEF CrlfAt
    <3>6. \/ h - p \in 1..z \/ h = p + z + 1 \/ h = p + z + 1 + 1
          \/ h - 2 = p + z + 1 \/ h = p + z + 3 + 1 \/ h = p + z + 5
      BY <1>1, <2>3, <3>1, <3>3
    <3>7. CASE h - p \in 1..z
      <4>1. p + (h - p) = h
        BY <1>1, <3>3
      <4>2. w[h] = "0"
        BY <3>5, <3>7, <4>1
      <4>3. QED
        BY <3>2, <3>4, <4>2
    <3>8. CASE h = p + z + 5
      BY <1>1, <3>1, <3>8 DEF h, w
    <3>9. CASE h = p + z + 1 \/ h = p + z + 1 + 1 \/ h - 2 = p + z + 1 \/ h = p + z + 3 + 1
      BY <3>2, <3>4, <3>5, <3>9
    <3>10. QED
      BY <3>6, <3>7, <3>8, <3>9
  <2>7. QED
    BY <1>1, <2>3, <2>5, <2>6
<1>4. QED
  BY <1>2, <1>3

-----------------------------------------------------------------------------
(* ParseBody takes the whole reply apart.                                    *)

\* The steps of ParseBody: a size line that begins at i, and what is behind it.
Right(s, i) == Min(Found(s, Crlf, i))
SizeText(s, i) == SubSeq(s, i, Right(s, i) - 1)
Count(s, i) == Stoi(SizeText(s, i))
Behind(s, i) == AfterData(s, Right(s, i), Count(s, i))
Stops(s, i) ==
    \/ Found(s, Crlf, i) = {} \/ SizeText(s, i) = <<>> \/ ~IsHex(SizeText(s, i)[1])
    \/ Count(s, i) = 0 \/ Behind(s, i) = {}
Taken(s, i) ==
    IF Found(s, Crlf, i) = {} THEN <<>>
    ELSE IF SizeText(s, i) = <<>> \/ ~IsHex(SizeText(s, i)[1]) THEN <<"thrown">>
    ELSE IF Count(s, i) = 0 THEN <<>>
    ELSE [k \in 1..Count(s, i) |->
            IF Right(s, i) + 1 + k <= Len(s) THEN s[Right(s, i) + 1 + k] ELSE Beyond]

\* A recursion that leads only to greater numbers.
LeadsOn(N, stop, a, nx) ==
    DOMAIN a = 1..N /\ \A i \in 1..N : i \notin stop => nx[i] \in i + 1..N
Unfolded(N, stop, a, nx, f) == f = [i \in 1..N |-> IF i \in stop THEN a[i] ELSE a[i] \o f[nx[i]]]

LEMMA UnfoldExists ==
    ASSUME NEW N \in Nat, NEW stop, NEW a, NEW nx, LeadsOn(N, stop, a, nx)
    PROVE  \E f : Unfolded(N, stop, a, nx, f)
<1> DEFINE P(k) == \E f : \A i \in N - k + 1..N :
                     f[i] = IF i \in stop THEN a[i] ELSE a[i] \o f[nx[i]]
           T == {k \in 0..N : ~P(k)}
<1>0. \A i \in 1..N : i \notin stop => nx[i] \in i + 1..N
  BY DEF LeadsOn
<1>1. SUFFICES ASSUME T # {} PROVE FALSE
  <2>1. N \in 0..N /\ N - N + 1 = 1
    OBVIOUS
  <2>2. P(N)
    BY <1>1, <2>1
  <2>3. PICK f : \A i \in 1..N : f[i] = IF i \in stop THEN a[i] ELSE a[i] \o f[nx[i]]
    BY <2>1, <2>2
  <2> DEFINE g == [i \in 1..N |-> f[i]]
  <2>4. ASSUME NEW i \in 1..N
        PROVE  g[i] = IF i \in stop THEN a[i] ELSE a[i] \o g[nx[i]]
    <3>1. i \notin stop => nx[i] \in 1..N
      BY <1>0
    <3>2. QED
      BY <2>3, <3>1
  <2>5. g = [i \in 1..N |-> IF i \in stop THEN a[i] ELSE a[i] \o g[nx[i]]]
    <3>1. g = [i \in 1..N |-> g[i]]
      OBVIOUS
    <3> HIDE DEF g
    <3>2. QED
      BY <2>4, <3>1
  <2>6. QED
    BY <2>5 DEF Unfolded
<1>2. PICK k \in T : \A i \in T : k <= i
  <2>1. T \in SUBSET Nat
    OBVIOUS
  <2> HIDE DEF T
  <2>2. QED
    BY <1>1, <2>1, LeastOf
<1>3. k \in 0..N /\ ~P(k)
  OBVIOUS
<1>4. k # 0
  <2>1. N - 0 + 1..N = {}
    OBVIOUS
  <2>2. P(0)
    BY <2>1
  <2>3. QED
    BY <1>3, <2>2
<1>5. P(k - 1)
  <2>1. k - 1 \in 0..N /\ ~ (k <= k - 1)
    BY <1>3, <1>4
  <2>2. k - 1 \notin T
    BY <1>2, <2>1
  <2>3. QED
    BY <2>1, <2>2
<1> DEFINE m == N - k + 1
<1>6. m \in 1..N /\ N - (k - 1) + 1 = m + 1
  BY <1>3, <1>4
<1>7. PICK f : \A i \in m + 1..N : f[i] = IF i \in stop THEN a[i] ELSE a[i] \o f[nx[i]]
  BY <1>5, <1>6
<1> HIDE DEF m
<1> DEFINE g == [i \in m..N |-> IF i = m THEN IF m \in stop THEN a[m] ELSE a[m] \o f[nx[m]]
                                ELSE f[i]]
<1>8. ASSUME NEW i \in m..N
      PROVE  g[i] = IF i \in stop THEN a[i] ELSE a[i] \o g[nx[i]]
  <2>1. i \in 1..N
    BY <1>6
  <2>2. i \notin stop => nx[i] \in m + 1..N
    <3>1. i \notin stop => nx[i] \in i + 1..N
      BY <1>0, <2>1
    <3>2. QED
      BY <1>6, <2>1, <3>1
  <2>3. i \notin stop => g[nx[i]] = f[nx[i]]
    <3>1. \A j \in m + 1..N : j \in m..N /\ j # m
      BY <1>6
    <3>2. QED
      BY <2>2, <3>1
  <2>4. CASE i = m
    BY <2>3, <2>4
  <2>5. CASE i # m
    <3>1. i \in m + 1..N
      BY <1>6, <2>5
    <3>2. g[i] = f[i]
      BY <2>5
    <3>3. QED
      BY <1>7, <2>3, <3>1, <3>2
  <2>6. QED
    BY <2>4, <2>5
<1> HIDE DEF g
<1>9. P(k)
  BY <1>8 DEF m
<1>10. QED
  BY <1>3, <1>9

\* The next size line lies behind this one.
LEMMA NextIsBehind ==
    ASSUME NEW s \in Seq(Byte), NEW i \in 1..Len(s) + 1, ~Stops(s, i)
    PROVE  Min(Behind(s, i)) + 2 \in i + 1..Len(s) + 1
<1> DEFINE E == Found(s, Crlf, i)
           R == Right(s, i)
           C == Count(s, i)
           A == Behind(s, i)
<1>0. Len(s) \in Nat /\ i \in Nat \ {0}
  OBVIOUS
<1>1. E # {} /\ A # {}
  BY DEF Stops
<1>2. R \in i..Len(s) - 1
  <2>1. \A j \in E : j \in i..Len(s) - 1
    BY <1>0, FoundCrlf
  <2>2. E \in SUBSET Nat
    BY <1>0, <2>1
  <2> HIDE DEF E
  <2>3. Min(E) \in E
    BY <1>1, <2>2, MinOf
  <2>4. QED
    BY <2>1, <2>3 DEF Right, E
<1>3. C \in Nat
  <2>1. SubSeq(s, i, R - 1) \in Seq(Byte)
    <3>1. R - 1 \in Int /\ i \in Int /\ \A j \in i..R - 1 : j \in 1..Len(s)
      BY <1>0, <1>2
    <3> HIDE DEF R
    <3>2. QED
      BY <3>1
  <2>2. QED
    BY <2>1, StoiNat DEF Count, SizeText
<1> HIDE DEF R, C
<1>4. R + 2 + C \in Nat \ {0}
  BY <1>0, <1>2, <1>3
<1>5. A = Found(s, Crlf, R + 2 + C)
  BY DEF A, Behind, AfterData, R, C
<1> HIDE DEF A
<1>6. \A j \in A : j \in R + 2 + C..Len(s) - 1
  BY <1>4, <1>5, FoundCrlf
<1>7. A \in SUBSET Nat
  BY <1>0, <1>4, <1>6
<1>8. Min(A) \in A
  BY <1>1, <1>7, MinOf
<1>9. Min(A) + 2 \in i + 1..Len(s) + 1
  BY <1>0, <1>2, <1>3, <1>6, <1>8
<1>10. QED
  BY <1>9 DEF A

LEMMA ParseUnfolds ==
    ASSUME NEW s \in Seq(Byte), s # <<>>, reply.coding = "chunked"
    PROVE  \E f : /\ ParseBody(s) = f[1]
                  /\ \A i \in 1..Len(s) + 1 :
                       f[i] = IF Stops(s, i) THEN Taken(s, i)
                              ELSE Taken(s, i) \o f[Min(Behind(s, i)) + 2]
<1> DEFINE N == Len(s) + 1
           G(h) == [i \in 1..(Len(s) + 1) |->
                      IF Stops(s, i) THEN Taken(s, i)
                      ELSE Taken(s, i) \o h[Min(Behind(s, i)) + 2]]
           F(h) == [i \in 1..(Len(s) + 1) |->
                      LET ends == Found(s, Crlf, i)
                          right == Min(ends)
                          size == SubSeq(s, i, right - 1)
                          n == Stoi(size)
                          taken == [k \in 1..n |-> IF right + 1 + k <= Len(s) THEN s[right + 1 + k]
                                                   ELSE Beyond]
                          after == AfterData(s, right, n)
                      IN  IF ends = {} THEN <<>>
                          ELSE IF size = <<>> \/ ~IsHex(size[1]) THEN <<"thrown">>
                          ELSE IF n = 0 THEN <<>>
                          ELSE IF after = {} THEN taken
                          ELSE taken \o h[Min(after) + 2]]
           f == CHOOSE h : h = F(h)
<1>1. ParseBody(s) = f[1]
  BY DEF ParseBody
<1>2. ASSUME NEW h
      PROVE  F(h) = G(h)
  BY DEF Stops, Taken, Behind, Count, SizeText, Right
<1>3. \E h : h = G(h)
  <2> DEFINE stop == {i \in 1..N : Stops(s, i)}
             a == [i \in 1..N |-> Taken(s, i)]
             nx == [i \in 1..N |-> Min(Behind(s, i)) + 2]
  <2>1. N \in Nat /\ LeadsOn(N, stop, a, nx)
    BY NextIsBehind DEF LeadsOn
  <2> HIDE DEF N, stop, a, nx
  <2>2. PICK h : Unfolded(N, stop, a, nx, h)
    BY <2>1, UnfoldExists
  <2>3. h = [i \in 1..N |-> IF i \in stop THEN a[i] ELSE a[i] \o h[nx[i]]]
    BY <2>2 DEF Unfolded
  <2> USE DEF N
  <2>4. ASSUME NEW i \in 1..N
        PROVE  (IF i \in stop THEN a[i] ELSE a[i] \o h[nx[i]]) =
               IF Stops(s, i) THEN Taken(s, i) ELSE Taken(s, i) \o h[Min(Behind(s, i)) + 2]
    BY DEF stop, a, nx
  <2>5. h = G(h)
    BY <2>3, <2>4
  <2>6. QED
    BY <2>5
<1> HIDE DEF F, G
<1>4. f = F(f)
  <2>1. \E h : h = F(h)
    BY <1>2, <1>3
  <2>2. QED
    BY <2>1
<1>5. f = G(f)
  BY <1>2, <1>4
<1> HIDE DEF f
<1>6. \A i \in 1..Len(s) + 1 :
        f[i] = IF Stops(s, i) THEN Taken(s, i) ELSE Taken(s, i) \o f[Min(Behind(s, i)) + 2]
  <2>1. ASSUME NEW i \in 1..Len(s) + 1
        PROVE  G(f)[i] = IF Stops(s, i) THEN Taken(s, i)
                         ELSE Taken(s, i) \o f[Min(Behind(s, i)) + 2]
    BY DEF G
  <2>2. QED
    BY <1>5, <2>1
<1>7. QED
  BY <1>1, <1>6

\* A size line behind p is whole, and what ParseBody finds in it.
SizeLine(s, z, n, p) ==
    /\ s \in Seq(Byte) /\ z \in Nat /\ p \in Nat
    /\ SizeAt(s, p, z, n) /\ p + z + 3 <= Len(s)
SizeRead(s, z, n, p) ==
    /\ Found(s, Crlf, p + 1) # {} /\ Right(s, p + 1) = p + z + 2
    /\ SizeText(s, p + 1) # <<>> /\ IsHex(SizeText(s, p + 1)[1])
    /\ Count(s, p + 1) = n

LEMMA SizeLineIs ==
    ASSUME NEW s, NEW z, NEW n, NEW p, SizeLine(s, z, n, p)
    PROVE  SizeRead(s, z, n, p)
<1> DEFINE E == Found(s, Crlf, p + 1)
           m == p + z + 2
<1>0. /\ s \in Seq(Byte) /\ z \in Nat /\ p \in Nat
      /\ SizeAt(s, p, z, n) /\ p + z + 3 <= Len(s)
  BY DEF SizeLine
<1>1. s[m] = CR /\ s[m + 1] = LF
  <2>1. p + z + 1 + 1 = m /\ p + z + 1 + 2 = m + 1
    BY <1>0
  <2>2. CrlfAt(s, p + z + 1)
    BY <1>0 DEF SizeAt
  <2> HIDE DEF m
  <2>3. QED
    BY <2>1, <2>2 DEF CrlfAt
<1>2. PICK u : Numeral(u, n) /\ Len(u) = z + 1 /\ \A j \in 1..z + 1 : s[p + j] = u[j]
  BY <1>0 DEF SizeAt
<1>3. p + 1 \in Nat \ {0} /\ Len(s) \in Nat /\ m \in p + 1..Len(s) - 1
  BY <1>0
<1>4. m \in E
  BY <1>0, <1>1, <1>3, FoundCrlf
<1>5. ASSUME NEW j \in E
      PROVE  j \in Nat /\ m <= j
  <2>1. j \in p + 1..Len(s) - 1 /\ s[j] = CR
    BY <1>0, <1>3, FoundCrlf
  <2>2. ~ (j <= p + z + 1)
    <3>1. SUFFICES ASSUME j <= p + z + 1 PROVE FALSE
      BY <1>0
    <3>2. j - p \in 1..z + 1 /\ p + (j - p) = j
      BY <1>0, <2>1, <3>1
    <3>3. s[j] = u[j - p] /\ u[j - p] # CR
      BY <1>2, <3>2, NumeralIs
    <3>4. QED
      BY <2>1, <3>3
  <2>3. QED
    BY <1>0, <2>1, <2>2
<1>6. E # {} /\ Right(s, p + 1) = m
  <2>1. E \in SUBSET Nat
    BY <1>0, <1>5
  <2> HIDE DEF E, m
  <2>2. Min(E) = m
    BY <1>0, <1>4, <1>5, <2>1, MinIs
  <2>3. QED
    BY <1>0, <1>4, <2>2 DEF Right, E
<1> DEFINE t == SubSeq(s, p + 1, p + 1 + (z + 1) - 1)
<1>7. SizeText(s, p + 1) = t
  <2>1. m - 1 = p + 1 + (z + 1) - 1
    BY <1>0
  <2> HIDE DEF m
  <2>2. QED
    BY <1>0, <1>6, <2>1 DEF SizeText
<1>8. /\ t \in Seq(Byte) /\ Len(t) = z + 1
      /\ \A j \in 1..z + 1 : t[j] = s[p + 1 + j - 1]
  <2>1. p + 1 \in 1..Len(s) /\ z + 1 \in 0..Len(s) /\ p + 1 + (z + 1) - 1 <= Len(s)
    BY <1>0
  <2>2. QED
    BY <1>0, <2>1, SubSeqIs
<1> HIDE DEF t
<1>9. t = u
  <2>1. ASSUME NEW j \in 1..z + 1
        PROVE  t[j] = u[j]
    <3>1. p + 1 + j - 1 = p + j
      BY <1>0
    <3>2. QED
      BY <1>2, <1>8, <3>1
  <2>2. t \in [1..z + 1 -> Byte] /\ u \in [1..z + 1 -> Byte]
    <3>1. z + 1 \in Nat /\ u \in Seq(Byte)
      BY <1>0, <1>2 DEF Numeral
    <3>2. QED
      BY <1>2, <1>8, <3>1, BytesOf
  <2>3. t = [j \in 1..z + 1 |-> t[j]] /\ u = [j \in 1..z + 1 |-> u[j]]
    BY <2>2
  <2>4. [j \in 1..z + 1 |-> t[j]] = [j \in 1..z + 1 |-> u[j]]
    BY <2>1
  <2>5. QED
    BY <2>3, <2>4
<1>10. Stoi(t) = n /\ t # <<>> /\ IsHex(t[1])
  <2>1. Len(u) >= 1 /\ Stoi(u) = n /\ 1 \in 1..Len(u) /\ \A j \in 1..Len(u) : IsHex(u[j])
    BY <1>2 DEF Numeral
  <2>2. u # <<>>
    BY <2>1
  <2>3. QED
    BY <1>9, <2>1, <2>2
<1>11. QED
  BY <1>6, <1>7, <1>10 DEF Count, SizeRead

LEMMA ChunkParsed ==
    ASSUME NEW s \in Seq(Byte), NEW z \in Nat, NEW q \in Nat,
           NEW d \in Seq(Byte), Len(d) # 0,
           ChunkAt(s, q, z, d), q + z + Len(d) + 5 <= Len(s)
    PROVE  /\ ~Stops(s, q + 1) /\ Taken(s, q + 1) = d
           /\ Min(Behind(s, q + 1)) + 2 = q + z + Len(d) + 5 + 1
<1> DEFINE n == Len(d)
           i == q + 1
<1>1. n # 0 /\ n \in Nat /\ Len(s) \in Nat /\ q + z + n + 5 <= Len(s)
  OBVIOUS
<1>2. /\ SizeAt(s, q, z, n) /\ CrlfAt(s, q + z + 3 + n)
      /\ \A j \in 1..n : s[q + z + 3 + j] = d[j]
  BY DEF ChunkAt
<1> HIDE DEF n
<1>3. /\ Found(s, Crlf, i) # {} /\ Right(s, i) = q + z + 2
      /\ SizeText(s, i) # <<>> /\ IsHex(SizeText(s, i)[1]) /\ Count(s, i) = n
  <2>1. SizeLine(s, z, n, q)
    BY <1>1, <1>2 DEF SizeLine
  <2>2. SizeRead(s, z, n, q)
    BY <2>1, SizeLineIs
  <2>3. QED
    BY <2>2 DEF SizeRead
<1> HIDE DEF i
<1> DEFINE A == Behind(s, i)
           m == q + z + 2 + 2 + n
<1>4. A = Found(s, Crlf, m)
  BY <1>3 DEF Behind, AfterData
<1>5. m \in Nat \ {0} /\ m \in m..Len(s) - 1 /\ s[m] = CR /\ s[m + 1] = LF
  <2>1. m \in Nat \ {0} /\ m \in m..Len(s) - 1
    BY <1>1
  <2>2. q + z + 3 + n + 1 = m /\ q + z + 3 + n + 2 = m + 1
    BY <1>1
  <2> HIDE DEF m
  <2>3. QED
    BY <1>2, <2>1, <2>2 DEF CrlfAt
<1>6. Min(A) = m
  <2>1. \A j \in A : j \in m..Len(s) - 1
    BY <1>4, <1>5, FoundCrlf
  <2>2. m \in A
    BY <1>4, <1>5, FoundCrlf
  <2> HIDE DEF A, m
  <2>3. A \in SUBSET Nat /\ \A j \in A : m <= j
    BY <1>5, <2>1
  <2>4. QED
    BY <2>2, <2>3, MinIs
<1>7. A # {}
  BY <1>4, <1>5, FoundCrlf
<1>8. ~Stops(s, i)
  <2> HIDE DEF A
  <2>1. n # 0
    BY <1>1
  <2>2. QED
    BY <1>3, <1>7, <2>1 DEF Stops, A
<1>9. Taken(s, i) = d
  <2>1. Taken(s, i) = [k \in 1..n |-> IF q + z + 2 + 1 + k <= Len(s) THEN s[q + z + 2 + 1 + k]
                                      ELSE Beyond]
    <3>1. n # 0
      BY <1>1
    <3>2. QED
      BY <1>3, <3>1 DEF Taken
  <2>2. ASSUME NEW k \in 1..n
        PROVE  (IF q + z + 2 + 1 + k <= Len(s) THEN s[q + z + 2 + 1 + k] ELSE Beyond) = d[k]
    <3>1. q + z + 2 + 1 + k = q + z + 3 + k /\ q + z + 3 + k <= Len(s)
      BY <1>1
    <3>2. QED
      BY <1>2, <3>1
  <2>3. d = [k \in 1..n |-> d[k]]
    BY DEF n
  <2>4. QED
    BY <2>1, <2>2, <2>3
<1>10. Min(A) + 2 = q + z + n + 5 + 1
  BY <1>1, <1>6
<1>11. QED
  BY <1>8, <1>9, <1>10 DEF n, i

LEMMA LastParsed ==
    ASSUME NEW s \in Seq(Byte), NEW z \in Nat, NEW p \in Nat,
           SizeAt(s, p, z, 0), p + z + 3 <= Len(s)
    PROVE  Stops(s, p + 1) /\ Taken(s, p + 1) = <<>>
<1> DEFINE i == p + 1
<1>1. SizeLine(s, z, 0, p)
  BY DEF SizeLine
<1>2. /\ Found(s, Crlf, i) # {} /\ SizeText(s, i) # <<>> /\ IsHex(SizeText(s, i)[1])
      /\ Count(s, i) = 0
  BY <1>1, SizeLineIs DEF SizeRead
<1> HIDE DEF i
<1>3. QED
  BY <1>2 DEF Stops, Taken, i

\* What ParseBody takes from the whole reply is what the peer sent.
LEMMA ParseBodyIs ==
    ASSUME ReplyOK(reply)
    PROVE  ParseBody(Coded(reply)) = Content(reply) /\ Content(reply) \in Seq(Byte)
<1>1. Content(reply) \in Seq(Byte)
  BY ContentIs
<1>2. CASE reply.coding # "chunked"
  BY <1>1, <1>2 DEF ParseBody, Coded
<1>3. CASE reply.coding = "chunked"
  <2> DEFINE w == Coded(reply)
             d == reply.chunks
             n == Len(d)
             z == reply.zeros
             y(k) == Z(reply, Len(reply.chunks[k]))
  <2>1. w \in Seq(Byte)
    BY <1>3, CodedShape
  <2>2. PICK e : Laid(w, reply, e) /\ LastAt(w, reply, e[n])
    BY <1>3, CodedShape
  <2>3. /\ n \in Nat /\ z \in Nat /\ e[0] = 0
        /\ \A k \in 0..n : e[k] \in Nat /\ e[k] <= e[n]
    BY <1>3, <2>2, LaidTypes, LaidGrows DEF Laid
  <2>4. /\ SizeAt(w, e[n], z, 0) /\ Len(w) = e[n] + z + 5 /\ e[n] \in Nat
    <3>1. n \in 0..n
      BY <2>3
    <3>2. QED
      BY <2>2, <2>3, <3>1 DEF LastAt
  <2>5. \A k \in 1..n :
          /\ d[k] \in Seq(Byte) /\ Len(d[k]) \in Nat \ {0} /\ y(k) \in Nat
          /\ e[k - 1] \in Nat /\ e[k] \in Nat /\ e[k] <= e[n]
          /\ e[k] = e[k - 1] + y(k) + Len(d[k]) + 5 /\ ChunkAt(w, e[k - 1], y(k), d[k])
    <3>1. \A k \in 1..n : k \in 0..n
      OBVIOUS
    <3>2. ASSUME NEW k \in 1..n
          PROVE  /\ d[k] \in Seq(Byte) /\ Len(d[k]) \in Nat \ {0} /\ y(k) \in Nat
                 /\ e[k - 1] \in Nat /\ e[k] \in Nat
                 /\ e[k] = e[k - 1] + y(k) + Len(d[k]) + 5 /\ ChunkAt(w, e[k - 1], y(k), d[k])
      BY <1>3, <2>2, LaidTypes
    <3> HIDE DEF w, d, n, z, y
    <3>3. QED
      BY <2>3, <3>1, <3>2
  <2>6. w # <<>>
    BY <2>3, <2>4
  <2>7. PICK f : /\ ParseBody(w) = f[1]
                 /\ \A i \in 1..Len(w) + 1 :
                      f[i] = IF Stops(w, i) THEN Taken(w, i)
                             ELSE Taken(w, i) \o f[Min(Behind(w, i)) + 2]
    BY <1>3, <2>1, <2>6, ParseUnfolds
  <2> HIDE DEF w
  <2>8. f[e[n] + 1] = <<>>
    <3> DEFINE p == e[n]
    <3>1. SizeAt(w, p, z, 0) /\ p \in Nat /\ z \in Nat /\ p + z + 3 <= Len(w)
          /\ p + 1 \in 1..Len(w) + 1
      BY SMTT(30), <2>3, <2>4
    <3> HIDE DEF p, z
    <3>2. Stops(w, p + 1) /\ Taken(w, p + 1) = <<>>
      BY <2>1, <3>1, LastParsed
    <3>3. f[p + 1] = <<>>
      BY <2>7, <3>1, <3>2
    <3>4. QED
      BY <3>3 DEF p
  <2>9. ASSUME NEW k \in 1..n
        PROVE  f[e[k - 1] + 1] = d[k] \o f[e[k] + 1]
    <3> DEFINE q == e[k - 1]
               c == d[k]
               x == y(k)
    <3>1. /\ c \in Seq(Byte) /\ Len(c) \in Nat /\ Len(c) # 0 /\ x \in Nat
          /\ q \in Nat /\ e[k] \in Nat /\ e[k] <= e[n]
          /\ e[k] = q + x + Len(c) + 5 /\ ChunkAt(w, q, x, c)
      BY <2>5
    <3> HIDE DEF q, c, x
    <3>2. q + x + Len(c) + 5 <= Len(w) /\ q + 1 \in 1..Len(w) + 1
      <4>1. e[n] \in Nat /\ z \in Nat /\ Len(w) = e[n] + z + 5 /\ Len(c) \in Nat
        BY <2>3, <2>4, <3>1
      <4> HIDE DEF n, z
      <4>2. QED
        BY <3>1, <4>1
    <3>3. /\ ~Stops(w, q + 1) /\ Taken(w, q + 1) = c
          /\ Min(Behind(w, q + 1)) + 2 = q + x + Len(c) + 5 + 1
      BY <2>1, <2>3, <3>1, <3>2, ChunkParsed
    <3>4. f[q + 1] = c \o f[e[k] + 1]
      BY <2>7, <3>1, <3>2, <3>3
    <3>5. QED
      BY <3>4 DEF q, c, x
  <2>10. CASE n = 0
    <3>1. d = <<>> /\ e[n] + 1 = 1
      BY <2>3, <2>10 DEF ReplyOK
    <3>2. f[1] = <<>>
      BY <2>8, <3>1
    <3>3. Content(reply) = <<>>
      BY <1>1, <3>1, ContentIs
    <3>4. QED
      BY <1>1, <2>7, <3>2, <3>3 DEF w
  <2>11. CASE n # 0
    <3>1. d \in Seq(Seq(Byte)) /\ Len(d) > 0
      BY <2>3, <2>11 DEF ReplyOK
    <3>2. PICK g \in [1..Len(d) -> Seq(Byte)] : Joined(d, Len(d), g) /\ FlattenSeq(d) = g[Len(d)]
      BY <3>1, FlattenIs
    <3> DEFINE Q(k) == f[e[k] + 1] \in Seq(Byte) /\ g[k] \o f[e[k] + 1] = Content(reply)
               T == {k \in 1..n : ~Q(k)}
    <3>3. Content(reply) = g[n] /\ n \in 1..n /\ 1 \in 1..n
      BY <2>3, <2>11, <3>2 DEF Content
    <3>4. Q(n)
      <4>1. <<>> \in Seq(Byte) /\ g[n] \in Seq(Byte)
        BY <3>2, <3>3
      <4>2. g[n] \o <<>> = g[n]
        BY <4>1
      <4>3. QED
        BY <2>8, <3>3, <4>1, <4>2
    <3>5. T = {}
      <4>1. SUFFICES ASSUME T # {} PROVE FALSE
        OBVIOUS
      <4> DEFINE m == Max(T)
      <4>2. m \in T /\ \A i \in T : m >= i
        <5> HIDE DEF Q, n
        <5>1. T \in SUBSET (0..n)
          OBVIOUS
        <5> HIDE DEF T
        <5>2. QED
          BY <2>3, <4>1, <5>1, MaxIs
      <4> HIDE DEF m
      <4>3. m \in 1..n /\ ~Q(m)
        BY <4>2
      <4>4. m # n
        BY <3>4, <4>3
      <4>5. PICK k \in 1..n : k = m + 1 /\ k - 1 = m /\ ~ (m >= k) /\ k # 1
        BY <2>3, <4>3, <4>4
      <4>6. k \notin T
        BY <4>2, <4>5
      <4>7. Q(k)
        BY <4>6
      <4>8. f[e[m] + 1] = d[k] \o f[e[k] + 1]
        BY <2>9, <4>5
      <4>9. g[k] = g[m] \o d[k]
        BY <3>2, <4>5 DEF Joined
      <4> DEFINE a == g[m]
                 b == d[k]
                 c == f[e[k] + 1]
      <4>10. a \in Seq(Byte) /\ b \in Seq(Byte) /\ c \in Seq(Byte) /\ (a \o b) \o c = Content(reply)
        BY <2>5, <3>2, <4>3, <4>7, <4>9
      <4>11. ~ (b \o c \in Seq(Byte) /\ a \o (b \o c) = Content(reply))
        BY <4>3, <4>8
      <4> HIDE DEF a, b, c
      <4>12. (a \o b) \o c = a \o (b \o c) /\ b \o c \in Seq(Byte)
        BY ZenonT(30), <4>10, Associative, ConcatAt
      <4>13. QED
        BY <4>10, <4>11, <4>12
    <3>6. Q(1)
      BY <3>3, <3>5
    <3>7. f[1] = Content(reply)
      <4>1. PICK k \in 1..n : k = 1 /\ k - 1 = 0
        BY <3>3
      <4>2. e[k - 1] + 1 = 1
        BY <2>3, <4>1
      <4>3. f[1] = d[k] \o f[e[k] + 1]
        BY <2>9, <4>2
      <4>4. g[k] = d[k]
        BY <3>2, <4>1 DEF Joined
      <4>5. QED
        BY <3>6, <4>1, <4>3, <4>4
    <3>8. QED
      BY <1>1, <2>7, <3>7 DEF w
  <2>12. QED
    BY <2>10, <2>11
<1>4. QED
  BY <1>2, <1>3

-----------------------------------------------------------------------------
(* The reply comes in pieces.                                                *)

LEMMA WireIs ==
    ASSUME NEW r, ReplyOK(r)
    PROVE  /\ Coded(r) \in Seq(Byte) /\ Wire(r) \in Seq(Byte)
           /\ Len(Wire(r)) = 5 + Len(Coded(r))
           /\ Wire(r)[1] = r.head
           /\ CrlfAt(Wire(r), 1) /\ CrlfAt(Wire(r), 3)
           /\ \A i \in 1..Len(Coded(r)) : Wire(r)[5 + i] = Coded(r)[i]
<1> DEFINE c == Coded(r)
           a == <<r.head>>
           b == a \o Crlf
           h == b \o Crlf
           w == h \o c
<1>1. c \in Seq(Byte)
  <2>1. CASE r.coding = "chunked"
    BY <2>1, CodedShape
  <2>2. CASE r.coding # "chunked"
    BY <2>2, ContentIs DEF Coded
  <2>3. QED
    BY <2>1, <2>2
<1>2. Wire(r) = w
  BY DEF Wire, Coded
<1>3. a \in Seq(Byte) /\ Len(a) = 1 /\ a[1] = r.head /\ 1 \in Nat /\ 1 \in 1..1
  <2>1. r.head \in Byte
    BY DEF ReplyOK, Byte
  <2>2. QED
    BY <2>1
<1> HIDE DEF a, c
<1>4. /\ b \in Seq(Byte) /\ Len(b) = 3 /\ b[1] = r.head /\ CrlfAt(b, 1)
  <2>1. /\ b \in Seq(Byte) /\ Len(b) = 1 + 2
        /\ (\A i \in 1..1 : b[i] = a[i]) /\ CrlfAt(b, 1)
    BY <1>3, CrlfBehind
  <2> HIDE DEF b
  <2>2. QED
    BY <1>3, <2>1
<1> HIDE DEF b
<1>5. /\ h \in Seq(Byte) /\ Len(h) = 5 /\ h[1] = r.head /\ CrlfAt(h, 1) /\ CrlfAt(h, 3)
  <2>0. 3 \in Nat /\ 1 \in 1..3 /\ 1 + 1 \in 1..3 /\ 1 + 2 \in 1..3
    OBVIOUS
  <2>1. /\ h \in Seq(Byte) /\ Len(h) = 3 + 2
        /\ (\A i \in 1..3 : h[i] = b[i]) /\ CrlfAt(h, 3)
    BY <1>4, <2>0, CrlfBehind
  <2> HIDE DEF h
  <2>2. h[1] = r.head /\ CrlfAt(h, 1)
    BY <1>4, <2>0, <2>1 DEF CrlfAt
  <2>3. QED
    BY <2>1, <2>2
<1> HIDE DEF h
<1>6. /\ w \in Seq(Byte) /\ Len(w) = 5 + Len(c)
      /\ \A i \in 1..5 : w[i] = h[i]
      /\ \A i \in 1..Len(c) : w[5 + i] = c[i]
  <2>1. /\ w \in Seq(Byte) /\ Len(w) = Len(h) + Len(c)
        /\ \A i \in 1..Len(h) : w[i] = h[i]
        /\ \A i \in 1..Len(c) : w[Len(h) + i] = c[i]
    BY <1>1, <1>5, ConcatAt
  <2>2. QED
    BY <1>5, <2>1
<1> HIDE DEF w
<1>7. w[1] = r.head /\ CrlfAt(w, 1) /\ CrlfAt(w, 3)
  <2>1. /\ 1 \in 1..5 /\ 1 + 1 \in 1..5 /\ 1 + 2 \in 1..5 /\ 3 + 1 \in 1..5 /\ 3 + 2 \in 1..5
    OBVIOUS
  <2>2. QED
    BY <1>5, <1>6, <2>1 DEF CrlfAt
<1>8. QED
  BY <1>1, <1>2, <1>6, <1>7 DEF c

\* The head is parsed when the empty line behind it has come, and not before.
LEMMA HeadIs ==
    ASSUME NEW r, ReplyOK(r), NEW s \in Seq(Byte), NEW t \in Seq(Byte), s \o t = Wire(r)
    PROVE  /\ CanParseHeader(s) <=> Len(s) >= 5
           /\ CanParseHeader(s) =>
                /\ s[1] = r.head
                /\ SubSeq(s, BodyStart(s), Len(s)) \in Seq(Byte)
                /\ SubSeq(s, BodyStart(s), Len(s)) \o t = Coded(r)
<1> DEFINE w == Wire(r)
           c == Coded(r)
           E == Found(s, Crlf \o Crlf, 1)
           l == Len(s)
<1>1. /\ c \in Seq(Byte) /\ w \in Seq(Byte) /\ Len(w) = 5 + Len(c) /\ w[1] = r.head
      /\ CrlfAt(w, 1) /\ CrlfAt(w, 3) /\ \A i \in 1..Len(c) : w[5 + i] = c[i]
  BY WireIs
<1>2. r.head # CR
  BY DEF ReplyOK, CR
<1>3. /\ l \in Nat /\ Len(t) \in Nat /\ Len(w) = l + Len(t)
      /\ \A j \in 1..l : s[j] = w[j]
      /\ \A j \in 1..Len(t) : t[j] = w[l + j]
  <2>1. Len(s \o t) = Len(s) + Len(t)
        /\ (\A j \in 1..Len(s) : (s \o t)[j] = s[j])
        /\ (\A j \in 1..Len(t) : (s \o t)[Len(s) + j] = t[j])
    BY ConcatAt
  <2>2. QED
    BY <2>1
<1>4. CanParseHeader(s) <=> E # {}
  BY DEF CanParseHeader
<1>5. \A j : j \in E <=> /\ j \in 1..l - 3
                         /\ s[j] = CR /\ s[j + 1] = LF /\ s[j + 2] = CR /\ s[j + 3] = LF
  <2>1. 1 \in Nat \ {0}
    OBVIOUS
  <2>2. QED
    BY <2>1, FoundEmptyLine
<1>6. BodyStart(s) = Min(E) + 4
  BY DEF BodyStart
<1> HIDE DEF w, c, E, l
<1>7. ASSUME NEW j \in E
      PROVE  j \in Nat /\ 2 <= j /\ l >= 5
  <2>1. j \in 1..l - 3 /\ s[j] = CR
    BY <1>5
  <2>2. j # 1
    <3>1. SUFFICES ASSUME j = 1 PROVE FALSE
      OBVIOUS
    <3>2. 1 \in 1..l
      BY <1>3, <2>1, <3>1
    <3>3. s[1] = r.head
      BY <1>1, <1>3, <3>2
    <3>4. QED
      BY <1>2, <2>1, <3>1, <3>3
  <2>3. QED
    BY <1>3, <2>1, <2>2
<1>8. ASSUME l >= 5
      PROVE  2 \in E /\ Min(E) = 2
  <2>1. 2 \in 1..l - 3 /\ 2 \in 1..l /\ 3 \in 1..l /\ 4 \in 1..l /\ 5 \in 1..l
    BY <1>3, <1>8
  <2>2. w[2] = CR /\ w[3] = LF /\ w[4] = CR /\ w[5] = LF
    BY <1>1 DEF CrlfAt
  <2>3. s[2] = CR /\ s[2 + 1] = LF /\ s[2 + 2] = CR /\ s[2 + 3] = LF
    BY <1>3, <2>1, <2>2
  <2>4. 2 \in E
    BY <1>5, <2>1, <2>3
  <2>5. E \in SUBSET Nat /\ \A j \in E : 2 <= j
    BY <1>7
  <2>6. QED
    BY <2>4, <2>5, MinIs
<1>9. E # {} <=> l >= 5
  BY <1>7, <1>8
<1>10. ASSUME l >= 5
       PROVE  /\ s[1] = r.head
              /\ SubSeq(s, BodyStart(s), l) \in Seq(Byte)
              /\ SubSeq(s, BodyStart(s), l) \o t = c
  <2> DEFINE u == SubSeq(s, 6, l)
             v == u \o t
  <2>1. SubSeq(s, BodyStart(s), l) = u
    <3>1. Min(E) = 2
      BY <1>8, <1>10
    <3>2. BodyStart(s) = 6
      BY <1>6, <3>1
    <3>3. QED
      BY <3>2
  <2>2. s[1] = r.head
    <3>1. 1 \in 1..l
      BY <1>3, <1>10
    <3>2. QED
      BY <1>1, <1>3, <3>1
  <2>3. u \in Seq(Byte) /\ Len(u) = l - 5 /\ \A i \in 1..l - 5 : u[i] = s[5 + i]
    <3>1. \A i \in 6..l : i \in 1..Len(s)
      BY <1>3 DEF l
    <3>2. l \in Int /\ 6 \in Int /\ 6 <= l + 1
      BY <1>3, <1>10
    <3>3. u \in Seq(Byte) /\ Len(u) = (IF 6 <= l THEN l - 6 + 1 ELSE 0)
          /\ \A i \in 1..l - 6 + 1 : u[i] = s[6 + i - 1]
      BY <3>1, <3>2
    <3> HIDE DEF u
    <3>4. ASSUME NEW i \in 1..l - 5
          PROVE  u[i] = s[5 + i]
      <4>1. i \in 1..l - 6 + 1 /\ 6 + i - 1 = 5 + i
        BY <3>2
      <4>2. QED
        BY <3>3, <4>1
    <3>5. QED
      BY <3>2, <3>3, <3>4
  <2> HIDE DEF u
  <2>4. /\ v \in Seq(Byte) /\ Len(v) = l - 5 + Len(t)
        /\ \A i \in 1..l - 5 : v[i] = u[i]
        /\ \A i \in 1..Len(t) : v[l - 5 + i] = t[i]
    <3>1. /\ v \in Seq(Byte) /\ Len(v) = Len(u) + Len(t)
          /\ \A i \in 1..Len(u) : v[i] = u[i]
          /\ \A i \in 1..Len(t) : v[Len(u) + i] = t[i]
      BY <2>3, ConcatAt
    <3> HIDE DEF v
    <3>2. QED
      BY <2>3, <3>1
  <2> HIDE DEF v
  <2>5. Len(c) \in Nat /\ Len(c) = l - 5 + Len(t)
    BY <1>1, <1>3
  <2>6. ASSUME NEW i \in 1..Len(c)
        PROVE  v[i] = c[i]
    <3>0. c[i] = w[5 + i]
      BY <1>1
    <3>1. CASE i <= l - 5
      <4>1. i \in 1..l - 5 /\ 5 + i \in 1..l
        BY <1>3, <3>1
      <4>2. QED
        BY <1>3, <2>3, <2>4, <3>0, <4>1
    <3>2. CASE i > l - 5
      <4>1. PICK j \in 1..Len(t) : j = i - (l - 5) /\ l - 5 + j = i /\ l + j = 5 + i
        <5>1. i - (l - 5) \in 1..Len(t) /\ l - 5 + (i - (l - 5)) = i /\ l + (i - (l - 5)) = 5 + i
          BY <1>3, <2>5, <3>2
        <5>2. QED
          BY <5>1
      <4>2. v[l - 5 + j] = t[j] /\ t[j] = w[l + j]
        BY <1>3, <2>4
      <4>3. QED
        BY <3>0, <4>1, <4>2
    <3>3. QED
      BY <1>3, <2>5, <3>1, <3>2
  <2>7. v = c
    <3>1. v \in [1..Len(c) -> Byte] /\ c \in [1..Len(c) -> Byte]
      BY <1>1, <2>4, <2>5, BytesOf
    <3>2. QED
      BY <2>6, <3>1
  <2>8. QED
    BY <2>1, <2>2, <2>3, <2>7 DEF v
<1>11. QED
  BY <1>4, <1>9, <1>10 DEF l, c

\* A piece, and what has still to come.
LEMMA CutIs ==
    ASSUME NEW c \in Seq(Byte), NEW k \in 1..Len(c)
    PROVE  /\ SubSeq(c, 1, k) \in Seq(Byte) /\ SubSeq(c, k + 1, Len(c)) \in Seq(Byte)
           /\ SubSeq(c, 1, k) \o SubSeq(c, k + 1, Len(c)) = c
OBVIOUS

-----------------------------------------------------------------------------
(* The invariant.                                                            *)

\* No chunk holds what looks like the end.
Plain(r) == ~(r.coding = "chunked" /\ \E d \in Range(r.chunks) : ZeroLine(d))

\* What has come and what has still to come are together what the peer sent: the
\* reply until the head is parsed, what is behind the head from then on.
HInv ==
    /\ reply \in Replies /\ coming \in Seq(Byte)
    /\ phase \in {"connect", "head", "body", "done", "thrown"}
    /\ phase = "connect" => coming = Wire(reply) /\ source = <<>> /\ body = <<>>
    /\ phase = "head" => /\ source \in Seq(Byte) /\ source \o coming = Wire(reply)
                         /\ Len(source) <= 4 /\ body = <<>>
    /\ phase = "body" => /\ body \in Seq(Byte) /\ body \o coming = Coded(reply)
                         /\ reply.head # "bare"
    /\ phase = "done" => (Plain(reply) => body = Content(reply))
    /\ phase = "thrown" => reply.head = "bare" \/ coming # <<>> \/ ~Recognised(reply)

LEMMA InitHInv == HInit => HInv
<1> SUFFICES ASSUME HInit PROVE HInv
  OBVIOUS
<1>1. reply \in Replies /\ coming = Wire(reply) /\ source = <<>> /\ body = <<>> /\ phase = "connect"
  BY DEF HInit
<1>2. Wire(reply) \in Seq(Byte)
  BY <1>1, RepliesOK, WireIs
<1>3. QED
  BY <1>1, <1>2 DEF HInv

\* When nothing has still to come, the reply is there, and its end is seen.
LEMMA AllHasCome ==
    ASSUME HInv, coming = <<>>, reply.head # "bare", Recognised(reply)
    PROVE  /\ phase \in {"body", "done"}
           /\ phase = "body" => body = Coded(reply) /\ Ended
<1>1. ReplyOK(reply)
  BY RepliesOK DEF HInv
<1>2. Wire(reply) \in Seq(Byte) /\ Len(Wire(reply)) >= 5
  <2>1. /\ Wire(reply) \in Seq(Byte) /\ Coded(reply) \in Seq(Byte)
        /\ Len(Wire(reply)) = 5 + Len(Coded(reply))
    BY <1>1, WireIs
  <2>2. QED
    BY <2>1
<1>3. phase # "connect"
  <2>1. Len(<<>>) = 0
    OBVIOUS
  <2>2. QED
    BY <1>2, <2>1 DEF HInv
<1>4. phase # "head"
  <2>1. SUFFICES ASSUME phase = "head" PROVE FALSE
    OBVIOUS
  <2>2. source \in Seq(Byte) /\ source \o <<>> = Wire(reply) /\ Len(source) <= 4
    BY <2>1 DEF HInv
  <2>3. source \o <<>> = source
    BY <2>2
  <2>4. QED
    BY <1>2, <2>2, <2>3
<1>5. ASSUME phase = "body"
      PROVE  body = Coded(reply) /\ Ended
  <2>1. body \in Seq(Byte) /\ body \o <<>> = Coded(reply)
    BY <1>5 DEF HInv
  <2>2. body \o <<>> = body
    BY <2>1
  <2>3. QED
    BY <1>1, <2>1, <2>2, WholeIsEnded
<1>6. QED
  BY <1>3, <1>4, <1>5 DEF HInv

\* A piece moves from what is coming to what has come.
LEMMA ReadMoves ==
    ASSUME NEW a \in Seq(Byte), coming \in Seq(Byte), NEW k \in 1..Len(coming), Arrives(k)
    PROVE  /\ coming' \in Seq(Byte) /\ a \o Piece(k) \in Seq(Byte)
           /\ (a \o Piece(k)) \o coming' = a \o coming
<1>1. /\ Piece(k) \in Seq(Byte) /\ SubSeq(coming, k + 1, Len(coming)) \in Seq(Byte)
      /\ Piece(k) \o SubSeq(coming, k + 1, Len(coming)) = coming
  BY CutIs DEF Piece
<1>2. coming' = SubSeq(coming, k + 1, Len(coming))
  BY DEF Arrives
<1>3. PICK b \in Seq(Byte), c \in Seq(Byte) : b = Piece(k) /\ c = coming' /\ b \o c = coming
  BY <1>1, <1>2
<1>4. (a \o b) \o c = a \o (b \o c)
  BY ZenonT(30), Associative
<1>5. a \o b \in Seq(Byte)
  BY ConcatAt
<1>6. QED
  BY <1>3, <1>4, <1>5

LEMMA ReadHeadHolds ==
    ASSUME HInv, NEW k \in 1..Len(coming), ReadHead(k)
    PROVE  HInv'
<1> DEFINE s == source \o Piece(k)
<1>1. /\ phase = "head" /\ reply' = reply /\ Arrives(k)
      /\ IF CanParseHeader(s) THEN ParseHeader(s)
         ELSE source' = s /\ UNCHANGED <<body, phase>>
  BY DEF ReadHead
<1>2. /\ reply \in Replies /\ coming \in Seq(Byte) /\ source \in Seq(Byte) /\ body = <<>>
      /\ source \o coming = Wire(reply)
  BY <1>1 DEF HInv
<1>3. s \in Seq(Byte) /\ coming' \in Seq(Byte) /\ s \o coming' = Wire(reply)
  BY <1>1, <1>2, ReadMoves
<1> DEFINE t == coming'
<1> HIDE DEF s, t
<1>4. /\ CanParseHeader(s) <=> Len(s) >= 5
      /\ CanParseHeader(s) =>
           /\ s[1] = reply.head
           /\ SubSeq(s, BodyStart(s), Len(s)) \in Seq(Byte)
           /\ SubSeq(s, BodyStart(s), Len(s)) \o t = Coded(reply)
  <2>1. ReplyOK(reply)
    BY <1>2, RepliesOK
  <2>2. t \in Seq(Byte) /\ s \o t = Wire(reply)
    BY <1>3 DEF t
  <2>3. QED
    BY <1>3, <2>1, <2>2, HeadIs
<1>5. CASE ~CanParseHeader(s)
  <2>1. source' = s /\ body' = body /\ phase' = phase
    BY <1>1, <1>5
  <2>2. Len(s) \in Nat /\ Len(s) <= 4
    BY <1>3, <1>4, <1>5
  <2>3. QED
    BY <1>1, <1>2, <1>3, <2>1, <2>2 DEF HInv
<1>6. CASE CanParseHeader(s) /\ s[1] = "bare"
  <2>1. phase' = "thrown" /\ reply.head = "bare"
    BY <1>1, <1>4, <1>6 DEF ParseHeader
  <2>2. QED
    BY <1>1, <1>2, <1>3, <2>1 DEF HInv
<1>7. CASE CanParseHeader(s) /\ s[1] # "bare"
  <2>1. phase' = "body" /\ body' = SubSeq(s, BodyStart(s), Len(s))
    BY <1>1, <1>7 DEF ParseHeader
  <2>2. body' \in Seq(Byte) /\ body' \o coming' = Coded(reply) /\ reply.head # "bare"
    BY <1>4, <1>7, <2>1 DEF t
  <2>3. QED
    BY <1>1, <1>2, <1>3, <2>1, <2>2 DEF HInv
<1>8. QED
  BY <1>5, <1>6, <1>7

LEMMA ReadBodyHolds ==
    ASSUME HInv, NEW k \in 1..Len(coming), ReadBody(k)
    PROVE  HInv'
<1>1. /\ phase = "body" /\ Arrives(k) /\ body' = body \o Piece(k)
      /\ reply' = reply /\ source' = source /\ phase' = phase
  BY DEF ReadBody
<1>2. /\ reply \in Replies /\ coming \in Seq(Byte) /\ body \in Seq(Byte)
      /\ body \o coming = Coded(reply) /\ reply.head # "bare"
  BY <1>1 DEF HInv
<1>3. /\ coming' \in Seq(Byte) /\ body' \in Seq(Byte) /\ body' \o coming' = Coded(reply)
  BY <1>1, <1>2, ReadMoves
<1>4. QED
  BY <1>1, <1>2, <1>3 DEF HInv

LEMMA FinishHolds ==
    ASSUME HInv, Finish
    PROVE  HInv'
<1>1. /\ phase = "body" /\ Ended /\ body' = ParseBody(body)
      /\ phase' = IF Contains(ParseBody(body), "thrown") THEN "thrown" ELSE "done"
      /\ reply' = reply /\ coming' = coming /\ source' = source
  BY DEF Finish
<1>2. /\ reply \in Replies /\ coming \in Seq(Byte) /\ body \in Seq(Byte)
      /\ body \o coming = Coded(reply) /\ reply.head # "bare" /\ ReplyOK(reply)
  BY <1>1, RepliesOK DEF HInv
<1>3. CASE Contains(ParseBody(body), "thrown")
  <2>1. phase' = "thrown"
    BY <1>1, <1>3
  <2>2. coming # <<>> \/ ~Recognised(reply)
    <3>1. SUFFICES ASSUME coming = <<>>, Recognised(reply) PROVE FALSE
      OBVIOUS
    <3>2. body = Coded(reply)
      BY <1>1, <1>2, <3>1, AllHasCome
    <3> DEFINE c == ParseBody(body)
    <3>3. c \in Seq(Byte)
      BY <1>2, <3>2, ParseBodyIs
    <3> HIDE DEF c
    <3>4. PICK i \in 1..Len(c) : c[i] = "thrown"
      BY <1>3 DEF Contains, c
    <3>5. c[i] \in Byte
      BY <3>3
    <3>6. "thrown" \notin Byte
      BY DEF Byte, HexDigits, CR, LF
    <3>7. QED
      BY <3>4, <3>5, <3>6
  <2>3. QED
    BY <1>1, <1>2, <2>1, <2>2 DEF HInv
<1>4. CASE ~Contains(ParseBody(body), "thrown")
  <2>1. phase' = "done"
    BY <1>1, <1>4
  <2>2. Plain(reply) => body' = Content(reply)
    <3>1. SUFFICES ASSUME Plain(reply) PROVE body' = Content(reply)
      OBVIOUS
    <3>2. body = Coded(reply)
      BY <1>1, <1>2, <3>1, EndedIsWhole DEF Plain
    <3>3. QED
      BY <1>1, <1>2, <3>2, ParseBodyIs
  <2>3. QED
    BY <1>1, <1>2, <2>1, <2>2 DEF HInv
<1>5. QED
  BY <1>3, <1>4

LEMMA NextHInv == HInv /\ [HNext]_hvars => HInv'
<1> SUFFICES ASSUME HInv, [HNext]_hvars PROVE HInv'
  OBVIOUS
<1>1. CASE Peer
  BY <1>1 DEF Peer, HInv
<1>2. CASE Connection
  <2>1. /\ phase = "connect" /\ phase' = IF peer = "open" THEN "head" ELSE "thrown"
        /\ reply' = reply /\ coming' = coming /\ source' = source /\ body' = body
    BY <1>2 DEF Connection
  <2>2. reply \in Replies /\ coming \in Seq(Byte) /\ coming = Wire(reply) /\ source = <<>> /\ body = <<>>
    BY <2>1 DEF HInv
  <2>3. coming # <<>>
    <3>1. Coded(reply) \in Seq(Byte) /\ Len(coming) = 5 + Len(Coded(reply))
      BY <2>2, RepliesOK, WireIs
    <3>2. QED
      BY <3>1
  <2>4. source \in Seq(Byte) /\ source \o coming = coming /\ Len(source) = 0
    BY <2>2
  <2>5. QED
    BY <2>1, <2>2, <2>3, <2>4 DEF HInv
<1>3. CASE ReadFails
  <2>1. /\ phase = "head" \/ (phase = "body" /\ ~Ended)
        /\ phase' = "thrown"
        /\ reply' = reply /\ coming' = coming /\ source' = source /\ body' = body
    BY <1>3 DEF ReadFails
  <2>2. reply.head = "bare" \/ coming # <<>> \/ ~Recognised(reply)
    BY <2>1, AllHasCome
  <2>3. QED
    BY <2>1, <2>2 DEF HInv
<1>4. CASE Finish
  BY <1>4, FinishHolds
<1>5. ASSUME NEW k \in 1..Len(coming), ReadHead(k)
      PROVE  HInv'
  BY <1>5, ReadHeadHolds
<1>6. ASSUME NEW k \in 1..Len(coming), ReadBody(k)
      PROVE  HInv'
  BY <1>6, ReadBodyHolds
<1>7. CASE UNCHANGED hvars
  BY <1>7 DEF hvars, HInv
<1>8. QED
  BY <1>1, <1>2, <1>3, <1>4, <1>5, <1>6, <1>7 DEF HNext

LEMMA InvariantHolds == HSpec => []HInv
BY InitHInv, NextHInv, PTL DEF HSpec

\* The body that the client returns is the body that the peer sent, in whatever
\* pieces recv returned the reply (ReadResponse, check_end, ParseBody), unless a
\* chunk holds a line of zeros, which check_end may take for the end.
THEOREM BodyIsWholeHolds == HSpec => []BodyIsWhole
<1>1. HInv => BodyIsWhole
  BY DEF HInv, BodyIsWhole, Plain
<1>2. QED
  BY <1>1, InvariantHolds, PTL

\* A reply that has come whole is answered, or will be by the next step of the
\* client itself: check_end sees its end, whatever the peer does then.
THEOREM WholeReplyIsAnsweredHolds == HSpec => []WholeReplyIsAnswered
<1>1. HInv => WholeReplyIsAnswered
  BY AllHasCome DEF WholeReplyIsAnswered
<1>2. QED
  BY <1>1, InvariantHolds, PTL
=============================================================================
