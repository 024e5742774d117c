------------------------------ MODULE FramesProofs ------------------------------
(***************************************************************************)
(* Code runs in its own frame, whatever scripts do; and the collector finds *)
(* every frame, when scripts neither use eval nor evaluate anything for an *)
(* argument.  A return leaves exactly the function it is written in, when  *)
(* nothing is evaluated once it was reached.                               *)
(***************************************************************************)
EXTENDS Frames, WellFoundedInduction, TLAPS

\* No eval began in the calls of cs from i to k: they run on the same frames.
SameFrames(cs, i, k) == \A m \in i..k : cs[m].saved = <<>>

\* The call a finds its frame in the stack c.
Fits(a, c) ==
    a.kind \in {"call", "block"} => a.depth \in 2..Len(c) /\ c[a.depth] = a.scope

\* The first call is the program; each call is as high as the one it is nested
\* in, or one frame higher.
Nesting(cs) ==
    /\ cs[1].kind = "run" /\ cs[1].depth = 1 /\ cs[1].saved = <<>>
    /\ \A i \in 1..Len(cs) - 1 :
        /\ cs[i + 1].kind \in {"call", "block"} => cs[i + 1].depth = cs[i].depth + 1
        /\ cs[i + 1].kind \in {"run", "args"} /\ cs[i + 1].saved = <<>>
              => cs[i + 1].depth = cs[i].depth

Rising(cs) ==
    \A i, j \in 1..Len(cs) :
        i <= j /\ SameFrames(cs, i + 1, j) => cs[i].depth <= cs[j].depth

\* What eval saved is what the code it returns to expects.
SavedFits(cs, k) ==
    /\ cs[k].kind = "run" /\ cs[k].depth = 1 /\ k > 1
    /\ cs[k].saved[1] = Global
    /\ cs[k - 1].depth = Len(cs[k].saved)
    /\ \A j \in 1..k - 1 : SameFrames(cs, j + 1, k - 1) => Fits(cs[j], cs[k].saved)

Saved(cs) == \A k \in 1..Len(cs) : cs[k].saved # <<>> => SavedFits(cs, k)

OnTop(cs, c) ==
    /\ c[1] = Global
    /\ cs[Len(cs)].depth = Len(c)
    /\ \A j \in 1..Len(cs) : SameFrames(cs, j + 1, Len(cs)) => Fits(cs[j], c)

CallStack == Seq(Activation) \ {<<>>}
CtxStack == Seq(Scope) \ {<<>>}

FramesOK(cs, c) == Nesting(cs) /\ Rising(cs) /\ Saved(cs) /\ OnTop(cs, c)

FrameInv == TypeOK /\ FramesOK(calls, ctx)

USE ScopeAssumption

-----------------------------------------------------------------------------
(* The shape of the steps. *)

LEMMA Typed ==
    ASSUME NEW cs \in CallStack
    PROVE  /\ Len(cs) \in Nat \ {0}
           /\ \A i \in 1..Len(cs) :
                /\ cs[i] \in Activation /\ cs[i].kind \in Kind
                /\ cs[i].scope \in Scope /\ cs[i].depth \in Nat
                /\ cs[i].saved \in Seq(Scope)
<1>1. \A i \in 1..Len(cs) : cs[i] \in Activation
  BY DEF CallStack
<1>2. \A a \in Activation : /\ a.kind \in Kind /\ a.scope \in Scope
                            /\ a.depth \in Nat /\ a.saved \in Seq(Scope)
  BY DEF Activation
<1>3. QED
  BY <1>1, <1>2 DEF CallStack

\* The calls of ds are those of cs, up to the statement they are in.
Alike(a, b) ==
    a.kind = b.kind /\ a.scope = b.scope /\ a.depth = b.depth /\ a.saved = b.saved

LEMMA AlikeSameFrames ==
    ASSUME NEW cs \in CallStack, NEW ds \in CallStack, NEW n \in Nat,
           n <= Len(cs), n <= Len(ds), \A i \in 1..n : Alike(ds[i], cs[i]),
           NEW i \in 1..n, NEW j \in 0..n
    PROVE  SameFrames(ds, i + 1, j) <=> SameFrames(cs, i + 1, j)
<1>1. \A m \in i + 1..j : m \in 1..n
  OBVIOUS
<1>2. \A m \in i + 1..j : ds[m].saved = cs[m].saved
  BY <1>1 DEF Alike
<1>3. QED
  BY <1>2 DEF SameFrames

\* The part of FramesOK about the first n calls depends on these only.
LEMMA AlikePart ==
    ASSUME NEW cs \in CallStack, NEW ds \in CallStack, NEW n \in Nat,
           n <= Len(cs), n <= Len(ds), \A i \in 1..n : Alike(ds[i], cs[i]),
           Nesting(cs), Rising(cs), Saved(cs)
    PROVE  /\ \A i \in 1..n : i > 1 =>
               /\ ds[i].kind \in {"call", "block"} => ds[i].depth = ds[i - 1].depth + 1
               /\ ds[i].kind \in {"run", "args"} /\ ds[i].saved = <<>>
                     => ds[i].depth = ds[i - 1].depth
           /\ \A i, j \in 1..n :
               i <= j /\ SameFrames(ds, i + 1, j) => ds[i].depth <= ds[j].depth
           /\ \A k \in 1..n : ds[k].saved # <<>> => SavedFits(ds, k)
<1>1. Len(cs) \in Nat \ {0} /\ Len(ds) \in Nat \ {0}
  BY Typed
<1>2. ASSUME NEW i \in 1..n, i > 1
      PROVE  /\ ds[i].kind \in {"call", "block"} => ds[i].depth = ds[i - 1].depth + 1
             /\ ds[i].kind \in {"run", "args"} /\ ds[i].saved = <<>>
                   => ds[i].depth = ds[i - 1].depth
  <2>1. /\ i - 1 \in 1..Len(cs) - 1 /\ (i - 1) + 1 = i
        /\ Alike(ds[i], cs[i]) /\ Alike(ds[i - 1], cs[i - 1])
    BY <1>1, <1>2
  <2>2. QED
    BY <2>1 DEF Nesting, Alike
<1>3. ASSUME NEW i \in 1..n, NEW j \in 1..n, i <= j, SameFrames(ds, i + 1, j)
      PROVE  ds[i].depth <= ds[j].depth
  <2>1. SameFrames(cs, i + 1, j)
    BY <1>3, AlikeSameFrames
  <2>2. QED
    BY <1>1, <1>3, <2>1 DEF Rising, Alike
<1>4. ASSUME NEW k \in 1..n, ds[k].saved # <<>>
      PROVE  SavedFits(ds, k)
  <2>1. cs[k].saved # <<>> /\ k \in 1..Len(cs) /\ ds[k].saved = cs[k].saved
    BY <1>1, <1>4 DEF Alike
  <2>2. SavedFits(cs, k)
    BY <2>1 DEF Saved
  <2>3. k - 1 \in 1..n
    BY <2>2 DEF SavedFits
  <2>4. ASSUME NEW j \in 1..k - 1, SameFrames(ds, j + 1, k - 1)
        PROVE  Fits(ds[j], ds[k].saved)
    <3>1. j \in 1..n /\ Alike(ds[j], cs[j])
      BY <2>3
    <3>2. SameFrames(cs, j + 1, k - 1)
      <4>1. k - 1 \in 0..n
        BY <2>3
      <4>2. QED
        BY <2>4, <3>1, <4>1, AlikeSameFrames
    <3>3. Fits(cs[j], cs[k].saved)
      BY <2>2, <3>2 DEF SavedFits
    <3>4. QED
      BY <2>1, <3>1, <3>3 DEF Fits, Alike
  <2>5. QED
    BY <2>1, <2>2, <2>3, <2>4 DEF SavedFits, Alike
<1>5. QED
  BY <1>2, <1>3, <1>4

LEMMA KeptCalls ==
    ASSUME NEW cs \in CallStack, NEW ds \in CallStack,
           Len(ds) <= Len(cs), \A i \in 1..Len(ds) : Alike(ds[i], cs[i]),
           Nesting(cs), Rising(cs), Saved(cs)
    PROVE  Nesting(ds) /\ Rising(ds) /\ Saved(ds)
<1>1. Len(cs) \in Nat \ {0} /\ Len(ds) \in Nat \ {0}
  BY Typed
<1>2. /\ \A i \in 1..Len(ds) : i > 1 =>
           /\ ds[i].kind \in {"call", "block"} => ds[i].depth = ds[i - 1].depth + 1
           /\ ds[i].kind \in {"run", "args"} /\ ds[i].saved = <<>>
                 => ds[i].depth = ds[i - 1].depth
      /\ Rising(ds) /\ Saved(ds)
  BY <1>1, AlikePart DEF Rising, Saved
<1>3. Alike(ds[1], cs[1])
  BY <1>1
<1>4. \A i \in 1..Len(ds) - 1 : i + 1 \in 1..Len(ds) /\ i + 1 > 1 /\ (i + 1) - 1 = i
  BY <1>1
<1>5. Nesting(ds)
  BY <1>2, <1>3, <1>4 DEF Nesting, Alike
<1>6. QED
  BY <1>2, <1>5

\* A nested call, block or program is on the frames of the call it is nested in,
\* or one higher; or eval saved these frames.
Nested(cs, a) ==
    \/ /\ a.kind \in {"call", "block"} /\ a.saved = <<>>
       /\ a.depth = cs[Len(cs)].depth + 1
    \/ /\ a.kind \in {"run", "args"} /\ a.saved = <<>>
       /\ a.depth = cs[Len(cs)].depth
    \/ /\ a.kind = "run" /\ a.depth = 1
       /\ a.saved \in CtxStack /\ OnTop(cs, a.saved)

LEMMA AddedCall ==
    ASSUME NEW cs \in CallStack, NEW ds \in CallStack,
           Len(ds) = Len(cs) + 1, \A i \in 1..Len(cs) : Alike(ds[i], cs[i]),
           Nested(cs, ds[Len(ds)]),
           Nesting(cs), Rising(cs), Saved(cs)
    PROVE  Nesting(ds) /\ Rising(ds) /\ Saved(ds)
<1> DEFINE n == Len(cs)
           a == ds[n + 1]
<1>1. /\ n \in Nat \ {0} /\ Len(ds) = n + 1
      /\ \A i \in 1..n : cs[i].depth \in Nat /\ cs[i].saved \in Seq(Scope)
      /\ \A i \in 1..n + 1 : ds[i].depth \in Nat /\ ds[i].saved \in Seq(Scope)
  <2>1. n \in Nat \ {0} /\ \A i \in 1..n : cs[i].depth \in Nat /\ cs[i].saved \in Seq(Scope)
    BY Typed
  <2>2. \A i \in 1..Len(ds) : ds[i].depth \in Nat /\ ds[i].saved \in Seq(Scope)
    BY Typed
  <2>3. QED
    BY <2>1, <2>2
<1>0. Nested(cs, a)
  BY <1>1
<1>2. /\ \A i \in 1..n : i > 1 =>
           /\ ds[i].kind \in {"call", "block"} => ds[i].depth = ds[i - 1].depth + 1
           /\ ds[i].kind \in {"run", "args"} /\ ds[i].saved = <<>>
                 => ds[i].depth = ds[i - 1].depth
      /\ \A i, j \in 1..n :
           i <= j /\ SameFrames(ds, i + 1, j) => ds[i].depth <= ds[j].depth
      /\ \A k \in 1..n : ds[k].saved # <<>> => SavedFits(ds, k)
  <2>1. n \in Nat /\ n <= Len(cs) /\ n <= Len(ds) /\ \A i \in 1..n : Alike(ds[i], cs[i])
    BY <1>1
  <2> HIDE DEF n, a
  <2>2. QED
    BY <2>1, AlikePart
<1>3. Alike(ds[1], cs[1]) /\ Alike(ds[n], cs[n])
  BY <1>1
<1>4. Nesting(ds)
  <2>1. ASSUME NEW i \in 1..n
        PROVE  /\ ds[i + 1].kind \in {"call", "block"} => ds[i + 1].depth = ds[i].depth + 1
               /\ ds[i + 1].kind \in {"run", "args"} /\ ds[i + 1].saved = <<>>
                     => ds[i + 1].depth = ds[i].depth
    <3>1. CASE i = n
      BY <1>0, <1>1, <1>3, <3>1 DEF Nested, Alike, CtxStack
    <3>2. CASE i < n
      <4>1. i + 1 \in 1..n /\ i + 1 > 1 /\ (i + 1) - 1 = i
        BY <1>1, <3>2
      <4>2. QED
        BY <1>2, <4>1
    <3>3. QED
      BY <1>1, <3>1, <3>2
  <2>2. Len(ds) - 1 = n
    BY <1>1
  <2>3. QED
    BY <1>3, <2>1, <2>2 DEF Nesting, Alike
<1>5. Rising(ds)
  <2>1. ASSUME NEW i \in 1..n, SameFrames(ds, i + 1, n + 1)
        PROVE  ds[i].depth <= a.depth
    <3>1. SameFrames(ds, i + 1, n) /\ a.saved = <<>>
      BY <1>1, <2>1 DEF SameFrames
    <3>2. ds[i].depth <= ds[n].depth
      BY <1>1, <1>2, <3>1
    <3>3. a.depth = cs[n].depth + 1 \/ a.depth = cs[n].depth
      BY <1>0, <3>1 DEF Nested, CtxStack
    <3>4. ds[n].depth = cs[n].depth /\ cs[n].depth \in Nat /\ ds[i].depth \in Nat
      BY <1>1, <1>3 DEF Alike
    <3>5. QED
      BY <3>2, <3>3, <3>4
  <2>2. SUFFICES ASSUME NEW i \in 1..n + 1, NEW j \in 1..n + 1, i <= j,
                        SameFrames(ds, i + 1, j)
                 PROVE  ds[i].depth <= ds[j].depth
    BY <1>1 DEF Rising
  <2>3. CASE j <= n
    BY <1>1, <1>2, <2>2, <2>3
  <2>4. CASE j = n + 1 /\ i <= n
    BY <1>1, <2>1, <2>2, <2>4
  <2>5. CASE i = n + 1
    BY <1>1, <2>2, <2>5
  <2>6. QED
    BY <1>1, <2>2, <2>3, <2>4, <2>5
<1>6. Saved(ds)
  <2>1. ASSUME a.saved # <<>>
        PROVE  SavedFits(ds, n + 1)
    <3>1. a.kind = "run" /\ a.depth = 1 /\ OnTop(cs, a.saved)
      BY <1>0, <2>1 DEF Nested
    <3>2. ASSUME NEW j \in 1..n, SameFrames(ds, j + 1, n)
          PROVE  Fits(ds[j], a.saved)
      <4>1. SameFrames(cs, j + 1, n) /\ Alike(ds[j], cs[j])
        <5>1. /\ n \in Nat /\ n <= Len(cs) /\ n <= Len(ds) /\ n \in 0..n
              /\ \A i \in 1..n : Alike(ds[i], cs[i])
          BY <1>1
        <5> HIDE DEF n, a
        <5>2. QED
          BY <5>1, <3>2, AlikeSameFrames
      <4>2. Fits(cs[j], a.saved)
        BY <3>1, <4>1 DEF OnTop
      <4>3. QED
        BY <4>1, <4>2 DEF Fits, Alike
    <3>3. (n + 1) - 1 = n /\ n + 1 > 1
      BY <1>1
    <3>4. ds[n].depth = Len(a.saved) /\ a.saved[1] = Global
      BY <1>3, <3>1 DEF OnTop, Alike
    <3>5. QED
      BY <3>1, <3>2, <3>3, <3>4 DEF SavedFits
  <2>2. \A k \in 1..n + 1 : k \in 1..n \/ k = n + 1
    BY <1>1
  <2>3. QED
    BY <1>1, <1>2, <2>1, <2>2 DEF Saved
<1>7. QED
  BY <1>4, <1>5, <1>6

-----------------------------------------------------------------------------
(* What each way to change the two stacks preserves. *)

LEMMA SameCalls ==
    ASSUME NEW cs \in CallStack, NEW ds \in CallStack, NEW c \in CtxStack,
           Len(ds) = Len(cs), \A i \in 1..Len(cs) : Alike(ds[i], cs[i]),
           FramesOK(cs, c)
    PROVE  FramesOK(ds, c)
<1>1. Len(cs) \in Nat \ {0} /\ Alike(ds[Len(ds)], cs[Len(cs)])
  BY Typed
<1>2. Nesting(ds) /\ Rising(ds) /\ Saved(ds)
  BY <1>1, KeptCalls DEF FramesOK
<1>3. ASSUME NEW j \in 1..Len(ds), SameFrames(ds, j + 1, Len(ds))
      PROVE  Fits(ds[j], c)
  <2>1. SameFrames(cs, j + 1, Len(cs))
    BY <1>1, <1>3, AlikeSameFrames
  <2>2. Fits(cs[j], c) /\ Alike(ds[j], cs[j])
    BY <2>1 DEF FramesOK, OnTop
  <2>3. QED
    BY <2>2 DEF Fits, Alike
<1>4. QED
  BY <1>1, <1>2, <1>3 DEF FramesOK, OnTop, Alike

LEMMA Pushed ==
    ASSUME NEW cs \in CallStack, NEW a \in Activation
    PROVE  /\ Append(cs, a) \in CallStack
           /\ Len(Append(cs, a)) = Len(cs) + 1 /\ Append(cs, a)[Len(cs) + 1] = a
           /\ \A i \in 1..Len(cs) : Append(cs, a)[i] = cs[i]
BY DEF CallStack

\* The calls that fitted c still do, as long as c keeps the frames below theirs.
LEMMA BelowPushed ==
    ASSUME NEW cs \in CallStack, NEW a \in Activation, NEW c, OnTop(cs, c),
           a.saved = <<>>,
           NEW j \in 1..Len(cs), SameFrames(Append(cs, a), j + 1, Len(cs) + 1)
    PROVE  Fits(cs[j], c)
<1>1. Len(cs) \in Nat \ {0}
  BY Typed
<1>2. SameFrames(cs, j + 1, Len(cs))
  <2>1. \A m \in j + 1..Len(cs) : m \in 1..Len(cs) /\ m \in j + 1..Len(cs) + 1
    BY <1>1
  <2>2. QED
    BY <2>1, Pushed DEF SameFrames
<1>3. QED
  BY <1>2 DEF OnTop

LEMMA PushFrame ==
    ASSUME NEW cs \in CallStack, NEW c \in CtxStack, NEW a \in Activation,
           FramesOK(cs, c),
           a.kind \in {"call", "block"}, a.saved = <<>>, a.depth = Len(c) + 1
    PROVE  FramesOK(Append(cs, a), Append(c, a.scope))
<1> DEFINE ds == Append(cs, a)
           d == Append(c, a.scope)
<1>1. /\ Len(cs) \in Nat \ {0} /\ ds \in CallStack /\ Len(ds) = Len(cs) + 1
      /\ ds[Len(ds)] = a /\ \A i \in 1..Len(cs) : ds[i] = cs[i]
  BY Typed, Pushed
<1>2. /\ Len(c) \in Nat \ {0} /\ Len(d) = Len(c) + 1 /\ d[Len(c) + 1] = a.scope
      /\ \A i \in 1..Len(c) : d[i] = c[i]
  BY DEF CtxStack, Activation
<1>3. Nesting(ds) /\ Rising(ds) /\ Saved(ds)
  <2>1. Nested(cs, ds[Len(ds)]) /\ \A i \in 1..Len(cs) : Alike(ds[i], cs[i])
    BY <1>1 DEF Nested, FramesOK, OnTop, Alike
  <2>2. Nesting(cs) /\ Rising(cs) /\ Saved(cs)
    BY DEF FramesOK
  <2> HIDE DEF ds
  <2>3. QED
    BY <1>1, <2>1, <2>2, AddedCall
<1>4. ASSUME NEW j \in 1..Len(ds), SameFrames(ds, j + 1, Len(ds))
      PROVE  Fits(ds[j], d)
  <2>1. CASE j = Len(ds)
    BY <1>1, <1>2, <2>1 DEF Fits
  <2>2. CASE j \in 1..Len(cs)
    <3>1. Fits(cs[j], c)
      BY <1>1, <1>4, <2>2, BelowPushed DEF FramesOK
    <3>2. QED
      BY <1>1, <1>2, <2>2, <3>1 DEF Fits
  <2>3. QED
    BY <1>1, <2>1, <2>2
<1>5. d[1] = Global
  BY <1>2 DEF FramesOK, OnTop
<1>6. QED
  BY <1>1, <1>2, <1>3, <1>4, <1>5 DEF FramesOK, OnTop

LEMMA PushCall ==
    ASSUME NEW cs \in CallStack, NEW c \in CtxStack, NEW a \in Activation,
           FramesOK(cs, c),
           a.kind \in {"run", "args"}, a.saved = <<>>, a.depth = Len(c)
    PROVE  FramesOK(Append(cs, a), c)
<1> DEFINE ds == Append(cs, a)
<1>1. /\ Len(cs) \in Nat \ {0} /\ ds \in CallStack /\ Len(ds) = Len(cs) + 1
      /\ ds[Len(ds)] = a /\ \A i \in 1..Len(cs) : ds[i] = cs[i]
  BY Typed, Pushed
<1>2. Nesting(ds) /\ Rising(ds) /\ Saved(ds)
  <2>1. Nested(cs, ds[Len(ds)]) /\ \A i \in 1..Len(cs) : Alike(ds[i], cs[i])
    BY <1>1 DEF Nested, FramesOK, OnTop, Alike
  <2>2. Nesting(cs) /\ Rising(cs) /\ Saved(cs)
    BY DEF FramesOK
  <2> HIDE DEF ds
  <2>3. QED
    BY <1>1, <2>1, <2>2, AddedCall
<1>3. ASSUME NEW j \in 1..Len(ds), SameFrames(ds, j + 1, Len(ds))
      PROVE  Fits(ds[j], c)
  <2>1. CASE j = Len(ds)
    BY <1>1, <2>1 DEF Fits
  <2>2. CASE j \in 1..Len(cs)
    BY <1>1, <1>3, <2>2, BelowPushed DEF FramesOK
  <2>3. QED
    BY <1>1, <2>1, <2>2
<1>4. QED
  BY <1>1, <1>2, <1>3 DEF FramesOK, OnTop

LEMMA PushEval ==
    ASSUME NEW cs \in CallStack, NEW c \in CtxStack, NEW a \in Activation,
           FramesOK(cs, c), a.kind = "run", a.saved = c, a.depth = 1
    PROVE  FramesOK(Append(cs, a), SubSeq(c, 1, 1))
<1> DEFINE ds == Append(cs, a)
           d == SubSeq(c, 1, 1)
<1>1. /\ Len(cs) \in Nat \ {0} /\ ds \in CallStack /\ Len(ds) = Len(cs) + 1
      /\ ds[Len(ds)] = a /\ \A i \in 1..Len(cs) : ds[i] = cs[i]
  BY Typed, Pushed
<1>2. Len(d) = 1 /\ d[1] = c[1]
  BY DEF CtxStack
<1>3. Nesting(ds) /\ Rising(ds) /\ Saved(ds)
  <2>1. Nested(cs, ds[Len(ds)]) /\ \A i \in 1..Len(cs) : Alike(ds[i], cs[i])
    BY <1>1 DEF Nested, FramesOK, Alike
  <2>2. Nesting(cs) /\ Rising(cs) /\ Saved(cs)
    BY DEF FramesOK
  <2> HIDE DEF ds
  <2>3. QED
    BY <1>1, <2>1, <2>2, AddedCall
<1>4. ASSUME NEW j \in 1..Len(ds), SameFrames(ds, j + 1, Len(ds))
      PROVE  Fits(ds[j], d)
  <2>1. a.saved # <<>>
    BY DEF CtxStack
  <2>2. j = Len(ds)
    BY <1>1, <1>4, <2>1 DEF SameFrames
  <2>3. QED
    BY <1>1, <2>2 DEF Fits
<1>5. QED
  BY <1>1, <1>2, <1>3, <1>4 DEF FramesOK, OnTop

LEMMA Popped ==
    ASSUME NEW cs \in CallStack, Len(cs) > 1, Nesting(cs), Rising(cs), Saved(cs),
           NEW n, n = Len(cs) - 1, NEW ds, ds = SubSeq(cs, 1, n)
    PROVE  /\ n \in Nat \ {0} /\ Len(cs) = n + 1
           /\ ds \in CallStack /\ Len(ds) = n /\ \A i \in 1..n : ds[i] = cs[i]
           /\ Nesting(ds) /\ Rising(ds) /\ Saved(ds)
           /\ \A j \in 1..n : SameFrames(ds, j + 1, n) <=> SameFrames(cs, j + 1, n)
<1>1. n \in Nat \ {0} /\ Len(cs) = n + 1
  BY Typed
<1>2. ds \in CallStack /\ Len(ds) = n /\ \A i \in 1..n : ds[i] = cs[i]
  <2>1. cs \in Seq(Activation) /\ n \in 0..Len(cs)
    BY <1>1 DEF CallStack
  <2>2. ds \in Seq(Activation) /\ Len(ds) = n /\ \A i \in 1..n : ds[i] = cs[i]
    BY <2>1
  <2>3. QED
    BY <1>1, <2>2 DEF CallStack
<1>3. n <= Len(cs) /\ n <= Len(ds) /\ \A i \in 1..n : Alike(ds[i], cs[i])
  BY <1>1, <1>2 DEF Alike
<1>4. Nesting(ds) /\ Rising(ds) /\ Saved(ds)
  BY <1>2, <1>3, KeptCalls
<1>5. \A j \in 1..n : SameFrames(ds, j + 1, n) <=> SameFrames(cs, j + 1, n)
  <2>1. n \in Nat /\ n \in 0..n
    BY <1>1
  <2>2. QED
    BY <1>2, <1>3, <2>1, AlikeSameFrames
<1>6. QED
  BY <1>1, <1>2, <1>4, <1>5

\* A call whose frames are not saved by an eval runs on those of the call below.
LEMMA SameFramesBelow ==
    ASSUME NEW cs, NEW n \in Nat, cs[n + 1].saved = <<>>,
           NEW j \in 1..n, SameFrames(cs, j + 1, n)
    PROVE  SameFrames(cs, j + 1, n + 1)
<1>1. \A m \in j + 1..n + 1 : m \in j + 1..n \/ m = n + 1
  OBVIOUS
<1>2. QED
  BY <1>1 DEF SameFrames

LEMMA PopFrame ==
    ASSUME NEW cs \in CallStack, NEW c \in CtxStack, FramesOK(cs, c),
           cs[Len(cs)].kind \in {"call", "block"}
    PROVE  /\ Len(cs) > 1 /\ Len(c) > 1
           /\ FramesOK(SubSeq(cs, 1, Len(cs) - 1), SubSeq(c, 1, Len(c) - 1))
<1> DEFINE n == Len(cs) - 1
           ds == SubSeq(cs, 1, n)
           d == SubSeq(c, 1, Len(c) - 1)
<1>1. Nesting(cs) /\ Rising(cs) /\ Saved(cs) /\ OnTop(cs, c)
  BY DEF FramesOK
<1>2. Len(cs) > 1 /\ cs[Len(cs)].saved = <<>>
  BY <1>1, Typed DEF Nesting, Saved, SavedFits
<1>3. /\ n \in Nat \ {0} /\ Len(cs) = n + 1
      /\ ds \in CallStack /\ Len(ds) = n /\ \A i \in 1..n : ds[i] = cs[i]
      /\ Nesting(ds) /\ Rising(ds) /\ Saved(ds)
      /\ \A j \in 1..n : SameFrames(ds, j + 1, n) <=> SameFrames(cs, j + 1, n)
  BY <1>1, <1>2, Popped
<1>4. Len(c) \in Nat \ {0} /\ Len(c) > 1
  <2>1. SameFrames(cs, Len(cs) + 1, Len(cs))
    BY <1>3 DEF SameFrames
  <2>2. Fits(cs[Len(cs)], c)
    BY <1>1, <1>3, <2>1 DEF OnTop
  <2>3. QED
    BY <2>2 DEF Fits, CtxStack
<1>5. /\ Len(d) = Len(c) - 1 /\ d[1] = c[1]
      /\ \A i \in 1..Len(c) - 1 : d[i] = c[i]
  BY <1>4 DEF CtxStack
<1>6. cs[n].depth = Len(c) - 1 /\ \A i \in 1..n : cs[i].depth \in Nat
  <2>1. \A i \in 1..Len(cs) : cs[i].depth \in Nat
    BY Typed
  <2>2. n \in 1..Len(cs) - 1 /\ n \in 1..Len(cs)
    BY <1>3
  <2>3. cs[n + 1].depth = cs[n].depth + 1 /\ cs[n + 1].depth = Len(c)
    BY <1>1, <1>3, <2>2 DEF Nesting, OnTop
  <2>4. QED
    BY <1>3, <1>4, <2>1, <2>2, <2>3
<1>7. ASSUME NEW j \in 1..n, SameFrames(ds, j + 1, n)
      PROVE  Fits(ds[j], d)
  <2>1. SameFrames(cs, j + 1, n) /\ SameFrames(cs, j + 1, Len(cs))
    BY <1>2, <1>3, <1>7, SameFramesBelow
  <2>2. Fits(cs[j], c)
    BY <1>1, <1>3, <2>1 DEF OnTop
  <2>3. cs[j].depth <= Len(c) - 1
    BY <1>1, <1>3, <1>6, <2>1 DEF Rising
  <2>4. ASSUME cs[j].kind \in {"call", "block"}
        PROVE  cs[j].depth \in 2..Len(d) /\ d[cs[j].depth] = cs[j].scope
    <3>1. cs[j].depth \in 2..Len(c) /\ c[cs[j].depth] = cs[j].scope
      BY <2>2, <2>4 DEF Fits
    <3> HIDE DEF d, n
    <3>2. QED
      BY <1>4, <1>5, <2>3, <3>1
  <2>5. QED
    BY <1>3, <2>4 DEF Fits
<1>8. FramesOK(ds, d)
  <2>1. d[1] = Global /\ ds[Len(ds)].depth = Len(d)
    <3>1. c[1] = Global /\ n \in 1..n
      BY <1>1, <1>3 DEF OnTop
    <3> HIDE DEF d, ds, n
    <3>2. QED
      BY <1>3, <1>5, <1>6, <3>1
  <2>2. \A j \in 1..Len(ds) : SameFrames(ds, j + 1, Len(ds)) => Fits(ds[j], d)
    BY <1>3, <1>7
  <2> HIDE DEF d, ds
  <2>3. QED
    BY <1>3, <2>1, <2>2 DEF FramesOK, OnTop
<1>9. QED
  BY <1>2, <1>4, <1>8

LEMMA PopCall ==
    ASSUME NEW cs \in CallStack, NEW c \in CtxStack, FramesOK(cs, c), Len(cs) > 1,
           cs[Len(cs)].kind \in {"run", "args"}, cs[Len(cs)].saved = <<>>
    PROVE  FramesOK(SubSeq(cs, 1, Len(cs) - 1), c)
<1> DEFINE n == Len(cs) - 1
           ds == SubSeq(cs, 1, n)
<1>1. Nesting(cs) /\ Rising(cs) /\ Saved(cs) /\ OnTop(cs, c)
  BY DEF FramesOK
<1>2. /\ n \in Nat \ {0} /\ Len(cs) = n + 1
      /\ ds \in CallStack /\ Len(ds) = n /\ \A i \in 1..n : ds[i] = cs[i]
      /\ Nesting(ds) /\ Rising(ds) /\ Saved(ds)
      /\ \A j \in 1..n : SameFrames(ds, j + 1, n) <=> SameFrames(cs, j + 1, n)
  BY <1>1, Popped
<1>3. cs[n].depth = Len(c)
  <2>1. n \in 1..Len(cs) - 1
    BY <1>2
  <2>2. QED
    BY <1>1, <1>2, <2>1 DEF Nesting, OnTop
<1>4. ASSUME NEW j \in 1..n, SameFrames(ds, j + 1, n)
      PROVE  Fits(ds[j], c)
  <2>1. SameFrames(cs, j + 1, Len(cs))
    BY <1>2, <1>4, SameFramesBelow
  <2>2. QED
    BY <1>1, <1>2, <2>1 DEF OnTop
<1>5. QED
  BY <1>1, <1>2, <1>3, <1>4 DEF FramesOK, OnTop

\* What eval puts back is what it saved.
LEMMA PopEval ==
    ASSUME NEW cs \in CallStack, NEW c \in CtxStack, FramesOK(cs, c),
           cs[Len(cs)].saved # <<>>
    PROVE  /\ Len(cs) > 1 /\ c \o Tail(cs[Len(cs)].saved) = cs[Len(cs)].saved
           /\ FramesOK(SubSeq(cs, 1, Len(cs) - 1), cs[Len(cs)].saved)
<1> DEFINE n == Len(cs) - 1
           ds == SubSeq(cs, 1, n)
           s == cs[Len(cs)].saved
<1>1. Nesting(cs) /\ Rising(cs) /\ Saved(cs) /\ OnTop(cs, c) /\ SavedFits(cs, Len(cs))
  BY Typed DEF FramesOK, Saved
<1>2. Len(cs) > 1
  BY <1>1 DEF SavedFits
<1>3. /\ n \in Nat \ {0} /\ Len(cs) = n + 1
      /\ ds \in CallStack /\ Len(ds) = n /\ \A i \in 1..n : ds[i] = cs[i]
      /\ Nesting(ds) /\ Rising(ds) /\ Saved(ds)
      /\ \A j \in 1..n : SameFrames(ds, j + 1, n) <=> SameFrames(cs, j + 1, n)
  BY <1>1, <1>2, Popped
<1>4. c \o Tail(s) = s
  <2>1. s \in Seq(Scope) /\ s # <<>> /\ c \in Seq(Scope) /\ c[1] = s[1] /\ Len(c) = 1
    BY <1>1, Typed DEF CtxStack, OnTop, SavedFits
  <2>2. c = <<s[1]>>
    BY <2>1
  <2> HIDE DEF s
  <2>3. <<s[1]>> \o Tail(s) = s
    BY <2>1
  <2>4. QED
    BY <2>2, <2>3
<1>5. ASSUME NEW j \in 1..n, SameFrames(ds, j + 1, n)
      PROVE  Fits(ds[j], s)
  <2>1. Len(cs) - 1 = n
    OBVIOUS
  <2>2. SameFrames(cs, j + 1, n)
    BY <1>3, <1>5
  <2>3. Fits(cs[j], s)
    BY <1>1, <2>1, <2>2 DEF SavedFits
  <2>4. QED
    BY <1>3, <2>3
<1>6. QED
  BY <1>1, <1>2, <1>3, <1>4, <1>5 DEF FramesOK, OnTop, SavedFits

-----------------------------------------------------------------------------
(* The steps. *)

LEMMA StartedIs ==
    ASSUME NEW k \in Kind, NEW s \in Scope, NEW d \in Nat, NEW c \in Seq(Scope)
    PROVE  /\ Started(k, s, d, c) \in Activation
           /\ Started(k, s, d, c).kind = k /\ Started(k, s, d, c).scope = s
           /\ Started(k, s, d, c).depth = d /\ Started(k, s, d, c).saved = c
BY DEF Started, Activation

LEMMA StartedNone ==
    ASSUME NEW k \in Kind, NEW s \in Scope, NEW d \in Nat
    PROVE  /\ Started(k, s, d, <<>>) \in Activation
           /\ Started(k, s, d, <<>>).kind = k /\ Started(k, s, d, <<>>).scope = s
           /\ Started(k, s, d, <<>>).depth = d /\ Started(k, s, d, <<>>).saved = <<>>
BY DEF Started, Activation

LEMMA Prefix ==
    ASSUME NEW S, NEW q \in Seq(S), NEW n \in 1..Len(q)
    PROVE  SubSeq(q, 1, n) \in Seq(S) \ {<<>>}
<1>1. SubSeq(q, 1, n) \in Seq(S) /\ Len(SubSeq(q, 1, n)) = n
  OBVIOUS
<1>2. QED
  BY <1>1

LEMMA InvTypes ==
    ASSUME FrameInv
    PROVE  /\ calls \in CallStack /\ ctx \in CtxStack /\ FramesOK(calls, ctx)
           /\ Len(calls) \in Nat \ {0} /\ Len(ctx) \in Nat \ {0}
           /\ Top \in Activation /\ CurrScope \in Scope
           /\ \A i \in 1..Len(calls) : calls[i] \in Activation
<1>1. calls \in CallStack /\ ctx \in CtxStack /\ FramesOK(calls, ctx)
  BY DEF FrameInv, TypeOK, CallStack, CtxStack
<1>2. Len(ctx) \in Nat \ {0} /\ ctx[Len(ctx)] \in Scope
  BY <1>1 DEF CtxStack
<1>3. QED
  BY <1>1, <1>2, Typed DEF Top, CurrScope

\* The steps of Next keep the other variables' types.
OtherTypes ==
    link \in [Scope -> Scope \cup {NoScope}] /\ flag \in BOOLEAN /\ heap \subseteq Scope

LEMMA InvFrom ==
    ASSUME NEW cs \in CallStack, NEW c \in CtxStack, FramesOK(cs, c),
           calls' = cs, ctx' = c, OtherTypes'
    PROVE  FrameInv'
BY DEF FrameInv, TypeOK, OtherTypes, CallStack, CtxStack

\* A program on the bottom frame.
LEMMA StartOK ==
    ASSUME NEW c \in CtxStack, Len(c) = 1, c[1] = Global
    PROVE  /\ <<Program(1, <<>>)>> \in CallStack
           /\ FramesOK(<<Program(1, <<>>)>>, c)
<1> DEFINE a == Program(1, <<>>)
           cs == <<a>>
<1>1. /\ a \in Activation /\ a.kind = "run" /\ a.depth = 1 /\ a.saved = <<>>
  BY DEF Program, Started, Activation, Kind
<1> HIDE DEF a
<1>2. cs \in CallStack /\ Len(cs) = 1 /\ cs[1] = a
  BY <1>1 DEF CallStack
<1> HIDE DEF cs
<1>3. Nesting(cs)
  BY <1>1, <1>2 DEF Nesting
<1>4. Rising(cs)
  BY <1>1, <1>2 DEF Rising
<1>5. Saved(cs)
  BY <1>1, <1>2 DEF Saved
<1>6. OnTop(cs, c)
  BY <1>1, <1>2 DEF OnTop, Fits
<1>7. QED
  BY <1>2, <1>3, <1>4, <1>5, <1>6 DEF FramesOK, cs, a

LEMMA InitFrameInv == Init => FrameInv
<1> SUFFICES ASSUME Init PROVE FrameInv
  OBVIOUS
<1>1. ctx \in CtxStack /\ Len(ctx) = 1 /\ ctx[1] = Global
  BY DEF Init, CtxStack
<1>2. calls \in CallStack /\ FramesOK(calls, ctx)
  BY <1>1, StartOK DEF Init
<1>3. OtherTypes
  BY DEF Init, OtherTypes
<1>4. QED
  BY <1>1, <1>2, <1>3 DEF FrameInv, TypeOK, OtherTypes, CallStack, CtxStack

\* A step that only begins or ends a statement.
LEMMA StatStep ==
    ASSUME FrameInv, calls' \in Seq(Activation), Len(calls') = Len(calls),
           \A i \in 1..Len(calls) : Alike(calls'[i], calls[i]),
           UNCHANGED ctx, OtherTypes'
    PROVE  FrameInv'
<1>1. calls' \in CallStack
  BY InvTypes DEF CallStack
<1>2. FramesOK(calls', ctx)
  BY <1>1, InvTypes, SameCalls
<1>3. QED
  BY <1>1, <1>2, InvTypes, InvFrom

LEMMA BeginTypes ==
    ASSUME FrameInv, NEW w \in {"stat", "return"},
           calls' = [calls EXCEPT ![Len(calls)].stat = w]
    PROVE  /\ calls' \in Seq(Activation) /\ Len(calls') = Len(calls)
           /\ \A i \in 1..Len(calls) : Alike(calls'[i], calls[i])
<1>1. \A a \in Activation : [a EXCEPT !.stat = w] \in Activation
                            /\ Alike([a EXCEPT !.stat = w], a)
  BY DEF Activation, Alike
<1>2. /\ calls \in Seq(Activation) /\ Len(calls) \in 1..Len(calls)
      /\ \A i \in 1..Len(calls) : calls[i] \in Activation
  BY InvTypes DEF CallStack
<1>3. calls' = [calls EXCEPT ![Len(calls)] = [@ EXCEPT !.stat = w]]
  OBVIOUS
<1>4. QED
  BY <1>1, <1>2, <1>3 DEF Alike

LEMMA EndStatTypes ==
    ASSUME FrameInv, EndStat
    PROVE  /\ calls' \in Seq(Activation) /\ Len(calls') = Len(calls)
           /\ \A i \in 1..Len(calls) : Alike(calls'[i], calls[i])
<1> DEFINE f(i) == [calls[i] EXCEPT
                        !.stat = IF i = Len(calls) THEN "none" ELSE @,
                        !.returned = @ \/ (i = Owner /\ Top.stat = "return")]
<1>1. ASSUME NEW i \in 1..Len(calls)
      PROVE  f(i) \in Activation /\ Alike(f(i), calls[i])
  <2>1. calls[i] \in Activation
    BY InvTypes
  <2>2. ASSUME NEW a \in Activation, NEW v \in {"none", "stat", "return"},
               NEW b \in BOOLEAN, NEW r, r = [a EXCEPT !.stat = v, !.returned = b]
        PROVE  r \in Activation /\ Alike(r, a)
    <3>1. r \in Activation
      BY <2>2 DEF Activation
    <3>2. Alike(r, a)
      BY <2>2 DEF Activation, Alike
    <3>3. QED
      BY <3>1, <3>2
  <2>3. /\ (IF i = Len(calls) THEN "none" ELSE calls[i].stat) \in {"none", "stat", "return"}
        /\ (calls[i].returned \/ (i = Owner /\ Top.stat = "return")) \in BOOLEAN
    BY <2>1 DEF Activation
  <2>4. QED
    BY <2>1, <2>2, <2>3
<1>2. calls' = [i \in 1..Len(calls) |-> f(i)]
  BY DEF EndStat
<1> HIDE DEF f
<1>3. QED
  BY <1>1, <1>2, InvTypes

\* The frames of a body or a block are popped.
LEMMA PopStep ==
    ASSUME FrameInv, Top.kind \in {"call", "block"}, PopContext, calls' = Below,
           flag' \in BOOLEAN, UNCHANGED heap
    PROVE  FrameInv'
<1>1. /\ Len(calls) > 1 /\ Len(ctx) > 1
      /\ FramesOK(Below, SubSeq(ctx, 1, Len(ctx) - 1))
  BY InvTypes, PopFrame DEF Top, Below
<1>2. Below \in CallStack
  <2>1. calls \in Seq(Activation) /\ Len(calls) - 1 \in 1..Len(calls)
    BY <1>1, InvTypes DEF CallStack
  <2>2. QED
    BY <2>1, Prefix DEF Below, CallStack
<1>3. SubSeq(ctx, 1, Len(ctx) - 1) \in CtxStack
  <2>1. ctx \in Seq(Scope) /\ Len(ctx) - 1 \in 1..Len(ctx)
    BY <1>1, InvTypes DEF CtxStack
  <2>2. QED
    BY <2>1, Prefix DEF CtxStack
<1>4. OtherTypes'
  BY DEF PopContext, OtherTypes, FrameInv, TypeOK
<1>5. QED
  BY <1>1, <1>2, <1>3, <1>4, InvFrom DEF PopContext

\* A call whose arguments are evaluated, or a program, is not the first call.
LEMMA BelowCall ==
    ASSUME FrameInv, Top.saved = <<>>,
           Top.kind = "args" \/ (Top.kind = "run" /\ Len(calls) > 1)
    PROVE  Len(calls) > 1 /\ Below \in CallStack /\ FramesOK(Below, ctx)
<1>1. Len(calls) > 1
  BY InvTypes DEF FramesOK, Nesting, Top
<1>2. Below \in CallStack
  <2>1. calls \in Seq(Activation) /\ Len(calls) - 1 \in 1..Len(calls)
    BY <1>1, InvTypes DEF CallStack
  <2>2. QED
    BY <2>1, Prefix DEF Below, CallStack
<1>3. FramesOK(Below, ctx)
  BY <1>1, InvTypes, PopCall DEF Top, Below
<1>4. QED
  BY <1>1, <1>2, <1>3

LEMMA ArgsSaveNothing ==
    ASSUME FrameInv, Top.kind = "args"
    PROVE  Top.saved = <<>>
BY InvTypes DEF FramesOK, Saved, SavedFits, Top

LEMMA NextFrameInv == FrameInv /\ [Next]_vars => FrameInv'
<1> SUFFICES ASSUME FrameInv, [Next]_vars PROVE FrameInv'
  OBVIOUS
<1>0. /\ calls \in CallStack /\ ctx \in CtxStack /\ FramesOK(calls, ctx)
      /\ Len(calls) \in Nat \ {0} /\ Len(ctx) \in Nat \ {0}
      /\ Top \in Activation /\ CurrScope \in Scope /\ ctx \in Seq(Scope)
  BY InvTypes DEF CtxStack
<1>1. OtherTypes
  BY DEF FrameInv, TypeOK, OtherTypes
<1>2. CASE BeginStat
  <2>1. OtherTypes' /\ UNCHANGED ctx
    BY <1>1, <1>2 DEF BeginStat, OtherTypes
  <2>2. calls' = [calls EXCEPT ![Len(calls)].stat = "stat"]
    BY <1>2 DEF BeginStat
  <2>3. QED
    BY <2>1, <2>2, BeginTypes, StatStep
<1>3. CASE BeginReturn
  <2>1. OtherTypes' /\ UNCHANGED ctx
    BY <1>1, <1>3 DEF BeginReturn, OtherTypes
  <2>2. calls' = [calls EXCEPT ![Len(calls)].stat = "return"]
    BY <1>3 DEF BeginReturn
  <2>3. QED
    BY <2>1, <2>2, BeginTypes, StatStep
<1>4. CASE EndStat
  <2>1. OtherTypes' /\ UNCHANGED ctx
    BY <1>1, <1>4 DEF EndStat, OtherTypes
  <2>2. QED
    BY <1>4, <2>1, EndStatTypes, StatStep
<1>5. CASE CutBody
  BY <1>5, PopStep DEF CutBody
<1>6. CASE EndBody
  BY <1>1, <1>6, PopStep DEF EndBody, OtherTypes
<1>7. ASSUME NEW s \in Scope, Call(s)
      PROVE  FrameInv'
  <2> DEFINE a == Started("args", s, Len(ctx), <<>>)
  <2>1. /\ a \in Activation /\ a.kind = "args" /\ a.saved = <<>> /\ a.depth = Len(ctx)
    BY <1>0, StartedNone DEF Kind
  <2>2. OtherTypes' /\ calls' = Append(calls, a) /\ ctx' = ctx
    BY <1>1, <1>7 DEF Call, OtherTypes
  <2> HIDE DEF a
  <2>3. Append(calls, a) \in CallStack /\ FramesOK(Append(calls, a), ctx)
    BY <1>0, <2>1, Pushed, PushCall
  <2>4. QED
    BY <1>0, <2>2, <2>3, InvFrom
<1>8. CASE Enter
  <2> DEFINE a == Started("call", Top.scope, Len(ctx) + 1, <<>>)
  <2>1. Len(ctx) + 1 \in Nat /\ Top.scope \in Scope
    BY <1>0 DEF Activation
  <2>2. /\ a \in Activation /\ a.kind = "call" /\ a.scope = Top.scope
        /\ a.saved = <<>> /\ a.depth = Len(ctx) + 1
    BY <2>1, StartedNone DEF Kind
  <2>3. calls' = Append(Below, a) /\ ctx' = Append(ctx, Top.scope) /\ OtherTypes'
    BY <1>0, <1>1, <1>8, <2>1 DEF Enter, PushContext, OtherTypes
  <2> HIDE DEF a
  <2>4. Below \in CallStack /\ FramesOK(Below, ctx)
    <3>1. Top.kind = "args"
      BY <1>8 DEF Enter
    <3>2. Top.saved = <<>>
      BY <3>1, ArgsSaveNothing
    <3>3. QED
      BY <3>1, <3>2, BelowCall
  <2>5. /\ Append(Below, a) \in CallStack
        /\ FramesOK(Append(Below, a), Append(ctx, Top.scope))
    BY <1>0, <2>2, <2>4, Pushed, PushFrame
  <2>6. Append(ctx, Top.scope) \in CtxStack
    BY <1>0, <2>1 DEF CtxStack
  <2>7. QED
    BY <2>3, <2>5, <2>6, InvFrom
<1>9. ASSUME NEW s \in Scope, Block(s)
      PROVE  FrameInv'
  <2> DEFINE a == Started("block", s, Len(ctx) + 1, <<>>)
  <2>1. /\ a \in Activation /\ a.kind = "block" /\ a.scope = s
        /\ a.saved = <<>> /\ a.depth = Len(ctx) + 1
    BY <1>0, StartedNone DEF Kind
  <2>2. OtherTypes' /\ calls' = Append(calls, a) /\ ctx' = Append(ctx, s)
    BY <1>0, <1>1, <1>9 DEF Block, OtherTypes
  <2> HIDE DEF a
  <2>3. Append(calls, a) \in CallStack /\ FramesOK(Append(calls, a), Append(ctx, s))
    BY <1>0, <2>1, Pushed, PushFrame
  <2>4. Append(ctx, s) \in CtxStack
    BY <1>0 DEF CtxStack
  <2>5. QED
    BY <2>2, <2>3, <2>4, InvFrom
<1>10. CASE Eval
  <2> DEFINE a == Program(1, ctx)
  <2>1. /\ a \in Activation /\ a.kind = "run" /\ a.saved = ctx /\ a.depth = 1
    BY <1>0, StartedIs DEF Kind, Program
  <2>2. OtherTypes' /\ calls' = Append(calls, a) /\ ctx' = SubSeq(ctx, 1, 1)
    BY <1>1, <1>10 DEF Eval, OtherTypes
  <2> HIDE DEF a
  <2>3. Append(calls, a) \in CallStack /\ FramesOK(Append(calls, a), SubSeq(ctx, 1, 1))
    BY <1>0, <2>1, Pushed, PushEval
  <2>4. SubSeq(ctx, 1, 1) \in CtxStack
    BY <1>0 DEF CtxStack
  <2>5. QED
    BY <2>2, <2>3, <2>4, InvFrom
<1>11. CASE EndEval
  <2>1. /\ Len(calls) > 1 /\ ctx \o Tail(Top.saved) = Top.saved
        /\ FramesOK(Below, Top.saved)
    BY <1>0, <1>11, PopEval DEF EndEval, Top, Below
  <2>2. Below \in CallStack
    <3>1. calls \in Seq(Activation) /\ Len(calls) - 1 \in 1..Len(calls)
      BY <1>0, <2>1 DEF CallStack
    <3>2. QED
      BY <3>1, Prefix DEF Below, CallStack
  <2>3. Top.saved \in CtxStack
    BY <1>0, <1>11 DEF EndEval, CtxStack, Activation
  <2>4. calls' = Below /\ ctx' = Top.saved /\ OtherTypes'
    BY <1>1, <1>11, <2>1 DEF EndEval, OtherTypes
  <2>5. QED
    BY <2>1, <2>2, <2>3, <2>4, InvFrom
<1>12. CASE Include
  <2> DEFINE a == Program(Len(ctx), <<>>)
  <2>1. /\ a \in Activation /\ a.kind = "run" /\ a.saved = <<>> /\ a.depth = Len(ctx)
    BY <1>0, StartedNone DEF Kind, Program
  <2>2. OtherTypes' /\ calls' = Append(calls, a) /\ ctx' = ctx
    BY <1>1, <1>12 DEF Include, OtherTypes
  <2> HIDE DEF a
  <2>3. Append(calls, a) \in CallStack /\ FramesOK(Append(calls, a), ctx)
    BY <1>0, <2>1, Pushed, PushCall
  <2>4. QED
    BY <1>0, <2>2, <2>3, InvFrom
<1>13. CASE EndInclude
  <2>1. Below \in CallStack /\ FramesOK(Below, ctx)
    BY <1>13, BelowCall DEF EndInclude
  <2>2. calls' = Below /\ ctx' = ctx /\ OtherTypes'
    BY <1>1, <1>13 DEF EndInclude, OtherTypes
  <2>3. QED
    BY <1>0, <2>1, <2>2, InvFrom
<1>14. CASE Gc
  <2>1. calls' = calls /\ ctx' = ctx /\ OtherTypes'
    BY <1>1, <1>14 DEF Gc, OtherTypes
  <2>2. QED
    BY <1>0, <2>1, InvFrom
<1>15. CASE Raise
  <2>1. SubSeq(ctx, 1, 1) \in CtxStack /\ Len(SubSeq(ctx, 1, 1)) = 1
    BY <1>0 DEF CtxStack
  <2>2. SubSeq(ctx, 1, 1)[1] = Global
    BY <1>0 DEF FramesOK, OnTop
  <2>3. calls' = <<Program(1, <<>>)>> /\ ctx' = SubSeq(ctx, 1, 1) /\ OtherTypes'
    BY <1>1, <1>15 DEF Raise, OtherTypes
  <2>4. QED
    BY <2>1, <2>2, <2>3, StartOK, InvFrom
<1>16. CASE UNCHANGED vars
  <2>1. calls' = calls /\ ctx' = ctx /\ OtherTypes'
    BY <1>1, <1>16 DEF vars, OtherTypes
  <2>2. QED
    BY <1>0, <2>1, InvFrom
<1>17. QED
  BY <1>2, <1>3, <1>4, <1>5, <1>6, <1>7, <1>8, <1>9, <1>10, <1>11, <1>12,
     <1>13, <1>14, <1>15, <1>16 DEF Next

\* The stacks have their types, and are never empty: no exception, return or
\* eval removes the bottom frame.
THEOREM TypeCorrect == Spec => []TypeOK
<1>1. FrameInv => TypeOK
  BY DEF FrameInv
<1>2. QED
  BY <1>1, InitFrameInv, NextFrameInv, PTL DEF Spec

\* Whatever scripts nest (calls, blocks, eval in include in arguments...) and
\* wherever an exception leaves them, code runs in the frame it expects.
THEOREM RunsInOwnFrameHolds == Spec => []RunsInOwnFrame
<1>1. FrameInv => RunsInOwnFrame
  <2> SUFFICES ASSUME FrameInv PROVE RunsInOwnFrame
    OBVIOUS
  <2>1. SameFrames(calls, Len(calls) + 1, Len(calls))
    BY InvTypes DEF SameFrames
  <2>2. Fits(Top, ctx) /\ Top.depth = Len(ctx)
    BY <2>1, InvTypes DEF FramesOK, OnTop, Top
  <2>3. QED
    BY <2>2 DEF RunsInOwnFrame, Fits, CurrScope
<1>2. QED
  BY <1>1, InitFrameInv, NextFrameInv, PTL DEF Spec

-----------------------------------------------------------------------------
(* The chain of frames. *)

\* No eval is under way, and the call whose arguments are evaluated is the top.
CallsInv ==
    \A i \in 1..Len(calls) :
        calls[i].saved = <<>> /\ (calls[i].kind = "args" => i = Len(calls))

\* Its frame is allocated, and not on the stack yet.
PendingInv ==
    Top.kind = "args" =>
        Top.scope \in heap /\ \A i \in 1..Len(ctx) : ctx[i] # Top.scope

Distinct == \A i, j \in 1..Len(ctx) : ctx[i] = ctx[j] => i = j

ChainInv == CallsInv /\ PendingInv /\ Distinct /\ FramesLinked /\ FramesAlive

\* By induction: the lowest frame that is not reached would be linked to the one
\* below it, which is.
LEMMA LinkedReached ==
    ASSUME FrameInv, FramesLinked, NEW i \in 1..Len(ctx)
    PROVE  ctx[i] \in Reached
<1>1. /\ ctx \in Seq(Scope) /\ Len(ctx) \in Nat \ {0} /\ ctx[1] = Global
      /\ \A k \in 1..Len(ctx) : ctx[k] \in Scope
  BY InvTypes DEF CtxStack, FramesOK, OnTop
<1>2. SUFFICES ASSUME NEW S \in SUBSET Scope, Global \in S,
                      \A t \in S : link[t] # NoScope => link[t] \in S
               PROVE  ctx[i] \in S
  BY <1>1 DEF Reached
<1> DEFINE T == {k \in 1..Len(ctx) : ctx[k] \notin S}
<1>3. SUFFICES ASSUME T # {} PROVE FALSE
  OBVIOUS
<1>4. PICK m \in T : \A k \in T : ~ (<<k, m>> \in OpToRel(<, Nat))
  <2>1. T \subseteq Nat
    OBVIOUS
  <2> HIDE DEF T
  <2>2. QED
    BY <1>3, <2>1, NatLessThanWellFounded, WFMin
<1>5. \A k \in T : ~ (k < m)
  <2>1. \A k \in T : k \in Nat
    OBVIOUS
  <2> HIDE DEF T
  <2>2. QED
    BY <1>4, <2>1 DEF OpToRel
<1>6. m \in 1..Len(ctx) /\ m # 1 /\ m - 1 \in 1..Len(ctx) - 1
  BY <1>1, <1>2
<1>7. ctx[m - 1] \in S
  BY <1>1, <1>5, <1>6
<1>8. link[ctx[m - 1]] = ctx[m]
  BY <1>1, <1>6 DEF FramesLinked
<1>9. QED
  BY <1>1, <1>2, <1>6, <1>7, <1>8

\* The assumption of the theorem about the chain.
PlainCalls == "eval" \notin Ops /\ "args" \notin Ops

FrameVars == <<ctx, link, heap>>

LEMMA EvaluatesNotArgs == ASSUME PlainCalls, Evaluates PROVE Top.kind # "args"
BY DEF PlainCalls, Evaluates

LEMMA ChainTypes ==
    ASSUME FrameInv, ChainInv
    PROVE  /\ Len(calls) \in Nat \ {0} /\ Len(ctx) \in Nat \ {0}
           /\ ctx \in Seq(Scope) /\ \A i \in 1..Len(ctx) : ctx[i] \in Scope
           /\ link \in [Scope -> Scope \cup {NoScope}] /\ heap \subseteq Scope
           /\ calls \in Seq(Activation) /\ Top.scope \in Scope /\ CurrScope \in Scope
           /\ CurrScope = ctx[Len(ctx)]
<1>1. ctx \in Seq(Scope) /\ calls \in Seq(Activation)
  BY InvTypes DEF CtxStack, CallStack
<1>2. \A i \in 1..Len(ctx) : ctx[i] \in Scope
  BY <1>1
<1>3. Top.scope \in Scope
  BY InvTypes DEF Activation
<1>4. QED
  BY <1>1, <1>2, <1>3, InvTypes DEF FrameInv, TypeOK, CurrScope

\* Steps that leave the frames alone and keep the calls.
LEMMA StatChain ==
    ASSUME FrameInv, ChainInv, Len(calls') = Len(calls),
           \A i \in 1..Len(calls) : Alike(calls'[i], calls[i]), UNCHANGED FrameVars
    PROVE  ChainInv'
<1>1. Len(calls) \in 1..Len(calls)
  BY ChainTypes
<1>2. Top'.kind = Top.kind /\ Top'.scope = Top.scope
  BY <1>1 DEF Top, Alike
<1>3. CallsInv'
  BY DEF ChainInv, CallsInv, Alike
<1>4. PendingInv'
  BY <1>2 DEF ChainInv, PendingInv, FrameVars
<1>5. Distinct' /\ FramesLinked' /\ FramesAlive'
  BY DEF ChainInv, Distinct, FramesLinked, FramesAlive, FrameVars
<1>6. QED
  BY <1>3, <1>4, <1>5 DEF ChainInv

\* A call is nested in one whose arguments are evaluated already.
LEMMA PushedCalls ==
    ASSUME FrameInv, CallsInv, Top.kind # "args",
           NEW a \in Activation, a.saved = <<>>, calls' = Append(calls, a)
    PROVE  CallsInv' /\ Top' = a
<1>1. /\ Len(calls) \in Nat \ {0} /\ Len(calls') = Len(calls) + 1
      /\ calls'[Len(calls) + 1] = a /\ \A i \in 1..Len(calls) : calls'[i] = calls[i]
  BY InvTypes, Pushed
<1>2. \A i \in 1..Len(calls) : calls[i].kind # "args"
  BY DEF CallsInv, Top
<1>3. QED
  BY <1>1, <1>2 DEF CallsInv, Top

\* A new frame goes on the stack.
LEMMA PushChain ==
    ASSUME FrameInv, ChainInv, NEW s \in Scope, s \in heap',
           heap \subseteq heap', \A i \in 1..Len(ctx) : ctx[i] # s,
           ctx' = Append(ctx, s),
           \/ link' = [link EXCEPT ![CurrScope] = s]
           \/ link' = [link EXCEPT ![CurrScope] = s, ![s] = NoScope]
    PROVE  Distinct' /\ FramesLinked' /\ FramesAlive'
<1> DEFINE n == Len(ctx)
<1>1. /\ n \in Nat \ {0} /\ Len(ctx') = n + 1 /\ ctx'[n + 1] = s
      /\ \A i \in 1..n : ctx'[i] = ctx[i] /\ ctx[i] \in Scope
  BY ChainTypes
<1>2. \A t \in Scope : t # s => link'[t] = IF t = CurrScope THEN s ELSE link[t]
  BY ChainTypes
<1>3. Distinct'
  BY <1>1 DEF ChainInv, Distinct
<1>4. ASSUME NEW i \in 1..n PROVE link'[ctx'[i]] = ctx'[i + 1]
  <2>1. CASE i = n
    BY <1>1, <1>2, <2>1, ChainTypes
  <2>2. CASE i \in 1..n - 1
    <3>1. ctx[i] # CurrScope /\ ctx[i] # s /\ ctx[i] \in Scope /\ i + 1 \in 1..n
      BY <1>1, <2>2, ChainTypes DEF ChainInv, Distinct
    <3>2. link[ctx[i]] = ctx[i + 1]
      BY <2>2 DEF ChainInv, FramesLinked
    <3>3. QED
      BY <1>1, <1>2, <3>1, <3>2
  <2>3. QED
    BY <1>1, <2>1, <2>2
<1>5. FramesLinked'
  BY <1>1, <1>4 DEF FramesLinked
<1>6. FramesAlive'
  BY <1>1 DEF ChainInv, FramesAlive
<1>7. QED
  BY <1>3, <1>5, <1>6

\* The call below the top one is past its arguments.
LEMMA PoppedCalls ==
    ASSUME FrameInv, ChainInv, Len(calls) > 1, calls' = Below
    PROVE  CallsInv' /\ Top'.kind # "args"
<1> DEFINE m == Len(calls) - 1
<1>1. m \in Nat \ {0} /\ m \in 1..Len(calls) /\ calls \in Seq(Activation)
  <2>1. Len(calls) \in Nat
    BY ChainTypes
  <2>2. Len(calls) > 1
    OBVIOUS
  <2>3. m \in Nat \ {0} /\ m \in 1..Len(calls)
    <3>1. \A n \in Nat : n > 1 => n - 1 \in Nat \ {0} /\ n - 1 \in 1..n
      OBVIOUS
    <3>2. QED
      BY <2>1, <2>2, <3>1
  <2>4. QED
    BY <2>3, ChainTypes
<1>2. Len(calls') = m /\ \A i \in 1..m : calls'[i] = calls[i]
  <2>1. calls' = SubSeq(calls, 1, m)
    BY DEF Below
  <2> HIDE DEF m
  <2>2. QED
    BY <1>1, <2>1
<1>3. \A i \in 1..m : calls[i].kind # "args" /\ calls[i].saved = <<>>
  BY <1>1 DEF ChainInv, CallsInv
<1> HIDE DEF m
<1>4. QED
  BY <1>1, <1>2, <1>3 DEF CallsInv, Top

\* The top frame is popped, and the link to it erased.
LEMMA PopChain ==
    ASSUME FrameInv, ChainInv, Top.kind \in {"call", "block"}, PopContext,
           calls' = Below, UNCHANGED heap
    PROVE  ChainInv'
<1> DEFINE n == Len(ctx) - 1
<1>1. Len(calls) > 1 /\ Len(ctx) > 1
  BY InvTypes, PopFrame DEF Top
<1>2. /\ n \in Nat \ {0} /\ Len(ctx') = n /\ \A i \in 1..n : ctx'[i] = ctx[i]
      /\ \A i \in 1..n : ctx[i] \in Scope
      /\ link' = [link EXCEPT ![ctx[n]] = NoScope]
  BY <1>1, ChainTypes DEF PopContext
<1>5. CallsInv' /\ Top'.kind # "args"
  BY <1>1, PoppedCalls
<1>6. Distinct' /\ FramesAlive'
  <2>1. \A i \in 1..n : i \in 1..Len(ctx)
    BY <1>2
  <2> HIDE DEF n
  <2>2. Distinct'
    BY <1>2, <2>1 DEF ChainInv, Distinct
  <2>3. FramesAlive'
    BY <1>2, <2>1 DEF ChainInv, FramesAlive
  <2>4. QED
    BY <2>2, <2>3
<1>7. ASSUME NEW i \in 1..n - 1 PROVE link'[ctx'[i]] = ctx'[i + 1]
  <2>1. /\ i \in 1..n /\ n \in 1..n /\ i # n /\ i + 1 \in 1..n
        /\ i \in 1..Len(ctx) /\ n \in 1..Len(ctx) /\ i \in 1..Len(ctx) - 1
    BY <1>2
  <2>2. ctx[i] # ctx[n] /\ link[ctx[i]] = ctx[i + 1]
    BY <2>1 DEF ChainInv, Distinct, FramesLinked
  <2> HIDE DEF n
  <2>3. QED
    BY <1>2, <2>1, <2>2, ChainTypes
<1>8. FramesLinked'
  BY <1>2, <1>7 DEF FramesLinked
<1>9. QED
  BY <1>5, <1>6, <1>8 DEF ChainInv, PendingInv

LEMMA NextChain ==
    ASSUME PlainCalls, FrameInv, ChainInv, [Next]_vars
    PROVE  ChainInv'
<1>0. /\ FrameInv /\ ChainInv /\ Top.kind \in Kind
      /\ ctx \in Seq(Scope) /\ Len(ctx) \in Nat \ {0} /\ FrameInv'
      /\ \A i \in 1..Len(ctx) : ctx[i] \in heap
  BY InvTypes, ChainTypes, NextFrameInv DEF ChainInv, FramesAlive, Activation
<1>1. CASE BeginStat
  <2>1. calls' = [calls EXCEPT ![Len(calls)].stat = "stat"] /\ UNCHANGED FrameVars
    BY <1>1 DEF BeginStat, FrameVars
  <2>2. QED
    BY <1>0, <2>1, BeginTypes, StatChain
<1>2. CASE BeginReturn
  <2>1. calls' = [calls EXCEPT ![Len(calls)].stat = "return"] /\ UNCHANGED FrameVars
    BY <1>2 DEF BeginReturn, FrameVars
  <2>2. QED
    BY <1>0, <2>1, BeginTypes, StatChain
<1>3. CASE EndStat
  <2>1. UNCHANGED FrameVars
    BY <1>3 DEF EndStat, FrameVars
  <2>2. QED
    BY <1>0, <1>3, <2>1, EndStatTypes, StatChain
<1>4. CASE CutBody
  BY <1>0, <1>4, PopChain DEF CutBody
<1>5. CASE EndBody
  BY <1>0, <1>5, PopChain DEF EndBody
<1>6. ASSUME NEW s \in Scope, Call(s)
      PROVE  ChainInv'
  <2> DEFINE a == Started("args", s, Len(ctx), <<>>)
  <2>1. /\ a \in Activation /\ a.kind = "args" /\ a.saved = <<>> /\ a.scope = s
    BY <1>0, StartedNone DEF Kind
  <2>2. /\ calls' = Append(calls, a) /\ s \notin heap /\ heap' = heap \cup {s}
        /\ link' = [link EXCEPT ![s] = NoScope] /\ ctx' = ctx /\ Top.kind # "args"
    BY <1>6, EvaluatesNotArgs DEF Call, Nests
  <2> HIDE DEF a
  <2>3. CallsInv' /\ Top' = a
    BY <1>0, <2>1, <2>2, PushedCalls DEF ChainInv
  <2>4. PendingInv'
    BY <1>0, <2>1, <2>2, <2>3 DEF PendingInv
  <2>5. Distinct' /\ FramesAlive'
    BY <2>2 DEF ChainInv, Distinct, FramesAlive
  <2>6. FramesLinked'
    <3>1. ASSUME NEW i \in 1..Len(ctx) - 1 PROVE link'[ctx[i]] = ctx[i + 1]
      <4>1. ctx[i] # s /\ ctx[i] \in Scope
        BY <1>0, <2>2
      <4>2. QED
        BY <2>2, <4>1, ChainTypes DEF ChainInv, FramesLinked
    <3>2. QED
      BY <2>2, <3>1 DEF FramesLinked
  <2>7. QED
    BY <2>3, <2>4, <2>5, <2>6 DEF ChainInv
<1>7. CASE Enter
  <2> DEFINE a == Started("call", Top.scope, Len(ctx) + 1, <<>>)
             n == Len(calls)
  <2>1. Top.scope \in Scope /\ Top.kind = "args"
    BY <1>7, ChainTypes DEF Enter
  <2>2. a \in Activation /\ a.kind = "call" /\ a.saved = <<>>
    BY <1>0, <2>1, StartedNone DEF Kind
  <2>3. /\ calls' = Append(Below, a) /\ heap' = heap /\ ctx' = Append(ctx, Top.scope)
        /\ link' = [link EXCEPT ![CurrScope] = Top.scope]
    BY <1>7 DEF Enter, PushContext
  <2> HIDE DEF a
  <2>4. Distinct' /\ FramesLinked' /\ FramesAlive'
    <3>1. Top.scope \in heap' /\ \A i \in 1..Len(ctx) : ctx[i] # Top.scope
      BY <2>1, <2>3 DEF ChainInv, PendingInv
    <3>2. QED
      BY <2>1, <2>3, <3>1, PushChain
  <2>5. Top.saved = <<>> /\ n > 1 /\ n \in Nat
    BY <2>1, ArgsSaveNothing, BelowCall, ChainTypes
  <2>6. /\ Len(calls') = n /\ calls'[n] = a
        /\ \A i \in 1..n - 1 : calls'[i] = calls[i]
    <3>1. Below \in Seq(Activation) /\ Len(Below) = n - 1
          /\ \A i \in 1..n - 1 : Below[i] = calls[i]
      BY <2>5, ChainTypes DEF Below
    <3> HIDE DEF n
    <3>2. QED
      BY <2>2, <2>3, <2>5, <3>1
  <2>7. \A i \in 1..n - 1 : calls[i].saved = <<>> /\ calls[i].kind # "args"
    BY <2>5 DEF ChainInv, CallsInv
  <2>8. CallsInv' /\ Top'.kind # "args"
    BY <2>2, <2>5, <2>6, <2>7 DEF CallsInv, Top
  <2>9. QED
    BY <2>4, <2>8 DEF ChainInv, PendingInv
<1>8. ASSUME NEW s \in Scope, Block(s)
      PROVE  ChainInv'
  <2> DEFINE a == Started("block", s, Len(ctx) + 1, <<>>)
  <2>1. a \in Activation /\ a.kind = "block" /\ a.saved = <<>>
    BY <1>0, StartedNone DEF Kind
  <2>2. /\ calls' = Append(calls, a) /\ s \notin heap /\ heap' = heap \cup {s}
        /\ link' = [link EXCEPT ![CurrScope] = s, ![s] = NoScope]
        /\ ctx' = Append(ctx, s) /\ Top.kind # "args"
    BY <1>8, EvaluatesNotArgs DEF Block, Nests
  <2> HIDE DEF a
  <2>3. CallsInv' /\ Top' = a
    BY <1>0, <2>1, <2>2, PushedCalls DEF ChainInv
  <2>4. Distinct' /\ FramesLinked' /\ FramesAlive'
    <3>1. s \in heap' /\ heap \subseteq heap' /\ \A i \in 1..Len(ctx) : ctx[i] # s
      BY <1>0, <2>2
    <3>2. QED
      BY <2>2, <3>1, PushChain
  <2>5. QED
    BY <2>1, <2>3, <2>4 DEF ChainInv, PendingInv
<1>9. CASE Eval
  BY <1>9 DEF Eval, PlainCalls
<1>10. CASE EndEval
  BY <1>10, ChainTypes DEF EndEval, ChainInv, CallsInv, Top
<1>11. CASE Include
  <2> DEFINE a == Program(Len(ctx), <<>>)
  <2>1. a \in Activation /\ a.kind = "run" /\ a.saved = <<>>
    BY <1>0, StartedNone DEF Kind, Program
  <2>2. calls' = Append(calls, a) /\ UNCHANGED FrameVars /\ Top.kind # "args"
    BY <1>11, EvaluatesNotArgs DEF Include, Nests, FrameVars
  <2> HIDE DEF a
  <2>3. CallsInv' /\ Top' = a
    BY <1>0, <2>1, <2>2, PushedCalls DEF ChainInv
  <2>4. Distinct' /\ FramesLinked' /\ FramesAlive'
    BY <2>2 DEF ChainInv, Distinct, FramesLinked, FramesAlive, FrameVars
  <2>5. QED
    BY <2>1, <2>3, <2>4 DEF ChainInv, PendingInv
<1>12. CASE EndInclude
  <2>1. Len(calls) > 1 /\ calls' = Below /\ ctx' = ctx /\ link' = link /\ heap' = heap
    BY <1>12 DEF EndInclude
  <2>2. CallsInv' /\ Top'.kind # "args"
    BY <2>1, PoppedCalls
  <2>3. Distinct' /\ FramesLinked' /\ FramesAlive'
    BY <2>1 DEF ChainInv, Distinct, FramesLinked, FramesAlive
  <2>4. QED
    BY <2>2, <2>3 DEF ChainInv, PendingInv
<1>13. CASE Gc
  <2>1. /\ calls' = calls /\ ctx' = ctx /\ link' = link
        /\ heap' = heap \cap Reached /\ Top.kind # "args"
    BY <1>13, EvaluatesNotArgs DEF Gc
  <2>2. \A i \in 1..Len(ctx) : ctx[i] \in Reached
    BY LinkedReached DEF ChainInv
  <2>3. FramesAlive'
    BY <1>0, <2>1, <2>2 DEF FramesAlive
  <2>4. CallsInv' /\ PendingInv' /\ Distinct' /\ FramesLinked'
    BY <2>1 DEF ChainInv, CallsInv, PendingInv, Distinct, FramesLinked, Top
  <2>5. QED
    BY <2>3, <2>4 DEF ChainInv
<1>14. CASE Raise
  <2> DEFINE a == Program(1, <<>>)
  <2>1. a.kind = "run" /\ a.saved = <<>>
    BY DEF Program, Started
  <2>2. /\ calls' = <<a>> /\ Len(calls') = 1 /\ calls'[1] = a
        /\ Len(ctx') = 1 /\ ctx'[1] = ctx[1] /\ heap' = heap
    BY <1>0, <1>14 DEF Raise
  <2> HIDE DEF a
  <2>3. CallsInv' /\ PendingInv'
    BY <2>1, <2>2 DEF CallsInv, PendingInv, Top
  <2>4. Distinct' /\ FramesLinked' /\ FramesAlive'
    BY <1>0, <2>2 DEF Distinct, FramesLinked, FramesAlive
  <2>5. QED
    BY <2>3, <2>4 DEF ChainInv
<1>15. CASE UNCHANGED vars
  BY <1>15 DEF ChainInv, CallsInv, PendingInv, Distinct, FramesLinked, FramesAlive,
               vars, Top
<1>16. QED
  BY <1>1, <1>2, <1>3, <1>4, <1>5, <1>6, <1>7, <1>8, <1>9, <1>10, <1>11, <1>12,
     <1>13, <1>14, <1>15 DEF Next

LEMMA InitChain == Init => ChainInv
<1> SUFFICES ASSUME Init PROVE ChainInv
  OBVIOUS
<1>1. Program(1, <<>>).kind = "run" /\ Program(1, <<>>).saved = <<>>
  BY DEF Program, Started
<1>2. /\ Len(calls) = 1 /\ calls[1] = Program(1, <<>>)
      /\ Len(ctx) = 1 /\ ctx[1] = Global /\ heap = {Global}
  BY DEF Init
<1>3. CallsInv /\ PendingInv
  BY <1>1, <1>2 DEF CallsInv, PendingInv, Top
<1>4. Distinct /\ FramesLinked /\ FramesAlive
  BY <1>2 DEF Distinct, FramesLinked, FramesAlive
<1>5. QED
  BY <1>3, <1>4 DEF ChainInv

\* Without eval, and with nothing evaluated for arguments, the frames form one
\* chain from the global scope up, whatever blocks, returns, includes, exceptions
\* and collections come between.
THEOREM FramesLinkedHolds ==
    ASSUME PlainCalls
    PROVE  Spec => []FramesLinked
<1>1. FrameInv /\ ChainInv /\ [Next]_vars => (FrameInv /\ ChainInv)'
  BY NextFrameInv, NextChain
<1>2. Init => FrameInv /\ ChainInv
  BY InitFrameInv, InitChain
<1>3. ChainInv => FramesLinked
  BY DEF ChainInv
<1>4. QED
  BY <1>1, <1>2, <1>3, PTL DEF Spec

\* The collector then never frees the variables of a frame in use.
THEOREM FramesAliveHolds ==
    ASSUME PlainCalls
    PROVE  Spec => []FramesAlive
<1>1. FrameInv /\ ChainInv /\ [Next]_vars => (FrameInv /\ ChainInv)'
  BY NextFrameInv, NextChain
<1>2. Init => FrameInv /\ ChainInv
  BY InitFrameInv, InitChain
<1>3. ChainInv => FramesAlive
  BY DEF ChainInv
<1>4. QED
  BY <1>1, <1>2, <1>3, PTL DEF Spec

-----------------------------------------------------------------------------
(* The flag of a return.                                                     *)

\* The assumption of the theorems about the flag: nothing is evaluated once a
\* return statement was reached, and only functions return.
PlainReturns == "afterReturn" \notin Ops /\ "topReturn" \notin Ops

\* A call is nested in a statement of the call below it.
Within(cs) == \A i \in 1..Len(cs) - 1 : cs[i].stat # "none"

Quiet(a) == ~a.returned /\ a.stat # "return"

\* The function o returns: what it nests are blocks, one of which it returns from.
Returning(cs, o) ==
    /\ o \in 1..Len(cs) /\ cs[o].kind = "call"
    /\ \A i \in o + 1..Len(cs) : cs[i].kind = "block"
    /\ \A i \in 1..o - 1 : Quiet(cs[i])
    /\ cs[o].returned \/ \E i \in o..Len(cs) : cs[i].stat = "return"
    /\ o = Len(cs) => cs[o].stat # "none"

ReturnInv ==
    /\ Within(calls)
    /\ flag => \E o \in 1..Len(calls) : Returning(calls, o)
    /\ ~flag => \A i \in 1..Len(calls) : Quiet(calls[i])

FuncKind == {"run", "call"}

\* The innermost function or program, of which there is one: the first call is
\* a program.
LEMMA OwnerIs ==
    ASSUME FrameInv, NEW o \in 1..Len(calls), calls[o].kind \in FuncKind,
           \A j \in o + 1..Len(calls) : calls[j].kind \notin FuncKind
    PROVE  Owner = o
<1>1. Len(calls) \in Nat
  BY InvTypes
<1>2. ASSUME NEW i \in 1..Len(calls), calls[i].kind \in FuncKind,
             \A j \in i + 1..Len(calls) : calls[j].kind \notin FuncKind
      PROVE  i = o
  <2>1. ~(i < o)
    BY <1>1, <1>2
  <2>2. ~(o < i)
    BY <1>1, <1>2
  <2>3. QED
    BY <1>1, <2>1, <2>2
<1>3. QED
  BY <1>2 DEF Owner, FuncKind

LEMMA OwnerExists ==
    ASSUME FrameInv
    PROVE  /\ Owner \in 1..Len(calls) /\ calls[Owner].kind \in FuncKind
           /\ \A j \in Owner + 1..Len(calls) : calls[j].kind \notin FuncKind
<1>1. /\ Len(calls) \in Nat \ {0} /\ calls[1].kind = "run"
  BY InvTypes DEF FramesOK, Nesting
<1> DEFINE n == Len(calls)
           T == {k \in 0..n - 1 : calls[n - k].kind \in FuncKind}
<1>2. n - 1 \in T
  <2>1. n - 1 \in 0..n - 1 /\ n - (n - 1) = 1
    BY <1>1
  <2>2. QED
    BY <1>1, <2>1 DEF FuncKind
<1>3. PICK m \in T : \A k \in T : ~ (<<k, m>> \in OpToRel(<, Nat))
  <2>1. T \subseteq Nat
    BY <1>1
  <2> HIDE DEF T
  <2>2. QED
    BY <1>2, <2>1, NatLessThanWellFounded, WFMin
<1>4. \A k \in T : ~ (k < m)
  <2>1. \A k \in T : k \in Nat
    BY <1>1
  <2> HIDE DEF T
  <2>2. QED
    BY <1>3, <2>1 DEF OpToRel
<1>5. n - m \in 1..n /\ calls[n - m].kind \in FuncKind /\ m \in 0..n - 1
  BY <1>1
<1>6. \A j \in (n - m) + 1..n : calls[j].kind \notin FuncKind
  <2>1. SUFFICES ASSUME NEW j \in (n - m) + 1..n, calls[j].kind \in FuncKind
                 PROVE  FALSE
    OBVIOUS
  <2>2. n - j \in 0..n - 1 /\ n - (n - j) = j /\ n - j < m
    BY <1>1, <1>5
  <2>3. n - j \in T
    BY <2>1, <2>2
  <2>4. QED
    BY <1>4, <2>2, <2>3
<1>7. Owner = n - m
  BY <1>5, <1>6, OwnerIs
<1>8. QED
  BY <1>5, <1>6, <1>7

\* While the flag is set, the function that returns owns the code that runs.
LEMMA ReturningOwner ==
    ASSUME FrameInv, NEW o \in 1..Len(calls), Returning(calls, o)
    PROVE  /\ Owner = o
           /\ Top.kind \in {"call", "block"} /\ (Top.kind = "call" <=> o = Len(calls))
<1>1. Len(calls) \in Nat \ {0}
  BY InvTypes
<1>2. Owner = o
  BY OwnerIs DEF Returning, FuncKind
<1>3. o = Len(calls) \/ Len(calls) \in o + 1..Len(calls)
  BY <1>1
<1>4. QED
  BY <1>1, <1>2, <1>3 DEF Returning, Top

LEMMA GoesOnQuietly ==
    ASSUME PlainReturns, ReturnInv, MayGoOn
    PROVE  ~flag /\ Within(calls) /\ \A i \in 1..Len(calls) : Quiet(calls[i])
BY DEF PlainReturns, ReturnInv, MayGoOn

\* What is nested in a statement, without a return, keeps the invariant.
LEMMA QuietPush ==
    ASSUME NEW cs \in CallStack, NEW a \in Activation, NEW ds, ds = Append(cs, a),
           Within(cs), cs[Len(cs)].stat # "none",
           \A i \in 1..Len(cs) : Quiet(cs[i]), Quiet(a)
    PROVE  Within(ds) /\ \A i \in 1..Len(ds) : Quiet(ds[i])
<1>1. /\ Len(cs) \in Nat \ {0} /\ Len(ds) = Len(cs) + 1 /\ ds[Len(cs) + 1] = a
      /\ \A i \in 1..Len(cs) : ds[i] = cs[i]
  BY Typed, Pushed
<1>2. Within(ds)
  BY <1>1 DEF Within
<1>3. QED
  BY <1>1, <1>2

LEMMA BelowQuiet ==
    ASSUME FrameInv, ReturnInv, Len(calls) > 1
    PROVE  /\ Len(Below) = Len(calls) - 1 /\ Below \in CallStack
           /\ \A i \in 1..Len(calls) - 1 : Below[i] = calls[i]
           /\ \A i \in 1..Len(Below) : Below[i] = calls[i] /\ i \in 1..Len(calls)
           /\ Within(Below) /\ Below[Len(Below)].stat # "none"
<1>1. Len(calls) \in Nat /\ Len(calls) > 1 /\ calls \in Seq(Activation)
  BY InvTypes DEF CallStack
<1>2. Len(calls) - 1 \in 1..Len(calls)
  BY <1>1
<1>3. /\ Len(Below) = Len(calls) - 1 /\ Below \in CallStack
      /\ \A i \in 1..Len(calls) - 1 : Below[i] = calls[i]
  <2>1. Below \in Seq(Activation) \ {<<>>}
    BY <1>1, <1>2, Prefix DEF Below
  <2>2. QED
    BY <1>1, <1>2, <2>1 DEF CallStack, Below
<1>4. Within(calls)
  BY DEF ReturnInv
<1>5. QED
  BY <1>1, <1>3, <1>4 DEF Within

LEMMA NextReturnInv ==
    ASSUME PlainReturns, FrameInv, ReturnInv, [Next]_vars
    PROVE  ReturnInv'
<1> DEFINE n == Len(calls)
<1>0. /\ n \in Nat \ {0} /\ n \in 1..n /\ calls \in CallStack /\ calls \in Seq(Activation)
      /\ flag \in BOOLEAN /\ \A i \in 1..n : calls[i] \in Activation
  BY InvTypes DEF FrameInv, TypeOK
<1>1. CASE BeginStat
  <2>1. ~flag /\ Within(calls) /\ \A i \in 1..n : Quiet(calls[i])
    BY <1>1, GoesOnQuietly DEF BeginStat
  <2>2. /\ flag' = flag /\ Len(calls') = n
        /\ \A i \in 1..n : i # n => calls'[i] = calls[i]
        /\ calls'[n].stat = "stat" /\ calls'[n].returned = calls[n].returned
    BY <1>0, <1>1 DEF BeginStat, Activation
  <2>3. QED
    BY <1>0, <2>1, <2>2 DEF ReturnInv, Within, Quiet
<1>2. CASE BeginReturn
  <2>1. ~flag /\ Within(calls) /\ \A i \in 1..n : Quiet(calls[i])
    BY <1>2, GoesOnQuietly DEF BeginReturn
  <2>2. /\ flag' = TRUE /\ Len(calls') = n
        /\ \A i \in 1..n : i # n => calls'[i] = calls[i]
        /\ calls'[n].stat = "return" /\ calls'[n].kind = calls[n].kind
    BY <1>0, <1>2 DEF BeginReturn, Activation
  <2>3. PICK o \in 1..n : /\ o = Owner /\ calls[o].kind \in FuncKind
                          /\ \A j \in o + 1..n : calls[j].kind \notin FuncKind
    BY OwnerExists
  <2>4. calls[o].kind = "call" /\ \A j \in o..n : calls[j].kind # "args"
    BY <1>2, <2>3 DEF BeginReturn, MayReturn, PlainReturns, FuncKind
  <2>5. \A j \in o + 1..n : calls[j].kind = "block"
    BY <1>0, <2>3, <2>4 DEF FuncKind, Activation, Kind
  <2>6. \A i \in 1..n : calls'[i].kind = calls[i].kind
    BY <2>2
  <2>7. Returning(calls', o)
    BY <1>0, <2>1, <2>2, <2>4, <2>5, <2>6 DEF Returning
  <2>8. Within(calls')
    BY <1>0, <2>1, <2>2 DEF Within
  <2>9. QED
    BY <2>2, <2>7, <2>8 DEF ReturnInv
<1>3. CASE EndStat
  <2>1. /\ flag' = flag /\ Len(calls') = n
        /\ \A i \in 1..n :
             /\ calls'[i].kind = calls[i].kind
             /\ calls'[i].stat = IF i = n THEN "none" ELSE calls[i].stat
             /\ calls'[i].returned
                  = (calls[i].returned \/ (i = Owner /\ Top.stat = "return"))
    <3>1. /\ flag' = flag
          /\ calls' = [i \in 1..n |->
                          [calls[i] EXCEPT
                             !.stat = IF i = n THEN "none" ELSE @,
                             !.returned = @ \/ (i = Owner /\ Top.stat = "return")]]
      BY <1>3 DEF EndStat
    <3>3. Len(calls') = n
      BY <1>3, EndStatTypes
    <3>2. ASSUME NEW i \in 1..n
          PROVE  /\ calls'[i].kind = calls[i].kind
                 /\ calls'[i].stat = IF i = n THEN "none" ELSE calls[i].stat
                 /\ calls'[i].returned
                      = (calls[i].returned \/ (i = Owner /\ Top.stat = "return"))
      <4> DEFINE v == IF i = n THEN "none" ELSE calls[i].stat
                 b == calls[i].returned \/ (i = Owner /\ Top.stat = "return")
      <4>1. calls'[i] = [calls[i] EXCEPT !.stat = v, !.returned = b]
        BY <3>1
      <4>2. calls[i] \in Activation
        BY <1>0
      <4> HIDE DEF v, b
      <4>3. calls'[i].kind = calls[i].kind /\ calls'[i].stat = v /\ calls'[i].returned = b
        BY <4>1, <4>2 DEF Activation
      <4>4. QED
        BY <4>3 DEF v, b
    <3>5. QED
      BY <3>1, <3>2, <3>3
  <2>2. Within(calls')
    BY <1>0, <2>1 DEF ReturnInv, Within
  <2>3. CASE ~flag
    BY <1>0, <2>1, <2>2, <2>3 DEF ReturnInv, Quiet, Top
  <2>4. CASE flag
    <3>1. PICK o \in 1..n : Returning(calls, o)
      BY <2>4 DEF ReturnInv
    <3>2. Owner = o /\ o \in 1..n - 1 /\ calls[o].stat # "none"
      <4>1. Owner = o /\ o # n
        BY <1>3, <2>4, <3>1, ReturningOwner DEF EndStat
      <4>2. o \in 1..n - 1
        BY <1>0, <4>1
      <4>3. QED
        BY <4>1, <4>2 DEF ReturnInv, Within
    <3>3. \A i \in 1..o - 1 : Quiet(calls'[i])
      <4>1. \A i \in 1..o - 1 : i \in 1..n /\ i # n /\ i # Owner
        BY <1>0, <3>2
      <4>2. \A i \in 1..o - 1 : Quiet(calls[i])
        BY <3>1 DEF Returning
      <4>3. QED
        BY <2>1, <4>1, <4>2 DEF Quiet
    <3>4. calls'[o].returned \/ \E i \in o..n : calls'[i].stat = "return"
      <4>1. CASE calls[o].returned
        BY <2>1, <3>1, <4>1
      <4>2. CASE Top.stat = "return"
        BY <2>1, <3>1, <3>2, <4>2
      <4>3. CASE Top.stat # "return" /\ ~calls[o].returned
        <5>1. PICK i \in o..n : calls[i].stat = "return"
          BY <3>1, <4>3 DEF Returning
        <5>2. i # n /\ i \in 1..n
          BY <1>0, <4>3, <5>1 DEF Top
        <5>3. QED
          BY <2>1, <5>1, <5>2
      <4>4. QED
        BY <4>1, <4>2, <4>3
    <3>5. \A i \in o + 1..n : calls'[i].kind = "block"
      BY <1>0, <2>1, <3>1 DEF Returning
    <3>6. Returning(calls', o)
      BY <1>0, <2>1, <3>1, <3>2, <3>3, <3>4, <3>5 DEF Returning
    <3>7. QED
      BY <2>1, <2>2, <2>4, <3>6 DEF ReturnInv
  <2>5. QED
    BY <1>0, <2>3, <2>4
<1>4. CASE CutBody
  <2>1. flag /\ Top.kind = "call" /\ flag' = FALSE /\ calls' = Below
    BY <1>4 DEF CutBody
  <2>2. PICK o \in 1..n : Returning(calls, o)
    BY <2>1 DEF ReturnInv
  <2>3. o = n
    BY <2>1, <2>2, ReturningOwner
  <2>4. n > 1
    BY <1>0, <2>1, InvTypes DEF FramesOK, Nesting, Top
  <2>5. /\ Len(calls') = n - 1 /\ \A i \in 1..n - 1 : calls'[i] = calls[i]
        /\ Within(calls')
    BY <2>1, <2>4, BelowQuiet
  <2>6. QED
    BY <2>1, <2>2, <2>3, <2>5 DEF ReturnInv, Returning
<1>5. CASE EndBody
  <2>1. Top.stat = "none" /\ Top.kind \in {"call", "block"} /\ flag' = flag /\ calls' = Below
    BY <1>5 DEF EndBody
  <2>2. n > 1
    BY <1>0, <2>1, InvTypes DEF FramesOK, Nesting, Top
  <2>3. /\ Len(calls') = n - 1 /\ \A i \in 1..n - 1 : calls'[i] = calls[i]
        /\ Within(calls')
    BY <2>1, <2>2, BelowQuiet
  <2>4. CASE ~flag
    BY <1>0, <2>1, <2>3, <2>4 DEF ReturnInv
  <2>5. CASE flag
    <3>1. PICK o \in 1..n : Returning(calls, o)
      BY <2>5 DEF ReturnInv
    <3>2. o # n
      BY <2>1, <3>1 DEF Returning, Top
    <3>3. o \in 1..n - 1 /\ calls[o].stat # "none"
      BY <1>0, <3>1, <3>2 DEF ReturnInv, Within
    <3>4. calls'[o].returned \/ \E i \in o..n - 1 : calls'[i].stat = "return"
      <4>1. CASE calls[o].returned
        BY <2>3, <3>3, <4>1
      <4>2. CASE ~calls[o].returned
        <5>1. PICK i \in o..n : calls[i].stat = "return"
          BY <3>1, <4>2 DEF Returning
        <5>2. i \in o..n - 1 /\ i \in 1..n - 1
          BY <1>0, <2>1, <5>1 DEF Top
        <5>3. QED
          BY <2>3, <5>1, <5>2
      <4>3. QED
        BY <4>1, <4>2
    <3>5. /\ calls'[o].kind = "call" /\ calls'[o].stat # "none"
          /\ \A i \in o + 1..n - 1 : calls'[i].kind = "block"
          /\ \A i \in 1..o - 1 : Quiet(calls'[i])
      BY <1>0, <2>3, <3>1, <3>3 DEF Returning
    <3>6. Returning(calls', o)
      BY <2>3, <3>3, <3>4, <3>5 DEF Returning
    <3>7. QED
      BY <2>1, <2>3, <2>5, <3>3, <3>6 DEF ReturnInv
  <2>6. QED
    BY <1>0, <2>4, <2>5
<1>6. ASSUME NEW a \in Activation, Quiet(a), calls' = Append(calls, a), Nests,
             flag' = flag
      PROVE  ReturnInv'
  <2>1. ~flag /\ Within(calls) /\ \A i \in 1..n : Quiet(calls[i])
    BY <1>6, GoesOnQuietly DEF Nests, Evaluates
  <2>2. Within(calls') /\ \A i \in 1..Len(calls') : Quiet(calls'[i])
    BY <1>0, <1>6, <2>1, QuietPush DEF Nests, Evaluates, Top
  <2>3. QED
    BY <1>6, <2>1, <2>2 DEF ReturnInv
<1>7. ASSUME NEW k \in Kind, NEW s \in Scope, NEW d \in Nat, NEW c \in Seq(Scope)
      PROVE  Started(k, s, d, c) \in Activation /\ Quiet(Started(k, s, d, c))
  BY DEF Started, Activation, Quiet
<1>8. CASE \E s \in Scope : Call(s) \/ Block(s)
  <2>1. PICK s \in Scope : Call(s) \/ Block(s)
    BY <1>8
  <2>2. Len(ctx) \in Nat /\ <<>> \in Seq(Scope)
    BY InvTypes
  <2>3. \E k \in Kind, d \in Nat :
          Nests /\ calls' = Append(calls, Started(k, s, d, <<>>)) /\ flag' = flag
    BY <2>1, <2>2 DEF Call, Block, Kind
  <2>4. QED
    BY <1>6, <1>7, <2>2, <2>3
<1>9. CASE Eval \/ Include
  <2>1. /\ Len(ctx) \in Nat /\ ctx \in Seq(Scope) /\ <<>> \in Seq(Scope)
        /\ Global \in Scope
    <3>1. ctx \in CtxStack
      BY InvTypes
    <3>2. QED
      BY <3>1 DEF CtxStack
  <2>2. \E d \in Nat, c \in Seq(Scope) :
          Nests /\ calls' = Append(calls, Started("run", Global, d, c)) /\ flag' = flag
    BY <1>9, <2>1 DEF Eval, Include, Program
  <2>3. "run" \in Kind
    BY DEF Kind
  <2>4. QED
    BY <1>6, <1>7, <2>1, <2>2, <2>3
<1>10. ASSUME Top.kind \in {"run", "args"}
       PROVE  ~flag /\ Within(calls) /\ \A i \in 1..n : Quiet(calls[i])
  BY <1>0, <1>10, ReturningOwner DEF ReturnInv
<1>11. CASE Enter
  <2> DEFINE a == Started("call", Top.scope, Len(ctx) + 1, <<>>)
  <2>1. Top.kind = "args" /\ calls' = Append(Below, a) /\ flag' = flag
    BY <1>11 DEF Enter
  <2>2. a \in Activation /\ Quiet(a)
    <3>1. Top.scope \in Scope /\ Len(ctx) + 1 \in Nat /\ "call" \in Kind /\ <<>> \in Seq(Scope)
      BY InvTypes DEF Activation, Kind
    <3>2. QED
      BY <1>7, <3>1
  <2> HIDE DEF a
  <2>3. n > 1
    BY <1>0, <2>1, InvTypes DEF FramesOK, Nesting, Top
  <2>4. /\ Below \in CallStack /\ Within(Below) /\ Below[Len(Below)].stat # "none"
        /\ \A i \in 1..Len(Below) : Quiet(Below[i])
    <3>1. /\ \A i \in 1..Len(Below) : Below[i] = calls[i] /\ i \in 1..n
          /\ Below \in CallStack /\ Within(Below) /\ Below[Len(Below)].stat # "none"
      BY <2>3, BelowQuiet
    <3>2. QED
      BY <1>10, <2>1, <3>1
  <2>5. Within(calls') /\ \A i \in 1..Len(calls') : Quiet(calls'[i])
    BY <2>1, <2>2, <2>4, QuietPush
  <2>6. QED
    BY <1>10, <2>1, <2>5 DEF ReturnInv
<1>12. CASE EndEval \/ EndInclude
  <2>1. Top.kind = "run" /\ calls' = Below /\ flag' = flag
    BY <1>12 DEF EndEval, EndInclude
  <2>2. n > 1
    BY <1>0, <1>12, InvTypes, PopEval DEF EndEval, EndInclude, Top
  <2>3. /\ \A i \in 1..Len(Below) : Below[i] = calls[i] /\ i \in 1..n
        /\ Within(Below)
    BY <2>2, BelowQuiet
  <2>4. QED
    BY <1>10, <2>1, <2>3 DEF ReturnInv
<1>13. CASE Raise
  <2>1. ~flag
    BY <1>13, GoesOnQuietly DEF Raise, Evaluates
  <2>2. Quiet(Program(1, <<>>))
    BY DEF Program, Started, Quiet
  <2>3. Len(calls') = 1 /\ calls'[1] = Program(1, <<>>) /\ flag' = flag
    BY <1>13 DEF Raise
  <2>4. QED
    BY <2>1, <2>2, <2>3 DEF ReturnInv, Within
<1>14. CASE Gc \/ UNCHANGED vars
  BY <1>14 DEF Gc, vars, ReturnInv
<1>15. QED
  BY <1>1, <1>2, <1>3, <1>4, <1>5, <1>8, <1>9, <1>11, <1>12, <1>13, <1>14 DEF Next

LEMMA InitReturnInv == Init => ReturnInv
<1> SUFFICES ASSUME Init PROVE ReturnInv
  OBVIOUS
<1>1. Quiet(Program(1, <<>>))
  BY DEF Program, Started, Quiet
<1>2. Len(calls) = 1 /\ calls[1] = Program(1, <<>>) /\ ~flag
  BY DEF Init
<1>3. QED
  BY <1>1, <1>2 DEF ReturnInv, Within

\* A return cuts short the function it belongs to and no other, whatever blocks
\* it leaves, provided that nothing is evaluated after it was reached and that
\* programs do not return.
THEOREM FlagIsOursHolds ==
    ASSUME PlainReturns
    PROVE  Spec => []FlagIsOurs
<1>1. FrameInv /\ ReturnInv /\ [Next]_vars => (FrameInv /\ ReturnInv)'
  BY NextFrameInv, NextReturnInv
<1>2. FrameInv /\ ReturnInv => FlagIsOurs
  <2> SUFFICES ASSUME FrameInv, ReturnInv, flag PROVE FlagIsOurs
    BY DEF FlagIsOurs
  <2>1. PICK o \in 1..Len(calls) : Returning(calls, o)
    BY DEF ReturnInv
  <2>2. Owner = o
    BY <2>1, ReturningOwner
  <2>3. QED
    BY <2>1, <2>2 DEF FlagIsOurs, Returning
<1>3. QED
  BY <1>1, <1>2, InitFrameInv, InitReturnInv, PTL DEF Spec

\* Once a return statement was executed, its function begins no other statement.
THEOREM ReturnLeavesHolds ==
    ASSUME PlainReturns
    PROVE  Spec => ReturnLeaves
<1>1. FrameInv /\ ReturnInv /\ [Next]_vars => (FrameInv /\ ReturnInv)'
  BY NextFrameInv, NextReturnInv
<1>2. FrameInv /\ ReturnInv /\ [Next]_vars => [Begins => ~calls[Owner].returned]_vars
  <2> SUFFICES ASSUME FrameInv, ReturnInv, Next, Begins PROVE ~calls[Owner].returned
    OBVIOUS
  <2>1. ~flag
    <3>1. SUFFICES ASSUME flag PROVE FALSE
      OBVIOUS
    <3>2. PICK o \in 1..Len(calls) : Returning(calls, o)
      BY <3>1 DEF ReturnInv
    <3>3. Top.kind \in {"call", "block"}
      BY <3>2, ReturningOwner
    <3>4. Len(calls) \in Nat \ {0} /\ Len(Below) # Len(calls)
      <4>1. Len(calls) \in Nat \ {0} /\ calls \in Seq(Activation)
        BY InvTypes DEF CallStack
      <4>2. QED
        BY <4>1 DEF Below
    <3>5. Top.stat = "none" /\ Len(calls') = Len(calls) /\ Top'.stat # "none"
      BY DEF Begins
    <3>6. ~MayGoOn
      BY <3>1 DEF MayGoOn, PlainReturns
    <3>7. ~(BeginStat \/ BeginReturn \/ EndStat \/ CutBody \/ EndBody \/ Enter)
      BY <3>3, <3>4, <3>5, <3>6
      DEF BeginStat, BeginReturn, EndStat, CutBody, EndBody, Enter
    <3>8. ~((\E s \in Scope : Call(s) \/ Block(s)) \/ Eval \/ EndEval \/ Include
             \/ EndInclude \/ Gc \/ Raise)
      BY <3>3, <3>5, <3>6
      DEF Call, Block, Eval, EndEval, Include, EndInclude, Gc, Raise, Nests, Evaluates
    <3>9. QED
      BY <3>7, <3>8 DEF Next
  <2>2. Owner \in 1..Len(calls)
    BY OwnerExists
  <2>3. QED
    BY <2>1, <2>2 DEF ReturnInv, Quiet
<1>3. QED
  BY <1>1, <1>2, InitFrameInv, InitReturnInv, PTL DEF Spec, ReturnLeaves
===============================================================================
