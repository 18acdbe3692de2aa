------------------------------- MODULE ListLemmas -------------------------------
(***************************************************************************)
(* What a list made of pieces holds: facts about \o and FlattenSeq, for    *)
(* lists of any length.  They need induction over the naturals, stated for *)
(* sets: a set that holds 0, and n + 1 whenever it holds n, holds every    *)
(* natural number.  The library's induction theorems take a predicate for  *)
(* a parameter; this one follows from the well-foundedness of strict       *)
(* inclusion among finite sets, applied to the sets 1 .. n.                *)
(***************************************************************************)
EXTENDS Naturals, Sequences, FiniteSets, Functions, SequencesExt, FiniteSetTheorems, TLAPS

\* A set of natural numbers that has a member has a least one.
LEMMA LeastNat ==
  ASSUME NEW T, T \subseteq Nat, T # {}
  PROVE  \E x \in T : \A y \in T : x <= y
<1> DEFINE upto(n) == 1 .. n
           below == {upto(n) : n \in T}
<1>1. \A n \in Nat : IsFiniteSet(upto(n))
  BY FS_Interval
<1>2. below \subseteq FiniteSubsetsOf(Nat) /\ below # {}
  <2>1. \A n \in T : upto(n) \in FiniteSubsetsOf(Nat)
    BY <1>1 DEF FiniteSubsetsOf
  <2> HIDE DEF upto
  <2> QED BY <2>1
<1>3. \E b \in below : \A c \in below : ~ (<<c, b>> \in StrictSubsetOrdering(Nat))
  <2> HIDE DEF below
  <2> QED BY <1>2, FS_StrictSubsetOrderingWellFounded, WFMin
<1>4. PICK m \in T : \A n \in T : ~ (<<upto(n), upto(m)>> \in StrictSubsetOrdering(Nat))
  BY <1>3
<1>5. ASSUME NEW n \in T, n < m PROVE FALSE
  <2>1. upto(n) \subseteq upto(m) /\ upto(n) # upto(m)
    <3>1. m \in upto(m) /\ m \notin upto(n)
      BY <1>5
    <3>2. upto(n) \subseteq upto(m)
      BY <1>5
    <3> QED BY <3>1, <3>2
  <2>2. upto(n) \in SUBSET Nat /\ upto(m) \in SUBSET Nat
    OBVIOUS
  <2>3. <<upto(n), upto(m)>> \in StrictSubsetOrdering(Nat)
    <3> HIDE DEF upto
    <3> QED BY <2>1, <2>2 DEF StrictSubsetOrdering
  <2> QED BY <2>3, <1>4
<1> QED BY <1>4, <1>5

\* Induction, with the set of the numbers a property holds of for the property.
LEMMA SetInduction ==
  ASSUME NEW S, 0 \in S, \A n \in Nat : n \in S => n + 1 \in S
  PROVE  Nat \subseteq S
<1> SUFFICES ASSUME Nat \ S # {} PROVE FALSE
  OBVIOUS
<1>1. PICK m \in Nat \ S : \A n \in Nat \ S : m <= n
  BY LeastNat
<1>2. m # 0 /\ m - 1 \in Nat /\ m - 1 < m
  OBVIOUS
<1>3. m - 1 \in S
  BY <1>1, <1>2
<1> QED BY <1>2, <1>3

\* FlattenSeq appends the pieces from the first to the last: the function its
\* definition chooses exists.
LEMMA FlattenSteps ==
  ASSUME NEW X, NEW ss \in Seq(Seq(X)), Len(ss) > 0
  PROVE  \E f : /\ \A i \in 1 .. Len(ss) : f[i] = IF i = 1 THEN ss[i] ELSE f[i-1] \o ss[i]
                /\ FlattenSeq(ss) = f[Len(ss)]
<1> DEFINE N == Len(ss)
           Fits(f, n) == f = [i \in 1 .. n |-> IF i = 1 THEN ss[i] ELSE f[i-1] \o ss[i]]
           S == {n \in Nat : \E f : Fits(f, n)}
<1>1. 0 \in S
  <2> DEFINE f == [i \in 1 .. 0 |-> ss[i]]
  <2>1. Fits(f, 0)
    OBVIOUS
  <2> QED BY <2>1
<1>2. ASSUME NEW n \in Nat, n \in S PROVE n + 1 \in S
  <2>1. PICK f : Fits(f, n)
    BY <1>2
  <2> DEFINE e == IF n = 0 THEN ss[n + 1] ELSE f[n] \o ss[n + 1]
             g == [i \in 1 .. n + 1 |-> IF i <= n THEN f[i] ELSE e]
  <2>2. \A i \in 1 .. n : f[i] = IF i = 1 THEN ss[i] ELSE f[i-1] \o ss[i]
    BY <2>1
  <2>3. (\A i \in 1 .. n : g[i] = f[i]) /\ g[n + 1] = e /\ DOMAIN g = 1 .. n + 1
    <3> HIDE DEF e
    <3> QED OBVIOUS
  <2>4. g = [i \in 1 .. n + 1 |-> g[i]]
    OBVIOUS
  <2> HIDE DEF g, Fits
  <2>5. ASSUME NEW i \in 1 .. n + 1 PROVE g[i] = IF i = 1 THEN ss[i] ELSE g[i-1] \o ss[i]
    <3>1. CASE i = n + 1
      BY <3>1, <2>3
    <3>2. CASE i \in 1 .. n
      <4>1. CASE i = 1
        BY <3>2, <4>1, <2>2, <2>3
      <4>2. CASE i # 1
        <5>1. i - 1 \in 1 .. n
          BY <3>2, <4>2
        <5>2. f[i] = f[i-1] \o ss[i]
          BY <3>2, <4>2, <2>2
        <5> QED BY <3>2, <4>2, <5>1, <5>2, <2>3
      <4> QED BY <4>1, <4>2
    <3> QED BY <3>1, <3>2
  <2>6. Fits(g, n + 1)
    BY <2>4, <2>5 DEF Fits
  <2> QED BY <2>6
<1>3. N \in S
  <2>1. N \in Nat
    OBVIOUS
  <2> HIDE DEF S, N
  <2> QED BY <1>1, <1>2, <2>1, SetInduction
<1> DEFINE F == CHOOSE f : Fits(f, N)
<1>5. Fits(F, N)
  BY <1>3
<1>6. FlattenSeq(ss) = F[N]
  BY DEF FlattenSeq
<1> HIDE DEF F
<1>7. \A i \in 1 .. N : F[i] = IF i = 1 THEN ss[i] ELSE F[i-1] \o ss[i]
  BY <1>5
<1> HIDE DEF Fits, S
<1> QED BY <1>6, <1>7

-------------------------------------------------------------------------------
(* Two lists *)

\* The members of s \o t are those of s and those of t.
LEMMA ConcatMembers ==
  ASSUME NEW X, NEW s \in Seq(X), NEW t \in Seq(X)
  PROVE  s \o t \in Seq(X) /\ ToSet(s \o t) = ToSet(s) \cup ToSet(t)
<1>1. s \o t \in Seq(X)
  OBVIOUS
<1>2. Len(s \o t) = Len(s) + Len(t)
  OBVIOUS
<1>3. \A i \in 1 .. Len(s) + Len(t) : (s \o t)[i] = IF i <= Len(s) THEN s[i] ELSE t[i - Len(s)]
  OBVIOUS
<1>4. /\ Len(s) \in Nat /\ Len(t) \in Nat
      /\ DOMAIN s = 1 .. Len(s) /\ DOMAIN t = 1 .. Len(t)
      /\ DOMAIN (s \o t) = 1 .. Len(s) + Len(t)
  BY <1>1, <1>2
<1>5. ASSUME NEW x \in ToSet(s \o t) PROVE x \in ToSet(s) \cup ToSet(t)
  <2>1. PICK i \in 1 .. Len(s) + Len(t) : x = (s \o t)[i]
    BY <1>4, <1>5 DEF ToSet
  <2>2. CASE i <= Len(s)
    BY <2>1, <2>2, <1>3, <1>4 DEF ToSet
  <2>3. CASE i > Len(s)
    <3>1. i - Len(s) \in 1 .. Len(t)
      BY <2>3, <1>4
    <3> QED BY <2>1, <2>3, <3>1, <1>3, <1>4 DEF ToSet
  <2> QED BY <2>2, <2>3, <1>4
<1>6. ASSUME NEW x \in ToSet(s) PROVE x \in ToSet(s \o t)
  <2>1. PICK i \in 1 .. Len(s) : x = s[i]
    BY <1>4 DEF ToSet
  <2>2. i \in 1 .. Len(s) + Len(t) /\ (s \o t)[i] = x
    BY <2>1, <1>3, <1>4
  <2> QED BY <2>2, <1>4 DEF ToSet
<1>7. ASSUME NEW x \in ToSet(t) PROVE x \in ToSet(s \o t)
  <2>1. PICK i \in 1 .. Len(t) : x = t[i]
    BY <1>4 DEF ToSet
  <2>2. i + Len(s) \in 1 .. Len(s) + Len(t) /\ ~(i + Len(s) <= Len(s)) /\ (i + Len(s)) - Len(s) = i
    BY <1>4
  <2>3. (s \o t)[i + Len(s)] = x
    BY <2>1, <2>2, <1>3
  <2> QED BY <2>2, <2>3, <1>4 DEF ToSet
<1> QED BY <1>1, <1>5, <1>6, <1>7

\* Two lists that name nothing twice, and nothing in common, make one that names
\* nothing twice.
LEMMA ConcatOnce ==
  ASSUME NEW X, NEW s \in Seq(X), NEW t \in Seq(X),
         IsInjective(s), IsInjective(t), ToSet(s) \cap ToSet(t) = {}
  PROVE  IsInjective(s \o t)
<1>3. \A i \in 1 .. Len(s) + Len(t) : (s \o t)[i] = IF i <= Len(s) THEN s[i] ELSE t[i - Len(s)]
  OBVIOUS
<1>4. /\ Len(s) \in Nat /\ Len(t) \in Nat
      /\ DOMAIN s = 1 .. Len(s) /\ DOMAIN t = 1 .. Len(t)
      /\ DOMAIN (s \o t) = 1 .. Len(s) + Len(t)
  OBVIOUS
<1> SUFFICES ASSUME NEW i \in 1 .. Len(s) + Len(t), NEW j \in 1 .. Len(s) + Len(t),
                    (s \o t)[i] = (s \o t)[j]
             PROVE  i = j
  BY <1>4 DEF IsInjective
<1>5. ASSUME NEW a \in 1 .. Len(s) + Len(t), NEW b \in 1 .. Len(s) + Len(t), a <= Len(s), b > Len(s)
      PROVE  (s \o t)[a] # (s \o t)[b]
  <2>1. a \in DOMAIN s /\ (s \o t)[a] = s[a]
    BY <1>3, <1>4, <1>5
  <2>2. b - Len(s) \in DOMAIN t /\ (s \o t)[b] = t[b - Len(s)]
    BY <1>3, <1>4, <1>5
  <2>3. s[a] \in ToSet(s) /\ t[b - Len(s)] \in ToSet(t)
    BY <2>1, <2>2 DEF ToSet
  <2> QED BY <2>1, <2>2, <2>3
<1>6. CASE i <= Len(s) /\ j <= Len(s)
  <2>1. i \in DOMAIN s /\ j \in DOMAIN s /\ s[i] = s[j]
    BY <1>3, <1>4, <1>6
  <2> QED BY <2>1 DEF IsInjective
<1>7. CASE i > Len(s) /\ j > Len(s)
  <2>1. i - Len(s) \in DOMAIN t /\ j - Len(s) \in DOMAIN t /\ t[i - Len(s)] = t[j - Len(s)]
    BY <1>3, <1>4, <1>7
  <2>2. i - Len(s) = j - Len(s)
    BY <2>1 DEF IsInjective
  <2> QED BY <2>2, <1>4
<1> QED BY <1>4, <1>5, <1>6, <1>7

-------------------------------------------------------------------------------
(* Any number of lists *)

\* The members of the first n pieces.
Members(ss, n) == UNION {ToSet(ss[i]) : i \in 1 .. n}

\* The members of the flattened list are those of its pieces.
LEMMA FlattenMembers ==
  ASSUME NEW X, NEW ss \in Seq(Seq(X))
  PROVE  FlattenSeq(ss) \in Seq(X) /\ ToSet(FlattenSeq(ss)) = Members(ss, Len(ss))
<1>0. Len(ss) \in Nat /\ \A i \in 1 .. Len(ss) : ss[i] \in Seq(X)
  OBVIOUS
<1>1. CASE Len(ss) = 0
  <2>1. FlattenSeq(ss) = <<>> /\ 1 .. Len(ss) = {}
    BY <1>1 DEF FlattenSeq
  <2>2. ToSet(<<>>) = {} /\ <<>> \in Seq(X)
    BY DEF ToSet
  <2> QED BY <2>1, <2>2 DEF Members
<1>2. CASE Len(ss) > 0
  <2>1. PICK f : /\ \A i \in 1 .. Len(ss) : f[i] = IF i = 1 THEN ss[i] ELSE f[i-1] \o ss[i]
                 /\ FlattenSeq(ss) = f[Len(ss)]
    BY <1>2, FlattenSteps
  <2> DEFINE S == {n \in Nat : n \in 1 .. Len(ss) => f[n] \in Seq(X) /\ ToSet(f[n]) = Members(ss, n)}
  <2>2. 0 \in S
    OBVIOUS
  <2>3. ASSUME NEW n \in Nat, n \in S PROVE n + 1 \in S
    <3> SUFFICES ASSUME n + 1 \in 1 .. Len(ss)
                 PROVE  f[n + 1] \in Seq(X) /\ ToSet(f[n + 1]) = Members(ss, n + 1)
      OBVIOUS
    <3>1. CASE n = 0
      <4>1. f[n + 1] = ss[n + 1] /\ 1 .. n + 1 = {1} /\ n + 1 = 1
        BY <3>1, <2>1
      <4> QED BY <4>1, <1>0 DEF Members
    <3>2. CASE n # 0
      <4>1. n \in 1 .. Len(ss) /\ n + 1 # 1 /\ (n + 1) - 1 = n
        BY <3>2, <1>0
      <4>2. f[n + 1] = f[n] \o ss[n + 1]
        BY <4>1, <2>1
      <4>3. f[n] \in Seq(X) /\ ToSet(f[n]) = Members(ss, n) /\ ss[n + 1] \in Seq(X)
        BY <4>1, <2>3, <1>0
      <4>4. f[n + 1] \in Seq(X) /\ ToSet(f[n + 1]) = ToSet(f[n]) \cup ToSet(ss[n + 1])
        BY <4>2, <4>3, ConcatMembers
      <4>5. 1 .. n + 1 = (1 .. n) \cup {n + 1}
        BY <3>2
      <4>6. Members(ss, n + 1) = Members(ss, n) \cup ToSet(ss[n + 1])
        BY <4>5 DEF Members
      <4> QED BY <4>3, <4>4, <4>6
    <3> QED BY <3>1, <3>2
  <2> HIDE DEF S
  <2>4. Len(ss) \in S
    BY <1>0, <2>2, <2>3, SetInduction
  <2> QED BY <1>0, <1>2, <2>1, <2>4 DEF S
<1> QED BY <1>0, <1>1, <1>2

\* Pieces that name nothing twice, and nothing in common with one another, make a
\* list that names nothing twice.
LEMMA FlattenOnce ==
  ASSUME NEW X, NEW ss \in Seq(Seq(X)),
         \A i \in 1 .. Len(ss) : IsInjective(ss[i]),
         \A i, j \in 1 .. Len(ss) : i # j => ToSet(ss[i]) \cap ToSet(ss[j]) = {}
  PROVE  IsInjective(FlattenSeq(ss))
<1>0. Len(ss) \in Nat /\ \A i \in 1 .. Len(ss) : ss[i] \in Seq(X)
  OBVIOUS
<1>1. CASE Len(ss) = 0
  <2>1. FlattenSeq(ss) = <<>>
    BY <1>1 DEF FlattenSeq
  <2> QED BY <2>1 DEF IsInjective
<1>2. CASE Len(ss) > 0
  <2>1. PICK f : /\ \A i \in 1 .. Len(ss) : f[i] = IF i = 1 THEN ss[i] ELSE f[i-1] \o ss[i]
                 /\ FlattenSeq(ss) = f[Len(ss)]
    BY <1>2, FlattenSteps
  <2> DEFINE Good(n) == f[n] \in Seq(X) /\ ToSet(f[n]) = Members(ss, n) /\ IsInjective(f[n])
             S == {n \in Nat : n \in 1 .. Len(ss) => Good(n)}
  <2>2. 0 \in S
    OBVIOUS
  <2>3. ASSUME NEW n \in Nat, n \in S PROVE n + 1 \in S
    <3> SUFFICES ASSUME n + 1 \in 1 .. Len(ss)
                 PROVE  Good(n + 1)
      OBVIOUS
    <3>1. CASE n = 0
      <4>1. f[n + 1] = ss[n + 1] /\ 1 .. n + 1 = {1} /\ n + 1 = 1
        BY <3>1, <2>1
      <4> QED BY <4>1, <1>0 DEF Members
    <3>2. CASE n # 0
      <4>1. n \in 1 .. Len(ss) /\ n + 1 # 1 /\ (n + 1) - 1 = n
        BY <3>2, <1>0
      <4>2. f[n + 1] = f[n] \o ss[n + 1]
        BY <4>1, <2>1
      <4>3. Good(n) /\ ss[n + 1] \in Seq(X) /\ IsInjective(ss[n + 1])
        BY <4>1, <2>3, <1>0
      <4>4. f[n + 1] \in Seq(X) /\ ToSet(f[n + 1]) = ToSet(f[n]) \cup ToSet(ss[n + 1])
        BY <4>2, <4>3, ConcatMembers
      <4>5. 1 .. n + 1 = (1 .. n) \cup {n + 1}
        BY <3>2
      <4>6. Members(ss, n + 1) = Members(ss, n) \cup ToSet(ss[n + 1])
        BY <4>5 DEF Members
      <4>7. Members(ss, n) \cap ToSet(ss[n + 1]) = {}
        <5>1. \A i \in 1 .. n : i \in 1 .. Len(ss) /\ i # n + 1
          BY <4>1, <1>0
        <5>2. \A i \in 1 .. n : ToSet(ss[i]) \cap ToSet(ss[n + 1]) = {}
          BY <5>1
        <5> QED BY <5>2 DEF Members
      <4>8. IsInjective(f[n + 1])
        BY <4>2, <4>3, <4>7, ConcatOnce
      <4> QED BY <4>3, <4>4, <4>6, <4>8
    <3> QED BY <3>1, <3>2
  <2> HIDE DEF S
  <2>4. Len(ss) \in S
    BY <1>0, <2>2, <2>3, SetInduction
  <2> QED BY <1>0, <1>2, <2>1, <2>4 DEF S
<1> QED BY <1>0, <1>1, <1>2
===============================================================================
