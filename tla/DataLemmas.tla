----------------------------- MODULE DataLemmas -----------------------------
(***************************************************************************)
(* Induction over the natural numbers, in a form the provers can use: a    *)
(* set takes the place of the predicate.  From it follow the facts about   *)
(* recursive definitions that the other proofs rest on.                    *)
(***************************************************************************)
EXTENDS Integers, SequencesExt, SequenceTheorems, WellFoundedInduction, TLAPS

LEMMA NatWellFounded == IsWellFoundedOn({p \in Nat \X Nat : p[1] < p[2]}, Nat)
BY NatLessThanWellFounded DEF OpToRel

\* A set of natural numbers that is not empty has a least element.
LEMMA LeastNatural ==
    ASSUME NEW T, T \subseteq Nat, T # {}
    PROVE  \E x \in T : \A y \in T : x <= y
<1> DEFINE R == {p \in Nat \X Nat : p[1] < p[2]}
<1>1. \E x \in T : \A y \in T : ~ (<<y, x>> \in R)
  <2>1. IsWellFoundedOn(R, Nat)
    BY NatWellFounded
  <2> HIDE DEF R
  <2> QED BY <2>1, WFMin
<1>2. PICK x \in T : \A y \in T : ~ (<<y, x>> \in R)
  BY <1>1
<1>3. \A y \in T : ~(y < x)
  BY <1>2
<1> QED BY <1>3

\* A set that holds 0, and with each number the next, holds every number.
LEMMA SetInduction ==
    ASSUME NEW S, 0 \in S, \A n \in Nat : n \in S => n + 1 \in S
    PROVE  Nat \subseteq S
<1> SUFFICES ASSUME Nat \ S # {} PROVE FALSE
  OBVIOUS
<1> DEFINE T == Nat \ S
<1>1. PICK x \in T : \A y \in T : x <= y
  <2>1. T \subseteq Nat /\ T # {}
    OBVIOUS
  <2> HIDE DEF T
  <2> QED BY <2>1, LeastNatural
<1>2. x \in Nat /\ x # 0 /\ x - 1 \in Nat
  BY <1>1
<1>3. x - 1 \in S
  BY <1>1, <1>2
<1> QED BY <1>1, <1>2, <1>3

-----------------------------------------------------------------------------
(* Elements of a sequence                                                  *)

LEMMA ConcatElements ==
    ASSUME NEW S, NEW s \in Seq(S), NEW t \in Seq(S)
    PROVE  /\ s \o t \in Seq(S)
           /\ \A x : x \in Range(s \o t) <=> x \in Range(s) \/ x \in Range(t)
BY ConcatProperties, RangeConcatenation

LEMMA NoElements == Range(<<>>) = {}
BY DEF Range

LEMMA HeadAndTail ==
    ASSUME NEW S, NEW s \in Seq(S), s # <<>>
    PROVE  /\ Head(s) \in S /\ Tail(s) \in Seq(S)
           /\ \A x : x \in Range(s) <=> x = Head(s) \/ x \in Range(Tail(s))
<1> DEFINE n == Len(s)
           t == Tail(s)
<1>1. n \in Nat \ {0} /\ 1 \in 1 .. n /\ Head(s) = s[1] /\ Head(s) \in S
  OBVIOUS
<1>2. t \in Seq(S) /\ Len(t) = n - 1 /\ \A i \in 1 .. n - 1 : t[i] = s[i + 1]
  OBVIOUS
<1>3. DOMAIN s = 1 .. n /\ DOMAIN t = 1 .. n - 1
  BY <1>2
<1> HIDE DEF n, t
<1>4. ASSUME NEW i \in 1 .. n PROVE s[i] = Head(s) \/ s[i] \in Range(t)
  <2>1. CASE i = 1
    BY <1>1, <2>1
  <2>2. CASE i # 1
    <3>1. i - 1 \in 1 .. n - 1
      BY <1>1, <2>2
    <3>2. t[i - 1] = s[i]
      BY <1>1, <1>2, <3>1
    <3> QED BY <1>3, <3>1, <3>2 DEF Range
  <2> QED BY <2>1, <2>2
<1>5. ASSUME NEW i \in 1 .. n - 1 PROVE t[i] \in Range(s)
  <2>1. i + 1 \in 1 .. n
    BY <1>1
  <2> QED BY <1>2, <1>3, <2>1 DEF Range
<1>6. Head(s) \in Range(s)
  BY <1>1, <1>3 DEF Range
<1>7. ASSUME NEW x \in Range(s) PROVE x = Head(s) \/ x \in Range(t)
  <2>1. PICK i \in 1 .. n : x = s[i]
    BY <1>3 DEF Range
  <2> QED BY <1>4, <2>1
<1>8. ASSUME NEW x \in Range(t) PROVE x \in Range(s)
  <2>1. PICK i \in 1 .. n - 1 : x = t[i]
    BY <1>3 DEF Range
  <2> QED BY <1>5, <2>1
<1> QED BY <1>1, <1>2, <1>6, <1>7, <1>8 DEF t

\* A function of functions with one value replaced.
LEMMA ReplaceOne ==
    ASSUME NEW A, NEW B, NEW V, NEW f \in [A -> [B -> V]],
           NEW a \in A, NEW b \in B, NEW v \in V,
           NEW g, g = [f EXCEPT ![a][b] = v]
    PROVE  /\ g \in [A -> [B -> V]] /\ g[a][b] = v
           /\ \A x \in A : \A y \in B : x # a \/ y # b => g[x][y] = f[x][y]
OBVIOUS

-----------------------------------------------------------------------------
(* Division                                                                *)

LEMMA DivMod ==
    ASSUME NEW a \in Nat, NEW n \in Nat \ {0}
    PROVE  a \div n \in Nat /\ a % n \in 0 .. n - 1 /\ a = n * (a \div n) + (a % n)
OBVIOUS

LEMMA DivBelow ==
    ASSUME NEW a \in Nat, NEW n \in Nat \ {0}, NEW m \in Nat, a < m * n
    PROVE  a \div n < m
OBVIOUS

LEMMA DivUnique ==
    ASSUME NEW n \in Nat \ {0}, NEW q \in Int, NEW r \in 0 .. n - 1
    PROVE  (n * q + r) \div n = q /\ (n * q + r) % n = r
OBVIOUS

-----------------------------------------------------------------------------
(* FlattenSeq                                                              *)

\* The recursive function by which FlattenSeq is defined exists.
LEMMA FlattenExists ==
    ASSUME NEW s, NEW n \in Nat
    PROVE  \E f : f = [i \in 1 .. n |-> IF i = 1 THEN s[i] ELSE f[i - 1] \o s[i]]
<1> DEFINE Def(f, m) == [i \in 1 .. m |-> IF i = 1 THEN s[i] ELSE f[i - 1] \o s[i]]
           S == {m \in Nat : \E f : f = Def(f, m)}
<1>1. 0 \in S
  <2> DEFINE f == [i \in {} |-> s]
  <2>1. 1 .. 0 = {}
    OBVIOUS
  <2>2. f = Def(f, 0)
    BY <2>1
  <2> HIDE DEF f, Def
  <2> QED BY <2>2
<1>2. ASSUME NEW m \in Nat, m \in S PROVE m + 1 \in S
  <2>1. PICK f : f = Def(f, m)
    BY <1>2
  <2> DEFINE g == [i \in 1 .. m + 1 |-> IF i = 1 THEN s[i] ELSE f[i - 1] \o s[i]]
  <2>2. ASSUME NEW i \in 1 .. m PROVE g[i] = f[i]
    <3>1. f[i] = IF i = 1 THEN s[i] ELSE f[i - 1] \o s[i]
      BY <2>1
    <3>2. g[i] = IF i = 1 THEN s[i] ELSE f[i - 1] \o s[i]
      <4>1. i \in 1 .. m + 1
        OBVIOUS
      <4> QED BY <4>1
    <3> HIDE DEF g
    <3> QED BY <3>1, <3>2
  <2>3. ASSUME NEW i \in 1 .. m + 1
        PROVE  g[i] = IF i = 1 THEN s[i] ELSE g[i - 1] \o s[i]
    <3>1. CASE i = 1
      BY <3>1
    <3>2. CASE i # 1
      <4>1. i - 1 \in 1 .. m
        BY <3>2
      <4>2. g[i - 1] = f[i - 1]
        BY <2>2, <4>1
      <4> QED BY <3>2, <4>2
    <3> QED BY <3>1, <3>2
  <2>4. g = [i \in 1 .. m + 1 |-> g[i]]
    OBVIOUS
  <2> HIDE DEF g
  <2>5. g = Def(g, m + 1)
    BY <2>3, <2>4
  <2> HIDE DEF Def
  <2> QED BY <2>5
<1>3. n \in S
  <2> HIDE DEF S
  <2> QED BY <1>1, <1>2, SetInduction
<1> HIDE DEF Def
<1>4. \E f : f = Def(f, n)
  BY <1>3
<1> QED BY <1>4 DEF Def

\* It is a sequence of the elements of the sequences it flattens, and of all of them.
LEMMA FlattenProperties ==
    ASSUME NEW S, NEW s \in Seq(Seq(S))
    PROVE  /\ FlattenSeq(s) \in Seq(S)
           /\ \A x : x \in Range(FlattenSeq(s)) <=> \E i \in 1 .. Len(s) : x \in Range(s[i])
<1>1. CASE Len(s) = 0
  <2>1. s = <<>> /\ FlattenSeq(s) = <<>>
    BY <1>1 DEF FlattenSeq
  <2>2. <<>> \in Seq(S) /\ Range(<<>>) = {}
    BY DEF Range
  <2>3. 1 .. Len(s) = {}
    BY <1>1
  <2> QED BY <2>1, <2>2, <2>3
<1>2. CASE Len(s) # 0
  <2> DEFINE n == Len(s)
             flatten == CHOOSE f :
                f = [i \in 1 .. n |-> IF i = 1 THEN s[i] ELSE f[i - 1] \o s[i]]
             Good(m) == /\ flatten[m] \in Seq(S)
                        /\ \A x : x \in Range(flatten[m]) <=>
                                    \E i \in 1 .. m : x \in Range(s[i])
             T == {m \in Nat : m \in 1 .. n => Good(m)}
  <2>1. n \in Nat /\ n # 0 /\ \A i \in 1 .. n : s[i] \in Seq(S)
    BY <1>2
  <2>2. FlattenSeq(s) = flatten[n]
    BY <1>2 DEF FlattenSeq
  <2>3. flatten = [i \in 1 .. n |-> IF i = 1 THEN s[i] ELSE flatten[i - 1] \o s[i]]
    BY <2>1, FlattenExists
  <2> HIDE DEF flatten, n
  <2>4. ASSUME NEW i \in 1 .. n
        PROVE  flatten[i] = IF i = 1 THEN s[i] ELSE flatten[i - 1] \o s[i]
    BY <2>3
  <2>5. 0 \in T
    OBVIOUS
  <2>6. ASSUME NEW m \in Nat, m \in T, m + 1 \in 1 .. n PROVE Good(m + 1)
    <3>1. CASE m = 0
      <4>1. m + 1 = 1 /\ 1 \in 1 .. n
        BY <2>1, <3>1
      <4>2. flatten[1] = s[1] /\ s[1] \in Seq(S)
        BY <2>1, <2>4, <4>1
      <4>3. 1 .. 1 = {1}
        OBVIOUS
      <4> QED BY <4>1, <4>2, <4>3
    <3>2. CASE m # 0
      <4>1. m \in 1 .. n /\ m + 1 # 1 /\ m + 1 - 1 = m
        BY <2>1, <2>6, <3>2
      <4>2. Good(m)
        BY <2>6, <4>1
      <4>3. flatten[m + 1] = flatten[m] \o s[m + 1] /\ s[m + 1] \in Seq(S)
        <5>1. s[m + 1] \in Seq(S)
          BY <2>1, <2>6
        <5>2. flatten[m + 1] = IF m + 1 = 1 THEN s[m + 1] ELSE flatten[m + 1 - 1] \o s[m + 1]
          BY <2>4, <2>6
        <5> QED BY <4>1, <5>1, <5>2
      <4>4. /\ flatten[m + 1] \in Seq(S)
            /\ Range(flatten[m + 1]) = Range(flatten[m]) \cup Range(s[m + 1])
        BY <4>2, <4>3, ConcatProperties, RangeConcatenation
      <4>5. 1 .. m + 1 = 1 .. m \cup {m + 1}
        OBVIOUS
      <4>6. ASSUME NEW x
            PROVE  x \in Range(flatten[m + 1]) <=> \E i \in 1 .. m + 1 : x \in Range(s[i])
        <5>1. x \in Range(flatten[m]) <=> \E i \in 1 .. m : x \in Range(s[i])
          BY <4>2
        <5> HIDE DEF Good
        <5> QED BY <4>4, <4>5, <5>1
      <4> QED BY <4>4, <4>6
    <3> QED BY <3>1, <3>2
  <2>7. n \in T
    <3>1. ASSUME NEW m \in Nat, m \in T PROVE m + 1 \in T
      <4> HIDE DEF Good, T
      <4>1. m + 1 \in Nat /\ (m + 1 \in 1 .. n => Good(m + 1))
        BY <2>6, <3>1
      <4> QED BY <4>1 DEF T
    <3> HIDE DEF T
    <3> QED BY <2>1, <2>5, <3>1, SetInduction
  <2>8. Good(n)
    BY <2>1, <2>7
  <2> QED BY <2>2, <2>8 DEF n
<1> QED BY <1>1, <1>2
=============================================================================
