-------------------------------- MODULE Least --------------------------------
(***************************************************************************)
(* What the other proofs share.  A set of things that are measured by      *)
(* natural numbers has a least: this is the induction they make, as the    *)
(* library's own induction theorems take an operator, and none of the      *)
(* provers here can be given one.  And what becomes of a queue that is put *)
(* on, or taken off.                                                       *)
(***************************************************************************)
EXTENDS Naturals, Integers, FiniteSetTheorems, SequenceTheorems, TLAPS

(* Any set of things with a natural-number measure has one of smallest     *)
(* measure.  (The intervals 0..f[c] are finite sets, which strict          *)
(* inclusion orders well.)                                                 *)
LEMMA Smallest ==
  ASSUME NEW S, S # {}, NEW f \in [S -> Nat]
  PROVE  \E c \in S : \A d \in S : f[c] <= f[d]
<1> DEFINE T == {0 .. f[c] : c \in S}
           R == StrictSubsetOrdering(Nat)
<1>1. IsWellFoundedOn(R, FiniteSubsetsOf(Nat))
  BY FS_StrictSubsetOrderingWellFounded
<1>2. T \subseteq FiniteSubsetsOf(Nat) /\ T # {}
  <2>1. ASSUME NEW c \in S
        PROVE  0 .. f[c] \in FiniteSubsetsOf(Nat)
    <3>1. f[c] \in Int /\ 0 \in Int
      OBVIOUS
    <3>2. IsFiniteSet(0 .. f[c])
      BY <3>1, FS_Interval
    <3> QED
      BY <3>2 DEF FiniteSubsetsOf
  <2> QED
    BY <2>1
<1>3. PICK x \in T : \A y \in T : ~ (<<y, x>> \in R)
  <2> HIDE DEF T, R
  <2> QED
    BY <1>1, <1>2, WFMin
<1>4. PICK c \in S : x = 0 .. f[c]
  BY <1>3
<1>5. ASSUME NEW d \in S, f[d] < f[c]
      PROVE  FALSE
  <2>1. 0 .. f[d] \subseteq 0 .. f[c] /\ 0 .. f[d] # 0 .. f[c]
    <3>1. f[c] \in 0 .. f[c] /\ f[c] \notin 0 .. f[d]
      BY <1>5
    <3> QED
      BY <3>1, <1>5
  <2>2. <<0 .. f[d], x>> \in R
    BY <2>1, <1>4 DEF StrictSubsetOrdering
  <2> QED
    BY <2>2, <1>3
<1> QED
  BY <1>5

(* A set of numbers up to n has a largest.                                 *)
LEMMA Largest ==
  ASSUME NEW n \in Nat, NEW S \in SUBSET (1 .. n), S # {}
  PROVE  \E m \in S : \A k \in S : k <= m
<1> DEFINE f == [m \in S |-> n - m]
<1>1. f \in [S -> Nat]
  OBVIOUS
<1>2. PICK m \in S : \A k \in S : f[m] <= f[k]
  <2> HIDE DEF f
  <2> QED
    BY <1>1, Smallest
<1>3. \A k \in S : k <= m
  BY <1>2
<1> QED
  BY <1>3

-----------------------------------------------------------------------------
(* Queues                                                                  *)

LEMMA AtTheEnd ==
  ASSUME NEW S, NEW w \in Seq(S), NEW v \in Seq(S)
  PROVE  /\ w \o v \in Seq(S)
         /\ Len(w) \in Nat /\ Len(v) \in Nat /\ Len(w \o v) = Len(w) + Len(v)
         /\ \A i \in 1 .. Len(w) : (w \o v)[i] = w[i]
         /\ \A k \in 1 .. Len(v) : (w \o v)[Len(w) + k] = v[k]
         /\ \A i \in 1 .. Len(w \o v) :
              i \in 1 .. Len(w) \/ \E k \in 1 .. Len(v) : i = Len(w) + k
<1>1. /\ w \o v \in Seq(S) /\ Len(w) \in Nat /\ Len(v) \in Nat
      /\ Len(w \o v) = Len(w) + Len(v)
      /\ \A i \in 1 .. Len(w) + Len(v) :
           (w \o v)[i] = IF i <= Len(w) THEN w[i] ELSE v[i - Len(w)]
  BY ConcatProperties, LenProperties
<1>2. \A i \in 1 .. Len(w \o v) :
        i \in 1 .. Len(w) \/ \E k \in 1 .. Len(v) : i = Len(w) + k
  <2>1. ASSUME NEW i \in 1 .. Len(w) + Len(v), i \notin 1 .. Len(w)
        PROVE  i - Len(w) \in 1 .. Len(v) /\ i = Len(w) + (i - Len(w))
    BY <1>1, <2>1
  <2> QED
    BY <1>1, <2>1
<1> QED
  BY <1>1, <1>2

LEMMA TakenOff ==
  ASSUME NEW S, NEW w \in Seq(S), w # <<>>
  PROVE  /\ Tail(w) \in Seq(S) /\ Head(w) = w[1]
         /\ Len(w) \in Nat /\ Len(w) >= 1 /\ Len(Tail(w)) = Len(w) - 1
         /\ \A i \in 1 .. Len(Tail(w)) : i + 1 \in 1 .. Len(w) /\ Tail(w)[i] = w[i + 1]
         /\ \A i \in 1 .. Len(w) : i = 1 \/ (i - 1 \in 1 .. Len(Tail(w)) /\ w[i] = Tail(w)[i - 1])
<1>1. /\ Tail(w) \in Seq(S) /\ Len(Tail(w)) = Len(w) - 1
      /\ \A i \in 1 .. Len(Tail(w)) : Tail(w)[i] = w[i + 1]
  BY HeadTailProperties
<1>2. Len(w) \in Nat /\ Len(w) >= 1
  BY EmptySeq, LenProperties
<1>3. \A i \in 1 .. Len(w) : i = 1 \/ (i - 1 \in 1 .. Len(Tail(w)) /\ w[i] = Tail(w)[i - 1])
  <2>1. ASSUME NEW i \in 1 .. Len(w), i # 1
        PROVE  i - 1 \in 1 .. Len(Tail(w)) /\ w[i] = Tail(w)[i - 1]
    <3>1. i - 1 \in 1 .. Len(Tail(w)) /\ (i - 1) + 1 = i
      BY <1>1, <1>2, <2>1
    <3> QED
      BY <1>1, <3>1
  <2> QED
    BY <2>1
<1> QED
  BY <1>1, <1>2, <1>3

-----------------------------------------------------------------------------
(* What is computed step by step: that it exists, and what holds all along *)

LEMMA StepInduction ==
  ASSUME NEW n \in Nat, NEW S, 0 \in S, \A k \in 1 .. n : k - 1 \in S => k \in S
  PROVE  \A k \in 0 .. n : k \in S
<1> SUFFICES ASSUME NEW l \in 0 .. n, l \notin S PROVE FALSE
  OBVIOUS
<1> DEFINE T == {k \in 0 .. n : k \notin S}
           id == [k \in T |-> k]
<1>1. T # {} /\ id \in [T -> Nat]
  OBVIOUS
<1>2. PICK m \in T : \A k \in T : id[m] <= id[k]
  <2> HIDE DEF id, T
  <2> QED
    BY <1>1, Smallest
<1>3. m \in 1 .. n /\ m - 1 \notin T
  BY <1>2
<1> QED
  BY <1>3

StaysIn(V, n, step) == \A k \in 1 .. n, x \in V : step[k][x] \in V

Computed(V, n, v, step) ==
  \E f \in [0 .. n -> V] : f[0] = v /\ \A k \in 1 .. n : f[k] = step[k][f[k - 1]]

LEMMA StepByStep ==
  ASSUME NEW n \in Nat, NEW V, NEW v \in V, NEW step, StaysIn(V, n, step)
  PROVE  Computed(V, n, v, step)
<1> USE DEF StaysIn
<1> DEFINE Computes(m, f) ==
             f[0] = v /\ \A k \in 1 .. m : f[k] = step[k][f[k - 1]]
           S == {m \in 0 .. n : ~ \E f \in [0 .. m -> V] : Computes(m, f)}
<1>1. CASE n \notin S
  BY <1>1 DEF Computed
<1>2. CASE n \in S
  <2> DEFINE id == [m \in S |-> m]
  <2>1. id \in [S -> Nat]
    OBVIOUS
  <2>2. PICK m \in S : \A l \in S : id[m] <= id[l]
    <3> HIDE DEF id, S
    <3> QED
      BY <1>2, <2>1, Smallest
  <2>3. m \in 0 .. n /\ (\A l \in S : m <= l)
    BY <2>2
  <2>4. CASE m = 0
    <3> DEFINE f == [k \in 0 .. 0 |-> v]
    <3>1. f \in [0 .. m -> V] /\ Computes(m, f)
      BY <2>4
    <3> QED
      BY <3>1
  <2>5. CASE m # 0
    <3>1. m - 1 \in 0 .. n /\ m - 1 \notin S
      BY <2>3, <2>5
    <3>2. PICK g \in [0 .. m - 1 -> V] : Computes(m - 1, g)
      BY <3>1
    <3>3. m \in 1 .. n /\ m - 1 \in 0 .. m - 1
      BY <2>3, <2>5
    <3>4. step[m][g[m - 1]] \in V
      BY <3>3
    <3> DEFINE f == [k \in 0 .. m |-> IF k = m THEN step[m][g[m - 1]] ELSE g[k]]
    <3>5. f \in [0 .. m -> V]
      <4>1. \A k \in 0 .. m : k # m => k \in 0 .. m - 1
        BY <3>3
      <4> QED
        BY <3>4, <4>1
    <3>6. f[0] = v
      BY <3>2, <3>3
    <3>7. ASSUME NEW k \in 1 .. m PROVE f[k] = step[k][f[k - 1]]
      <4>1. CASE k = m
        <5>1. f[m] = step[m][g[m - 1]]
          BY <3>3
        <5>2. m - 1 \in 0 .. m /\ m - 1 # m
          BY <3>3
        <5>3. f[m - 1] = g[m - 1]
          BY <5>2
        <5> QED
          BY <4>1, <5>1, <5>3
      <4>2. CASE k # m
        <5>1. k \in 1 .. m - 1 /\ k - 1 \in 0 .. m /\ k - 1 # m /\ k \in 0 .. m
          BY <3>3, <4>2
        <5>2. f[k] = g[k] /\ f[k - 1] = g[k - 1]
          BY <4>2, <5>1
        <5> QED
          BY <3>2, <5>1, <5>2
      <4> QED
        BY <4>1, <4>2
    <3> HIDE DEF f
    <3> QED
      BY <3>5, <3>6, <3>7
  <2> QED
    BY <2>4, <2>5
<1> QED
  BY <1>1, <1>2
=============================================================================
