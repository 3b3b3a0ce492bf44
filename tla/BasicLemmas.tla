------------------------------ MODULE BasicLemmas ------------------------------
(***************************************************************************)
(* Facts about natural numbers and sequences that several proofs need.     *)
(***************************************************************************)
EXTENDS Integers, Sequences, FiniteSetsExt, TLAPS, WellFoundedInduction, SequenceTheorems

(* A set of naturals that is not empty has a least member.                 *)
LEMMA LeastMember ==
  ASSUME NEW S \in SUBSET Nat, S # {}
  PROVE  \E x \in S : \A y \in S : x <= y
<1> DEFINE R == OpToRel(<, Nat)
<1>1. IsWellFoundedOn(R, Nat)
  BY NatLessThanWellFounded
<1>2. PICK x \in S : \A y \in S : ~ (<<y, x>> \in R)
  BY <1>1, WFMin
<1>3. \A y \in S : ~ (y < x)
  BY <1>2 DEF OpToRel
<1>4. QED
  BY <1>3

LEMMA MinOfNaturals ==
  ASSUME NEW S \in SUBSET Nat, S # {}
  PROVE  Min(S) \in S /\ \A y \in S : Min(S) <= y
BY LeastMember DEF Min

LEMMA MaxOfNaturals ==
  ASSUME NEW n \in Nat, NEW S \in SUBSET (0 .. n), S # {}
  PROVE  Max(S) \in S /\ \A y \in S : Max(S) >= y
<1> DEFINE T == {n - y : y \in S}
<1>1. T \in SUBSET Nat /\ T # {}
  <2>1. PICK y \in S : TRUE
    OBVIOUS
  <2>2. n - y \in T
    BY <2>1
  <2>3. QED
    BY <2>2
<1> HIDE DEF T
<1>2. PICK t \in T : \A u \in T : t <= u
  BY <1>1, LeastMember, Zenon
<1> USE DEF T
<1>3. PICK x \in S : t = n - x
  BY <1>2
<1>4. \A y \in S : n - y \in T
  OBVIOUS
<1>5. \A y \in S : x >= y
  BY <1>2, <1>3, <1>4
<1>6. QED
  BY <1>5 DEF Max

(* Induction, for a set of numbers that the step does not leave.           *)
LEMMA Induction ==
  ASSUME NEW n \in Nat, NEW P, 0 \in P, \A k \in 0 .. n - 1 : k \in P => k + 1 \in P
  PROVE  \A k \in 0 .. n : k \in P
<1> DEFINE S == {k \in 0 .. n : k \notin P}
<1>1. SUFFICES ASSUME S # {} PROVE FALSE
  OBVIOUS
<1>2. S \in SUBSET Nat
  OBVIOUS
<1> HIDE DEF S
<1>3. PICK x \in S : \A y \in S : x <= y
  BY <1>1, <1>2, LeastMember, Zenon
<1> USE DEF S
<1>4. x \in 1 .. n /\ x \notin P
  BY <1>3
<1>5. x - 1 \in 0 .. n - 1 /\ x - 1 \notin S /\ (x - 1) + 1 = x
  BY <1>3, <1>4
<1>6. x - 1 \in P
  BY <1>5
<1>7. QED
  BY <1>4, <1>5, <1>6

(* A function that is given by its first value and a step.                 *)
IsStep(F, X, n)       == F \in [X \X (1 .. n) -> X]
IsRun(g, a, F, X, n)  == /\ g \in [0 .. n -> X] /\ g[0] = a
                         /\ \A k \in 1 .. n : g[k] = F[<<g[k - 1], k>>]

(* It exists.                                                              *)
LEMMA Recursion ==
  ASSUME NEW n \in Nat, NEW X, NEW a \in X, NEW F, IsStep(F, X, n)
  PROVE  \E g : IsRun(g, a, F, X, n)
<1> USE DEF IsStep
<1> DEFINE Upto(m, g) == g[0] = a /\ \A k \in 1 .. m : g[k] = F[<<g[k - 1], k>>]
           P == {m \in 0 .. n : \E g \in [0 .. m -> X] : Upto(m, g)}
<1>1. 0 \in P
  <2> DEFINE g == [k \in 0 .. 0 |-> a]
  <2>1. g \in [0 .. 0 -> X] /\ Upto(0, g)
    OBVIOUS
  <2> HIDE DEF g
  <2>2. \E e \in [0 .. 0 -> X] : Upto(0, e)
    BY <2>1
  <2>3. QED
    BY <2>2
<1>2. ASSUME NEW m \in 0 .. n - 1, m \in P PROVE m + 1 \in P
  <2>1. PICK g \in [0 .. m -> X] : Upto(m, g)
    BY <1>2
  <2>2. m + 1 \in 0 .. n /\ m + 1 \in 1 .. n /\ m \in 0 .. m
    OBVIOUS
  <2>3. F[<<g[m], m + 1>>] \in X
    BY <2>2
  <2> DEFINE h == [k \in 0 .. m + 1 |-> IF k = m + 1 THEN F[<<g[m], m + 1>>] ELSE g[k]]
  <2>4. h \in [0 .. m + 1 -> X]
    BY <2>3
  <2>5. h[0] = a
    BY <2>1
  <2>6. ASSUME NEW k \in 1 .. m + 1 PROVE h[k] = F[<<h[k - 1], k>>]
    <3>1. k - 1 \in 0 .. m /\ h[k - 1] = g[k - 1] /\ k \in 0 .. m + 1
      OBVIOUS
    <3>2. CASE k = m + 1
      <4>1. h[k] = F[<<g[m], m + 1>>] /\ k - 1 = m
        BY <3>1, <3>2
      <4>2. QED
        BY <3>1, <3>2, <4>1, Zenon
    <3>3. CASE k # m + 1
      <4>1. k \in 1 .. m
        BY <3>3
      <4>2. g[k] = F[<<g[k - 1], k>>]
        BY <2>1, <4>1
      <4>3. h[k] = g[k]
        BY <3>1, <3>3
      <4>4. QED
        BY <3>1, <4>2, <4>3, Zenon
    <3>4. QED
      BY <3>2, <3>3
  <2>7. Upto(m + 1, h)
    BY <2>5, <2>6
  <2>8. QED
    BY <2>2, <2>4, <2>7
<1> HIDE DEF P
<1>3. \A k \in 0 .. n : k \in P
  BY <1>1, <1>2, Induction
<1>4. n \in P
  BY <1>3
<1>5. PICK g \in [0 .. n -> X] : Upto(n, g)
  BY <1>4 DEF P
<1>6. QED
  BY <1>5 DEF IsRun

(* A sum of the elements up to each place exists.                          *)
LEMMA SumsExist ==
  ASSUME NEW n \in Nat, NEW a \in Nat, NEW w \in [1 .. n -> Nat]
  PROVE  \E o \in [0 .. n -> Nat] : o[0] = a /\ \A k \in 1 .. n : o[k] = o[k - 1] + w[k]
<1> DEFINE F == [e \in Nat \X (1 .. n) |-> e[1] + w[e[2]]]
<1>1. IsStep(F, Nat, n)
  BY DEF IsStep
<1> HIDE DEF F
<1>2. PICK o : IsRun(o, a, F, Nat, n)
  BY <1>1, Recursion
<1>3. o \in [0 .. n -> Nat] /\ o[0] = a /\ \A k \in 1 .. n : o[k] = F[<<o[k - 1], k>>]
  BY <1>2 DEF IsRun
<1>4. ASSUME NEW k \in 1 .. n PROVE o[k] = o[k - 1] + w[k]
  <2>1. o[k - 1] \in Nat
    BY <1>3
  <2>2. F[<<o[k - 1], k>>] = o[k - 1] + w[k]
    BY <2>1 DEF F
  <2>3. QED
    BY <1>3, <2>2
<1>5. QED
  BY <1>3, <1>4

(* The sums grow.                                                          *)
LEMMA SumsGrow ==
  ASSUME NEW n \in Nat, NEW o \in [0 .. n -> Nat], \A k \in 1 .. n : o[k - 1] <= o[k]
  PROVE  \A i, k \in 0 .. n : i <= k => o[i] <= o[k]
<1> DEFINE P == {k \in 0 .. n : \A i \in 0 .. n : i <= k => o[i] <= o[k]}
<1>1. 0 \in P
  <2>1. \A i \in 0 .. n : i <= 0 => i = 0
    OBVIOUS
  <2>2. QED
    BY <2>1
<1>2. ASSUME NEW k \in 0 .. n - 1, k \in P PROVE k + 1 \in P
  <2>1. k + 1 \in 1 .. n /\ k + 1 \in 0 .. n /\ k \in 0 .. n /\ (k + 1) - 1 = k
    OBVIOUS
  <2>2. o[k] <= o[k + 1]
    BY <2>1
  <2>3. ASSUME NEW i \in 0 .. n, i <= k + 1 PROVE o[i] <= o[k + 1]
    <3>1. CASE i = k + 1
      BY <2>1, <3>1
    <3>2. CASE i <= k
      <4>1. o[i] <= o[k]
        BY <1>2, <3>2
      <4>2. o[i] \in Nat /\ o[k] \in Nat /\ o[k + 1] \in Nat
        BY <2>1
      <4>3. QED
        BY <2>2, <4>1, <4>2
    <3>3. QED
      BY <2>1, <2>3, <3>1, <3>2
  <2>4. QED
    BY <2>1, <2>3
<1> HIDE DEF P
<1>3. \A k \in 0 .. n : k \in P
  BY <1>1, <1>2, Induction
<1>4. QED
  BY <1>3 DEF P

(* One sequence after the other.                                           *)
LEMMA Joining ==
  ASSUME NEW S, NEW s \in Seq(S), NEW t \in Seq(S)
  PROVE  s \o t \in Seq(S) /\ Len(s \o t) = Len(s) + Len(t)
OBVIOUS

LEMMA JoinLeft ==
  ASSUME NEW S, NEW s \in Seq(S), NEW t \in Seq(S), NEW k \in 1 .. Len(s)
  PROVE  (s \o t)[k] = s[k]
OBVIOUS

LEMMA JoinRight ==
  ASSUME NEW S, NEW s \in Seq(S), NEW t \in Seq(S), NEW k \in 1 .. Len(s) + Len(t),
         ~ (k <= Len(s))
  PROVE  (s \o t)[k] = t[k - Len(s)]
OBVIOUS

(* Which two are joined first does not matter.                             *)
Regroups(s, t, u) == (s \o t) \o u = s \o (t \o u)

LEMMA JoinAssociative ==
  ASSUME NEW S, NEW s \in Seq(S), NEW t \in Seq(S), NEW u \in Seq(S)
  PROVE  Regroups(s, t, u)
BY ConcatAssociative DEF Regroups

(* Where a sequence lies in another.                                       *)
LiesAt(f, k, s) == \A j \in 1 .. Len(s) : f[k + j] = s[j]

LEMMA JoinLies ==
  ASSUME NEW S, NEW s \in Seq(S), NEW t \in Seq(S)
  PROVE  LiesAt(s \o t, 0, s) /\ LiesAt(s \o t, Len(s), t)
BY DEF LiesAt

(* What lies in a sequence stays where it is when more is written behind. *)
LEMMA LiesStill ==
  ASSUME NEW S, NEW s \in Seq(S), NEW t \in Seq(S), NEW u, Len(u) \in Nat,
         NEW k \in Nat, k + Len(u) <= Len(s), LiesAt(s, k, u)
  PROVE  LiesAt(s \o t, k, u)
<1>1. ASSUME NEW j \in 1 .. Len(u) PROVE (s \o t)[k + j] = u[j]
  <2> DEFINE m == k + j
  <2>1. m \in 1 .. Len(s)
    OBVIOUS
  <2>2. s[m] = u[j]
    BY DEF LiesAt
  <2> HIDE DEF m
  <2>3. (s \o t)[m] = s[m]
    BY <2>1, JoinLeft
  <2>4. (s \o t)[m] = u[j]
    BY <2>2, <2>3
  <2>5. QED
    BY <2>4 DEF m
<1>2. QED
  BY <1>1 DEF LiesAt

(* Sequences that are written as functions or by their elements.           *)
LEMMA RangeIsSequence ==
  ASSUME NEW S, NEW n \in Nat, NEW f \in [1 .. n -> S] PROVE f \in Seq(S) /\ Len(f) = n
OBVIOUS

LEMMA OneElement == ASSUME NEW S, NEW a \in S PROVE <<a>> \in Seq(S) /\ Len(<<a>>) = 1
OBVIOUS

(* Where the parts of a sequence lie in it.                                *)
LEMMA JoinThree ==
  ASSUME NEW S, NEW r \in Seq(S), NEW s \in Seq(S), NEW t \in Seq(S)
  PROVE  /\ r \o s \o t \in Seq(S) /\ Len(r \o s \o t) = Len(r) + Len(s) + Len(t)
         /\ LiesAt(r \o s \o t, 0, r)
         /\ LiesAt(r \o s \o t, Len(r), s)
         /\ LiesAt(r \o s \o t, Len(r) + Len(s), t)
BY DEF LiesAt
=============================================================================
