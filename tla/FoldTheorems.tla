---------------------------- MODULE FoldTheorems ----------------------------
(***************************************************************************)
(* Theorems about folds over finite sets and sequences.  The library's     *)
(* induction theorems take an operator as a parameter, so here a step of a *)
(* fold is a function, and where a proof needs induction it takes a        *)
(* smallest counterexample.                                                *)
(***************************************************************************)
EXTENDS SequencesExt, FiniteSetTheorems, WellFoundedInduction, TLAPS

(* Among finite sets, and among natural numbers, there are smallest ones.  *)
Smallest(s, B) == s \in B /\ \A t \in B : ~(t \subseteq s /\ t # s)

LEMMA SmallestExists ==
  ASSUME NEW D, IsFiniteSet(D), NEW B \in SUBSET (SUBSET D), B # {}
  PROVE  \E s \in B : Smallest(s, B)
<1>1. B \subseteq FiniteSubsetsOf(D)
  <2>1. \A s \in SUBSET D : IsFiniteSet(s)
    BY FS_Subset
  <2> QED BY <2>1 DEF FiniteSubsetsOf
<1>2. PICK s \in B : \A t \in B : ~(<<t, s>> \in StrictSubsetOrdering(D))
  BY <1>1, FS_StrictSubsetOrderingWellFounded, WFMin
<1> QED BY <1>2 DEF Smallest, StrictSubsetOrdering

LEMMA LeastExists ==
  ASSUME NEW B \in SUBSET Nat, B # {}
  PROVE  \E n \in B : \A m \in B : n <= m
<1>1. PICK n \in B : \A m \in B : ~(<<m, n>> \in OpToRel(<, Nat))
  BY NatLessThanWellFounded, WFMin
<1>2. \A m \in B : ~(m < n)
  BY <1>1 DEF OpToRel
<1> QED BY <1>2

(* A set of numbers that has 0 and with each number below n the next has   *)
(* all of 0 .. n.                                                          *)
LEMMA UpTo ==
  ASSUME NEW n \in Nat, NEW S, 0 \in S, \A k \in 0 .. n - 1 : k \in S => k + 1 \in S
  PROVE  \A k \in 0 .. n : k \in S
<1> DEFINE B == {k \in 0 .. n : k \notin S}
<1>1. SUFFICES ASSUME B # {} PROVE FALSE
  OBVIOUS
<1>2. PICK k \in B : \A m \in B : k <= m
  <2>1. B \in SUBSET Nat
    OBVIOUS
  <2> QED BY <1>1, <2>1, LeastExists
<1>3. k \in 0 .. n /\ k \notin S /\ k # 0
  OBVIOUS
<1>4. k - 1 \in 0 .. n - 1 /\ k - 1 \notin B
  BY <1>2, <1>3
<1>5. k - 1 \in S
  BY <1>4
<1> QED BY <1>3, <1>4, <1>5

-----------------------------------------------------------------------------
(* g folds the step h, from base, over the subsets of S, taking ch[s] from *)
(* s last.                                                                 *)
Folds(g, S, base, h, ch) ==
  \A s \in SUBSET S : g[s] = IF s = {} THEN base ELSE h[<<g[s \ {ch[s]}], ch[s]>>]

LEMMA FoldOnce ==
  ASSUME NEW base, NEW h, NEW ch, NEW S, IsFiniteSet(S), NEW T, NEW f, NEW g,
         Folds(f, S, base, h, ch), Folds(g, T, base, h, ch),
         \A s \in SUBSET S : s # {} => ch[s] \in s,
         NEW r \in SUBSET (S \cap T)
  PROVE  f[r] = g[r]
<1> DEFINE B == {s \in SUBSET (S \cap T) : f[s] # g[s]}
<1>1. SUFFICES ASSUME B # {} PROVE FALSE
  OBVIOUS
<1>2. PICK s \in B : Smallest(s, B)
  <2>1. B \in SUBSET (SUBSET S)
    OBVIOUS
  <2> QED BY <1>1, <2>1, SmallestExists
<1>3. s \in SUBSET S /\ s \in SUBSET T /\ f[s] # g[s]
  OBVIOUS
<1>4. /\ f[s] = IF s = {} THEN base ELSE h[<<f[s \ {ch[s]}], ch[s]>>]
      /\ g[s] = IF s = {} THEN base ELSE h[<<g[s \ {ch[s]}], ch[s]>>]
  BY <1>3 DEF Folds
<1>5. s # {} /\ ch[s] \in s
  BY <1>3, <1>4
<1>6. s \ {ch[s]} \in SUBSET (S \cap T) /\ s \ {ch[s]} \notin B
  BY <1>2, <1>3, <1>5 DEF Smallest
<1> QED BY <1>3, <1>4, <1>5, <1>6

(* There is such a fold.                                                   *)
LEMMA FoldExists ==
  ASSUME NEW D, IsFiniteSet(D), NEW A, NEW base \in A, NEW h \in [A \X D -> A], NEW ch,
         \A s \in SUBSET D : s # {} => ch[s] \in s
  PROVE  \E g \in [SUBSET D -> A] : Folds(g, D, base, h, ch)
<1> DEFINE Fold(g, S) == g \in [SUBSET S -> A] /\ Folds(g, S, base, h, ch)
           B == {S \in SUBSET D : ~ \E g : Fold(g, S)}
<1>1. SUFFICES ASSUME B # {} PROVE FALSE
  <2>1. D \in SUBSET D
    OBVIOUS
  <2> QED BY <2>1
<1>2. PICK S \in B : Smallest(S, B)
  BY <1>1, SmallestExists
<1>3. S \in SUBSET D /\ \A g : ~Fold(g, S)
  OBVIOUS
<1> DEFINE G(s) == CHOOSE g : Fold(g, s)
<1>4. ASSUME NEW s \in SUBSET S, s # S PROVE Fold(G(s), s)
  <2>1. s \in SUBSET D /\ s \notin B
    BY <1>2, <1>3, <1>4 DEF Smallest
  <2>2. \E g : Fold(g, s)
    BY <2>1
  <2> QED BY <2>2
<1> HIDE DEF G
<1> DEFINE less(s) == s \ {ch[s]}
           V(s) == IF s = {} THEN base ELSE h[<<G(less(s))[less(s)], ch[s]>>]
           g == [s \in SUBSET S |-> V(s)]
<1>5. ASSUME NEW s \in SUBSET S, s # {}
      PROVE  less(s) \in SUBSET S /\ less(s) # S /\ less(s) \in SUBSET s /\ ch[s] \in D
  BY <1>3, <1>5
<1>6. ASSUME NEW s \in SUBSET S, s # {} PROVE G(less(s))[less(s)] \in A
  <2> DEFINE r == less(s)
  <2>1. r \in SUBSET S /\ r # S
    BY <1>5, <1>6
  <2> HIDE DEF r
  <2>2. G(r) \in [SUBSET r -> A]
    BY <1>4, <2>1
  <2>3. G(r)[r] \in A
    BY <2>2
  <2> QED BY <2>3 DEF r
<1>7. \A s \in SUBSET S : V(s) \in A
  <2> SUFFICES ASSUME NEW s \in SUBSET S, s # {} PROVE h[<<G(less(s))[less(s)], ch[s]>>] \in A
    OBVIOUS
  <2> QED BY <1>5, <1>6
<1>8. g \in [SUBSET S -> A]
  BY <1>7
<1>9. ASSUME NEW s \in SUBSET S, s # {} PROVE G(less(s))[less(s)] = V(less(s))
  <2> DEFINE r == less(s)
  <2>1. r \in SUBSET S /\ r # S /\ IsFiniteSet(r)
    BY <1>3, <1>5, <1>9, FS_Subset
  <2> HIDE DEF r, less
  <2>2. Folds(G(r), r, base, h, ch)
    BY <1>4, <2>1
  <2>3. G(r)[r] = IF r = {} THEN base ELSE h[<<G(r)[less(r)], ch[r]>>]
    BY <2>2 DEF Folds, less
  <2>4. CASE r # {}
    <3>1. less(r) \in SUBSET S /\ less(r) # S /\ less(r) \in SUBSET r
      BY <1>5, <2>1, <2>4
    <3>2. Folds(G(less(r)), less(r), base, h, ch)
      BY <1>4, <3>1
    <3>3. \A t \in SUBSET r : t # {} => ch[t] \in t
      BY <1>3, <2>1
    <3>4. less(r) \in SUBSET (r \cap less(r))
      BY <3>1
    <3>5. G(r)[less(r)] = G(less(r))[less(r)]
      BY <2>1, <2>2, <3>2, <3>3, <3>4, FoldOnce
    <3> QED BY <2>3, <2>4, <3>5 DEF r
  <2> QED BY <2>3, <2>4 DEF r
<1>10. Folds(g, S, base, h, ch)
  <2> SUFFICES ASSUME NEW s \in SUBSET S
               PROVE  g[s] = IF s = {} THEN base ELSE h[<<g[less(s)], ch[s]>>]
    BY DEF Folds
  <2>1. g[s] = V(s)
    OBVIOUS
  <2>2. CASE s # {}
    <3>1. g[less(s)] = V(less(s))
      BY <1>5, <2>2
    <3>2. V(s) = h[<<G(less(s))[less(s)], ch[s]>>]
      BY <2>2
    <3> HIDE DEF V, g
    <3> QED BY <1>9, <2>1, <2>2, <3>1, <3>2
  <2>3. CASE s = {}
    BY <2>3
  <2> QED BY <2>2, <2>3
<1> HIDE DEF g
<1> QED BY <1>3, <1>8, <1>10
-----------------------------------------------------------------------------
(* FoldLeft takes the last place of a sequence last.                       *)
LEMMA MaxIsLast ==
  ASSUME NEW n \in Nat, NEW s \in SUBSET (1 .. n), s # {}
  PROVE  Max(s) \in s /\ \A i \in s : i <= Max(s)
<1> DEFINE B == {n - i : i \in s}
<1>1. PICK m \in B : \A k \in B : m <= k
  <2>1. \A i \in s : n - i \in Nat
    OBVIOUS
  <2>2. B \in SUBSET Nat /\ B # {}
    BY <2>1
  <2> QED BY <2>2, LeastExists
<1>2. PICK x \in s : m = n - x
  OBVIOUS
<1>3. \A i \in s : x >= i
  <2> SUFFICES ASSUME NEW i \in s PROVE x >= i
    OBVIOUS
  <2>1. n - i \in B
    OBVIOUS
  <2>2. m <= n - i
    BY <1>1, <2>1
  <2>3. i \in Int /\ x \in Int /\ n \in Int
    OBVIOUS
  <2> HIDE DEF B
  <2> QED BY <1>2, <2>2, <2>3
<1>4. Max(s) \in s /\ \A i \in s : Max(s) >= i
  BY <1>3 DEF Max
<1> QED BY <1>4

(* g folds h from the left over the places 1 .. n; so it does as far as    *)
(* its values are in A; and its values on 1 .. 0, ..., 1 .. n step by step.*)
LeftFolds(g, n, base, h) ==
  \A s \in SUBSET (1 .. n) :
    g[s] = IF s = {} THEN base ELSE h[<<g[s \ {Max(s)}], Max(s)>>]

LeftFoldsIn(g, n, A, base, h) ==
  /\ g[{}] = base
  /\ \A s \in SUBSET (1 .. n) : s # {} /\ g[s \ {Max(s)}] \in A =>
       g[s] = h[<<g[s \ {Max(s)}], Max(s)>>]

LeftChain(g, n, A, base, h) ==
  /\ g[1 .. 0] = base
  /\ \A k \in 0 .. n : g[1 .. k] \in A
  /\ \A k \in 1 .. n : g[1 .. k] = h[<<g[1 .. k - 1], k>>]

LEMMA LeftFoldExists ==
  ASSUME NEW n \in Nat, NEW A, NEW base \in A, NEW h \in [A \X (1 .. n) -> A]
  PROVE  \E g \in [SUBSET (1 .. n) -> A] : LeftFolds(g, n, base, h)
<1> DEFINE ch == [s \in SUBSET (1 .. n) |-> Max(s)]
<1>1. \A s \in SUBSET (1 .. n) : ch[s] = Max(s)
  OBVIOUS
<1>2. \A s \in SUBSET (1 .. n) : s # {} => ch[s] \in s
  BY <1>1, MaxIsLast
<1> HIDE DEF ch
<1>3. IsFiniteSet(1 .. n)
  BY FS_Interval
<1>4. \E g \in [SUBSET (1 .. n) -> A] : Folds(g, 1 .. n, base, h, ch)
  BY <1>2, <1>3, FoldExists
<1> QED BY <1>1, <1>4 DEF Folds, LeftFolds

LEMMA LeftFoldChain ==
  ASSUME NEW n \in Nat, NEW A, NEW base \in A, NEW h \in [A \X (1 .. n) -> A], NEW g,
         LeftFoldsIn(g, n, A, base, h)
  PROVE  LeftChain(g, n, A, base, h)
<1> USE DEF LeftFoldsIn
<1>1. 1 .. 0 = {}
  OBVIOUS
<1>2. ASSUME NEW k \in 1 .. n
      PROVE  /\ 1 .. k \in SUBSET (1 .. n) /\ 1 .. k # {}
             /\ Max(1 .. k) = k /\ (1 .. k) \ {Max(1 .. k)} = 1 .. k - 1
  <2>1. 1 .. k \in SUBSET (1 .. n) /\ 1 .. k # {} /\ k \in 1 .. k
    OBVIOUS
  <2>2. Max(1 .. k) \in 1 .. k /\ k <= Max(1 .. k)
    BY <2>1, MaxIsLast
  <2>3. Max(1 .. k) = k
    BY <2>2
  <2> QED BY <2>1, <2>3
<1>3. \A k \in 1 .. n : g[1 .. k - 1] \in A => g[1 .. k] = h[<<g[1 .. k - 1], k>>]
  BY <1>2
<1> DEFINE S == {k \in 0 .. n : g[1 .. k] \in A}
<1>4. 0 \in S
  BY <1>1
<1>5. \A k \in 0 .. n - 1 : k \in S => k + 1 \in S
  <2> SUFFICES ASSUME NEW k \in 0 .. n - 1, k \in S PROVE k + 1 \in S
    OBVIOUS
  <2>1. k + 1 \in 1 .. n /\ (k + 1) - 1 = k /\ k + 1 \in 0 .. n
    OBVIOUS
  <2>2. g[1 .. k + 1] = h[<<g[1 .. k], k + 1>>]
    BY <1>3, <2>1
  <2> QED BY <2>1, <2>2
<1>6. \A k \in 0 .. n : k \in S
  <2> HIDE DEF S
  <2> QED BY <1>4, <1>5, UpTo
<1>7. \A k \in 1 .. n : k - 1 \in 0 .. n
  OBVIOUS
<1> QED BY <1>1, <1>3, <1>6, <1>7 DEF LeftChain
=============================================================================
