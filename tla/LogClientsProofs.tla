--------------------------- MODULE LogClientsProofs ---------------------------
(***************************************************************************)
(* That what reads and writes the log from outside does what LogClients    *)
(* says of it, for any values of the constants.  Each client is proved by  *)
(* itself: whatever the behaviour follows, the variables of a client take  *)
(* its steps or stay.                                                      *)
(***************************************************************************)
EXTENDS LogClients, FiniteSetTheorems, SequenceTheorems, WellFoundedInduction, TLAPS

-----------------------------------------------------------------------------
\* Finite sets.

\* The members of a finite set of numbers have the ranks 1 to its size, in order.
RankIn(S, i) == Cardinality({j \in S : j <= i})

LEMMA RanksEnumerate ==
  ASSUME NEW S \in SUBSET Nat, IsFiniteSet(S)
  PROVE  /\ Cardinality(S) \in Nat
         /\ \A i \in S : RankIn(S, i) \in 1..Cardinality(S)
         /\ \A i, j \in S : i < j => RankIn(S, i) < RankIn(S, j)
         /\ \A k \in 1..Cardinality(S) : \E i \in S : RankIn(S, i) = k
<1> DEFINE UpTo(i) == {j \in S : j <= i}
           n == Cardinality(S)
           rank == [i \in S |-> Cardinality(UpTo(i))]
<1>1. n \in Nat BY FS_CardinalityType
<1>2. ASSUME NEW i \in S PROVE IsFiniteSet(UpTo(i)) /\ Cardinality(UpTo(i)) \in 1..n
  <2>1. UpTo(i) \in SUBSET S /\ i \in UpTo(i) OBVIOUS
  <2> HIDE DEF UpTo
  <2>2. IsFiniteSet(UpTo(i)) /\ Cardinality(UpTo(i)) <= n BY <2>1, FS_Subset
  <2>3. Cardinality(UpTo(i)) \in Nat /\ Cardinality(UpTo(i)) # 0
    BY <2>1, <2>2, FS_CardinalityType, FS_EmptySet
  <2> QED BY <1>1, <2>2, <2>3
<1>3. ASSUME NEW i \in S, NEW j \in S, i < j
      PROVE  Cardinality(UpTo(i)) < Cardinality(UpTo(j))
  <2>1. UpTo(i) \in SUBSET UpTo(j) /\ j \in UpTo(j) /\ j \notin UpTo(i)
    <3>1. i \in Nat /\ j \in Nat OBVIOUS
    <3>2. \A m \in S : m <= i => m <= j BY <1>3, <3>1
    <3>3. ~(j <= i) /\ j <= j BY <1>3, <3>1
    <3> QED BY <3>2, <3>3
  <2>2. IsFiniteSet(UpTo(j)) /\ Cardinality(UpTo(i)) \in Nat /\ Cardinality(UpTo(j)) \in Nat
    BY <1>1, <1>2
  <2> HIDE DEF UpTo
  <2>3. /\ Cardinality(UpTo(i)) <= Cardinality(UpTo(j))
        /\ Cardinality(UpTo(j)) = Cardinality(UpTo(i)) => UpTo(j) = UpTo(i)
    BY <2>1, <2>2, FS_Subset
  <2> QED BY <2>1, <2>2, <2>3
<1>4. \A i \in S : RankIn(S, i) = Cardinality(UpTo(i)) BY DEF RankIn
<1> HIDE DEF UpTo
<1>5. rank \in Surjection(S, 1..n)
  <2>1. rank \in [S -> 1..n] BY <1>2
  <2>2. ASSUME NEW i \in S, NEW j \in S, rank[i] = rank[j] PROVE i = j
    <3>1. Cardinality(UpTo(i)) = Cardinality(UpTo(j)) /\ Cardinality(UpTo(i)) \in Nat
      BY <1>1, <1>2, <2>2
    <3>2. ~(i < j) /\ ~(j < i) BY <1>3, <3>1
    <3> QED BY <3>2
  <2>3. rank \in Injection(S, 1..n) BY <2>1, <2>2 DEF Injection, IsInjective
  <2>4. IsFiniteSet(1..n) /\ Cardinality(1..n) = n BY <1>1, FS_Interval
  <2> QED BY <2>3, <2>4, FS_Injection
<1>6. \A k \in 1..n : \E i \in S : Cardinality(UpTo(i)) = k BY <1>5 DEF Surjection
<1> QED BY <1>1, <1>2, <1>3, <1>4, <1>6

LEMMA FiniteHasLargest ==
  ASSUME NEW S \in SUBSET Nat, IsFiniteSet(S), S # {}
  PROVE  \E i \in S : \A j \in S : j <= i
<1>1. Cardinality(S) \in Nat /\ Cardinality(S) # 0 BY FS_CardinalityType, FS_EmptySet
<1>2. PICK i \in S : RankIn(S, i) = Cardinality(S)
  <2>1. Cardinality(S) \in 1..Cardinality(S) BY <1>1
  <2> QED BY <2>1, RanksEnumerate
<1>3. ASSUME NEW j \in S PROVE j <= i
  <2>1. RankIn(S, j) \in 1..Cardinality(S) BY RanksEnumerate
  <2>2. ~(i < j) BY <1>1, <1>2, <2>1, RanksEnumerate
  <2> QED BY <2>2
<1> QED BY <1>3

\* Induction, with the set of those for which the claim holds, and folds over a
\* finite set.

LEMMA EveryNumber ==
  ASSUME NEW Good \in SUBSET Nat, 0 \in Good, \A n \in Good : n + 1 \in Good
  PROVE  \A n \in Nat : n \in Good
<1> DEFINE bad == Nat \ Good
<1> SUFFICES ASSUME bad # {} PROVE FALSE OBVIOUS
<1>1. bad \subseteq Nat OBVIOUS
<1> HIDE DEF bad
<1>2. PICK m \in bad : \A n \in bad : <<n, m>> \notin OpToRel(<, Nat)
  BY <1>1, NatLessThanWellFounded, WFMin
<1>3. m \in Nat /\ m # 0 /\ m \notin Good BY DEF bad
<1>4. m - 1 \in Nat /\ <<m - 1, m>> \in OpToRel(<, Nat) BY <1>3 DEF OpToRel
<1>5. m - 1 \in Good BY <1>2, <1>4 DEF bad
<1>6. (m - 1) + 1 = m BY <1>3
<1> QED BY <1>3, <1>5, <1>6

LEMMA EverySubset ==
  ASSUME NEW S, IsFiniteSet(S), NEW Good,
         \A s \in SUBSET S : (\A x \in s : s \ {x} \in Good) => s \in Good
  PROVE  \A s \in SUBSET S : s \in Good
<1> DEFINE reached == {n \in Nat : \A s \in SUBSET S : Cardinality(s) = n => s \in Good}
<1>1. \A s \in SUBSET S : IsFiniteSet(s) /\ Cardinality(s) \in Nat
  BY FS_Subset, FS_CardinalityType
<1>2. 0 \in reached
  <2>1. \A s \in SUBSET S : Cardinality(s) = 0 => s = {} BY <1>1, FS_EmptySet
  <2>2. {} \in Good OBVIOUS
  <2> QED BY <2>1, <2>2
<1>3. ASSUME NEW n \in reached PROVE n + 1 \in reached
  <2>1. ASSUME NEW s \in SUBSET S, Cardinality(s) = n + 1 PROVE s \in Good
    <3>1. ASSUME NEW x \in s PROVE s \ {x} \in Good
      <4>1. Cardinality(s \ {x}) = Cardinality(s) - 1 BY <1>1, FS_RemoveElement
      <4>2. n \in Nat /\ s \ {x} \in SUBSET S OBVIOUS
      <4>3. Cardinality(s \ {x}) = n BY <2>1, <4>1, <4>2
      <4> QED BY <4>2, <4>3
    <3> QED BY <3>1
  <2> QED BY <2>1
<1> HIDE DEF reached
<1>4. \A n \in Nat : n \in reached
  <2>1. reached \in SUBSET Nat BY DEF reached
  <2> QED BY <1>2, <1>3, <2>1, EveryNumber
<1> QED BY <1>1, <1>4 DEF reached

\* pick names a member of every subset of S, and it[s] is the fold of op over s
\* that takes pick[s] last.
Picks(pick, S) == \A s \in SUBSET S : s # {} => pick[s] \in s

FoldsWith(it, S, base, op, pick) ==
  /\ it[{}] = base
  /\ \A s \in SUBSET S : s # {} => it[s] = op[<<pick[s], it[s \ {pick[s]}]>>]

\* A fold that takes the member pick[s] of s last has a value for every subset.
LEMMA FoldExists ==
  ASSUME NEW S, IsFiniteSet(S), NEW V, NEW base \in V, NEW op \in [S \X V -> V],
         NEW pick, Picks(pick, S)
  PROVE  \E it \in [SUBSET S -> V] : FoldsWith(it, S, base, op, pick)
<1>0. \A s \in SUBSET S : s # {} => pick[s] \in s BY DEF Picks
<1> DEFINE Small(n) == {s \in SUBSET S : Cardinality(s) <= n}
           Folds(it, sets) ==
             \A s \in sets : it[s] = IF s = {} THEN base ELSE op[<<pick[s], it[s \ {pick[s]}]>>]
           reached == {n \in Nat : \E it \in [Small(n) -> V] : Folds(it, Small(n))}
<1>1. \A s \in SUBSET S : IsFiniteSet(s) /\ Cardinality(s) \in Nat
  BY FS_Subset, FS_CardinalityType
<1>2. 0 \in reached
  <2>1. \A s \in Small(0) : s = {} BY <1>1, FS_EmptySet
  <2>2. [s \in Small(0) |-> base] \in [Small(0) -> V] OBVIOUS
  <2>3. Folds([s \in Small(0) |-> base], Small(0)) BY <2>1
  <2> QED BY <2>2, <2>3
<1>3. \A n \in Nat : \A s \in Small(n + 1) :
        s # {} => s \ {pick[s]} \in Small(n) /\ pick[s] \in S
  <2> SUFFICES ASSUME NEW n \in Nat, NEW s \in Small(n + 1), s # {}
               PROVE  s \ {pick[s]} \in Small(n) /\ pick[s] \in S
    OBVIOUS
  <2>1. pick[s] \in s BY <1>0
  <2>2. Cardinality(s \ {pick[s]}) = Cardinality(s) - 1 BY <1>1, <2>1, FS_RemoveElement
  <2>3. Cardinality(s) \in Nat /\ Cardinality(s) <= n + 1 BY <1>1
  <2>4. Cardinality(s \ {pick[s]}) <= n BY <2>2, <2>3
  <2> QED BY <2>1, <2>4
<1>4. \A n \in Nat : \A s \in Small(n) : s \in Small(n + 1)
  <2> SUFFICES ASSUME NEW n \in Nat, NEW s \in Small(n) PROVE s \in Small(n + 1) OBVIOUS
  <2>1. Cardinality(s) \in Nat /\ Cardinality(s) <= n BY <1>1
  <2>2. Cardinality(s) <= n + 1 BY <2>1
  <2> QED BY <2>2
<1>5. ASSUME NEW n \in reached PROVE n + 1 \in reached
  <2>1. PICK it \in [Small(n) -> V] : Folds(it, Small(n)) OBVIOUS
  <2>2. n \in Nat OBVIOUS
  <2> HIDE DEF Small
  <2> DEFINE next == [s \in Small(n + 1) |->
                        IF s = {} THEN base ELSE op[<<pick[s], it[s \ {pick[s]}]>>]]
  <2>3. next \in [Small(n + 1) -> V]
    <3>1. \A s \in Small(n + 1) : s # {} => op[<<pick[s], it[s \ {pick[s]}]>>] \in V
      BY <1>3, <2>2
    <3> QED BY <3>1
  <2>4. \A s \in Small(n) : next[s] = it[s] BY <1>4, <2>1, <2>2
  <2>5. Folds(next, Small(n + 1))
    <3>1. \A s \in Small(n + 1) : s # {} => next[s \ {pick[s]}] = it[s \ {pick[s]}]
      BY <1>3, <2>2, <2>4
    <3> QED BY <3>1
  <2>6. n + 1 \in Nat BY <2>2
  <2> HIDE DEF next, Folds
  <2> QED BY <2>3, <2>5, <2>6
<1>6. Cardinality(S) \in reached
  <2> HIDE DEF Small, Folds
  <2>1. reached \in SUBSET Nat OBVIOUS
  <2> HIDE DEF reached
  <2> QED BY <1>1, <1>2, <1>5, <2>1, EveryNumber
<1>7. Small(Cardinality(S)) = SUBSET S
  <2>1. \A s \in SUBSET S : Cardinality(s) <= Cardinality(S) BY FS_Subset
  <2> QED BY <2>1
<1>8. PICK it \in [SUBSET S -> V] : Folds(it, SUBSET S)
  <2> HIDE DEF Small, Folds
  <2> QED BY <1>6, <1>7
<1>9. it[{}] = base BY <1>8
<1>10. \A s \in SUBSET S : s # {} => it[s] = op[<<pick[s], it[s \ {pick[s]}]>>] BY <1>8
<1> QED BY <1>9, <1>10 DEF FoldsWith

\* A sum over a finite set takes its members in any order.
LEMMA SumIs ==
  ASSUME NEW R, IsFiniteSet(R), NEW f \in [R -> Int]
  PROVE  \E sum \in [SUBSET R -> Int] :
           /\ sum[{}] = 0
           /\ \A s \in SUBSET R : \A x \in s : sum[s] = f[x] + sum[s \ {x}]
           /\ SumFunction(f) = sum[R]
<1> DEFINE Pick(s) == CHOOSE x \in s : TRUE
           pick == [s \in SUBSET R |-> Pick(s)]
           op == [p \in R \X Int |-> f[p[1]] + p[2]]
           Step(it) == [s \in SUBSET R |->
                          IF s = {} THEN 0 ELSE f[Pick(s)] + it[s \ {Pick(s)}]]
           sum == CHOOSE it : it = Step(it)
<1>1. SumFunction(f) = sum[R]
  <2>1. DOMAIN f = R OBVIOUS
  <2> QED BY <2>1 DEF SumFunction, SumFunctionOnSet, FoldFunctionOnSet, MapThenFoldSet
<1>2. \A s : s # {} => Pick(s) \in s OBVIOUS
<1> HIDE DEF Pick
<1>3. \E it \in [SUBSET R -> Int] : it = Step(it)
  <2>1. op \in [R \X Int -> Int] OBVIOUS
  <2>2. \A s \in SUBSET R : pick[s] = Pick(s) OBVIOUS
  <2>3. \A x \in R, n \in Int : op[<<x, n>>] = f[x] + n OBVIOUS
  <2> HIDE DEF op, pick
  <2>4. PICK it \in [SUBSET R -> Int] :
          /\ it[{}] = 0
          /\ \A s \in SUBSET R : s # {} => it[s] = op[<<pick[s], it[s \ {pick[s]}]>>]
    <3>1. Picks(pick, R) BY <1>2, <2>2 DEF Picks
    <3>2. \E it \in [SUBSET R -> Int] : FoldsWith(it, R, 0, op, pick)
      <4>1. PICK V : V = Int OBVIOUS
      <4>2. PICK z : z = 0 OBVIOUS
      <4>3. z \in V /\ op \in [R \X V -> V] BY <2>1, <4>1, <4>2
      <4>4. \E it \in [SUBSET R -> V] : FoldsWith(it, R, z, op, pick)
        BY <3>1, <4>3, FoldExists
      <4> QED BY <4>1, <4>2, <4>4
    <3> QED BY <3>2 DEF FoldsWith
  <2>5. ASSUME NEW s \in SUBSET R, s # {}
        PROVE  op[<<pick[s], it[s \ {pick[s]}]>>] = f[Pick(s)] + it[s \ {Pick(s)}]
    <3>1. Pick(s) \in R /\ it[s \ {Pick(s)}] \in Int BY <1>2, <2>5
    <3> QED BY <2>2, <2>3, <3>1
  <2>6. it = [s \in SUBSET R |-> it[s]] OBVIOUS
  <2>7. \A s \in SUBSET R : it[s] = IF s = {} THEN 0 ELSE f[Pick(s)] + it[s \ {Pick(s)}]
    BY <2>4, <2>5
  <2> QED BY <2>6, <2>7
<1>4. sum = Step(sum) BY <1>3
<1> HIDE DEF sum
<1>5. \A s \in SUBSET R : sum[s] = IF s = {} THEN 0 ELSE f[Pick(s)] + sum[s \ {Pick(s)}]
  BY <1>4
<1>6. sum[{}] = 0 BY <1>5
<1>7. DOMAIN sum = SUBSET R BY <1>4
<1> DEFINE Typed == {s \in SUBSET R : sum[s] \in Int}
           Good == {s \in SUBSET R : \A x \in s : sum[s] = f[x] + sum[s \ {x}]}
<1>8. \A s \in SUBSET R : sum[s] \in Int
  <2>1. ASSUME NEW s \in SUBSET R, \A x \in s : s \ {x} \in Typed PROVE s \in Typed
    <3>1. CASE s = {} BY <1>6, <3>1
    <3>2. CASE s # {}
      <4>1. f[Pick(s)] \in Int /\ sum[s \ {Pick(s)}] \in Int BY <1>2, <2>1, <3>2
      <4>2. sum[s] = f[Pick(s)] + sum[s \ {Pick(s)}] BY <1>5, <3>2
      <4> QED BY <4>1, <4>2
    <3> QED BY <3>1, <3>2
  <2> HIDE DEF Typed
  <2>2. \A s \in SUBSET R : s \in Typed BY <2>1, EverySubset
  <2> QED BY <2>2 DEF Typed
<1>9. ASSUME NEW s \in SUBSET R, \A x \in s : s \ {x} \in Good PROVE s \in Good
  <2> SUFFICES ASSUME NEW x \in s PROVE sum[s] = f[x] + sum[s \ {x}] OBVIOUS
  <2>1. PICK c \in s : c = Pick(s) BY <1>2
  <2>2. sum[s] = f[c] + sum[s \ {c}] BY <1>5, <2>1
  <2>3. CASE x = c BY <2>2, <2>3
  <2>4. CASE x # c
    <3>1. sum[s \ {c}] = f[x] + sum[(s \ {c}) \ {x}]
      <4>1. s \ {c} \in Good /\ x \in s \ {c} BY <1>9, <2>4
      <4> QED BY <4>1
    <3>2. sum[s \ {x}] = f[c] + sum[(s \ {x}) \ {c}]
      <4>1. s \ {x} \in Good /\ c \in s \ {x} BY <1>9, <2>4
      <4> QED BY <4>1
    <3>3. PICK n \in Int : n = sum[(s \ {c}) \ {x}]
      <4>1. (s \ {c}) \ {x} \in SUBSET R OBVIOUS
      <4> QED BY <1>8, <4>1
    <3>4. (s \ {c}) \ {x} = (s \ {x}) \ {c} OBVIOUS
    <3>5. f[x] \in Int /\ f[c] \in Int OBVIOUS
    <3> HIDE DEF Good
    <3>6. sum[s \ {c}] = f[x] + n /\ sum[s \ {x}] = f[c] + n BY <3>1, <3>2, <3>3, <3>4
    <3> QED BY <2>2, <3>3, <3>5, <3>6
  <2> QED BY <2>3, <2>4
<1>10. \A s \in SUBSET R : s \in Good
  <2> HIDE DEF Good
  <2> QED BY <1>9, EverySubset
<1>11. sum \in [SUBSET R -> Int]
  <2>1. sum = [s \in SUBSET R |-> sum[s]] BY <1>4
  <2> QED BY <1>8, <2>1
<1> QED BY <1>1, <1>6, <1>10, <1>11

\* A total over the subsets of R adds the part of the member that comes last: what f
\* says of a member of P, g of a member of Q, and nothing of the others.
Part(l, P, f, Q, g) == IF l \in P THEN f[l] ELSE IF l \in Q THEN g[l] ELSE 0

AddsParts(total, R, P, f, Q, g) ==
  /\ IsFiniteSet(R) /\ P \in SUBSET R /\ Q \in SUBSET R /\ P \intersect Q = {}
  /\ f \in [P -> Int] /\ g \in [Q -> Int] /\ total \in [SUBSET R -> Int]
  /\ total[{}] = 0
  /\ \A s \in SUBSET R : s # {} =>
       \E l \in s : total[s] = total[s \ {l}] + Part(l, P, f, Q, g)

\* Such a total is the sum of the parts, whichever member comes last.
LEMMA TotalIsSums ==
  ASSUME NEW R, NEW P, NEW Q, NEW f, NEW g, NEW total, AddsParts(total, R, P, f, Q, g)
  PROVE  total[R] = SumFunction(f) + SumFunction(g)
<1>0. /\ IsFiniteSet(R) /\ P \in SUBSET R /\ Q \in SUBSET R /\ P \intersect Q = {}
      /\ f \in [P -> Int] /\ g \in [Q -> Int] /\ total \in [SUBSET R -> Int]
  BY DEF AddsParts
<1>1. PICK fs \in [SUBSET P -> Int] :
        /\ fs[{}] = 0
        /\ \A s \in SUBSET P : \A x \in s : fs[s] = f[x] + fs[s \ {x}]
        /\ SumFunction(f) = fs[P]
  <2>1. IsFiniteSet(P) BY <1>0, FS_Subset
  <2> QED BY <1>0, <2>1, SumIs
<1>2. PICK gs \in [SUBSET Q -> Int] :
        /\ gs[{}] = 0
        /\ \A s \in SUBSET Q : \A x \in s : gs[s] = g[x] + gs[s \ {x}]
        /\ SumFunction(g) = gs[Q]
  <2>1. IsFiniteSet(Q) BY <1>0, FS_Subset
  <2> QED BY <1>0, <2>1, SumIs
<1> DEFINE Good == {s \in SUBSET R : total[s] = fs[s \intersect P] + gs[s \intersect Q]}
<1>3. ASSUME NEW s \in SUBSET R, \A x \in s : s \ {x} \in Good PROVE s \in Good
  <2>1. CASE s = {}
    <3>1. s \intersect P = {} /\ s \intersect Q = {} BY <2>1
    <3> QED BY <1>1, <1>2, <2>1, <3>1 DEF AddsParts
  <2>2. CASE s # {}
    <3>1. PICK l \in s : total[s] = total[s \ {l}] + (IF l \in P THEN f[l]
                                                     ELSE IF l \in Q THEN g[l] ELSE 0)
      BY <2>2 DEF AddsParts, Part
    <3> DEFINE t == s \ {l}
    <3>2. total[t] = fs[t \intersect P] + gs[t \intersect Q] BY <1>3
    <3>3. /\ fs[t \intersect P] \in Int /\ gs[t \intersect Q] \in Int
          /\ fs[s \intersect P] \in Int /\ gs[s \intersect Q] \in Int
      BY <1>0
    <3>4. IF l \in P THEN fs[s \intersect P] = f[l] + fs[t \intersect P]
                     ELSE fs[s \intersect P] = fs[t \intersect P]
      <4>1. CASE l \in P
        <5>1. (s \intersect P) \ {l} = t \intersect P /\ l \in s \intersect P BY <4>1
        <5>2. s \intersect P \in SUBSET P OBVIOUS
        <5>3. fs[s \intersect P] = f[l] + fs[(s \intersect P) \ {l}] BY <1>1, <5>1, <5>2
        <5> QED BY <4>1, <5>1, <5>3
      <4>2. CASE l \notin P
        <5>1. s \intersect P = t \intersect P BY <4>2
        <5> QED BY <4>2, <5>1
      <4> QED BY <4>1, <4>2
    <3>5. IF l \in Q THEN gs[s \intersect Q] = g[l] + gs[t \intersect Q]
                     ELSE gs[s \intersect Q] = gs[t \intersect Q]
      <4>1. CASE l \in Q
        <5>1. (s \intersect Q) \ {l} = t \intersect Q /\ l \in s \intersect Q BY <4>1
        <5>2. s \intersect Q \in SUBSET Q OBVIOUS
        <5>3. gs[s \intersect Q] = g[l] + gs[(s \intersect Q) \ {l}] BY <1>2, <5>1, <5>2
        <5> QED BY <4>1, <5>1, <5>3
      <4>2. CASE l \notin Q
        <5>1. s \intersect Q = t \intersect Q BY <4>2
        <5> QED BY <4>2, <5>1
      <4> QED BY <4>1, <4>2
    <3>6. total[s] = fs[s \intersect P] + gs[s \intersect Q]
      <4>1. /\ l \in P => f[l] \in Int /\ l \notin Q
            /\ l \in Q => g[l] \in Int
        BY <1>0
      <4> HIDE DEF Good
      <4>2. CASE l \in P BY <3>1, <3>2, <3>3, <3>4, <3>5, <4>1, <4>2
      <4>3. CASE l \notin P /\ l \in Q BY <3>1, <3>2, <3>3, <3>4, <3>5, <4>1, <4>3
      <4>4. CASE l \notin P /\ l \notin Q BY <3>1, <3>2, <3>3, <3>4, <3>5, <4>4
      <4> QED BY <4>2, <4>3, <4>4
    <3> QED BY <3>6
  <2> QED BY <2>1, <2>2
<1>4. \A s \in SUBSET R : s \in Good
  <2> HIDE DEF Good
  <2> QED BY <1>0, <1>3, EverySubset
<1>5. R \in SUBSET R /\ R \intersect P = P /\ R \intersect Q = Q BY <1>0
<1> QED BY <1>1, <1>2, <1>4, <1>5

-----------------------------------------------------------------------------
\* The totals projection (ProjectionCheck).

\* What the loop of project_run_totals carries from row to row.
SumsOf(R) ==
  [tokens : Int, nanodollars : Int,
   outcome : {Absent} \union {e.payload.outcome : e \in R}, quality : {Absent}]

\* A finite log has a last row, unless it is empty.
LEMMA HasLast ==
  ASSUME PoolAssumption, NEW R \in SUBSET Pool, IsFiniteSet(R), R # {}
  PROVE  /\ LastInSequence(R) \in R
         /\ \A f \in R : f.sequence <= LastInSequence(R).sequence
<1> DEFINE numbers == {e.sequence : e \in R}
<1>1. IsFiniteSet(numbers)
  <2>1. [e \in R |-> e.sequence] \in Surjection(R, numbers) BY DEF Surjection
  <2> HIDE DEF numbers
  <2> QED BY <2>1, FS_Surjection
<1>2. numbers \in SUBSET Nat /\ numbers # {} BY DEF PoolAssumption
<1>3. \E i \in numbers : \A j \in numbers : j <= i BY <1>1, <1>2, FiniteHasLargest
<1>4. \E e \in R : \A f \in R : f.sequence <= e.sequence
  <2>1. PICK e \in R : \A j \in numbers : j <= e.sequence BY <1>3
  <2>2. \A f \in R : f.sequence <= e.sequence BY <2>1
  <2>3. \A f \in R : f.sequence \in Int BY DEF PoolAssumption
  <2> QED BY <2>2, <2>3
<1> QED BY <1>4 DEF LastInSequence

\* What a billed row adds is a number.
LEMMA BilledIsNumber ==
  ASSUME PoolAssumption, NEW e \in Pool, e.payload # Unparseable
  PROVE  BilledTokens(e.payload) \in Int /\ BilledCost(e.payload) \in Int
<1>1. /\ e.payload["ledger"] \in Int \union {Absent}
      /\ e.payload["flat"] \in Int \union {Absent}
      /\ e.payload["estimated"] \in Int \union {Absent}
      /\ e.payload["alias"] \in Int \union {Absent}
  BY DEF PoolAssumption
<1> QED BY <1>1 DEF BilledTokens, BilledCost, CoerceInt

\* One turn of the loop, field by field.
LEMMA TallyIs ==
  ASSUME PoolAssumption, NEW R \in SUBSET Pool, NEW e \in R, NEW sums \in SumsOf(R)
  PROVE  /\ Tally(sums, e) \in SumsOf(R)
         /\ e.kind = "embedding_call" \/ e.payload = Unparseable => Tally(sums, e) = sums
         /\ ~(e.kind = "embedding_call" \/ e.payload = Unparseable) =>
              /\ Tally(sums, e).tokens = sums.tokens + BilledTokens(e.payload)
              /\ Tally(sums, e).nanodollars = sums.nanodollars + BilledCost(e.payload)
              /\ Tally(sums, e).outcome =
                   IF e.kind = "outcome" /\ e.payload.outcome # Absent
                   THEN e.payload.outcome ELSE sums.outcome
<1>1. CASE e.kind = "embedding_call" \/ e.payload = Unparseable BY <1>1 DEF Tally
<1>2. CASE ~(e.kind = "embedding_call" \/ e.payload = Unparseable)
  <2> DEFINE outs == {Absent} \union {f.payload.outcome : f \in R}
             says == IF e.kind = "outcome" /\ e.payload.outcome # Absent
                     THEN e.payload.outcome ELSE sums.outcome
  <2>1. BilledTokens(e.payload) \in Int /\ BilledCost(e.payload) \in Int
    BY <1>2, BilledIsNumber
  <2>2. e.payload.outcome \in outs OBVIOUS
  <2> HIDE DEF outs
  <2>3. sums \in [tokens : Int, nanodollars : Int, outcome : outs, quality : {Absent}]
    BY DEF SumsOf, outs
  <2>4. says \in outs BY <2>2, <2>3
  <2>5. Tally(sums, e) =
          [sums EXCEPT !.tokens = sums.tokens + BilledTokens(e.payload),
                       !.nanodollars = sums.nanodollars + BilledCost(e.payload),
                       !.outcome = says]
    BY <1>2 DEF Tally
  <2> HIDE DEF says
  <2>6. PICK billed, cost \in Int :
          billed = BilledTokens(e.payload) /\ cost = BilledCost(e.payload)
    BY <2>1
  <2>7. Tally(sums, e) =
          [sums EXCEPT !.tokens = sums.tokens + billed, !.nanodollars = sums.nanodollars + cost,
                       !.outcome = says]
    BY <2>5, <2>6
  <2>8. sums.tokens + billed \in Int /\ sums.nanodollars + cost \in Int BY <2>3
  <2>9. PICK a, b \in Int : a = sums.tokens + billed /\ b = sums.nanodollars + cost BY <2>8
  <2>10. Tally(sums, e) \in
          [tokens : Int, nanodollars : Int, outcome : outs, quality : {Absent}]
    BY <2>3, <2>4, <2>7, <2>9
  <2>11. /\ Tally(sums, e).tokens = sums.tokens + BilledTokens(e.payload)
        /\ Tally(sums, e).nanodollars = sums.nanodollars + BilledCost(e.payload)
        /\ Tally(sums, e).outcome = says
    BY <2>3, <2>5
  <2> QED BY <1>2, <2>10, <2>11 DEF SumsOf, outs, says
<1> QED BY <1>1, <1>2

\* The projection of a finite log is the tally of its last row after the
\* projection of the rows before it.
LEMMA ProjectionIs ==
  ASSUME PoolAssumption, NEW R \in SUBSET Pool, IsFiniteSet(R)
  PROVE  \E it \in [SUBSET R -> SumsOf(R)] :
           /\ it[{}] = NoTotals
           /\ \A s \in SUBSET R :
                s # {} => it[s] = Tally(it[s \ {LastInSequence(s)}], LastInSequence(s))
           /\ ProjectRunTotals(R) = it[R]
<1> DEFINE V == SumsOf(R)
           op == [p \in R \X V |-> Tally(p[2], p[1])]
           pick == [s \in SUBSET R |-> LastInSequence(s)]
           Step(it) == [s \in SUBSET R |->
                          IF s = {} THEN NoTotals
                          ELSE Tally(it[s \ {LastInSequence(s)}], LastInSequence(s))]
           fold == CHOOSE it : it = Step(it)
<1>1. ProjectRunTotals(R) = fold[R] BY DEF ProjectRunTotals, MapThenFoldSet
<1>2. \A s \in SUBSET R : IsFiniteSet(s) /\ s \in SUBSET Pool BY FS_Subset
<1>3. \A s \in SUBSET R : s # {} => LastInSequence(s) \in s BY <1>2, HasLast
<1>4. NoTotals \in V BY DEF NoTotals, SumsOf
<1>5. \A e \in R, sums \in V : Tally(sums, e) \in V BY TallyIs
<1> HIDE DEF V
<1>6. \E it \in [SUBSET R -> V] : it = Step(it)
  <2>1. op \in [R \X V -> V] BY <1>5
  <2>2. \A s \in SUBSET R : pick[s] = LastInSequence(s) OBVIOUS
  <2>3. \A e \in R, sums \in V : op[<<e, sums>>] = Tally(sums, e) OBVIOUS
  <2> HIDE DEF op, pick
  <2>4. Picks(pick, R) BY <1>3, <2>2 DEF Picks
  <2>5. PICK it \in [SUBSET R -> V] : FoldsWith(it, R, NoTotals, op, pick)
    BY <1>4, <2>1, <2>4, FoldExists
  <2>6. ASSUME NEW s \in SUBSET R, s # {}
        PROVE  it[s] = Tally(it[s \ {LastInSequence(s)}], LastInSequence(s))
    <3>1. PICK l \in s : l = LastInSequence(s) BY <1>3, <2>6
    <3>2. l \in R /\ it[s \ {l}] \in V OBVIOUS
    <3>3. it[s] = op[<<l, it[s \ {l}]>>] BY <2>2, <2>5, <2>6, <3>1 DEF FoldsWith
    <3> QED BY <2>3, <3>1, <3>2, <3>3
  <2>7. it[{}] = NoTotals BY <2>5 DEF FoldsWith
  <2>8. it = [s \in SUBSET R |-> it[s]] OBVIOUS
  <2> QED BY <2>6, <2>7, <2>8
<1>7. fold = Step(fold) BY <1>6
<1> HIDE DEF fold
<1>8. fold[{}] = NoTotals BY <1>7
<1>9. \A s \in SUBSET R :
        s # {} => fold[s] = Tally(fold[s \ {LastInSequence(s)}], LastInSequence(s))
  BY <1>7
<1> DEFINE Typed == {s \in SUBSET R : fold[s] \in V}
<1>10. \A s \in SUBSET R : fold[s] \in V
  <2>1. ASSUME NEW s \in SUBSET R, \A x \in s : s \ {x} \in Typed PROVE s \in Typed
    <3>1. CASE s = {} BY <1>4, <1>8, <3>1
    <3>2. CASE s # {}
      <4>1. PICK l \in s : l = LastInSequence(s) BY <1>3, <3>2
      <4>2. fold[s] = Tally(fold[s \ {l}], l) BY <1>9, <3>2, <4>1
      <4>3. fold[s \ {l}] \in V /\ l \in R BY <2>1
      <4> QED BY <1>5, <4>2, <4>3
    <3> QED BY <3>1, <3>2
  <2> HIDE DEF Typed
  <2>2. \A s \in SUBSET R : s \in Typed BY <2>1, EverySubset
  <2> QED BY <2>2 DEF Typed
<1>11. fold \in [SUBSET R -> V]
  <2>1. fold = [s \in SUBSET R |-> fold[s]] BY <1>7
  <2> QED BY <1>10, <2>1
<1> QED BY <1>1, <1>8, <1>9, <1>11 DEF V

\* What a row adds to the two columns, by the part of the log it is in.
LEMMA BilledParts ==
  ASSUME NEW p
  PROVE  /\ BilledTokens(p) = IF p.ledger # Absent THEN p.ledger
                              ELSE IF p.flat # Absent THEN p.flat ELSE 0
         /\ BilledCost(p) = IF p.estimated # Absent THEN p.estimated
                            ELSE IF p.alias # Absent THEN p.alias ELSE 0
BY DEF BilledTokens, BilledCost, CoerceInt

\* A finite log is counted as CountsEveryCallOnce says.
LEMMA CountedOnce ==
  ASSUME PoolAssumption, log \in SUBSET Pool, IsFiniteSet(log)
  PROVE  CountsEveryCallOnce
<1>1. PICK it \in [SUBSET log -> SumsOf(log)] :
        /\ it[{}] = NoTotals
        /\ \A s \in SUBSET log :
             s # {} => it[s] = Tally(it[s \ {LastInSequence(s)}], LastInSequence(s))
        /\ ProjectRunTotals(log) = it[log]
  BY ProjectionIs
<1> DEFINE Ledgers == {e \in Billed : e.payload.ledger # Absent}
           Flats == {e \in Billed : e.payload.ledger = Absent /\ e.payload.flat # Absent}
           Estimates == {e \in Billed : e.payload.estimated # Absent}
           Aliases == {e \in Billed : e.payload.estimated = Absent /\ e.payload.alias # Absent}
           Under(key, part) == [e \in part |-> e.payload[key]]
           tokens == [s \in SUBSET log |-> it[s].tokens]
           cost == [s \in SUBSET log |-> it[s].nanodollars]
<1>2. /\ Ledgers \in SUBSET log /\ Flats \in SUBSET log /\ Ledgers \intersect Flats = {}
      /\ Estimates \in SUBSET log /\ Aliases \in SUBSET log
      /\ Estimates \intersect Aliases = {}
  BY DEF Billed
<1>3. /\ \A e \in log : e \in Billed <=> e.kind # "embedding_call" /\ e.payload # Unparseable
      /\ \A e \in log : e \in Ledgers <=> e \in Billed /\ e.payload.ledger # Absent
      /\ \A e \in log : e \in Flats <=>
           e \in Billed /\ e.payload.ledger = Absent /\ e.payload.flat # Absent
      /\ \A e \in log : e \in Estimates <=> e \in Billed /\ e.payload.estimated # Absent
      /\ \A e \in log : e \in Aliases <=>
           e \in Billed /\ e.payload.estimated = Absent /\ e.payload.alias # Absent
  BY DEF Billed
<1>4. \A e \in log : /\ e \in Ledgers => e.payload["ledger"] \in Int
                     /\ e \in Flats => e.payload["flat"] \in Int
                     /\ e \in Estimates => e.payload["estimated"] \in Int
                     /\ e \in Aliases => e.payload["alias"] \in Int
  BY <1>3 DEF PoolAssumption
<1> HIDE DEF Ledgers, Flats, Estimates, Aliases
<1>5. /\ Under("ledger", Ledgers) \in [Ledgers -> Int]
      /\ Under("flat", Flats) \in [Flats -> Int]
      /\ Under("estimated", Estimates) \in [Estimates -> Int]
      /\ Under("alias", Aliases) \in [Aliases -> Int]
  BY <1>2, <1>4
<1>6. \A s \in SUBSET log : it[s].tokens \in Int /\ it[s].nanodollars \in Int
  <2>1. \A s \in SUBSET log : it[s] \in SumsOf(log) OBVIOUS
  <2> QED BY <2>1 DEF SumsOf
<1>7. tokens \in [SUBSET log -> Int] /\ cost \in [SUBSET log -> Int] BY <1>6
<1>8. tokens[{}] = 0 /\ cost[{}] = 0 BY <1>1 DEF NoTotals
<1>9. ASSUME NEW s \in SUBSET log, s # {}
      PROVE  \E l \in s :
               /\ tokens[s] = tokens[s \ {l}] + Part(l, Ledgers, Under("ledger", Ledgers),
                                                   Flats, Under("flat", Flats))
               /\ cost[s] = cost[s \ {l}] + Part(l, Estimates, Under("estimated", Estimates),
                                               Aliases, Under("alias", Aliases))
  <2>1. PICK l \in s : l = LastInSequence(s)
    <3>1. s \in SUBSET Pool /\ IsFiniteSet(s) BY FS_Subset
    <3> QED BY <1>9, <3>1, HasLast
  <2>2. it[s] = Tally(it[s \ {l}], l) BY <1>1, <1>9, <2>1
  <2>3. l \in log /\ s \ {l} \in SUBSET log /\ it[s \ {l}] \in SumsOf(log) OBVIOUS
  <2>4. PICK before \in SumsOf(log) : before = it[s \ {l}] BY <2>3
  <2>5. /\ tokens[s] = Tally(before, l).tokens /\ cost[s] = Tally(before, l).nanodollars
        /\ tokens[s \ {l}] = before.tokens /\ cost[s \ {l}] = before.nanodollars
        /\ before.tokens \in Int /\ before.nanodollars \in Int
    BY <1>6, <2>2, <2>3, <2>4
  <2>6. /\ l \in Ledgers => Under("ledger", Ledgers)[l] = l.payload.ledger
        /\ l \in Flats => Under("flat", Flats)[l] = l.payload.flat
        /\ l \in Estimates => Under("estimated", Estimates)[l] = l.payload.estimated
        /\ l \in Aliases => Under("alias", Aliases)[l] = l.payload.alias
    OBVIOUS
  <2> HIDE DEF tokens, cost, Under
  <2>7. CASE l \notin Billed
    <3>1. Tally(before, l) = before BY <1>3, <2>3, <2>7, TallyIs
    <3>2. l \notin Ledgers /\ l \notin Flats /\ l \notin Estimates /\ l \notin Aliases
      BY <1>3, <2>3, <2>7
    <3>3. /\ Part(l, Ledgers, Under("ledger", Ledgers), Flats, Under("flat", Flats)) = 0
          /\ Part(l, Estimates, Under("estimated", Estimates),
                  Aliases, Under("alias", Aliases)) = 0
      BY <3>2 DEF Part
    <3>4. PICK a, b \in Int : a = before.tokens /\ b = before.nanodollars BY <2>5
    <3>5. tokens[s] = a /\ tokens[s \ {l}] = a /\ cost[s] = b /\ cost[s \ {l}] = b
      BY <2>5, <3>1, <3>4
    <3>6. tokens[s] = tokens[s \ {l}] + 0 /\ cost[s] = cost[s \ {l}] + 0 BY <3>5
    <3> QED BY <3>3, <3>6
  <2>8. CASE l \in Billed
    <3>1. /\ Tally(before, l).tokens = before.tokens + BilledTokens(l.payload)
          /\ Tally(before, l).nanodollars = before.nanodollars + BilledCost(l.payload)
      BY <1>3, <2>3, <2>8, TallyIs
    <3>2. BilledTokens(l.payload) =
            Part(l, Ledgers, Under("ledger", Ledgers), Flats, Under("flat", Flats))
      BY <1>3, <2>3, <2>6, <2>8, BilledParts DEF Part
    <3>3. BilledCost(l.payload) =
            Part(l, Estimates, Under("estimated", Estimates), Aliases, Under("alias", Aliases))
      BY <1>3, <2>3, <2>6, <2>8, BilledParts DEF Part
    <3> QED BY <2>5, <3>1, <3>2, <3>3
  <2> QED BY <2>7, <2>8
<1> HIDE DEF Under
<1>10. tokens[log] = SumFunction(Under("ledger", Ledgers)) + SumFunction(Under("flat", Flats))
  <2> HIDE DEF tokens, cost
  <2>1. AddsParts(tokens, log, Ledgers, Under("ledger", Ledgers), Flats, Under("flat", Flats))
    BY <1>2, <1>5, <1>7, <1>8, <1>9 DEF AddsParts
  <2> QED BY <2>1, TotalIsSums
<1>11. cost[log] =
         SumFunction(Under("estimated", Estimates)) + SumFunction(Under("alias", Aliases))
  <2> HIDE DEF tokens, cost
  <2>1. AddsParts(cost, log, Estimates, Under("estimated", Estimates),
                  Aliases, Under("alias", Aliases))
    BY <1>2, <1>5, <1>7, <1>8, <1>9 DEF AddsParts
  <2> QED BY <2>1, TotalIsSums
<1>12. Totals.tokens = tokens[log] /\ Totals.nanodollars = cost[log] BY <1>1 DEF Totals
<1>13. /\ SumOf("ledger", Ledgers) = SumFunction(Under("ledger", Ledgers))
       /\ SumOf("flat", Flats) = SumFunction(Under("flat", Flats))
       /\ SumOf("estimated", Estimates) = SumFunction(Under("estimated", Estimates))
       /\ SumOf("alias", Aliases) = SumFunction(Under("alias", Aliases))
  BY DEF SumOf, Under
<1> HIDE DEF tokens, cost
<1> QED BY <1>10, <1>11, <1>12, <1>13
        DEF CountsEveryCallOnce, Ledgers, Flats, Estimates, Aliases

\* The outcome is what the last verdict in sequence says, and Absent without one.
LEMMA OutcomeIs ==
  ASSUME PoolAssumption, NEW R \in SUBSET Pool, IsFiniteSet(R),
         NEW verdicts, verdicts = {e \in R : /\ e.kind = "outcome" /\ e.payload # Unparseable
                                             /\ e.payload.outcome # Absent}
  PROVE  \/ verdicts = {} /\ ProjectRunTotals(R).outcome = Absent
         \/ \E e \in verdicts : /\ ProjectRunTotals(R).outcome = e.payload.outcome
                                /\ \A f \in verdicts : f.sequence <= e.sequence
<1>1. PICK it \in [SUBSET R -> SumsOf(R)] :
        /\ it[{}] = NoTotals
        /\ \A s \in SUBSET R :
             s # {} => it[s] = Tally(it[s \ {LastInSequence(s)}], LastInSequence(s))
        /\ ProjectRunTotals(R) = it[R]
  BY ProjectionIs
<1> DEFINE Says(s, out) ==
             \/ s \intersect verdicts = {} /\ out = Absent
             \/ \E e \in s \intersect verdicts :
                  /\ out = e.payload.outcome
                  /\ \A f \in s \intersect verdicts : f.sequence <= e.sequence
           Good == {s \in SUBSET R : Says(s, it[s].outcome)}
<1>2. ASSUME NEW s \in SUBSET R, \A x \in s : s \ {x} \in Good PROVE s \in Good
  <2>1. CASE s = {}
    <3>1. it[s].outcome = Absent BY <1>1, <2>1 DEF NoTotals
    <3> QED BY <2>1, <3>1
  <2>2. CASE s # {}
    <3>1. PICK l \in s : l = LastInSequence(s) /\ \A f \in s : f.sequence <= l.sequence
      <4>1. s \in SUBSET Pool /\ IsFiniteSet(s) BY FS_Subset
      <4> QED BY <2>2, <4>1, HasLast
    <3>2. it[s] = Tally(it[s \ {l}], l) BY <1>1, <2>2, <3>1
    <3>3. PICK before \in SumsOf(R) : before = it[s \ {l}]
      <4>1. s \ {l} \in SUBSET R OBVIOUS
      <4> QED BY <4>1
    <3>4. Says(s \ {l}, before.outcome) BY <1>2, <3>3
    <3>5. CASE l \in verdicts
      <4>1. Tally(before, l).outcome = l.payload.outcome BY <3>5, TallyIs
      <4>2. it[s].outcome = l.payload.outcome BY <3>2, <3>3, <4>1
      <4> QED BY <3>1, <3>5, <4>2
    <3>6. CASE l \notin verdicts
      <4>1. Tally(before, l).outcome = before.outcome
        <5>1. ~(l.kind = "outcome" /\ l.payload # Unparseable /\ l.payload.outcome # Absent)
          BY <3>6
        <5> QED BY <5>1, TallyIs
      <4>2. it[s].outcome = before.outcome BY <3>2, <3>3, <4>1
      <4>3. (s \ {l}) \intersect verdicts = s \intersect verdicts BY <3>6
      <4> QED BY <3>4, <4>2, <4>3
    <3> QED BY <3>5, <3>6
  <2> QED BY <2>1, <2>2
<1>3. \A s \in SUBSET R : s \in Good
  <2> HIDE DEF Good
  <2> QED BY <1>2, EverySubset
<1>4. Says(R, it[R].outcome) BY <1>3
<1>5. R \intersect verdicts = verdicts OBVIOUS
<1> QED BY <1>1, <1>4, <1>5

\* The log holds finitely many rows, all from the pool.
LogInv == log \in SUBSET Pool /\ IsFiniteSet(log)

LEMMA LogInductive == LogInv /\ [Next]_log => LogInv'
<1> SUFFICES ASSUME LogInv, [Next]_log PROVE LogInv' OBVIOUS
<1>1. CASE UNCHANGED log BY <1>1 DEF LogInv
<1>2. ASSUME NEW e \in Pool, AddRow(e) PROVE LogInv'
  <2>1. IsFiniteSet(log \union {e}) BY FS_AddElement DEF LogInv
  <2> QED BY <1>2, <2>1 DEF AddRow, LogInv
<1> QED BY <1>1, <1>2 DEF Next

\* A row that joins a finite log moves the outcome as OutcomeMovesTo says.
LEMMA OutcomeMoves ==
  ASSUME PoolAssumption, VerdictsAssumption, LogInv, LogInv', NEW e \in Pool, AddRow(e)
  PROVE  OutcomeMovesTo(e)
<1> DEFINE Ruling(x, verdicts, out) ==
             /\ x \in verdicts /\ out = x.payload.outcome
             /\ \A f \in verdicts : f.sequence <= x.sequence
           Settled(verdicts, out) ==
             \/ verdicts = {} /\ out = Absent
             \/ \E x \in verdicts : Ruling(x, verdicts, out)
           before == ProjectRunTotals(log).outcome
           after == ProjectRunTotals(log').outcome
<1>1. PICK old : /\ old = Verdicts
                 /\ \A x : x \in old <=> /\ x \in log /\ x.kind = "outcome"
                                         /\ x.payload # Unparseable
                                         /\ x.payload.outcome # Absent
  <2>1. \A x : x \in Verdicts <=> /\ x \in log /\ x.kind = "outcome"
                                 /\ x.payload # Unparseable /\ x.payload.outcome # Absent
    BY DEF Verdicts, Billed
  <2> QED BY <2>1
<1>2. PICK new : /\ new = Verdicts'
                 /\ \A x : x \in new <=> /\ x \in log' /\ x.kind = "outcome"
                                         /\ x.payload # Unparseable
                                         /\ x.payload.outcome # Absent
  <2>1. \A x : x \in Verdicts' <=> /\ x \in log' /\ x.kind = "outcome"
                                 /\ x.payload # Unparseable /\ x.payload.outcome # Absent
    BY DEF Verdicts, Billed
  <2> QED BY <2>1
<1>3. PICK out1 : out1 = before /\ Settled(old, out1)
  <2>1. log \in SUBSET Pool /\ IsFiniteSet(log) BY DEF LogInv
  <2>2. old = {x \in log : /\ x.kind = "outcome" /\ x.payload # Unparseable
                           /\ x.payload.outcome # Absent}
    BY <1>1
  <2> QED BY <2>1, <2>2, OutcomeIs
<1>4. PICK out2 : out2 = after /\ Settled(new, out2)
  <2>1. log' \in SUBSET Pool /\ IsFiniteSet(log') BY DEF LogInv
  <2>2. new = {x \in log' : /\ x.kind = "outcome" /\ x.payload # Unparseable
                            /\ x.payload.outcome # Absent}
    BY <1>2
  <2> QED BY <2>1, <2>2, OutcomeIs
<1>5. log' = log \union {e} /\ e \notin log BY DEF AddRow
<1>6. \A x \in new : x \in Pool /\ x.sequence \in Nat /\ x.payload.outcome # Absent
  BY <1>2 DEF LogInv, PoolAssumption
<1>7. \A x, y \in new : x.sequence = y.sequence => x = y
  BY <1>2, <1>6 DEF VerdictsAssumption
<1>8. old \subseteq new /\ new \subseteq old \union {e} /\ e \notin old BY <1>1, <1>2, <1>5
<1>9. out1 # Absent => out2 # Absent BY <1>3, <1>4, <1>6, <1>8
<1>10. ASSUME out1 # out2
       PROVE  /\ e \in new /\ out2 = e.payload.outcome
              /\ \A f \in old : f.sequence < e.sequence
  <2>1. new # {} BY <1>3, <1>4, <1>8, <1>10
  <2>2. PICK w \in new : Ruling(w, new, out2) BY <1>4, <2>1
  <2>3. w = e
    <3>1. SUFFICES ASSUME w # e PROVE FALSE OBVIOUS
    <3>2. w \in old BY <1>8, <3>1
    <3>3. PICK v \in old : Ruling(v, old, out1) BY <1>3, <3>2
    <3>4. v.sequence = w.sequence BY <1>6, <1>8, <2>2, <3>2, <3>3
    <3> QED BY <1>7, <1>8, <1>10, <2>2, <3>2, <3>3, <3>4
  <2>4. ASSUME NEW f \in old PROVE f.sequence < e.sequence
    <3>1. f.sequence <= e.sequence /\ f \in new /\ e \in new /\ f # e
      BY <1>8, <2>2, <2>3
    <3>2. f.sequence \in Nat /\ e.sequence \in Nat /\ f.sequence # e.sequence
      BY <1>6, <1>7, <3>1
    <3> QED BY <3>1, <3>2
  <2> QED BY <2>2, <2>3, <2>4
<1> HIDE DEF Settled, Ruling
<1> QED BY <1>1, <1>2, <1>3, <1>4, <1>9, <1>10 DEF OutcomeMovesTo

\* Whatever rows a run's log gets, and in whatever order they arrive, its totals count
\* every billed row once, and embeddings and unreadable rows not at all
\* (aggregator.py:61,131).
THEOREM CallsAlwaysCountedOnce == ClientsSpec => []CountsEveryCallOnce
<1>1. ClientsInit => LogInv BY FS_EmptySet DEF ClientsInit, Init, LogInv
<1>2. [ClientsNext]_clientVars => [Next]_log
  BY DEF ClientsNext, OfProjection, OfIngest, OfMigrate, OfCommands, OfSchema, clientVars
<1>3. LogInv /\ [Next]_log => LogInv' BY LogInductive
<1>4. LogInv => CountsEveryCallOnce BY CountedOnce, PoolAssumption DEF LogInv
<1>5. QED BY <1>1, <1>2, <1>3, <1>4, PTL DEF ClientsSpec

\* The outcome of a run is the verdict last in sequence, in whatever order they arrive,
\* and none takes it back (aggregator.py:148).
THEOREM OutcomeAlwaysFollowsSequence == ClientsSpec => OutcomeFollowsSequence
<1>1. ClientsInit => LogInv BY FS_EmptySet DEF ClientsInit, Init, LogInv
<1>2. [ClientsNext]_clientVars => [Next]_log
  BY DEF ClientsNext, OfProjection, OfIngest, OfMigrate, OfCommands, OfSchema, clientVars
<1>3. LogInv /\ [Next]_log => LogInv' BY LogInductive
<1>4. LogInv /\ LogInv' /\ [Next]_log => [\A e \in log' \ log : OutcomeMovesTo(e)]_log
  <2> SUFFICES ASSUME LogInv, LogInv', NEW e \in Pool, AddRow(e)
               PROVE  \A f \in log' \ log : OutcomeMovesTo(f)
    BY DEF Next
  <2>1. \A f \in log' \ log : f = e BY DEF AddRow
  <2>2. OutcomeMovesTo(e) BY OutcomeMoves, PoolAssumption, VerdictsAssumption
  <2> QED BY <2>1, <2>2
<1>5. QED BY <1>1, <1>2, <1>3, <1>4, PTL DEF ClientsSpec, OutcomeFollowsSequence

-----------------------------------------------------------------------------
\* The migrations of the schema (SchemaMigrations).

AllObjects == (1..Versions) \X (1..Statements)

OpenerPlace ==
  [pc : {"closed", "read", "apply", "record", "open", "failed"},
   read : SUBSET (1..Versions), version : 1..(Versions + 1),
   statement : 1..Statements, creates : SUBSET AllObjects, records : SUBSET (1..Versions)]

SchemaTypes ==
  /\ kind \in {"sqlite", "postgres"}
  /\ created \subseteq AllObjects /\ recorded \subseteq 1..Versions
  /\ opener \in [Openers -> OpenerPlace]
  /\ lateFor \subseteq Openers

\* The recorded versions rs are whole when the objects cs are there.
WholeIn(rs, cs) == \A v \in rs : \A s \in 1..Statements : <<v, s>> \in cs

\* A process at place o starts at the first version; what it has read is
\* recorded; the versions behind it are, or will be when it commits, with all
\* their objects; of its own version it has run the statements up to where it is.
Underway(o, cs, rs) ==
  /\ o.pc = "read" => o.version = 1 /\ o.statement = 1 /\ o.records = {}
  /\ o.pc \in {"apply", "record"} =>
       /\ o.read \subseteq rs
       /\ \A v \in 1..Versions : v < o.version => v \in rs \union o.records
       /\ WholeIn(o.records, cs \union o.creates)
       /\ \A s \in 1..Statements :
            s < o.statement \/ o.pc = "record" => <<o.version, s>> \in cs \union o.creates
       /\ o.version \in o.read => o.pc = "apply"
       /\ o.pc = "record" => o.version \in 1..Versions /\ o.statement = 1
       /\ o.version \notin (1..Versions) \ o.read => o.statement = 1

IsApplying(o) == o.pc \in {"read", "apply", "record"}
HasRead(o) == o.pc \in {"apply", "record"}

\* The advisory lock: one process at a time, and nothing is recorded between its
\* read and its commit.
Exclusive ==
  kind = "postgres" =>
    /\ \A p, q \in Openers : IsApplying(opener[p]) /\ IsApplying(opener[q]) => p = q
    /\ \A p \in Openers : HasRead(opener[p]) => recorded = opener[p].read
    /\ lateFor = {}

SchemaInv ==
  /\ SchemaTypes /\ WholeIn(recorded, created) /\ Exclusive
  /\ \A p \in Openers : Underway(opener[p], created, recorded)
  /\ \A p \in Openers : opener[p].pc = "open" => recorded = 1..Versions
  /\ kind = "sqlite" => \A p \in Openers : opener[p].creates = {}

-----------------------------------------------------------------------------
LEMMA SchemaInitial == ASSUME D!SchemaAssumption PROVE D!Init => SchemaInv
<1> SUFFICES ASSUME D!Init PROVE SchemaInv OBVIOUS
<1>1. D!Closed \in OpenerPlace
  BY SMT DEF D!SchemaAssumption, D!Closed, OpenerPlace
<1>2. SchemaTypes BY <1>1 DEF D!Init, SchemaTypes, AllObjects
<1>3. \A p \in Openers : opener[p].pc = "closed" /\ opener[p].creates = {}
  BY DEF D!Init, D!Closed
<1>4. QED BY <1>2, <1>3 DEF D!Init, SchemaInv, WholeIn, Exclusive, Underway, IsApplying, HasRead

\* A step moves one process to the place o, and commits only more.
OpenerMoves(p, o) ==
  /\ o \in OpenerPlace
  /\ opener' = [opener EXCEPT ![p] = o]
  /\ kind' = kind
  /\ created \subseteq created' /\ created' \subseteq AllObjects
  /\ recorded \subseteq recorded' /\ recorded' \subseteq 1..Versions

LEMMA OpenerPlaces ==
  ASSUME SchemaTypes, NEW p \in Openers, NEW o, OpenerMoves(p, o)
  PROVE  /\ opener' \in [Openers -> OpenerPlace]
         /\ opener'[p] = o
         /\ \A q \in Openers : q # p => opener'[q] = opener[q]
BY DEF SchemaTypes, OpenerMoves

\* More committed disturbs nobody who is under way.
LEMMA StillUnderway ==
  ASSUME NEW o \in OpenerPlace, NEW cs, NEW ds, NEW rs, NEW ss,
         cs \subseteq ds, rs \subseteq ss, Underway(o, cs, rs)
  PROVE  Underway(o, ds, ss)
BY DEF Underway, WholeIn

\* A step of p preserves the invariant if it leaves p under way, keeps the lock,
\* commits whole versions, and has the store open only when all is recorded.
LEMMA OneOpenerMoves ==
  ASSUME SchemaInv, NEW p \in Openers, NEW o, OpenerMoves(p, o),
         Underway(o, created', recorded'),
         WholeIn(recorded', created'),
         o.pc = "open" => recorded' = 1..Versions,
         lateFor' \subseteq Openers,
         kind = "sqlite" => o.creates = {},
         kind = "postgres" =>
           /\ lateFor' = lateFor
           /\ IsApplying(o) => IsApplying(opener[p]) \/ ~D!Locked
           /\ recorded' = recorded \/ IsApplying(opener[p])
           /\ HasRead(o) => recorded' = o.read
  PROVE  SchemaInv'
<1>1. SchemaTypes BY DEF SchemaInv
<1> DEFINE Others == \A q \in Openers : q # p => opener'[q] = opener[q]
<1>2. opener' \in [Openers -> OpenerPlace] /\ opener'[p] = o /\ Others
  BY <1>1, OpenerPlaces
<1>3. SchemaTypes'
  BY <1>1, <1>2 DEF SchemaTypes, OpenerMoves
<1>4. WholeIn(recorded, created)'
  OBVIOUS
<1>5. ASSUME NEW q \in Openers PROVE Underway(opener[q], created, recorded)'
  <2>1. CASE q = p BY <1>2, <2>1
  <2>2. CASE q # p
    <3>1. opener[q] \in OpenerPlace BY <1>1 DEF SchemaTypes
    <3>2. Underway(opener[q], created', recorded')
      BY <3>1, StillUnderway DEF SchemaInv, OpenerMoves
    <3>3. QED BY <1>2, <2>2, <3>2
  <2>3. QED BY <2>1, <2>2
<1>6. ASSUME NEW q \in Openers, opener'[q].pc = "open" PROVE recorded' = 1..Versions
  BY <1>2, <1>6 DEF SchemaInv, OpenerMoves
<1>7. Exclusive'
  <2> SUFFICES ASSUME kind' = "postgres"
               PROVE /\ \A q, r \in Openers :
                           IsApplying(opener'[q]) /\ IsApplying(opener'[r]) => q = r
                     /\ \A q \in Openers : HasRead(opener'[q]) => recorded' = opener'[q].read
                     /\ lateFor' = {}
    BY DEF Exclusive
  <2>1. kind = "postgres" BY DEF OpenerMoves
  <2>2. ASSUME NEW q \in Openers, q # p, IsApplying(opener[q])
        PROVE  ~IsApplying(opener[p]) /\ ~IsApplying(o) /\ recorded' = recorded
    BY <2>1, <2>2 DEF SchemaInv, Exclusive, D!Locked, IsApplying
  <2>3. ASSUME NEW q \in Openers, NEW r \in Openers, IsApplying(opener'[q]), IsApplying(opener'[r])
        PROVE  q = r
    BY <1>2, <2>1, <2>2, <2>3 DEF SchemaInv, Exclusive
  <2>4. ASSUME NEW q \in Openers, HasRead(opener'[q]) PROVE recorded' = opener'[q].read
    <3>1. CASE q = p BY <1>2, <2>1, <2>4, <3>1
    <3>2. CASE q # p
      BY <1>2, <2>1, <2>2, <2>4, <3>2 DEF SchemaInv, Exclusive, HasRead, IsApplying
    <3>3. QED BY <3>1, <3>2
  <2>5. lateFor' = {} BY <2>1 DEF SchemaInv, Exclusive
  <2>6. QED BY <2>3, <2>4, <2>5
<1>8. kind' = "sqlite" => \A q \in Openers : opener'[q].creates = {}
  BY <1>2 DEF SchemaInv, OpenerMoves
<1>9. QED BY <1>3, <1>4, <1>5, <1>6, <1>7, <1>8 DEF SchemaInv
-----------------------------------------------------------------------------
LEMMA SchemaInductive ==
  ASSUME D!SchemaAssumption, SchemaInv, [D!Next]_D!vars PROVE SchemaInv'
<1> USE D!SchemaAssumption DEF D!SchemaAssumption
<1>0. SchemaTypes BY DEF SchemaInv
<1>1. CASE UNCHANGED D!vars
  BY <1>1 DEF D!vars, SchemaInv, SchemaTypes, WholeIn, Exclusive, Underway, IsApplying, HasRead
<1>2. ASSUME NEW p \in Openers, D!Open(p) PROVE SchemaInv'
  <2> DEFINE o == [D!Closed EXCEPT !.pc = "read"]
  <2>1. /\ o \in OpenerPlace
        /\ o.pc = "read" /\ o.version = 1 /\ o.statement = 1
        /\ o.creates = {} /\ o.records = {}
    BY SMT DEF D!Closed, OpenerPlace
  <2>2. opener' = [opener EXCEPT ![p] = o] /\ UNCHANGED <<kind, created, recorded, lateFor>>
    BY <1>2 DEF D!Open
  <2> HIDE DEF o
  <2>3. OpenerMoves(p, o) BY <1>0, <2>1, <2>2 DEF OpenerMoves, SchemaTypes
  <2>4. Underway(o, created', recorded') BY <2>1 DEF Underway
  <2>5. kind = "postgres" => ~D!Locked BY <1>2 DEF D!Open
  <2>6. QED BY <2>1, <2>2, <2>3, <2>4, <2>5, OneOpenerMoves DEF SchemaInv, SchemaTypes, HasRead
<1>3. ASSUME NEW p \in Openers, D!ReadApplied(p) PROVE SchemaInv'
  <2> DEFINE o == [opener[p] EXCEPT !.pc = "apply", !.read = recorded]
  <2>0. opener[p] \in OpenerPlace /\ recorded \in SUBSET (1..Versions) BY <1>0 DEF SchemaTypes
  <2>1. /\ o \in OpenerPlace
        /\ o.pc = "apply" /\ o.read = recorded /\ o.version = opener[p].version
        /\ o.statement = opener[p].statement /\ o.records = opener[p].records
        /\ o.creates = opener[p].creates
    BY <2>0, Zenon DEF OpenerPlace
  <2>2. opener' = [opener EXCEPT ![p] = o] /\ UNCHANGED <<kind, created, recorded, lateFor>>
    BY <1>3 DEF D!ReadApplied
  <2>3. opener[p].pc = "read" BY <1>3 DEF D!ReadApplied, D!At
  <2> HIDE DEF o
  <2>4. OpenerMoves(p, o) BY <1>0, <2>1, <2>2 DEF OpenerMoves, SchemaTypes
  <2>5. Underway(o, created', recorded') BY <2>1, <2>2, <2>3, SMT DEF SchemaInv, Underway, WholeIn
  <2>6. QED BY <2>1, <2>2, <2>3, <2>4, <2>5, OneOpenerMoves DEF SchemaInv, SchemaTypes, IsApplying
<1>4. ASSUME NEW p \in Openers, D!SkipVersion(p) PROVE SchemaInv'
  <2> DEFINE o == [opener[p] EXCEPT !.version = @ + 1]
  <2>1. opener[p] \in OpenerPlace /\ opener[p].pc = "apply" /\ opener[p].version \in opener[p].read
    BY <1>0, <1>4 DEF D!SkipVersion, D!At, SchemaTypes
  <2>2. /\ o \in OpenerPlace
        /\ o.pc = "apply" /\ o.read = opener[p].read /\ o.version = opener[p].version + 1
        /\ o.statement = opener[p].statement /\ o.records = opener[p].records
        /\ o.creates = opener[p].creates
    BY <2>1, SMT DEF OpenerPlace
  <2>3. opener' = [opener EXCEPT ![p] = o] /\ UNCHANGED <<kind, created, recorded, lateFor>>
    BY <1>0, <1>4, SMT DEF D!SkipVersion, SchemaTypes, OpenerPlace
  <2> HIDE DEF o
  <2>4. OpenerMoves(p, o) BY <1>0, <2>2, <2>3 DEF OpenerMoves, SchemaTypes
  <2>5. Underway(opener[p], created, recorded) BY DEF SchemaInv
  <2>6. opener[p].statement = 1 BY <2>1, <2>5 DEF Underway
  <2>7. Underway(o, created', recorded')
    BY <2>1, <2>2, <2>3, <2>5, <2>6, SMT DEF Underway, WholeIn, OpenerPlace
  <2>8. kind = "postgres" => recorded = opener[p].read
    BY <2>1 DEF SchemaInv, Exclusive, HasRead
  <2>9. QED
    BY <2>1, <2>2, <2>3, <2>4, <2>7, <2>8, OneOpenerMoves DEF SchemaInv, SchemaTypes, IsApplying
<1>5. ASSUME NEW p \in Openers, D!RunStatement(p) PROVE SchemaInv'
  <2> DEFINE s == <<opener[p].version, opener[p].statement>>
             last == opener[p].statement = Statements
             o == [opener[p] EXCEPT
                     !.pc = IF last THEN "record" ELSE "apply",
                     !.statement = IF last THEN 1 ELSE @ + 1,
                     !.creates = IF kind = "postgres" THEN @ \union {s} ELSE @]
  <2>1. /\ opener[p] \in OpenerPlace /\ opener[p].pc = "apply"
        /\ opener[p].version \in (1..Versions) \ opener[p].read
    BY <1>0, <1>5 DEF D!RunStatement, D!At, SchemaTypes
  <2>2. s \in AllObjects BY <2>1, SMT DEF AllObjects, OpenerPlace
  <2>3. /\ o \in OpenerPlace
        /\ o.pc = IF last THEN "record" ELSE "apply"
        /\ o.read = opener[p].read /\ o.version = opener[p].version
        /\ o.statement = IF last THEN 1 ELSE opener[p].statement + 1
        /\ o.records = opener[p].records
        /\ o.creates = IF kind = "postgres" THEN opener[p].creates \union {s}
                       ELSE opener[p].creates
    <3>1. (IF last THEN 1 ELSE opener[p].statement + 1) \in 1..Statements
      BY <2>1, SMT DEF OpenerPlace
    <3>2. (IF kind = "postgres" THEN opener[p].creates \union {s} ELSE opener[p].creates)
            \in SUBSET AllObjects
      BY <2>1, <2>2 DEF OpenerPlace
    <3>3. QED BY <2>1, <3>1, <3>2, Zenon DEF OpenerPlace
  <2>4. /\ opener' = [opener EXCEPT ![p] = o] /\ UNCHANGED <<kind, recorded, lateFor>>
        /\ created' = IF kind = "sqlite" THEN created \union {s} ELSE created
    BY <1>5 DEF D!RunStatement
  <2>5. created' \union o.creates = created \union opener[p].creates \union {s}
    BY <1>0, <2>3, <2>4 DEF SchemaTypes
  <2> HIDE DEF o
  <2>6. OpenerMoves(p, o) BY <1>0, <2>2, <2>3, <2>4 DEF OpenerMoves, SchemaTypes
  <2>7. Underway(opener[p], created, recorded) BY DEF SchemaInv
  <2>8. Underway(o, created', recorded')
    BY <2>1, <2>3, <2>4, <2>5, <2>7, SMT DEF Underway, WholeIn, OpenerPlace
  <2>9. WholeIn(recorded', created') BY <2>4 DEF SchemaInv, WholeIn
  <2>10. kind = "postgres" => recorded = opener[p].read
    BY <2>1 DEF SchemaInv, Exclusive, HasRead
  <2>11. QED
      BY <2>1, <2>3, <2>4, <2>6, <2>8, <2>9, <2>10, OneOpenerMoves
      DEF SchemaInv, SchemaTypes, IsApplying
<1>6. ASSUME NEW p \in Openers, D!Record(p) PROVE SchemaInv'
  <2> DEFINE v == opener[p].version
  <2>1. /\ opener[p] \in OpenerPlace /\ opener[p].pc = "record"
        /\ Underway(opener[p], created, recorded)
        /\ kind' = kind /\ created' = created
    BY <1>0, <1>6 DEF D!Record, D!At, SchemaTypes, SchemaInv
  <2>2. /\ v \in (1..Versions) \ opener[p].read /\ opener[p].statement = 1
        /\ WholeIn({v}, created \union opener[p].creates)
    BY <2>1 DEF Underway, WholeIn
  <2>3. kind = "postgres" => recorded = opener[p].read
    BY <2>1 DEF SchemaInv, Exclusive, HasRead
  <2>4. CASE v \in recorded
    <3> DEFINE o == [D!Closed EXCEPT !.pc = "failed"]
    <3>1. o \in OpenerPlace /\ o.pc = "failed" /\ o.creates = {}
      BY SMT DEF D!Closed, OpenerPlace
    <3>2. /\ opener' = [opener EXCEPT ![p] = o] /\ recorded' = recorded
          /\ lateFor' = lateFor \union {p}
      BY <1>6, <2>4 DEF D!Record
    <3> HIDE DEF o
    <3>3. OpenerMoves(p, o) BY <1>0, <2>1, <3>1, <3>2 DEF OpenerMoves, SchemaTypes
    <3>4. Underway(o, created', recorded') BY <3>1 DEF Underway
    <3>5. kind # "postgres" BY <2>2, <2>3, <2>4
    <3>6. QED BY <1>0, <2>1, <3>1, <3>2, <3>3, <3>4, <3>5, OneOpenerMoves DEF SchemaInv, SchemaTypes
  <2>5. CASE v \notin recorded
    <3> DEFINE o == [opener[p] EXCEPT !.pc = "apply", !.version = @ + 1,
                       !.records = IF kind = "postgres" THEN @ \union {v} ELSE @]
    <3>1. /\ o \in OpenerPlace
          /\ o.pc = "apply" /\ o.read = opener[p].read /\ o.version = v + 1
          /\ o.statement = 1 /\ o.creates = opener[p].creates
          /\ o.records = IF kind = "postgres" THEN opener[p].records \union {v}
                         ELSE opener[p].records
      <4>1. v + 1 \in 1..(Versions + 1) BY <2>2, SMT
      <4>2. (IF kind = "postgres" THEN opener[p].records \union {v} ELSE opener[p].records)
              \in SUBSET (1..Versions)
        BY <2>1, <2>2 DEF OpenerPlace
      <4>3. QED BY <2>1, <2>2, <4>1, <4>2, Zenon DEF OpenerPlace
    <3>2. /\ opener' = [opener EXCEPT ![p] = o] /\ lateFor' = lateFor
          /\ recorded' = IF kind = "sqlite" THEN recorded \union {v} ELSE recorded
      BY <1>6, <2>5 DEF D!Record
    <3> HIDE DEF o
    <3>3. OpenerMoves(p, o) BY <1>0, <2>1, <2>2, <3>1, <3>2 DEF OpenerMoves, SchemaTypes
    <3>4. Underway(o, created', recorded')
      <4>1. \A w \in 1..Versions : w < o.version => w = v \/ w < v
        BY <2>2, <3>1, SMT DEF OpenerPlace
      <4>2. recorded' \union o.records = recorded \union opener[p].records \union {v}
        BY <1>0, <3>1, <3>2 DEF SchemaTypes
      <4>3. QED BY <2>1, <2>2, <3>1, <3>2, <4>1, <4>2, SMT DEF Underway, WholeIn, OpenerPlace
    <3>5. WholeIn(recorded', created')
      <4>1. kind = "sqlite" => opener[p].creates = {} BY DEF SchemaInv
      <4>2. QED BY <2>1, <2>2, <3>2, <4>1 DEF SchemaInv, WholeIn
    <3>6. QED
        BY <1>0, <2>1, <2>3, <3>1, <3>2, <3>3, <3>4, <3>5, OneOpenerMoves
        DEF SchemaInv, SchemaTypes, IsApplying
  <2>6. QED BY <2>4, <2>5
<1>7. ASSUME NEW p \in Openers, D!Finish(p) PROVE SchemaInv'
  <2> DEFINE o == [D!Closed EXCEPT !.pc = "open"]
  <2>1. o \in OpenerPlace /\ o.pc = "open" /\ o.creates = {} BY SMT DEF D!Closed, OpenerPlace
  <2>2. /\ opener' = [opener EXCEPT ![p] = o] /\ UNCHANGED <<kind, lateFor>>
        /\ created' = created \union opener[p].creates
        /\ recorded' = recorded \union opener[p].records
    BY <1>7 DEF D!Finish
  <2>3. /\ opener[p] \in OpenerPlace /\ opener[p].pc = "apply" /\ opener[p].version > Versions
        /\ Underway(opener[p], created, recorded)
    BY <1>0, <1>7 DEF D!Finish, D!At, SchemaTypes, SchemaInv
  <2> HIDE DEF o
  <2>4. OpenerMoves(p, o) BY <1>0, <2>1, <2>2, <2>3 DEF OpenerMoves, SchemaTypes, OpenerPlace
  <2>5. Underway(o, created', recorded') BY <2>1 DEF Underway
  <2>6. WholeIn(recorded', created') BY <2>2, <2>3 DEF SchemaInv, Underway, WholeIn
  <2>7. recorded' = 1..Versions
    <3>1. \A v \in 1..Versions : v < opener[p].version BY <2>3, SMT DEF OpenerPlace
    <3>2. QED BY <2>2, <2>3, <2>4, <3>1 DEF Underway, OpenerMoves
  <2>8. QED
    BY <1>0, <2>1, <2>2, <2>3, <2>4, <2>5, <2>6, <2>7, OneOpenerMoves
    DEF SchemaTypes, IsApplying, HasRead
<1>8. ASSUME NEW p \in Openers, NEW pc \in {"failed", "closed"},
             opener' = [opener EXCEPT ![p] = [D!Closed EXCEPT !.pc = pc]],
             UNCHANGED <<kind, created, recorded, lateFor>>
      PROVE  SchemaInv'
  <2> DEFINE o == [D!Closed EXCEPT !.pc = pc]
  <2>1. o \in OpenerPlace /\ o.pc = pc /\ o.creates = {} BY SMT DEF D!Closed, OpenerPlace
  <2> HIDE DEF o
  <2>2. opener' = [opener EXCEPT ![p] = o] BY <1>8 DEF o
  <2>3. OpenerMoves(p, o) BY <1>0, <1>8, <2>1, <2>2 DEF OpenerMoves, SchemaTypes
  <2>4. Underway(o, created', recorded') BY <2>1 DEF Underway
  <2>5. QED
    BY <1>0, <1>8, <2>1, <2>3, <2>4, OneOpenerMoves DEF SchemaInv, SchemaTypes, IsApplying, HasRead
<1>9. ASSUME NEW p \in Openers, D!Fail(p) PROVE SchemaInv'
  BY <1>8, <1>9 DEF D!Fail
<1>10. ASSUME NEW p \in Openers, D!Kill(p) PROVE SchemaInv'
  <2>1. [D!Closed EXCEPT !.pc = "closed"] = D!Closed BY SMT DEF D!Closed
  <2>2. QED BY <1>8, <1>10, <2>1 DEF D!Kill
<1>11. QED
  BY <1>1, <1>2, <1>3, <1>4, <1>5, <1>6, <1>7, <1>9, <1>10 DEF D!Next

\* Whoever has opened a store finds every table, and on Postgres connect() never
\* finds that another process has recorded a version in between
\* (storage/migrations.py:94-125, storage/postgres_migrations.py:137-178).
THEOREM StoreAlwaysWhole == ClientsSpec => []SchemaWhole
<1>1. ClientsInit => SchemaInv
  BY SchemaInitial, SchemaAssumption DEF ClientsInit
<1>2. [ClientsNext]_clientVars => [D!Next]_D!vars
  BY DEF ClientsNext, OfProjection, OfIngest, OfMigrate, OfCommands, OfSchema,
         clientVars, schemaState, D!vars
<1>3. SchemaInv /\ [D!Next]_D!vars => SchemaInv'
  BY SchemaInductive, SchemaAssumption
<1>4. SchemaInv => SchemaWhole
  BY DEF SchemaInv, SchemaTypes, WholeIn, Exclusive, SchemaWhole, D!SchemaWhole,
         D!OpenMeansMigrated, D!OvertakenOnlyOnSqlite, D!At
<1>5. QED BY <1>1, <1>2, <1>3, <1>4, PTL DEF ClientsSpec

-----------------------------------------------------------------------------
\* The OTLP receiver (OtelIngest).

Spans == UNION {I!Members(q.spans) : q \in Requests}
Keys == {I!Key(s) : s \in Spans}
Traces == {s.trace : s \in Spans}
RunNames ==
  {s.own : s \in Spans} \union {s.inherited : s \in Spans}
    \union {I!MadeUp(n) : n \in Nat} \union {None}

HandlerPlace ==
  [pc : {"idle", "span", "resolve", "start", "number", "insert"}, todo : Seq(Spans),
   run : RunNames, sequence : Nat]
IngestRow == [span : Spans, run : RunNames, sequence : Nat]

IngestTypes ==
  /\ handler \in [Handlers -> HandlerPlace]
  /\ seen \in Seq(Keys) /\ traceRun \in Seq(Traces \X RunNames)
  /\ minted \in Nat /\ ingested \in Seq(IngestRow)
  /\ \A r \in DOMAIN counters : counters[r] \in Nat

\* Thread t has begun a span and is not done with it, and has filed it under a run.
Handling(t) == handler[t].pc \in {"resolve", "start", "number", "insert"}
Filed(t) == handler[t].pc \in {"start", "number", "insert"}

HandlersPlaced ==
  \A t \in Handlers :
    /\ handler[t].pc = "idle" => handler[t].todo = <<>>
    /\ Handling(t) => handler[t].todo # <<>>

\* A key is in the memory, or has left it, from when its span is begun on; so two
\* spans with one key are begun only when it has left.
Held(k) == k \in I!Members(seen) \union evicted
KeysHeld ==
  /\ \A t \in Handlers : Handling(t) =>
       I!Keyless(I!Span(t)) \/ Held(I!Key(I!Span(t)))
  /\ \A i \in DOMAIN ingested :
       I!Keyless(ingested[i].span) \/ Held(I!Key(ingested[i].span))
KeysApart ==
  /\ \A t, u \in Handlers :
       t # u /\ Handling(t) /\ Handling(u) /\ I!Key(I!Span(t)) = I!Key(I!Span(u)) =>
         I!Keyless(I!Span(t)) \/ I!Key(I!Span(t)) \in evicted
  /\ \A t \in Handlers : \A i \in DOMAIN ingested :
       Handling(t) /\ I!Key(I!Span(t)) = I!Key(ingested[i].span) =>
         I!Keyless(I!Span(t)) \/ I!Key(I!Span(t)) \in evicted

\* What the memory holds was inserted, or failed to be, or is being handled.
KeysAccounted ==
  \A k \in I!Members(seen) \union dismissed :
    (\E i \in DOMAIN ingested : I!Key(ingested[i].span) = k) \/ k \in rejected \/ I!InHand(k)

\* The run of a trace is the one it is remembered with.
OneRunEach ==
  \A a, b \in I!Members(traceRun) : a[1] = b[1] => a = b
InItsRun(s, r) ==
  I!Explicit(s) = None => <<s.trace, r>> \in I!Members(traceRun) \/ s.trace \in evicted
TracesKept ==
  /\ OneRunEach
  /\ \A t \in Handlers : Filed(t) => InItsRun(I!Span(t), handler[t].run)
  /\ \A i \in DOMAIN ingested : InItsRun(ingested[i].span, ingested[i].run)

\* The counter of a run is past every sequence it gave.
Numbered(t) == handler[t].pc = "insert" /\ I!Span(t).hint = None
SequencesKept ==
  /\ \A t \in Handlers : Numbered(t) => handler[t].sequence <= I!Count(handler[t].run)
  /\ \A i \in DOMAIN ingested : ingested[i].span.hint = None =>
       ingested[i].sequence <= I!Count(ingested[i].run)
  /\ \A t, u \in Handlers :
       t # u /\ Numbered(t) /\ Numbered(u) /\ handler[t].run = handler[u].run =>
         handler[t].sequence # handler[u].sequence
  /\ \A t \in Handlers : \A i \in DOMAIN ingested :
       Numbered(t) /\ ingested[i].span.hint = None /\ handler[t].run = ingested[i].run =>
         handler[t].sequence # ingested[i].sequence

IngestInv ==
  /\ IngestTypes /\ HandlersPlaced
  /\ KeysHeld /\ KeysApart /\ KeysAccounted
  /\ TracesKept /\ SequencesKept
  /\ I!IngestedOnce /\ I!TraceIsOneRun /\ I!SequenceClashOnlyIfTold

-----------------------------------------------------------------------------
\* What is put at the end of a memory is in it, and nothing else is new.
LEMMA PutLast ==
  ASSUME NEW S, NEW s \in Seq(S), NEW x \in S, NEW limit \in Nat \ {0}
  PROVE  /\ I!Bounded(Append(I!Without(s, x), x), limit) \in Seq(S)
         /\ x \in I!Members(I!Bounded(Append(I!Without(s, x), x), limit))
         /\ I!Members(I!Bounded(Append(I!Without(s, x), x), limit))
              \subseteq I!Members(s) \union {x}
<1> DEFINE w == I!Without(s, x)
           a == Append(w, x)
<1>1. w \in Seq(S) /\ I!Members(w) \subseteq I!Members(s)
  <2>1. CASE x \notin I!Members(s)
    BY <2>1 DEF I!Without
  <2>2. CASE x \in I!Members(s)
    <3>1. PICK i \in DOMAIN s : w = I!RemoveAt(s, i)
      BY <2>2 DEF I!Without, I!Members
    <3> DEFINE l == SubSeq(s, 1, i - 1)
               r == SubSeq(s, i + 1, Len(s))
    <3>2. /\ l \in Seq(S) /\ Len(l) = i - 1
          /\ \A j \in 1..(i - 1) : l[j] = s[j]
      <4>1. i \in 1..Len(s) /\ \A j \in 1..(i - 1) : s[j] \in S
        OBVIOUS
      <4>2. QED BY <4>1, SubSeqProperties, SMT
    <3>3. /\ r \in Seq(S) /\ Len(r) = Len(s) - i
          /\ \A j \in 1..(Len(s) - i) : r[j] = s[i + j]
      <4>1. i \in 1..Len(s) /\ \A j \in (i + 1)..Len(s) : s[j] \in S
        OBVIOUS
      <4>2. QED BY <4>1, SubSeqProperties, SMT
    <3> HIDE DEF l, r
    <3>4. w = l \o r BY <3>1 DEF l, r, I!RemoveAt
    <3>5. l \o r \in Seq(S) /\ \A j \in DOMAIN (l \o r) : \E k \in DOMAIN s : (l \o r)[j] = s[k]
      <4>1. l \o r \in Seq(S) /\ Len(l \o r) = Len(s) - 1
        BY <3>2, <3>3
      <4>2. ASSUME NEW j \in DOMAIN (l \o r) PROVE \E k \in DOMAIN s : (l \o r)[j] = s[k]
        <5>1. j \in 1..(Len(s) - 1) BY <4>1
        <5>2. CASE j <= i - 1 BY <3>2, <3>3, <5>1, <5>2
        <5>3. CASE j > i - 1
          <6>1. (l \o r)[j] = r[j - (i - 1)] BY <3>2, <3>3, <5>1, <5>3
          <6>2. j - (i - 1) \in 1..(Len(s) - i) BY <5>1, <5>3
          <6>3. r[j - (i - 1)] = s[j + 1] BY <3>3, <6>2
          <6>4. QED BY <5>1, <6>1, <6>3
        <5>4. QED BY <5>1, <5>2, <5>3
      <4>3. QED BY <4>1, <4>2
    <3>6. QED BY <3>4, <3>5 DEF I!Members
  <2>3. QED BY <2>1, <2>2
<1> HIDE DEF w
<1>2. /\ a \in Seq(S) /\ Len(a) = Len(w) + 1 /\ a[Len(a)] = x
      /\ \A i \in DOMAIN a : a[i] = x \/ (i \in DOMAIN w /\ a[i] = w[i])
  <2>1. a \in Seq(S) /\ Len(a) = Len(w) + 1 /\ a[Len(w) + 1] = x
        /\ \A i \in 1..Len(w) : a[i] = w[i]
    BY <1>1
  <2> HIDE DEF a
  <2>2. DOMAIN a = 1..(Len(w) + 1) /\ DOMAIN w = 1..Len(w) /\ Len(w) \in Nat
    BY <1>1, <2>1
  <2>3. QED BY <2>1, <2>2
<1> HIDE DEF a
<1>3. x \in I!Members(a) /\ I!Members(a) \subseteq I!Members(s) \union {x}
  <2>1. Len(a) \in DOMAIN a BY <1>1, <1>2
  <2>2. QED BY <1>1, <1>2, <2>1 DEF I!Members
<1>4. CASE Len(a) <= limit
  BY <1>2, <1>3, <1>4 DEF I!Bounded, a, w
<1>5. CASE Len(a) > limit
  <2>1. Len(a) >= 2 /\ a # <<>> BY <1>2, <1>5
  <2>2. /\ Tail(a) \in Seq(S) /\ Len(Tail(a)) = Len(a) - 1
        /\ \A i \in 1..Len(Tail(a)) : Tail(a)[i] = a[i + 1]
    BY <1>2, <2>1, HeadTailProperties
  <2>3. x \in I!Members(Tail(a)) /\ I!Members(Tail(a)) \subseteq I!Members(a)
    <3>1. DOMAIN a = 1..Len(a) /\ DOMAIN Tail(a) = 1..(Len(a) - 1) /\ Len(a) \in Nat
      BY <1>2, <2>1, <2>2
    <3>2. Len(a) - 1 \in DOMAIN Tail(a) /\ Tail(a)[Len(a) - 1] = x
      BY <1>2, <2>1, <2>2, <3>1
    <3>3. \A i \in DOMAIN Tail(a) : i + 1 \in DOMAIN a /\ Tail(a)[i] = a[i + 1]
      BY <2>2, <3>1
    <3>4. QED BY <3>2, <3>3 DEF I!Members
  <2>4. QED BY <1>3, <1>5, <2>2, <2>3 DEF I!Bounded, a, w
<1>6. QED BY <1>1, <1>4, <1>5, <1>2

LEMMA SpanTyped ==
  ASSUME IngestTypes, NEW t \in Handlers, handler[t].todo # <<>>
  PROVE  I!Span(t) \in Spans /\ Tail(handler[t].todo) \in Seq(Spans)
<1>1. handler[t].todo \in Seq(Spans) BY DEF IngestTypes, HandlerPlace
<1>2. QED BY <1>1, HeadTailProperties DEF I!Span

LEMMA HandlerMoves ==
  ASSUME IngestTypes, NEW t \in Handlers, NEW o \in HandlerPlace,
         handler' = [handler EXCEPT ![t] = o]
  PROVE  /\ handler' \in [Handlers -> HandlerPlace]
         /\ handler'[t] = o
         /\ \A u \in Handlers : u # t => handler'[u] = handler[u]
BY DEF IngestTypes

LEMMA PlaceTyped ==
  ASSUME NEW p \in {"idle", "span", "resolve", "start", "number", "insert"},
         NEW todo \in Seq(Spans), NEW r \in RunNames, NEW q \in Nat
  PROVE  [pc |-> p, todo |-> todo, run |-> r, sequence |-> q] \in HandlerPlace
BY Zenon DEF HandlerPlace

-----------------------------------------------------------------------------
LEMMA SameHandler ==
  ASSUME NEW u \in Handlers, handler'[u] = handler[u]
  PROVE  /\ Handling(u)' <=> Handling(u)
         /\ Filed(u)' <=> Filed(u)
         /\ Numbered(u)' <=> Numbered(u)
         /\ I!Span(u)' = I!Span(u)
BY DEF Handling, Filed, Numbered, I!Span

LEMMA InHandMeans ==
  ASSUME IngestTypes, HandlersPlaced, NEW k
  PROVE  I!InHand(k) <=> \E t \in Handlers : Handling(t) /\ I!Key(I!Span(t)) = k
<1>1. \A t \in Handlers :
        Handling(t) <=> handler[t].todo # <<>> /\ handler[t].pc # "span"
  BY DEF IngestTypes, HandlerPlace, HandlersPlaced, Handling
<1>2. QED BY <1>1 DEF I!InHand

\* The spans of a trace are in one run because each is in the run of the memory.
LEMMA OneRunOfTrace == ASSUME TracesKept PROVE I!TraceIsOneRun
<1> SUFFICES ASSUME NEW i \in DOMAIN ingested, NEW j \in DOMAIN ingested,
                    I!Explicit(ingested[i].span) = None,
                    I!Explicit(ingested[j].span) = None,
                    ingested[i].span.trace = ingested[j].span.trace,
                    ingested[i].span.trace \notin evicted
             PROVE  ingested[i].run = ingested[j].run
  BY DEF I!TraceIsOneRun
<1> DEFINE a == <<ingested[i].span.trace, ingested[i].run>>
           b == <<ingested[j].span.trace, ingested[j].run>>
<1>1. a \in I!Members(traceRun) /\ b \in I!Members(traceRun) /\ a[1] = b[1]
  BY DEF TracesKept, InItsRun
<1>2. a = b BY <1>1 DEF TracesKept, OneRunEach
<1>3. QED BY <1>2

\* What begins no span and ends none keeps what is known of the keys.
LEMMA KeysStay ==
  ASSUME IngestInv, IngestTypes', HandlersPlaced',
         UNCHANGED <<seen, ingested, dismissed, rejected>>, evicted \subseteq evicted',
         \A u \in Handlers :
           /\ Handling(u)' <=> Handling(u)
           /\ Handling(u) => I!Span(u)' = I!Span(u)
  PROVE  KeysHeld' /\ KeysApart' /\ KeysAccounted' /\ I!IngestedOnce'
<1>1. \A k : Held(k) => Held(k)' BY DEF Held
<1>2. KeysHeld' BY <1>1 DEF IngestInv, KeysHeld
<1>3. KeysApart' BY DEF IngestInv, KeysApart
<1>4. \A k : I!InHand(k) => I!InHand(k)'
  <2> SUFFICES ASSUME NEW k, I!InHand(k) PROVE I!InHand(k)' OBVIOUS
  <2>1. PICK t \in Handlers : Handling(t) /\ I!Key(I!Span(t)) = k
    BY InHandMeans DEF IngestInv
  <2>2. Handling(t)' /\ I!Key(I!Span(t))' = k BY <2>1 DEF I!Key
  <2>3. handler'[t].todo # <<>> /\ handler'[t].pc # "span"
    BY <2>2 DEF HandlersPlaced, Handling
  <2>4. QED BY <2>2, <2>3 DEF I!InHand
<1>5. KeysAccounted' BY <1>4 DEF IngestInv, KeysAccounted
<1>6. I!IngestedOnce' BY DEF IngestInv, I!IngestedOnce
<1>7. QED BY <1>2, <1>3, <1>5, <1>6

LEMMA TracesStay ==
  ASSUME IngestInv, UNCHANGED <<traceRun, ingested>>, evicted \subseteq evicted',
         \A u \in Handlers : Filed(u)' =>
           Filed(u) /\ I!Span(u)' = I!Span(u) /\ handler'[u].run = handler[u].run
  PROVE  TracesKept'
<1>1. \A s, r : InItsRun(s, r) => InItsRun(s, r)' BY DEF InItsRun
<1>2. QED BY <1>1 DEF IngestInv, TracesKept, OneRunEach

LEMMA SequencesStay ==
  ASSUME IngestInv, UNCHANGED <<counters, ingested>>,
         \A u \in Handlers : Numbered(u)' =>
           /\ Numbered(u) /\ handler'[u].run = handler[u].run
           /\ handler'[u].sequence = handler[u].sequence
  PROVE  SequencesKept' /\ I!SequenceClashOnlyIfTold'
<1>1. \A r : I!Count(r)' = I!Count(r) BY DEF I!Count
<1>2. SequencesKept' BY <1>1 DEF IngestInv, SequencesKept
<1>3. QED BY <1>2 DEF IngestInv, I!SequenceClashOnlyIfTold

LEMMA NobodyBegins ==
  ASSUME IngestInv, IngestTypes', HandlersPlaced',
         UNCHANGED <<seen, traceRun, counters, ingested, rejected, dismissed, evicted>>,
         \A u \in Handlers :
           handler'[u] = handler[u] \/ (~Handling(u) /\ ~Handling(u)')
  PROVE  IngestInv'
<1>1. \A u \in Handlers :
        /\ Handling(u)' <=> Handling(u)
        /\ Handling(u) => handler'[u] = handler[u] /\ I!Span(u)' = I!Span(u)
  BY SameHandler
<1>2. \A u \in Handlers : (Filed(u)' \/ Numbered(u)') => Handling(u)'
  BY DEF Filed, Numbered, Handling
<1>3. KeysHeld' /\ KeysApart' /\ KeysAccounted' /\ I!IngestedOnce'
  BY <1>1, KeysStay
<1>4. TracesKept' BY <1>1, <1>2, SameHandler, TracesStay
<1>5. SequencesKept' /\ I!SequenceClashOnlyIfTold'
  BY <1>1, <1>2, SameHandler, SequencesStay
<1>6. QED BY <1>3, <1>4, <1>5, OneRunOfTrace, PTL DEF IngestInv

-----------------------------------------------------------------------------
LEMMA IngestInitial == I!Init => IngestInv
<1> SUFFICES ASSUME I!Init PROVE IngestInv OBVIOUS
<1>1. I!Idle \in HandlerPlace
  <2>1. None \in RunNames /\ <<>> \in Seq(Spans) BY DEF RunNames
  <2>2. QED BY <2>1, PlaceTyped DEF I!Idle
<1>2. \A t \in Handlers : handler[t].pc = "idle" /\ handler[t].todo = <<>>
  BY DEF I!Init, I!Idle
<1>3. IngestTypes BY <1>1 DEF I!Init, IngestTypes
<1>4. \A t \in Handlers : ~Handling(t) /\ ~Filed(t) /\ ~Numbered(t)
  BY <1>2 DEF Handling, Filed, Numbered
<1>5. HandlersPlaced /\ KeysHeld /\ KeysApart /\ TracesKept /\ SequencesKept
  BY <1>2, <1>4
     DEF I!Init, HandlersPlaced, KeysHeld, KeysApart, TracesKept, OneRunEach, SequencesKept,
         I!Members
<1>6. KeysAccounted BY DEF I!Init, KeysAccounted, I!Members
<1>7. QED
  BY <1>3, <1>5, <1>6
     DEF I!Init, IngestInv, I!IngestedOnce, I!TraceIsOneRun, I!SequenceClashOnlyIfTold

\* A thread goes on to its next span, or does not.
LEMMA OnwardMoves ==
  ASSUME IngestTypes, NEW t \in Handlers, handler[t].todo # <<>>, handler' = I!Onward(t)
  PROVE  /\ handler' \in [Handlers -> HandlerPlace]
         /\ handler'[t].pc = "span"
         /\ \A u \in Handlers : u # t => handler'[u] = handler[u]
<1>1. handler[t] \in HandlerPlace BY DEF IngestTypes
<1> DEFINE o == [handler[t] EXCEPT !.pc = "span", !.todo = Tail(@)]
<1>2. o \in HandlerPlace /\ o.pc = "span"
  <2>1. Tail(handler[t].todo) \in Seq(Spans) BY SpanTyped
  <2>2. o \in HandlerPlace BY <1>1, <2>1, Zenon DEF HandlerPlace
  <2>3. o.pc = "span" BY <1>1, Zenon DEF HandlerPlace
  <2>4. QED BY <2>2, <2>3
<1>3. handler' = [handler EXCEPT ![t] = o] BY DEF I!Onward
<1> HIDE DEF o
<1>4. QED BY <1>2, <1>3, HandlerMoves

LEMMA PostStep ==
  ASSUME I!RequestsAssumption, IngestInv, NEW t \in Handlers, NEW q \in Requests, I!Post(t, q)
  PROVE  IngestInv'
<1>1. /\ handler[t].pc = "idle"
      /\ UNCHANGED <<seen, traceRun, minted, counters, ingested, rejected, dismissed, evicted>>
  BY DEF I!Post, I!memoryVars, I!storeVars, I!noteVars
<1>2. /\ handler' \in [Handlers -> HandlerPlace]
      /\ handler'[t].pc \in {"idle", "span"}
      /\ handler'[t].pc = "idle" => handler'[t].todo = <<>>
      /\ \A u \in Handlers : u # t => handler'[u] = handler[u]
  <2>1. q.spans \in Seq(Spans)
    <3>1. q.spans \in Seq(I!Members(q.spans)) BY DEF I!RequestsAssumption, I!Members
    <3>2. I!Members(q.spans) \subseteq Spans BY DEF Spans
    <3>3. QED BY <3>1, <3>2
  <2>2. None \in RunNames /\ <<>> \in Seq(Spans) BY DEF RunNames
  <2>3. PICK o \in HandlerPlace :
          /\ o.pc \in {"idle", "span"}
          /\ o.pc = "idle" => o.todo = <<>>
          /\ handler' = [handler EXCEPT ![t] = o]
    <3>1. I!Idle \in HandlerPlace /\ I!Idle.pc = "idle" /\ I!Idle.todo = <<>>
      BY <2>2, PlaceTyped DEF I!Idle
    <3> DEFINE o == [I!Idle EXCEPT !.pc = "span", !.todo = q.spans]
    <3>2. o \in HandlerPlace /\ o.pc = "span"
      <4>1. o \in HandlerPlace BY <2>1, <3>1, Zenon DEF HandlerPlace
      <4>2. o.pc = "span" BY <3>1, Zenon DEF HandlerPlace
      <4>3. QED BY <4>1, <4>2
    <3>3. CASE I!Status(q) = 200
      <4>1. handler' = [handler EXCEPT ![t] = o] BY <3>3 DEF I!Post
      <4> HIDE DEF o
      <4>2. QED BY <3>2, <4>1
    <3>4. CASE I!Status(q) # 200
      BY <3>1, <3>4 DEF I!Post
    <3>5. QED BY <3>3, <3>4
  <2>4. QED BY <2>3, HandlerMoves DEF IngestInv
<1>3. IngestTypes' BY <1>1, <1>2 DEF IngestInv, IngestTypes
<1>4. HandlersPlaced' BY <1>2 DEF IngestInv, HandlersPlaced, Handling
<1>5. ~Handling(t) /\ ~Handling(t)' BY <1>1, <1>2 DEF Handling
<1>6. QED BY <1>1, <1>2, <1>3, <1>4, <1>5, NobodyBegins

LEMMA SkipStep == ASSUME IngestInv, NEW t \in Handlers, I!Skip(t) PROVE IngestInv'
<1>1. /\ handler[t].pc = "span" /\ handler[t].todo # <<>> /\ handler' = I!Onward(t)
      /\ UNCHANGED <<seen, traceRun, minted, counters, ingested, rejected, dismissed, evicted>>
  BY DEF I!Skip, I!At, I!memoryVars, I!storeVars, I!noteVars
<1>2. /\ handler' \in [Handlers -> HandlerPlace] /\ handler'[t].pc = "span"
      /\ \A u \in Handlers : u # t => handler'[u] = handler[u]
  BY <1>1, OnwardMoves DEF IngestInv
<1>3. IngestTypes' BY <1>1, <1>2 DEF IngestInv, IngestTypes
<1>4. HandlersPlaced' BY <1>2 DEF IngestInv, HandlersPlaced, Handling
<1>5. ~Handling(t) /\ ~Handling(t)' BY <1>1, <1>2 DEF Handling
<1>6. QED BY <1>1, <1>2, <1>3, <1>4, <1>5, NobodyBegins

LEMMA AnswerStep == ASSUME IngestInv, NEW t \in Handlers, I!Answer(t) PROVE IngestInv'
<1>1. /\ handler[t].pc = "span"
      /\ handler' = [handler EXCEPT ![t] = I!Idle]
      /\ UNCHANGED <<seen, traceRun, minted, counters, ingested, rejected, dismissed, evicted>>
  BY DEF I!Answer, I!memoryVars, I!storeVars, I!noteVars
<1>2. /\ handler' \in [Handlers -> HandlerPlace] /\ handler'[t].pc = "idle"
      /\ handler'[t].todo = <<>> /\ \A u \in Handlers : u # t => handler'[u] = handler[u]
  <2>1. None \in RunNames /\ <<>> \in Seq(Spans) BY DEF RunNames
  <2>2. I!Idle \in HandlerPlace /\ I!Idle.pc = "idle" /\ I!Idle.todo = <<>>
    BY <2>1, PlaceTyped DEF I!Idle
  <2>3. QED BY <1>1, <2>2, HandlerMoves DEF IngestInv
<1>3. IngestTypes' BY <1>1, <1>2 DEF IngestInv, IngestTypes
<1>4. HandlersPlaced' BY <1>2 DEF IngestInv, HandlersPlaced, Handling
<1>5. ~Handling(t) /\ ~Handling(t)' BY <1>1, <1>2 DEF Handling
<1>6. QED BY <1>1, <1>2, <1>3, <1>4, <1>5, NobodyBegins

LEMMA StoppingStep ==
  ASSUME IngestInv, I!Stop \/ I!CloseStorage \/ UNCHANGED I!vars PROVE IngestInv'
<1>1. UNCHANGED <<handler, seen, traceRun, minted, counters, ingested, rejected, dismissed,
                  evicted>>
  BY DEF I!Stop, I!CloseStorage, I!memoryVars, I!storeVars, I!noteVars, I!vars
<1>2. IngestTypes' BY <1>1 DEF IngestInv, IngestTypes
<1>3. HandlersPlaced' BY <1>1 DEF IngestInv, HandlersPlaced, Handling
<1>4. QED BY <1>1, <1>2, <1>3, NobodyBegins

\* A thread that goes to place p of the same span, with the run and the sequence it
\* had or another.
Proceeds(t, p, r, q) ==
  /\ handler' \in [Handlers -> HandlerPlace]
  /\ handler'[t].pc = p /\ handler'[t].run = r /\ handler'[t].sequence = q
  /\ handler'[t].todo = handler[t].todo /\ I!Span(t)' = I!Span(t)
  /\ \A u \in Handlers : u # t => handler'[u] = handler[u]

LEMMA PlaceMoves ==
  ASSUME IngestTypes, NEW t \in Handlers,
         NEW p \in {"idle", "span", "resolve", "start", "number", "insert"},
         NEW r \in RunNames, NEW q \in Nat
  PROVE  /\ handler' = [handler EXCEPT ![t].pc = p]
              => Proceeds(t, p, handler[t].run, handler[t].sequence)
         /\ handler' = [handler EXCEPT ![t].pc = p, ![t].run = r]
              => Proceeds(t, p, r, handler[t].sequence)
         /\ handler' = [handler EXCEPT ![t].pc = p, ![t].sequence = q]
              => Proceeds(t, p, handler[t].run, q)
<1>1. handler[t] \in HandlerPlace BY DEF IngestTypes
<1>2. ASSUME handler' = [handler EXCEPT ![t].pc = p]
      PROVE  Proceeds(t, p, handler[t].run, handler[t].sequence)
  <2> DEFINE o == [handler[t] EXCEPT !.pc = p]
  <2>1. o \in HandlerPlace BY <1>1, Zenon DEF HandlerPlace
  <2>2. /\ o.pc = p /\ o.run = handler[t].run /\ o.sequence = handler[t].sequence
        /\ o.todo = handler[t].todo
    BY <1>1 DEF HandlerPlace
  <2>3. handler' = [handler EXCEPT ![t] = o] BY <1>2
  <2> HIDE DEF o
  <2>4. QED BY <2>1, <2>2, <2>3, HandlerMoves DEF Proceeds, I!Span
<1>3. ASSUME handler' = [handler EXCEPT ![t].pc = p, ![t].run = r]
      PROVE  Proceeds(t, p, r, handler[t].sequence)
  <2> DEFINE o == [handler[t] EXCEPT !.pc = p, !.run = r]
  <2>1. o \in HandlerPlace BY <1>1, Zenon DEF HandlerPlace
  <2>2. /\ o.pc = p /\ o.run = r /\ o.sequence = handler[t].sequence
        /\ o.todo = handler[t].todo
    BY <1>1 DEF HandlerPlace
  <2>3. handler' = [handler EXCEPT ![t] = o] BY <1>3
  <2> HIDE DEF o
  <2>4. QED BY <2>1, <2>2, <2>3, HandlerMoves DEF Proceeds, I!Span
<1>4. ASSUME handler' = [handler EXCEPT ![t].pc = p, ![t].sequence = q]
      PROVE  Proceeds(t, p, handler[t].run, q)
  <2> DEFINE o == [handler[t] EXCEPT !.pc = p, !.sequence = q]
  <2>1. o \in HandlerPlace BY <1>1, Zenon DEF HandlerPlace
  <2>2. /\ o.pc = p /\ o.run = handler[t].run /\ o.sequence = q
        /\ o.todo = handler[t].todo
    BY <1>1 DEF HandlerPlace
  <2>3. handler' = [handler EXCEPT ![t] = o] BY <1>4
  <2> HIDE DEF o
  <2>4. QED BY <2>1, <2>2, <2>3, HandlerMoves DEF Proceeds, I!Span
<1>5. QED BY <1>2, <1>3, <1>4

LEMMA SeeOrAddStep ==
  ASSUME I!LimitsAssumption, IngestInv, NEW t \in Handlers, I!SeeOrAdd(t) PROVE IngestInv'
<1> DEFINE s == I!Span(t)
           k == I!Key(s)
<1>1. /\ handler[t].pc = "span" /\ handler[t].todo # <<>>
      /\ UNCHANGED <<traceRun, minted, counters, ingested, rejected>>
      /\ evicted' = evicted \union (I!Members(seen) \ I!Members(seen'))
      /\ IF I!Keyless(s) THEN seen' = seen
         ELSE seen' = I!Bounded(Append(I!Without(seen, k), k), DedupMax)
      /\ \/ /\ ~I!Keyless(s) /\ k \in I!Members(seen)
            /\ handler' = I!Onward(t) /\ dismissed' = dismissed \union {k}
         \/ /\ I!Keyless(s) \/ k \notin I!Members(seen)
            /\ handler' = [handler EXCEPT ![t].pc = "resolve"] /\ UNCHANGED dismissed
  BY DEF I!SeeOrAdd, I!At, I!storeVars
<1>2. s \in Spans /\ k \in Keys BY <1>1, SpanTyped DEF IngestInv, Keys
<1>3. /\ seen' \in Seq(Keys)
      /\ ~I!Keyless(s) => k \in I!Members(seen')
      /\ I!Members(seen') \subseteq I!Members(seen) \union {k}
      /\ I!Keyless(s) => seen' = seen
  BY <1>1, <1>2, PutLast DEF I!LimitsAssumption, IngestInv, IngestTypes
<1>4. /\ handler' \in [Handlers -> HandlerPlace]
      /\ \A u \in Handlers : u # t => handler'[u] = handler[u]
      /\ \/ /\ ~I!Keyless(s) /\ k \in I!Members(seen)
            /\ handler'[t].pc = "span" /\ dismissed' = dismissed \union {k}
         \/ /\ I!Keyless(s) \/ k \notin I!Members(seen)
            /\ handler'[t].pc = "resolve" /\ handler'[t].todo # <<>>
            /\ I!Span(t)' = s /\ UNCHANGED dismissed
  <2>1. ASSUME handler' = I!Onward(t)
        PROVE  /\ handler' \in [Handlers -> HandlerPlace]
               /\ handler'[t].pc = "span"
               /\ \A u \in Handlers : u # t => handler'[u] = handler[u]
    BY <1>1, <2>1, OnwardMoves DEF IngestInv
  <2>2. ASSUME handler' = [handler EXCEPT ![t].pc = "resolve"]
        PROVE  Proceeds(t, "resolve", handler[t].run, handler[t].sequence)
    <3>1. handler[t].run \in RunNames /\ handler[t].sequence \in Nat
      BY DEF IngestInv, IngestTypes, HandlerPlace
    <3>2. QED BY <2>2, <3>1, PlaceMoves DEF IngestInv
  <2>3. CASE /\ ~I!Keyless(s) /\ k \in I!Members(seen)
             /\ handler' = I!Onward(t) /\ dismissed' = dismissed \union {k}
    BY <2>1, <2>3
  <2>4. CASE /\ I!Keyless(s) \/ k \notin I!Members(seen)
             /\ handler' = [handler EXCEPT ![t].pc = "resolve"] /\ UNCHANGED dismissed
    <3>1. Proceeds(t, "resolve", handler[t].run, handler[t].sequence) BY <2>2, <2>4
    <3>2. QED BY <1>1, <2>4, <3>1 DEF Proceeds
  <2>5. QED BY <1>1, <2>3, <2>4
<1> HIDE DEF s, k
<1>5. IngestTypes' BY <1>1, <1>3, <1>4 DEF IngestInv, IngestTypes
<1>6. HandlersPlaced' BY <1>4 DEF IngestInv, HandlersPlaced, Handling
<1>7. /\ ~Handling(t) /\ ~Filed(t)' /\ ~Numbered(t)'
      /\ \A u \in Handlers : u # t =>
           /\ Handling(u)' <=> Handling(u)
           /\ Filed(u)' <=> Filed(u)
           /\ Numbered(u)' <=> Numbered(u)
           /\ handler'[u] = handler[u] /\ I!Span(u)' = I!Span(u)
      /\ Handling(t)' => I!Span(t)' = s /\ (I!Keyless(s) \/ k \notin I!Members(seen))
  BY <1>1, <1>4, SameHandler DEF Handling, Filed, Numbered
<1>8. \A x : Held(x) => Held(x)' BY <1>1 DEF Held
<1>9. KeysHeld'
  BY <1>1, <1>3, <1>7, <1>8 DEF IngestInv, KeysHeld, Held, k
<1>10. KeysApart'
  <2>1. evicted \subseteq evicted' BY <1>1
  <2>2. ASSUME NEW u \in Handlers, u # t, Handling(t)', Handling(u), ~I!Keyless(s),
               I!Key(I!Span(u)) = k
        PROVE  k \in evicted
    <3>1. I!Keyless(I!Span(u)) <=> I!Keyless(s)
      BY <2>2 DEF I!Key, I!Keyless, k
    <3>2. QED BY <1>7, <2>2, <3>1 DEF IngestInv, KeysHeld, Held
  <2>3. ASSUME NEW i \in DOMAIN ingested, Handling(t)', ~I!Keyless(s),
               I!Key(ingested[i].span) = k
        PROVE  k \in evicted
    <3>1. I!Keyless(ingested[i].span) <=> I!Keyless(s)
      BY <2>3 DEF I!Key, I!Keyless, k
    <3>2. QED BY <1>7, <2>3, <3>1 DEF IngestInv, KeysHeld, Held
  <2>4. ASSUME NEW u \in Handlers, NEW v \in Handlers, u # v, Handling(u)', Handling(v)',
               I!Key(I!Span(u))' = I!Key(I!Span(v))'
        PROVE  I!Keyless(I!Span(u))' \/ I!Key(I!Span(u))' \in evicted'
    <3>1. \A x, y : I!Key(x) = I!Key(y) => (I!Keyless(x) <=> I!Keyless(y))
      BY DEF I!Key, I!Keyless
    <3>2. CASE u # t /\ v # t
      <4>1. I!Keyless(I!Span(u)) \/ I!Key(I!Span(u)) \in evicted
        BY <1>7, <2>4, <3>2 DEF IngestInv, KeysApart, I!Key
      <4>2. QED BY <1>7, <2>1, <3>2, <4>1 DEF I!Key, I!Keyless
    <3>3. CASE u = t
      BY <1>7, <2>1, <2>2, <2>4, <3>3 DEF k, I!Key, I!Keyless
    <3>4. CASE v = t
      BY <1>7, <2>1, <2>2, <2>4, <3>1, <3>4 DEF k, I!Key, I!Keyless
    <3>5. QED BY <3>2, <3>3, <3>4
  <2>5. ASSUME NEW u \in Handlers, NEW i \in DOMAIN ingested, Handling(u)',
               I!Key(I!Span(u))' = I!Key(ingested[i].span)
        PROVE  I!Keyless(I!Span(u))' \/ I!Key(I!Span(u))' \in evicted'
    <3>1. CASE u = t
      BY <1>7, <2>1, <2>3, <2>5, <3>1 DEF k, I!Key, I!Keyless
    <3>2. CASE u # t
      BY <1>7, <2>1, <2>5, <3>2 DEF IngestInv, KeysApart, I!Key, I!Keyless
    <3>3. QED BY <3>1, <3>2
  <2>6. QED BY <1>1, <2>4, <2>5 DEF KeysApart
<1>11. KeysAccounted'
  <2> SUFFICES ASSUME NEW x \in I!Members(seen') \union dismissed'
               PROVE  \/ \E i \in DOMAIN ingested : I!Key(ingested[i].span) = x
                      \/ x \in rejected
                      \/ \E u \in Handlers : Handling(u)' /\ I!Key(I!Span(u))' = x
    <3>1. \A x : I!InHand(x)' <=> \E u \in Handlers : Handling(u)' /\ I!Key(I!Span(u))' = x
      <4>1. \A u \in Handlers :
              Handling(u)' <=> handler'[u].todo # <<>> /\ handler'[u].pc # "span"
        BY <1>5, <1>6 DEF IngestTypes, HandlerPlace, HandlersPlaced, Handling
      <4>2. QED BY <4>1 DEF I!InHand, I!Key
    <3>2. QED BY <1>1, <3>1 DEF KeysAccounted
  <2>1. CASE x \in I!Members(seen) \union dismissed
    <3>1. \/ \E i \in DOMAIN ingested : I!Key(ingested[i].span) = x
          \/ x \in rejected
          \/ \E u \in Handlers : Handling(u) /\ I!Key(I!Span(u)) = x
      BY <2>1, InHandMeans DEF IngestInv, KeysAccounted
    <3>2. QED BY <1>7, <3>1 DEF I!Key
  <2>2. CASE x \notin I!Members(seen) \union dismissed
    <3>1. x = k /\ Handling(t)'
      BY <1>3, <1>4, <2>2 DEF Handling
    <3>2. QED BY <1>7, <3>1 DEF k, I!Key
  <2>3. QED BY <2>1, <2>2
<1>12. TracesKept' BY <1>1, <1>7, TracesStay
<1>13. SequencesKept' /\ I!SequenceClashOnlyIfTold' BY <1>1, <1>7, SequencesStay
<1>14. I!IngestedOnce' BY <1>1 DEF IngestInv, I!IngestedOnce
<1>15. QED
  BY <1>5, <1>6, <1>9, <1>10, <1>11, <1>12, <1>13, <1>14, OneRunOfTrace, PTL DEF IngestInv

\* A thread that goes on with its span keeps the types, and its place.
LEMMA ProceedsTyped ==
  ASSUME IngestInv, NEW t \in Handlers, Handling(t), NEW p \in {"start", "number", "insert"},
         NEW r, NEW q, Proceeds(t, p, r, q)
  PROVE  /\ HandlersPlaced'
         /\ \A u \in Handlers :
              /\ Handling(u)' <=> Handling(u)
              /\ I!Span(u)' = I!Span(u)
BY DEF IngestInv, HandlersPlaced, Handling, Proceeds, I!Span

LEMMA StartRowStep == ASSUME IngestInv, NEW t \in Handlers, I!StartRow(t) PROVE IngestInv'
<1>1. /\ handler[t].pc = "start" /\ handler' = [handler EXCEPT ![t].pc = "number"]
      /\ UNCHANGED <<seen, traceRun, minted, counters, ingested, rejected, dismissed, evicted>>
  BY DEF I!StartRow, I!At, I!memoryVars, I!noteVars
<1>2. Proceeds(t, "number", handler[t].run, handler[t].sequence)
  <2>1. handler[t].run \in RunNames /\ handler[t].sequence \in Nat
    BY DEF IngestInv, IngestTypes, HandlerPlace
  <2>2. QED BY <1>1, <2>1, PlaceMoves DEF IngestInv
<1>3. IngestTypes' BY <1>1, <1>2 DEF IngestInv, IngestTypes, Proceeds
<1>4. /\ HandlersPlaced'
      /\ \A u \in Handlers : (Handling(u)' <=> Handling(u)) /\ I!Span(u)' = I!Span(u)
  <2>1. Handling(t) BY <1>1 DEF Handling
  <2>2. QED BY <1>2, <2>1, ProceedsTyped
<1>5. KeysHeld' /\ KeysApart' /\ KeysAccounted' /\ I!IngestedOnce'
  BY <1>1, <1>3, <1>4, KeysStay
<1>6. \A u \in Handlers : Filed(u)' => Filed(u) /\ handler'[u].run = handler[u].run
  BY <1>1, <1>2 DEF Proceeds, Filed
<1>7. TracesKept' BY <1>1, <1>4, <1>6, TracesStay
<1>8. SequencesKept' /\ I!SequenceClashOnlyIfTold'
  <2>1. \A u \in Handlers : Numbered(u)' =>
          /\ Numbered(u) /\ handler'[u].run = handler[u].run
          /\ handler'[u].sequence = handler[u].sequence
    BY <1>2, <1>4 DEF Proceeds, Numbered
  <2>2. QED BY <1>1, <2>1, SequencesStay
<1>9. QED BY <1>3, <1>4, <1>5, <1>7, <1>8, OneRunOfTrace, PTL DEF IngestInv

LEMMA ResolveRunStep ==
  ASSUME I!LimitsAssumption, IngestInv, NEW t \in Handlers, I!ResolveRun(t) PROVE IngestInv'
<1> DEFINE s == I!Span(t)
           known == {p \in I!Members(traceRun) : p[1] = s.trace}
<1>1. /\ handler[t].pc = "resolve" /\ Handling(t) /\ handler[t].sequence \in Nat
      /\ s \in Spans
      /\ UNCHANGED <<seen, counters, ingested, rejected, dismissed>>
      /\ evicted' = evicted \union {p[1] : p \in I!Members(traceRun) \ I!Members(traceRun')}
  <2>1. handler[t].todo # <<>> /\ handler[t].sequence \in Nat /\ handler[t].pc = "resolve"
    BY DEF IngestInv, IngestTypes, HandlerPlace, HandlersPlaced, Handling, I!ResolveRun, I!At
  <2>2. QED BY <2>1, SpanTyped DEF IngestInv, I!ResolveRun, I!storeVars, Handling
<1>2. PICK r \in RunNames, p \in {"start", "number"} :
        /\ Proceeds(t, p, r, handler[t].sequence)
        /\ traceRun' \in Seq(Traces \X RunNames) /\ minted' \in Nat
        /\ \/ I!Explicit(s) # None /\ UNCHANGED traceRun
           \/ /\ <<s.trace, r>> \in I!Members(traceRun')
              /\ I!Members(traceRun') \subseteq I!Members(traceRun) \union {<<s.trace, r>>}
              /\ <<s.trace, r>> \in I!Members(traceRun) \/ known = {}
  <2>1. CASE /\ I!Explicit(s) # None
             /\ handler' = [handler EXCEPT ![t].pc = "number", ![t].run = I!Explicit(s)]
             /\ UNCHANGED <<traceRun, minted>>
    <3>1. I!Explicit(s) \in RunNames BY <1>1 DEF I!Explicit, RunNames
    <3>2. Proceeds(t, "number", I!Explicit(s), handler[t].sequence)
      BY <1>1, <2>1, <3>1, PlaceMoves DEF IngestInv
    <3>3. QED BY <2>1, <3>1, <3>2 DEF IngestInv, IngestTypes
  <2>2. ASSUME NEW pair \in IF known = {} THEN {<<s.trace, I!MadeUp(minted + 1)>>} ELSE known,
               traceRun' = I!Bounded(Append(I!Without(traceRun, pair), pair), TraceMax),
               handler' = [handler EXCEPT ![t].pc = "start", ![t].run = pair[2]],
               minted' = IF known = {} THEN minted + 1 ELSE minted
        PROVE  \E r \in RunNames :
                 /\ Proceeds(t, "start", r, handler[t].sequence)
                 /\ traceRun' \in Seq(Traces \X RunNames) /\ minted' \in Nat
                 /\ <<s.trace, r>> \in I!Members(traceRun')
                 /\ I!Members(traceRun') \subseteq I!Members(traceRun) \union {<<s.trace, r>>}
                 /\ <<s.trace, r>> \in I!Members(traceRun) \/ known = {}
    <3>1. /\ pair \in Traces \X RunNames /\ pair = <<s.trace, pair[2]>>
          /\ pair \in I!Members(traceRun) \/ known = {}
      <4>1. CASE known = {}
        <5>1. I!MadeUp(minted + 1) \in RunNames
          <6>1. minted + 1 \in Nat BY DEF IngestInv, IngestTypes
          <6>2. QED BY <6>1 DEF RunNames
        <5>2. s.trace \in Traces BY <1>1 DEF Traces
        <5>3. pair = <<s.trace, I!MadeUp(minted + 1)>> BY <4>1
        <5>4. QED BY <4>1, <5>1, <5>2, <5>3
      <4>2. CASE known # {}
        <5>1. pair \in I!Members(traceRun) /\ pair[1] = s.trace BY <4>2
        <5>2. pair \in Traces \X RunNames
          BY <5>1 DEF I!Members, IngestInv, IngestTypes
        <5>3. QED BY <5>1, <5>2
      <4>3. QED BY <4>1, <4>2
    <3>2. traceRun \in Seq(Traces \X RunNames) /\ TraceMax \in Nat \ {0}
      BY DEF IngestInv, IngestTypes, I!LimitsAssumption
    <3>3. /\ traceRun' \in Seq(Traces \X RunNames)
          /\ pair \in I!Members(traceRun')
          /\ I!Members(traceRun') \subseteq I!Members(traceRun) \union {pair}
      <4> HIDE DEF known
      <4>1. QED BY <2>2, <3>1, <3>2, PutLast
    <3>4. minted' \in Nat BY <2>2 DEF IngestInv, IngestTypes
    <3>5. pair[2] \in RunNames BY <3>1
    <3>6. Proceeds(t, "start", pair[2], handler[t].sequence)
      BY <1>1, <2>2, <3>5, PlaceMoves DEF IngestInv
    <3>7. QED BY <3>1, <3>3, <3>4, <3>5, <3>6
  <2>3. QED BY <2>1, <2>2 DEF I!ResolveRun
<1> HIDE DEF s
<1>3. IngestTypes' BY <1>1, <1>2 DEF IngestInv, IngestTypes, Proceeds
<1>4. /\ HandlersPlaced'
      /\ \A u \in Handlers : (Handling(u)' <=> Handling(u)) /\ I!Span(u)' = I!Span(u)
  BY <1>1, <1>2, ProceedsTyped
<1>5. KeysHeld' /\ KeysApart' /\ KeysAccounted' /\ I!IngestedOnce'
  BY <1>1, <1>3, <1>4, KeysStay
<1>6. TracesKept'
  <2>1. \A x, q : InItsRun(x, q) => InItsRun(x, q)'
    BY <1>1 DEF InItsRun
  <2>2. I!Explicit(s) = None => <<s.trace, r>> \in I!Members(traceRun')
    BY <1>2
  <2>3. OneRunEach' BY <1>2 DEF IngestInv, TracesKept, OneRunEach
  <2>4. ASSUME NEW u \in Handlers, Filed(u)' PROVE InItsRun(I!Span(u), handler[u].run)'
    <3>1. CASE u = t
      <4>1. I!Span(t)' = s /\ handler'[t].run = r BY <1>2, <1>4 DEF Proceeds, s
      <4>2. QED BY <2>2, <3>1, <4>1 DEF InItsRun
    <3>2. CASE u # t
      <4>1. handler'[u] = handler[u] BY <1>2, <3>2 DEF Proceeds
      <4>2. Filed(u) /\ I!Span(u)' = I!Span(u) BY <2>4, <4>1, SameHandler
      <4>3. InItsRun(I!Span(u), handler[u].run) BY <4>2 DEF IngestInv, TracesKept
      <4>4. QED BY <2>1, <4>1, <4>2, <4>3 DEF InItsRun
    <3>3. QED BY <3>1, <3>2
  <2>5. \A i \in DOMAIN ingested' : InItsRun(ingested[i].span, ingested[i].run)'
    BY <1>1, <2>1 DEF IngestInv, TracesKept, InItsRun
  <2>6. QED BY <2>3, <2>4, <2>5 DEF TracesKept
<1>7. SequencesKept' /\ I!SequenceClashOnlyIfTold'
  <2>1. \A u \in Handlers : Numbered(u)' =>
          /\ Numbered(u) /\ handler'[u].run = handler[u].run
          /\ handler'[u].sequence = handler[u].sequence
    BY <1>2, <1>4 DEF Proceeds, Numbered
  <2>2. QED BY <1>1, <2>1, SequencesStay
<1>8. QED BY <1>3, <1>4, <1>5, <1>6, <1>7, OneRunOfTrace, PTL DEF IngestInv

\* Of one run, what is numbered now is numbered past all that was.
LEMMA NumbersGrow ==
  ASSUME IngestInv, NEW t \in Handlers, NEW r, NEW q \in Nat,
         handler'[t].run = r, handler'[t].sequence = q,
         \A u \in Handlers : u # t => handler'[u] = handler[u],
         UNCHANGED ingested,
         \A x : I!Count(x) \in Nat /\ I!Count(x)' \in Nat /\ I!Count(x) <= I!Count(x)',
         Numbered(t)' => q = I!Count(r) + 1 /\ I!Count(r)' = q
  PROVE  SequencesKept'
<1>1. \A u \in Handlers : u # t =>
        /\ handler'[u] = handler[u] /\ (Numbered(u)' <=> Numbered(u))
        /\ handler[u].sequence \in Nat
        /\ Numbered(u) => handler[u].sequence <= I!Count(handler[u].run)
  BY SameHandler DEF IngestInv, IngestTypes, HandlerPlace, SequencesKept
<1>2. \A i \in DOMAIN ingested :
        /\ ingested[i].sequence \in Nat
        /\ ingested[i].span.hint = None => ingested[i].sequence <= I!Count(ingested[i].run)
  <2>1. \A i \in DOMAIN ingested : ingested[i] \in IngestRow
    BY DEF IngestInv, IngestTypes
  <2>2. \A i \in DOMAIN ingested : ingested[i].sequence \in Nat BY <2>1, Zenon DEF IngestRow
  <2>3. QED BY <2>2 DEF IngestInv, SequencesKept
<1>3. ASSUME NEW u \in Handlers, Numbered(u)'
      PROVE  handler'[u].sequence <= I!Count(handler[u].run)'
  <2>1. CASE u = t
    <3>1. q <= I!Count(r)' BY <1>3, <2>1
    <3>2. QED BY <2>1, <3>1 DEF I!Count
  <2>2. CASE u # t
    <3>1. PICK x : x = handler[u].run OBVIOUS
    <3>2. handler'[u].run = x /\ handler'[u].sequence = handler[u].sequence BY <1>1, <2>2, <3>1
    <3>3. handler[u].sequence <= I!Count(x) BY <1>1, <1>3, <2>2, <3>1 DEF I!Count
    <3>4. handler[u].sequence <= I!Count(x)'
      <4>1. /\ handler[u].sequence \in Nat /\ I!Count(x) \in Nat /\ I!Count(x)' \in Nat
            /\ I!Count(x) <= I!Count(x)'
        BY <1>1, <2>2
      <4>2. QED BY <3>3, <4>1
    <3>5. QED BY <3>2, <3>4 DEF I!Count
  <2>3. QED BY <2>1, <2>2
<1>4. ASSUME NEW i \in DOMAIN ingested, ingested[i].span.hint = None
      PROVE  ingested[i].sequence <= I!Count(ingested[i].run)'
  <2>1. PICK x : x = ingested[i].run OBVIOUS
  <2>2. ingested[i].sequence <= I!Count(x)
    BY <1>2, <1>4, <2>1 DEF I!Count
  <2>3. ingested[i].sequence <= I!Count(x)'
    <3>1. /\ ingested[i].sequence \in Nat /\ I!Count(x) \in Nat /\ I!Count(x)' \in Nat
          /\ I!Count(x) <= I!Count(x)'
      BY <1>2
    <3>2. QED BY <2>2, <3>1
  <2>4. QED BY <2>1, <2>3 DEF I!Count
<1>5. ASSUME NEW u \in Handlers, u # t, Numbered(t)', Numbered(u), handler[u].run = r
      PROVE  handler[u].sequence < q
  <2>1. handler[u].sequence <= I!Count(r) BY <1>1, <1>5 DEF I!Count
  <2>2. handler[u].sequence \in Nat /\ I!Count(r) \in Nat /\ q = I!Count(r) + 1
    BY <1>1, <1>5
  <2>3. QED BY <2>1, <2>2
<1>6. ASSUME NEW i \in DOMAIN ingested, Numbered(t)', ingested[i].span.hint = None,
             ingested[i].run = r
      PROVE  ingested[i].sequence < q
  <2>1. ingested[i].sequence <= I!Count(r) BY <1>2, <1>6 DEF I!Count
  <2>2. ingested[i].sequence \in Nat /\ I!Count(r) \in Nat /\ q = I!Count(r) + 1
    BY <1>2, <1>6
  <2>3. QED BY <2>1, <2>2
<1>7. ASSUME NEW u \in Handlers, NEW v \in Handlers, u # v, Numbered(u)', Numbered(v)',
             handler'[u].run = handler'[v].run
      PROVE  handler'[u].sequence # handler'[v].sequence
  <2>1. CASE u = t BY <1>1, <1>5, <1>7, <2>1
  <2>2. CASE v = t BY <1>1, <1>5, <1>7, <2>2
  <2>3. CASE u # t /\ v # t
    BY <1>1, <1>7, <2>3 DEF IngestInv, SequencesKept
  <2>4. QED BY <2>1, <2>2, <2>3
<1>8. ASSUME NEW u \in Handlers, NEW i \in DOMAIN ingested, Numbered(u)',
             ingested[i].span.hint = None, handler'[u].run = ingested[i].run
      PROVE  handler'[u].sequence # ingested[i].sequence
  <2>1. CASE u = t BY <1>2, <1>6, <1>8, <2>1
  <2>2. CASE u # t BY <1>1, <1>8, <2>2 DEF IngestInv, SequencesKept
  <2>3. QED BY <2>1, <2>2
<1>9. QED BY <1>3, <1>4, <1>7, <1>8 DEF SequencesKept, I!Count

LEMMA NumberStep == ASSUME I!RequestsAssumption, IngestInv, NEW t \in Handlers, I!Number(t)
                    PROVE  IngestInv'
<1>1. PICK s, r : s = I!Span(t) /\ r = handler[t].run OBVIOUS
<1>2. /\ handler[t].pc = "number" /\ Handling(t) /\ r \in RunNames
      /\ UNCHANGED <<seen, traceRun, minted, ingested, rejected, dismissed, evicted>>
      /\ I!Count(r) \in Nat /\ s.hint \in Nat \union {None}
  <2>1. handler[t].todo # <<>> /\ r \in RunNames /\ handler[t].pc = "number"
    BY <1>1
       DEF IngestInv, IngestTypes, HandlerPlace, HandlersPlaced, Handling, I!Number, I!At
  <2>2. s \in Spans BY <1>1, <2>1, SpanTyped DEF IngestInv
  <2>3. PICK p \in Requests : s \in I!Members(p.spans) BY <2>2 DEF Spans
  <2>4. s.hint \in Nat \union {None} BY <2>3 DEF I!Members, I!RequestsAssumption
  <2>5. I!Count(r) \in Nat BY DEF I!Count, IngestInv, IngestTypes
  <2>6. QED BY <2>1, <2>4, <2>5 DEF I!Number, I!storeVars, I!noteVars, Handling
<1>3. PICK next \in Nat : next = I!Count(r) + 1 BY <1>2
<1>4. PICK q \in Nat :
        /\ Proceeds(t, "insert", r, q)
        /\ \/ s.hint # None /\ UNCHANGED counters
           \/ /\ s.hint = None /\ q = next
              /\ counters' = [x \in DOMAIN counters \union {r} |->
                                IF x = r THEN next ELSE counters[x]]
  <2>1. CASE s.hint # None
    <3>1. handler' = [handler EXCEPT ![t].pc = "insert", ![t].sequence = s.hint]
          /\ UNCHANGED counters
      BY <1>1, <2>1 DEF I!Number
    <3>2. s.hint \in Nat BY <1>2, <2>1
    <3>3. Proceeds(t, "insert", r, s.hint)
      BY <1>1, <1>2, <3>1, <3>2, PlaceMoves DEF IngestInv
    <3>4. QED BY <2>1, <3>1, <3>2, <3>3
  <2>2. CASE s.hint = None
    <3>1. /\ handler' = [handler EXCEPT ![t].pc = "insert", ![t].sequence = next]
          /\ counters' = [x \in DOMAIN counters \union {r} |->
                            IF x = r THEN next ELSE counters[x]]
      BY <1>1, <1>3, <2>2 DEF I!Number, I!Count
    <3>2. Proceeds(t, "insert", r, next)
      BY <1>1, <1>2, <3>1, PlaceMoves DEF IngestInv
    <3>3. QED BY <2>2, <3>1, <3>2
  <2>3. QED BY <2>1, <2>2
<1>5. /\ \A x : I!Count(x) \in Nat /\ I!Count(x)' \in Nat /\ I!Count(x) <= I!Count(x)'
      /\ s.hint = None => q = I!Count(r) + 1 /\ I!Count(r)' = q
  <2>1. \A x : I!Count(x) \in Nat BY DEF I!Count, IngestInv, IngestTypes
  <2>2. CASE s.hint # None
    <3>1. \A x : I!Count(x)' = I!Count(x) BY <1>4, <2>2 DEF I!Count
    <3>2. QED BY <2>1, <2>2, <3>1
  <2>3. CASE s.hint = None
    <3>1. /\ q = next
          /\ counters' = [x \in DOMAIN counters \union {r} |->
                            IF x = r THEN next ELSE counters[x]]
      BY <1>4, <2>3
    <3>2. /\ DOMAIN counters' = DOMAIN counters \union {r} /\ counters'[r] = next
          /\ \A x \in DOMAIN counters : x # r => counters'[x] = counters[x]
      BY <3>1
    <3>3. \A x : x # r => I!Count(x)' = I!Count(x) BY <3>2 DEF I!Count
    <3>4. I!Count(r)' = next BY <3>2 DEF I!Count
    <3>5. QED
      <4> HIDE DEF I!Count
      <4>1. ASSUME NEW x
            PROVE I!Count(x) \in Nat /\ I!Count(x)' \in Nat /\ I!Count(x) <= I!Count(x)'
        <5>1. CASE x = r
          <6>1. I!Count(x) \in Nat /\ I!Count(x)' = next /\ I!Count(x) + 1 = next
            BY <1>3, <2>1, <3>4, <5>1 DEF I!Count
          <6>2. QED BY <6>1
        <5>2. CASE x # r
          <6>1. I!Count(x) \in Nat /\ I!Count(x)' = I!Count(x) BY <2>1, <3>3, <5>2
          <6>2. QED BY <6>1
        <5>3. QED BY <5>1, <5>2
      <4>2. QED BY <1>3, <3>1, <3>4, <4>1
  <2>4. QED BY <2>2, <2>3
<1>6. IngestTypes'
  <2>1. \A x \in DOMAIN counters' : counters'[x] \in Nat
    <3>1. CASE UNCHANGED counters BY <3>1 DEF IngestInv, IngestTypes
    <3>2. CASE counters' = [x \in DOMAIN counters \union {r} |->
                              IF x = r THEN next ELSE counters[x]]
      BY <3>2 DEF IngestInv, IngestTypes
    <3>3. QED BY <1>4, <3>1, <3>2
  <2>2. QED BY <1>2, <1>4, <2>1 DEF IngestInv, IngestTypes, Proceeds
<1>7. /\ HandlersPlaced'
      /\ \A u \in Handlers : (Handling(u)' <=> Handling(u)) /\ I!Span(u)' = I!Span(u)
  BY <1>2, <1>4, ProceedsTyped
<1>8. KeysHeld' /\ KeysApart' /\ KeysAccounted' /\ I!IngestedOnce'
  BY <1>2, <1>6, <1>7, KeysStay
<1>9. TracesKept'
  <2>1. \A u \in Handlers : Filed(u)' =>
          Filed(u) /\ I!Span(u)' = I!Span(u) /\ handler'[u].run = handler[u].run
    BY <1>1, <1>2, <1>4, <1>7 DEF Filed, Proceeds
  <2>2. QED BY <1>2, <2>1, TracesStay
<1>10. SequencesKept'
  <2>1. /\ handler'[t].run = r /\ handler'[t].sequence = q
        /\ \A u \in Handlers : u # t => handler'[u] = handler[u]
        /\ Numbered(t)' => s.hint = None
    BY <1>1, <1>4 DEF Proceeds, Numbered
  <2>2. QED BY <1>2, <1>5, <2>1, NumbersGrow
<1>11. I!SequenceClashOnlyIfTold' BY <1>2 DEF IngestInv, I!SequenceClashOnlyIfTold
<1>12. QED
  BY <1>6, <1>7, <1>8, <1>9, <1>10, <1>11, OneRunOfTrace, PTL DEF IngestInv

LEMMA InsertStep == ASSUME IngestInv, NEW t \in Handlers, I!Insert(t) PROVE IngestInv'
<1>1. PICK s, r, q :
        s = I!Span(t) /\ r = handler[t].run /\ q = handler[t].sequence
  OBVIOUS
<1> DEFINE row == [span |-> s, run |-> r, sequence |-> q]
<1>2. /\ handler[t].pc = "insert" /\ handler[t].todo # <<>>
      /\ Handling(t) /\ Filed(t) /\ (Numbered(t) <=> s.hint = None)
      /\ s \in Spans /\ r \in RunNames /\ q \in Nat
      /\ UNCHANGED <<seen, traceRun, minted, counters, dismissed, evicted>>
  <2>1. /\ handler[t].todo # <<>> /\ handler[t].pc = "insert"
        /\ handler[t].run \in RunNames /\ handler[t].sequence \in Nat
    BY DEF IngestInv, IngestTypes, HandlerPlace, HandlersPlaced, Handling, I!Insert, I!At
  <2>2. s \in Spans BY <1>1, <2>1, SpanTyped DEF IngestInv
  <2>3. QED
    BY <1>1, <2>1, <2>2 DEF I!Insert, I!memoryVars, Handling, Filed, Numbered
<1>3. /\ handler' \in [Handlers -> HandlerPlace] /\ handler'[t].pc = "span"
      /\ \A u \in Handlers : u # t => handler'[u] = handler[u]
  BY <1>2, OnwardMoves DEF IngestInv, I!Insert
<1>4. /\ ~Handling(t)' /\ ~Filed(t)' /\ ~Numbered(t)'
      /\ \A u \in Handlers : u # t =>
           /\ handler'[u] = handler[u] /\ I!Span(u)' = I!Span(u)
           /\ Handling(u)' <=> Handling(u)
           /\ Filed(u)' <=> Filed(u)
           /\ Numbered(u)' <=> Numbered(u)
  BY <1>3, SameHandler DEF Handling, Filed, Numbered
<1>5. /\ ingested' \in Seq(IngestRow)
      /\ \A i \in DOMAIN ingested : i \in DOMAIN ingested' /\ ingested'[i] = ingested[i]
      /\ \A i \in DOMAIN ingested' :
           \/ i \in DOMAIN ingested /\ ingested'[i] = ingested[i]
           \/ i = Len(ingested) + 1 /\ ingested'[i] = row
      /\ \/ rejected' = rejected /\ \E i \in DOMAIN ingested' : ingested'[i] = row
         \/ rejected' = rejected \union {I!Key(s)}
  <2>1. row \in IngestRow BY <1>2, Zenon DEF IngestRow
  <2>2. ingested \in Seq(IngestRow) BY DEF IngestInv, IngestTypes
  <2>3. CASE ingested' = Append(ingested, row) /\ UNCHANGED rejected
    <3> HIDE DEF row
    <3>1. /\ ingested' \in Seq(IngestRow) /\ Len(ingested') = Len(ingested) + 1
          /\ ingested'[Len(ingested) + 1] = row
          /\ \A i \in 1..Len(ingested) : ingested'[i] = ingested[i]
      BY <2>1, <2>2, <2>3
    <3>2. /\ DOMAIN ingested = 1..Len(ingested) /\ DOMAIN ingested' = 1..(Len(ingested) + 1)
          /\ Len(ingested) \in Nat
      BY <2>2, <3>1
    <3>3. QED BY <2>3, <3>1, <3>2
  <2>4. CASE ingested' = ingested /\ rejected' = rejected \union {I!Key(s)}
    BY <2>2, <2>4
  <2>5. QED BY <1>1, <2>3, <2>4 DEF I!Insert, I!Key
<1>6. row.span = s /\ row.run = r /\ row.sequence = q OBVIOUS
<1> HIDE DEF row
<1>7. IngestTypes' BY <1>2, <1>3, <1>5 DEF IngestInv, IngestTypes
<1>8. HandlersPlaced' BY <1>3 DEF IngestInv, HandlersPlaced, Handling
<1>9. KeysHeld'
  <2>1. \A k : Held(k)' <=> Held(k) BY <1>2 DEF Held
  <2>2. I!Keyless(s) \/ Held(I!Key(s)) BY <1>1, <1>2 DEF IngestInv, KeysHeld
  <2>3. QED BY <1>4, <1>5, <1>6, <2>1, <2>2 DEF IngestInv, KeysHeld, I!Key, Held
<1>10. KeysApart'
  <2>1. ASSUME NEW u \in Handlers, u # t, Handling(u), I!Key(I!Span(u)) = I!Key(s)
        PROVE  I!Keyless(I!Span(u)) \/ I!Key(I!Span(u)) \in evicted
    BY <1>1, <1>2, <2>1 DEF IngestInv, KeysApart
  <2>2. ASSUME NEW u \in Handlers, NEW i \in DOMAIN ingested', Handling(u)',
               I!Key(I!Span(u)') = I!Key(ingested'[i].span)
        PROVE  I!Keyless(I!Span(u)') \/ I!Key(I!Span(u)') \in evicted'
    <3>1. u # t /\ I!Span(u)' = I!Span(u) /\ Handling(u) BY <1>4, <2>2
    <3>2. CASE i \in DOMAIN ingested /\ ingested'[i] = ingested[i]
      BY <1>2, <2>2, <3>1, <3>2 DEF IngestInv, KeysApart
    <3>3. CASE ingested'[i] = row
      BY <1>2, <1>6, <2>1, <2>2, <3>1, <3>3
    <3>4. QED BY <1>5, <3>2, <3>3
  <2>3. ASSUME NEW u \in Handlers, NEW v \in Handlers, u # v, Handling(u)', Handling(v)',
               I!Key(I!Span(u)') = I!Key(I!Span(v)')
        PROVE  I!Keyless(I!Span(u)') \/ I!Key(I!Span(u)') \in evicted'
    BY <1>2, <1>4, <2>3 DEF IngestInv, KeysApart
  <2>4. QED BY <2>2, <2>3 DEF KeysApart, I!Key, I!Keyless
<1>11. KeysAccounted'
  <2>1. \A x : I!InHand(x)' <=> \E u \in Handlers : Handling(u)' /\ I!Key(I!Span(u))' = x
    <3>1. \A u \in Handlers :
            Handling(u)' <=> handler'[u].todo # <<>> /\ handler'[u].pc # "span"
      BY <1>7, <1>8 DEF IngestTypes, HandlerPlace, HandlersPlaced, Handling
    <3>2. QED BY <3>1 DEF I!InHand, I!Key
  <2> SUFFICES ASSUME NEW x \in I!Members(seen) \union dismissed
               PROVE  \/ \E i \in DOMAIN ingested' : I!Key(ingested'[i].span) = x
                      \/ x \in rejected'
                      \/ \E u \in Handlers : Handling(u)' /\ I!Key(I!Span(u))' = x
    BY <1>2, <2>1 DEF KeysAccounted, I!Key
  <2>2. CASE \E i \in DOMAIN ingested : I!Key(ingested[i].span) = x
    BY <1>5, <2>2
  <2>3. CASE x \in rejected BY <1>5, <2>3
  <2>4. CASE \E u \in Handlers : Handling(u) /\ I!Key(I!Span(u)) = x
    <3>1. PICK u \in Handlers : Handling(u) /\ I!Key(I!Span(u)) = x BY <2>4
    <3>2. CASE u = t BY <1>1, <1>5, <1>6, <3>1, <3>2
    <3>3. CASE u # t BY <1>4, <3>1, <3>3 DEF I!Key
    <3>4. QED BY <3>2, <3>3
  <2>5. QED BY <2>2, <2>3, <2>4, InHandMeans DEF IngestInv, KeysAccounted
<1>12. I!IngestedOnce'
  <2> SUFFICES ASSUME NEW i \in DOMAIN ingested', NEW j \in DOMAIN ingested', i # j,
                      I!Key(ingested'[i].span) = I!Key(ingested'[j].span)
               PROVE  I!Keyless(ingested'[i].span) \/ I!Key(ingested'[i].span) \in evicted
    BY <1>2 DEF I!IngestedOnce, I!Key, I!Keyless
  <2>1. ASSUME NEW k \in DOMAIN ingested, I!Key(ingested[k].span) = I!Key(s)
        PROVE  I!Keyless(s) \/ I!Key(s) \in evicted
    BY <1>1, <1>2, <2>1 DEF IngestInv, KeysApart
  <2>2. \A x, y : I!Key(x) = I!Key(y) => (I!Keyless(x) <=> I!Keyless(y))
    BY DEF I!Key, I!Keyless
  <2>3. CASE i \in DOMAIN ingested /\ j \in DOMAIN ingested
    BY <1>5, <2>3 DEF IngestInv, I!IngestedOnce
  <2>4. CASE i \notin DOMAIN ingested
    <3>1. ingested'[i] = row /\ j \in DOMAIN ingested /\ ingested'[j] = ingested[j]
      BY <1>5, <2>4
    <3>2. QED BY <1>6, <2>1, <3>1
  <2>5. CASE j \notin DOMAIN ingested
    <3>1. ingested'[j] = row /\ i \in DOMAIN ingested /\ ingested'[i] = ingested[i]
      BY <1>5, <2>5
    <3>2. QED BY <1>6, <2>1, <2>2, <3>1
  <2>6. QED BY <2>3, <2>4, <2>5
<1>13. TracesKept'
  <2>1. \A x, p : InItsRun(x, p) <=> InItsRun(x, p)' BY <1>2 DEF InItsRun
  <2>2. InItsRun(s, r) BY <1>1, <1>2 DEF IngestInv, TracesKept
  <2>3. \A i \in DOMAIN ingested' : InItsRun(ingested'[i].span, ingested'[i].run)
    BY <1>5, <1>6, <2>2 DEF IngestInv, TracesKept
  <2>4. \A u \in Handlers : Filed(u)' => InItsRun(I!Span(u)', handler'[u].run)
    BY <1>4 DEF IngestInv, TracesKept
  <2>5. QED BY <1>2, <2>3, <2>4 DEF IngestInv, TracesKept, OneRunEach, InItsRun
<1>14. SequencesKept' /\ I!SequenceClashOnlyIfTold'
  <2>1. \A x : I!Count(x)' = I!Count(x) BY <1>2 DEF I!Count
  <2>2. /\ s.hint = None => q <= I!Count(r)
        /\ \A u \in Handlers : u # t /\ s.hint = None /\ Numbered(u) /\ handler[u].run = r =>
             handler[u].sequence # q
        /\ \A i \in DOMAIN ingested :
             s.hint = None /\ ingested[i].span.hint = None /\ ingested[i].run = r =>
               ingested[i].sequence # q
    BY <1>1, <1>2 DEF IngestInv, SequencesKept, I!Count
  <2>3. \A i \in DOMAIN ingested' : ingested'[i].span.hint = None =>
          ingested'[i].sequence <= I!Count(ingested'[i].run)
    BY <1>5, <1>6, <2>2 DEF IngestInv, SequencesKept, I!Count
  <2>4. \A u \in Handlers : \A i \in DOMAIN ingested' :
          Numbered(u)' /\ ingested'[i].span.hint = None /\ handler'[u].run = ingested'[i].run =>
            handler'[u].sequence # ingested'[i].sequence
    BY <1>4, <1>5, <1>6, <2>2 DEF IngestInv, SequencesKept
  <2>5. SequencesKept'
    BY <1>2, <1>4, <2>1, <2>3, <2>4 DEF IngestInv, SequencesKept, I!Count
  <2>6. ASSUME NEW i \in DOMAIN ingested', NEW j \in DOMAIN ingested', i # j,
               ingested'[i].run = ingested'[j].run,
               ingested'[i].sequence = ingested'[j].sequence
        PROVE  ingested'[i].span.hint # None \/ ingested'[j].span.hint # None
    <3>1. CASE i \in DOMAIN ingested /\ j \in DOMAIN ingested
      BY <1>5, <2>6, <3>1 DEF IngestInv, I!SequenceClashOnlyIfTold
    <3>2. CASE i \notin DOMAIN ingested
      BY <1>5, <1>6, <2>2, <2>6, <3>2
    <3>3. CASE j \notin DOMAIN ingested
      BY <1>5, <1>6, <2>2, <2>6, <3>3
    <3>4. QED BY <3>1, <3>2, <3>3
  <2>7. QED BY <2>5, <2>6 DEF I!SequenceClashOnlyIfTold
<1>15. QED
  BY <1>7, <1>8, <1>9, <1>10, <1>11, <1>12, <1>13, <1>14, OneRunOfTrace, PTL DEF IngestInv

LEMMA IngestInductive ==
  ASSUME I!RequestsAssumption, I!LimitsAssumption, IngestInv, [I!Next]_I!vars PROVE IngestInv'
<1>1. CASE I!Stop \/ I!CloseStorage \/ UNCHANGED I!vars BY <1>1, StoppingStep
<1>2. ASSUME NEW t \in Handlers, NEW q \in Requests, I!Post(t, q) PROVE IngestInv'
  BY <1>2, PostStep
<1>3. ASSUME NEW t \in Handlers,
             I!Skip(t) \/ I!SeeOrAdd(t) \/ I!ResolveRun(t) \/ I!StartRow(t)
               \/ I!Number(t) \/ I!Insert(t) \/ I!Answer(t)
      PROVE  IngestInv'
  BY <1>3, SkipStep, SeeOrAddStep, ResolveRunStep, StartRowStep, NumberStep, InsertStep,
     AnswerStep
<1>4. QED BY <1>1, <1>2, <1>3 DEF I!Next

\* However collectors retry, and however the threads of the receiver interleave, a
\* span is an event once while its key is remembered, nothing is given up for a
\* duplicate that no event or failed insert tells of, the spans of a remembered trace
\* are in one run, and no two numbers the receiver gave are the same
\* (otel/ingest.py:147-182, 344-368, 586-634).
THEOREM SpanAlwaysOneEvent == ClientsSpec => []SpanIsOneEvent
<1>1. ClientsInit => IngestInv BY IngestInitial DEF ClientsInit
<1>2. [ClientsNext]_clientVars => [I!Next]_I!vars
  BY DEF ClientsNext, OfProjection, OfIngest, OfMigrate, OfCommands, OfSchema,
         clientVars, ingestState, I!vars, I!serverVars, I!memoryVars, I!storeVars, I!noteVars
<1>3. IngestInv /\ [I!Next]_I!vars => IngestInv'
  BY IngestInductive, IngestAssumption
<1>4. IngestInv => SpanIsOneEvent
  BY DEF IngestInv, KeysAccounted, SpanIsOneEvent, I!DismissedOnlyIfRecorded
<1>5. QED BY <1>1, <1>2, <1>3, <1>4, PTL DEF ClientsSpec

-----------------------------------------------------------------------------
\* The cutover (Migrate).

MigratorPlace ==
  [pc : {"idle", "schema", "runs", "commit", "events", "contents", "verify", "rename"},
   after : Nat, found : SUBSET RunIds, foundEnded : SUBSET RunIds,
   counts : [M!Tables -> Nat]]

MigrateTypes ==
  /\ source \in [M!Tables -> SUBSET Nat] /\ target \in [M!Tables -> SUBSET Nat]
  /\ aside \in [M!Tables -> SUBSET Nat]
  /\ \A t \in M!Tables : source[t] \subseteq M!Ids[t]
  /\ migrator \in MigratorPlace
  /\ \E n \in Nat : \A t \in M!Tables : source[t] \union target[t] \subseteq 0..n

\* A row has one place at a time: before the cutover, or aside; and what is noted of
\* a row is of one that was written.
RowsApart ==
  /\ \A t \in M!Tables : source[t] \intersect aside[t] = {}
  /\ \A t \in M!Tables : \A i \in Nat : <<t, i>> \in risky => i \in source[t] \union aside[t]
  /\ source["contents"] \subseteq source["events"]
  /\ aside["contents"] \subseteq aside["events"]
  /\ ended \subseteq source["runs"] /\ asideEnded \subseteq aside["runs"]
  /\ targetEnded \subseteq target["runs"]

\* The rows of table t that were written in time, and were not copied.
Owed(t) == {i \in source[t] : <<t, i>> \notin risky /\ i \notin target[t]}

\* They are above whatever the target has, so that an attempt that resumes finds
\* them; and where the attempt is, it has yet to come to them.
OwedAreAbove == \A t \in M!Tables : \A i \in Owed(t) : \A j \in target[t] : j < i
OwedAreAhead ==
  /\ M!At("runs") => \A i \in Owed("runs") : i > migrator.after
  /\ M!At("commit") => Owed("runs") \subseteq migrator.found
  /\ migrator.pc \in {"events", "contents", "verify", "rename"} => Owed("runs") = {}
  /\ M!At("events") => \A i \in Owed("events") : i > migrator.after
  /\ migrator.pc \in {"contents", "verify", "rename"} => Owed("events") = {}
  /\ M!At("contents") => \A i \in Owed("contents") : i > migrator.after
  /\ migrator.pc \in {"verify", "rename"} => Owed("contents") = {}

\* The target says of a run what the source does, and what was found still holds.
Told(r, e, f) == (r \in e) = (r \in f) \/ r \in stale \/ <<"runs", r>> \in risky
EndsTold ==
  /\ \A r \in source["runs"] \intersect target["runs"] : Told(r, ended, targetEnded)
  /\ M!At("commit") =>
       /\ migrator.found \subseteq source["runs"]
       /\ \A r \in migrator.found : Told(r, ended, migrator.foundEnded)

MigrateInv ==
  /\ MigrateTypes /\ RowsApart
  /\ OwedAreAbove /\ OwedAreAhead /\ EndsTold
  /\ M!MovedAsideOnlyIfCopied /\ M!RowsUpToDate /\ M!TargetConsistent

-----------------------------------------------------------------------------
LEMMA MaxIdIs ==
  ASSUME NEW n \in Nat, NEW s \in SUBSET (0..n)
  PROVE  /\ M!MaxId(s) \in Nat /\ \A j \in s : j <= M!MaxId(s)
         /\ s # {} => M!MaxId(s) \in s
<1>0. s \subseteq Nat /\ \A j \in s : j <= n OBVIOUS
<1>1. CASE s = {} BY <1>1 DEF M!MaxId
<1>2. CASE s # {}
  <2> DEFINE Bounds == {b \in Nat : \A j \in s : j <= b}
  <2>1. n \in Bounds BY <1>0
  <2>2. PICK b \in Bounds : \A c \in Bounds : <<c, b>> \notin OpToRel(<, Nat)
    BY <2>1, NatLessThanWellFounded, WFMin
  <2>3. b \in s
    <3> SUFFICES ASSUME b \notin s PROVE FALSE OBVIOUS
    <3>1. PICK j \in s : j \in Nat /\ j <= b BY <1>0, <1>2
    <3>2. b - 1 \in Nat /\ \A i \in s : i <= b - 1
      <4>1. \A i \in s : i \in Nat /\ i <= b /\ i # b BY <1>0
      <4>2. b \in Nat /\ b >= 1 BY <3>1, <4>1
      <4>3. QED BY <4>1, <4>2
    <3>3. b - 1 \in Bounds /\ <<b - 1, b>> \in OpToRel(<, Nat)
      BY <3>2 DEF OpToRel
    <3>4. QED BY <2>2, <3>3
  <2>4. \A j \in s : j <= b OBVIOUS
  <2> HIDE DEF Bounds
  <2>5. \E i \in s : \A j \in s : j <= i BY <2>3, <2>4
  <2>6. M!MaxId(s) \in s /\ \A j \in s : j <= M!MaxId(s)
    BY <1>2, <2>5 DEF M!MaxId
  <2>7. QED BY <1>0, <2>6
<1>3. QED BY <1>1, <1>2

LEMMA SameCardinality == ASSUME NEW S PROVE M!Cardinality(S) = Cardinality(S)
BY DEF M!Cardinality, Cardinality

\* A batch is the first rows of the table past where it starts.
LEMMA BatchIs ==
  ASSUME M!HabitsAssumption, MigrateTypes, NEW t \in M!Tables, NEW after \in Nat
  PROVE  /\ M!Batch(t, after) \subseteq source[t]
         /\ \A i \in M!Batch(t, after) : after < i
         /\ \A i \in source[t] : after < i =>
              \/ i \in M!Batch(t, after)
              \/ M!Batch(t, after) # {} /\ \A j \in M!Batch(t, after) : j < i
<1>1. PICK n \in Nat : source[t] \subseteq 0..n BY DEF MigrateTypes
<1>2. \A i \in source[t] : i \in Nat BY <1>1
<1>3. \A i \in source[t] : /\ IsFiniteSet(M!Between(t, after, i))
                          /\ Cardinality(M!Between(t, after, i)) \in Nat
  <2> SUFFICES ASSUME NEW i \in source[t]
               PROVE  /\ IsFiniteSet(M!Between(t, after, i))
                      /\ Cardinality(M!Between(t, after, i)) \in Nat
    OBVIOUS
  <2>1. M!Between(t, after, i) \in SUBSET (0..n) BY <1>1 DEF M!Between
  <2>2. IsFiniteSet(0..n) BY FS_Interval
  <2>3. IsFiniteSet(M!Between(t, after, i)) BY <2>1, <2>2, FS_Subset
  <2>4. Cardinality(M!Between(t, after, i)) \in Nat BY <2>3, FS_CardinalityType
  <2>5. QED BY <2>3, <2>4
<1>4. \A i : i \in M!Batch(t, after) <=>
        i \in source[t] /\ after < i /\ Cardinality(M!Between(t, after, i)) <= EventsBatch
  BY SameCardinality DEF M!Batch
<1>5. EventsBatch \in Nat /\ EventsBatch >= 1 BY DEF M!HabitsAssumption
<1>6. ASSUME NEW i \in source[t], after < i, i \notin M!Batch(t, after),
             NEW j \in M!Batch(t, after)
      PROVE  j < i
  <2> SUFFICES ASSUME i <= j PROVE FALSE BY <1>2, <1>4, <1>6
  <2>1. M!Between(t, after, i) \in SUBSET M!Between(t, after, j)
    <3>1. \A c \in source[t] : c <= i => c <= j BY <1>2, <1>4
    <3>2. QED BY <3>1 DEF M!Between
  <2>2. Cardinality(M!Between(t, after, i)) <= Cardinality(M!Between(t, after, j))
    BY <1>3, <1>4, <2>1, FS_Subset
  <2>3. QED BY <1>3, <1>4, <1>5, <1>6, <2>2
<1>7. ASSUME NEW i \in source[t], after < i PROVE M!Batch(t, after) # {}
  <2> DEFINE rest == {c \in source[t] : after < c}
  <2>1. rest # {} /\ rest \subseteq Nat BY <1>2, <1>7
  <2> HIDE DEF rest
  <2>2. PICK m \in rest : \A c \in rest : <<c, m>> \notin OpToRel(<, Nat)
    BY <2>1, NatLessThanWellFounded, WFMin
  <2>3. \A c \in rest : ~(c < m) BY <2>1, <2>2 DEF OpToRel
  <2>4. \A c \in rest : c <= m => c = m BY <2>1, <2>3
  <2>5. m \in source[t] /\ after < m /\ m <= m BY <1>2 DEF rest
  <2>6. M!Between(t, after, m) = {m} BY <2>4, <2>5 DEF M!Between, rest
  <2>7. Cardinality(M!Between(t, after, m)) = 1 BY <2>6, FS_Singleton
  <2>8. QED BY <1>4, <1>5, <2>5, <2>7
<1>8. QED BY <1>4, <1>6, <1>7

-----------------------------------------------------------------------------
LEMMA MigrateInitial == M!IdsAssumption /\ M!HabitsAssumption /\ M!Init => MigrateInv
<1> SUFFICES ASSUME M!IdsAssumption, M!HabitsAssumption, M!Init PROVE MigrateInv OBVIOUS
<1>1. \A t \in M!Tables : source[t] = {} /\ target[t] = {} /\ aside[t] = {}
  BY DEF M!Init, M!NoRows
<1>2. migrator \in MigratorPlace /\ migrator.pc = "idle"
  <2>1. 0 \in Nat /\ [t \in M!Tables |-> 0] \in [M!Tables -> Nat] OBVIOUS
  <2>2. M!Resting \in MigratorPlace BY <2>1, Zenon DEF M!Resting, MigratorPlace
  <2>3. M!Resting.pc = "idle" BY DEF M!Resting
  <2>4. QED BY <2>2, <2>3 DEF M!Init
<1>3. MigrateTypes
  <2>1. /\ source \in [M!Tables -> SUBSET Nat] /\ target \in [M!Tables -> SUBSET Nat]
        /\ aside \in [M!Tables -> SUBSET Nat]
    BY DEF M!Init, M!NoRows
  <2>2. \A t \in M!Tables : source[t] \union target[t] \subseteq 0..0 BY <1>1
  <2>3. QED BY <1>1, <1>2, <2>1, <2>2 DEF MigrateTypes
<1>4. RowsApart BY <1>1 DEF M!Init, RowsApart, M!Tables
<1>5. \A t \in M!Tables : Owed(t) = {} BY <1>1 DEF Owed
<1>6. OwedAreAbove /\ OwedAreAhead /\ EndsTold
  BY <1>1, <1>2, <1>5 DEF OwedAreAbove, OwedAreAhead, EndsTold, M!At, M!Tables
<1>7. M!MovedAsideOnlyIfCopied /\ M!RowsUpToDate /\ M!TargetConsistent
  BY <1>1 DEF M!MovedAsideOnlyIfCopied, M!RowsUpToDate, M!TargetConsistent, M!Tables
<1>8. QED BY <1>3, <1>4, <1>6, <1>7 DEF MigrateInv

\* What an attempt does without writing anything.
LEMMA AttemptMoves ==
  ASSUME MigrateInv,
         UNCHANGED <<source, ended, target, targetEnded, aside, asideEnded, risky, stale>>,
         migrator' \in MigratorPlace, OwedAreAhead',
         M!At("commit")' => /\ migrator'.found \subseteq source["runs"]
                            /\ \A r \in migrator'.found : Told(r, ended, migrator'.foundEnded)
  PROVE  MigrateInv'
<1>1. MigrateTypes' BY DEF MigrateInv, MigrateTypes
<1>2. RowsApart' BY DEF MigrateInv, RowsApart
<1>3. OwedAreAbove' BY DEF MigrateInv, OwedAreAbove, Owed
<1>4. EndsTold' BY DEF MigrateInv, EndsTold, Told
<1>5. M!MovedAsideOnlyIfCopied' /\ M!RowsUpToDate' /\ M!TargetConsistent'
  BY DEF MigrateInv, M!MovedAsideOnlyIfCopied, M!RowsUpToDate, M!TargetConsistent
<1>6. QED BY <1>1, <1>2, <1>3, <1>4, <1>5 DEF MigrateInv

\* A migrator that goes to another place.
LEMMA MigratorGoes ==
  ASSUME migrator \in MigratorPlace,
         NEW p \in {"idle", "schema", "runs", "commit", "events", "contents", "verify", "rename"},
         NEW a \in Nat
  PROVE  /\ migrator' = [migrator EXCEPT !.pc = p] =>
              migrator' \in MigratorPlace /\ migrator'.pc = p
         /\ migrator' = [migrator EXCEPT !.after = a] =>
              /\ migrator' \in MigratorPlace
              /\ migrator'.pc = migrator.pc /\ migrator'.after = a
         /\ migrator' = [migrator EXCEPT !.pc = p, !.after = a] =>
              migrator' \in MigratorPlace /\ migrator'.pc = p /\ migrator'.after = a
         /\ migrator' = [migrator EXCEPT !.pc = p, !.found = {}, !.foundEnded = {}, !.after = a] =>
              migrator' \in MigratorPlace /\ migrator'.pc = p /\ migrator'.after = a
<1>1. ASSUME migrator' = [migrator EXCEPT !.pc = p]
      PROVE  migrator' \in MigratorPlace /\ migrator'.pc = p
  <2>1. migrator' \in MigratorPlace BY <1>1, Zenon DEF MigratorPlace
  <2>2. migrator'.pc = p BY <1>1, Zenon DEF MigratorPlace
  <2>3. QED BY <2>1, <2>2
<1>2. ASSUME migrator' = [migrator EXCEPT !.after = a]
      PROVE  /\ migrator' \in MigratorPlace
             /\ migrator'.pc = migrator.pc /\ migrator'.after = a
  <2>1. migrator' \in MigratorPlace BY <1>2, Zenon DEF MigratorPlace
  <2>2. migrator'.pc = migrator.pc BY <1>2, Zenon DEF MigratorPlace
  <2>3. migrator'.after = a BY <1>2, Zenon DEF MigratorPlace
  <2>4. QED BY <2>1, <2>2, <2>3
<1>3. ASSUME migrator' = [migrator EXCEPT !.pc = p, !.after = a]
      PROVE  migrator' \in MigratorPlace /\ migrator'.pc = p /\ migrator'.after = a
  <2>1. migrator' \in MigratorPlace BY <1>3, Zenon DEF MigratorPlace
  <2>2. migrator'.pc = p BY <1>3, SMT DEF MigratorPlace
  <2>3. migrator'.after = a BY <1>3, SMT DEF MigratorPlace
  <2>4. QED BY <2>1, <2>2, <2>3
<1>4. ASSUME migrator' = [migrator EXCEPT !.pc = p, !.found = {}, !.foundEnded = {}, !.after = a]
      PROVE  migrator' \in MigratorPlace /\ migrator'.pc = p /\ migrator'.after = a
  <2>1. migrator' \in MigratorPlace
    <3>1. {} \in SUBSET RunIds OBVIOUS
    <3>2. QED BY <1>4, <3>1, Zenon DEF MigratorPlace
  <2>2. migrator'.pc = p BY <1>4, SMT DEF MigratorPlace
  <2>3. migrator'.after = a BY <1>4, SMT DEF MigratorPlace
  <2>4. QED BY <2>1, <2>2, <2>3
<1>5. QED BY <1>1, <1>2, <1>3, <1>4

LEMMA MaxIdOfTarget ==
  ASSUME MigrateTypes, NEW t \in M!Tables
  PROVE  M!MaxId(target[t]) \in Nat /\ (target[t] # {} => M!MaxId(target[t]) \in target[t])
<1>1. PICK n \in Nat : target[t] \in SUBSET (0..n) BY DEF MigrateTypes
<1>2. QED BY <1>1, MaxIdIs

\* What is above all that the target has is past the largest of its ids.
LEMMA OwedArePast ==
  ASSUME M!IdsAssumption, MigrateInv, NEW t \in M!Tables, NEW i \in Owed(t)
  PROVE  i > M!MaxId(target[t])
<1>1. M!MaxId(target[t]) \in Nat /\ (target[t] # {} => M!MaxId(target[t]) \in target[t])
  BY MaxIdOfTarget DEF MigrateInv
<1>2. i \in Nat \ {0}
  <2>1. i \in M!Ids[t] BY DEF Owed, MigrateInv, MigrateTypes
  <2>2. M!Ids[t] \subseteq Nat \ {0} BY DEF M!Ids, M!IdsAssumption, M!Tables
  <2>3. QED BY <2>1, <2>2
<1>3. CASE target[t] = {} BY <1>2, <1>3 DEF M!MaxId
<1>4. CASE target[t] # {}
  <2>1. M!MaxId(target[t]) < i BY <1>1, <1>4 DEF MigrateInv, OwedAreAbove
  <2>2. QED BY <1>1, <1>2, <2>1
<1>5. QED BY <1>3, <1>4

-----------------------------------------------------------------------------
\* The steps of an attempt that write nothing.

LEMMA RestStep ==
  ASSUME MigrateInv, migrator' = M!Resting,
         UNCHANGED <<source, ended, target, targetEnded, aside, asideEnded, risky, stale>>
  PROVE  MigrateInv'
<1>1. migrator' \in MigratorPlace /\ migrator'.pc = "idle"
  <2>1. 0 \in Nat /\ [t \in M!Tables |-> 0] \in [M!Tables -> Nat] OBVIOUS
  <2>2. M!Resting \in MigratorPlace BY <2>1, Zenon DEF M!Resting, MigratorPlace
  <2>3. M!Resting.pc = "idle" BY DEF M!Resting
  <2>4. QED BY <2>2, <2>3
<1>2. OwedAreAhead' BY <1>1 DEF OwedAreAhead, M!At
<1>3. QED BY <1>1, <1>2, AttemptMoves DEF M!At

LEMMA CountStep == ASSUME MigrateInv, M!Count PROVE MigrateInv'
<1>1. /\ migrator' = [M!Resting EXCEPT !.pc = "schema",
                                       !.counts = [t \in M!Tables |-> M!Cardinality(source[t])]]
      /\ UNCHANGED <<source, ended, target, targetEnded, aside, asideEnded, risky, stale>>
  BY DEF M!Count, M!sourceVars, M!targetVars, M!noteVars
<1>2. migrator' \in MigratorPlace /\ migrator'.pc = "schema"
  <2>1. [t \in M!Tables |-> M!Cardinality(source[t])] \in [M!Tables -> Nat]
    <3> SUFFICES ASSUME NEW t \in M!Tables PROVE M!Cardinality(source[t]) \in Nat OBVIOUS
    <3>1. PICK n \in Nat : source[t] \in SUBSET (0..n) BY DEF MigrateInv, MigrateTypes
    <3>2. IsFiniteSet(0..n) BY FS_Interval
    <3>3. IsFiniteSet(source[t]) BY <3>1, <3>2, FS_Subset
    <3>4. Cardinality(source[t]) \in Nat BY <3>3, FS_CardinalityType
    <3>5. QED BY <3>4, SameCardinality
  <2>2. migrator' = [pc |-> "schema", after |-> 0, found |-> {}, foundEnded |-> {},
                     counts |-> [t \in M!Tables |-> M!Cardinality(source[t])]]
    BY <1>1 DEF M!Resting
  <2>3. migrator' \in MigratorPlace
    <3>1. 0 \in Nat /\ {} \in SUBSET RunIds OBVIOUS
    <3>2. QED BY <2>1, <2>2, <3>1, Zenon DEF MigratorPlace
  <2>4. migrator'.pc = "schema" BY <2>2
  <2>5. QED BY <2>3, <2>4
<1>3. OwedAreAhead' BY <1>2 DEF OwedAreAhead, M!At
<1>4. QED BY <1>1, <1>2, <1>3, AttemptMoves DEF M!At

LEMMA SchemaStep == ASSUME M!IdsAssumption, MigrateInv, M!CreateSchema PROVE MigrateInv'
<1>1. PICK a : a = M!MaxId(target["runs"]) OBVIOUS
<1>2. /\ migrator' = [migrator EXCEPT !.pc = "runs", !.after = a]
      /\ UNCHANGED <<source, ended, target, targetEnded, aside, asideEnded, risky, stale>>
  BY <1>1 DEF M!CreateSchema, M!sourceVars, M!noteVars
<1>3. a \in Nat BY <1>1, MaxIdOfTarget DEF MigrateInv, M!Tables
<1>4. migrator' \in MigratorPlace /\ migrator'.pc = "runs" /\ migrator'.after = a
  BY <1>2, <1>3, MigratorGoes DEF MigrateInv, MigrateTypes
<1>5. \A i \in Owed("runs")' : i > a
  <2>1. Owed("runs")' = Owed("runs") BY <1>2 DEF Owed
  <2>2. QED BY <1>1, <2>1, OwedArePast DEF M!Tables
<1>6. OwedAreAhead' BY <1>4, <1>5 DEF OwedAreAhead, M!At
<1>7. QED BY <1>2, <1>4, <1>6, AttemptMoves DEF M!At

LEMMA ReadRunsStep == ASSUME MigrateInv, M!ReadRuns PROVE MigrateInv'
<1>1. PICK f, e : f = {i \in source["runs"] : i > migrator.after} /\ e = ended OBVIOUS
<1>2. /\ M!At("runs")
      /\ migrator' = [migrator EXCEPT !.pc = "commit", !.found = f, !.foundEnded = e]
      /\ UNCHANGED <<source, ended, target, targetEnded, aside, asideEnded, risky, stale>>
  BY <1>1 DEF M!ReadRuns, M!sourceVars, M!targetVars, M!noteVars
<1>3. /\ migrator' \in MigratorPlace /\ migrator'.pc = "commit"
      /\ migrator'.found = f /\ migrator'.foundEnded = e
  <2>1. f \in SUBSET RunIds /\ e \in SUBSET RunIds
    BY <1>1 DEF MigrateInv, MigrateTypes, RowsApart, M!Ids, M!Tables
  <2>2. migrator \in MigratorPlace BY DEF MigrateInv, MigrateTypes
  <2>3. migrator' \in MigratorPlace BY <1>2, <2>1, <2>2, Zenon DEF MigratorPlace
  <2>4. /\ migrator'.pc = "commit" /\ migrator'.found = f /\ migrator'.foundEnded = e
    BY <1>2, <2>2, SMT DEF MigratorPlace
  <2>5. QED BY <2>3, <2>4
<1>4. Owed("runs")' \subseteq f
  BY <1>1, <1>2 DEF MigrateInv, OwedAreAhead, Owed
<1>5. OwedAreAhead' BY <1>3, <1>4 DEF OwedAreAhead, M!At
<1>6. f \subseteq source["runs"] /\ \A r \in f : Told(r, ended, e) BY <1>1 DEF Told
<1>7. QED BY <1>2, <1>3, <1>5, <1>6, AttemptMoves

LEMMA NextTableStep ==
  ASSUME M!IdsAssumption, M!HabitsAssumption, MigrateInv,
         NEW t \in {"events", "contents"}, M!NextTable(t)
  PROVE  MigrateInv'
<1>1. PICK a : a = M!MaxId(target["contents"]) OBVIOUS
<1>2. /\ migrator.pc = t /\ M!Batch(t, migrator.after) = {}
      /\ migrator' = [migrator EXCEPT !.pc = IF t = "events" THEN "contents" ELSE "verify",
                                      !.after = IF t = "events" THEN a ELSE 0]
      /\ UNCHANGED <<source, ended, target, targetEnded, aside, asideEnded, risky, stale>>
  BY <1>1 DEF M!NextTable, M!At, M!sourceVars, M!targetVars, M!noteVars
<1>3. a \in Nat BY <1>1, MaxIdOfTarget DEF MigrateInv, M!Tables
<1>4. migrator.after \in Nat /\ t \in M!Tables /\ migrator \in MigratorPlace
  BY DEF MigrateInv, MigrateTypes, MigratorPlace, M!Tables
<1>5. Owed(t) = {}
  <2>1. \A i \in Owed(t) : i > migrator.after /\ i \in source[t] /\ i \in Nat
    BY <1>2 DEF MigrateInv, MigrateTypes, M!Tables, OwedAreAhead, M!At, Owed
  <2>2. \A i \in source[t] : ~(migrator.after < i) BY <1>2, <1>4, BatchIs DEF MigrateInv
  <2>3. QED BY <1>4, <2>1, <2>2
<1>6. \A u \in M!Tables : Owed(u)' = Owed(u) BY <1>2 DEF Owed
<1>7. CASE t = "events"
  <2>1. migrator' = [migrator EXCEPT !.pc = "contents", !.after = a] BY <1>2, <1>7
  <2>2. migrator' \in MigratorPlace /\ migrator'.pc = "contents" /\ migrator'.after = a
    BY <1>3, <1>4, <2>1, MigratorGoes
  <2>3. \A i \in Owed("contents") : i > a BY <1>1, OwedArePast DEF M!Tables
  <2>4. Owed("runs") = {} BY <1>2, <1>7 DEF MigrateInv, OwedAreAhead
  <2>5. OwedAreAhead'
    BY <1>5, <1>6, <1>7, <2>2, <2>3, <2>4 DEF OwedAreAhead, M!At, M!Tables
  <2>6. QED BY <1>2, <2>2, <2>5, AttemptMoves DEF M!At
<1>8. CASE t = "contents"
  <2>1. migrator' = [migrator EXCEPT !.pc = "verify", !.after = 0] BY <1>2, <1>8
  <2>2. migrator' \in MigratorPlace /\ migrator'.pc = "verify"
    BY <1>4, <2>1, MigratorGoes
  <2>3. Owed("runs") = {} /\ Owed("events") = {}
    BY <1>2, <1>8 DEF MigrateInv, OwedAreAhead
  <2>4. OwedAreAhead'
    BY <1>5, <1>6, <1>8, <2>2, <2>3 DEF OwedAreAhead, M!At, M!Tables
  <2>5. QED BY <1>2, <2>2, <2>4, AttemptMoves DEF M!At
<1>9. QED BY <1>7, <1>8

LEMMA VerifyStep == ASSUME MigrateInv, M!Verify PROVE MigrateInv'
<1>1. UNCHANGED <<source, ended, target, targetEnded, aside, asideEnded, risky, stale>>
  BY DEF M!Verify, M!sourceVars, M!targetVars, M!noteVars
<1>2. CASE migrator' = M!Resting BY <1>1, <1>2, RestStep
<1>3. CASE migrator' = [migrator EXCEPT !.pc = "rename"]
  <2>1. migrator' \in MigratorPlace /\ migrator'.pc = "rename"
    <3>1. migrator \in MigratorPlace /\ 0 \in Nat BY DEF MigrateInv, MigrateTypes
    <3>2. QED BY <1>3, <3>1, MigratorGoes
  <2>2. \A u \in M!Tables : Owed(u)' = {}
    BY <1>1 DEF M!Verify, M!At, MigrateInv, OwedAreAhead, Owed, M!Tables
  <2>3. OwedAreAhead' BY <2>1, <2>2 DEF OwedAreAhead, M!At, M!Tables
  <2>4. QED BY <1>1, <2>1, <2>3, AttemptMoves DEF M!At
<1>4. QED BY <1>2, <1>3 DEF M!Verify

-----------------------------------------------------------------------------
\* The steps of an attempt that write.

LEMMA CommitStep == ASSUME M!IdsAssumption, MigrateInv, M!CommitRuns PROVE MigrateInv'
<1>1. PICK f, e, a : f = migrator.found \ target["runs"] /\ e = migrator.foundEnded
                     /\ a = M!MaxId(target["events"])
  OBVIOUS
<1>2. /\ migrator.pc = "commit" /\ target' = [target EXCEPT !["runs"] = @ \union f]
      /\ targetEnded' = targetEnded \union (f \intersect e)
      /\ migrator' = [migrator EXCEPT !.pc = "events", !.found = {}, !.foundEnded = {},
                                      !.after = a]
      /\ UNCHANGED <<source, ended, aside, asideEnded, risky, stale>>
  BY <1>1 DEF M!CommitRuns, M!At, M!sourceVars, M!noteVars
<1>3. a \in Nat BY <1>1, MaxIdOfTarget DEF MigrateInv, M!Tables
<1>4. migrator' \in MigratorPlace /\ migrator'.pc = "events" /\ migrator'.after = a
  <2>1. migrator \in MigratorPlace BY DEF MigrateInv, MigrateTypes
  <2>2. QED BY <1>2, <1>3, <2>1, MigratorGoes
<1>5. /\ f \subseteq source["runs"] /\ f \intersect target["runs"] = {}
      /\ \A r \in f : Told(r, ended, e)
  BY <1>1, <1>2 DEF MigrateInv, EndsTold, M!At
<1>6. /\ target' \in [M!Tables -> SUBSET Nat]
      /\ target'["runs"] = target["runs"] \union f
      /\ \A t \in M!Tables : t # "runs" => target'[t] = target[t]
  BY <1>2, <1>5 DEF MigrateInv, MigrateTypes, M!Tables
<1>7. MigrateTypes'
  <2>1. PICK n \in Nat : \A t \in M!Tables : source[t] \union target[t] \subseteq 0..n
    BY DEF MigrateInv, MigrateTypes
  <2>2. \A t \in M!Tables : source'[t] \union target'[t] \subseteq 0..n
    BY <1>2, <1>5, <1>6, <2>1 DEF M!Tables
  <2>3. QED BY <1>2, <1>4, <1>6, <2>2 DEF MigrateInv, MigrateTypes
<1>8. RowsApart' BY <1>2, <1>6 DEF MigrateInv, RowsApart
<1>9. /\ Owed("runs")' = {}
      /\ \A t \in M!Tables : t # "runs" => Owed(t)' = Owed(t)
  <2>1. Owed("runs") \subseteq f
    BY <1>1, <1>2 DEF MigrateInv, OwedAreAhead, M!At, Owed
  <2>2. Owed("runs")' = {} BY <1>2, <1>6, <2>1 DEF Owed
  <2>3. QED BY <1>2, <1>6, <2>2 DEF Owed
<1>10. OwedAreAbove' BY <1>6, <1>9 DEF MigrateInv, OwedAreAbove
<1>11. OwedAreAhead'
  <2>1. \A i \in Owed("events") : i > a BY <1>1, OwedArePast DEF M!Tables
  <2>2. QED BY <1>4, <1>9, <2>1 DEF OwedAreAhead, M!At, M!Tables
<1>12. EndsTold'
  <2>1. ASSUME NEW r \in source["runs"], r \in target'["runs"]
        PROVE  Told(r, ended, targetEnded')
    <3>1. CASE r \in f
      <4>1. r \notin targetEnded BY <1>5, <3>1 DEF MigrateInv, RowsApart
      <4>2. r \in targetEnded' <=> r \in e BY <1>2, <3>1, <4>1
      <4>3. QED BY <1>5, <3>1, <4>2 DEF Told
    <3>2. CASE r \notin f
      <4>1. r \in target["runs"] /\ (r \in targetEnded' <=> r \in targetEnded)
        BY <1>2, <1>6, <2>1, <3>2
      <4>2. QED BY <2>1, <4>1 DEF MigrateInv, EndsTold, Told
    <3>3. QED BY <3>1, <3>2
  <2>2. QED BY <1>2, <1>4, <2>1 DEF EndsTold, M!At, Told
<1>13. M!MovedAsideOnlyIfCopied'
  BY <1>2, <1>6 DEF MigrateInv, M!MovedAsideOnlyIfCopied
<1>14. M!RowsUpToDate'
  <2>1. \A r \in aside["runs"] : r \notin f
    BY <1>5 DEF MigrateInv, RowsApart, M!Tables
  <2>2. \A r \in aside["runs"] :
          /\ r \in target'["runs"] <=> r \in target["runs"]
          /\ r \in targetEnded' <=> r \in targetEnded
    BY <1>2, <1>6, <2>1
  <2>3. ASSUME NEW r \in aside["runs"] \intersect target'["runs"]
        PROVE  \/ (r \in asideEnded) = (r \in targetEnded')
               \/ r \in stale \/ <<"runs", r>> \in risky
    <3>1. \/ (r \in asideEnded) = (r \in targetEnded)
          \/ r \in stale \/ <<"runs", r>> \in risky
      BY <2>2 DEF MigrateInv, M!RowsUpToDate
    <3>2. QED BY <2>2, <3>1
  <2>4. QED BY <1>2, <2>3 DEF M!RowsUpToDate
<1>15. M!TargetConsistent'
  BY <1>6 DEF MigrateInv, M!TargetConsistent, M!Tables
<1>16. QED
  BY <1>7, <1>8, <1>10, <1>11, <1>12, <1>13, <1>14, <1>15 DEF MigrateInv

LEMMA CopyStep ==
  ASSUME M!HabitsAssumption, MigrateInv, NEW t \in {"events", "contents"}, M!CopyBatch(t)
  PROVE  MigrateInv'
<1>1. PICK b, after : b = M!Batch(t, after) /\ after = migrator.after OBVIOUS
<1>2. /\ migrator.pc = t /\ b # {} /\ t \in M!Tables /\ t # "runs" /\ after \in Nat
      /\ UNCHANGED <<source, ended, targetEnded, aside, asideEnded, risky, stale>>
  BY <1>1
     DEF M!CopyBatch, M!At, M!sourceVars, M!noteVars, M!Tables, MigrateInv, MigrateTypes,
         MigratorPlace
<1>3. /\ b \subseteq source[t]
      /\ \A i \in source[t] : after < i => i \in b \/ \A j \in b : j < i
  BY <1>1, <1>2, BatchIs DEF MigrateInv
<1>4. CASE migrator' = M!Resting /\ UNCHANGED target
  BY <1>2, <1>4, RestStep
<1>5. CASE /\ \A i \in b : i \in target[t] \/ M!References(t, i)
           /\ target' = [target EXCEPT ![t] = @ \union b]
           /\ migrator' = [migrator EXCEPT !.after = M!Resume(t, b)]
  <2>1. PICK n \in Nat : \A u \in M!Tables : source[u] \union target[u] \subseteq 0..n
    BY DEF MigrateInv, MigrateTypes
  <2>2. PICK last : last = M!Resume(t, b) OBVIOUS
  <2>3. last \in b /\ last \in Nat
    <3>1. b \in SUBSET (0..n) BY <1>2, <1>3, <2>1
    <3>2. QED BY <1>2, <2>1, <2>2, <3>1, MaxIdIs DEF M!Resume
  <2>4. migrator' \in MigratorPlace /\ migrator'.pc = t /\ migrator'.after = last
    <3>1. migrator \in MigratorPlace /\ "idle" \in {"idle", "schema"}
      BY DEF MigrateInv, MigrateTypes
    <3>2. migrator' = [migrator EXCEPT !.after = last] BY <1>5, <2>2
    <3>3. QED BY <1>2, <2>3, <3>1, <3>2, MigratorGoes
  <2>5. /\ target' \in [M!Tables -> SUBSET Nat] /\ target'[t] = target[t] \union b
        /\ \A u \in M!Tables : u # t => target'[u] = target[u]
    BY <1>2, <1>3, <1>5 DEF MigrateInv, MigrateTypes
  <2>6. MigrateTypes'
    <3>1. \A u \in M!Tables : source'[u] \union target'[u] \subseteq 0..n
      BY <1>2, <1>3, <2>1, <2>5
    <3>2. QED BY <1>2, <2>4, <2>5, <3>1 DEF MigrateInv, MigrateTypes
  <2>7. target'["runs"] = target["runs"] BY <1>2, <2>5 DEF M!Tables
  <2>8. RowsApart' BY <1>2, <2>7 DEF MigrateInv, RowsApart
  <2>9. /\ \A u \in M!Tables : u # t => Owed(u)' = Owed(u)
        /\ \A i \in Owed(t)' : i \in Owed(t) /\ \A j \in b : j < i
    <3>1. \A u \in M!Tables : u # t => Owed(u)' = Owed(u) BY <1>2, <2>5 DEF Owed
    <3>2. \A i \in Owed(t)' : i \in Owed(t) /\ i \notin b BY <1>2, <2>5 DEF Owed
    <3>3. \A i \in Owed(t) : i \in source[t] /\ after < i
      <4>1. \A i \in Owed(t) : i \in source[t] /\ i \in Nat
        BY <1>2 DEF Owed, MigrateInv, MigrateTypes
      <4>2. \A i \in Owed(t) : i > after
        BY <1>1, <1>2 DEF MigrateInv, OwedAreAhead, M!At
      <4>3. QED BY <1>2, <4>1, <4>2
    <3>4. QED BY <1>3, <3>1, <3>2, <3>3
  <2>10. OwedAreAbove' BY <2>5, <2>9 DEF MigrateInv, OwedAreAbove
  <2>11. OwedAreAhead'
    <3>1. \A i \in Owed(t)' : i > last
      <4>1. \A i \in Owed(t)' : i \in Nat /\ last < i
        BY <1>2, <2>3, <2>9 DEF Owed, MigrateInv, MigrateTypes
      <4>2. QED BY <2>3, <4>1
    <3>2. Owed("runs")' = {}
      BY <1>2, <2>9 DEF MigrateInv, OwedAreAhead, M!Tables
    <3>3. t = "contents" => Owed("events")' = {}
      BY <1>2, <2>9 DEF MigrateInv, OwedAreAhead, M!Tables
    <3>4. QED BY <2>4, <3>1, <3>2, <3>3 DEF OwedAreAhead, M!At
  <2>12. EndsTold' BY <1>2, <2>4, <2>7 DEF MigrateInv, EndsTold, M!At, Told
  <2>13. M!MovedAsideOnlyIfCopied'
    BY <1>2, <2>5 DEF MigrateInv, M!MovedAsideOnlyIfCopied
  <2>14. M!RowsUpToDate' BY <1>2, <2>7 DEF MigrateInv, M!RowsUpToDate
  <2>15. M!TargetConsistent'
    <3>1. CASE t = "events"
      <4>1. /\ target'["events"] = target["events"] \union b
            /\ target'["contents"] = target["contents"]
        BY <2>5, <3>1 DEF M!Tables
      <4>2. \A i \in b : i \in target["events"] \/ RunOf[i] \in target["runs"]
        BY <1>5, <3>1 DEF M!References
      <4>3. QED BY <2>7, <4>1, <4>2 DEF MigrateInv, M!TargetConsistent
    <3>2. CASE t = "contents"
      <4>1. /\ target'["contents"] = target["contents"] \union b
            /\ target'["events"] = target["events"]
        BY <2>5, <3>2 DEF M!Tables
      <4>2. \A i \in b : i \in target["contents"] \/ i \in target["events"]
        BY <1>5, <3>2 DEF M!References
      <4>3. QED BY <2>7, <4>1, <4>2 DEF MigrateInv, M!TargetConsistent
    <3>3. QED BY <3>1, <3>2
  <2>16. QED
    BY <2>6, <2>8, <2>10, <2>11, <2>12, <2>13, <2>14, <2>15 DEF MigrateInv
<1>6. QED BY <1>1, <1>4, <1>5 DEF M!CopyBatch

\* What is moved aside is owed nothing.
LEMMA RenameStep == ASSUME MigrateInv, M!Rename PROVE MigrateInv'
<1>1. /\ migrator.pc = "rename" /\ migrator' = M!Resting
      /\ aside' = [t \in M!Tables |-> aside[t] \union source[t]]
      /\ asideEnded' = asideEnded \union ended
      /\ source' = M!NoRows /\ ended' = {}
      /\ UNCHANGED <<target, targetEnded, risky, stale>>
  BY DEF M!Rename, M!At, M!targetVars
<1>2. migrator' \in MigratorPlace /\ migrator'.pc = "idle"
  <2>1. 0 \in Nat /\ [t \in M!Tables |-> 0] \in [M!Tables -> Nat] OBVIOUS
  <2>2. M!Resting \in MigratorPlace BY <2>1, Zenon DEF M!Resting, MigratorPlace
  <2>3. M!Resting.pc = "idle" BY DEF M!Resting
  <2>4. QED BY <1>1, <2>2, <2>3
<1>3. /\ \A t \in M!Tables : aside'[t] = aside[t] \union source[t] /\ source'[t] = {}
      /\ aside' \in [M!Tables -> SUBSET Nat] /\ source' \in [M!Tables -> SUBSET Nat]
  BY <1>1 DEF M!NoRows, MigrateInv, MigrateTypes
<1>4. MigrateTypes' BY <1>1, <1>2, <1>3 DEF MigrateInv, MigrateTypes
<1>5. RowsApart' BY <1>1, <1>3 DEF MigrateInv, RowsApart, M!Tables
<1>6. \A t \in M!Tables : Owed(t)' = {} BY <1>3 DEF Owed
<1>7. OwedAreAbove' /\ OwedAreAhead' /\ EndsTold'
  BY <1>2, <1>3, <1>6 DEF OwedAreAbove, OwedAreAhead, EndsTold, M!At, M!Tables
<1>8. M!MovedAsideOnlyIfCopied'
  <2>1. \A t \in M!Tables : Owed(t) = {} BY <1>1 DEF MigrateInv, OwedAreAhead, M!Tables
  <2>2. QED BY <1>1, <1>3, <2>1 DEF MigrateInv, M!MovedAsideOnlyIfCopied, Owed
<1>9. M!RowsUpToDate'
  <2> SUFFICES ASSUME NEW r \in aside'["runs"] \intersect target["runs"]
               PROVE  \/ (r \in asideEnded') = (r \in targetEnded)
                      \/ r \in stale \/ <<"runs", r>> \in risky
    BY <1>1 DEF M!RowsUpToDate
  <2>1. "runs" \in M!Tables BY DEF M!Tables
  <2>2. CASE r \in source["runs"]
    <3>1. r \notin asideEnded BY <2>1, <2>2 DEF MigrateInv, RowsApart
    <3>2. r \in asideEnded' <=> r \in ended BY <1>1, <3>1
    <3>3. QED BY <2>2, <3>2 DEF MigrateInv, EndsTold, Told
  <2>3. CASE r \in aside["runs"]
    <3>1. r \notin ended BY <2>1, <2>3 DEF MigrateInv, RowsApart
    <3>2. r \in asideEnded' <=> r \in asideEnded BY <1>1, <3>1
    <3>3. QED BY <2>3, <3>2 DEF MigrateInv, M!RowsUpToDate
  <2>4. QED BY <1>3, <2>1, <2>2, <2>3
<1>10. M!TargetConsistent' BY <1>1 DEF MigrateInv, M!TargetConsistent
<1>11. QED BY <1>4, <1>5, <1>7, <1>8, <1>9, <1>10 DEF MigrateInv

-----------------------------------------------------------------------------
\* The agents, and whoever else writes the target.

LEMMA AgentWritesStep ==
  ASSUME M!IdsAssumption, MigrateInv, NEW t \in {"runs", "events"}, NEW i \in M!Ids[t],
         M!AgentWrites(t, i)
  PROVE  MigrateInv'
<1>1. PICK also : also = (t = "events" /\ i \in Contents) /\ also \in BOOLEAN OBVIOUS
<1>2. /\ i \notin source[t] \union aside[t] \union target[t] /\ t \in M!Tables
      /\ i \in Nat \ {0}
      /\ UNCHANGED <<ended, target, targetEnded, migrator, aside, asideEnded, stale>>
  BY DEF M!AgentWrites, M!targetVars, M!Ids, M!IdsAssumption, M!Tables
<1>3. /\ source' \in [M!Tables -> SUBSET Nat]
      /\ source'["runs"] = source["runs"] \union (IF t = "runs" THEN {i} ELSE {})
      /\ source'["events"] = source["events"] \union (IF t = "events" THEN {i} ELSE {})
      /\ source'["contents"] = source["contents"] \union (IF also THEN {i} ELSE {})
  <2>1. source \in [M!Tables -> SUBSET Nat] BY DEF MigrateInv, MigrateTypes
  <2>2. CASE t = "events" /\ i \in Contents
    <3>1. source' = [source EXCEPT !["events"] = @ \union {i}, !["contents"] = @ \union {i}]
      BY <2>2 DEF M!AgentWrites
    <3>2. QED BY <1>1, <1>2, <2>1, <2>2, <3>1 DEF M!Tables
  <2>3. CASE ~(t = "events" /\ i \in Contents)
    <3>1. source' = [source EXCEPT ![t] = @ \union {i}] BY <2>3 DEF M!AgentWrites
    <3>2. QED BY <1>1, <1>2, <2>1, <2>3, <3>1 DEF M!Tables
  <2>4. QED BY <2>2, <2>3
<1>4. /\ risky \subseteq risky' /\ risky' \subseteq risky \union {<<t, i>>, <<"contents", i>>}
      /\ <<"contents", i>> \in risky' => also \/ <<"contents", i>> \in risky
      /\ migrator.pc # "idle" \/ (\E j \in target[t] : j > i) =>
           <<t, i>> \in risky' /\ (also => <<"contents", i>> \in risky')
  <2>1. <<t, i>> \notin risky BY <1>2 DEF MigrateInv, RowsApart
  <2>2. M!Risky(t, i) = risky \/ M!Risky(t, i) = risky \union {<<t, i>>}
    BY DEF M!Risky
  <2>3. migrator.pc # "idle" \/ (\E j \in target[t] : j > i) =>
          M!Risky(t, i) = risky \union {<<t, i>>}
    BY DEF M!Risky, M!Busy, M!At
  <2>4. PICK new : new = M!Risky(t, i) \ risky OBVIOUS
  <2>5. risky' = M!Risky(t, i) \union (IF also THEN {<<"contents", x[2]>> : x \in new} ELSE {})
    BY <1>1, <2>4 DEF M!AgentWrites
  <2>6. \/ M!Risky(t, i) = risky /\ new = {}
        \/ M!Risky(t, i) = risky \union {<<t, i>>} /\ new = {<<t, i>>}
    BY <2>1, <2>2, <2>4
  <2>7. \/ M!Risky(t, i) = risky /\ risky' = risky
        \/ /\ M!Risky(t, i) = risky \union {<<t, i>>}
           /\ risky' = risky \union {<<t, i>>} \union (IF also THEN {<<"contents", i>>} ELSE {})
    BY <2>5, <2>6
  <2>8. t # "contents" OBVIOUS
  <2>9. QED BY <2>1, <2>3, <2>7, <2>8
<1>5. also => t = "events" /\ i \notin source["contents"] /\ i \notin target["contents"]
              /\ i \notin aside["contents"]
  BY <1>1, <1>2 DEF MigrateInv, RowsApart, M!TargetConsistent
<1>6. MigrateTypes'
  <2>1. PICK n \in Nat : \A u \in M!Tables : source[u] \union target[u] \subseteq 0..n
    BY DEF MigrateInv, MigrateTypes
  <2>2. n + i \in Nat /\ 0..n \subseteq 0..(n + i) /\ i \in 0..(n + i) BY <1>2
  <2>3. \A u \in M!Tables : source'[u] \union target'[u] \subseteq 0..(n + i)
    BY <1>2, <1>3, <2>1, <2>2 DEF M!Tables
  <2>4. \A u \in M!Tables : source'[u] \subseteq M!Ids[u]
    BY <1>1, <1>3 DEF MigrateInv, MigrateTypes, M!Ids, M!Tables
  <2>5. QED BY <1>2, <1>3, <2>2, <2>3, <2>4 DEF MigrateInv, MigrateTypes
<1>7. RowsApart'
  <2>1. \A u \in M!Tables : source'[u] \intersect aside[u] = {}
    BY <1>2, <1>3, <1>5 DEF MigrateInv, RowsApart, M!Tables
  <2>2. ASSUME NEW u \in M!Tables, NEW j \in Nat, <<u, j>> \in risky'
        PROVE  j \in source'[u] \union aside[u]
    <3>1. CASE <<u, j>> \in risky
      BY <1>3, <3>1 DEF MigrateInv, RowsApart, M!Tables
    <3>2. CASE <<u, j>> = <<t, i>> BY <1>3, <3>2 DEF M!Tables
    <3>3. CASE <<u, j>> = <<"contents", i>> /\ <<u, j>> \notin risky
      BY <1>3, <1>4, <2>2, <3>3
    <3>4. QED BY <1>4, <2>2, <3>1, <3>2, <3>3
  <2>3. source'["contents"] \subseteq source'["events"]
    BY <1>3, <1>5 DEF MigrateInv, RowsApart
  <2>4. ended \subseteq source'["runs"] BY <1>3 DEF MigrateInv, RowsApart
  <2>5. QED BY <1>2, <2>1, <2>2, <2>3, <2>4 DEF MigrateInv, RowsApart
\* A row that is owed was owed before, or is written in time and above the target's.
<1>8. ASSUME NEW u \in M!Tables, NEW k \in Owed(u)'
      PROVE  \/ k \in Owed(u)
             \/ migrator.pc = "idle" /\ \A j \in target[u] : j < k
  <2>1. k \in source'[u] /\ <<u, k>> \notin risky' /\ k \notin target[u]
    BY <1>2, <1>8 DEF Owed
  <2>2. CASE k \in source[u] BY <1>4, <2>1, <2>2 DEF Owed
  <2>3. CASE k \notin source[u]
    <3>1. k = i /\ (u = t \/ (also /\ u = "contents")) BY <1>3, <2>1, <2>3 DEF M!Tables
    <3>2. migrator.pc = "idle" /\ \A j \in target[t] : ~(j > i) BY <1>4, <2>1, <3>1
    <3>3. target[u] \subseteq target[t]
      BY <1>5, <3>1 DEF MigrateInv, M!TargetConsistent
    <3>4. \A j \in target[u] : j \in Nat /\ j # i /\ ~(j > i)
      BY <2>1, <3>1, <3>2, <3>3 DEF MigrateInv, MigrateTypes
    <3>5. \A j \in target[u] : j < k BY <1>2, <3>1, <3>4
    <3>6. QED BY <3>2, <3>5
  <2>4. QED BY <2>2, <2>3
<1>9. OwedAreAbove' BY <1>2, <1>8 DEF MigrateInv, OwedAreAbove
<1>10. OwedAreAhead'
  <2>1. migrator.pc # "idle" => \A u \in M!Tables : Owed(u)' \subseteq Owed(u) BY <1>8
  <2>2. QED BY <1>2, <2>1 DEF MigrateInv, OwedAreAhead, M!At, M!Tables
<1>11. EndsTold'
  <2>1. \A r : Told(r, ended, targetEnded) => Told(r, ended, targetEnded)' BY <1>2, <1>4 DEF Told
  <2>2. \A r \in source'["runs"] \intersect target["runs"] : r \in source["runs"]
    BY <1>2, <1>3
  <2>3. \A r \in source'["runs"] \intersect target["runs"] : Told(r, ended, targetEnded)'
    BY <2>1, <2>2 DEF MigrateInv, EndsTold
  <2>4. M!At("commit") =>
          /\ migrator.found \subseteq source'["runs"]
          /\ \A r \in migrator.found : Told(r, ended, migrator.foundEnded)
    BY <1>3 DEF MigrateInv, EndsTold
  <2>5. QED BY <1>2, <1>4, <2>3, <2>4 DEF EndsTold, Told, M!At
<1>12. M!MovedAsideOnlyIfCopied' /\ M!RowsUpToDate' /\ M!TargetConsistent'
  BY <1>2, <1>4
     DEF MigrateInv, M!MovedAsideOnlyIfCopied, M!RowsUpToDate, M!TargetConsistent
<1>13. QED BY <1>6, <1>7, <1>9, <1>10, <1>11, <1>12 DEF MigrateInv

LEMMA AgentEndsStep == ASSUME MigrateInv, NEW r \in RunIds, M!AgentEnds(r) PROVE MigrateInv'
<1>1. /\ r \in source["runs"] /\ r \notin ended /\ ended' = ended \union {r}
      /\ stale \subseteq stale'
      /\ migrator.pc # "idle" \/ r \in target["runs"] => r \in stale'
      /\ UNCHANGED <<source, target, targetEnded, migrator, aside, asideEnded, risky>>
  BY DEF M!AgentEnds, M!targetVars, M!Busy, M!At
<1>2. MigrateTypes' BY <1>1 DEF MigrateInv, MigrateTypes
<1>3. RowsApart' BY <1>1 DEF MigrateInv, RowsApart
<1>4. OwedAreAbove' /\ OwedAreAhead'
  BY <1>1 DEF MigrateInv, OwedAreAbove, OwedAreAhead, Owed, M!At
<1>5. EndsTold'
  <2>1. ASSUME NEW q, NEW f, Told(q, ended, f), q = r => r \in stale'
        PROVE  \/ (q \in ended') = (q \in f) \/ q \in stale' \/ <<"runs", q>> \in risky
    BY <1>1, <2>1 DEF Told
  <2>2. \A q \in source["runs"] \intersect target["runs"] :
          \/ (q \in ended') = (q \in targetEnded) \/ q \in stale' \/ <<"runs", q>> \in risky
    BY <1>1, <2>1 DEF MigrateInv, EndsTold
  <2>3. M!At("commit") => \A q \in migrator.found :
          \/ (q \in ended') = (q \in migrator.foundEnded) \/ q \in stale'
          \/ <<"runs", q>> \in risky
    BY <1>1, <2>1 DEF MigrateInv, EndsTold, M!At
  <2>4. QED BY <1>1, <2>2, <2>3 DEF MigrateInv, EndsTold, Told, M!At
<1>6. M!MovedAsideOnlyIfCopied' /\ M!RowsUpToDate' /\ M!TargetConsistent'
  BY <1>1 DEF MigrateInv, M!MovedAsideOnlyIfCopied, M!RowsUpToDate, M!TargetConsistent
<1>7. QED BY <1>2, <1>3, <1>4, <1>5, <1>6 DEF MigrateInv

LEMMA ForeignStep ==
  ASSUME M!IdsAssumption, MigrateInv, NEW i \in RunIds, M!ForeignWrites(i) PROVE MigrateInv'
<1>1. /\ i \notin source["runs"] /\ i \notin target["runs"] /\ i \notin aside["runs"]
      /\ target' = [target EXCEPT !["runs"] = @ \union {i}]
      /\ risky' = risky \union {<<"runs", j>> : j \in source["runs"]}
      /\ UNCHANGED <<source, ended, targetEnded, migrator, aside, asideEnded, stale>>
  BY DEF M!ForeignWrites, M!sourceVars
<1>2. i \in Nat BY DEF M!IdsAssumption
<1>3. /\ target' \in [M!Tables -> SUBSET Nat]
      /\ target'["runs"] = target["runs"] \union {i}
      /\ \A t \in M!Tables : t # "runs" => target'[t] = target[t]
  BY <1>1, <1>2 DEF MigrateInv, MigrateTypes, M!Tables
<1>4. /\ risky \subseteq risky'
      /\ \A j \in source["runs"] : <<"runs", j>> \in risky'
      /\ \A u, j : <<u, j>> \in risky' => <<u, j>> \in risky \/ (u = "runs" /\ j \in source["runs"])
  BY <1>1
<1>5. MigrateTypes'
  <2>1. PICK n \in Nat : \A u \in M!Tables : source[u] \union target[u] \subseteq 0..n
    BY DEF MigrateInv, MigrateTypes
  <2>2. n + i \in Nat /\ 0..n \subseteq 0..(n + i) /\ i \in 0..(n + i) BY <1>2
  <2>3. \A u \in M!Tables : source'[u] \union target'[u] \subseteq 0..(n + i)
    BY <1>1, <1>3, <2>1, <2>2 DEF M!Tables
  <2>4. QED BY <1>1, <1>3, <2>2, <2>3 DEF MigrateInv, MigrateTypes
<1>6. RowsApart'
  <2>1. \A t \in M!Tables : \A j \in Nat : <<t, j>> \in risky' => j \in source[t] \union aside[t]
    BY <1>4 DEF MigrateInv, RowsApart
  <2>2. QED BY <1>1, <1>3, <2>1 DEF MigrateInv, RowsApart
<1>7. /\ Owed("runs")' = {}
      /\ \A t \in M!Tables : t # "runs" => Owed(t)' \subseteq Owed(t)
  BY <1>1, <1>3, <1>4 DEF Owed
<1>8. OwedAreAbove' BY <1>3, <1>7 DEF MigrateInv, OwedAreAbove
<1>9. OwedAreAhead' BY <1>1, <1>7 DEF MigrateInv, OwedAreAhead, M!At, M!Tables
<1>10. EndsTold' BY <1>1, <1>3, <1>4 DEF MigrateInv, EndsTold, Told, M!At
<1>11. M!MovedAsideOnlyIfCopied'
  BY <1>1, <1>3, <1>4 DEF MigrateInv, M!MovedAsideOnlyIfCopied, M!Tables
<1>12. M!RowsUpToDate' BY <1>1, <1>3, <1>4 DEF MigrateInv, M!RowsUpToDate
<1>13. M!TargetConsistent' BY <1>3 DEF MigrateInv, M!TargetConsistent, M!Tables
<1>14. QED BY <1>5, <1>6, <1>8, <1>9, <1>10, <1>11, <1>12, <1>13 DEF MigrateInv

LEMMA MigrateInductive ==
  ASSUME M!IdsAssumption, M!HabitsAssumption, MigrateInv, [M!Next]_M!vars PROVE MigrateInv'
<1>1. CASE M!Recreate \/ UNCHANGED M!vars
  <2>1. UNCHANGED <<source, ended, target, targetEnded, migrator, aside, asideEnded, risky,
                    stale>>
    BY <1>1 DEF M!Recreate, M!vars, M!sourceVars, M!targetVars, M!noteVars
  <2>2. migrator' \in MigratorPlace BY <2>1 DEF MigrateInv, MigrateTypes
  <2>3. OwedAreAhead' BY <2>1 DEF MigrateInv, OwedAreAhead, Owed, M!At
  <2>4. M!At("commit")' => /\ migrator'.found \subseteq source["runs"]
                           /\ \A r \in migrator'.found : Told(r, ended, migrator'.foundEnded)
    BY <2>1 DEF MigrateInv, EndsTold, M!At
  <2>5. QED BY <2>1, <2>2, <2>3, <2>4, AttemptMoves
<1>2. CASE M!Interrupt
  BY <1>2, RestStep DEF M!Interrupt, M!sourceVars, M!targetVars, M!noteVars
<1>3. CASE M!Count \/ M!CreateSchema \/ M!ReadRuns \/ M!CommitRuns \/ M!Verify \/ M!Rename
  BY <1>3, CountStep, SchemaStep, ReadRunsStep, CommitStep, VerifyStep, RenameStep
<1>4. ASSUME NEW t \in {"events", "contents"}, M!CopyBatch(t) \/ M!NextTable(t) PROVE MigrateInv'
  BY <1>4, CopyStep, NextTableStep
<1>5. ASSUME NEW t \in {"runs", "events"}, NEW i \in M!Ids[t], M!AgentWrites(t, i)
      PROVE  MigrateInv'
  BY <1>5, AgentWritesStep
<1>6. ASSUME NEW r \in RunIds, M!AgentEnds(r) \/ M!ForeignWrites(r) PROVE MigrateInv'
  BY <1>6, AgentEndsStep, ForeignStep
<1>7. QED BY <1>1, <1>2, <1>3, <1>4, <1>5, <1>6 DEF M!Next

\* However often the cutover is interrupted and started again, and whoever writes
\* meanwhile: no row that was there in time is moved aside before the target has it,
\* the target says of each run what the source said unless it ended too late, and it
\* has no event without its run (cli/migrate.py:26-31, 259-330).
THEOREM MigratedAlwaysWhole == ClientsSpec => []MigratedWhole
<1>1. ClientsInit => MigrateInv
  BY MigrateInitial, MigrateAssumption DEF ClientsInit
<1>2. [ClientsNext]_clientVars => [M!Next]_M!vars
  BY DEF ClientsNext, OfProjection, OfIngest, OfMigrate, OfCommands, OfSchema,
         clientVars, migrateState, M!vars, M!sourceVars, M!targetVars, M!noteVars
<1>3. MigrateInv /\ [M!Next]_M!vars => MigrateInv'
  BY MigrateInductive, MigrateAssumption
<1>4. MigrateInv => MigratedWhole BY DEF MigrateInv, MigratedWhole
<1>5. QED BY <1>1, <1>2, <1>3, <1>4, PTL DEF ClientsSpec
-----------------------------------------------------------------------------
\* The tail and tag commands (LogCommands).

RowType ==
  [run : LiveRuns, by : {"run", "tag"}, at : Nat, sequence : Nat, readAt : Nat]
TagPlace ==
  [pc : {"idle", "read"}, run : LiveRuns \union {None}, sequence : Nat, readAt : Nat]
TailPlace ==
  [pc : {"off", "cursor", "poll"}, since : Times \union {None}, start : Nat, cursor : Nat]

CommandsTypes ==
  /\ rows \in Seq(RowType) /\ counter \in [LiveRuns -> Nat] /\ going \subseteq LiveRuns
  /\ tagger \in [Taggers -> TagPlace]
  /\ tail \in TailPlace /\ printed \in Seq(Nat) /\ tails \in Nat

\* What was printed is between where the tail began and where it is.
PrintedSoFar ==
  /\ tail.start <= tail.cursor /\ tail.cursor <= Len(rows)
  /\ tail.pc = "cursor" => tail.start = 0 /\ tail.cursor = 0
  /\ \A k \in DOMAIN printed : tail.start < printed[k] /\ printed[k] <= tail.cursor

\* The row a window begins behind is the last that was dated before it.
WindowBegins ==
  tail.pc = "poll" /\ tail.since # None /\ tail.start # 0 => rows[tail.start].at < tail.since

\* The numbers a run's process gave rise, and its counter is at the last.
RunNumbersRise ==
  /\ \A i \in DOMAIN rows : rows[i].by = "run" => rows[i].sequence <= counter[rows[i].run]
  /\ \A i, j \in DOMAIN rows :
       i < j /\ rows[i].run = rows[j].run /\ rows[i].by = "run" /\ rows[j].by = "run" =>
         rows[i].sequence < rows[j].sequence

\* The number s is above those that the run r has among the first n rows of rs.
AboveThose(rs, s, r, n) ==
  \A i \in DOMAIN rs : i <= n /\ rs[i].run = r => rs[i].sequence < s

\* A tag's number is above those it read, while it waits and when it is a row.
TagsAbove ==
  /\ \A j \in DOMAIN rows :
       rows[j].by = "tag" => AboveThose(rows, rows[j].sequence, rows[j].run, rows[j].readAt)
  /\ \A g \in Taggers : tagger[g].pc = "read" =>
       /\ tagger[g].run \in LiveRuns /\ tagger[g].readAt <= Len(rows)
       /\ AboveThose(rows, tagger[g].sequence, tagger[g].run, tagger[g].readAt)
\* A tag's row is behind those it read.
TagsBehind == \A j \in DOMAIN rows : rows[j].readAt < j

CommandsInv ==
  /\ CommandsTypes /\ PrintedSoFar /\ WindowBegins /\ C!PrintedOnceInOrder
  /\ RunNumbersRise /\ TagsAbove /\ TagsBehind

-----------------------------------------------------------------------------
LEMMA LargestIs ==
  ASSUME NEW S \in SUBSET Nat, IsFiniteSet(S), S # {}
  PROVE  C!Max(S) \in S /\ \A j \in S : j <= C!Max(S)
<1>1. \E i \in S : \A j \in S : i >= j BY FiniteHasLargest
<1>2. C!Max(S) \in S /\ \A j \in S : C!Max(S) >= j BY <1>1 DEF C!Max
<1> QED BY <1>2

LEMMA SameSize == ASSUME NEW S PROVE C!Cardinality(S) = Cardinality(S)
BY DEF C!Cardinality, Cardinality

\* new holds the rows past the cursor that match, up to the last it holds, in order.
FirstPast(new, cursor) ==
  /\ new \in Seq(Nat)
  /\ \A k \in DOMAIN new : new[k] \in DOMAIN rows /\ cursor < new[k]
  /\ \A k, l \in DOMAIN new : k < l => new[k] < new[l]
  /\ new # <<>> => \A i \in DOMAIN rows :
       cursor < i /\ i <= new[Len(new)] /\ rows[i].run \in Matching =>
         \E k \in DOMAIN new : new[k] = i

\* A turn of tail reads the first rows past the cursor, in their order.
LEMMA FetchedIs ==
  ASSUME C!CommandsAssumption, rows \in Seq(RowType), NEW cursor \in Nat
  PROVE  FirstPast(C!Fetched(cursor), cursor)
<1> DEFINE fresh == {i \in DOMAIN rows : i > cursor /\ rows[i].run \in Matching}
           n == C!Min({FetchLimit, C!Cardinality(fresh)})
           pick(k) == CHOOSE i \in fresh : C!Cardinality({j \in fresh : j <= i}) = k
           new == C!Fetched(cursor)
<1>1. DOMAIN rows = 1..Len(rows) /\ Len(rows) \in Nat OBVIOUS
<1>2. fresh \in SUBSET Nat /\ IsFiniteSet(fresh)
  <2>1. fresh \in SUBSET (1..Len(rows)) BY <1>1
  <2>2. IsFiniteSet(1..Len(rows)) BY <1>1, FS_Interval
  <2>3. fresh \in SUBSET Nat BY <2>1, <1>1
  <2> HIDE DEF fresh
  <2> QED BY <2>1, <2>2, <2>3, FS_Subset
<1>3. new = [k \in 1..n |-> pick(k)] BY DEF C!Fetched
<1>4. \A i : i \in fresh <=> i \in DOMAIN rows /\ i > cursor /\ rows[i].run \in Matching
  OBVIOUS
<1> HIDE DEF fresh
<1>5. n \in Nat /\ n <= Cardinality(fresh) /\ Cardinality(fresh) \in Nat
  <2>1. FetchLimit \in Nat BY DEF C!CommandsAssumption
  <2>2. Cardinality(fresh) \in Nat BY <1>2, RanksEnumerate
  <2>3. \E x \in {FetchLimit, Cardinality(fresh)} :
          \A y \in {FetchLimit, Cardinality(fresh)} : x <= y
    BY <2>1, <2>2
  <2>4. n \in {FetchLimit, Cardinality(fresh)} /\ n <= Cardinality(fresh)
    BY <2>3, SameSize DEF C!Min
  <2> QED BY <2>1, <2>2, <2>4
<1>0. /\ \A i \in fresh : i \in Nat /\ RankIn(fresh, i) \in Nat
      /\ \A i \in fresh : RankIn(fresh, i) \in 1..Cardinality(fresh)
      /\ \A i, j \in fresh : i < j => RankIn(fresh, i) < RankIn(fresh, j)
      /\ \A k \in 1..Cardinality(fresh) : \E i \in fresh : RankIn(fresh, i) = k
  BY <1>2, RanksEnumerate
<1> HIDE DEF n, new
<1>6. DOMAIN new = 1..n BY <1>3
<1>7. ASSUME NEW k \in 1..n PROVE new[k] \in fresh /\ RankIn(fresh, new[k]) = k
  <2>1. k \in 1..Cardinality(fresh) BY <1>5
  <2>2. \E i \in fresh : RankIn(fresh, i) = k BY <1>0, <2>1
  <2>3. \A i : C!Cardinality({j \in fresh : j <= i}) = RankIn(fresh, i)
    BY SameSize DEF RankIn
  <2>4. \E i \in fresh : C!Cardinality({j \in fresh : j <= i}) = k BY <2>2, <2>3
  <2>5. new[k] \in fresh /\ C!Cardinality({j \in fresh : j <= new[k]}) = k BY <1>3, <2>4
  <2> QED BY <2>3, <2>5
<1>8. new \in Seq(Nat)
  <2>1. \A k \in 1..n : new[k] \in Nat BY <1>0, <1>7
  <2>2. new = [k \in 1..n |-> new[k]]
    <3> HIDE DEF pick
    <3> QED BY <1>3
  <2>3. new \in [1..n -> Nat] BY <2>1, <2>2
  <2> QED BY <1>5, <2>3
<1>9. ASSUME NEW k \in 1..n, NEW l \in 1..n, k < l PROVE new[k] < new[l]
  <2>1. /\ new[k] \in fresh /\ new[l] \in fresh
        /\ RankIn(fresh, new[k]) = k /\ RankIn(fresh, new[l]) = l
    BY <1>7
  <2>2. new[l] # new[k] /\ ~(new[l] < new[k]) BY <1>0, <1>5, <1>9, <2>1
  <2> QED BY <1>0, <2>1, <2>2
<1>10. ASSUME new # <<>>, NEW i \in fresh, i <= new[Len(new)] PROVE \E k \in 1..n : new[k] = i
  <2>1. n # 0 /\ Len(new) = n /\ n \in 1..n BY <1>3, <1>5, <1>6, <1>8, <1>10
  <2>2. new[n] \in fresh /\ RankIn(fresh, new[n]) = n BY <1>7, <2>1
  <2>3. RankIn(fresh, i) \in 1..Cardinality(fresh) BY <1>0, <1>10
  <2>4. RankIn(fresh, i) <= n
    <3>1. i = new[n] \/ i < new[n] BY <1>0, <1>10, <2>1, <2>2
    <3> QED BY <1>0, <1>5, <1>10, <2>2, <2>3, <3>1
  <2>5. PICK k \in 1..n : k = RankIn(fresh, i) BY <1>5, <2>3, <2>4
  <2>6. new[k] \in fresh /\ RankIn(fresh, new[k]) = RankIn(fresh, i) BY <1>7, <2>5
  <2>7. ~(new[k] < i) /\ ~(i < new[k])
    <3>1. RankIn(fresh, i) \in Nat BY <2>3
    <3> QED BY <1>0, <1>10, <2>6, <3>1
  <2>8. new[k] = i BY <1>0, <1>10, <2>6, <2>7
  <2> QED BY <2>8
<1>11. \A k \in 1..n : new[k] \in DOMAIN rows /\ cursor < new[k]
  <2>1. \A k \in 1..n : new[k] \in DOMAIN rows /\ new[k] > cursor BY <1>4, <1>7
  <2> QED BY <1>1, <2>1
<1>12. ASSUME new # <<>>, NEW i \in DOMAIN rows, cursor < i, i <= new[Len(new)],
             rows[i].run \in Matching
      PROVE  \E k \in 1..n : new[k] = i
  <2>1. i \in fresh BY <1>1, <1>4, <1>12
  <2> QED BY <1>10, <1>12, <2>1
<1> QED BY <1>6, <1>8, <1>9, <1>11, <1>12 DEF new, FirstPast

-----------------------------------------------------------------------------
LEMMA CommandsInitial == C!CommandsAssumption /\ C!Init => CommandsInv
<1> SUFFICES ASSUME C!CommandsAssumption, C!Init PROVE CommandsInv OBVIOUS
<1> USE DEF C!Init
<1>1. CommandsTypes
  BY DEF CommandsTypes, TagPlace, TailPlace, C!NoTag, C!NoTail
<1>2. PrintedSoFar /\ WindowBegins BY DEF PrintedSoFar, WindowBegins, C!NoTail
<1>3. C!PrintedOnceInOrder BY DEF C!PrintedOnceInOrder, C!NoTail
<1>4. RunNumbersRise /\ TagsBehind /\ TagsAbove
  BY DEF RunNumbersRise, TagsBehind, TagsAbove, AboveThose, C!NoTag
<1> QED BY <1>1, <1>2, <1>3, <1>4 DEF CommandsInv

\* A row that is added disturbs no other, and the tail has yet to come to it.
RowAdded(row) == row \in RowType /\ rows' = Append(rows, row)

LEMMA RowAddedIs ==
  ASSUME CommandsTypes, NEW row, RowAdded(row)
  PROVE  /\ rows' \in Seq(RowType) /\ Len(rows) \in Nat /\ Len(rows') = Len(rows) + 1
         /\ DOMAIN rows = 1..Len(rows)
         /\ \A i \in DOMAIN rows : i \in DOMAIN rows' /\ rows'[i] = rows[i] /\ i <= Len(rows)
         /\ \A i \in DOMAIN rows' :
              i \in DOMAIN rows \/ (i = Len(rows) + 1 /\ rows'[i] = row)
<1>1. rows \in Seq(RowType) BY DEF CommandsTypes
<1>2. PICK s \in Seq(RowType) : s = Append(rows, row)
  BY <1>1 DEF RowAdded
<1>3. /\ Len(s) = Len(rows) + 1 /\ Len(rows) \in Nat /\ s[Len(rows) + 1] = row
      /\ \A i \in 1..Len(rows) : s[i] = rows[i]
      /\ DOMAIN s = 1..Len(s) /\ DOMAIN rows = 1..Len(rows)
  BY <1>1, <1>2 DEF RowAdded
<1>4. rows' = s BY <1>2 DEF RowAdded
<1> QED BY <1>3, <1>4

LEMMA TailKept ==
  ASSUME CommandsInv, NEW row, RowAdded(row), UNCHANGED <<tail, printed>>
  PROVE  (PrintedSoFar /\ WindowBegins /\ C!PrintedOnceInOrder)'
<1>1. /\ Len(rows) \in Nat /\ Len(rows') = Len(rows) + 1 /\ DOMAIN rows = 1..Len(rows)
      /\ \A i \in DOMAIN rows : i \in DOMAIN rows' /\ rows'[i] = rows[i] /\ i <= Len(rows)
      /\ \A i \in DOMAIN rows' : i \in DOMAIN rows \/ i = Len(rows) + 1
  BY RowAddedIs DEF CommandsInv
<1>2. /\ tail.start \in Nat /\ tail.cursor \in Nat
      /\ tail.start <= tail.cursor /\ tail.cursor <= Len(rows)
  BY DEF CommandsInv, CommandsTypes, TailPlace, PrintedSoFar
<1>3. PrintedSoFar' BY <1>1, <1>2 DEF CommandsInv, PrintedSoFar
<1>4. WindowBegins'
  <2> SUFFICES ASSUME tail.pc = "poll", tail.since # None, tail.start # 0
               PROVE  rows'[tail.start].at < tail.since
    BY DEF WindowBegins
  <2>1. tail.start \in DOMAIN rows BY <1>1, <1>2
  <2> QED BY <1>1, <2>1 DEF CommandsInv, WindowBegins
<1>5. ASSUME NEW i \in DOMAIN rows', i <= tail.cursor PROVE i \in DOMAIN rows
  BY <1>1, <1>2, <1>5
<1>6. C!PrintedOnceInOrder'
  <2>1. \A i, j \in DOMAIN printed : i < j => printed[i] < printed[j]
    BY DEF CommandsInv, C!PrintedOnceInOrder
  <2>2. ASSUME NEW i \in DOMAIN rows', i > tail.start, i <= tail.cursor,
               rows'[i].run \in Matching
        PROVE  \E j \in DOMAIN printed : printed[j] = i
    BY <1>1, <1>5, <2>2 DEF CommandsInv, C!PrintedOnceInOrder
  <2>3. ASSUME tail.pc = "poll", tail.since # None, NEW i \in DOMAIN rows',
               rows'[i].at >= tail.since, i <= tail.start
        PROVE  \E j \in DOMAIN rows' : j > i /\ rows'[j].at < tail.since
    <3>1. i \in DOMAIN rows BY <1>1, <1>2, <2>3
    <3>2. PICK j \in DOMAIN rows : j > i /\ rows[j].at < tail.since
      BY <1>1, <2>3, <3>1 DEF CommandsInv, C!PrintedOnceInOrder
    <3> QED BY <1>1, <3>2
  <2> QED BY <2>1, <2>2, <2>3 DEF C!PrintedOnceInOrder
<1> QED BY <1>3, <1>4, <1>6

\* What a tag read is still there, so its number is still above it.
LEMMA TagsKept ==
  ASSUME CommandsInv, NEW row, RowAdded(row)
  PROVE  /\ \A j \in DOMAIN rows : rows[j].by = "tag" =>
              AboveThose(rows', rows[j].sequence, rows[j].run, rows[j].readAt)
         /\ \A g \in Taggers : tagger[g].pc = "read" =>
              AboveThose(rows', tagger[g].sequence, tagger[g].run, tagger[g].readAt)
<1>1. /\ Len(rows) \in Nat /\ DOMAIN rows = 1..Len(rows)
      /\ \A i \in DOMAIN rows : rows'[i] = rows[i]
      /\ \A i \in DOMAIN rows' : i \in DOMAIN rows \/ i = Len(rows) + 1
  BY RowAddedIs DEF CommandsInv
<1>2. ASSUME NEW s \in Nat, NEW r, NEW n \in Nat, n <= Len(rows), AboveThose(rows, s, r, n)
      PROVE  AboveThose(rows', s, r, n)
  <2>1. ASSUME NEW i \in DOMAIN rows', i <= n PROVE i \in DOMAIN rows BY <1>1, <1>2, <2>1
  <2> QED BY <1>1, <1>2, <2>1 DEF AboveThose
<1>3. ASSUME NEW j \in DOMAIN rows, rows[j].by = "tag"
      PROVE  AboveThose(rows', rows[j].sequence, rows[j].run, rows[j].readAt)
  <2>1. rows[j] \in RowType BY DEF CommandsInv, CommandsTypes
  <2>2. rows[j].sequence \in Nat /\ rows[j].readAt \in Nat BY <2>1 DEF RowType
  <2>3. rows[j].readAt < j /\ AboveThose(rows, rows[j].sequence, rows[j].run, rows[j].readAt)
    BY <1>3 DEF CommandsInv, TagsAbove, TagsBehind
  <2>4. rows[j].readAt <= Len(rows) BY <1>1, <2>2, <2>3
  <2> QED BY <1>2, <2>2, <2>3, <2>4
<1>4. ASSUME NEW g \in Taggers, tagger[g].pc = "read"
      PROVE  AboveThose(rows', tagger[g].sequence, tagger[g].run, tagger[g].readAt)
  <2>1. tagger[g] \in TagPlace BY DEF CommandsInv, CommandsTypes
  <2>2. tagger[g].sequence \in Nat /\ tagger[g].readAt \in Nat BY <2>1 DEF TagPlace
  <2>3. /\ tagger[g].readAt <= Len(rows)
        /\ AboveThose(rows, tagger[g].sequence, tagger[g].run, tagger[g].readAt)
    BY <1>4 DEF CommandsInv, TagsAbove
  <2> QED BY <1>2, <2>2, <2>3
<1> QED BY <1>3, <1>4

-----------------------------------------------------------------------------
LEMMA EmitStep ==
  ASSUME C!CommandsAssumption, CommandsInv, NEW r \in LiveRuns, NEW at \in Times, C!Emit(r, at)
  PROVE  CommandsInv'
<1>1. PICK n \in Nat : n = counter[r] + 1 BY DEF CommandsInv, CommandsTypes
<1>2. counter' = [counter EXCEPT ![r] = n] /\ counter \in [LiveRuns -> Nat]
  BY <1>1 DEF C!Emit, CommandsInv, CommandsTypes
<1>3. counter'[r] = n /\ \A q \in LiveRuns \ {r} : counter'[q] = counter[q] BY <1>2
<1>4. PICK row : /\ row = [run |-> r, by |-> "run", at |-> at, sequence |-> n, readAt |-> 0]
                 /\ RowAdded(row)
  BY <1>3 DEF C!Emit, C!Row, RowAdded, RowType, C!CommandsAssumption
<1>5. UNCHANGED <<going, tagger, tail, printed, tails>> BY DEF C!Emit
<1>6. /\ row.run = r /\ row.by = "run" /\ row.sequence = n /\ row.readAt = 0 BY <1>4
<1>7. /\ rows' \in Seq(RowType) /\ Len(rows) \in Nat /\ Len(rows') = Len(rows) + 1
      /\ DOMAIN rows = 1..Len(rows)
      /\ \A i \in DOMAIN rows : i \in DOMAIN rows' /\ rows'[i] = rows[i] /\ i <= Len(rows)
      /\ \A i \in DOMAIN rows' :
           i \in DOMAIN rows \/ (i = Len(rows) + 1 /\ rows'[i] = row)
  BY <1>4, RowAddedIs DEF CommandsInv
<1>8. \A i \in DOMAIN rows : rows[i].run \in LiveRuns /\ rows[i].sequence \in Nat
  <2>1. \A i \in DOMAIN rows : rows[i] \in RowType BY <1>7 DEF CommandsInv, CommandsTypes
  <2> QED BY <2>1 DEF RowType
<1>9. CommandsTypes' BY <1>2, <1>5, <1>7 DEF CommandsInv, CommandsTypes
<1>10. (PrintedSoFar /\ WindowBegins /\ C!PrintedOnceInOrder)' BY <1>4, <1>5, TailKept
<1>11. RunNumbersRise'
  <2>1. ASSUME NEW i \in DOMAIN rows', rows'[i].by = "run"
        PROVE  rows'[i].sequence <= counter'[rows'[i].run]
    <3>1. CASE i \in DOMAIN rows
      <4>1. rows[i].sequence <= counter[rows[i].run]
        BY <1>7, <2>1, <3>1 DEF CommandsInv, RunNumbersRise
      <4> QED BY <1>1, <1>2, <1>3, <1>7, <1>8, <3>1, <4>1
    <3>2. CASE i = Len(rows) + 1 /\ rows'[i] = row BY <1>3, <1>6, <3>2
    <3> QED BY <1>7, <3>1, <3>2
  <2>2. ASSUME NEW i \in DOMAIN rows', NEW j \in DOMAIN rows', i < j,
               rows'[i].run = rows'[j].run, rows'[i].by = "run", rows'[j].by = "run"
        PROVE  rows'[i].sequence < rows'[j].sequence
    <3>1. i \in DOMAIN rows BY <1>7, <2>2
    <3>2. CASE j \in DOMAIN rows BY <1>7, <2>2, <3>1, <3>2 DEF CommandsInv, RunNumbersRise
    <3>3. CASE j = Len(rows) + 1 /\ rows'[j] = row
      <4>1. rows[i].sequence <= counter[rows[i].run] /\ rows[i].run = r
        BY <1>6, <1>7, <2>2, <3>1, <3>3 DEF CommandsInv, RunNumbersRise
      <4>2. counter[r] < n /\ counter[r] \in Nat BY <1>1, <1>2
      <4> QED BY <1>6, <1>7, <1>8, <3>1, <3>3, <4>1, <4>2
    <3> QED BY <1>7, <3>2, <3>3
  <2> QED BY <2>1, <2>2 DEF RunNumbersRise
<1>12. TagsAbove'
  <2>1. ASSUME NEW j \in DOMAIN rows', rows'[j].by = "tag"
        PROVE  AboveThose(rows', rows'[j].sequence, rows'[j].run, rows'[j].readAt)
    <3>1. j \in DOMAIN rows /\ rows'[j] = rows[j] BY <1>6, <1>7, <2>1
    <3> QED BY <1>4, <2>1, <3>1, TagsKept
  <2>2. ASSUME NEW g \in Taggers, tagger[g].pc = "read"
        PROVE  /\ tagger[g].run \in LiveRuns /\ tagger[g].readAt <= Len(rows')
               /\ AboveThose(rows', tagger[g].sequence, tagger[g].run, tagger[g].readAt)
    <3>1. tagger[g] \in TagPlace BY DEF CommandsInv, CommandsTypes
    <3>2. tagger[g].run \in LiveRuns /\ tagger[g].readAt <= Len(rows) /\ tagger[g].readAt \in Nat
      BY <2>2, <3>1 DEF CommandsInv, TagsAbove, TagPlace
    <3> QED BY <1>4, <1>7, <2>2, <3>2, TagsKept
  <2> QED BY <1>5, <2>1, <2>2 DEF TagsAbove
<1>13. TagsBehind'
  <2>1. \A j \in DOMAIN rows : rows[j].readAt < j BY DEF CommandsInv, TagsBehind
  <2> QED BY <1>6, <1>7, <2>1 DEF TagsBehind
<1> QED BY <1>9, <1>10, <1>11, <1>12, <1>13 DEF CommandsInv

LEMMA TagReadStep ==
  ASSUME C!CommandsAssumption, CommandsInv, NEW g \in Taggers, NEW r \in LiveRuns,
         C!TagRead(g, r)
  PROVE  CommandsInv'
<1> DEFINE given == {0} \union C!SequencesOf(r)
<1>1. rows \in Seq(RowType) /\ DOMAIN rows = 1..Len(rows) /\ Len(rows) \in Nat
  BY DEF CommandsInv, CommandsTypes
<1>2. \A i \in DOMAIN rows : rows[i] \in RowType BY <1>1
<1>3. \A i \in DOMAIN rows : rows[i].sequence \in Nat BY <1>2 DEF RowType
<1>4. given \in SUBSET Nat /\ given # {} BY <1>3 DEF C!SequencesOf
<1>5. IsFiniteSet(given)
  <2> DEFINE theirs == {j \in DOMAIN rows : rows[j].run = r}
             number == [j \in theirs |-> rows[j].sequence]
  <2>1. IsFiniteSet(theirs)
    <3>1. theirs \in SUBSET (1..Len(rows)) BY <1>1
    <3>2. IsFiniteSet(1..Len(rows)) BY <1>1, FS_Interval
    <3> HIDE DEF theirs
    <3> QED BY <3>1, <3>2, FS_Subset
  <2>2. number \in Surjection(theirs, C!SequencesOf(r))
    BY DEF C!SequencesOf, Surjection
  <2> HIDE DEF theirs, number
  <2>3. IsFiniteSet(C!SequencesOf(r)) BY <2>1, <2>2, FS_Surjection
  <2>4. IsFiniteSet({0}) BY FS_Singleton
  <2> QED BY <2>3, <2>4, FS_Union
<1>6. PICK n \in Nat : n = C!Max(given) /\ \A m \in given : m <= n
  BY <1>4, <1>5, LargestIs
<1>7. \A i \in DOMAIN rows : rows[i].run = r => rows[i].sequence \in given
  BY DEF C!SequencesOf
<1> HIDE DEF given
<1>8. PICK t \in TagPlace :
        t = [pc |-> "read", run |-> r, readAt |-> Len(rows), sequence |-> n + 1]
  <2>1. n + 1 \in Nat /\ r \in LiveRuns \union {None} OBVIOUS
  <2>2. [pc |-> "read", run |-> r, readAt |-> Len(rows), sequence |-> n + 1] \in TagPlace
    BY <1>1, <2>1 DEF TagPlace
  <2> QED BY <2>2
<1>9. tagger' = [tagger EXCEPT ![g] = t] BY <1>6, <1>8 DEF C!TagRead, given
<1>10. tagger' \in [Taggers -> TagPlace] BY <1>9 DEF CommandsInv, CommandsTypes
<1>11. tagger'[g] = t /\ \A h \in Taggers \ {g} : tagger'[h] = tagger[h]
  BY <1>9 DEF CommandsInv, CommandsTypes
<1>12. UNCHANGED <<rows, counter, going, tail, printed, tails>> BY DEF C!TagRead
<1>13. AboveThose(rows, t.sequence, t.run, t.readAt)
  <2>1. \A i \in DOMAIN rows : rows[i].run = r => rows[i].sequence < n + 1
    BY <1>3, <1>6, <1>7
  <2>2. t.sequence = n + 1 /\ t.run = r BY <1>8
  <2> QED BY <2>1, <2>2 DEF AboveThose
<1>14. TagsAbove'
  <2>1. ASSUME NEW h \in Taggers, tagger'[h].pc = "read"
        PROVE  /\ tagger'[h].run \in LiveRuns /\ tagger'[h].readAt <= Len(rows)
               /\ AboveThose(rows, tagger'[h].sequence, tagger'[h].run, tagger'[h].readAt)
    <3>1. CASE h = g
      <4>1. t.run \in LiveRuns /\ t.readAt = Len(rows) BY <1>8
      <4> QED BY <1>1, <1>11, <1>13, <3>1, <4>1
    <3>2. CASE h # g BY <1>11, <2>1, <3>2 DEF CommandsInv, TagsAbove
    <3> QED BY <3>1, <3>2
  <2> QED BY <1>12, <2>1 DEF CommandsInv, TagsAbove
<1>15. CommandsTypes' BY <1>10, <1>12 DEF CommandsInv, CommandsTypes
<1>16. (PrintedSoFar /\ WindowBegins /\ C!PrintedOnceInOrder /\ RunNumbersRise /\ TagsBehind)'
  BY <1>12 DEF CommandsInv, PrintedSoFar, WindowBegins, C!PrintedOnceInOrder,
               RunNumbersRise, TagsBehind
<1> QED BY <1>14, <1>15, <1>16 DEF CommandsInv

LEMMA TagInsertStep ==
  ASSUME C!CommandsAssumption, CommandsInv, NEW g \in Taggers, C!TagInsert(g)
  PROVE  CommandsInv'
<1>1. PICK t \in TagPlace : t = tagger[g] BY DEF CommandsInv, CommandsTypes
<1>2. /\ t.pc = "read" /\ t.run \in LiveRuns /\ t.sequence \in Nat /\ t.readAt \in Nat
      /\ t.readAt <= Len(rows) /\ AboveThose(rows, t.sequence, t.run, t.readAt)
  BY <1>1 DEF C!TagInsert, CommandsInv, TagsAbove, TagPlace
<1>3. PICK at \in Nat : at = C!Max(Times)
  <2>1. Times \in SUBSET Nat /\ IsFiniteSet(Times) /\ Times # {}
    BY DEF C!CommandsAssumption, C!IsFiniteSet, IsFiniteSet
  <2>2. C!Max(Times) \in Times BY <2>1, LargestIs
  <2> QED BY <2>1, <2>2
<1>4. PICK row : /\ row = [run |-> t.run, by |-> "tag", at |-> at, sequence |-> t.sequence,
                           readAt |-> t.readAt]
                 /\ RowAdded(row)
  BY <1>1, <1>2, <1>3 DEF C!TagInsert, C!Row, RowAdded, RowType
<1>5. /\ row.run = t.run /\ row.by = "tag" /\ row.sequence = t.sequence
      /\ row.readAt = t.readAt
  BY <1>4
<1>6. UNCHANGED <<counter, going, tail, printed, tails>> BY DEF C!TagInsert
<1>7. /\ rows' \in Seq(RowType) /\ Len(rows) \in Nat /\ Len(rows') = Len(rows) + 1
      /\ DOMAIN rows = 1..Len(rows)
      /\ \A i \in DOMAIN rows : i \in DOMAIN rows' /\ rows'[i] = rows[i] /\ i <= Len(rows)
      /\ \A i \in DOMAIN rows' :
           i \in DOMAIN rows \/ (i = Len(rows) + 1 /\ rows'[i] = row)
  BY <1>4, RowAddedIs DEF CommandsInv
<1>8. C!NoTag \in TagPlace /\ C!NoTag.pc # "read" BY DEF C!NoTag, TagPlace
<1>9. tagger' = [tagger EXCEPT ![g] = C!NoTag] BY DEF C!TagInsert
<1>10. tagger' \in [Taggers -> TagPlace] BY <1>8, <1>9 DEF CommandsInv, CommandsTypes
<1>11. tagger'[g] = C!NoTag /\ \A h \in Taggers \ {g} : tagger'[h] = tagger[h]
  BY <1>9 DEF CommandsInv, CommandsTypes
<1>12. CommandsTypes' BY <1>6, <1>7, <1>10 DEF CommandsInv, CommandsTypes
<1>13. (PrintedSoFar /\ WindowBegins /\ C!PrintedOnceInOrder)' BY <1>4, <1>6, TailKept
<1>14. RunNumbersRise'
  <2>1. \A i \in DOMAIN rows' : rows'[i].by = "run" => i \in DOMAIN rows /\ rows'[i] = rows[i]
    BY <1>5, <1>7
  <2> QED BY <1>6, <2>1 DEF CommandsInv, RunNumbersRise
<1>15. TagsAbove'
  <2>1. ASSUME NEW j \in DOMAIN rows', rows'[j].by = "tag"
        PROVE  AboveThose(rows', rows'[j].sequence, rows'[j].run, rows'[j].readAt)
    <3>1. CASE j \in DOMAIN rows BY <1>4, <1>7, <2>1, <3>1, TagsKept
    <3>2. CASE j = Len(rows) + 1 /\ rows'[j] = row
      <4>1. tagger[g].pc = "read" BY <1>1, <1>2
      <4>2. AboveThose(rows', t.sequence, t.run, t.readAt) BY <1>1, <1>4, <4>1, TagsKept
      <4> QED BY <1>5, <3>2, <4>2
    <3> QED BY <1>7, <3>1, <3>2
  <2>2. ASSUME NEW h \in Taggers, tagger'[h].pc = "read"
        PROVE  /\ tagger'[h].run \in LiveRuns /\ tagger'[h].readAt <= Len(rows')
               /\ AboveThose(rows', tagger'[h].sequence, tagger'[h].run, tagger'[h].readAt)
    <3>1. tagger'[h] = tagger[h] /\ tagger[h].pc = "read" BY <1>8, <1>11, <2>2
    <3>2. tagger[h] \in TagPlace BY DEF CommandsInv, CommandsTypes
    <3>3. tagger[h].run \in LiveRuns /\ tagger[h].readAt <= Len(rows) /\ tagger[h].readAt \in Nat
      BY <3>1, <3>2 DEF CommandsInv, TagsAbove, TagPlace
    <3> QED BY <1>4, <1>7, <3>1, <3>3, TagsKept
  <2> QED BY <2>1, <2>2 DEF TagsAbove
<1>16. TagsBehind'
  <2>1. \A j \in DOMAIN rows : rows[j].readAt < j BY DEF CommandsInv, TagsBehind
  <2> QED BY <1>2, <1>5, <1>7, <2>1 DEF TagsBehind
<1> QED BY <1>12, <1>13, <1>14, <1>15, <1>16 DEF CommandsInv

-----------------------------------------------------------------------------
\* What the tail's steps leave alone.
LEMMA RowsStay ==
  ASSUME CommandsInv, UNCHANGED <<rows, counter, going, tagger>>,
         tail' \in TailPlace, printed' \in Seq(Nat), tails' \in Nat,
         PrintedSoFar', WindowBegins', C!PrintedOnceInOrder'
  PROVE  CommandsInv'
<1>1. CommandsTypes' BY DEF CommandsInv, CommandsTypes
<1>2. (RunNumbersRise /\ TagsAbove /\ TagsBehind)'
  BY DEF CommandsInv, RunNumbersRise, TagsAbove, AboveThose, TagsBehind
<1> QED BY <1>1, <1>2 DEF CommandsInv

LEMMA StartTailStep ==
  ASSUME CommandsInv, NEW since \in Times \union {None}, C!StartTail(since)
  PROVE  CommandsInv'
<1>1. PICK o \in TailPlace : o = C!NoTail /\ o.start = 0 /\ o.cursor = 0
  <2>1. C!NoTail \in TailPlace BY DEF C!NoTail, TailPlace
  <2>2. C!NoTail.start = 0 BY DEF C!NoTail
  <2>3. C!NoTail.cursor = 0 BY DEF C!NoTail
  <2> QED BY <2>1, <2>2, <2>3
<1>2. PICK t \in TailPlace : t = [o EXCEPT !.pc = "cursor", !.since = since]
  BY DEF TailPlace
<1>3. tail' = t /\ printed' = <<>> /\ tails' \in Nat /\ UNCHANGED <<rows, counter, going, tagger>>
  <2>1. tails \in Nat BY DEF CommandsInv, CommandsTypes
  <2> QED BY <1>1, <1>2, <2>1 DEF C!StartTail
<1>4. t.pc = "cursor" /\ t.start = 0 /\ t.cursor = 0 BY <1>1, <1>2 DEF TailPlace
<1>5. Len(rows) \in Nat BY DEF CommandsInv, CommandsTypes
<1>6. PrintedSoFar' BY <1>3, <1>4, <1>5 DEF PrintedSoFar
<1>7. WindowBegins' BY <1>3, <1>4 DEF WindowBegins
<1>8. C!PrintedOnceInOrder'
  <2>1. \A i \in DOMAIN rows : ~(i > 0 /\ i <= 0) BY DEF CommandsInv, CommandsTypes
  <2> QED BY <1>3, <1>4, <2>1 DEF C!PrintedOnceInOrder
<1> QED BY <1>3, <1>6, <1>7, <1>8, RowsStay

\* The cursor is at the last row before the window, or at none.
LEMMA CursorIs ==
  ASSUME rows \in Seq(RowType), NEW since
  PROVE  LET c == C!Cursor(since) IN
         /\ c \in Nat /\ c <= Len(rows)
         /\ c # 0 => c \in DOMAIN rows /\ (since = None \/ rows[c].at < since)
<1> DEFINE before == {i \in DOMAIN rows : since = None \/ rows[i].at < since}
<1>1. DOMAIN rows = 1..Len(rows) /\ Len(rows) \in Nat OBVIOUS
<1>2. {0} \union before \in SUBSET (0..Len(rows)) BY <1>1
<1>3. IsFiniteSet(0..Len(rows)) BY <1>1, FS_Interval
<1>4. C!Cursor(since) = C!Max({0} \union before) BY DEF C!Cursor
<1>5. \A i \in before : i \in DOMAIN rows /\ (since = None \/ rows[i].at < since) OBVIOUS
<1> HIDE DEF before
<1>6. IsFiniteSet({0} \union before) BY <1>2, <1>3, FS_Subset
<1>7. {0} \union before \in SUBSET Nat /\ {0} \union before # {} BY <1>1, <1>2
<1>8. C!Cursor(since) \in {0} \union before BY <1>4, <1>6, <1>7, LargestIs
<1>9. C!Cursor(since) \in 0..Len(rows) BY <1>2, <1>8
<1> QED BY <1>1, <1>5, <1>8, <1>9

LEMMA ResolveCursorStep ==
  ASSUME C!CommandsAssumption, CommandsInv, C!ResolveCursor PROVE CommandsInv'
<1>1. PICK o \in TailPlace : o = tail BY DEF CommandsInv, CommandsTypes
<1>2. rows \in Seq(RowType) /\ Len(rows) \in Nat BY DEF CommandsInv, CommandsTypes
<1>3. PICK c \in Nat : /\ c = C!Cursor(o.since) /\ c <= Len(rows)
                       /\ c # 0 => c \in DOMAIN rows /\ (o.since = None \/ rows[c].at < o.since)
  BY <1>2, CursorIs
<1>4. PICK t \in TailPlace : t = [o EXCEPT !.pc = "poll", !.start = c, !.cursor = c]
  BY DEF TailPlace
<1>5. tail' = t /\ o.pc = "cursor" BY <1>1, <1>3, <1>4 DEF C!ResolveCursor
<1>6. UNCHANGED <<rows, counter, going, tagger, printed, tails>> BY DEF C!ResolveCursor
<1>7. t.pc = "poll" /\ t.since = o.since /\ t.start = c /\ t.cursor = c
  BY <1>4 DEF TailPlace
<1>8. \A k \in DOMAIN printed : FALSE
  <2>1. \A k \in DOMAIN printed : 0 < printed[k] /\ printed[k] <= 0 /\ printed[k] \in Nat
    BY <1>1, <1>5 DEF CommandsInv, PrintedSoFar, CommandsTypes
  <2> QED BY <2>1
<1>9. PrintedSoFar' BY <1>3, <1>5, <1>6, <1>7, <1>8 DEF PrintedSoFar
<1>10. WindowBegins' BY <1>3, <1>5, <1>6, <1>7 DEF WindowBegins
<1>11. C!PrintedOnceInOrder'
  <2>1. \A i \in DOMAIN rows : ~(i > c /\ i <= c) BY <1>2
  <2>2. ASSUME o.since # None, NEW i \in DOMAIN rows, rows[i].at >= o.since, i <= c
        PROVE  \E j \in DOMAIN rows : j > i /\ rows[j].at < o.since
    <3>1. c # 0 /\ c \in DOMAIN rows /\ rows[c].at < o.since BY <1>2, <1>3, <2>2
    <3>2. o.since \in Nat BY <2>2 DEF TailPlace, C!CommandsAssumption
    <3>3. \A j \in DOMAIN rows : rows[j] \in RowType BY <1>2
    <3>4. rows[i].at \in Nat /\ rows[c].at \in Nat BY <3>1, <3>3 DEF RowType
    <3>5. i # c BY <2>2, <3>1, <3>2, <3>4
    <3>6. c > i BY <1>2, <2>2, <3>5
    <3> QED BY <3>1, <3>6
  <2> QED BY <1>5, <1>6, <1>7, <1>8, <2>1, <2>2 DEF C!PrintedOnceInOrder
<1> QED BY <1>5, <1>6, <1>9, <1>10, <1>11, RowsStay DEF CommandsInv, CommandsTypes

LEMMA StopTailStep == ASSUME CommandsInv, C!StopTail PROVE CommandsInv'
<1>1. PICK o \in TailPlace : o = tail BY DEF CommandsInv, CommandsTypes
<1>2. PICK t \in TailPlace : t = [o EXCEPT !.pc = "off"] BY DEF TailPlace
<1>3. tail' = t BY <1>1, <1>2 DEF C!StopTail
<1>4. UNCHANGED <<rows, counter, going, tagger, printed, tails>> BY DEF C!StopTail
<1>5. t.pc = "off" /\ t.start = o.start /\ t.cursor = o.cursor BY <1>2 DEF TailPlace
<1>6. PrintedSoFar' BY <1>1, <1>3, <1>4, <1>5 DEF CommandsInv, PrintedSoFar
<1>7. WindowBegins' BY <1>3, <1>5 DEF WindowBegins
<1>8. C!PrintedOnceInOrder'
  BY <1>1, <1>3, <1>4, <1>5 DEF CommandsInv, C!PrintedOnceInOrder
<1> QED BY <1>3, <1>4, <1>6, <1>7, <1>8, RowsStay DEF CommandsInv, CommandsTypes

\* What a turn prints is behind what was printed, up to the new cursor, and it
\* leaves out none that matches.
LEMMA PollStep == ASSUME C!CommandsAssumption, CommandsInv, C!Poll PROVE CommandsInv'
<1>1. PICK o \in TailPlace : o = tail BY DEF CommandsInv, CommandsTypes
<1>2. o.start \in Nat /\ o.cursor \in Nat BY DEF TailPlace
<1>3. rows \in Seq(RowType) /\ Len(rows) \in Nat /\ DOMAIN rows = 1..Len(rows)
  BY DEF CommandsInv, CommandsTypes
<1>4. PICK new \in Seq(Nat) :
        /\ new = C!Fetched(o.cursor)
        /\ \A k \in DOMAIN new : new[k] \in DOMAIN rows /\ o.cursor < new[k]
        /\ \A k, l \in DOMAIN new : k < l => new[k] < new[l]
        /\ new # <<>> => \A i \in DOMAIN rows :
             o.cursor < i /\ i <= new[Len(new)] /\ rows[i].run \in Matching =>
               \E k \in DOMAIN new : new[k] = i
  <2>1. FirstPast(C!Fetched(o.cursor), o.cursor) BY <1>2, <1>3, FetchedIs
  <2> QED BY <2>1 DEF FirstPast
<1>5. new # <<>> /\ o.pc = "poll" BY <1>1, <1>4 DEF C!Poll
<1>6. Len(new) \in Nat \ {0} /\ DOMAIN new = 1..Len(new) /\ Len(new) \in DOMAIN new
  <2>1. Len(new) \in Nat /\ DOMAIN new = 1..Len(new) OBVIOUS
  <2>2. Len(new) # 0 BY <1>5
  <2> QED BY <2>1, <2>2
<1>7. PICK last \in Nat : last = new[Len(new)] BY <1>6
<1>8. last <= Len(rows) /\ o.cursor < last /\ \A k \in DOMAIN new : new[k] <= last
  <2>1. last \in DOMAIN rows /\ o.cursor < last BY <1>4, <1>6, <1>7
  <2>2. ASSUME NEW k \in DOMAIN new PROVE new[k] <= last
    <3>1. k = Len(new) \/ k < Len(new) BY <1>6
    <3>2. new[k] \in Nat OBVIOUS
    <3> QED BY <1>4, <1>6, <1>7, <3>1, <3>2
  <2> QED BY <1>3, <2>1, <2>2
<1>9. PICK t \in TailPlace : t = [o EXCEPT !.cursor = last] BY DEF TailPlace
<1>10. t.pc = o.pc /\ t.since = o.since /\ t.start = o.start /\ t.cursor = last
  BY <1>9 DEF TailPlace
<1>11. /\ tail' = t /\ UNCHANGED <<rows, counter, going, tagger, tails>>
       /\ printed' = printed \o new
  BY <1>1, <1>4, <1>7, <1>9 DEF C!Poll
<1>12. printed \in Seq(Nat) /\ Len(printed) \in Nat /\ DOMAIN printed = 1..Len(printed)
  BY DEF CommandsInv, CommandsTypes
<1>13. PICK all \in Seq(Nat) : all = printed \o new
  <2>1. printed \o new \in Seq(Nat) BY <1>12
  <2> QED BY <2>1
<1>14. /\ \A k \in DOMAIN printed : k \in DOMAIN all /\ all[k] = printed[k]
       /\ \A k \in DOMAIN new : k + Len(printed) \in DOMAIN all /\ all[k + Len(printed)] = new[k]
       /\ \A k \in DOMAIN all : \/ k \in DOMAIN printed
                                \/ k > Len(printed) /\ k - Len(printed) \in DOMAIN new
                                   /\ all[k] = new[k - Len(printed)]
  <2>1. Len(all) = Len(printed) + Len(new) BY <1>12, <1>13
  <2>2. \A k \in 1..(Len(printed) + Len(new)) :
          all[k] = IF k <= Len(printed) THEN printed[k] ELSE new[k - Len(printed)]
    BY <1>12, <1>13
  <2>3. DOMAIN all = 1..(Len(printed) + Len(new)) BY <2>1
  <2>4. ASSUME NEW k \in DOMAIN printed PROVE k \in DOMAIN all /\ all[k] = printed[k]
    BY <1>6, <1>12, <2>2, <2>3
  <2>5. ASSUME NEW k \in DOMAIN new
        PROVE  k + Len(printed) \in DOMAIN all /\ all[k + Len(printed)] = new[k]
    <3>1. /\ k + Len(printed) \in 1..(Len(printed) + Len(new))
          /\ ~(k + Len(printed) <= Len(printed)) /\ (k + Len(printed)) - Len(printed) = k
      BY <1>6, <1>12
    <3> QED BY <2>2, <2>3, <3>1
  <2>6. ASSUME NEW k \in DOMAIN all, k \notin DOMAIN printed
        PROVE  /\ k > Len(printed) /\ k - Len(printed) \in DOMAIN new
               /\ all[k] = new[k - Len(printed)]
    <3>1. k > Len(printed) /\ k - Len(printed) \in DOMAIN new BY <1>6, <1>12, <2>3, <2>6
    <3> QED BY <1>12, <2>2, <2>3, <2>6, <3>1
  <2> QED BY <2>4, <2>5, <2>6
<1>15. \A k \in DOMAIN printed : /\ printed[k] \in Nat /\ o.start < printed[k]
                                /\ printed[k] <= o.cursor
  BY <1>1, <1>12 DEF CommandsInv, PrintedSoFar
<1>16. o.start <= o.cursor BY <1>1 DEF CommandsInv, PrintedSoFar
<1>17. \A k \in DOMAIN new : new[k] \in Nat OBVIOUS
<1>18. PrintedSoFar'
  <2>1. \A k \in DOMAIN all : o.start < all[k] /\ all[k] <= last
    <3>1. \A k \in DOMAIN printed : o.start < printed[k] /\ printed[k] <= last
      BY <1>2, <1>8, <1>15
    <3>2. \A k \in DOMAIN new : o.start < new[k] /\ new[k] <= last
      BY <1>2, <1>4, <1>8, <1>16, <1>17
    <3> QED BY <1>14, <3>1, <3>2
  <2> QED BY <1>2, <1>5, <1>8, <1>10, <1>11, <1>13, <1>16, <2>1 DEF PrintedSoFar
<1>19. WindowBegins' BY <1>1, <1>10, <1>11 DEF CommandsInv, WindowBegins
<1>20. C!PrintedOnceInOrder'
  <2>1. ASSUME NEW i \in DOMAIN all, NEW j \in DOMAIN all, i < j PROVE all[i] < all[j]
    <3>1. i \in Nat /\ j \in Nat OBVIOUS
    <3>2. CASE j \in DOMAIN printed
      <4>1. i \in DOMAIN printed BY <1>12, <1>14, <2>1, <3>1, <3>2
      <4> QED BY <1>14, <2>1, <3>2, <4>1 DEF CommandsInv, C!PrintedOnceInOrder
    <3>3. CASE i \in DOMAIN printed /\ j \notin DOMAIN printed
      BY <1>2, <1>4, <1>14, <1>15, <1>17, <3>3, SMTT(30)
    <3>4. CASE i \notin DOMAIN printed /\ j \notin DOMAIN printed
      <4>1. i - Len(printed) < j - Len(printed) BY <1>12, <2>1, <3>1
      <4> QED BY <1>4, <1>14, <3>4, <4>1
    <3>5. j \notin DOMAIN printed => i \in DOMAIN printed \/ i \notin DOMAIN printed OBVIOUS
    <3> QED BY <3>2, <3>3, <3>4, <3>5
  <2>2. ASSUME NEW i \in DOMAIN rows, i > o.start, i <= last, rows[i].run \in Matching
        PROVE  \E j \in DOMAIN all : all[j] = i
    <3>1. CASE i <= o.cursor
      <4>1. PICK j \in DOMAIN printed : printed[j] = i
        BY <1>1, <2>2, <3>1 DEF CommandsInv, C!PrintedOnceInOrder
      <4> QED BY <1>14, <4>1
    <3>2. CASE o.cursor < i
      <4>1. PICK k \in DOMAIN new : new[k] = i BY <1>4, <1>5, <1>7, <2>2, <3>2
      <4> QED BY <1>14, <4>1
    <3> QED BY <1>2, <1>3, <3>1, <3>2
  <2>3. ASSUME o.since # None, NEW i \in DOMAIN rows, rows[i].at >= o.since, i <= o.start
        PROVE  \E j \in DOMAIN rows : j > i /\ rows[j].at < o.since
    BY <1>1, <1>5, <2>3 DEF CommandsInv, C!PrintedOnceInOrder
  <2> QED BY <1>10, <1>11, <1>13, <2>1, <2>2, <2>3 DEF C!PrintedOnceInOrder
<1>21. tails' \in Nat BY <1>11 DEF CommandsInv, CommandsTypes
<1> QED BY <1>11, <1>13, <1>18, <1>19, <1>20, <1>21, RowsStay

LEMMA CommandsInductive ==
  ASSUME C!CommandsAssumption, CommandsInv, [C!Next]_(C!vars) PROVE CommandsInv'
<1>1. CASE UNCHANGED C!vars
  <2>1. UNCHANGED <<rows, counter, going, tagger, tail, printed, tails>> BY <1>1 DEF C!vars
  <2>2. PrintedSoFar' BY <2>1 DEF CommandsInv, PrintedSoFar
  <2>3. WindowBegins' BY <2>1 DEF CommandsInv, WindowBegins
  <2>4. C!PrintedOnceInOrder' BY <2>1 DEF CommandsInv, C!PrintedOnceInOrder
  <2> QED BY <2>1, <2>2, <2>3, <2>4, RowsStay DEF CommandsInv, CommandsTypes
<1>2. ASSUME NEW r \in LiveRuns, C!EndRun(r) PROVE CommandsInv'
  <2>1. /\ UNCHANGED <<rows, counter, tagger, tail, printed, tails>>
        /\ going' \subseteq LiveRuns
    BY <1>2 DEF C!EndRun, CommandsInv, CommandsTypes
  <2>2. CommandsTypes' BY <2>1 DEF CommandsInv, CommandsTypes
  <2>3. (PrintedSoFar /\ WindowBegins /\ C!PrintedOnceInOrder)'
    BY <2>1 DEF CommandsInv, PrintedSoFar, WindowBegins, C!PrintedOnceInOrder
  <2>4. (RunNumbersRise /\ TagsAbove /\ TagsBehind)'
    BY <2>1 DEF CommandsInv, RunNumbersRise, TagsAbove, AboveThose, TagsBehind
  <2> QED BY <2>2, <2>3, <2>4 DEF CommandsInv
<1>3. ASSUME NEW r \in LiveRuns, NEW at \in Times, C!Emit(r, at) PROVE CommandsInv'
  BY <1>3, EmitStep
<1>4. ASSUME NEW g \in Taggers, NEW r \in LiveRuns, C!TagRead(g, r) PROVE CommandsInv'
  BY <1>4, TagReadStep
<1>5. ASSUME NEW g \in Taggers, C!TagInsert(g) PROVE CommandsInv' BY <1>5, TagInsertStep
<1>6. ASSUME NEW since \in Times \union {None}, C!StartTail(since) PROVE CommandsInv'
  BY <1>6, StartTailStep
<1>7. CASE C!ResolveCursor \/ C!Poll \/ C!StopTail
  BY <1>7, ResolveCursorStep, PollStep, StopTailStep
<1> QED BY <1>1, <1>2, <1>3, <1>4, <1>5, <1>6, <1>7 DEF C!Next

\* A run's own rows have rising numbers, and a tag's is above those it read.
LEMMA ClashExplained == ASSUME CommandsInv PROVE C!ClashOnlyIfTaggedLive
<1> SUFFICES ASSUME NEW i \in DOMAIN rows, NEW j \in DOMAIN rows, i < j,
                    rows[i].run = rows[j].run, rows[i].sequence = rows[j].sequence
             PROVE  \/ rows[i].by = "tag" /\ rows[j].by = "run"
                    \/ rows[j].by = "tag" /\ rows[j].readAt < i
  BY DEF C!ClashOnlyIfTaggedLive
<1>1. \A k \in DOMAIN rows : rows[k] \in RowType BY DEF CommandsInv, CommandsTypes
<1>2. /\ rows[i].by \in {"run", "tag"} /\ rows[j].by \in {"run", "tag"}
      /\ rows[i].sequence \in Nat /\ rows[j].readAt \in Nat /\ i \in Nat
  <2>1. rows[i] \in RowType /\ rows[j] \in RowType BY <1>1
  <2>2. i \in Nat BY DEF CommandsInv, CommandsTypes
  <2> QED BY <2>1, <2>2 DEF RowType
<1>3. CASE rows[j].by = "tag" /\ i <= rows[j].readAt
  <2>1. rows[i].sequence < rows[j].sequence
    BY <1>3 DEF CommandsInv, TagsAbove, AboveThose
  <2> QED BY <1>2, <2>1
<1>4. CASE rows[i].by = "run" /\ rows[j].by = "run"
  <2>1. rows[i].sequence < rows[j].sequence BY <1>4 DEF CommandsInv, RunNumbersRise
  <2> QED BY <1>2, <2>1
<1> QED BY <1>2, <1>3, <1>4

\* Whoever writes the log, and in whatever order it is dated: a tail prints each
\* matching row past its start once and in rowid order, and starts behind no row of its
\* window but those before a row that is dated too early (cli/tail.py:129-240); a tag's
\* number is another row's only if the run went on, or rows came while it was put in
\* (cli/tag.py:58-66).
THEOREM CommandsAlwaysTellTheLog == ClientsSpec => []CommandsTellTheLog
<1>1. ClientsInit => CommandsInv
  BY CommandsInitial, CommandsAssumption DEF ClientsInit
<1>2. [ClientsNext]_clientVars => [C!Next]_(C!vars)
  BY DEF ClientsNext, OfProjection, OfIngest, OfMigrate, OfCommands, OfSchema,
         clientVars, commandState, C!vars
<1>3. CommandsInv /\ [C!Next]_(C!vars) => CommandsInv'
  BY CommandsInductive, CommandsAssumption
<1>4. CommandsInv => CommandsTellTheLog
  BY ClashExplained DEF CommandsInv, CommandsTellTheLog
<1>5. QED BY <1>1, <1>2, <1>3, <1>4, PTL DEF ClientsSpec
=============================================================================
