----------------------------- MODULE FoldProofs -----------------------------
(***************************************************************************)
(* Induction on numbers, and what it says of the folds of sequences that   *)
(* RuleEpoch, ShardStore and KVCache are written with.                     *)
(*                                                                         *)
(* An induction theorem with a predicate for a parameter cannot be used    *)
(* here.  A set takes its place: a set of numbers with 0 and with the next *)
(* number of each of its numbers is all of them (CountingUp).              *)
(***************************************************************************)
EXTENDS Integers, SequencesExt, FiniteSetTheorems, WellFoundedInduction, TLAPS

\* A set of numbers that is not empty has a least one.
LEMMA LeastNumber ==
  ASSUME NEW T \in SUBSET Nat, T # {}
  PROVE  \E x \in T : \A y \in T : x <= y
<1>1. IsWellFoundedOn(OpToRel(<, Nat), Nat)
  BY NatLessThanWellFounded, Zenon
<1>2. \E x \in T : \A y \in T : ~(<<y, x>> \in OpToRel(<, Nat))
  BY <1>1, WFMin, Zenon
<1>3. \A x, y \in T : <<y, x>> \in OpToRel(<, Nat) <=> y < x
  BY DEF OpToRel
<1>4. PICK x \in T : \A y \in T : ~(<<y, x>> \in OpToRel(<, Nat))
  BY <1>2
<1>5. ASSUME NEW y \in T PROVE x <= y
  <2>1. ~(y < x)
    BY <1>3, <1>4
  <2>2. x \in Nat /\ y \in Nat
    OBVIOUS
  <2> QED  BY ONLY <2>1, <2>2
<1> QED  BY <1>5

\* Induction from 0 to n.
LEMMA CountingUp ==
  ASSUME NEW n \in Nat, NEW T, 0 \in T, \A k \in 0..n - 1 : k \in T => k + 1 \in T
  PROVE  0..n \subseteq T
<1> DEFINE Left == {k \in 0..n : k \notin T}
<1>1. Left \in SUBSET Nat
  OBVIOUS
<1>2. ASSUME NEW k \in Left, \A j \in Left : k <= j PROVE FALSE
  <2>1. k # 0 /\ k - 1 \in 0..n - 1
    BY <1>2
  <2>2. k - 1 \notin Left
    BY <1>2, <2>1
  <2> QED  BY <2>1, <2>2
<1> HIDE DEF Left
<1>3. Left = {}
  BY <1>1, <1>2, LeastNumber
<1> QED  BY <1>3 DEF Left

\* The largest element of a set of numbers up to n.
LEMMA LargestOf ==
  ASSUME NEW n \in Nat, NEW s \in SUBSET (0..n), s # {}
  PROVE  Max(s) \in s /\ \A y \in s : y <= Max(s)
<1> DEFINE down == {n - x : x \in s}
<1>0. \A x \in s : x \in Nat /\ x <= n /\ n - x \in Nat
  OBVIOUS
<1>1. down \in SUBSET Nat /\ down # {}
  BY <1>0
<1>2. PICK d \in down : \A y \in down : d <= y
  BY <1>1, LeastNumber
<1>3. PICK x \in s : d = n - x
  OBVIOUS
<1>4. \A y \in s : x >= y
  BY <1>0, <1>2, <1>3
<1>5. Max(s) \in s /\ \A y \in s : Max(s) >= y
  BY <1>4 DEF Max
<1> QED  BY <1>0, <1>5

\* Of the first i numbers the largest is i; the others are the first i - 1.
LEMMA LargestOfFirst ==
  ASSUME NEW n \in Nat, NEW i \in 1..n
  PROVE  /\ 1..i \in SUBSET (1..n) /\ 1..i # {}
         /\ Max(1..i) = i /\ (1..i) \ {i} = 1..i - 1
<1>1. 1..i \in SUBSET (0..n) /\ 1..i \in SUBSET (1..n) /\ i \in 1..i
  OBVIOUS
<1>2. Max(1..i) \in 1..i /\ i <= Max(1..i)
  BY <1>1, LargestOf
<1> QED  BY <1>1, <1>2

\* The table a fold computes: for each set of positions, the value after these
\* positions have been taken in their order.
IsFoldTable(t, n, X, base, F) ==
    /\ t \in [SUBSET (1..n) -> X]
    /\ \A s \in SUBSET (1..n) :
          t[s] = IF s = {} THEN base ELSE F[Max(s)][t[s \ {Max(s)}]]

\* The table of a fold over a finite sequence exists, so the CHOOSE in its
\* definition is that table.
LEMMA FoldTable ==
  ASSUME NEW n \in Nat, NEW X, NEW base \in X, NEW F \in [1..n -> [X -> X]]
  PROVE  \E t : IsFoldTable(t, n, X, base, F)
<1> DEFINE Table(t, k) ==
             \A s \in SUBSET (1..k) :
                t[s] = IF s = {} THEN base ELSE F[Max(s)][t[s \ {Max(s)}]]
           Good(k) == \E t \in [SUBSET (1..k) -> X] : Table(t, k)
           T == {k \in 0..n : Good(k)}
<1>1. Good(0)
  <2>1. [s \in SUBSET (1..0) |-> base] \in [SUBSET (1..0) -> X]
    OBVIOUS
  <2>2. \A s \in SUBSET (1..0) : s = {}
    OBVIOUS
  <2>3. Table([s \in SUBSET (1..0) |-> base], 0)
    BY <2>2
  <2> QED  BY <2>1, <2>3
<1>2. ASSUME NEW k \in 0..n - 1, Good(k) PROVE Good(k + 1)
  <2>1. PICK t \in [SUBSET (1..k) -> X] : Table(t, k)
    BY <1>2
  <2> DEFINE m == k + 1
             u == [s \in SUBSET (1..m) |-> IF m \in s THEN F[m][t[s \ {m}]] ELSE t[s]]
  <2>0. m \in 1..n /\ m \in Nat /\ k \in Nat
    OBVIOUS
  <2>2. \A s \in SUBSET (1..m) : /\ s \ {m} \in SUBSET (1..k)
                                 /\ m \notin s => s \in SUBSET (1..k)
    OBVIOUS
  <2>3. u \in [SUBSET (1..m) -> X]
    <3>1. \A s \in SUBSET (1..m) : m \in s => t[s \ {m}] \in X
      BY <2>2
    <3> QED  BY <2>2, <3>1
  <2>4. ASSUME NEW s \in SUBSET (1..m), s # {}
        PROVE  u[s] = F[Max(s)][u[s \ {Max(s)}]]
    <3>1. Max(s) \in s /\ \A y \in s : y <= Max(s)
      <4>1. s \in SUBSET (0..m)
        OBVIOUS
      <4> QED  BY <2>0, <2>4, <4>1, LargestOf
    <3>2. CASE m \in s
      <4>1. Max(s) = m
        <5>1. m <= Max(s) /\ Max(s) \in 1..m
          BY <3>1, <3>2
        <5> QED  BY <5>1, <2>0
      <4>2. u[s \ {m}] = t[s \ {m}]
        BY <2>2
      <4> QED  BY <3>2, <4>1, <4>2
    <3>3. CASE m \notin s
      <4>1. s \in SUBSET (1..k) /\ s \ {Max(s)} \in SUBSET (1..m) /\ m \notin s \ {Max(s)}
        BY <2>2, <3>3
      <4>2. u[s] = t[s] /\ u[s \ {Max(s)}] = t[s \ {Max(s)}]
        BY <3>3, <4>1
      <4>3. t[s] = F[Max(s)][t[s \ {Max(s)}]]
        BY <2>1, <2>4, <4>1
      <4> QED  BY <4>2, <4>3
    <3> QED  BY <3>2, <3>3
  <2>5. u[{}] = base
    <3>1. {} \in SUBSET (1..k) /\ {} \in SUBSET (1..m)
      OBVIOUS
    <3> QED  BY <2>1, <3>1
  <2> HIDE DEF u
  <2>6. Table(u, m)
    BY <2>4, <2>5
  <2>7. \E v \in [SUBSET (1..m) -> X] : Table(v, m)
    BY <2>3, <2>6
  <2> QED  BY <2>0, <2>7
<1> HIDE DEF Good
<1>3. 0 \in T /\ \A k \in 0..n - 1 : k \in T => k + 1 \in T
  BY <1>1, <1>2
<1> HIDE DEF T
<1>4. 0..n \subseteq T
  BY ONLY <1>3, n \in Nat, CountingUp
<1>5. Good(n)
  BY <1>4 DEF T
<1> QED  BY <1>5 DEF Good, IsFoldTable
\* In it, a set of positions comes after the set without its largest one.
LEMMA FoldSteps ==
  ASSUME NEW n \in Nat, NEW X, NEW base, NEW F, NEW t, IsFoldTable(t, n, X, base, F),
         NEW q \in SUBSET (1..n), q # {}
  PROVE  /\ Max(q) \in 1..n /\ t[q \ {Max(q)}] \in X
         /\ t[q] = F[Max(q)][t[q \ {Max(q)}]]
<1>1. n \in Nat /\ q \in SUBSET (0..n) /\ q # {}
  OBVIOUS
<1>2. Max(q) \in q
  BY ONLY <1>1, LargestOf
<1> QED  BY <1>2 DEF IsFoldTable

\* A fold ends where its steps stay.
LEMMA FoldStays ==
  ASSUME NEW n \in Nat, NEW X, NEW F \in [1..n -> [X -> X]], NEW it, it[{}] \in X,
         \A q \in SUBSET (1..n) : q # {} /\ it[q \ {Max(q)}] \in X =>
                                     it[q] = F[Max(q)][it[q \ {Max(q)}]]
  PROVE  it[1..n] \in X
<1> DEFINE T == {k \in 0..n : it[1..k] \in X}
<1>1. 0 \in T
  <2>1. 1..0 = {}
    OBVIOUS
  <2> QED  BY <2>1
<1>2. ASSUME NEW k \in 0..n - 1, k \in T PROVE k + 1 \in T
  <2>1. k + 1 \in 1..n /\ 1..(k + 1) - 1 = 1..k
    OBVIOUS
  <2>2. /\ 1..k + 1 \in SUBSET (1..n) /\ 1..k + 1 # {}
        /\ Max(1..k + 1) = k + 1 /\ (1..k + 1) \ {k + 1} = 1..k
    BY <2>1, LargestOfFirst
  <2>3. it[1..k + 1] = F[k + 1][it[1..k]]
    BY <1>2, <2>2
  <2> QED  BY <1>2, <2>1, <2>3
<1> HIDE DEF T
<1>3. 0..n \subseteq T
  BY ONLY <1>1, <1>2, n \in Nat, CountingUp
<1> QED  BY <1>3 DEF T

\* The table of steps that are taken one after the other.
IsStepTable(t, n, X, base, F) ==
    t \in [0..n -> X] /\ t[0] = base /\ \A k \in 1..n : t[k] = F[k][t[k - 1]]

\* Such a table exists.
LEMMA StepTable ==
  ASSUME NEW n \in Nat, NEW X, NEW base \in X, NEW F \in [1..n -> [X -> X]]
  PROVE  \E t : IsStepTable(t, n, X, base, F)
<1>1. PICK u : IsFoldTable(u, n, X, base, F)
  BY FoldTable
<1> DEFINE t == [k \in 0..n |-> u[1..k]]
<1>2. \A k \in 0..n : 1..k \in SUBSET (1..n)
  OBVIOUS
<1>3. t \in [0..n -> X]
  BY <1>1, <1>2 DEF IsFoldTable
<1>4. t[0] = base
  <2>1. 1..0 = {} /\ {} \in SUBSET (1..n) /\ 0 \in 0..n
    OBVIOUS
  <2>2. u[{}] = base
    BY <1>1, <2>1 DEF IsFoldTable
  <2>3. t[0] = u[1..0]
    BY <2>1
  <2> QED  BY ONLY <2>1, <2>2, <2>3
<1>5. ASSUME NEW k \in 1..n PROVE t[k] = F[k][t[k - 1]]
  <2>1. /\ 1..k \in SUBSET (1..n) /\ 1..k # {}
        /\ Max(1..k) = k /\ (1..k) \ {k} = 1..k - 1
    BY LargestOfFirst
  <2>2. k \in 0..n /\ k - 1 \in 0..n
    OBVIOUS
  <2> QED  BY SMTT(30), <1>1, <2>1, <2>2 DEF IsFoldTable
<1> HIDE DEF t
<1> QED  BY <1>3, <1>4, <1>5 DEF IsStepTable

-----------------------------------------------------------------------------
(* Sums over finite sets (FoldFunction).                                   *)

\* Induction from the empty set to the subsets of a finite set.
LEMMA SubsetsUp ==
  ASSUME NEW S, IsFiniteSet(S), NEW T, {} \in T,
         \A q \in SUBSET S : q # {} /\ (\A x \in q : q \ {x} \in T) => q \in T
  PROVE  SUBSET S \subseteq T
<1> DEFINE Left == {q \in SUBSET S : q \notin T}
           Sizes == {Cardinality(q) : q \in Left}
<1>1. \A q \in SUBSET S : IsFiniteSet(q) /\ Cardinality(q) \in Nat
  BY FS_Subset, FS_CardinalityType
<1>2. Sizes \in SUBSET Nat
  BY <1>1
<1>3. ASSUME NEW q \in Left, \A r \in Left : Cardinality(q) <= Cardinality(r) PROVE FALSE
  <2>1. q # {} /\ q \in SUBSET S
    BY <1>3
  <2>2. ASSUME NEW x \in q PROVE q \ {x} \in T
    <3>1. Cardinality(q \ {x}) = Cardinality(q) - 1
      BY <1>1, <2>1, FS_RemoveElement
    <3>2. q \ {x} \in SUBSET S /\ ~(Cardinality(q) <= Cardinality(q \ {x}))
      BY <1>1, <2>1, <3>1
    <3> QED  BY <1>3, <3>2
  <2> QED  BY <1>3, <2>1, <2>2
<1>4. Left = {}
  <2>1. SUFFICES ASSUME Left # {} PROVE FALSE
    OBVIOUS
  <2>2. Sizes # {}
    BY <2>1
  <2> HIDE DEF Sizes
  <2>3. PICK n \in Sizes : \A k \in Sizes : n <= k
    BY <1>2, <2>2, LeastNumber
  <2>4. PICK q \in Left : n = Cardinality(q)
    BY <2>3 DEF Sizes
  <2>5. \A r \in Left : Cardinality(q) <= Cardinality(r)
    BY <2>3, <2>4 DEF Sizes
  <2> QED  BY <1>3, <2>5
<1> QED  BY <1>4

\* The table a sum computes: for each subset, the sum of its values.
IsSumTable(t, S, g) ==
    /\ t \in [SUBSET S -> Int]
    /\ \A q \in SUBSET S :
          t[q] = IF q = {} THEN 0
                 ELSE g[CHOOSE x \in q : TRUE] + t[q \ {CHOOSE x \in q : TRUE}]

\* There is such a table.
LEMMA SumTable ==
  ASSUME NEW S, IsFiniteSet(S), NEW g \in [S -> Int]
  PROVE  \E t : IsSumTable(t, S, g)
<1> DEFINE Small(k) == {q \in SUBSET S : Cardinality(q) <= k}
           One(q) == CHOOSE x \in q : TRUE
           Table(t, k) == \A q \in Small(k) :
                t[q] = IF q = {} THEN 0 ELSE g[One(q)] + t[q \ {One(q)}]
           Good(k) == \E t \in [Small(k) -> Int] : Table(t, k)
           n == Cardinality(S)
           T == {k \in 0..n : Good(k)}
<1>0. /\ n \in Nat /\ Cardinality({}) = 0
      /\ \A q \in SUBSET S : IsFiniteSet(q) /\ Cardinality(q) \in 0..n
  BY FS_Subset, FS_CardinalityType, FS_EmptySet
<1>1. Good(0)
  <2>1. ASSUME NEW q \in Small(0) PROVE q = {}
    BY <1>0, FS_EmptySet
  <2>2. [q \in Small(0) |-> 0] \in [Small(0) -> Int] /\ Table([q \in Small(0) |-> 0], 0)
    BY <2>1
  <2> QED  BY <2>2
<1>2. ASSUME NEW k \in 0..n - 1, Good(k) PROVE Good(k + 1)
  <2>1. PICK t \in [Small(k) -> Int] : Table(t, k)
    BY <1>2
  <2> DEFINE u == [q \in Small(k + 1) |->
                      IF q \in Small(k) THEN t[q] ELSE g[One(q)] + t[q \ {One(q)}]]
  <2>2. ASSUME NEW q \in Small(k + 1), q # {}
        PROVE  One(q) \in q /\ q \ {One(q)} \in Small(k) /\ q \ {One(q)} \in Small(k + 1)
    <3>1. One(q) \in q
      BY <2>2
    <3>2. Cardinality(q \ {One(q)}) = Cardinality(q) - 1
      BY <1>0, <3>1, FS_RemoveElement
    <3>3. Cardinality(q) <= k + 1 /\ Cardinality(q) \in Nat /\ k \in Nat
      BY <1>0, <1>2
    <3> QED  BY <3>1, <3>2, <3>3
  <2>3. \A q \in Small(k + 1) : q \notin Small(k) => q # {}
    <3>1. {} \in SUBSET S /\ Cardinality({}) <= k
      BY <1>0, <1>2
    <3> QED  BY <3>1
  <2>4. u \in [Small(k + 1) -> Int]
    <3>1. ASSUME NEW q \in Small(k + 1), q \notin Small(k)
          PROVE  g[One(q)] + t[q \ {One(q)}] \in Int
      <4>1. q # {} /\ q \in SUBSET S
        BY <2>3, <3>1
      <4>2. One(q) \in S /\ q \ {One(q)} \in Small(k)
        BY <2>2, <4>1
      <4> HIDE DEF One, Small
      <4> QED  BY <4>2
    <3> QED  BY <3>1
  <2>5. ASSUME NEW q \in Small(k + 1)
        PROVE  u[q] = IF q = {} THEN 0 ELSE g[One(q)] + u[q \ {One(q)}]
    <3>1. CASE q \in Small(k)
      <4>1. q # {} => u[q \ {One(q)}] = t[q \ {One(q)}]
        BY <2>2
      <4> QED  BY <2>1, <3>1, <4>1
    <3>2. CASE q \notin Small(k)
      <4>1. q # {} /\ u[q \ {One(q)}] = t[q \ {One(q)}]
        BY <2>2, <2>3, <3>2
      <4> QED  BY <3>2, <4>1
    <3> QED  BY <3>1, <3>2
  <2> HIDE DEF u
  <2> QED  BY <2>4, <2>5
<1> HIDE DEF Good
<1>3. 0 \in T /\ \A k \in 0..n - 1 : k \in T => k + 1 \in T
  BY <1>0, <1>1, <1>2
<1> HIDE DEF T
<1>4. 0..n \subseteq T
  BY ONLY <1>0, <1>3, CountingUp
<1>5. Good(n)
  BY <1>0, <1>4 DEF T
<1>6. Small(n) = SUBSET S
  BY <1>0
<1> QED  BY <1>5, <1>6 DEF Good, IsSumTable

\* Any element may be added last.
LEMMA SumParts ==
  ASSUME NEW S, IsFiniteSet(S), NEW g \in [S -> Int], NEW t, IsSumTable(t, S, g),
         NEW r \in SUBSET S, NEW z \in r
  PROVE  t[r] = g[z] + t[r \ {z}]
<1> DEFINE T == {q \in SUBSET S : \A x \in q : t[q] = g[x] + t[q \ {x}]}
           One(q) == CHOOSE x \in q : TRUE
<1>1. {} \in T
  OBVIOUS
<1>2. ASSUME NEW q \in SUBSET S, q # {}, \A x \in q : q \ {x} \in T PROVE q \in T
  <2> SUFFICES ASSUME NEW x \in q PROVE t[q] = g[x] + t[q \ {x}]
    OBVIOUS
  <2>1. One(q) \in q /\ t[q] = g[One(q)] + t[q \ {One(q)}]
    BY <1>2 DEF IsSumTable
  <2> HIDE DEF One
  <2>2. CASE x # One(q)
    <3>1. t[q \ {One(q)}] = g[x] + t[(q \ {One(q)}) \ {x}]
      BY <1>2, <2>1, <2>2
    <3>2. t[q \ {x}] = g[One(q)] + t[(q \ {x}) \ {One(q)}]
      BY <1>2, <2>1, <2>2
    <3>3. (q \ {x}) \ {One(q)} = (q \ {One(q)}) \ {x}
      OBVIOUS
    <3>4. /\ g[x] \in Int /\ g[One(q)] \in Int
          /\ t[(q \ {One(q)}) \ {x}] \in Int
      BY <2>1 DEF IsSumTable
    <3> DEFINE y == One(q)
               rest == t[(q \ {y}) \ {x}]
    <3>5. /\ t[q] = g[y] + t[q \ {y}] /\ t[q \ {y}] = g[x] + rest
          /\ t[q \ {x}] = g[y] + rest
      BY <2>1, <3>1, <3>2, <3>3
    <3>6. g[x] \in Int /\ g[y] \in Int /\ rest \in Int
      BY <3>4
    <3> HIDE DEF y, rest
    <3> QED  BY ONLY <3>5, <3>6
  <2> QED  BY <2>1, <2>2
<1> HIDE DEF T
<1>3. SUBSET S \subseteq T
  BY ONLY <1>1, <1>2, IsFiniteSet(S), SubsetsUp
<1> QED  BY <1>3 DEF T

\* Sums of equal values are equal.
LEMMA SumSame ==
  ASSUME NEW S, IsFiniteSet(S), NEW g \in [S -> Int], NEW t, IsSumTable(t, S, g),
         NEW h \in [S -> Int], NEW u, IsSumTable(u, S, h),
         NEW r \in SUBSET S, \A x \in r : g[x] = h[x]
  PROVE  t[r] = u[r]
<1> DEFINE T == {q \in SUBSET S : (\A x \in q : g[x] = h[x]) => t[q] = u[q]}
           One(q) == CHOOSE x \in q : TRUE
<1>1. {} \in T
  BY DEF IsSumTable
<1>2. ASSUME NEW q \in SUBSET S, q # {}, \A x \in q : q \ {x} \in T PROVE q \in T
  <2>1. /\ One(q) \in q /\ t[q] = g[One(q)] + t[q \ {One(q)}]
        /\ u[q] = h[One(q)] + u[q \ {One(q)}]
    BY <1>2 DEF IsSumTable
  <2> HIDE DEF One
  <2> QED  BY <1>2, <2>1
<1> HIDE DEF T
<1>3. SUBSET S \subseteq T
  BY ONLY <1>1, <1>2, IsFiniteSet(S), SubsetsUp
<1> QED  BY <1>3 DEF T

\* A sum of zeros is 0.
LEMMA SumOfZeros ==
  ASSUME NEW S, IsFiniteSet(S), NEW g \in [S -> Int], NEW t, IsSumTable(t, S, g),
         \A x \in S : g[x] = 0
  PROVE  t[S] = 0
<1> DEFINE T == {q \in SUBSET S : t[q] = 0}
           One(q) == CHOOSE x \in q : TRUE
<1>1. {} \in T
  BY DEF IsSumTable
<1>2. ASSUME NEW q \in SUBSET S, q # {}, \A x \in q : q \ {x} \in T PROVE q \in T
  <2>1. One(q) \in q /\ t[q] = g[One(q)] + t[q \ {One(q)}]
    BY <1>2 DEF IsSumTable
  <2> HIDE DEF One
  <2> QED  BY <1>2, <2>1
<1> HIDE DEF T
<1>3. SUBSET S \subseteq T
  BY ONLY <1>1, <1>2, IsFiniteSet(S), SubsetsUp
<1> QED  BY <1>3 DEF T
-----------------------------------------------------------------------------
(* Sequences without one of their elements.                                *)

\* The element at a position is taken out; those after it move up.
LEMMA TakenOut ==
  ASSUME NEW A, NEW s \in Seq(A), NEW n \in 1..Len(s)
  PROVE  /\ RemoveAt(s, n) \in Seq(A) /\ Len(RemoveAt(s, n)) = Len(s) - 1
         /\ \A i \in 1..Len(s) - 1 : RemoveAt(s, n)[i] = IF i < n THEN s[i] ELSE s[i + 1]
<1> DEFINE a == SubSeq(s, 1, n - 1)
           b == SubSeq(s, n + 1, Len(s))
           r == RemoveAt(s, n)
<1>0. Len(s) \in Nat /\ n \in Nat /\ 1 <= n /\ n <= Len(s)
  OBVIOUS
<1>1. a \in Seq(A) /\ Len(a) = n - 1 /\ \A i \in 1..n - 1 : a[i] = s[i]
  BY <1>0
<1>2. b \in Seq(A) /\ Len(b) = Len(s) - n /\ \A i \in 1..Len(s) - n : b[i] = s[n + i]
  BY <1>0
<1>3. r = a \o b
  BY DEF RemoveAt
<1> HIDE DEF a, b, r
<1>4. r \in Seq(A) /\ Len(r) = Len(s) - 1
  <2>1. a \in Seq(A) /\ b \in Seq(A)
    BY <1>1, <1>2
  <2>2. a \o b \in Seq(A) /\ Len(a \o b) = Len(a) + Len(b)
    BY ONLY <2>1
  <2>3. r \in Seq(A)
    BY ONLY <2>2, <1>3
  <2>4. Len(r) = Len(a) + Len(b) /\ Len(a) = n - 1 /\ Len(b) = Len(s) - n
    BY ONLY <2>2, <1>1, <1>2, <1>3
  <2> QED  BY ONLY <2>3, <2>4, <1>0
<1>5. ASSUME NEW i \in 1..Len(s) - 1 PROVE r[i] = IF i < n THEN s[i] ELSE s[i + 1]
  <2>1. r[i] = IF i <= Len(a) THEN a[i] ELSE b[i - Len(a)]
    BY <1>1, <1>2, <1>3, <1>4, <1>5
  <2>2. CASE i < n
    BY <1>0, <1>1, <2>1, <2>2
  <2>3. CASE ~(i < n)
    <3>1. i - (n - 1) \in 1..Len(s) - n /\ n + (i - (n - 1)) = i + 1
      BY <1>0, <2>3
    <3> QED  BY <1>0, <1>1, <1>2, <2>1, <2>3, <3>1
  <2> QED  BY <2>2, <2>3
<1> QED  BY <1>4, <1>5 DEF r

\* The first occurrence of an element of a sequence without repetitions is its
\* only one.
LEMMA ElementRemoved ==
  ASSUME NEW A, NEW s \in Seq(A), IsInjective(s), NEW e
  PROVE  LET r == RemoveFirst(s, e)
         IN  r \in Seq(A) /\ IsInjective(r) /\ ToSet(r) = ToSet(s) \ {e}
<1>0. DOMAIN s = 1..Len(s) /\ Len(s) \in Nat
  OBVIOUS
<1>1. CASE ~\E i \in 1..Len(s) : s[i] = e
  BY <1>0, <1>1 DEF RemoveFirst, ToSet
<1>2. CASE \E i \in 1..Len(s) : s[i] = e
  <2> DEFINE I == {i \in 1..Len(s) : s[i] = e}
             n == Min(I)
             r == RemoveAt(s, n)
  <2>1. n \in 1..Len(s) /\ s[n] = e
    <3>1. I # {} /\ I \in SUBSET Nat
      BY <1>2
    <3> HIDE DEF I
    <3>2. \E i \in I : \A j \in I : i <= j
      BY ONLY <3>1, LeastNumber
    <3>3. n \in I
      BY <3>2 DEF Min
    <3> QED  BY <3>3 DEF I
  <2>2. RemoveFirst(s, e) = r
    BY <1>2 DEF RemoveFirst, SelectInSeq
  <2> HIDE DEF n
  <2>3. /\ r \in Seq(A) /\ Len(r) = Len(s) - 1 /\ DOMAIN r = 1..Len(s) - 1
        /\ \A i \in 1..Len(s) - 1 : r[i] = IF i < n THEN s[i] ELSE s[i + 1]
    <3>1. /\ r \in Seq(A) /\ Len(r) = Len(s) - 1
          /\ \A i \in 1..Len(s) - 1 : r[i] = IF i < n THEN s[i] ELSE s[i + 1]
      BY ONLY <2>1, s \in Seq(A), TakenOut
    <3> HIDE DEF r
    <3> QED  BY <3>1
  <2> HIDE DEF r
  <2>4. IsInjective(r)
    <3> SUFFICES ASSUME NEW i \in 1..Len(s) - 1, NEW j \in 1..Len(s) - 1, r[i] = r[j] PROVE i = j
      BY <2>3 DEF IsInjective
    <3> DEFINE back(k) == IF k < n THEN k ELSE k + 1
    <3>1. back(i) \in 1..Len(s) /\ back(j) \in 1..Len(s) /\ s[back(i)] = s[back(j)]
      BY <1>0, <2>1, <2>3
    <3>2. back(i) = back(j)
      BY <1>0, <3>1 DEF IsInjective
    <3> QED  BY <1>0, <2>1, <3>2
  <2>5. ASSUME NEW i \in 1..Len(s) - 1 PROVE r[i] \in ToSet(s) \ {e}
    <3> DEFINE k == IF i < n THEN i ELSE i + 1
    <3>1. k \in 1..Len(s) /\ r[i] = s[k] /\ k # n
      BY <1>0, <2>1, <2>3
    <3>2. s[k] # e
      BY <1>0, <2>1, <3>1 DEF IsInjective
    <3> QED  BY <1>0, <3>1, <3>2 DEF ToSet
  <2>6. ASSUME NEW k \in 1..Len(s), s[k] # e PROVE s[k] \in ToSet(r)
    <3> DEFINE i == IF k < n THEN k ELSE k - 1
    <3>1. k # n
      BY <2>1, <2>6
    <3>2. i \in 1..Len(s) - 1 /\ r[i] = s[k]
      BY <1>0, <2>1, <2>3, <3>1
    <3> QED  BY <2>3, <3>2 DEF ToSet
  <2>7. ToSet(r) = ToSet(s) \ {e}
    <3>1. ToSet(r) \subseteq ToSet(s) \ {e}
      BY <2>3, <2>5 DEF ToSet
    <3>2. ToSet(s) \ {e} \subseteq ToSet(r)
      BY <1>0, <2>6 DEF ToSet
    <3> QED  BY <3>1, <3>2
  <2> QED  BY <2>2, <2>3, <2>4, <2>7
<1> QED  BY <1>1, <1>2

\* An element that is appended for the first time.
LEMMA AppendedOnce ==
  ASSUME NEW A, NEW q \in Seq(A), IsInjective(q), NEW s \in A, s \notin ToSet(q)
  PROVE  /\ Append(q, s) \in Seq(A) /\ IsInjective(Append(q, s))
         /\ ToSet(Append(q, s)) = ToSet(q) \cup {s}
<1>1. /\ Append(q, s) \in Seq(A) /\ DOMAIN Append(q, s) = 1..Len(q) + 1
      /\ DOMAIN q = 1..Len(q) /\ Len(q) \in Nat
      /\ \A i \in 1..Len(q) + 1 : Append(q, s)[i] = IF i = Len(q) + 1 THEN s ELSE q[i]
  OBVIOUS
<1>2. IsInjective(Append(q, s))
  <2> SUFFICES ASSUME NEW i \in 1..Len(q) + 1, NEW j \in 1..Len(q) + 1,
                      Append(q, s)[i] = Append(q, s)[j]
               PROVE  i = j
    BY <1>1 DEF IsInjective
  <2>1. \A m \in 1..Len(q) : q[m] # s
    BY <1>1 DEF ToSet
  <2>2. \A m, n \in 1..Len(q) : q[m] = q[n] => m = n
    BY <1>1 DEF IsInjective
  <2> QED  BY <1>1, <2>1, <2>2
<1>3. ToSet(Append(q, s)) = ToSet(q) \cup {s}
  <2>1. \A i \in 1..Len(q) + 1 : Append(q, s)[i] \in ToSet(q) \cup {s}
    BY <1>1 DEF ToSet
  <2>2. \A i \in 1..Len(q) : i \in 1..Len(q) + 1 /\ Append(q, s)[i] = q[i]
    BY <1>1
  <2>3. Len(q) + 1 \in 1..Len(q) + 1 /\ Append(q, s)[Len(q) + 1] = s
    BY <1>1
  <2>4. ToSet(q) \cup {s} \subseteq ToSet(Append(q, s))
    BY <1>1, <2>2, <2>3 DEF ToSet
  <2>5. ToSet(Append(q, s)) \subseteq ToSet(q) \cup {s}
    BY <1>1, <2>1 DEF ToSet
  <2> QED  BY <2>4, <2>5
<1> QED  BY <1>1, <1>2, <1>3

\* Taking an element out is taking out its position.
LEMMA ElementPlace ==
  ASSUME NEW A, NEW s \in Seq(A), IsInjective(s), NEW n \in 1..Len(s)
  PROVE  RemoveFirst(s, s[n]) = RemoveAt(s, n)
<1> DEFINE I == {i \in 1..Len(s) : s[i] = s[n]}
<1>1. I = {n}
  BY DEF IsInjective
<1>2. Min({n}) = n
  BY DEF Min
<1> QED  BY <1>1, <1>2 DEF RemoveFirst, SelectInSeq

\* The tail of a sequence is what is left without its first position.
LEMMA TailIsTakenOut ==
  ASSUME NEW A, NEW s \in Seq(A), s # <<>>
  PROVE  1 \in 1..Len(s) /\ Tail(s) = RemoveAt(s, 1) /\ Head(s) = s[1]
<1>1. /\ 1 \in 1..Len(s) /\ Len(s) \in Nat /\ Head(s) = s[1]
      /\ Tail(s) \in Seq(A) /\ Len(Tail(s)) = Len(s) - 1
      /\ \A i \in 1..Len(s) - 1 : Tail(s)[i] = s[i + 1]
  OBVIOUS
<1>2. /\ RemoveAt(s, 1) \in Seq(A) /\ Len(RemoveAt(s, 1)) = Len(s) - 1
      /\ \A i \in 1..Len(s) - 1 : RemoveAt(s, 1)[i] = IF i < 1 THEN s[i] ELSE s[i + 1]
  BY <1>1, TakenOut
<1>3. \A i \in 1..Len(s) - 1 : ~(i < 1)
  BY <1>1
<1> DEFINE a == Tail(s)
           b == RemoveAt(s, 1)
<1>4. /\ a \in Seq(A) /\ b \in Seq(A) /\ Len(a) = Len(b)
      /\ \A i \in 1..Len(a) : a[i] = b[i]
  BY <1>1, <1>2, <1>3
<1> HIDE DEF a, b
<1>5. a = b
  BY <1>4
<1> QED  BY <1>1, <1>5 DEF a, b
=============================================================================
