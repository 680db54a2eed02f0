----------------------------- MODULE ReconcileProofs -----------------------------
(***************************************************************************)
(* Theorems about the three-way merge, for all contents: what mergeOrder,  *)
(* mergeValue on elements, mergeSections and Merge make of a base and two  *)
(* versions of it.  The loops of the code are folds over a sequence; the   *)
(* library's induction theorems cannot be used for them, so that each is   *)
(* first turned into a function from the number of rounds to what the loop *)
(* has computed (LoopExists, FoldExists), and invariants of a loop are     *)
(* proved by looking at the first round that breaks them (LeastNumber).    *)
(***************************************************************************)
EXTENDS Reconcile, NaturalsInduction, WellFoundedInduction, SequenceTheorems,
        FiniteSetTheorems, TLAPS

--------------------------------------------------------------------------------
(***************************************************************************)
(* Numbers and loops.                                                      *)
(***************************************************************************)
LEMMA LeastNumber ==
  ASSUME NEW S \in SUBSET Nat, S # {}
  PROVE  \E m \in S : \A n \in S : m <= n
<1>1. PICK m \in S : \A n \in S : ~(<<n, m>> \in OpToRel(<, Nat))
  BY NatLessThanWellFounded, WFMin
<1>2. \A n \in S : m <= n
  <2> SUFFICES ASSUME NEW n \in S, n < m PROVE FALSE
    OBVIOUS
  <2>1. <<n, m>> \in OpToRel(<, Nat)
    BY DEF OpToRel
  <2> QED
    BY <1>1, <2>1
<1> QED
  BY <1>2

\* The numbers of rounds after which something holds: what holds before the first round
\* and is kept by each round holds after all of them.
Inductive(S, n) == 0 \in S /\ \A k \in 1 .. n : k - 1 \in S => k \in S

LEMMA CountUp ==
  ASSUME NEW n \in Nat, NEW S, Inductive(S, n)
  PROVE  n \in S /\ \A k \in 0 .. n : k \in S
<1> SUFFICES ASSUME {k \in 0 .. n : k \notin S} # {} PROVE FALSE
  BY n \in 0 .. n
<1>1. PICK m \in {k \in 0 .. n : k \notin S} : \A k \in {k \in 0 .. n : k \notin S} : m <= k
  <2>1. {k \in 0 .. n : k \notin S} \in SUBSET Nat
    OBVIOUS
  <2> QED
    BY <2>1, LeastNumber
<1>2. m # 0 /\ m \in 1 .. n /\ m - 1 \in 0 .. n
  BY <1>1 DEF Inductive
<1>3. m - 1 \in S
  BY <1>1, <1>2
<1> QED
  BY <1>1, <1>2, <1>3 DEF Inductive

LEMMA GreatestNumber ==
  ASSUME NEW n \in Nat, NEW s \in SUBSET (1 .. n), s # {}
  PROVE  Max(s) \in s /\ \A y \in s : y <= Max(s)
<1>1. PICK m \in {n - y : y \in s} : \A k \in {n - y : y \in s} : m <= k
  <2>1. \A y \in s : n - y \in Nat
    OBVIOUS
  <2>2. \E y \in s : n - y \in {n - x : x \in s}
    OBVIOUS
  <2>3. {n - y : y \in s} \in SUBSET Nat /\ {n - y : y \in s} # {}
    BY <2>1, <2>2
  <2> QED
    BY <2>3, LeastNumber
<1>2. PICK x \in s : m = n - x
  BY <1>1
<1>3. ASSUME NEW y \in s PROVE x >= y
  <2>1. n - y \in {n - z : z \in s} /\ x \in 1 .. n /\ y \in 1 .. n
    OBVIOUS
  <2>2. n - x <= n - y
    BY <1>1, <1>2, <2>1
  <2> QED
    BY <2>1, <2>2
<1> QED
  BY <1>3 DEF Max

\* The sets of positions a fold passes through.
PrefixFacts(n) ==
  /\ 1 .. 0 = {}
  /\ \A k \in 1 .. n : /\ 1 .. k # {} /\ Max(1 .. k) = k
                       /\ (1 .. k) \ {k} = 1 .. (k - 1) /\ 1 .. k \in SUBSET (1 .. n)
  /\ \A k \in 0 .. n : 1 .. k \in SUBSET (1 .. n)

LEMMA PrefixSets ==
  ASSUME NEW n \in Nat
  PROVE  PrefixFacts(n)
<1>1. ASSUME NEW k \in 1 .. n PROVE Max(1 .. k) = k
  <2> DEFINE s == 1 .. k
  <2>1. s \in SUBSET (1 .. k) /\ s # {} /\ k \in Nat /\ k \in s
    OBVIOUS
  <2> HIDE DEF s
  <2>2. Max(s) \in s /\ k <= Max(s)
    BY <2>1, GreatestNumber
  <2> QED
    BY <2>2 DEF s
<1>2. 1 .. 0 = {} /\ \A k \in 0 .. n : 1 .. k \in SUBSET (1 .. n)
  OBVIOUS
<1>3. \A k \in 1 .. n : 1 .. k # {} /\ 1 .. k \in SUBSET (1 .. n)
  OBVIOUS
<1>4. \A k \in 1 .. n : (1 .. k) \ {k} = 1 .. (k - 1)
  OBVIOUS
<1> QED
  BY <1>1, <1>2, <1>3, <1>4, Zenon DEF PrefixFacts

\* A loop of n rounds over values of A computes something.
IsLoop(f, A, a, n, step) ==
  f \in [0 .. n -> A] /\ f[0] = a /\ \A k \in 1 .. n : f[k] = step[k][f[k - 1]]

LEMMA LoopExists ==
  ASSUME NEW A, NEW a \in A, NEW n \in Nat, NEW step \in [1 .. n -> [A -> A]]
  PROVE  \E f : IsLoop(f, A, a, n, step)
<1> DEFINE Computes(f, m) == f[0] = a /\ \A k \in 1 .. m : f[k] = step[k][f[k - 1]]
           S == {m \in 0 .. n : \E f \in [0 .. m -> A] : Computes(f, m)}
<1>1. 0 \in S
  <2>1. [x \in 0 .. 0 |-> a] \in [0 .. 0 -> A] /\ Computes([x \in 0 .. 0 |-> a], 0)
    OBVIOUS
  <2> HIDE DEF Computes
  <2>2. \E f \in [0 .. 0 -> A] : Computes(f, 0)
    BY <2>1
  <2>3. 0 \in 0 .. n
    OBVIOUS
  <2> QED
    BY ONLY <2>2, <2>3
<1>2. ASSUME NEW m \in 1 .. n, m - 1 \in S PROVE m \in S
  <2>1. PICK f \in [0 .. m - 1 -> A] : Computes(f, m - 1)
    BY <1>2
  <2> DEFINE g == [k \in 0 .. m |-> IF k = m THEN step[m][f[m - 1]] ELSE f[k]]
  <2>2. g \in [0 .. m -> A]
    <3>1. f[m - 1] \in A /\ step[m][f[m - 1]] \in A
      OBVIOUS
    <3> QED
      BY <3>1
  <2>3. Computes(g, m)
    <3>1. g[0] = a
      BY <2>1
    <3>2. ASSUME NEW k \in 1 .. m PROVE g[k] = step[k][g[k - 1]]
      <4>1. g[k - 1] = f[k - 1]
        OBVIOUS
      <4>2. CASE k = m
        <5>1. g[m] = step[m][f[m - 1]]
          OBVIOUS
        <5> QED
          BY ONLY <4>1, <4>2, <5>1
      <4>3. CASE k # m
        BY <2>1, <4>1, <4>3
      <4> QED
        BY <4>2, <4>3
    <3> QED
      BY <3>1, <3>2
  <2> HIDE DEF g, Computes
  <2> QED
    BY <2>2, <2>3
<1>3. n \in S
  <2>1. Inductive(S, n)
    <3> HIDE DEF S
    <3> QED
      BY ONLY <1>1, <1>2 DEF Inductive
  <2> HIDE DEF S
  <2> QED
    BY <2>1, CountUp
<1>4. PICK f \in [0 .. n -> A] : Computes(f, n)
  BY <1>3
<1> QED
  BY <1>4 DEF IsLoop

(***************************************************************************)
(* Folds.tla defines a fold over the positions of a sequence as a function *)
(* of all sets of positions, of which it uses the largest one last: there  *)
(* is such a function.                                                     *)
(***************************************************************************)
IsFold(it, A, a, n, step) ==
  /\ it \in [SUBSET (1 .. n) -> A]
  /\ \A s \in SUBSET (1 .. n) : it[s] = IF s = {} THEN a ELSE step[Max(s)][it[s \ {Max(s)}]]

LEMMA FoldExists ==
  ASSUME NEW A, NEW a \in A, NEW n \in Nat, NEW step \in [1 .. n -> [A -> A]]
  PROVE  \E it : IsFold(it, A, a, n, step)
<1> DEFINE Runs(s, f) == /\ f[0] = a
                         /\ \A k \in 1 .. n :
                              f[k] = IF k \in s THEN step[k][f[k - 1]] ELSE f[k - 1]
           run == [s \in SUBSET (1 .. n) |-> CHOOSE f \in [0 .. n -> A] : Runs(s, f)]
           it == [s \in SUBSET (1 .. n) |-> run[s][n]]
<1>1. ASSUME NEW s \in SUBSET (1 .. n)
      PROVE  run[s] \in [0 .. n -> A] /\ Runs(s, run[s])
  <2> DEFINE skip == [k \in 1 .. n |-> IF k \in s THEN step[k] ELSE [x \in A |-> x]]
  <2>1. skip \in [1 .. n -> [A -> A]]
    OBVIOUS
  <2>2. PICK f : IsLoop(f, A, a, n, skip)
    <3> HIDE DEF skip
    <3> QED
      BY <2>1, LoopExists
  <2>3. Runs(s, f) /\ f \in [0 .. n -> A]
    <3>1. f \in [0 .. n -> A] /\ f[0] = a
      BY <2>2 DEF IsLoop
    <3> SUFFICES ASSUME NEW k \in 1 .. n
                 PROVE  f[k] = IF k \in s THEN step[k][f[k - 1]] ELSE f[k - 1]
      BY <3>1
    <3>2. f[k - 1] \in A /\ f[k] = skip[k][f[k - 1]]
      BY <2>2, <3>1 DEF IsLoop
    <3> QED
      BY <3>2
  <2> HIDE DEF Runs
  <2> QED
    BY <2>3
<1> HIDE DEF run
<1>2. it \in [SUBSET (1 .. n) -> A]
  <2>1. \A s \in SUBSET (1 .. n) : run[s] \in [0 .. n -> A]
    BY <1>1
  <2> QED
    BY <2>1
<1>3. it[{}] = a
  <2> DEFINE S == {k \in 0 .. n : run[{}][k] = a}
  <2>1. Runs({}, run[{}])
    BY <1>1
  <2>2. Inductive(S, n)
    BY <2>1 DEF Inductive
  <2>3. n \in S
    <3> HIDE DEF S
    <3> QED
      BY <2>2, CountUp
  <2> QED
    BY <2>3
<1>4. ASSUME NEW s \in SUBSET (1 .. n), s # {}
      PROVE  it[s] = step[Max(s)][it[s \ {Max(s)}]]
  <2> DEFINE x == Max(s)
             t == s \ {x}
             f == run[s]
             g == run[t]
  <2>1. x \in s /\ x \in 1 .. n /\ \A y \in s : y <= x
    BY <1>4, GreatestNumber
  <2>2. t \in SUBSET (1 .. n)
    OBVIOUS
  <2>3. Runs(s, f) /\ Runs(t, g) /\ f \in [0 .. n -> A] /\ g \in [0 .. n -> A]
    <3> HIDE DEF Runs, x
    <3> QED
      BY <1>1, <2>2
  <2> HIDE DEF x, f, g
  <2> DEFINE S == {k \in 0 .. n : /\ k < x => g[k] = f[k]
                                  /\ k >= x => f[k] = f[x] /\ g[k] = g[x - 1]}
  <2>4. 0 \in S
    BY <2>1, <2>3
  <2>5. ASSUME NEW k \in 1 .. n, k - 1 \in S PROVE k \in S
    <3>1. /\ f[k] = IF k \in s THEN step[k][f[k - 1]] ELSE f[k - 1]
          /\ g[k] = IF k \in t THEN step[k][g[k - 1]] ELSE g[k - 1]
      BY <2>3
    <3>2. /\ k - 1 < x => g[k - 1] = f[k - 1]
          /\ k - 1 >= x => f[k - 1] = f[x] /\ g[k - 1] = g[x - 1]
      BY <2>5
    <3>3. k # x => (k \in s <=> k \in t)
      BY DEF x
    <3>4. x \in 1 .. n /\ x \notin t
      BY <2>1 DEF x
    <3>5. CASE k < x
      <4>1. g[k - 1] = f[k - 1]
        BY <3>2, <3>4, <3>5
      <4>2. g[k] = f[k]
        BY <3>1, <3>3, <3>5, <4>1
      <4> QED
        BY <3>4, <3>5, <4>2
    <3>6. CASE k = x
      <4>1. g[k] = g[x - 1]
        BY ONLY <3>1, <3>4, <3>6
      <4> QED
        BY <3>4, <3>6, <4>1
    <3>7. CASE k > x
      <4>1. k \notin s /\ k \notin t
        BY <2>1, <3>3, <3>4, <3>7
      <4>2. f[k] = f[k - 1] /\ g[k] = g[k - 1] /\ k - 1 >= x
        BY <3>1, <3>4, <3>7, <4>1
      <4>3. f[k] = f[x] /\ g[k] = g[x - 1]
        BY <3>2, <4>2
      <4> QED
        BY <3>4, <3>7, <4>3
    <3> QED
      BY <3>4, <3>5, <3>6, <3>7
  <2>6. n \in S /\ x - 1 \in S
    <3> HIDE DEF S
    <3>1. Inductive(S, n)
      BY <2>4, <2>5 DEF Inductive
    <3>2. \A k \in 0 .. n : k \in S
      BY <3>1, CountUp
    <3>3. n \in 0 .. n /\ x - 1 \in 0 .. n
      BY <2>1
    <3> QED
      BY <3>2, <3>3
  <2>7. f[n] = step[x][f[x - 1]] /\ g[n] = g[x - 1] /\ g[x - 1] = f[x - 1]
    BY <2>1, <2>3, <2>6
  <2> QED
    BY <2>2, <2>7 DEF x, f, g
<1> HIDE DEF it
<1> QED
  BY <1>2, <1>3, <1>4 DEF IsFold
--------------------------------------------------------------------------------
(***************************************************************************)
(* The elements of a sequence that are in a set.                           *)
(***************************************************************************)
OnlyRounds(L, s, S) ==
  /\ L[0] = <<>>
  /\ \A k \in 1 .. Len(s) : L[k] = IF s[k] \in S THEN Append(L[k - 1], s[k]) ELSE L[k - 1]

LEMMA OnlyLoop ==
  ASSUME NEW X, NEW s \in Seq(X), NEW S
  PROVE  \E L \in [0 .. Len(s) -> Seq(X)] : OnlyRounds(L, s, S) /\ Only(s, S) = L[Len(s)]
<1> DEFINE n == Len(s)
           Round(k, acc) == IF s[k] \in S THEN Append(acc, s[k]) ELSE acc
           step == [k \in 1 .. n |-> [acc \in Seq(X) |-> Round(k, acc)]]
           Folds(it) == it = [p \in SUBSET DOMAIN s |->
                                 IF p = {} THEN <<>> ELSE Round(Max(p), it[p \ {Max(p)}])]
           fold == CHOOSE it : Folds(it)
           L == [k \in 0 .. n |-> fold[1 .. k]]
<1>1. n \in Nat /\ DOMAIN s = 1 .. n /\ <<>> \in Seq(X)
      /\ \A k \in 1 .. n : \A acc \in Seq(X) : Round(k, acc) \in Seq(X)
  OBVIOUS
<1>2. Only(s, S) = fold[DOMAIN s]
  BY DEF Only, FoldLeft, MapThenFoldSet
<1>3. step \in [1 .. n -> [Seq(X) -> Seq(X)]]
  <2> HIDE DEF Round, n
  <2> QED
    BY <1>1
<1>4. PICK it : IsFold(it, Seq(X), <<>>, n, step)
  <2> HIDE DEF step, n
  <2> QED
    BY <1>1, <1>3, FoldExists
<1>5. \A p \in SUBSET (1 .. n) : it[p] = IF p = {} THEN <<>> ELSE Round(Max(p), it[p \ {Max(p)}])
  <2> HIDE DEF Round, n
  <2> SUFFICES ASSUME NEW p \in SUBSET (1 .. n), p # {}
               PROVE  it[p] = Round(Max(p), it[p \ {Max(p)}])
    BY <1>4 DEF IsFold
  <2>1. Max(p) \in 1 .. n /\ it[p \ {Max(p)}] \in Seq(X)
    BY <1>1, <1>4, GreatestNumber DEF IsFold
  <2> QED
    BY <1>4, <2>1 DEF IsFold
<1>6. Folds(it)
  <2> HIDE DEF Round, n
  <2> QED
    BY <1>1, <1>4, <1>5 DEF IsFold
<1>7. Folds(fold)
  <2> HIDE DEF Folds
  <2> QED
    BY <1>6
<1>p. /\ 1 .. 0 = {}
      /\ \A k \in 1 .. n : /\ 1 .. k # {} /\ Max(1 .. k) = k
                           /\ (1 .. k) \ {k} = 1 .. (k - 1) /\ 1 .. k \in SUBSET (1 .. n)
      /\ \A k \in 0 .. n : 1 .. k \in SUBSET (1 .. n)
  <2>1. n \in Nat
    BY <1>1
  <2> HIDE DEF n
  <2>2. PrefixFacts(n)
    BY <2>1, PrefixSets
  <2> QED
    BY ONLY <2>2 DEF PrefixFacts
<1>8. fold[{}] = <<>> /\ \A k \in 1 .. n : fold[1 .. k] = Round(k, fold[1 .. (k - 1)])
  <2> HIDE DEF Round, n, fold
  <2>1. \A p \in SUBSET (1 .. n) :
          fold[p] = IF p = {} THEN <<>> ELSE Round(Max(p), fold[p \ {Max(p)}])
    BY <1>1, <1>7
  <2>2. fold[{}] = <<>>
    BY <2>1
  <2>3. ASSUME NEW k \in 1 .. n PROVE fold[1 .. k] = Round(k, fold[1 .. (k - 1)])
    <3>1. /\ 1 .. k \in SUBSET (1 .. n) /\ 1 .. k # {} /\ Max(1 .. k) = k
          /\ (1 .. k) \ {k} = 1 .. (k - 1)
      BY <1>1, <1>p
    <3>2. fold[1 .. k] = Round(Max(1 .. k), fold[(1 .. k) \ {Max(1 .. k)}])
      BY ONLY <2>1, <3>1
    <3> QED
      BY ONLY <3>1, <3>2
  <2> QED
    BY <2>2, <2>3
<1>9. \A k \in 0 .. n : fold[1 .. k] \in Seq(X)
  <2> DEFINE M == {k \in 0 .. n : fold[1 .. k] \in Seq(X)}
  <2> HIDE DEF Round, n, fold
  <2>1. 0 \in M
    <3>1. 0 \in 0 .. n /\ fold[1 .. 0] = <<>>
      BY <1>1, <1>p, <1>8
    <3> QED
      BY <1>1, <3>1
  <2>2. \A k \in 1 .. n : k - 1 \in M => k \in M
    BY <1>1, <1>8
  <2>3. Inductive(M, n)
    BY <2>1, <2>2 DEF Inductive
  <2> HIDE DEF M
  <2>4. \A k \in 0 .. n : k \in M
    BY <1>1, <2>3, CountUp
  <2> QED
    BY <2>4 DEF M
<1>10. L \in [0 .. n -> Seq(X)] /\ L[n] = Only(s, S)
  <2> HIDE DEF fold, n
  <2> QED
    BY <1>1, <1>2, <1>9
<1>11. OnlyRounds(L, s, S)
  <2>1. L[0] = <<>>
    <3> HIDE DEF fold, n
    <3> QED
      BY <1>1, <1>p, <1>8
  <2>2. ASSUME NEW k \in 1 .. n PROVE L[k] = Round(k, L[k - 1])
    <3> HIDE DEF fold, n, Round
    <3> QED
      BY <1>1, <1>8
  <2> QED
    BY <2>1, <2>2 DEF OnlyRounds
<1> HIDE DEF L, n
<1> QED
  BY <1>10, <1>11 DEF n

\* What a fold has computed after each position: the rounds of a loop.
FoldRounds(fold, A, n, step) ==
  \A k \in 1 .. n : fold[1 .. (k - 1)] \in A => fold[1 .. k] = step[k][fold[1 .. (k - 1)]]

LEMMA FoldIsLoop ==
  ASSUME NEW A, NEW a \in A, NEW n \in Nat, NEW step \in [1 .. n -> [A -> A]],
         NEW fold, fold[{}] = a, FoldRounds(fold, A, n, step)
  PROVE  IsLoop([k \in 0 .. n |-> fold[1 .. k]], A, a, n, step)
<1> DEFINE M == {k \in 0 .. n : fold[1 .. k] \in A}
<1>1. 0 \in 0 .. n /\ n \in 0 .. n /\ 1 .. 0 = {}
  OBVIOUS
<1>2. \A k \in 1 .. n : k - 1 \in 0 .. n /\ k \in 0 .. n
  OBVIOUS
<1>3. Inductive(M, n)
  <2>1. 0 \in M
    BY <1>1
  <2>2. ASSUME NEW k \in 1 .. n, k - 1 \in M PROVE k \in M
    <3>1. fold[1 .. (k - 1)] \in A
      BY <2>2
    <3>2. fold[1 .. k] = step[k][fold[1 .. (k - 1)]]
      BY <3>1 DEF FoldRounds
    <3> QED
      BY <1>2, <3>1, <3>2
  <2> HIDE DEF M
  <2> QED
    BY <2>1, <2>2 DEF Inductive
<1>4. \A k \in 0 .. n : fold[1 .. k] \in A
  <2> HIDE DEF M
  <2>1. \A k \in 0 .. n : k \in M
    BY <1>3, CountUp
  <2> QED
    BY <2>1 DEF M
<1> DEFINE f == [k \in 0 .. n |-> fold[1 .. k]]
<1>5. f \in [0 .. n -> A] /\ f[0] = a
  BY <1>1, <1>4
<1>6. \A k \in 1 .. n : f[k] = step[k][f[k - 1]]
  BY <1>2, <1>4 DEF FoldRounds
<1> HIDE DEF f
<1>7. IsLoop(f, A, a, n, step)
  BY <1>5, <1>6 DEF IsLoop
<1> QED
  BY <1>7 DEF f

\* x stands in front of y in s.
Precedes(s, x, y) == \E i, j \in DOMAIN s : i < j /\ s[i] = x /\ s[j] = y

LEMMA AppendFacts ==
  ASSUME NEW X, NEW s \in Seq(X), NEW z \in X
  PROVE  /\ Append(s, z) \in Seq(X) /\ ToSet(Append(s, z)) = ToSet(s) \cup {z}
         /\ IsInjective(s) /\ z \notin ToSet(s) => IsInjective(Append(s, z))
         /\ \A x, y : Precedes(Append(s, z), x, y)
                        <=> Precedes(s, x, y) \/ (x \in ToSet(s) /\ y = z)
<1> DEFINE t == Append(s, z)
           n == Len(s)
<1>1. /\ t \in Seq(X) /\ n \in Nat /\ DOMAIN s = 1 .. n /\ DOMAIN t = 1 .. n + 1
      /\ t[n + 1] = z /\ \A i \in 1 .. n : t[i] = s[i]
  OBVIOUS
<1> HIDE DEF t, n
<1>2. ToSet(t) = ToSet(s) \cup {z}
  <2>1. ASSUME NEW i \in 1 .. n + 1 PROVE t[i] \in ToSet(s) \cup {z}
    BY <1>1 DEF ToSet
  <2>2. ASSUME NEW i \in 1 .. n PROVE s[i] \in ToSet(t)
    BY <1>1 DEF ToSet
  <2>3. z \in ToSet(t)
    BY <1>1 DEF ToSet
  <2> QED
    BY <1>1, <2>1, <2>2, <2>3 DEF ToSet
<1>3. ASSUME IsInjective(s), z \notin ToSet(s) PROVE IsInjective(t)
  <2> SUFFICES ASSUME NEW i \in 1 .. n + 1, NEW j \in 1 .. n + 1, t[i] = t[j] PROVE i = j
    BY <1>1 DEF IsInjective
  <2>1. \A k \in 1 .. n : s[k] # z
    BY <1>1, <1>3 DEF ToSet
  <2> QED
    BY <1>1, <1>3, <2>1 DEF IsInjective
<1>4. ASSUME NEW x, NEW y
      PROVE  Precedes(t, x, y) <=> Precedes(s, x, y) \/ (x \in ToSet(s) /\ y = z)
  <2>1. ASSUME Precedes(t, x, y) PROVE Precedes(s, x, y) \/ (x \in ToSet(s) /\ y = z)
    <3>1. PICK i \in 1 .. n + 1, j \in 1 .. n + 1 : i < j /\ t[i] = x /\ t[j] = y
      BY <1>1, <2>1 DEF Precedes
    <3>2. i \in 1 .. n /\ s[i] = x
      BY <1>1, <3>1
    <3>3. CASE j = n + 1
      BY <1>1, <3>1, <3>2, <3>3 DEF ToSet
    <3>4. CASE j \in 1 .. n
      BY <1>1, <3>1, <3>2, <3>4 DEF Precedes
    <3> QED
      BY <1>1, <3>3, <3>4
  <2>2. ASSUME Precedes(s, x, y) PROVE Precedes(t, x, y)
    <3>1. PICK i \in 1 .. n, j \in 1 .. n : i < j /\ s[i] = x /\ s[j] = y
      BY <1>1, <2>2 DEF Precedes
    <3>2. i \in DOMAIN t /\ j \in DOMAIN t /\ t[i] = x /\ t[j] = y
      BY <1>1, <3>1
    <3> QED
      BY <3>1, <3>2 DEF Precedes
  <2>3. ASSUME x \in ToSet(s), y = z PROVE Precedes(t, x, y)
    <3>1. PICK i \in 1 .. n : s[i] = x
      BY <1>1, <2>3 DEF ToSet
    <3>2. i \in DOMAIN t /\ n + 1 \in DOMAIN t /\ i < n + 1 /\ t[i] = x /\ t[n + 1] = y
      BY <1>1, <2>3, <3>1
    <3> QED
      BY <3>2 DEF Precedes
  <2> QED
    BY <2>1, <2>2, <2>3
<1> QED
  BY <1>1, <1>2, <1>3, <1>4 DEF t

(***************************************************************************)
(* What Only keeps is what is in the set, once if it was there once, and   *)
(* in the order it was in.                                                 *)
(***************************************************************************)
LEMMA OnlyFacts ==
  ASSUME NEW X, NEW s \in Seq(X), NEW S
  PROVE  /\ Only(s, S) \in Seq(X) /\ ToSet(Only(s, S)) = ToSet(s) \cap S
         /\ IsInjective(s) => IsInjective(Only(s, S))
         /\ \A x, y : Precedes(Only(s, S), x, y) <=> x \in S /\ y \in S /\ Precedes(s, x, y)
<1> DEFINE n == Len(s)
           Upto(k) == SubSeq(s, 1, k)
<1>1. PICK L \in [0 .. n -> Seq(X)] : OnlyRounds(L, s, S) /\ Only(s, S) = L[n]
  BY OnlyLoop
<1>2. /\ n \in Nat /\ DOMAIN s = 1 .. n /\ Upto(0) = <<>> /\ Upto(n) = s /\ <<>> \in Seq(X)
      /\ \A k \in 1 .. n : /\ Upto(k - 1) \in Seq(X) /\ Upto(k) = Append(Upto(k - 1), s[k])
                           /\ s[k] \in X /\ Len(Upto(k - 1)) = k - 1 /\ k - 1 \in 0 .. n
                           /\ \A i \in 1 .. k - 1 : Upto(k - 1)[i] = s[i]
  OBVIOUS
<1>3. L[0] = <<>>
      /\ \A k \in 1 .. n : L[k] = IF s[k] \in S THEN Append(L[k - 1], s[k]) ELSE L[k - 1]
  BY <1>1 DEF OnlyRounds
<1> DEFINE Good(k) ==
             /\ ToSet(L[k]) = ToSet(Upto(k)) \cap S
             /\ IsInjective(s) => IsInjective(L[k])
             /\ \A x, y : Precedes(L[k], x, y) <=> x \in S /\ y \in S /\ Precedes(Upto(k), x, y)
           M == {k \in 0 .. n : Good(k)}
<1>4. 0 \in M
  <2>1. ToSet(<<>>) = {} /\ IsInjective(<<>>) /\ \A x, y : ~Precedes(<<>>, x, y)
    BY DEF ToSet, IsInjective, Precedes
  <2>2. Good(0)
    <3> HIDE DEF Upto
    <3> QED
      BY <1>2, <1>3, <2>1
  <2> HIDE DEF Good
  <2> QED
    BY <1>2, <2>2
<1>5. ASSUME NEW k \in 1 .. n, k - 1 \in M PROVE k \in M
  <2> DEFINE u == Upto(k - 1)
             l == L[k - 1]
  <2>1. /\ u \in Seq(X) /\ l \in Seq(X) /\ s[k] \in X /\ Upto(k) = Append(u, s[k])
        /\ Len(u) = k - 1 /\ \A i \in 1 .. k - 1 : u[i] = s[i]
    BY <1>2
  <2>2. /\ ToSet(l) = ToSet(u) \cap S
        /\ IsInjective(s) => IsInjective(l)
        /\ \A x, y : Precedes(l, x, y) <=> x \in S /\ y \in S /\ Precedes(u, x, y)
    BY <1>5
  <2>3. IsInjective(s) => s[k] \notin ToSet(u)
    <3>1. ASSUME IsInjective(s), s[k] \in ToSet(u) PROVE FALSE
      <4>1. PICK i \in 1 .. k - 1 : u[i] = s[k]
        BY <2>1, <3>1 DEF ToSet
      <4>2. s[i] = s[k] /\ i \in DOMAIN s /\ k \in DOMAIN s /\ i # k
        BY <1>2, <2>1, <4>1
      <4> QED
        BY <3>1, <4>2 DEF IsInjective
    <3> QED
      BY <3>1
  <2>4. L[k] = IF s[k] \in S THEN Append(l, s[k]) ELSE l
    BY <1>3
  <2> HIDE DEF u, l, Upto
  <2>5. Good(k)
    <3>1. /\ ToSet(Append(u, s[k])) = ToSet(u) \cup {s[k]}
          /\ \A x, y : Precedes(Append(u, s[k]), x, y)
                         <=> Precedes(u, x, y) \/ (x \in ToSet(u) /\ y = s[k])
          /\ ToSet(Append(l, s[k])) = ToSet(l) \cup {s[k]}
          /\ IsInjective(l) /\ s[k] \notin ToSet(l) => IsInjective(Append(l, s[k]))
          /\ \A x, y : Precedes(Append(l, s[k]), x, y)
                         <=> Precedes(l, x, y) \/ (x \in ToSet(l) /\ y = s[k])
      BY <2>1, AppendFacts
    <3>2. CASE s[k] \in S
      BY <2>1, <2>2, <2>3, <2>4, <3>1, <3>2
    <3>3. CASE s[k] \notin S
      BY <2>1, <2>2, <2>3, <2>4, <3>1, <3>3
    <3> QED
      BY <3>2, <3>3
  <2> HIDE DEF Good
  <2> QED
    BY <1>2, <2>5
<1>6. n \in M
  <2> HIDE DEF M, n
  <2>1. Inductive(M, n)
    BY <1>4, <1>5 DEF Inductive
  <2> QED
    BY <1>2, <2>1, CountUp
<1>7. Good(n)
  BY <1>6
<1>8. L[n] = Only(s, S) /\ Upto(n) = s /\ L[n] \in Seq(X)
  BY <1>1, <1>2
<1> HIDE DEF n, Upto
<1> QED
  BY <1>7, <1>8

\* Two sequences without repetition with the same elements in the same order are the same.
LEMMA OrderDetermines ==
  ASSUME NEW X, NEW a \in Seq(X), NEW b \in Seq(X), IsInjective(a), IsInjective(b),
         ToSet(a) = ToSet(b), \A x, y : Precedes(a, x, y) => Precedes(b, x, y)
  PROVE  a = b
<1>1. /\ Len(a) \in Nat /\ Len(b) \in Nat /\ DOMAIN a = 1 .. Len(a) /\ DOMAIN b = 1 .. Len(b)
      /\ \A i, j \in 1 .. Len(a) : a[i] = a[j] => i = j
      /\ \A i, j \in 1 .. Len(b) : b[i] = b[j] => i = j
  BY DEF IsInjective
<1> DEFINE Same(i) == (i \in DOMAIN a <=> i \in DOMAIN b) /\ (i \in DOMAIN a => a[i] = b[i])
           wrong == {i \in Nat : ~Same(i)}
<1>2. ASSUME wrong # {} PROVE FALSE
  <2>1. PICK i \in wrong : \A k \in wrong : i <= k
    <3>1. wrong \in SUBSET Nat
      OBVIOUS
    <3> HIDE DEF wrong
    <3> QED
      BY <1>2, <3>1, LeastNumber
  <2>2. i \in Nat /\ ~Same(i) /\ \A k \in Nat : k < i => Same(k)
    <3> HIDE DEF Same
    <3> QED
      BY <2>1
  <2>3. \A k \in Nat : k < i => (k \in DOMAIN a <=> k \in DOMAIN b)
                                /\ (k \in DOMAIN a => a[k] = b[k])
    BY <2>2
  <2>4. ASSUME i \in DOMAIN a PROVE FALSE
    <3>1. PICK p \in DOMAIN b : b[p] = a[i]
      BY <2>4 DEF ToSet
    <3>2. p >= i
      BY <1>1, <2>2, <2>3, <2>4, <3>1
    <3>3. i \in DOMAIN b
      BY <1>1, <2>2, <2>4, <3>1, <3>2
    <3>4. p # i
      BY <2>2, <2>4, <3>1, <3>3
    <3>5. PICK q \in DOMAIN a : a[q] = b[i]
      BY <3>3 DEF ToSet
    <3>6. q > i
      <4>1. q # i
        BY <1>1, <3>1, <3>3, <3>4, <3>5
      <4>2. ~(q < i)
        BY <1>1, <2>2, <2>3, <3>3, <3>5
      <4> QED
        BY <1>1, <2>2, <4>1, <4>2
    <3>7. Precedes(a, a[i], b[i])
      BY <2>4, <3>5, <3>6 DEF Precedes
    <3>8. PICK c \in DOMAIN b, d \in DOMAIN b : c < d /\ b[c] = a[i] /\ b[d] = b[i]
      BY <3>7 DEF Precedes
    <3>9. c = p /\ d = i
      BY <1>1, <3>1, <3>3, <3>8
    <3> QED
      BY <1>1, <3>2, <3>8, <3>9
  <2>5. ASSUME i \notin DOMAIN a, i \in DOMAIN b PROVE FALSE
    <3>1. PICK q \in DOMAIN a : a[q] = b[i]
      BY <2>5 DEF ToSet
    <3>2. q < i
      BY <1>1, <2>2, <2>5, <3>1
    <3> QED
      BY <1>1, <2>2, <2>3, <2>5, <3>1, <3>2
  <2> QED
    BY <2>2, <2>4, <2>5
<1>3. \A i \in Nat : Same(i)
  BY <1>2
<1>4. Len(a) = Len(b)
  <2>1. \A i \in Nat : i \in 1 .. Len(a) <=> i \in 1 .. Len(b)
    BY <1>1, <1>3
  <2>2. Len(a) \in 1 .. Len(a) \/ Len(a) = 0
    BY <1>1
  <2>3. Len(b) \in 1 .. Len(b) \/ Len(b) = 0
    BY <1>1
  <2>4. ~(Len(a) < Len(b))
    BY <1>1, <2>1, <2>3
  <2>5. ~(Len(b) < Len(a))
    BY <1>1, <2>1, <2>2
  <2>6. Len(a) \in Nat /\ Len(b) \in Nat
    BY <1>1
  <2> QED
    BY ONLY <2>4, <2>5, <2>6
<1>5. \A i \in 1 .. Len(a) : a[i] = b[i]
  BY <1>1, <1>3
<1> QED
  BY <1>4, <1>5, SeqEqual

LEMMA PositionFacts ==
  ASSUME NEW s, NoRepetition(s)
  PROVE  /\ \A i \in DOMAIN s : Position(s, s[i]) = i
         /\ \A x \in ToSet(s) : Position(s, x) \in DOMAIN s /\ s[Position(s, x)] = x
         /\ \A x, y : Precedes(s, x, y) <=> /\ x \in ToSet(s) /\ y \in ToSet(s)
                                            /\ Position(s, x) < Position(s, y)
<1>1. ASSUME NEW x \in ToSet(s) PROVE Position(s, x) \in DOMAIN s /\ s[Position(s, x)] = x
  BY DEF Position, ToSet
<1>2. ASSUME NEW i \in DOMAIN s PROVE Position(s, s[i]) = i
  <2>1. s[i] \in ToSet(s)
    BY DEF ToSet
  <2> QED
    BY <1>1, <2>1 DEF NoRepetition, IsInjective
<1>3. ASSUME NEW x, NEW y, Precedes(s, x, y)
      PROVE  x \in ToSet(s) /\ y \in ToSet(s) /\ Position(s, x) < Position(s, y)
  <2>1. PICK i \in DOMAIN s, j \in DOMAIN s : i < j /\ s[i] = x /\ s[j] = y
    BY <1>3 DEF Precedes
  <2> QED
    BY <1>2, <2>1 DEF ToSet
<1>4. ASSUME NEW x \in ToSet(s), NEW y \in ToSet(s), Position(s, x) < Position(s, y)
      PROVE  Precedes(s, x, y)
  BY <1>1, <1>4 DEF Precedes
<1> QED
  BY <1>1, <1>2, <1>3, <1>4

--------------------------------------------------------------------------------
(***************************************************************************)
(* Patience sorting.  p[i] is the position in the base of the i-th key of  *)
(* ours, for the i that are In the base.  After k rounds the tails are in  *)
(* order, tails[j] ends a run of length j (rank), and each key that was    *)
(* placed has a rank above that of every key before it that it can follow. *)
(***************************************************************************)
Piles(k, n, In, p, tails, prev, rank) ==
  /\ tails \in Seq(In) /\ rank \in [0 .. n -> Nat] /\ prev \in [1 .. n -> 0 .. n]
  /\ rank[0] = 0
  /\ \A i \in 1 .. n : prev[i] < i /\ (prev[i] # 0 => prev[i] \in In)
  /\ \A j \in DOMAIN tails : tails[j] <= k /\ rank[tails[j]] = j
  /\ \A i, j \in DOMAIN tails : i < j => p[tails[i]] < p[tails[j]]
  /\ \A i \in In : i <= k =>
       /\ rank[i] = rank[prev[i]] + 1 /\ rank[i] \in DOMAIN tails
       /\ p[tails[rank[i]]] <= p[i]
       /\ prev[i] # 0 => p[prev[i]] < p[i]
  /\ \A i, j \in In : i < j /\ j <= k /\ p[i] < p[j] => rank[i] < rank[j]

\* What a round computes from the tails and the predecessors.
Shorter(k, p, tails) == {j \in DOMAIN tails : p[tails[j]] < p[k]}
NewTails(k, at, tails) == SubSeq(tails, 1, at) \o <<k>> \o SubSeq(tails, at + 2, Len(tails))
NewPrev(k, at, tails, prev) == [prev EXCEPT ![k] = IF at > 0 THEN tails[at] ELSE 0]

\* A set of numbers with every number below one of its own is an interval.
Initial(S, m) == \A j \in S : \A i \in 1 .. m : i < j => i \in S

LEMMA DownSet ==
  ASSUME NEW m \in Nat, NEW S \in SUBSET (1 .. m), Initial(S, m)
  PROVE  Cardinality(S) \in 0 .. m /\ S = 1 .. Cardinality(S)
<1>1. CASE S = {}
  <2>1. Cardinality(S) = 0
    BY <1>1, FS_EmptySet
  <2> QED
    BY <1>1, <2>1
<1>2. CASE S # {}
  <2> DEFINE x == Max(S)
  <2>1. x \in S
    BY <1>2, GreatestNumber
  <2>3. \A y \in S : y <= x
    BY <1>2, GreatestNumber
  <2> HIDE DEF x
  <2>2. x \in 1 .. m /\ x \in Nat
    BY <2>1
  <2>4. S = 1 .. x
    <3>1. ASSUME NEW i \in S PROVE i \in 1 .. x
      <4>1. i \in 1 .. m /\ i <= x
        BY <2>3
      <4> QED
        BY <2>2, <4>1
    <3>2. ASSUME NEW i \in 1 .. x PROVE i \in S
      <4>1. i \in 1 .. m /\ (i < x \/ i = x)
        BY <2>2
      <4> QED
        BY <2>1, <4>1 DEF Initial
    <3> QED
      BY <3>1, <3>2
  <2>5. Cardinality(1 .. x) = x
    BY <2>2, FS_Interval
  <2> QED
    BY <2>2, <2>4, <2>5
<1> QED
  BY <1>1, <1>2

Placed(X, tails, k, at, t) ==
  /\ t \in Seq(X)
  /\ Len(t) = IF at = Len(tails) THEN at + 1 ELSE Len(tails)
  /\ t[at + 1] = k
  /\ \A j \in DOMAIN t : j # at + 1 => j \in DOMAIN tails /\ t[j] = tails[j]
  /\ \A j \in DOMAIN tails : j \in DOMAIN t

LEMMA TailsPlaced ==
  ASSUME NEW X, NEW tails \in Seq(X), NEW k \in X, NEW at \in 0 .. Len(tails)
  PROVE  Placed(X, tails, k, at, NewTails(k, at, tails))
<1> DEFINE m == Len(tails)
           a == SubSeq(tails, 1, at)
           b == SubSeq(tails, at + 2, m)
           h == a \o <<k>>
           t == h \o b
<1>1. m \in Nat /\ DOMAIN tails = 1 .. m
  OBVIOUS
<1>2. a \in Seq(X) /\ Len(a) = at /\ \A j \in 1 .. at : a[j] = tails[j]
  OBVIOUS
<1>3. /\ b \in Seq(X) /\ Len(b) = IF at = m THEN 0 ELSE m - at - 1
      /\ \A j \in 1 .. Len(b) : b[j] = tails[j + at + 1] /\ j + at + 1 <= m
  OBVIOUS
<1>n. at \in Nat /\ at <= m
  OBVIOUS
<1> HIDE DEF a, b, m
<1>4. /\ h \in Seq(X) /\ Len(h) = at + 1 /\ h[at + 1] = k
      /\ \A j \in 1 .. at : h[j] = tails[j]
  <2> DEFINE c == <<k>>
  <2>1. c \in Seq(X) /\ Len(c) = 1 /\ c[1] = k
    OBVIOUS
  <2> HIDE DEF c
  <2>2. /\ a \o c \in Seq(X) /\ Len(a \o c) = at + 1
        /\ \A i \in 1 .. at + 1 : (a \o c)[i] = IF i <= at THEN a[i] ELSE c[i - at]
    <3>1. /\ a \o c \in Seq(X) /\ Len(a \o c) = Len(a) + Len(c)
          /\ \A i \in 1 .. Len(a) + Len(c) :
               (a \o c)[i] = IF i <= Len(a) THEN a[i] ELSE c[i - Len(a)]
      BY <1>2, <2>1, ConcatProperties, Zenon
    <3> QED
      BY <1>2, <2>1, <3>1
  <2>3. h = a \o c
    BY DEF c
  <2> HIDE DEF h
  <2>4. at + 1 \in 1 .. at + 1 /\ (at + 1) - at = 1 /\ ~(at + 1 <= at)
    BY <1>n
  <2>5. h[at + 1] = k
    BY <2>1, <2>2, <2>3, <2>4
  <2>6. ASSUME NEW j \in 1 .. at PROVE h[j] = tails[j]
    <3>1. j \in 1 .. at + 1 /\ j <= at
      BY <1>n
    <3> QED
      BY <1>2, <2>2, <2>3, <3>1
  <2> QED
    BY <2>2, <2>3, <2>5, <2>6
<1> HIDE DEF h
<1>5. /\ t \in Seq(X) /\ Len(t) = at + 1 + Len(b) /\ Len(b) \in Nat
      /\ \A j \in 1 .. at + 1 : t[j] = h[j]
      /\ \A j \in at + 2 .. at + 1 + Len(b) : t[j] = b[j - at - 1]
  <2>1. /\ t \in Seq(X) /\ Len(t) = at + 1 + Len(b) /\ Len(b) \in Nat
        /\ \A i \in 1 .. at + 1 + Len(b) : t[i] = IF i <= at + 1 THEN h[i] ELSE b[i - (at + 1)]
    <3>1. /\ h \o b \in Seq(X) /\ Len(h \o b) = Len(h) + Len(b)
          /\ \A i \in 1 .. Len(h) + Len(b) :
               (h \o b)[i] = IF i <= Len(h) THEN h[i] ELSE b[i - Len(h)]
      BY <1>3, <1>4, ConcatProperties, Zenon
    <3>2. Len(b) \in Nat
      BY <1>3, LenProperties
    <3> QED
      BY <1>4, <3>1, <3>2
  <2> HIDE DEF t
  <2>2. ASSUME NEW j \in 1 .. at + 1 PROVE t[j] = h[j]
    <3>1. j \in 1 .. at + 1 + Len(b) /\ j <= at + 1
      BY <1>n, <2>1
    <3> QED
      BY <2>1, <3>1
  <2>3. ASSUME NEW j \in at + 2 .. at + 1 + Len(b) PROVE t[j] = b[j - at - 1]
    <3>1. j \in 1 .. at + 1 + Len(b) /\ ~(j <= at + 1) /\ j - (at + 1) = j - at - 1
      BY <1>n, <2>1
    <3> QED
      BY <2>1, <3>1
  <2> QED
    BY <2>1, <2>2, <2>3
<1>6. NewTails(k, at, tails) = t
  BY DEF NewTails, h, a, b, m
<1> HIDE DEF t
<1>7. Len(t) = (IF at = m THEN at + 1 ELSE m) /\ t[at + 1] = k /\ DOMAIN t = 1 .. Len(t)
      /\ at \in 0 .. m /\ Len(t) \in Nat
  <2>1. DOMAIN t = 1 .. Len(t)
    BY <1>5, LenProperties
  <2>2. at + 1 \in 1 .. at + 1
    BY <1>n
  <2>3. Len(t) = (IF at = m THEN at + 1 ELSE m)
    BY <1>1, <1>n, <1>3, <1>5
  <2> QED
    BY <1>1, <1>n, <1>4, <1>5, <2>1, <2>2, <2>3
<1>8. ASSUME NEW j \in 1 .. Len(t), j # at + 1 PROVE j \in 1 .. m /\ t[j] = tails[j]
  <2>1. CASE j <= at
    BY <1>1, <1>4, <1>5, <1>7, <2>1
  <2>2. CASE j > at + 1
    <3>1. j \in at + 2 .. at + 1 + Len(b) /\ j - at - 1 \in 1 .. Len(b)
      BY <1>1, <1>3, <1>5, <1>7, <2>2
    <3> QED
      BY <1>1, <1>3, <1>5, <1>7, <3>1
  <2> QED
    BY <1>7, <1>8, <2>1, <2>2
<1>9. \A j \in 1 .. m : j \in 1 .. Len(t)
  BY <1>1, <1>7
<1> QED
  BY <1>1, <1>5, <1>6, <1>7, <1>8, <1>9 DEF m, Placed

LEMMA PilesStep ==
  ASSUME NEW n \in Nat, NEW In \in SUBSET (1 .. n), NEW p \in [In -> Nat],
         NEW k \in In, NEW tails, NEW prev, NEW rank,
         Piles(k - 1, n, In, p, tails, prev, rank)
  PROVE  LET at == Cardinality(Shorter(k, p, tails))
         IN  /\ at \in 0 .. Len(tails)
             /\ Piles(k, n, In, p, NewTails(k, at, tails), NewPrev(k, at, tails, prev),
                      [rank EXCEPT ![k] = at + 1])
<1> DEFINE m == Len(tails)
           at == Cardinality(Shorter(k, p, tails))
           t == NewTails(k, at, tails)
           q == NewPrev(k, at, tails, prev)
           r == [rank EXCEPT ![k] = at + 1]
<1>k. k \in 1 .. n /\ k \in Nat /\ n \in Nat
  OBVIOUS
<1>i. \A i \in In : i \in 1 .. n /\ i \in Nat /\ p[i] \in Nat
  OBVIOUS
<1>s. tails \in Seq(In) /\ m \in Nat /\ DOMAIN tails = 1 .. m
  BY DEF Piles
<1>t. ASSUME NEW j \in 1 .. m
      PROVE  /\ tails[j] \in In /\ tails[j] \in 1 .. n /\ p[tails[j]] \in Nat
             /\ tails[j] <= k - 1 /\ tails[j] # k /\ rank[tails[j]] = j
  <2>1. tails[j] \in In
    BY <1>s
  <2>2. tails[j] <= k - 1 /\ rank[tails[j]] = j
    BY <1>s DEF Piles
  <2>3. tails[j] \in 1 .. n /\ tails[j] \in Nat /\ p[tails[j]] \in Nat
    BY <1>i, <2>1
  <2>4. tails[j] # k
    BY <1>k, <2>2, <2>3
  <2> QED
    BY <2>1, <2>2, <2>3, <2>4
<1>o. \A i, j \in 1 .. m : i < j => p[tails[i]] < p[tails[j]]
  BY <1>s DEF Piles
<1>r. rank \in [0 .. n -> Nat] /\ rank[0] = 0
  BY DEF Piles
<1>p. /\ prev \in [1 .. n -> 0 .. n]
      /\ \A i \in 1 .. n : prev[i] < i /\ (prev[i] # 0 => prev[i] \in In)
  BY DEF Piles
<1>2. \A i \in In : i <= k - 1 =>
        /\ rank[i] = rank[prev[i]] + 1 /\ rank[i] \in 1 .. m
        /\ p[tails[rank[i]]] <= p[i]
        /\ prev[i] # 0 => p[prev[i]] < p[i]
  BY <1>s DEF Piles
<1>3. \A i, j \in In : i < j /\ j <= k - 1 /\ p[i] < p[j] => rank[i] < rank[j]
  BY DEF Piles
<1>4. at \in 0 .. m /\ Shorter(k, p, tails) = 1 .. at
  <2> DEFINE S == Shorter(k, p, tails)
  <2> HIDE DEF m
  <2>1. S = {j \in 1 .. m : p[tails[j]] < p[k]}
    BY <1>s DEF Shorter
  <2> HIDE DEF S
  <2>2. Initial(S, m)
    <3> SUFFICES ASSUME NEW j \in S, NEW i \in 1 .. m, i < j PROVE i \in S
      BY DEF Initial
    <3>1. j \in 1 .. m /\ p[tails[j]] < p[k]
      BY <2>1
    <3>2. p[tails[i]] < p[tails[j]]
      BY <1>o, <3>1
    <3>3. p[tails[i]] \in Nat /\ p[tails[j]] \in Nat /\ p[k] \in Nat
      BY <1>t, <1>i, <3>1
    <3> QED
      BY <2>1, <3>1, <3>2, <3>3
  <2>3. m \in Nat /\ S \in SUBSET (1 .. m)
    BY <1>s, <2>1
  <2>4. Cardinality(S) \in 0 .. m /\ S = 1 .. Cardinality(S)
    BY <2>2, <2>3, DownSet
  <2> QED
    BY <2>4 DEF S
<1>5. ASSUME NEW j \in 1 .. m PROVE j <= at <=> p[tails[j]] < p[k]
  <2>1. j \in Shorter(k, p, tails) <=> p[tails[j]] < p[k]
    BY <1>s DEF Shorter
  <2> HIDE DEF at, m
  <2>2. j \in 1 .. at <=> j <= at
    BY <1>4, <1>s
  <2> QED
    BY <1>4, <2>1, <2>2
<1>6. /\ t \in Seq(In) /\ Len(t) = (IF at = m THEN at + 1 ELSE m)
      /\ t[at + 1] = k
      /\ \A j \in DOMAIN t : j # at + 1 => j \in DOMAIN tails /\ t[j] = tails[j]
      /\ \A j \in DOMAIN tails : j \in DOMAIN t
  <2>1. at \in 0 .. Len(tails)
    BY <1>4
  <2> HIDE DEF at
  <2>2. Placed(In, tails, k, at, t)
    <3>1. k \in In
      OBVIOUS
    <3> QED
      BY <1>s, <2>1, <3>1, TailsPlaced
  <2> QED
    BY <2>2 DEF Placed
<1>n. at \in Nat /\ at + 1 \in Nat /\ at <= m
  <2> HIDE DEF at, m
  <2> QED
    BY <1>4, <1>s
<1> HIDE DEF at, m
<1>7. /\ r \in [0 .. n -> Nat] /\ r[k] = at + 1 /\ \A i \in 0 .. n : i # k => r[i] = rank[i]
  BY <1>k, <1>r, <1>n
<1>8. /\ q[k] = (IF at > 0 THEN tails[at] ELSE 0)
      /\ \A i \in 1 .. n : i # k => q[i] = prev[i]
      /\ DOMAIN q = 1 .. n /\ q = [i \in 1 .. n |-> q[i]]
  BY <1>k, <1>p DEF NewPrev
<1>d. DOMAIN t = 1 .. Len(t) /\ Len(t) \in Nat /\ at + 1 \in DOMAIN t
  <2> HIDE DEF t
  <2>1. DOMAIN t = 1 .. Len(t)
    BY <1>6, LenProperties
  <2> QED
    BY <1>6, <1>n, <1>s, <2>1
<1> HIDE DEF t, q, r
<1>at. at > 0 => at \in 1 .. m
  BY <1>n, <1>s
<1>9. ASSUME NEW i \in 1 .. n
      PROVE  q[i] \in 0 .. n /\ q[i] < i /\ (q[i] # 0 => q[i] \in In)
  <2>1. CASE i # k
    BY <1>8, <1>p, <2>1
  <2>2. CASE i = k /\ at > 0
    <3>1. q[k] = tails[at] /\ tails[at] \in In /\ tails[at] \in 1 .. n /\ tails[at] <= k - 1
      BY <1>8, <1>at, <1>t, <2>2
    <3> QED
      BY <1>k, <2>2, <3>1
  <2>3. CASE i = k /\ ~(at > 0)
    BY <1>k, <1>8, <2>3
  <2> QED
    BY <2>1, <2>2, <2>3
<1>10. ASSUME NEW j \in DOMAIN t PROVE t[j] <= k /\ r[t[j]] = j
  <2>1. CASE j = at + 1
    BY <1>k, <1>6, <1>7, <2>1
  <2>2. CASE j # at + 1
    <3>1. j \in 1 .. m /\ t[j] = tails[j]
      BY <1>s, <1>6, <2>2
    <3>2. tails[j] # k /\ tails[j] \in 1 .. n /\ tails[j] <= k - 1 /\ rank[tails[j]] = j
      BY <1>t, <3>1
    <3>3. tails[j] \in 0 .. n /\ tails[j] <= k
      BY <1>k, <3>2
    <3> QED
      BY <1>7, <3>1, <3>2, <3>3
  <2> QED
    BY <2>1, <2>2
<1>11. ASSUME NEW i \in DOMAIN t, NEW j \in DOMAIN t, i < j PROVE p[t[i]] < p[t[j]]
  <2>1. CASE i # at + 1 /\ j # at + 1
    <3>1. i \in 1 .. m /\ t[i] = tails[i] /\ j \in 1 .. m /\ t[j] = tails[j]
      BY <1>s, <1>6, <2>1
    <3> QED
      BY <1>o, <1>11, <3>1
  <2>2. CASE j = at + 1 /\ i # at + 1
    <3>1. i \in 1 .. m /\ t[i] = tails[i]
      BY <1>s, <1>6, <2>2
    <3>2. i <= at
      BY <1>11, <1>n, <2>2, <3>1
    <3> QED
      BY <1>5, <1>6, <2>2, <3>1, <3>2
  <2>3. CASE i = at + 1 /\ j # at + 1
    <3>1. j \in 1 .. m /\ t[j] = tails[j]
      BY <1>s, <1>6, <2>3
    <3>2. at + 1 \in 1 .. m /\ at + 1 < j /\ ~(at + 1 <= at)
      BY <1>11, <1>n, <1>s, <2>3, <3>1
    <3>3. ~(p[tails[at + 1]] < p[k]) /\ p[tails[at + 1]] < p[tails[j]]
      BY <1>o, <1>5, <3>1, <3>2
    <3>4. p[tails[at + 1]] \in Nat /\ p[tails[j]] \in Nat /\ p[k] \in Nat
      BY <1>t, <1>i, <3>1, <3>2
    <3>5. p[k] < p[tails[j]]
      BY <3>3, <3>4
    <3> QED
      BY <1>6, <2>3, <3>1, <3>5
  <2>4. CASE i = at + 1 /\ j = at + 1
    BY <1>11, <1>n, <2>4
  <2> QED
    BY <2>1, <2>2, <2>3, <2>4
<1>12. ASSUME NEW i \in In, i <= k
       PROVE  /\ r[i] = r[q[i]] + 1 /\ r[i] \in DOMAIN t
              /\ p[t[r[i]]] <= p[i]
              /\ q[i] # 0 => p[q[i]] < p[i]
  <2>1. CASE i = k
    <3>1. r[k] = at + 1 /\ t[r[k]] = k /\ p[t[r[k]]] <= p[k] /\ r[k] \in DOMAIN t
      BY <1>6, <1>7, <1>i, <1>d
    <3>2. CASE at = 0
      <4>1. q[k] = 0 /\ r[0] = 0 /\ r[k] = 1
        BY <1>7, <1>8, <1>k, <1>r, <3>1, <3>2
      <4> QED
        BY <2>1, <3>1, <4>1
    <3>3. CASE at > 0
      <4>1. at \in 1 .. m /\ q[k] = tails[at]
        BY <1>8, <1>at, <3>3
      <4>2. tails[at] # k /\ tails[at] \in 1 .. n /\ rank[tails[at]] = at
        BY <1>t, <4>1
      <4>3. r[tails[at]] = at
        <5>1. tails[at] \in 0 .. n
          BY <4>2
        <5> QED
          BY <1>7, <4>2, <5>1
      <4>4. p[tails[at]] < p[k]
        BY <1>n, <1>5, <4>1
      <4> QED
        BY <2>1, <3>1, <4>1, <4>3, <4>4
    <3> QED
      BY <1>n, <3>2, <3>3
  <2>2. CASE i # k
    <3>1. i <= k - 1 /\ i \in 1 .. n
      BY <1>12, <1>i, <1>k, <2>2
    <3>2. q[i] = prev[i] /\ prev[i] \in 0 .. n /\ prev[i] < i
      BY <1>8, <1>p, <2>2, <3>1
    <3>3. prev[i] # k /\ i \in 0 .. n
      BY <1>k, <3>1, <3>2
    <3>4. r[i] = rank[i] /\ r[prev[i]] = rank[prev[i]]
      BY <1>7, <2>2, <3>2, <3>3
    <3>5. /\ rank[i] = rank[prev[i]] + 1 /\ rank[i] \in 1 .. m
          /\ p[tails[rank[i]]] <= p[i]
          /\ prev[i] # 0 => p[prev[i]] < p[i]
      BY <1>2, <3>1
    <3>6. p[t[rank[i]]] <= p[i]
      <4>1. CASE rank[i] # at + 1
        <5>1. t[rank[i]] = tails[rank[i]]
          BY <1>6, <1>s, <3>5, <4>1
        <5> QED
          BY <3>5, <5>1
      <4>2. CASE rank[i] = at + 1
        <5>1. at + 1 \in 1 .. m /\ ~(at + 1 <= at)
          BY <1>n, <3>5, <4>2
        <5>2. ~(p[tails[at + 1]] < p[k]) /\ p[tails[at + 1]] <= p[i]
          BY <1>5, <3>5, <4>2, <5>1
        <5>3. p[tails[at + 1]] \in Nat /\ p[k] \in Nat /\ p[i] \in Nat
          BY <1>t, <1>i, <5>1
        <5>4. p[k] <= p[i]
          BY <5>2, <5>3
        <5> QED
          BY <1>6, <4>2, <5>4
      <4> QED
        BY <4>1, <4>2
    <3>7. rank[i] \in DOMAIN t
      BY <1>6, <1>s, <3>5
    <3> QED
      BY <3>2, <3>4, <3>5, <3>6, <3>7
  <2> QED
    BY <2>1, <2>2
<1>13. ASSUME NEW i \in In, NEW j \in In, i < j, j <= k, p[i] < p[j] PROVE r[i] < r[j]
  <2>1. i \in 1 .. n /\ j \in 1 .. n /\ i # k /\ i <= k - 1
    BY <1>13, <1>i, <1>k
  <2>2. r[i] = rank[i]
    BY <1>7, <2>1
  <2>3. CASE j # k
    <3>1. j <= k - 1 /\ r[j] = rank[j]
      BY <1>13, <1>7, <1>i, <1>k, <2>1, <2>3
    <3> QED
      BY <1>13, <1>3, <2>2, <3>1
  <2>4. CASE j = k
    <3>1. rank[i] \in 1 .. m /\ p[tails[rank[i]]] <= p[i]
      BY <1>2, <2>1
    <3>2. p[tails[rank[i]]] \in Nat /\ p[i] \in Nat /\ p[k] \in Nat /\ p[i] < p[k]
      BY <1>13, <1>t, <1>i, <2>4, <3>1
    <3>3. p[tails[rank[i]]] < p[k]
      BY <3>1, <3>2
    <3>4. rank[i] <= at
      BY <1>5, <3>1, <3>3
    <3>5. rank[i] < at + 1
      BY <1>n, <1>s, <3>1, <3>4
    <3> QED
      BY <1>7, <2>2, <2>4, <3>5
  <2> QED
    BY <2>3, <2>4
<1>14. Piles(k, n, In, p, t, q, r)
  <2>1. q \in [1 .. n -> 0 .. n]
    BY <1>8, <1>9
  <2>2. r[0] = 0
    BY <1>k, <1>r, <1>7
  <2> QED
    BY <1>6, <1>7, <1>9, <1>10, <1>11, <1>12, <1>13, <2>1, <2>2 DEF Piles
<1> QED
  BY <1>4, <1>14 DEF t, q, r, at, m

\* The rounds of the loop in StableKeys.
Known(orig, ours) == {i \in 1 .. Len(ours) : ours[i] \in ToSet(orig)}
BasePosition(orig, ours) == [i \in Known(orig, ours) |-> Position(orig, ours[i])]
LowerPiles(orig, ours, tails, k) ==
  {j \in DOMAIN tails : Position(orig, ours[tails[j]]) < Position(orig, ours[k])}
Placement(orig, ours, acc, k) ==
  IF ours[k] \notin ToSet(orig) THEN acc
  ELSE LET at == Cardinality(LowerPiles(orig, ours, acc.tails, k))
       IN  [tails |-> NewTails(k, at, acc.tails), prev |-> NewPrev(k, at, acc.tails, acc.prev)]

PatienceRounds(f, orig, ours) ==
  /\ f[0] = [tails |-> <<>>, prev |-> [i \in 1 .. Len(ours) |-> 0]]
  /\ \A k \in 1 .. Len(ours) : f[k] = Placement(orig, ours, f[k - 1], k)

\* The recursive function in StableKeys.
IsChain(C, ours, prev) ==
  C = [i \in 0 .. Len(ours) |-> IF i = 0 THEN {} ELSE {ours[i]} \cup C[prev[i]]]

LastChain(ours, acc) ==
  IF acc.tails = <<>> THEN {} ELSE (CHOOSE C : IsChain(C, ours, acc.prev))[Last(acc.tails)]

LEMMA PlacementType ==
  ASSUME NEW orig, NEW ours, Len(ours) \in Nat,
         NEW acc \in [tails : Seq(Nat), prev : [1 .. Len(ours) -> Nat]], NEW k \in 1 .. Len(ours)
  PROVE  Placement(orig, ours, acc, k) \in [tails : Seq(Nat), prev : [1 .. Len(ours) -> Nat]]
<1> DEFINE S == LowerPiles(orig, ours, acc.tails, k)
           at == Cardinality(S)
           m == Len(acc.tails)
<1>1. acc.tails \in Seq(Nat) /\ acc.prev \in [1 .. Len(ours) -> Nat] /\ m \in Nat
      /\ DOMAIN acc.tails = 1 .. m
  OBVIOUS
<1>2. S \in SUBSET (1 .. m)
  BY <1>1 DEF LowerPiles
<1> HIDE DEF S
<1>3. at \in 0 .. m
  <2> HIDE DEF m
  <2>1. IsFiniteSet(1 .. m) /\ Cardinality(1 .. m) = m
    BY <1>1, FS_Interval
  <2>2. IsFiniteSet(S) /\ Cardinality(S) <= Cardinality(1 .. m)
    BY <1>2, <2>1, FS_Subset
  <2>3. at \in Nat
    BY <2>2, FS_CardinalityType
  <2> QED
    BY <1>1, <2>1, <2>2, <2>3
<1> HIDE DEF at
<1>4. k \in Nat
  OBVIOUS
<1>5. NewTails(k, at, acc.tails) \in Seq(Nat)
  <2>1. Placed(Nat, acc.tails, k, at, NewTails(k, at, acc.tails))
    BY <1>1, <1>3, <1>4, TailsPlaced
  <2> QED
    BY <2>1 DEF Placed
<1>6. NewPrev(k, at, acc.tails, acc.prev) \in [1 .. Len(ours) -> Nat]
  <2>1. (IF at > 0 THEN acc.tails[at] ELSE 0) \in Nat
    BY <1>1, <1>3
  <2> QED
    BY <1>1, <2>1 DEF NewPrev
<1>7. Placement(orig, ours, acc, k)
        = IF ours[k] \notin ToSet(orig) THEN acc
          ELSE [tails |-> NewTails(k, at, acc.tails),
                prev |-> NewPrev(k, at, acc.tails, acc.prev)]
  BY DEF Placement, at, S
<1> QED
  BY <1>5, <1>6, <1>7

LEMMA StableLoop ==
  ASSUME NEW orig, NEW ours, NEW X, ours \in Seq(X)
  PROVE  \E f : /\ PatienceRounds(f, orig, ours)
                /\ StableKeys(orig, ours) = LastChain(ours, f[Len(ours)])
<1> DEFINE n == Len(ours)
           A == [tails : Seq(Nat), prev : [1 .. n -> Nat]]
           seq == [i \in DOMAIN ours |-> i]
           start == [tails |-> <<>>, prev |-> [i \in DOMAIN ours |-> 0]]
           Round(k, acc) == Placement(orig, ours, acc, seq[k])
           step == [k \in 1 .. n |-> [acc \in A |-> Round(k, acc)]]
           Folds(it) == it = [p \in SUBSET DOMAIN seq |->
                                 IF p = {} THEN start ELSE Round(Max(p), it[p \ {Max(p)}])]
           fold == CHOOSE it : Folds(it)
<1>1. n \in Nat /\ DOMAIN ours = 1 .. n /\ DOMAIN seq = 1 .. n /\ \A k \in 1 .. n : seq[k] = k
  OBVIOUS
<1>2. StableKeys(orig, ours) = LastChain(ours, fold[DOMAIN seq])
  BY <1>1, Zenon
  DEF StableKeys, FoldLeftDomain, FoldLeft, MapThenFoldSet, LastChain, IsChain, Placement,
         LowerPiles, NewTails, NewPrev
<1>a. /\ start \in A
      /\ \A k \in 1 .. n : \A acc \in A : Round(k, acc) \in A
  <2>1. start \in A
    BY <1>1
  <2>2. ASSUME NEW k \in 1 .. n, NEW acc \in A PROVE Round(k, acc) \in A
    <3>1. Placement(orig, ours, acc, k) \in A
      BY <1>1, PlacementType
    <3> QED
      BY <1>1, <3>1
  <2> QED
    BY <2>1, <2>2
<1> HIDE DEF n, A, seq, start, Round
<1>3. step \in [1 .. n -> [A -> A]]
  BY <1>a
<1>4. PICK it : IsFold(it, A, start, n, step)
  <2> HIDE DEF step
  <2> QED
    BY <1>1, <1>a, <1>3, FoldExists
<1>5. \A p \in SUBSET (1 .. n) : it[p] = IF p = {} THEN start ELSE Round(Max(p), it[p \ {Max(p)}])
  <2> SUFFICES ASSUME NEW p \in SUBSET (1 .. n), p # {}
               PROVE  it[p] = Round(Max(p), it[p \ {Max(p)}])
    BY <1>4 DEF IsFold
  <2>1. Max(p) \in 1 .. n /\ it[p \ {Max(p)}] \in A
    BY <1>1, <1>4, GreatestNumber DEF IsFold
  <2> QED
    BY <1>4, <2>1 DEF IsFold
<1>6. Folds(it)
  BY <1>1, <1>4, <1>5 DEF IsFold
<1>7. Folds(fold)
  <2> HIDE DEF Folds
  <2> QED
    BY <1>6
<1>8. /\ fold[{}] = start
      /\ \A p \in SUBSET (1 .. n) : p # {} => fold[p] = Round(Max(p), fold[p \ {Max(p)}])
  <2> HIDE DEF fold
  <2> QED
    BY <1>1, <1>7
<1> HIDE DEF fold
<1>9. FoldRounds(fold, A, n, step)
  <2> SUFFICES ASSUME NEW k \in 1 .. n, fold[1 .. (k - 1)] \in A
               PROVE  fold[1 .. k] = step[k][fold[1 .. (k - 1)]]
    BY DEF FoldRounds
  <2>1. /\ 1 .. k \in SUBSET (1 .. n) /\ 1 .. k # {} /\ Max(1 .. k) = k
        /\ (1 .. k) \ {k} = 1 .. (k - 1)
    BY <1>1, PrefixSets DEF PrefixFacts
  <2>2. fold[1 .. k] = Round(k, fold[1 .. (k - 1)])
    BY <1>8, <2>1
  <2> QED
    BY <2>2
<1> DEFINE f == [k \in 0 .. n |-> fold[1 .. k]]
<1>10. IsLoop(f, A, start, n, step)
  <2> HIDE DEF step
  <2> QED
    BY <1>1, <1>a, <1>3, <1>8, <1>9, FoldIsLoop
<1>11. f[n] = fold[DOMAIN seq]
  BY <1>1
<1> HIDE DEF f
<1>12. f[0] = start /\ \A k \in 1 .. n : f[k] = Round(k, f[k - 1])
  <2>1. \A k \in 1 .. n : f[k - 1] \in A
    BY <1>1, <1>10 DEF IsLoop
  <2> QED
    BY <1>10, <2>1 DEF IsLoop
<1>13. PatienceRounds(f, orig, ours)
  BY <1>1, <1>12 DEF PatienceRounds, Round, start, n
<1> QED
  BY <1>2, <1>11, <1>13 DEF n

LEMMA ChainExists ==
  ASSUME NEW ours, NEW prev, Len(ours) \in Nat,
         \A i \in 1 .. Len(ours) : prev[i] \in 0 .. Len(ours) /\ prev[i] < i
  PROVE  IsChain(CHOOSE C : IsChain(C, ours, prev), ours, prev)
<1> DEFINE n == Len(ours)
           keys == {ours[i] : i \in 1 .. n}
           A == [0 .. n -> SUBSET keys]
           Fill(k, T) == [T EXCEPT ![k] = {ours[k]} \cup T[prev[k]]]
           step == [k \in 1 .. n |-> [T \in A |-> Fill(k, T)]]
           empty == [i \in 0 .. n |-> {}]
<1>1. n \in Nat /\ empty \in A /\ \A i \in 1 .. n : prev[i] \in 0 .. n /\ prev[i] < i
  OBVIOUS
<1>2. ASSUME NEW k \in 1 .. n, NEW T \in A PROVE Fill(k, T) \in A
  <2>1. T[prev[k]] \in SUBSET keys /\ ours[k] \in keys
    BY <1>1
  <2> QED
    BY <2>1
<1>3. ASSUME NEW k \in 1 .. n, NEW T \in A
      PROVE  /\ Fill(k, T)[k] = {ours[k]} \cup T[prev[k]]
             /\ \A i \in 0 .. n : i # k => Fill(k, T)[i] = T[i]
  BY <1>1
<1> HIDE DEF n, A, keys, Fill, empty
<1>4. PICK g : IsLoop(g, A, empty, n, step)
  <2>1. step \in [1 .. n -> [A -> A]]
    BY <1>2
  <2> HIDE DEF step
  <2> QED
    BY <1>1, <2>1, LoopExists
<1>5. g[0] = empty /\ \A k \in 0 .. n : g[k] \in A
  BY <1>4 DEF IsLoop
<1>6. ASSUME NEW k \in 1 .. n PROVE g[k] = Fill(k, g[k - 1]) /\ g[k - 1] \in A /\ k - 1 \in 0 .. n
  <2>1. k - 1 \in 0 .. n
    BY <1>1
  <2> QED
    BY <1>4, <1>5, <2>1 DEF IsLoop
<1>7. ASSUME NEW i \in 0 .. n, NEW h \in i .. n PROVE g[h][i] = g[i][i]
  <2> DEFINE M == {k \in 0 .. n : k >= i => g[k][i] = g[i][i]}
  <2>1. 0 \in M
    BY <1>1
  <2>2. ASSUME NEW k \in 1 .. n, k - 1 \in M PROVE k \in M
    <3>1. CASE k = i
      BY <1>1, <3>1
    <3>2. CASE k # i
      <4>1. g[k][i] = g[k - 1][i]
        BY <1>3, <1>6, <3>2
      <4>2. k >= i => k - 1 >= i
        BY <1>1, <3>2
      <4> QED
        BY <1>1, <2>2, <4>1, <4>2
    <3> QED
      BY <3>1, <3>2
  <2>3. Inductive(M, n)
    <3> HIDE DEF M
    <3> QED
      BY <2>1, <2>2 DEF Inductive
  <2>4. h \in M
    <3> HIDE DEF M
    <3> QED
      BY <1>1, <2>3, CountUp
  <2> QED
    BY <1>1, <2>4
<1> DEFINE C == [i \in 0 .. n |-> g[n][i]]
<1>8. C[0] = {}
  <2>1. g[n][0] = g[0][0]
    BY <1>1, <1>7
  <2> QED
    BY <1>1, <1>5, <2>1 DEF empty
<1>9. ASSUME NEW i \in 1 .. n PROVE C[i] = {ours[i]} \cup C[prev[i]]
  <2>1. i \in 0 .. n /\ n \in i .. n /\ prev[i] \in 0 .. n /\ i - 1 \in prev[i] .. n
        /\ n \in prev[i] .. n
    BY <1>1
  <2>2. g[n][i] = g[i][i] /\ g[n][prev[i]] = g[i - 1][prev[i]]
    BY <1>7, <2>1
  <2>3. g[i][i] = {ours[i]} \cup g[i - 1][prev[i]]
    BY <1>3, <1>6
  <2> QED
    BY <2>1, <2>2, <2>3
<1>10. IsChain(C, ours, prev)
  <2>1. C = [i \in 0 .. n |-> IF i = 0 THEN {} ELSE {ours[i]} \cup C[prev[i]]]
    <3>1. ASSUME NEW i \in 0 .. n
          PROVE  C[i] = IF i = 0 THEN {} ELSE {ours[i]} \cup C[prev[i]]
      <4>1. i # 0 => i \in 1 .. n
        BY <1>1
      <4> HIDE DEF C
      <4> QED
        BY <1>8, <1>9, <4>1
    <3>2. C = [i \in 0 .. n |-> C[i]]
      OBVIOUS
    <3> HIDE DEF C
    <3> QED
      BY <3>1, <3>2
  <2> HIDE DEF C
  <2> QED
    BY <2>1 DEF IsChain, n
<1> QED
  BY <1>10

LEMMA PilesAtEnd ==
  ASSUME NEW orig, NEW ours, NoRepetition(orig), NoRepetition(ours),
         NEW f, PatienceRounds(f, orig, ours)
  PROVE  LET n == Len(ours)
         IN  \E rank : Piles(n, n, Known(orig, ours), BasePosition(orig, ours),
                             f[n].tails, f[n].prev, rank)
<1> DEFINE n == Len(ours)
           In == Known(orig, ours)
           p == BasePosition(orig, ours)
           Sorted(k, rank) == Piles(k, n, In, p, f[k].tails, f[k].prev, rank)
           M == {k \in 0 .. n : \E rank : Sorted(k, rank)}
<1>1. n \in Nat /\ DOMAIN ours = 1 .. n /\ In \in SUBSET (1 .. n)
  BY DEF NoRepetition, Known
<1>2. p \in [In -> Nat] /\ \A i \in In : p[i] = Position(orig, ours[i])
  <2>1. ASSUME NEW i \in In PROVE Position(orig, ours[i]) \in Nat
    <3>1. ours[i] \in ToSet(orig) /\ DOMAIN orig = 1 .. Len(orig)
      BY DEF Known, NoRepetition
    <3>2. Position(orig, ours[i]) \in DOMAIN orig
      BY <3>1, PositionFacts
    <3> QED
      BY <3>1, <3>2
  <2> QED
    BY <2>1 DEF BasePosition
<1>3. /\ f[0] = [tails |-> <<>>, prev |-> [i \in 1 .. n |-> 0]]
      /\ \A k \in 1 .. n : f[k] = Placement(orig, ours, f[k - 1], k)
  BY DEF PatienceRounds
<1>m. \A i \in 1 .. n : i \in In <=> ours[i] \in ToSet(orig)
  BY DEF Known
<1> HIDE DEF n, In, p
<1>4. 0 \in M
  <2> DEFINE rank == [i \in 0 .. n |-> 0]
             none == [i \in 1 .. n |-> 0]
  <2>1. rank \in [0 .. n -> Nat] /\ rank[0] = 0 /\ none \in [1 .. n -> 0 .. n]
        /\ \A i \in 1 .. n : none[i] < i /\ none[i] = 0
    BY <1>1
  <2>2. <<>> \in Seq(In) /\ DOMAIN <<>> = {}
    OBVIOUS
  <2>3. \A i \in In : ~(i <= 0)
    BY <1>1
  <2> HIDE DEF rank, none
  <2>4. Piles(0, n, In, p, <<>>, none, rank)
    BY <2>1, <2>2, <2>3 DEF Piles
  <2>5. f[0].tails = <<>> /\ f[0].prev = none
    BY <1>3 DEF none
  <2>6. Sorted(0, rank)
    BY <2>4, <2>5
  <2> HIDE DEF Sorted
  <2> QED
    BY <1>1, <2>6
<1>5. ASSUME NEW k \in 1 .. n, k - 1 \in M PROVE k \in M
  <2> DEFINE tails == f[k - 1].tails
             prev == f[k - 1].prev
  <2>1. PICK rank : Piles(k - 1, n, In, p, tails, prev, rank)
    BY <1>5
  <2>2. f[k] = Placement(orig, ours, f[k - 1], k)
    BY <1>3
  <2>3. CASE k \notin In
    <3>1. f[k] = f[k - 1]
      BY <1>m, <2>2, <2>3 DEF Placement
    <3>2. \A i \in In : i \in Nat /\ i # k /\ (i <= k => i <= k - 1)
      BY <1>1, <2>3
    <3>3. \A j \in DOMAIN tails : tails[j] \in Nat /\ (tails[j] <= k - 1 => tails[j] <= k)
      <4>1. tails \in Seq(In) /\ k \in Nat
        BY <1>1, <2>1 DEF Piles
      <4>2. \A j \in DOMAIN tails : tails[j] \in In
        <5> HIDE DEF tails
        <5> QED
          BY <4>1
      <4>3. \A x \in In : x \in Nat /\ (x <= k - 1 => x <= k)
        BY <1>1, <4>1
      <4> HIDE DEF tails
      <4> QED
        BY <4>2, <4>3
    <3>4. Piles(k, n, In, p, tails, prev, rank)
      <4> HIDE DEF tails, prev
      <4> QED
        BY <2>1, <3>2, <3>3 DEF Piles
    <3>5. Sorted(k, rank)
      BY <3>1, <3>4
    <3> HIDE DEF Sorted
    <3> QED
      BY <1>1, <3>5
  <2>4. CASE k \in In
    <3> DEFINE at == Cardinality(LowerPiles(orig, ours, tails, k))
               r == [rank EXCEPT ![k] = at + 1]
    <3>1. LowerPiles(orig, ours, tails, k) = Shorter(k, p, tails)
      <4>1. \A j \in DOMAIN tails : tails[j] \in In
        BY <2>1 DEF Piles
      <4>2. \A j \in DOMAIN tails : p[tails[j]] = Position(orig, ours[tails[j]])
        BY <1>2, <4>1
      <4>3. p[k] = Position(orig, ours[k])
        BY <1>2, <2>4
      <4> HIDE DEF tails
      <4> QED
        BY <4>2, <4>3 DEF LowerPiles, Shorter
    <3>2. Piles(k, n, In, p, NewTails(k, at, tails), NewPrev(k, at, tails, prev), r)
      <4> HIDE DEF tails, prev
      <4> QED
        BY <1>1, <1>2, <2>1, <2>4, <3>1, PilesStep
    <3>3. f[k] = [tails |-> NewTails(k, at, tails), prev |-> NewPrev(k, at, tails, prev)]
      BY <1>m, <2>2, <2>4 DEF Placement
    <3> HIDE DEF at, tails, prev, r
    <3>4. Sorted(k, r)
      BY <3>2, <3>3
    <3> HIDE DEF Sorted
    <3> QED
      BY <1>1, <3>4
  <2> QED
    BY <2>3, <2>4
<1>6. n \in M
  <2> HIDE DEF M
  <2>1. Inductive(M, n)
    BY <1>4, <1>5 DEF Inductive
  <2> QED
    BY <1>1, <2>1, CountUp
<1> QED
  BY <1>6 DEF n, In, p

(***************************************************************************)
(* The keys on the chain that ends at i: as many as its rank, in the order *)
(* of the base, none behind i.                                             *)
(***************************************************************************)
ChainFacts(C, i, ours, In, p, rank) ==
  /\ IsFiniteSet(C[i]) /\ Cardinality(C[i]) = rank[i]
  /\ \A x \in C[i] : \E j \in In : x = ours[j] /\ j <= i /\ p[j] <= p[i]
  /\ \A j, l \in In : ours[j] \in C[i] /\ ours[l] \in C[i] /\ j < l => p[j] < p[l]

LEMMA ChainStep ==
  ASSUME NEW ours, NoRepetition(ours), NEW In \in SUBSET (1 .. Len(ours)),
         NEW p \in [In -> Nat], NEW C, NEW rank,
         NEW h \in In, NEW i \in In, h < i, p[h] < p[i],
         C[i] = {ours[i]} \cup C[h], rank[h] \in Nat, rank[i] = rank[h] + 1,
         ChainFacts(C, h, ours, In, p, rank)
  PROVE  ChainFacts(C, i, ours, In, p, rank)
<1>1. \A j \in In : j \in Nat /\ p[j] \in Nat
  BY DEF NoRepetition
<1>2. \A j, l \in In : ours[j] = ours[l] => j = l
  BY DEF NoRepetition, IsInjective
<1>3. ASSUME NEW j \in In, ours[j] \in C[h] PROVE j < i /\ p[j] < p[i]
  <2>1. PICK l \in In : ours[j] = ours[l] /\ l <= h /\ p[l] <= p[h]
    BY <1>3 DEF ChainFacts
  <2>2. j = l
    BY <1>2, <2>1
  <2> QED
    BY <1>1, <2>1, <2>2
<1>4. ours[i] \notin C[h]
  BY <1>1, <1>3
<1>5. IsFiniteSet(C[i]) /\ Cardinality(C[i]) = rank[i]
  <2>1. IsFiniteSet(C[h]) /\ Cardinality(C[h]) = rank[h]
    BY DEF ChainFacts
  <2>2. IsFiniteSet(C[h] \cup {ours[i]}) /\ Cardinality(C[h] \cup {ours[i]}) = Cardinality(C[h]) + 1
    BY <1>4, <2>1, FS_AddElement
  <2>3. C[i] = C[h] \cup {ours[i]}
    OBVIOUS
  <2> QED
    BY <2>1, <2>2, <2>3
<1>6. ASSUME NEW x \in C[i] PROVE \E j \in In : x = ours[j] /\ j <= i /\ p[j] <= p[i]
  <2>1. CASE x = ours[i]
    BY <1>1, <2>1
  <2>2. CASE x \in C[h]
    <3>1. PICK j \in In : x = ours[j]
      BY <2>2 DEF ChainFacts
    <3>2. j < i /\ p[j] < p[i]
      BY <1>3, <2>2, <3>1
    <3> QED
      BY <1>1, <3>1, <3>2
  <2> QED
    BY <2>1, <2>2
<1>7. ASSUME NEW j \in In, NEW l \in In, ours[j] \in C[i], ours[l] \in C[i], j < l
      PROVE  p[j] < p[l]
  <2>1. CASE l = i
    <3>1. j # i
      BY <1>1, <1>7, <2>1
    <3>2. ours[j] \in C[h]
      BY <1>2, <1>7, <3>1
    <3> QED
      BY <1>3, <2>1, <3>2
  <2>2. CASE l # i
    <3>1. ours[l] \in C[h]
      BY <1>2, <1>7, <2>2
    <3>2. l < i
      BY <1>3, <3>1
    <3>3. j # i
      BY <1>1, <1>7, <3>2
    <3>4. ours[j] \in C[h]
      BY <1>2, <1>7, <3>3
    <3> QED
      BY <1>7, <3>1, <3>4 DEF ChainFacts
  <2> QED
    BY <2>1, <2>2
<1> QED
  BY <1>5, <1>6, <1>7 DEF ChainFacts

LEMMA ChainsHold ==
  ASSUME NEW ours, NoRepetition(ours), NEW In \in SUBSET (1 .. Len(ours)),
         NEW p \in [In -> Nat], NEW tails, NEW prev, NEW rank, NEW C,
         Piles(Len(ours), Len(ours), In, p, tails, prev, rank), IsChain(C, ours, prev)
  PROVE  \A i \in In : ChainFacts(C, i, ours, In, p, rank)
<1> DEFINE n == Len(ours)
           wrong == {i \in In : ~ChainFacts(C, i, ours, In, p, rank)}
<1>1. /\ n \in Nat /\ In \in SUBSET Nat
      /\ \A i \in In : i \in 1 .. n /\ i \in 0 .. n /\ i \in Nat /\ i <= n
  BY DEF NoRepetition
<1>2. /\ \A i \in In : prev[i] < i /\ (prev[i] # 0 => prev[i] \in In)
      /\ rank \in [0 .. n -> Nat] /\ rank[0] = 0
      /\ \A i \in In : rank[i] = rank[prev[i]] + 1 /\ (prev[i] # 0 => p[prev[i]] < p[i])
  BY <1>1 DEF Piles
<1>3. C[0] = {} /\ \A i \in 1 .. n : C[i] = {ours[i]} \cup C[prev[i]]
  <2>1. 0 \in 0 .. n /\ \A i \in 1 .. n : i \in 0 .. n /\ i # 0
    BY <1>1
  <2> QED
    BY <2>1 DEF IsChain
<1> HIDE DEF n
<1>4. ASSUME wrong # {} PROVE FALSE
  <2>1. PICK i \in wrong : \A k \in wrong : i <= k
    <3>1. wrong \in SUBSET Nat
      BY <1>1
    <3> HIDE DEF wrong
    <3> QED
      BY <1>4, <3>1, LeastNumber
  <2>2. i \in In /\ ~ChainFacts(C, i, ours, In, p, rank)
    OBVIOUS
  <2>3. C[i] = {ours[i]} \cup C[prev[i]]
    BY <1>1, <1>3, <2>2
  <2>4. CASE prev[i] = 0
    <3>1. C[i] = {ours[i]} /\ rank[i] = 1
      BY <1>2, <1>3, <2>2, <2>3, <2>4
    <3>2. IsFiniteSet(C[i]) /\ Cardinality(C[i]) = rank[i]
      BY <3>1, FS_Singleton
    <3>3. \A j \in In : ours[j] \in C[i] => j = i
      BY <2>2, <3>1 DEF NoRepetition, IsInjective
    <3>4. i <= i /\ p[i] <= p[i] /\ ~(i < i)
      BY <1>1, <2>2
    <3> QED
      BY <2>2, <3>1, <3>2, <3>3, <3>4 DEF ChainFacts
  <2>5. CASE prev[i] # 0
    <3>1. prev[i] \in In /\ prev[i] < i /\ p[prev[i]] < p[i] /\ rank[i] = rank[prev[i]] + 1
      BY <1>2, <2>2, <2>5
    <3>2. rank[prev[i]] \in Nat
      <4>1. prev[i] \in 0 .. n
        BY <1>1, <3>1
      <4> QED
        BY <1>2, <4>1
    <3>3. ChainFacts(C, prev[i], ours, In, p, rank)
      <4>1. prev[i] \notin wrong
        <5>1. prev[i] \in Nat /\ i \in Nat /\ ~(i <= prev[i])
          <6>1. prev[i] \in Nat /\ i \in Nat
            BY <1>1, <2>2, <3>1
          <6> QED
            BY <3>1, <6>1
        <5> QED
          BY <2>1, <5>1
      <4> QED
        BY <3>1, <4>1
    <3> QED
      BY <2>2, <2>3, <3>1, <3>2, <3>3, ChainStep
  <2> QED
    BY <2>4, <2>5
<1> QED
  BY <1>4

\* In S the keys stand in the order of the base.
StableFacts(orig, ours, S) ==
  /\ S \subseteq ToSet(orig) \cap ToSet(ours)
  /\ \A x, y \in S : Precedes(ours, x, y) => Precedes(orig, x, y)

(***************************************************************************)
(* The stable keys are in the order of the base, and no set of keys in the *)
(* order of the base is larger: a longest run ends at the last pile, and   *)
(* two keys of such a set are never in the same pile.                      *)
(***************************************************************************)
LEMMA StableKeysFacts ==
  ASSUME NEW orig, NEW ours, NoRepetition(orig), NoRepetition(ours)
  PROVE  /\ StableFacts(orig, ours, StableKeys(orig, ours))
         /\ IsFiniteSet(StableKeys(orig, ours))
         /\ \A K : StableFacts(orig, ours, K)
                     => Cardinality(K) <= Cardinality(StableKeys(orig, ours))
<1> DEFINE n == Len(ours)
           In == Known(orig, ours)
           p == BasePosition(orig, ours)
           S == StableKeys(orig, ours)
<1>1. /\ n \in Nat /\ DOMAIN ours = 1 .. n /\ In \in SUBSET (1 .. n)
      /\ \A i \in 1 .. n : i \in In <=> ours[i] \in ToSet(orig)
      /\ ours \in Seq(ToSet(ours))
  BY DEF NoRepetition, Known
<1>2. p \in [In -> Nat] /\ \A i \in In : p[i] = Position(orig, ours[i])
  <2>1. ASSUME NEW i \in In PROVE Position(orig, ours[i]) \in Nat
    <3>1. ours[i] \in ToSet(orig) /\ DOMAIN orig = 1 .. Len(orig)
      BY DEF Known, NoRepetition
    <3>2. Position(orig, ours[i]) \in DOMAIN orig
      BY <3>1, PositionFacts
    <3> QED
      BY <3>1, <3>2
  <2> QED
    BY <2>1 DEF BasePosition
<1>3. PICK f : PatienceRounds(f, orig, ours) /\ S = LastChain(ours, f[n])
  BY <1>1, StableLoop
<1> DEFINE tails == f[n].tails
           prev == f[n].prev
           C == CHOOSE C : IsChain(C, ours, prev)
<1>4. PICK rank : Piles(n, n, In, p, tails, prev, rank)
  BY <1>3, PilesAtEnd
<1>5. S = IF tails = <<>> THEN {} ELSE C[Last(tails)]
  BY <1>3 DEF LastChain
<1> HIDE DEF S, n, tails, prev
<1>6. IsChain(C, ours, prev)
  <2>1. \A i \in 1 .. n : prev[i] \in 0 .. n /\ prev[i] < i
    BY <1>4 DEF Piles
  <2> QED
    BY <1>1, <2>1, ChainExists DEF n
<1> HIDE DEF C
<1>7. \A i \in In : ChainFacts(C, i, ours, In, p, rank)
  <2> HIDE DEF In, p
  <2> QED
    BY <1>1, <1>2, <1>4, <1>6, ChainsHold DEF n
<1>8. tails \in Seq(In) /\ Len(tails) \in Nat /\ DOMAIN tails = 1 .. Len(tails)
  <2>1. tails \in Seq(In)
    BY <1>4 DEF Piles
  <2> QED
    BY <2>1
<1>9. \A i, j \in In : Precedes(orig, ours[i], ours[j]) <=> p[i] < p[j]
  <2> TAKE i, j \in In
  <2>1. ours[i] \in ToSet(orig) /\ ours[j] \in ToSet(orig)
    BY <1>1
  <2> HIDE DEF In, p
  <2> QED
    BY <1>2, <2>1, PositionFacts
<1>10. \A x, y : Precedes(ours, x, y)
                   <=> \E i, j \in 1 .. n : i < j /\ ours[i] = x /\ ours[j] = y
  BY <1>1 DEF Precedes
<1>11. StableFacts(orig, ours, S) /\ IsFiniteSet(S) /\ Cardinality(S) = Len(tails)
  <2>1. CASE tails = <<>>
    <3>1. S = {} /\ Len(tails) = 0
      BY <1>5, <2>1
    <3> QED
      BY <3>1, FS_EmptySet DEF StableFacts
  <2>2. CASE tails # <<>>
    <3> DEFINE i == Last(tails)
    <3>1. Len(tails) \in 1 .. Len(tails)
      BY <1>8, <2>2
    <3>2. i \in In /\ rank[i] = Len(tails)
      <4>1. tails[Len(tails)] \in In
        BY <1>8, <3>1
      <4>2. rank[tails[Len(tails)]] = Len(tails)
        BY <1>4, <1>8, <3>1 DEF Piles
      <4> QED
        BY <4>1, <4>2 DEF Last
    <3>3. S = C[i]
      BY <1>5, <2>2
    <3> HIDE DEF i, In, p
    <3>4. ChainFacts(C, i, ours, In, p, rank)
      BY <1>7, <3>2
    <3>5. S \subseteq ToSet(orig) \cap ToSet(ours)
      BY <1>1, <3>3, <3>4 DEF ChainFacts, ToSet
    <3>6. ASSUME NEW x \in S, NEW y \in S, Precedes(ours, x, y) PROVE Precedes(orig, x, y)
      <4>1. PICK j \in 1 .. n, l \in 1 .. n : j < l /\ ours[j] = x /\ ours[l] = y
        BY <1>10, <3>6
      <4>2. j \in In /\ l \in In
        BY <1>1, <3>5, <4>1
      <4>3. p[j] < p[l]
        BY <3>3, <3>4, <4>1, <4>2 DEF ChainFacts
      <4> QED
        BY <1>9, <4>1, <4>2, <4>3
    <3> QED
      BY <3>2, <3>3, <3>4, <3>5, <3>6 DEF ChainFacts, StableFacts
  <2> QED
    BY <2>1, <2>2
<1>12. ASSUME NEW K, StableFacts(orig, ours, K) PROVE Cardinality(K) <= Len(tails)
  <2> DEFINE at(x) == Position(ours, x)
             g == [x \in K |-> rank[at(x)]]
  <2> HIDE DEF In, p
  <2>1. ASSUME NEW x \in K PROVE at(x) \in In /\ ours[at(x)] = x
    <3>1. x \in ToSet(ours) /\ x \in ToSet(orig)
      BY <1>12 DEF StableFacts
    <3>2. at(x) \in 1 .. n /\ ours[at(x)] = x
      BY <1>1, <3>1, PositionFacts
    <3> QED
      BY <1>1, <3>1, <3>2
  <2> HIDE DEF at
  <2>2. \A i \in In : rank[i] \in 1 .. Len(tails)
    BY <1>1, <1>4, <1>8 DEF Piles
  <2>3. g \in [K -> 1 .. Len(tails)]
    BY <2>1, <2>2
  <2>4. ASSUME NEW x \in K, NEW y \in K, at(x) < at(y) PROVE g[x] < g[y]
    <3>1. Precedes(ours, x, y)
      BY <1>1, <1>10, <2>1, <2>4
    <3>2. Precedes(orig, x, y)
      BY <1>12, <3>1 DEF StableFacts
    <3>3. p[at(x)] < p[at(y)]
      BY <1>9, <2>1, <3>2
    <3>4. at(x) \in In /\ at(y) \in In /\ at(y) <= n
      <4>1. at(x) \in In /\ at(y) \in In
        BY <2>1
      <4>2. at(y) \in 1 .. n
        BY <1>1, <4>1
      <4> QED
        BY <1>1, <4>1, <4>2
    <3>5. rank[at(x)] < rank[at(y)]
      BY <1>4, <2>4, <3>3, <3>4 DEF Piles
    <3> QED
      BY <3>5
  <2>5. IsInjective(g)
    <3> SUFFICES ASSUME NEW x \in K, NEW y \in K, g[x] = g[y] PROVE x = y
      BY DEF IsInjective
    <3>1. at(x) \in Nat /\ at(y) \in Nat /\ g[x] \in Nat /\ g[y] \in Nat
      <4>1. at(x) \in In /\ at(y) \in In /\ g[x] \in 1 .. Len(tails) /\ g[y] \in 1 .. Len(tails)
        BY <2>1, <2>3
      <4>2. at(x) \in 1 .. n /\ at(y) \in 1 .. n
        BY <1>1, <4>1
      <4> HIDE DEF g
      <4> QED
        BY <1>1, <4>1, <4>2
    <3>2. ~(at(x) < at(y)) /\ ~(at(y) < at(x))
      BY <2>4, <3>1
    <3>3. at(x) = at(y)
      BY <3>1, <3>2
    <3> QED
      BY <2>1, <3>3
  <2>6. g \in Injection(K, 1 .. Len(tails))
    BY <2>3, <2>5 DEF Injection
  <2>7. IsFiniteSet(1 .. Len(tails)) /\ Cardinality(1 .. Len(tails)) = Len(tails)
    BY <1>8, FS_Interval
  <2> HIDE DEF g
  <2> QED
    BY <2>6, <2>7, FS_Injection
<1> QED
  BY <1>11, <1>12 DEF S
--------------------------------------------------------------------------------
(***************************************************************************)
(* The second half of mergeOrder: what a move does to an order.            *)
(***************************************************************************)
Inserted(X, s, j, k, t) ==
  /\ t \in Seq(X) /\ Len(t) = Len(s) + 1 /\ t[j] = k
  /\ \A i \in 1 .. Len(s) : t[IF i < j THEN i ELSE i + 1] = s[i]

LEMMA InsertPlaces ==
  ASSUME NEW X, NEW s \in Seq(X), NEW k \in X, NEW j \in 1 .. Len(s) + 1
  PROVE  Inserted(X, s, j, k, InsertAt(s, j, k))
<1> DEFINE m == Len(s)
           a == SubSeq(s, 1, j - 1)
           b == SubSeq(s, j, m)
           c == <<k>>
           h == a \o c
           t == h \o b
<1>1. m \in Nat /\ DOMAIN s = 1 .. m /\ j \in Nat /\ j - 1 \in Nat /\ j <= m + 1
  OBVIOUS
<1>2. a \in Seq(X) /\ Len(a) = j - 1 /\ \A i \in 1 .. j - 1 : a[i] = s[i]
  OBVIOUS
<1>3. b \in Seq(X) /\ Len(b) = m - j + 1 /\ \A i \in 1 .. Len(b) : b[i] = s[i + j - 1]
  OBVIOUS
<1>4. c \in Seq(X) /\ Len(c) = 1 /\ c[1] = k
  OBVIOUS
<1> HIDE DEF a, b, c, m
<1>5. /\ h \in Seq(X) /\ Len(h) = Len(a) + Len(c)
      /\ \A i \in 1 .. Len(a) + Len(c) : h[i] = IF i <= Len(a) THEN a[i] ELSE c[i - Len(a)]
  BY <1>2, <1>4, ConcatProperties, Zenon
<1>6. Len(h) = j /\ h[j] = k /\ \A i \in 1 .. j - 1 : h[i] = s[i]
  <2>1. Len(h) = j
    BY <1>1, <1>2, <1>4, <1>5
  <2>2. j \in 1 .. Len(a) + Len(c) /\ ~(j <= Len(a)) /\ j - Len(a) = 1
    BY <1>1, <1>2, <1>4
  <2>3. ASSUME NEW i \in 1 .. j - 1 PROVE h[i] = s[i]
    <3>1. i \in 1 .. Len(a) + Len(c) /\ i <= Len(a)
      BY <1>1, <1>2, <1>4
    <3> QED
      BY <1>2, <1>5, <3>1
  <2> QED
    BY <1>4, <1>5, <2>1, <2>2, <2>3
<1> HIDE DEF h
<1>7. /\ t \in Seq(X) /\ Len(t) = Len(h) + Len(b)
      /\ \A i \in 1 .. Len(h) + Len(b) : t[i] = IF i <= Len(h) THEN h[i] ELSE b[i - Len(h)]
  <2>1. h \in Seq(X) /\ b \in Seq(X)
    BY <1>3, <1>5
  <2> QED
    BY <2>1, ConcatProperties, Zenon
<1>8. Len(t) = m + 1
  BY <1>1, <1>3, <1>6, <1>7
<1>9. t[j] = k
  <2>1. j \in 1 .. Len(h) + Len(b) /\ j <= Len(h)
    BY <1>1, <1>3, <1>6
  <2> QED
    BY <1>6, <1>7, <2>1
<1>10. ASSUME NEW i \in 1 .. m, i < j PROVE t[i] = s[i]
  <2>1. i \in 1 .. Len(h) + Len(b) /\ i <= Len(h) /\ i \in 1 .. j - 1
    BY <1>1, <1>3, <1>6, <1>10
  <2> QED
    BY <1>6, <1>7, <2>1
<1>11. ASSUME NEW i \in 1 .. m, ~(i < j) PROVE t[i + 1] = s[i]
  <2>1. i + 1 \in 1 .. Len(h) + Len(b) /\ ~(i + 1 <= Len(h))
    BY <1>1, <1>3, <1>6, <1>11
  <2>2. (i + 1) - Len(h) \in 1 .. Len(b) /\ ((i + 1) - Len(h)) + j - 1 = i
    BY <1>1, <1>3, <1>6, <1>11
  <2>3. t[i + 1] = b[(i + 1) - Len(h)]
    BY <1>7, <2>1
  <2> QED
    BY <1>3, <2>2, <2>3
<1>12. InsertAt(s, j, k) = t
  BY DEF InsertAt, h, a, b, c, m
<1> HIDE DEF t
<1> QED
  BY <1>7, <1>8, <1>9, <1>10, <1>11, <1>12 DEF Inserted, m

\* What an insertion does to the order: k goes behind the first j - 1 keys.
LEMMA InsertFacts ==
  ASSUME NEW X, NEW s \in Seq(X), IsInjective(s), NEW k \in X, k \notin ToSet(s),
         NEW j \in 1 .. Len(s) + 1
  PROVE  LET t == InsertAt(s, j, k)
         IN  /\ t \in Seq(X) /\ IsInjective(t) /\ ToSet(t) = ToSet(s) \cup {k}
             /\ \A a, b \in ToSet(s) : Precedes(t, a, b) <=> Precedes(s, a, b)
             /\ \A i \in 1 .. Len(s) : /\ Precedes(t, s[i], k) <=> i < j
                                       /\ Precedes(t, k, s[i]) <=> ~(i < j)
<1> DEFINE m == Len(s)
           t == InsertAt(s, j, k)
           at(i) == IF i < j THEN i ELSE i + 1
<1>1. m \in Nat /\ DOMAIN s = 1 .. m /\ j \in 1 .. m + 1 /\ j \in Nat
  OBVIOUS
<1>2. /\ t \in Seq(X) /\ Len(t) = m + 1 /\ t[j] = k
      /\ \A i \in 1 .. m : t[at(i)] = s[i]
  BY InsertPlaces DEF Inserted
<1>3. DOMAIN t = 1 .. m + 1
  <2> HIDE DEF t
  <2> QED
    BY <1>2
<1> HIDE DEF t, m
<1>4. \A i \in 1 .. m : at(i) \in 1 .. m + 1 /\ at(i) # j /\ (at(i) < j <=> i < j)
  BY <1>1
<1>5. \A i, l \in 1 .. m : at(i) < at(l) <=> i < l
  BY <1>1
<1>6. ASSUME NEW i \in 1 .. m + 1, i # j PROVE \E l \in 1 .. m : i = at(l)
  <2>1. CASE i < j
    <3>1. i \in 1 .. m /\ at(i) = i
      BY <1>1, <2>1
    <3> QED
      BY <3>1
  <2>2. CASE ~(i < j)
    <3>1. i - 1 \in 1 .. m /\ ~(i - 1 < j) /\ at(i - 1) = i
      BY <1>1, <1>6, <2>2
    <3> QED
      BY <3>1
  <2> QED
    BY <2>1, <2>2
<1>7. \A i \in 1 .. m : at(i) \in Nat
  BY <1>4
<1> HIDE DEF at
<1>8. \A i \in 1 .. m : s[i] # k
  BY <1>1 DEF ToSet
<1>9. ASSUME NEW i \in 1 .. m + 1 PROVE t[i] = k <=> i = j
  BY <1>2, <1>6, <1>8
<1>10. \A i, l \in 1 .. m : s[i] = s[l] => i = l
  BY <1>1 DEF IsInjective
<1>11. ASSUME NEW i \in 1 .. m + 1, NEW l \in 1 .. m, t[i] = s[l] PROVE i = at(l)
  <2>1. i # j
    BY <1>2, <1>8, <1>11
  <2>2. PICK h \in 1 .. m : i = at(h)
    BY <1>6, <2>1
  <2> QED
    BY <1>2, <1>10, <1>11, <2>2
<1>12. IsInjective(t)
  <2> SUFFICES ASSUME NEW i \in 1 .. m + 1, NEW l \in 1 .. m + 1, t[i] = t[l] PROVE i = l
    BY <1>3 DEF IsInjective
  <2>1. CASE i = j
    BY <1>2, <1>9, <2>1
  <2>2. CASE i # j
    <3>1. PICK h \in 1 .. m : i = at(h)
      BY <1>6, <2>2
    <3>2. l = at(h)
      BY <1>2, <1>11, <3>1
    <3> QED
      BY <3>1, <3>2
  <2> QED
    BY <2>1, <2>2
<1>13. ToSet(t) = ToSet(s) \cup {k}
  <2>1. ASSUME NEW i \in 1 .. m + 1 PROVE t[i] \in ToSet(s) \cup {k}
    <3>1. CASE i = j
      BY <1>2, <3>1
    <3>2. CASE i # j
      <4>1. PICK h \in 1 .. m : i = at(h)
        BY <1>6, <3>2
      <4> QED
        BY <1>1, <1>2, <4>1 DEF ToSet
    <3> QED
      BY <3>1, <3>2
  <2>2. ASSUME NEW i \in 1 .. m PROVE s[i] \in ToSet(t)
    BY <1>2, <1>3, <1>4 DEF ToSet
  <2>3. k \in ToSet(t)
    BY <1>1, <1>2, <1>3 DEF ToSet
  <2> QED
    BY <1>1, <1>3, <2>1, <2>2, <2>3 DEF ToSet
<1>14. ASSUME NEW i \in 1 .. m, NEW l \in 1 .. m
       PROVE  Precedes(t, s[i], s[l]) <=> Precedes(s, s[i], s[l])
  <2>1. Precedes(s, s[i], s[l]) <=> i < l
    BY <1>1, <1>10 DEF Precedes
  <2>2. Precedes(t, s[i], s[l]) <=> at(i) < at(l)
    <3>1. ASSUME Precedes(t, s[i], s[l]) PROVE at(i) < at(l)
      <4>1. PICK x \in 1 .. m + 1, y \in 1 .. m + 1 : x < y /\ t[x] = s[i] /\ t[y] = s[l]
        BY <1>3, <3>1 DEF Precedes
      <4> QED
        BY <1>11, <4>1
    <3>2. ASSUME at(i) < at(l) PROVE Precedes(t, s[i], s[l])
      BY <1>2, <1>3, <1>4, <3>2 DEF Precedes
    <3> QED
      BY <3>1, <3>2
  <2> QED
    BY <1>5, <2>1, <2>2
<1>15. ASSUME NEW i \in 1 .. m
       PROVE  (Precedes(t, s[i], k) <=> i < j) /\ (Precedes(t, k, s[i]) <=> ~(i < j))
  <2>1. Precedes(t, s[i], k) <=> at(i) < j
    <3>1. ASSUME Precedes(t, s[i], k) PROVE at(i) < j
      <4>1. PICK x \in 1 .. m + 1, y \in 1 .. m + 1 : x < y /\ t[x] = s[i] /\ t[y] = k
        BY <1>3, <3>1 DEF Precedes
      <4> QED
        BY <1>9, <1>11, <4>1
    <3>2. ASSUME at(i) < j PROVE Precedes(t, s[i], k)
      BY <1>1, <1>2, <1>3, <1>4, <3>2 DEF Precedes
    <3> QED
      BY <3>1, <3>2
  <2>2. Precedes(t, k, s[i]) <=> j < at(i)
    <3>1. ASSUME Precedes(t, k, s[i]) PROVE j < at(i)
      <4>1. PICK x \in 1 .. m + 1, y \in 1 .. m + 1 : x < y /\ t[x] = k /\ t[y] = s[i]
        BY <1>3, <3>1 DEF Precedes
      <4> QED
        BY <1>9, <1>11, <4>1
    <3>2. ASSUME j < at(i) PROVE Precedes(t, k, s[i])
      BY <1>1, <1>2, <1>3, <1>4, <3>2 DEF Precedes
    <3> QED
      BY <3>1, <3>2
  <2>3. at(i) \in Nat /\ at(i) # j /\ (at(i) < j <=> i < j) /\ j \in Nat
    BY <1>1, <1>4, <1>7
  <2> QED
    BY <2>1, <2>2, <2>3
<1>16. \A a, b \in ToSet(s) : Precedes(t, a, b) <=> Precedes(s, a, b)
  BY <1>1, <1>14 DEF ToSet
<1> QED
  BY <1>2, <1>12, <1>13, <1>15, <1>16 DEF t, m

(***************************************************************************)
(* mergeOrder's move of a key k behind the key q ends with (<<>> when      *)
(* there is none): the other keys keep their order, k follows q directly.  *)
(***************************************************************************)
Movement(list, q, k, r) ==
  /\ IsInjective(r) /\ ToSet(r) = ToSet(list) \cup {k}
  /\ \A a, b \in ToSet(list) \ {k} : Precedes(r, a, b) <=> Precedes(list, a, b)
  /\ \A a \in ToSet(list) \ {k} :
       /\ Precedes(r, a, k) <=> q # <<>> /\ (a = q[1] \/ Precedes(list, a, q[1]))
       /\ Precedes(r, k, a) <=> ~Precedes(r, a, k)

LEMMA MoveToType ==
  ASSUME NEW X, NEW list \in Seq(X), NEW q, NEW k \in X
  PROVE  MoveTo(list, q, k) \in Seq(X)
<1> DEFINE rest == Only(list, ToSet(list) \ {k})
           j == InsertionPoint(rest, q)
<1>1. rest \in Seq(X)
  BY OnlyFacts
<1> HIDE DEF rest
<1>2. Len(rest) \in Nat /\ DOMAIN rest = 1 .. Len(rest)
  BY <1>1
<1>3. \A x : Index(rest, x) \in 0 .. Len(rest)
  <2> TAKE x
  <2>1. ASSUME x \in ToSet(rest) PROVE Position(rest, x) \in DOMAIN rest
    BY <2>1 DEF Position, ToSet
  <2> QED
    BY <1>2, <2>1 DEF Index
<1>4. j \in 1 .. Len(rest) + 1
  BY <1>2, <1>3 DEF InsertionPoint
<1> HIDE DEF j
<1>5. Inserted(X, rest, j, k, InsertAt(rest, j, k))
  BY <1>1, <1>4, InsertPlaces
<1> QED
  BY <1>5 DEF MoveTo, Inserted, j, rest

LEMMA MoveToFacts ==
  ASSUME NEW X, NEW list \in Seq(X), IsInjective(list), NEW q, NEW k \in X,
         q = <<>> \/ q[1] \in ToSet(list) \ {k}
  PROVE  Movement(list, q, k, MoveTo(list, q, k))
<1> DEFINE rest == Only(list, ToSet(list) \ {k})
           j == InsertionPoint(rest, q)
           t == InsertAt(rest, j, k)
<1>1. /\ rest \in Seq(X) /\ IsInjective(rest) /\ ToSet(rest) = ToSet(list) \ {k}
      /\ \A a, b : Precedes(rest, a, b)
                     <=> a \in ToSet(list) \ {k} /\ b \in ToSet(list) \ {k} /\ Precedes(list, a, b)
  <2>1. ToSet(list) \cap (ToSet(list) \ {k}) = ToSet(list) \ {k}
    OBVIOUS
  <2> QED
    BY <2>1, OnlyFacts
<1> HIDE DEF rest
<1>2. Len(rest) \in Nat /\ DOMAIN rest = 1 .. Len(rest) /\ NoRepetition(rest)
  <2>1. rest \in Seq(ToSet(rest))
    BY <1>1 DEF ToSet
  <2> QED
    BY <1>1, <2>1 DEF NoRepetition
<1>3. /\ \A a \in ToSet(rest) : Position(rest, a) \in 1 .. Len(rest) /\ rest[Position(rest, a)] = a
      /\ \A a, b \in ToSet(rest) : Precedes(rest, a, b) <=> Position(rest, a) < Position(rest, b)
      /\ \A a, b \in ToSet(rest) : a # b => Position(rest, a) # Position(rest, b)
  BY <1>2, PositionFacts
<1>4. \/ q = <<>> /\ j = 1
      \/ q # <<>> /\ q[1] \in ToSet(rest) /\ j = Position(rest, q[1]) + 1
  BY <1>1 DEF InsertionPoint, Index
<1> HIDE DEF j
<1>5. j \in 1 .. Len(rest) + 1
  BY <1>2, <1>3, <1>4
<1>6. /\ t \in Seq(X) /\ IsInjective(t) /\ ToSet(t) = ToSet(rest) \cup {k}
      /\ \A a, b \in ToSet(rest) : Precedes(t, a, b) <=> Precedes(rest, a, b)
      /\ \A i \in 1 .. Len(rest) : /\ Precedes(t, rest[i], k) <=> i < j
                                   /\ Precedes(t, k, rest[i]) <=> ~(i < j)
  BY <1>1, <1>5, InsertFacts
<1> HIDE DEF t
<1>7. ASSUME NEW a \in ToSet(rest)
      PROVE  /\ Precedes(t, a, k) <=> q # <<>> /\ (a = q[1] \/ Precedes(rest, a, q[1]))
             /\ Precedes(t, k, a) <=> ~Precedes(t, a, k)
  <2> DEFINE i == Position(rest, a)
  <2>1. i \in 1 .. Len(rest) /\ rest[i] = a
    BY <1>3
  <2>2. (Precedes(t, a, k) <=> i < j) /\ (Precedes(t, k, a) <=> ~(i < j))
    BY <1>6, <2>1
  <2>3. CASE q = <<>>
    <3>1. ~(i < j)
      BY <1>4, <2>1, <2>3
    <3> QED
      BY <2>2, <2>3, <3>1
  <2>4. CASE q # <<>>
    <3> DEFINE l == Position(rest, q[1])
    <3>1. q[1] \in ToSet(rest) /\ j = l + 1 /\ l \in 1 .. Len(rest)
      BY <1>3, <1>4, <2>4
    <3>2. Precedes(rest, a, q[1]) <=> i < l
      BY <1>3, <3>1
    <3>3. a = q[1] <=> i = l
      BY <1>3, <3>1
    <3> HIDE DEF i, l
    <3>4. i < j <=> i = l \/ i < l
      BY <2>1, <3>1
    <3> QED
      BY <2>2, <2>4, <3>2, <3>3, <3>4
  <2> QED
    BY <2>3, <2>4
<1>8. Movement(list, q, k, t)
  <2>1. ToSet(t) = ToSet(list) \cup {k}
    BY <1>1, <1>6
  <2>2. \A a, b \in ToSet(list) \ {k} : Precedes(t, a, b) <=> Precedes(list, a, b)
    BY <1>1, <1>6
  <2>3. \A a \in ToSet(list) \ {k} :
          /\ Precedes(t, a, k) <=> q # <<>> /\ (a = q[1] \/ Precedes(list, a, q[1]))
          /\ Precedes(t, k, a) <=> ~Precedes(t, a, k)
    BY <1>1, <1>7
  <2> QED
    BY <1>6, <2>1, <2>2, <2>3 DEF Movement
<1> QED
  BY <1>8 DEF MoveTo, t, j, rest

\* The rounds of the second loop of mergeOrder.
Reapplied(acc, k, S) ==
  LET list == IF k \in S THEN acc.list ELSE MoveTo(acc.list, acc.previous, k)
  IN  [list |-> list, previous |-> IF k \in ToSet(list) THEN <<k>> ELSE acc.previous]

MergeRounds(f, orig, ours, theirs, X) ==
  /\ f \in [0 .. Len(ours) -> [list : Seq(X), previous : Seq(X)]]
  /\ f[0] = [list |-> Kept(orig, ours, theirs), previous |-> <<>>]
  /\ \A k \in 1 .. Len(ours) : f[k] = Reapplied(f[k - 1], ours[k], StableKeys(orig, ours))

LEMMA MergeLoop ==
  ASSUME NEW orig, NEW X, NEW ours \in Seq(X), NEW theirs \in Seq(X)
  PROVE  \E f : /\ MergeRounds(f, orig, ours, theirs, X)
                /\ MergeOrder(orig, ours, theirs) = f[Len(ours)].list
<1> DEFINE n == Len(ours)
           A == [list : Seq(X), previous : Seq(X)]
           S == StableKeys(orig, ours)
           start == [list |-> Kept(orig, ours, theirs), previous |-> <<>>]
           Round(k, acc) == Reapplied(acc, ours[k], S)
           step == [k \in 1 .. n |-> [acc \in A |-> Round(k, acc)]]
           Folds(it) == it = [p \in SUBSET DOMAIN ours |->
                                 IF p = {} THEN start ELSE Round(Max(p), it[p \ {Max(p)}])]
           fold == CHOOSE it : Folds(it)
<1>1. n \in Nat /\ DOMAIN ours = 1 .. n
  OBVIOUS
<1>2. MergeOrder(orig, ours, theirs) = fold[DOMAIN ours].list
  BY Zenon DEF MergeOrder, FoldLeft, MapThenFoldSet, Reapplied
<1>a. /\ start \in A
      /\ \A k \in 1 .. n : \A acc \in A : Round(k, acc) \in A
  <2>1. start \in A
    <3>1. Kept(orig, ours, theirs) \in Seq(X)
      BY OnlyFacts DEF Kept
    <3> QED
      BY <3>1
  <2>2. ASSUME NEW k \in 1 .. n, NEW acc \in A PROVE Round(k, acc) \in A
    <3> HIDE DEF S
    <3>1. acc.list \in Seq(X) /\ acc.previous \in Seq(X) /\ ours[k] \in X /\ <<ours[k]>> \in Seq(X)
      BY <1>1
    <3>2. MoveTo(acc.list, acc.previous, ours[k]) \in Seq(X)
      BY <3>1, MoveToType
    <3> QED
      BY <3>1, <3>2 DEF Reapplied
  <2> QED
    BY <2>1, <2>2
<1> HIDE DEF n, A, start, Round
<1>3. step \in [1 .. n -> [A -> A]]
  BY <1>a
<1>4. PICK it : IsFold(it, A, start, n, step)
  <2> HIDE DEF step
  <2> QED
    BY <1>1, <1>a, <1>3, FoldExists
<1>5. \A p \in SUBSET (1 .. n) : it[p] = IF p = {} THEN start ELSE Round(Max(p), it[p \ {Max(p)}])
  <2> SUFFICES ASSUME NEW p \in SUBSET (1 .. n), p # {}
               PROVE  it[p] = Round(Max(p), it[p \ {Max(p)}])
    BY <1>4 DEF IsFold
  <2>1. Max(p) \in 1 .. n /\ it[p \ {Max(p)}] \in A
    BY <1>1, <1>4, GreatestNumber DEF IsFold
  <2> QED
    BY <1>4, <2>1 DEF IsFold
<1>6. Folds(it)
  BY <1>1, <1>4, <1>5 DEF IsFold
<1>7. Folds(fold)
  <2> HIDE DEF Folds
  <2> QED
    BY <1>6
<1>8. /\ fold[{}] = start
      /\ \A p \in SUBSET (1 .. n) : p # {} => fold[p] = Round(Max(p), fold[p \ {Max(p)}])
  <2> HIDE DEF fold
  <2> QED
    BY <1>1, <1>7
<1> HIDE DEF fold
<1>9. FoldRounds(fold, A, n, step)
  <2> SUFFICES ASSUME NEW k \in 1 .. n, fold[1 .. (k - 1)] \in A
               PROVE  fold[1 .. k] = step[k][fold[1 .. (k - 1)]]
    BY DEF FoldRounds
  <2>1. /\ 1 .. k \in SUBSET (1 .. n) /\ 1 .. k # {} /\ Max(1 .. k) = k
        /\ (1 .. k) \ {k} = 1 .. (k - 1)
    BY <1>1, PrefixSets DEF PrefixFacts
  <2>2. fold[1 .. k] = Round(k, fold[1 .. (k - 1)])
    BY <1>8, <2>1
  <2> QED
    BY <2>2
<1> DEFINE f == [k \in 0 .. n |-> fold[1 .. k]]
<1>10. IsLoop(f, A, start, n, step)
  <2> HIDE DEF step
  <2> QED
    BY <1>1, <1>a, <1>3, <1>8, <1>9, FoldIsLoop
<1>11. f[n] = fold[DOMAIN ours]
  BY <1>1
<1> HIDE DEF f
<1>12. f \in [0 .. n -> A] /\ f[0] = start /\ \A k \in 1 .. n : f[k] = Round(k, f[k - 1])
  <2>1. \A k \in 1 .. n : f[k - 1] \in A
    BY <1>1, <1>10 DEF IsLoop
  <2> QED
    BY <1>10, <2>1 DEF IsLoop
<1>13. MergeRounds(f, orig, ours, theirs, X)
  BY <1>1, <1>12 DEF MergeRounds, Round, start, n, A
<1> QED
  BY <1>2, <1>11, <1>13 DEF n

\* In a sequence without repetition, of two keys one stands in front of the other.
LEMMA PrecedesFacts ==
  ASSUME NEW X, NEW s \in Seq(X), IsInjective(s)
  PROVE  /\ NoRepetition(s)
         /\ \A a, b : Precedes(s, a, b) => a \in ToSet(s) /\ b \in ToSet(s) /\ a # b
         /\ \A a, b \in ToSet(s) : a # b => (Precedes(s, a, b) <=> ~Precedes(s, b, a))
<1>1. NoRepetition(s)
  <2>1. s \in Seq(ToSet(s))
    BY DEF ToSet
  <2> QED
    BY <2>1 DEF NoRepetition
<1>2. /\ \A x \in ToSet(s) : Position(s, x) \in Nat /\ s[Position(s, x)] = x
      /\ \A x, y : Precedes(s, x, y) <=> /\ x \in ToSet(s) /\ y \in ToSet(s)
                                         /\ Position(s, x) < Position(s, y)
  BY <1>1, PositionFacts
<1>3. ASSUME NEW a, NEW b, Precedes(s, a, b) PROVE a # b
  BY <1>2, <1>3
<1>4. ASSUME NEW a \in ToSet(s), NEW b \in ToSet(s), a # b
      PROVE  Precedes(s, a, b) <=> ~Precedes(s, b, a)
  <2>1. Position(s, a) # Position(s, b) /\ Position(s, a) \in Nat /\ Position(s, b) \in Nat
    BY <1>2, <1>4
  <2> QED
    BY <1>2, <2>1
<1> QED
  BY <1>1, <1>2, <1>3, <1>4

\* z stands directly behind the key q ends with; in front of everything if q is empty.
Behind(s, q, z) ==
  /\ z \in ToSet(s)
  /\ q = <<>> => \A a : ~Precedes(s, a, z)
  /\ q # <<>> => /\ Precedes(s, q[1], z)
                 /\ \A a : Precedes(s, a, z) => a = q[1] \/ Precedes(s, a, q[1])

LEMMA BehindNow ==
  ASSUME NEW X, NEW list \in Seq(X), IsInjective(list), NEW q, NEW c, NEW r \in Seq(X),
         q = <<>> \/ q[1] \in ToSet(list) \ {c}, Movement(list, q, c, r)
  PROVE  Behind(r, q, c)
<1>1. /\ IsInjective(r) /\ ToSet(r) = ToSet(list) \cup {c}
      /\ \A a, b \in ToSet(list) \ {c} : Precedes(r, a, b) <=> Precedes(list, a, b)
      /\ \A a \in ToSet(list) \ {c} :
           Precedes(r, a, c) <=> q # <<>> /\ (a = q[1] \/ Precedes(list, a, q[1]))
  BY DEF Movement
<1>2. \A a : Precedes(r, a, c) => a \in ToSet(list) \ {c}
  BY <1>1, PrecedesFacts
<1> QED
  BY <1>1, <1>2 DEF Behind

(***************************************************************************)
(* A key that was put in its place stays there when a later key of ours is *)
(* moved: that one goes behind this key or one that was placed later.      *)
(***************************************************************************)
LEMMA BehindStays ==
  ASSUME NEW X, NEW list \in Seq(X), IsInjective(list), NEW q, NEW c, NEW r \in Seq(X),
         q # <<>>, q[1] \in ToSet(list) \ {c}, Movement(list, q, c, r),
         NEW w, NEW z \in ToSet(list) \ {c}, Behind(list, w, z),
         w = <<>> \/ (w[1] # q[1] /\ w[1] # c)
  PROVE  Behind(r, w, z)
<1> DEFINE l == ToSet(list) \ {c}
<1>1. /\ IsInjective(r) /\ ToSet(r) = ToSet(list) \cup {c}
      /\ \A a, b \in l : Precedes(r, a, b) <=> Precedes(list, a, b)
      /\ \A a \in l : /\ Precedes(r, a, c) <=> a = q[1] \/ Precedes(list, a, q[1])
                      /\ Precedes(r, c, a) <=> ~Precedes(r, a, c)
  BY DEF Movement
<1>2. \A a, b : Precedes(r, a, b) => a \in ToSet(r) /\ b \in ToSet(r) /\ a # b
  BY <1>1, PrecedesFacts
<1>3. /\ \A a, b : Precedes(list, a, b) => a \in ToSet(list) /\ b \in ToSet(list) /\ a # b
      /\ \A a, b \in l : a # b => (Precedes(list, a, b) <=> ~Precedes(list, b, a))
  BY PrecedesFacts
<1>4. z \in l /\ q[1] \in l /\ z \in ToSet(r)
  BY <1>1
<1>5. CASE w = <<>>
  <2>1. \A a : ~Precedes(list, a, z)
    BY <1>5 DEF Behind
  <2>2. z = q[1] \/ Precedes(list, z, q[1])
    BY <1>3, <1>4, <2>1
  <2>3. ~Precedes(r, c, z)
    BY <1>1, <1>4, <2>2
  <2>4. \A a : ~Precedes(r, a, z)
    BY <1>1, <1>2, <1>4, <2>1, <2>3
  <2> QED
    BY <1>4, <1>5, <2>4 DEF Behind
<1>6. CASE w # <<>>
  <2>1. /\ Precedes(list, w[1], z)
        /\ \A a : Precedes(list, a, z) => a = w[1] \/ Precedes(list, a, w[1])
    BY <1>6 DEF Behind
  <2>2. w[1] \in l /\ w[1] # q[1]
    BY <1>3, <1>6, <2>1
  <2>3. Precedes(r, w[1], z)
    BY <1>1, <1>4, <2>1, <2>2
  <2>4. ASSUME NEW a, Precedes(r, a, z) PROVE a = w[1] \/ Precedes(r, a, w[1])
    <3>1. CASE a # c
      <4>1. a \in l
        BY <1>1, <1>2, <2>4, <3>1
      <4>2. Precedes(list, a, z)
        BY <1>1, <1>4, <2>4, <4>1
      <4> QED
        BY <1>1, <2>1, <2>2, <4>1, <4>2
    <3>2. CASE a = c /\ Precedes(r, w[1], c)
      <4>1. Precedes(list, w[1], q[1])
        BY <1>1, <2>2, <3>2
      <4>2. ~Precedes(list, q[1], w[1])
        BY <1>3, <1>4, <2>2, <4>1
      <4>3. ~Precedes(list, q[1], z)
        BY <2>1, <2>2, <4>2
      <4>4. z = q[1] \/ Precedes(list, z, q[1])
        BY <1>3, <1>4, <4>3
      <4>5. Precedes(r, z, c)
        BY <1>1, <1>4, <4>4
      <4> QED
        BY <1>1, <1>4, <2>4, <3>2, <4>5
    <3>3. CASE a = c /\ ~Precedes(r, w[1], c)
      BY <1>1, <2>2, <3>3
    <3> QED
      BY <3>1, <3>2, <3>3
  <2> QED
    BY <1>4, <1>6, <2>3, <2>4 DEF Behind
<1> QED
  BY <1>5, <1>6

\* q holds the last of the first k keys of ours that is in R.
LatestIn(ours, k, R, q) ==
  \/ q = <<>> /\ \A j \in 1 .. k : ours[j] \notin R
  \/ \E j \in 1 .. k : /\ q = <<ours[j]>> /\ ours[j] \in R
                       /\ \A l \in j + 1 .. k : ours[l] \notin R

(***************************************************************************)
(* After k rounds, with the keys S left in place: nothing is lost or       *)
(* invented, what was not moved keeps the order it had, and every key that *)
(* was moved so far is directly behind the one it follows.                 *)
(***************************************************************************)
RoundInv(f, k, ours, kept, S) ==
  LET list == f[k].list
  IN  /\ IsInjective(list)
      /\ ToSet(list) = ToSet(kept) \cup {ours[i] : i \in {l \in 1 .. k : ours[l] \notin S}}
      /\ \A a, b \in ToSet(kept) \ (ToSet(ours) \ S) :
           Precedes(list, a, b) <=> Precedes(kept, a, b)
      /\ LatestIn(ours, k, ToSet(list), f[k].previous)
      /\ \A i \in 1 .. k : ours[i] \notin S =>
           /\ Behind(list, f[i - 1].previous, ours[i])
           /\ \/ f[i - 1].previous = <<>>
              \/ \E h \in 1 .. i - 1 : f[i - 1].previous = <<ours[h]>>

LEMMA RoundStep ==
  ASSUME NEW X, NEW ours \in Seq(X), IsInjective(ours), NEW kept, NEW S, NEW f,
         NEW k \in 1 .. Len(ours), f[k - 1] \in [list : Seq(X), previous : Seq(X)],
         f[k] \in [list : Seq(X), previous : Seq(X)],
         f[k] = Reapplied(f[k - 1], ours[k], S), RoundInv(f, k - 1, ours, kept, S)
  PROVE  RoundInv(f, k, ours, kept, S)
<1> DEFINE n == Len(ours)
           c == ours[k]
           list == f[k - 1].list
           q == f[k - 1].previous
           r == f[k].list
           p == f[k].previous
<1>1. /\ n \in Nat /\ DOMAIN ours = 1 .. n /\ k \in 1 .. n /\ k \in Nat /\ c \in X
      /\ list \in Seq(X) /\ q \in Seq(X) /\ r \in Seq(X) /\ p \in Seq(X)
  OBVIOUS
<1>2. /\ IsInjective(list)
      /\ ToSet(list) = ToSet(kept) \cup {ours[i] : i \in {l \in 1 .. k - 1 : ours[l] \notin S}}
      /\ \A a, b \in ToSet(kept) \ (ToSet(ours) \ S) :
           Precedes(list, a, b) <=> Precedes(kept, a, b)
      /\ LatestIn(ours, k - 1, ToSet(list), q)
  BY DEF RoundInv
<1>3. \A i \in 1 .. k - 1 : ours[i] \notin S =>
        /\ Behind(list, f[i - 1].previous, ours[i])
        /\ \/ f[i - 1].previous = <<>>
           \/ \E h \in 1 .. i - 1 : f[i - 1].previous = <<ours[h]>>
  BY DEF RoundInv
<1>4. /\ r = IF c \in S THEN list ELSE MoveTo(list, q, c)
      /\ p = IF c \in ToSet(r) THEN <<c>> ELSE q
  BY DEF Reapplied
<1> HIDE DEF n, c, list, q, r, p
<1>5. \A i, j \in 1 .. n : ours[i] = ours[j] => i = j
  BY <1>1 DEF IsInjective
<1>6. /\ \A i \in 1 .. k - 1 : i \in 1 .. n /\ i # k /\ i \in Nat
      /\ \A i \in 1 .. k : i = k \/ i \in 1 .. k - 1
      /\ \A i \in 1 .. k - 1 : i \in 1 .. k
      /\ k \in 1 .. k
  BY <1>1
<1>7. \A i \in 1 .. k - 1 : ours[i] # c
  BY <1>1, <1>5, <1>6 DEF c
<1>8. q = <<>> \/ \E j \in 1 .. k - 1 : q = <<ours[j]>> /\ ours[j] \in ToSet(list)
  BY <1>2 DEF LatestIn
<1>9. q = <<>> \/ q[1] \in ToSet(list) \ {c}
  BY <1>7, <1>8
<1>10. {ours[i] : i \in {l \in 1 .. k : ours[l] \notin S}}
         = {ours[i] : i \in {l \in 1 .. k - 1 : ours[l] \notin S}}
              \cup (IF c \in S THEN {} ELSE {c})
  BY <1>6 DEF c
<1>11. CASE c \in S
  <2>1. r = list
    BY <1>4, <1>11
  <2>2. ToSet(r) = ToSet(kept) \cup {ours[i] : i \in {l \in 1 .. k : ours[l] \notin S}}
    BY <1>2, <1>10, <1>11, <2>1
  <2>3. LatestIn(ours, k, ToSet(r), p)
    <3>1. CASE c \in ToSet(r)
      <4>1. p = <<ours[k]>> /\ ours[k] \in ToSet(r) /\ \A l \in k + 1 .. k : ours[l] \notin ToSet(r)
        BY <1>1, <1>4, <3>1 DEF c
      <4> QED
        BY <1>6, <4>1 DEF LatestIn
    <3>2. CASE c \notin ToSet(r)
      <4>1. p = q
        BY <1>4, <3>2
      <4>2. CASE q = <<>> /\ \A j \in 1 .. k - 1 : ours[j] \notin ToSet(list)
        BY <1>6, <2>1, <3>2, <4>1, <4>2 DEF LatestIn, c
      <4>3. ASSUME NEW j \in 1 .. k - 1, q = <<ours[j]>>, ours[j] \in ToSet(list),
                   \A l \in j + 1 .. k - 1 : ours[l] \notin ToSet(list)
            PROVE  LatestIn(ours, k, ToSet(r), p)
        <5>1. \A l \in j + 1 .. k : l = k \/ l \in j + 1 .. k - 1
          BY <1>1
        <5>2. \A l \in j + 1 .. k : ours[l] \notin ToSet(r)
          BY <2>1, <3>2, <4>3, <5>1 DEF c
        <5> QED
          BY <1>6, <2>1, <4>1, <4>3, <5>2 DEF LatestIn
      <4> QED
        BY <1>2, <4>2, <4>3 DEF LatestIn
    <3> QED
      BY <3>1, <3>2
  <2>4. \A i \in 1 .. k : ours[i] \notin S => i \in 1 .. k - 1
    BY <1>6, <1>11 DEF c
  <2>5. IsInjective(r) /\ \A a, b \in ToSet(kept) \ (ToSet(ours) \ S) :
                             Precedes(r, a, b) <=> Precedes(kept, a, b)
    BY <1>2, <2>1
  <2>6. \A i \in 1 .. k : ours[i] \notin S =>
          /\ Behind(r, f[i - 1].previous, ours[i])
          /\ \/ f[i - 1].previous = <<>>
             \/ \E h \in 1 .. i - 1 : f[i - 1].previous = <<ours[h]>>
    BY <1>3, <2>1, <2>4
  <2> QED
    BY <2>2, <2>3, <2>5, <2>6 DEF RoundInv, r, p
<1>12. CASE c \notin S
  <2>1. Movement(list, q, c, r)
    BY <1>1, <1>2, <1>4, <1>9, <1>12, MoveToFacts
  <2>2. IsInjective(r) /\ ToSet(r) = ToSet(list) \cup {c}
        /\ \A a, b \in ToSet(list) \ {c} : Precedes(r, a, b) <=> Precedes(list, a, b)
    BY <2>1 DEF Movement
  <2>3. ToSet(r) = ToSet(kept) \cup {ours[i] : i \in {l \in 1 .. k : ours[l] \notin S}}
    BY <1>2, <1>10, <1>12, <2>2
  <2>4. LatestIn(ours, k, ToSet(r), p)
    <3>1. p = <<ours[k]>> /\ ours[k] \in ToSet(r) /\ \A l \in k + 1 .. k : ours[l] \notin ToSet(r)
      BY <1>1, <1>4, <2>2 DEF c
    <3> QED
      BY <1>6, <3>1 DEF LatestIn
  <2>5. ASSUME NEW a \in ToSet(kept) \ (ToSet(ours) \ S), NEW b \in ToSet(kept) \ (ToSet(ours) \ S)
        PROVE  Precedes(r, a, b) <=> Precedes(kept, a, b)
    <3>1. c \in ToSet(ours) \ S
      BY <1>1, <1>12 DEF c, ToSet
    <3>2. a \in ToSet(list) \ {c} /\ b \in ToSet(list) \ {c}
      BY <1>2, <3>1
    <3> QED
      BY <1>2, <2>2, <3>2
  <2>6. ASSUME NEW i \in 1 .. k, ours[i] \notin S
        PROVE  /\ Behind(r, f[i - 1].previous, ours[i])
               /\ \/ f[i - 1].previous = <<>>
                  \/ \E h \in 1 .. i - 1 : f[i - 1].previous = <<ours[h]>>
    <3>1. CASE i = k
      <4>1. Behind(r, q, c)
        BY <1>1, <1>2, <1>9, <2>1, BehindNow
      <4> QED
        BY <1>8, <3>1, <4>1 DEF q, c
    <3>2. CASE i # k
      <4> DEFINE w == f[i - 1].previous
                 z == ours[i]
      <4>1. /\ i \in 1 .. k - 1 /\ Behind(list, w, z)
            /\ w = <<>> \/ \E h \in 1 .. i - 1 : w = <<ours[h]>>
        BY <1>3, <1>6, <2>6, <3>2
      <4> HIDE DEF w
      <4>2. z \in ToSet(list) \ {c}
        BY <1>7, <4>1 DEF Behind
      <4>3. PICK j \in 1 .. k - 1 : /\ q = <<ours[j]>> /\ ours[j] \in ToSet(list)
                                    /\ \A l \in j + 1 .. k - 1 : ours[l] \notin ToSet(list)
        BY <1>2, <4>1, <4>2 DEF LatestIn
      <4>4. ~(j < i)
        <5>1. ASSUME j < i PROVE i \in j + 1 .. k - 1
          BY <1>1, <4>1, <5>1
        <5> QED
          BY <4>2, <4>3, <5>1
      <4>5. ASSUME NEW h \in 1 .. i - 1, w = <<ours[h]>> PROVE w[1] # q[1] /\ w[1] # c
        <5>1. h \in 1 .. k - 1 /\ h # j
          BY <1>1, <4>1, <4>4
        <5>2. ours[h] # ours[j] /\ ours[h] # c
          BY <1>5, <1>6, <1>7, <5>1
        <5> QED
          BY <4>3, <4>5, <5>2
      <4>6. w = <<>> \/ (w[1] # q[1] /\ w[1] # c)
        BY <4>1, <4>5
      <4>7. q # <<>> /\ q[1] \in ToSet(list) \ {c}
        BY <1>9, <4>3
      <4>8. Behind(r, w, z)
        <5> HIDE DEF z
        <5> QED
          BY <1>1, <1>2, <2>1, <4>1, <4>2, <4>6, <4>7, BehindStays
      <4> QED
        BY <4>1, <4>8 DEF w
    <3> QED
      BY <3>1, <3>2
  <2> QED
    BY <2>2, <2>3, <2>4, <2>5, <2>6 DEF RoundInv, r, p
<1> QED
  BY <1>11, <1>12

LEMMA RoundsHold ==
  ASSUME NEW orig, NEW X, NEW ours \in Seq(X), NEW theirs \in Seq(X), IsInjective(ours),
         IsInjective(theirs), NEW f, MergeRounds(f, orig, ours, theirs, X)
  PROVE  \A k \in 0 .. Len(ours) :
           RoundInv(f, k, ours, Kept(orig, ours, theirs), StableKeys(orig, ours))
<1> DEFINE n == Len(ours)
           kept == Kept(orig, ours, theirs)
           S == StableKeys(orig, ours)
           M == {k \in 0 .. n : RoundInv(f, k, ours, kept, S)}
<1>1. n \in Nat /\ f \in [0 .. n -> [list : Seq(X), previous : Seq(X)]]
  BY DEF MergeRounds
<1>2. f[0].list = kept /\ f[0].previous = <<>> /\ IsInjective(kept)
  <2>1. IsInjective(kept)
    BY OnlyFacts DEF Kept
  <2> QED
    BY <2>1 DEF MergeRounds
<1>3. \A k \in 1 .. n : f[k] = Reapplied(f[k - 1], ours[k], S)
  BY DEF MergeRounds
<1> HIDE DEF n, kept, S
<1>4. 0 \in M
  <2>1. \A l : l \notin 1 .. 0
    OBVIOUS
  <2>2. {ours[i] : i \in {l \in 1 .. 0 : ours[l] \notin S}} = {}
    BY <2>1
  <2>3. RoundInv(f, 0, ours, kept, S)
    BY <1>2, <2>1, <2>2 DEF RoundInv, LatestIn
  <2> QED
    BY <1>1, <2>3
<1>5. ASSUME NEW k \in 1 .. n, k - 1 \in M PROVE k \in M
  <2>1. k \in 0 .. n /\ k - 1 \in 0 .. n
    BY <1>1
  <2>2. f[k] \in [list : Seq(X), previous : Seq(X)]
        /\ f[k - 1] \in [list : Seq(X), previous : Seq(X)]
    BY <1>1, <2>1
  <2>3. RoundInv(f, k, ours, kept, S)
    BY <1>3, <1>5, <2>2, RoundStep DEF n
  <2> QED
    BY <2>1, <2>3
<1>6. Inductive(M, n)
  <2> HIDE DEF M
  <2> QED
    BY <1>4, <1>5 DEF Inductive
<1>7. \A k \in 0 .. n : k \in M
  <2> HIDE DEF M
  <2> QED
    BY <1>1, <1>6, CountUp
<1> QED
  BY <1>7 DEF n, kept, S

\* "Directly behind" in terms of places.
LEMMA BehindPlace ==
  ASSUME NEW X, NEW s \in Seq(X), IsInjective(s), NEW q, NEW z, Behind(s, q, z)
  PROVE  /\ q = <<>> => Position(s, z) = 1
         /\ q # <<>> => Position(s, z) > 1 /\ s[Position(s, z) - 1] = q[1]
<1> DEFINE at == Position(s, z)
<1>1. NoRepetition(s) /\ z \in ToSet(s)
  BY PrecedesFacts DEF Behind
<1>2. /\ \A i \in 1 .. Len(s) : Position(s, s[i]) = i /\ s[i] \in ToSet(s)
      /\ \A x \in ToSet(s) : Position(s, x) \in 1 .. Len(s) /\ s[Position(s, x)] = x
      /\ \A x, y : Precedes(s, x, y) <=> /\ x \in ToSet(s) /\ y \in ToSet(s)
                                         /\ Position(s, x) < Position(s, y)
  <2>1. DOMAIN s = 1 .. Len(s) /\ \A i \in DOMAIN s : s[i] \in ToSet(s)
    BY DEF ToSet
  <2> QED
    BY <1>1, <2>1, PositionFacts
<1>3. at \in 1 .. Len(s) /\ Len(s) \in Nat
  BY <1>1, <1>2
<1>4. ASSUME at > 1 PROVE /\ at - 1 \in 1 .. Len(s) /\ Position(s, s[at - 1]) = at - 1
                          /\ Precedes(s, s[at - 1], z)
  <2>1. at - 1 \in 1 .. Len(s) /\ at - 1 < at
    BY <1>3, <1>4
  <2>2. Position(s, s[at - 1]) = at - 1 /\ s[at - 1] \in ToSet(s)
    BY <1>2, <2>1
  <2> QED
    BY <1>1, <1>2, <2>1, <2>2
<1> HIDE DEF at
<1>5. CASE q = <<>>
  <2>1. ~(at > 1)
    BY <1>4, <1>5 DEF Behind
  <2> QED
    BY <1>3, <1>5, <2>1 DEF at
<1>6. CASE q # <<>>
  <2>1. /\ Precedes(s, q[1], z)
        /\ \A a : Precedes(s, a, z) => a = q[1] \/ Precedes(s, a, q[1])
    BY <1>6 DEF Behind
  <2> DEFINE l == Position(s, q[1])
  <2>2. l \in 1 .. Len(s) /\ l < at /\ s[l] = q[1]
    BY <1>2, <2>1 DEF at
  <2>3. at > 1
    BY <1>3, <2>2
  <2>4. s[at - 1] = q[1] \/ Precedes(s, s[at - 1], q[1])
    BY <1>4, <2>1, <2>3
  <2>5. Precedes(s, s[at - 1], q[1]) => at - 1 < l
    BY <1>2, <1>4, <2>3
  <2> HIDE DEF l
  <2>6. ~(at - 1 < l)
    BY <1>3, <2>2
  <2> QED
    BY <1>6, <2>3, <2>4, <2>5, <2>6 DEF at
<1> QED
  BY <1>5, <1>6

(***************************************************************************)
(* The last of the first k keys of ours that is in R, which is what        *)
(* previous holds, is the last element of those keys filtered by R.        *)
(***************************************************************************)
LEMMA LastKept ==
  ASSUME NEW X, NEW ours \in Seq(X), IsInjective(ours), NEW k \in 0 .. Len(ours), NEW R, NEW q,
         LatestIn(ours, k, R, q)
  PROVE  LET before == Only(SubSeq(ours, 1, k), R)
         IN  /\ before = <<>> <=> q = <<>>
             /\ q # <<>> => q[1] = Last(before)
<1> DEFINE u == SubSeq(ours, 1, k)
           before == Only(u, R)
<1>1. /\ u \in Seq(X) /\ DOMAIN u = 1 .. k /\ \A i \in 1 .. k : u[i] = ours[i]
      /\ k \in Nat /\ DOMAIN ours = 1 .. Len(ours) /\ Len(ours) \in Nat
      /\ \A i \in 1 .. k : i \in 1 .. Len(ours)
  OBVIOUS
<1> HIDE DEF u
<1>2. IsInjective(u)
  BY <1>1 DEF IsInjective
<1>3. /\ before \in Seq(X) /\ ToSet(before) = ToSet(u) \cap R /\ IsInjective(before)
      /\ \A x, y : Precedes(before, x, y) <=> x \in R /\ y \in R /\ Precedes(u, x, y)
  BY <1>1, <1>2, OnlyFacts
<1> HIDE DEF before
<1>4. \A x : x \in ToSet(before) <=> x \in R /\ \E i \in 1 .. k : x = ours[i]
  BY <1>1, <1>3 DEF ToSet
<1>5. before = <<>> <=> ToSet(before) = {}
  <2>1. Len(before) \in Nat /\ DOMAIN before = 1 .. Len(before)
    BY <1>3
  <2>2. ASSUME before # <<>> PROVE ToSet(before) # {}
    <3>1. 1 \in DOMAIN before
      BY <1>3, <2>1, <2>2
    <3> QED
      BY <3>1 DEF ToSet
  <2>3. ToSet(<<>>) = {}
    BY DEF ToSet
  <2> QED
    BY <2>2, <2>3
<1>6. CASE q = <<>> /\ \A j \in 1 .. k : ours[j] \notin R
  BY <1>4, <1>5, <1>6 DEF before, u
<1>7. ASSUME NEW j \in 1 .. k, q = <<ours[j]>>, ours[j] \in R,
             \A l \in j + 1 .. k : ours[l] \notin R
      PROVE  before # <<>> /\ q # <<>> /\ q[1] = Last(before)
  <2>1. ours[j] \in ToSet(before) /\ before # <<>>
    BY <1>4, <1>5, <1>7
  <2> DEFINE m == Len(before)
  <2>2. m \in 1 .. m /\ m \in Nat /\ DOMAIN before = 1 .. m
    BY <1>3, <2>1
  <2>3. PICK i \in 1 .. m : before[i] = ours[j]
    BY <2>1, <2>2 DEF ToSet
  <2> HIDE DEF m
  <2>4. i = m
    <3>1. ASSUME i # m PROVE FALSE
      <4>1. i < m /\ m \in DOMAIN before /\ i \in DOMAIN before
        BY <2>2, <3>1
      <4>2. Precedes(before, ours[j], before[m])
        BY <2>3, <4>1 DEF Precedes
      <4>3. before[m] \in R /\ Precedes(u, ours[j], before[m])
        BY <1>3, <4>2
      <4>4. PICK x \in 1 .. k, y \in 1 .. k : x < y /\ ours[x] = ours[j] /\ ours[y] = before[m]
        BY <1>1, <4>3 DEF Precedes
      <4>5. x = j
        BY <1>1, <4>4 DEF IsInjective
      <4>6. y \in j + 1 .. k
        BY <1>1, <4>4, <4>5
      <4> QED
        BY <1>7, <4>3, <4>4, <4>6
    <3> QED
      BY <3>1
  <2> QED
    BY <1>7, <2>1, <2>3, <2>4 DEF Last, m
<1> QED
  BY <1>6, <1>7 DEF before, u, LatestIn
LEMMA OrderOfItsKeys ==
  ASSUME NEW X, NEW s \in Seq(X)
  PROVE  s \in Seq(ToSet(s))
<1>1. Len(s) \in Nat /\ DOMAIN s = 1 .. Len(s) /\ s = [i \in 1 .. Len(s) |-> s[i]]
  OBVIOUS
<1>2. \A i \in 1 .. Len(s) : s[i] \in ToSet(s)
  BY <1>1 DEF ToSet
<1> QED
  BY <1>1, <1>2


LEMMA KeptFacts ==
  ASSUME NEW orig, NEW ours, NEW X, NEW theirs \in Seq(X), IsInjective(theirs)
  PROVE  LET kept == Kept(orig, ours, theirs)
         IN  /\ kept \in Seq(X) /\ IsInjective(kept)
             /\ ToSet(kept) = ToSet(theirs) \ (ToSet(orig) \ ToSet(ours))
             /\ \A x, y \in ToSet(kept) : Precedes(kept, x, y) <=> Precedes(theirs, x, y)
<1> DEFINE K == {k \in ToSet(theirs) : k \in ToSet(orig) => k \in ToSet(ours)}
           kept == Only(theirs, K)
<1>1. /\ kept \in Seq(X) /\ IsInjective(kept) /\ ToSet(kept) = ToSet(theirs) \cap K
      /\ \A x, y : Precedes(kept, x, y) <=> x \in K /\ y \in K /\ Precedes(theirs, x, y)
  <2> HIDE DEF K
  <2> QED
    BY OnlyFacts
<1>2. /\ ToSet(theirs) \cap K = ToSet(theirs) \ (ToSet(orig) \ ToSet(ours))
      /\ K \subseteq ToSet(theirs)
  OBVIOUS
<1>3. Kept(orig, ours, theirs) = kept
  BY DEF Kept
<1> HIDE DEF kept, K
<1> QED
  BY <1>1, <1>2, <1>3

(***************************************************************************)
(* mergeOrder gives exactly the keys it should, and both writers' moves    *)
(* survive in it.                                                          *)
(***************************************************************************)
LEMMA MergeOrderFacts ==
  ASSUME NEW orig, NEW ours, NEW theirs, NoRepetition(orig), NoRepetition(ours),
         NoRepetition(theirs)
  PROVE  LET merged == MergeOrder(orig, ours, theirs)
         IN  /\ NoRepetition(merged)
             /\ KeysAreExact(orig, ours, theirs, merged)
             /\ TheirMovesSurvive(orig, ours, theirs, merged)
             /\ OurMovesSurvive(orig, ours, theirs, merged)
<1> DEFINE n == Len(ours)
           X == ToSet(ours) \cup ToSet(theirs)
           S == StableKeys(orig, ours)
           kept == Kept(orig, ours, theirs)
           merged == MergeOrder(orig, ours, theirs)
<1>1. /\ ours \in Seq(X) /\ theirs \in Seq(X) /\ IsInjective(ours) /\ IsInjective(theirs)
      /\ n \in Nat /\ DOMAIN ours = 1 .. n
  BY SeqMonotonic DEF NoRepetition
<1> HIDE DEF X
<1>2. S \subseteq ToSet(orig) \cap ToSet(ours)
  BY StableKeysFacts DEF StableFacts
<1>3. PICK f : MergeRounds(f, orig, ours, theirs, X) /\ merged = f[n].list
  BY <1>1, MergeLoop
<1>4. \A k \in 0 .. n : RoundInv(f, k, ours, kept, S)
  BY <1>1, <1>3, RoundsHold
<1>5. /\ kept \in Seq(X) /\ IsInjective(kept)
      /\ ToSet(kept) = ToSet(theirs) \ (ToSet(orig) \ ToSet(ours))
      /\ \A x, y \in ToSet(kept) : Precedes(kept, x, y) <=> Precedes(theirs, x, y)
  BY <1>1, KeptFacts
<1>6. f \in [0 .. n -> [list : Seq(X), previous : Seq(X)]]
  BY <1>3 DEF MergeRounds
<1> HIDE DEF S, kept, merged, n
<1>7. /\ merged \in Seq(X) /\ IsInjective(merged)
      /\ ToSet(merged) = ToSet(kept) \cup {ours[i] : i \in {l \in 1 .. n : ours[l] \notin S}}
      /\ \A a, b \in ToSet(kept) \ (ToSet(ours) \ S) :
           Precedes(merged, a, b) <=> Precedes(kept, a, b)
      /\ \A i \in 1 .. n : ours[i] \notin S => Behind(merged, f[i - 1].previous, ours[i])
  <2>1. n \in 0 .. n
    BY <1>1
  <2>2. RoundInv(f, n, ours, kept, S)
    BY <1>4, <2>1
  <2>3. merged \in Seq(X)
    BY <1>3, <1>6, <2>1
  <2> QED
    BY <1>3, <2>2, <2>3 DEF RoundInv
<1>8. {ours[i] : i \in {l \in 1 .. n : ours[l] \notin S}} = ToSet(ours) \ S
  BY <1>1 DEF ToSet
<1>9. KeysAreExact(orig, ours, theirs, merged)
  BY <1>5, <1>7, <1>8 DEF KeysAreExact, S
<1>10. TheirMovesSurvive(orig, ours, theirs, merged)
  <2> DEFINE U == (S \cup (ToSet(theirs) \ ToSet(ours))) \cap ToSet(merged)
             a == Only(merged, U)
             b == Only(theirs, U)
  <2>1. U \subseteq ToSet(kept) \ (ToSet(ours) \ S) /\ U \subseteq ToSet(theirs)
        /\ U \subseteq ToSet(merged)
    BY <1>5, <1>7, <1>8
  <2> HIDE DEF U
  <2>2. /\ a \in Seq(X) /\ IsInjective(a) /\ ToSet(a) = ToSet(merged) \cap U
        /\ \A x, y : Precedes(a, x, y) <=> x \in U /\ y \in U /\ Precedes(merged, x, y)
    BY <1>7, OnlyFacts
  <2>3. /\ b \in Seq(X) /\ IsInjective(b) /\ ToSet(b) = ToSet(theirs) \cap U
        /\ \A x, y : Precedes(b, x, y) <=> x \in U /\ y \in U /\ Precedes(theirs, x, y)
    BY <1>1, OnlyFacts
  <2> HIDE DEF a, b
  <2>4. ToSet(a) = ToSet(b)
    BY <2>1, <2>2, <2>3
  <2>5. \A x, y : Precedes(a, x, y) => Precedes(b, x, y)
    BY <1>5, <1>7, <2>1, <2>2, <2>3
  <2>6. a = b
    BY <2>2, <2>3, <2>4, <2>5, OrderDetermines
  <2> QED
    BY <2>6 DEF TheirMovesSurvive, a, b, U, S
<1>11. ASSUME NEW i \in 1 .. n, ours[i] \notin S
       PROVE  LET before == Only(SubSeq(ours, 1, i - 1), ToSet(merged))
                  at == Position(merged, ours[i])
              IN  IF before = <<>> THEN at = 1 ELSE at > 1 /\ merged[at - 1] = Last(before)
  <2> DEFINE R == ToSet(merged)
             list == f[i - 1].list
             q == f[i - 1].previous
             before == Only(SubSeq(ours, 1, i - 1), R)
             at == Position(merged, ours[i])
  <2>1. i - 1 \in 0 .. n /\ \A j \in 1 .. i - 1 : j \in 1 .. n
    BY <1>1
  <2>2. RoundInv(f, i - 1, ours, kept, S)
    BY <1>4, <2>1
  <2>3. /\ ToSet(list) = ToSet(kept) \cup {ours[j] : j \in {l \in 1 .. i - 1 : ours[l] \notin S}}
        /\ LatestIn(ours, i - 1, ToSet(list), q)
    BY <2>2 DEF RoundInv
  <2>4. ASSUME NEW j \in 1 .. i - 1 PROVE ours[j] \in ToSet(list) <=> ours[j] \in R
    <3>1. ours[j] \in R => ours[j] \in ToSet(kept) \/ ours[j] \notin S
      BY <1>7, <1>8
    <3>2. ours[j] \in ToSet(list) => ours[j] \in ToSet(kept) \/ ours[j] \in ToSet(ours) \ S
      BY <1>1, <2>1, <2>3 DEF ToSet
    <3>3. ours[j] \notin S => ours[j] \in ToSet(list)
      BY <2>3
    <3>4. ours[j] \in ToSet(kept) \/ ours[j] \in ToSet(ours) \ S => ours[j] \in R
      BY <1>7, <1>8
    <3>5. ours[j] \in ToSet(kept) => ours[j] \in ToSet(list)
      BY <2>3
    <3> QED
      BY <3>1, <3>2, <3>3, <3>4, <3>5
  <2> HIDE DEF list, q, R
  <2>5. LatestIn(ours, i - 1, R, q)
    <3>1. CASE q = <<>> /\ \A j \in 1 .. i - 1 : ours[j] \notin ToSet(list)
      BY <2>4, <3>1 DEF LatestIn
    <3>2. ASSUME NEW j \in 1 .. i - 1, q = <<ours[j]>>, ours[j] \in ToSet(list),
                 \A l \in j + 1 .. i - 1 : ours[l] \notin ToSet(list)
          PROVE  /\ q = <<ours[j]>> /\ ours[j] \in R
                 /\ \A l \in j + 1 .. i - 1 : ours[l] \notin R
      <4>1. \A l \in j + 1 .. i - 1 : l \in 1 .. i - 1
        BY <1>1
      <4> QED
        BY <2>4, <3>2, <4>1
    <3> QED
      BY <2>3, <3>1, <3>2 DEF LatestIn
  <2>6. (before = <<>> <=> q = <<>>) /\ (q # <<>> => q[1] = Last(before))
    BY <1>1, <2>1, <2>5, LastKept DEF n
  <2>7. Behind(merged, q, ours[i])
    BY <1>7, <1>11 DEF q
  <2>8. (q = <<>> => at = 1) /\ (q # <<>> => at > 1 /\ merged[at - 1] = q[1])
    BY <1>7, <2>7, BehindPlace
  <2> HIDE DEF before, at
  <2>9. IF before = <<>> THEN at = 1 ELSE at > 1 /\ merged[at - 1] = Last(before)
    BY <2>6, <2>8
  <2> QED
    BY <2>9 DEF before, at, R
<1>12. OurMovesSurvive(orig, ours, theirs, merged)
  BY <1>1, <1>11 DEF OurMovesSurvive, S
<1>13. NoRepetition(merged)
  <2>1. merged \in Seq(ToSet(merged))
    BY <1>7, OrderOfItsKeys
  <2> QED
    BY <1>7, <2>1 DEF NoRepetition
<1> QED
  BY <1>9, <1>10, <1>12, <1>13 DEF merged

LEMMA SameOrder ==
  ASSUME NEW orig, NEW ours, NoRepetition(orig), NoRepetition(ours)
  PROVE  \A K : K \in InSameOrder(orig, ours) <=> StableFacts(orig, ours, K)
<1> TAKE K
<1> DEFINE X == ToSet(orig) \cup ToSet(ours)
           a == Only(ours, K)
           b == Only(orig, K)
<1>1. /\ ours \in Seq(X) /\ orig \in Seq(X) /\ IsInjective(ours) /\ IsInjective(orig)
  BY SeqMonotonic DEF NoRepetition
<1> HIDE DEF X
<1>2. /\ a \in Seq(X) /\ IsInjective(a) /\ ToSet(a) = ToSet(ours) \cap K
      /\ \A x, y : Precedes(a, x, y) <=> x \in K /\ y \in K /\ Precedes(ours, x, y)
  BY <1>1, OnlyFacts
<1>3. /\ b \in Seq(X) /\ IsInjective(b) /\ ToSet(b) = ToSet(orig) \cap K
      /\ \A x, y : Precedes(b, x, y) <=> x \in K /\ y \in K /\ Precedes(orig, x, y)
  BY <1>1, OnlyFacts
<1> HIDE DEF a, b
<1>4. ASSUME K \subseteq ToSet(orig) \cap ToSet(ours), a = b PROVE StableFacts(orig, ours, K)
  BY <1>2, <1>3, <1>4 DEF StableFacts
<1>5. ASSUME StableFacts(orig, ours, K) PROVE K \subseteq ToSet(orig) \cap ToSet(ours) /\ a = b
  <2>1. K \subseteq ToSet(orig) \cap ToSet(ours)
    BY <1>5 DEF StableFacts
  <2>2. ToSet(a) = ToSet(b) /\ \A x, y : Precedes(a, x, y) => Precedes(b, x, y)
    BY <1>2, <1>3, <1>5, <2>1 DEF StableFacts
  <2> QED
    BY <1>2, <1>3, <2>1, <2>2, OrderDetermines
<1> QED
  BY <1>4, <1>5 DEF InSameOrder, a, b

LEMMA FewestMovesHold ==
  ASSUME NEW orig, NEW ours, NoRepetition(orig), NoRepetition(ours)
  PROVE  FewestMoves(orig, ours)
BY SameOrder, StableKeysFacts DEF FewestMoves

\* Nothing of an order that was not changed is moved.
LEMMA UnchangedIsStable ==
  ASSUME NEW orig, NoRepetition(orig)
  PROVE  StableKeys(orig, orig) = ToSet(orig)
<1> DEFINE S == StableKeys(orig, orig)
           K == ToSet(orig)
<1>1. S \subseteq K /\ IsFiniteSet(S)
  BY StableKeysFacts DEF StableFacts
<1>2. Cardinality(K) <= Cardinality(S)
  BY StableKeysFacts DEF StableFacts
<1>3. IsFiniteSet(K)
  <2> DEFINE n == Len(orig)
  <2>1. n \in Nat /\ orig \in Surjection(1 .. n, K)
    BY DEF NoRepetition, Surjection, ToSet
  <2> HIDE DEF n, K
  <2>2. IsFiniteSet(1 .. n)
    BY <2>1, FS_Interval
  <2> QED
    BY <2>1, <2>2, FS_Surjection
<1> HIDE DEF S, K
<1>4. Cardinality(S) <= Cardinality(K) /\ (Cardinality(K) = Cardinality(S) => K = S)
  BY <1>1, <1>3, FS_Subset
<1>5. Cardinality(S) \in Nat /\ Cardinality(K) \in Nat
  BY <1>1, <1>3, FS_CardinalityType
<1>6. S = K
  BY <1>2, <1>4, <1>5
<1> QED
  BY <1>6 DEF S, K

\* An order that is itself the result follows itself.
LEMMA OwnMovesSurvive ==
  ASSUME NEW orig, NEW ours, NEW theirs, NoRepetition(ours)
  PROVE  OurMovesSurvive(orig, ours, theirs, ours)
<1> DEFINE n == Len(ours)
           X == ToSet(ours)
<1>1. ours \in Seq(X) /\ IsInjective(ours) /\ n \in Nat /\ DOMAIN ours = 1 .. n
      /\ \A i \in 1 .. n : ours[i] \in X
  BY DEF NoRepetition, ToSet
<1>2. ASSUME NEW i \in 1 .. n
      PROVE  LET before == Only(SubSeq(ours, 1, i - 1), X)
                 at == Position(ours, ours[i])
             IN  IF before = <<>> THEN at = 1 ELSE at > 1 /\ ours[at - 1] = Last(before)
  <2> HIDE DEF X, n
  <2> DEFINE q == IF i = 1 THEN <<>> ELSE <<ours[i - 1]>>
  <2>1. i - 1 \in 0 .. Len(ours) /\ (i # 1 => i - 1 \in 1 .. i - 1) /\ (i # 1 => i - 1 \in 1 .. n)
        /\ \A l \in 1 .. n : ~(l \in (i - 1) + 1 .. i - 1) /\ (i = 1 => l \notin 1 .. i - 1)
    BY <1>1 DEF n
  <2>2. LatestIn(ours, i - 1, X, q)
    <3>1. CASE i = 1
      <4>1. \A l : l \notin 1 .. i - 1
        BY <3>1
      <4> QED
        BY <3>1, <4>1 DEF LatestIn
    <3>2. CASE i # 1
      <4>1. i - 1 \in 1 .. i - 1 /\ q = <<ours[i - 1]>> /\ ours[i - 1] \in X
        BY <1>1, <2>1, <3>2
      <4>2. \A l : l \notin (i - 1) + 1 .. i - 1
        BY <1>1
      <4> QED
        BY <4>1, <4>2 DEF LatestIn
    <3> QED
      BY <3>1, <3>2
  <2> DEFINE before == Only(SubSeq(ours, 1, i - 1), X)
  <2>3. (before = <<>> <=> q = <<>>) /\ (q # <<>> => q[1] = Last(before))
    <3> HIDE DEF q
    <3> QED
      BY <1>1, <2>1, <2>2, LastKept
  <2>4. Position(ours, ours[i]) = i
    BY <1>1, PositionFacts
  <2> HIDE DEF before
  <2>5. i # 1 => i > 1 /\ q # <<>> /\ q[1] = ours[i - 1]
    BY <1>1
  <2>6. IF before = <<>> THEN i = 1 ELSE i > 1 /\ ours[i - 1] = Last(before)
    BY <2>3, <2>5
  <2> QED
    BY <2>4, <2>6 DEF before
<1> QED
  BY <1>1, <1>2 DEF OurMovesSurvive

(***************************************************************************)
(* mergeValue on orders, with the cases in which one side did nothing.     *)
(***************************************************************************)
LEMMA MergeListFacts ==
  ASSUME NEW orig, NEW ours, NEW theirs, NoRepetition(orig), NoRepetition(ours),
         NoRepetition(theirs)
  PROVE  LET merged == MergeList(orig, ours, theirs)
         IN  /\ NoRepetition(merged)
             /\ KeysAreExact(orig, ours, theirs, merged)
             /\ TheirMovesSurvive(orig, ours, theirs, merged)
             /\ OurMovesSurvive(orig, ours, theirs, merged)
<1> DEFINE merged == MergeList(orig, ours, theirs)
           S == StableKeys(orig, ours)
<1>1. StableFacts(orig, ours, S)
  BY StableKeysFacts
<1>2. IsInjective(ours) /\ IsInjective(theirs) /\ IsInjective(orig)
      /\ (merged \in {ours, theirs} => NoRepetition(merged))
  BY DEF NoRepetition
<1>3. CASE ours = orig
  <2>1. merged = theirs /\ S = ToSet(ours)
    BY <1>3, UnchangedIsStable DEF MergeList
  <2>2. KeysAreExact(orig, ours, theirs, theirs)
    BY <1>2, <1>3, <2>1 DEF KeysAreExact
  <2> QED
    BY <1>3, <2>1, <2>2 DEF TheirMovesSurvive, OurMovesSurvive
<1>4. CASE ours # orig /\ theirs = orig
  <2>1. merged = ours
    BY <1>4 DEF MergeList
  <2>2. KeysAreExact(orig, ours, theirs, ours)
    BY <1>1, <1>2, <1>4 DEF KeysAreExact, StableFacts
  <2>3. TheirMovesSurvive(orig, ours, theirs, ours)
    <3>1. (S \cup (ToSet(theirs) \ ToSet(ours))) \cap ToSet(ours) = S
      BY <1>1 DEF StableFacts
    <3>2. Only(orig, S) = Only(ours, S)
      BY <1>1, SameOrder DEF InSameOrder
    <3> QED
      BY <1>4, <3>1, <3>2 DEF TheirMovesSurvive
  <2> QED
    BY <2>1, <2>2, <2>3, OwnMovesSurvive
<1>5. CASE ours # orig /\ ours = theirs
  <2>1. merged = ours
    BY <1>5 DEF MergeList
  <2>2. KeysAreExact(orig, ours, theirs, ours) /\ TheirMovesSurvive(orig, ours, theirs, ours)
    BY <1>1, <1>2, <1>5 DEF KeysAreExact, TheirMovesSurvive, StableFacts
  <2> QED
    BY <2>1, <2>2, OwnMovesSurvive
<1>6. CASE ours # orig /\ theirs # orig /\ ours # theirs
  <2>1. merged = MergeOrder(orig, ours, theirs)
    BY <1>6 DEF MergeList
  <2> QED
    BY <2>1, MergeOrderFacts
<1> QED
  BY <1>3, <1>4, <1>5, <1>6
--------------------------------------------------------------------------------
(***************************************************************************)
(* Elements: the content of a child and its place in the order are merged  *)
(* apart, and a child is rendered if it has both.                          *)
(***************************************************************************)
LEMMA ElementFacts ==
  ASSUME NEW e \in Element
  PROVE  /\ NoRepetition(e.order) /\ e.order \in Seq(Child)
         /\ \A c \in Child : /\ e.children[c] \in Data \cup {Absent}
                             /\ e.children[c] = Absent <=> c \notin ToSet(e.order)
<1>1. PICK s \in Orders, f \in [Child -> Data] :
        e = [children |-> [c \in Child |-> IF c \in ToSet(s) THEN f[c] ELSE Absent],
             order |-> s]
  BY DEF Element
<1>2. s \in Seq(Child) /\ IsInjective(s)
  BY ChildrenAssumption
<1>3. s \in Seq(ToSet(s))
  BY <1>2, OrderOfItsKeys
<1>4. \A c \in Child : f[c] \in Data /\ f[c] # Absent
  BY DataAssumption, ContentAssumption
<1> QED
  BY <1>1, <1>2, <1>3, <1>4 DEF NoRepetition

\* What a merged object is: one's where the other did nothing, and property by
\* property where both have it.
ObjectMerged(b, o, t, merged) ==
  /\ o = b => merged = t
  /\ t = b => merged = o
  /\ o # Absent /\ t # Absent
       => /\ merged # Absent
          /\ \A p \in Property :
               merged[p] = IF o[p] = Properties(b)[p] THEN t[p] ELSE o[p]
  /\ merged # Absent
       => \A p \in Property :
            (o # Absent /\ merged[p] = o[p]) \/ (t # Absent /\ merged[p] = t[p])

LEMMA MergeObjectFacts ==
  \A b, o, t \in Data \cup {Absent} : ObjectMerged(b, o, t, MergeObject(b, o, t))
<1> SUFFICES ASSUME NEW b \in Data \cup {Absent}, NEW o \in Data \cup {Absent},
                    NEW t \in Data \cup {Absent}
             PROVE  ObjectMerged(b, o, t, MergeObject(b, o, t))
  OBVIOUS
<1> DEFINE merged == MergeObject(b, o, t)
           fields == MergeFields(Properties(b), o, t)
<1>1. DOMAIN Properties(b) = Property
  BY DataAssumption DEF Properties
<1>2. /\ fields = [p \in Property |-> IF o[p] = Properties(b)[p] THEN t[p] ELSE o[p]]
      /\ \A p \in Property : fields[p] = IF o[p] = Properties(b)[p] THEN t[p] ELSE o[p]
  BY <1>1 DEF MergeFields
<1>3. o # Absent /\ t # Absent => fields # Absent
  <2> SUFFICES ASSUME o # Absent, t # Absent
               PROVE  fields \in [Property -> Value]
    BY ContentAssumption
  <2>1. \A p \in Property : o[p] \in Value /\ t[p] \in Value
    BY DataAssumption
  <2> QED
    BY <1>2, <2>1
<1> HIDE DEF fields
<1>4. CASE o = b
  <2>1. merged = t
    BY <1>4 DEF MergeObject
  <2>2. b # Absent => Properties(b) = b
    BY DEF Properties
  <2> QED
    BY <1>4, <2>1, <2>2 DEF ObjectMerged
<1>5. CASE o # b /\ (o = Absent \/ t \in {Absent, b, o})
  <2>1. merged = o
    BY <1>5 DEF MergeObject
  <2>2. b # Absent => Properties(b) = b
    BY DEF Properties
  <2> QED
    BY <1>5, <2>1, <2>2 DEF ObjectMerged
<1>6. CASE o # b /\ o # Absent /\ t \notin {Absent, b, o}
  <2>1. merged = fields
    BY <1>6 DEF MergeObject, fields
  <2> QED
    BY <1>2, <1>3, <1>6, <2>1 DEF ObjectMerged
<1> QED
  BY <1>4, <1>5, <1>6

\* MergeFile on elements, with the cases in which one writer did nothing.
LEMMA ElementMerged ==
  ASSUME NEW b \in Element, NEW human \in Element, NEW agent \in Element
  PROVE  LET merged == MergeFile(b, agent, human, MergeElement(b, human, agent))
         IN  /\ merged.order = MergeList(b.order, human.order, agent.order)
             /\ \A c \in Child :
                  merged.children[c] = MergeObject(b.children[c], human.children[c],
                                                   agent.children[c])
<1> DEFINE merged == MergeFile(b, agent, human, MergeElement(b, human, agent))
<1>1. CASE agent = b
  BY <1>1 DEF MergeFile, MergeList, MergeObject
<1>2. CASE agent # b /\ human = b
  BY <1>2 DEF MergeFile, MergeList, MergeObject
<1>3. CASE agent # b /\ human # b /\ agent = human
  BY <1>3 DEF MergeFile, MergeList, MergeObject
<1>4. CASE agent # b /\ human # b /\ agent # human
  <2>1. merged = MergeElement(b, human, agent)
    BY <1>4 DEF MergeFile
  <2>2. /\ MergeElement(b, human, agent).order = MergeList(b.order, human.order, agent.order)
        /\ \A c \in Child :
             MergeElement(b, human, agent).children[c]
               = MergeObject(b.children[c], human.children[c], agent.children[c])
    BY <1>4 DEF MergeElement
  <2> HIDE DEF merged
  <2> QED
    BY <2>1, <2>2 DEF merged
<1> QED
  BY <1>1, <1>2, <1>3, <1>4

(***************************************************************************)
(* A child both sides have is in the merged order, and so is one ours has  *)
(* and the base does not; one that ours deleted is not.                    *)
(***************************************************************************)
LEMMA ElementHolds ==
  ASSUME NEW b \in Element, NEW human \in Element, NEW agent \in Element
  PROVE  LET merged == MergeFile(b, agent, human, MergeElement(b, human, agent))
         IN  /\ IndependentEditsSurvive(b, human, agent, merged)
             /\ RenderedFromAWriter(human, agent, merged)
             /\ DeletionsAreKept(b, human, agent, merged)
<1> DEFINE merged == MergeFile(b, agent, human, MergeElement(b, human, agent))
           K == ToSet(merged.order)
           B == ToSet(b.order)
           H == ToSet(human.order)
           A == ToSet(agent.order)
           S == StableKeys(b.order, human.order)
           Shown == {c \in Child : merged.children[c] # Absent}
<1>1. /\ NoRepetition(b.order) /\ NoRepetition(human.order) /\ NoRepetition(agent.order)
      /\ \A c \in Child : /\ b.children[c] = Absent <=> c \notin B
                          /\ human.children[c] = Absent <=> c \notin H
                          /\ agent.children[c] = Absent <=> c \notin A
  BY ElementFacts
<1>2. /\ merged.order = MergeList(b.order, human.order, agent.order)
      /\ \A c \in Child :
           merged.children[c] = MergeObject(b.children[c], human.children[c], agent.children[c])
  BY ElementMerged
<1> HIDE DEF merged
<1>3. \A c \in Child :
         /\ human.children[c] = b.children[c] => merged.children[c] = agent.children[c]
         /\ agent.children[c] = b.children[c] => merged.children[c] = human.children[c]
         /\ human.children[c] # Absent /\ agent.children[c] # Absent
              => /\ merged.children[c] # Absent
                 /\ \A p \in Property :
                      merged.children[c][p]
                        = IF human.children[c][p] = Properties(b.children[c])[p]
                          THEN agent.children[c][p] ELSE human.children[c][p]
         /\ merged.children[c] # Absent
              => \A p \in Property :
                   \/ human.children[c] # Absent /\ merged.children[c][p] = human.children[c][p]
                   \/ agent.children[c] # Absent /\ merged.children[c][p] = agent.children[c][p]
  <2> TAKE c \in Child
  <2>1. /\ b.children[c] \in Data \cup {Absent} /\ human.children[c] \in Data \cup {Absent}
        /\ agent.children[c] \in Data \cup {Absent}
    BY ElementFacts
  <2>2. ObjectMerged(b.children[c], human.children[c], agent.children[c], merged.children[c])
    BY <1>2, <2>1, MergeObjectFacts
  <2> QED
    BY <2>2 DEF ObjectMerged
<1>4. NoRepetition(merged.order) /\ KeysAreExact(b.order, human.order, agent.order, merged.order)
  BY <1>1, <1>2, MergeListFacts
<1>5. K = (A \ (B \ H)) \cup (H \ S)
  BY <1>4 DEF KeysAreExact
<1>6. S \subseteq B \cap H
  BY <1>1, StableKeysFacts DEF StableFacts
<1>7. IsInjective(Rendered(merged)) /\ ToSet(Rendered(merged)) = K \cap Shown
  <2>1. merged.order \in Seq(K) /\ IsInjective(merged.order)
    BY <1>4 DEF NoRepetition
  <2> HIDE DEF K, Shown
  <2>2. /\ ToSet(Only(merged.order, Shown)) = K \cap Shown
        /\ IsInjective(Only(merged.order, Shown))
    BY <2>1, OnlyFacts DEF K
  <2> QED
    BY <2>2 DEF Rendered, Shown
<1> HIDE DEF K, B, H, A, S
<1>8. IndependentEditsSurvive(b, human, agent, merged)
  <2> SUFFICES ASSUME NEW c \in Child
               PROVE  /\ Edited(b, human, c) /\ agent.children[c] = b.children[c]
                          => /\ c \in ToSet(Rendered(merged))
                             /\ merged.children[c] = human.children[c]
                      /\ Edited(b, agent, c) /\ human.children[c] = b.children[c]
                          => /\ c \in ToSet(Rendered(merged))
                             /\ merged.children[c] = agent.children[c]
                      /\ Absent \notin {human.children[c], agent.children[c]}
                          => /\ c \in ToSet(Rendered(merged))
                             /\ \A p \in Property :
                                  /\ Set(b, human, c, p)
                                       => merged.children[c][p] = human.children[c][p]
                                  /\ Set(b, agent, c, p) /\ ~Set(b, human, c, p)
                                       => merged.children[c][p] = agent.children[c][p]
    BY DEF IndependentEditsSurvive
  <2>1. ASSUME Edited(b, human, c), agent.children[c] = b.children[c]
       PROVE  c \in ToSet(Rendered(merged)) /\ merged.children[c] = human.children[c]
    <3>1. c \in H /\ (c \in B => c \in A) /\ merged.children[c] = human.children[c]
          /\ c \in Shown
      BY <1>1, <1>3, <2>1 DEF Edited
    <3>2. c \in K
      BY <1>5, <1>6, <3>1
    <3> QED
      BY <1>7, <3>1, <3>2
  <2>2. ASSUME Edited(b, agent, c), human.children[c] = b.children[c]
       PROVE  c \in ToSet(Rendered(merged)) /\ merged.children[c] = agent.children[c]
    <3>1. c \in A /\ (c \in B => c \in H) /\ merged.children[c] = agent.children[c]
          /\ c \in Shown
      BY <1>1, <1>3, <2>2 DEF Edited
    <3>2. c \in K
      BY <1>5, <3>1
    <3> QED
      BY <1>7, <3>1, <3>2
  <2>3. CASE human.children[c] # Absent /\ agent.children[c] # Absent
    <3>1. c \in A /\ c \in H /\ c \in Shown
      BY <1>1, <1>3, <2>3
    <3>2. c \in K
      BY <1>5, <3>1
    <3> QED
      BY <1>7, <1>3, <2>3, <3>1, <3>2 DEF Set
  <2>4. Edited(b, human, c) /\ agent.children[c] = b.children[c]
          => c \in ToSet(Rendered(merged)) /\ merged.children[c] = human.children[c]
    BY <2>1
  <2>5. Edited(b, agent, c) /\ human.children[c] = b.children[c]
          => c \in ToSet(Rendered(merged)) /\ merged.children[c] = agent.children[c]
    BY <2>2
  <2> QED
    BY <2>3, <2>4, <2>5
<1>9. RenderedFromAWriter(human, agent, merged)
  <2> SUFFICES ASSUME NEW c \in K \cap Shown, NEW p \in Property
               PROVE  \E e \in {human, agent} :
                        e.children[c] # Absent /\ merged.children[c][p] = e.children[c][p]
    BY <1>7 DEF RenderedFromAWriter
  <2>1. \/ human.children[c] # Absent /\ merged.children[c][p] = human.children[c][p]
        \/ agent.children[c] # Absent /\ merged.children[c][p] = agent.children[c][p]
    BY <1>3
  <2> QED
    BY <2>1
<1>10. DeletionsAreKept(b, human, agent, merged)
  <2> SUFFICES ASSUME NEW c \in Child, b.children[c] # Absent,
                      \/ human.children[c] = Absent
                      \/ agent.children[c] = Absent /\ human.children[c] = b.children[c]
               PROVE  c \notin K \cap Shown
    BY <1>7 DEF DeletionsAreKept
  <2>1. CASE human.children[c] = Absent
    BY <1>1, <1>5, <2>1
  <2>2. CASE agent.children[c] = Absent /\ human.children[c] = b.children[c]
    BY <1>3, <2>2
  <2> QED
    BY <2>1, <2>2
<1> QED
  BY <1>8, <1>9, <1>10 DEF merged

--------------------------------------------------------------------------------
(***************************************************************************)
(* Sections: what a document has under a heading is read by a loop over    *)
(* its lines, which keeps the heading it is under and what it found.       *)
(***************************************************************************)
ReadLine(acc, line, key, heading) ==
  LET now == IF line \in heading THEN line ELSE acc.now
  IN  [now |-> now, text |-> IF now = key THEN Append(acc.text, line) ELSE acc.text]

ReadRounds(f, doc, key, heading, preface, X) ==
  /\ f \in [0 .. Len(doc) -> [now : X, text : Seq(X)]]
  /\ f[0] = [now |-> preface, text |-> <<>>]
  /\ \A i \in 1 .. Len(doc) : f[i] = ReadLine(f[i - 1], doc[i], key, heading)

LEMMA ReadLoop ==
  ASSUME NEW X, NEW doc \in Seq(X), NEW key, NEW heading, NEW preface \in X
  PROVE  \E f : /\ ReadRounds(f, doc, key, heading, preface, X)
                /\ Section(doc, heading, key, preface) = f[Len(doc)].text
<1> DEFINE n == Len(doc)
           A == [now : X, text : Seq(X)]
           start == [now |-> preface, text |-> <<>>]
           Round(k, acc) == ReadLine(acc, doc[k], key, heading)
           step == [k \in 1 .. n |-> [acc \in A |-> Round(k, acc)]]
           Folds(it) == it = [p \in SUBSET DOMAIN doc |->
                                 IF p = {} THEN start ELSE Round(Max(p), it[p \ {Max(p)}])]
           fold == CHOOSE it : Folds(it)
<1>1. n \in Nat /\ DOMAIN doc = 1 .. n
  OBVIOUS
<1>2. Section(doc, heading, key, preface) = fold[DOMAIN doc].text
  BY Zenon DEF Section, FoldLeft, MapThenFoldSet, ReadLine
<1>a. /\ start \in A
      /\ \A k \in 1 .. n : \A acc \in A : Round(k, acc) \in A
  <2>1. start \in A
    OBVIOUS
  <2>2. ASSUME NEW k \in 1 .. n, NEW acc \in A PROVE Round(k, acc) \in A
    <3>1. acc.now \in X /\ acc.text \in Seq(X) /\ doc[k] \in X
      BY <1>1
    <3> QED
      BY <3>1 DEF ReadLine
  <2> QED
    BY <2>1, <2>2
<1> HIDE DEF n, A, start, Round
<1>3. step \in [1 .. n -> [A -> A]]
  BY <1>a
<1>4. PICK it : IsFold(it, A, start, n, step)
  <2> HIDE DEF step
  <2> QED
    BY <1>1, <1>a, <1>3, FoldExists
<1>5. \A p \in SUBSET (1 .. n) : it[p] = IF p = {} THEN start ELSE Round(Max(p), it[p \ {Max(p)}])
  <2> SUFFICES ASSUME NEW p \in SUBSET (1 .. n), p # {}
               PROVE  it[p] = Round(Max(p), it[p \ {Max(p)}])
    BY <1>4 DEF IsFold
  <2>1. Max(p) \in 1 .. n /\ it[p \ {Max(p)}] \in A
    BY <1>1, <1>4, GreatestNumber DEF IsFold
  <2> QED
    BY <1>4, <2>1 DEF IsFold
<1>6. Folds(it)
  BY <1>1, <1>4, <1>5 DEF IsFold
<1>7. Folds(fold)
  <2> HIDE DEF Folds
  <2> QED
    BY <1>6
<1>8. /\ fold[{}] = start
      /\ \A p \in SUBSET (1 .. n) : p # {} => fold[p] = Round(Max(p), fold[p \ {Max(p)}])
  <2> HIDE DEF fold
  <2> QED
    BY <1>1, <1>7
<1> HIDE DEF fold
<1>9. FoldRounds(fold, A, n, step)
  <2> SUFFICES ASSUME NEW k \in 1 .. n, fold[1 .. (k - 1)] \in A
               PROVE  fold[1 .. k] = step[k][fold[1 .. (k - 1)]]
    BY DEF FoldRounds
  <2>1. /\ 1 .. k \in SUBSET (1 .. n) /\ 1 .. k # {} /\ Max(1 .. k) = k
        /\ (1 .. k) \ {k} = 1 .. (k - 1)
    BY <1>1, PrefixSets DEF PrefixFacts
  <2>2. fold[1 .. k] = Round(k, fold[1 .. (k - 1)])
    BY <1>8, <2>1
  <2> QED
    BY <2>2
<1> DEFINE f == [k \in 0 .. n |-> fold[1 .. k]]
<1>10. IsLoop(f, A, start, n, step)
  <2> HIDE DEF step
  <2> QED
    BY <1>1, <1>a, <1>3, <1>8, <1>9, FoldIsLoop
<1>11. f[n] = fold[DOMAIN doc]
  BY <1>1
<1> HIDE DEF f
<1>12. f \in [0 .. n -> A] /\ f[0] = start /\ \A k \in 1 .. n : f[k] = Round(k, f[k - 1])
  <2>1. \A k \in 1 .. n : f[k - 1] \in A
    BY <1>1, <1>10 DEF IsLoop
  <2> QED
    BY <1>10, <2>1 DEF IsLoop
<1>13. ReadRounds(f, doc, key, heading, preface, X)
  BY <1>1, <1>12 DEF ReadRounds, Round, start, n, A
<1> QED
  BY <1>2, <1>11, <1>13 DEF n

\* The rounds are determined by the document.
LEMMA ReadOnce ==
  ASSUME NEW X, NEW doc \in Seq(X), NEW key, NEW heading, NEW preface,
         NEW f, NEW g, ReadRounds(f, doc, key, heading, preface, X),
         ReadRounds(g, doc, key, heading, preface, X)
  PROVE  f[Len(doc)] = g[Len(doc)]
<1> DEFINE n == Len(doc)
           M == {k \in 0 .. n : f[k] = g[k]}
<1>1. n \in Nat /\ 0 \in 0 .. n
  OBVIOUS
<1>2. 0 \in M
  BY <1>1 DEF ReadRounds
<1>3. ASSUME NEW k \in 1 .. n, k - 1 \in M PROVE k \in M
  <2>1. f[k - 1] = g[k - 1] /\ k \in 0 .. n
    BY <1>1, <1>3
  <2>2. f[k] = ReadLine(f[k - 1], doc[k], key, heading)
        /\ g[k] = ReadLine(g[k - 1], doc[k], key, heading)
    BY DEF ReadRounds
  <2> QED
    BY <2>1, <2>2
<1> HIDE DEF M
<1>4. Inductive(M, n)
  BY <1>2, <1>3 DEF Inductive
<1>5. n \in M
  BY <1>1, <1>4, CountUp
<1> QED
  BY <1>5 DEF M

\* Reads: after the document, the heading it is under and what the section holds.
Reads(doc, key, heading, preface, X, now, text) ==
  \E f : /\ ReadRounds(f, doc, key, heading, preface, X)
         /\ f[Len(doc)] = [now |-> now, text |-> text]

LEMMA SectionRead ==
  ASSUME NEW X, NEW doc \in Seq(X), NEW key, NEW heading, NEW preface \in X, NEW now, NEW text,
         Reads(doc, key, heading, preface, X, now, text)
  PROVE  Section(doc, heading, key, preface) = text
<1>1. PICK f : /\ ReadRounds(f, doc, key, heading, preface, X)
               /\ f[Len(doc)] = [now |-> now, text |-> text]
  BY DEF Reads
<1>2. PICK g : /\ ReadRounds(g, doc, key, heading, preface, X)
               /\ Section(doc, heading, key, preface) = g[Len(doc)].text
  BY ReadLoop
<1>3. f[Len(doc)] = g[Len(doc)]
  BY <1>1, <1>2, ReadOnce
<1> QED
  BY <1>1, <1>2, <1>3

(***************************************************************************)
(* A block: lines that belong under one heading.  No other heading is in   *)
(* them, and they begin with it, unless they stand before all headings.    *)
(***************************************************************************)
Block(t, key, heading, X) ==
  /\ t \in Seq(X)
  /\ \A i \in 1 .. Len(t) : t[i] \in heading => t[i] = key
  /\ key \in heading /\ t # <<>> => t[1] = key

LEMMA EmptyRead ==
  ASSUME NEW X, NEW key, NEW heading, NEW preface \in X
  PROVE  Reads(<<>>, key, heading, preface, X, preface, <<>>)
<1> DEFINE f == [i \in 0 .. 0 |-> [now |-> preface, text |-> <<>>]]
<1>1. Len(<<>>) = 0 /\ <<>> \in Seq(X) /\ 1 .. 0 = {} /\ 0 \in 0 .. 0
  OBVIOUS
<1>2. ReadRounds(f, <<>>, key, heading, preface, X)
  BY <1>1 DEF ReadRounds
<1>3. f[Len(<<>>)] = [now |-> preface, text |-> <<>>]
  BY <1>1
<1> HIDE DEF f
<1> QED
  BY <1>2, <1>3 DEF Reads

\* A block behind a document is read as a whole, into the section it belongs to.
LEMMA BlockRead ==
  ASSUME NEW X, NEW s \in Seq(X), NEW key, NEW heading, NEW preface \in X,
         NEW now, NEW text \in Seq(X), Reads(s, key, heading, preface, X, now, text),
         NEW k \in X, NEW t, Block(t, k, heading, X), k \in heading \/ now = k
  PROVE  Reads(s \o t, key, heading, preface, X, IF t = <<>> THEN now ELSE k,
               IF k = key THEN text \o t ELSE text)
<1> DEFINE m == Len(s)
           l == Len(t)
           d == s \o t
           upto(j) == IF k = key THEN text \o SubSeq(t, 1, j) ELSE text
<1>1. PICK f : /\ ReadRounds(f, s, key, heading, preface, X)
               /\ f[m] = [now |-> now, text |-> text]
  BY DEF Reads
<1>2. /\ t \in Seq(X) /\ m \in Nat /\ l \in Nat /\ d \in Seq(X) /\ Len(d) = m + l
      /\ \A i \in 1 .. m : d[i] = s[i]
      /\ \A i \in 1 .. l : d[m + i] = t[i]
  <2>1. t \in Seq(X)
    BY DEF Block
  <2> QED
    BY <2>1
<1> DEFINE g == [i \in 0 .. m + l |-> IF i <= m THEN f[i]
                                       ELSE [now |-> k, text |-> upto(i - m)]]
<1>3. /\ f \in [0 .. m -> [now : X, text : Seq(X)]] /\ f[0] = [now |-> preface, text |-> <<>>]
      /\ \A i \in 1 .. m : f[i] = ReadLine(f[i - 1], s[i], key, heading)
  BY <1>1 DEF ReadRounds
<1>4. \A j \in 0 .. l : upto(j) \in Seq(X)
  <2>1. \A j \in 0 .. l : SubSeq(t, 1, j) \in Seq(X)
    BY <1>2
  <2> HIDE DEF l
  <2> QED
    BY <2>1
<1>5. upto(0) = text /\ \A j \in 1 .. l :
        upto(j) = IF k = key THEN Append(upto(j - 1), t[j]) ELSE upto(j - 1)
  <2>1. text \o SubSeq(t, 1, 0) = text
    BY <1>2
  <2>2. ASSUME NEW j \in 1 .. l
        PROVE  text \o SubSeq(t, 1, j) = Append(text \o SubSeq(t, 1, j - 1), t[j])
    <3>1. /\ SubSeq(t, 1, j) \in Seq(X) /\ SubSeq(t, 1, j - 1) \in Seq(X) /\ t[j] \in X
          /\ SubSeq(t, 1, j) = Append(SubSeq(t, 1, j - 1), t[j])
      BY <1>2
    <3> QED
      BY <3>1
  <2> HIDE DEF l
  <2> QED
    BY <2>1, <2>2
<1> HIDE DEF upto, d
<1>6. g \in [0 .. m + l -> [now : X, text : Seq(X)]] /\ g[0] = [now |-> preface, text |-> <<>>]
  <2>1. \A i \in 0 .. m + l : i > m => i - m \in 0 .. l
    BY <1>2
  <2>2. \A i \in 0 .. m + l : i <= m => i \in 0 .. m
    BY <1>2
  <2>3. 0 \in 0 .. m + l /\ 0 <= m
    BY <1>2
  <2>4. k \in X /\ \A i \in 0 .. m : f[i] \in [now : X, text : Seq(X)]
    BY <1>3
  <2> HIDE DEF m, l
  <2>5. \A i \in 0 .. m + l : g[i] \in [now : X, text : Seq(X)]
    <3> SUFFICES ASSUME NEW i \in 0 .. m + l PROVE g[i] \in [now : X, text : Seq(X)]
      OBVIOUS
    <3>1. CASE i <= m
      BY <2>2, <2>4, <3>1
    <3>2. CASE ~(i <= m)
      <4>1. i - m \in 0 .. l
        BY <1>2, <2>1, <3>2
      <4>2. upto(i - m) \in Seq(X)
        BY <1>4, <4>1
      <4>3. g[i] = [now |-> k, text |-> upto(i - m)]
        BY <3>2
      <4> QED
        BY <2>4, <4>2, <4>3
    <3> QED
      BY <3>1, <3>2
  <2>6. g[0] = [now |-> preface, text |-> <<>>]
    BY <1>3, <2>3
  <2>7. g = [i \in 0 .. m + l |-> g[i]]
    OBVIOUS
  <2> HIDE DEF g
  <2> QED
    BY <2>5, <2>6, <2>7
<1>7. ASSUME NEW i \in 1 .. m + l PROVE g[i] = ReadLine(g[i - 1], d[i], key, heading)
  <2>1. CASE i <= m
    <3>1. i \in 1 .. m /\ i - 1 \in 0 .. m + l /\ i - 1 <= m /\ i \in 0 .. m + l
      BY <1>2, <2>1
    <3>2. g[i] = f[i] /\ g[i - 1] = f[i - 1] /\ d[i] = s[i]
      BY <1>2, <2>1, <3>1
    <3> QED
      BY <1>3, <3>1, <3>2
  <2>2. CASE i = m + 1
    <3>1. 1 \in 1 .. l /\ i - 1 = m /\ m \in 0 .. m + l /\ i \in 0 .. m + l /\ ~(i <= m)
          /\ i - m = 1 /\ t # <<>> /\ m <= m
      BY <1>2, <2>2
    <3>2. g[i] = [now |-> k, text |-> upto(1)] /\ g[i - 1] = [now |-> now, text |-> text]
          /\ d[i] = t[1]
      BY <1>1, <1>2, <2>2, <3>1
    <3>3. (IF t[1] \in heading THEN t[1] ELSE now) = k
      BY <3>1 DEF Block
    <3>4. upto(1) = IF k = key THEN Append(text, t[1]) ELSE text
      BY <1>5, <3>1
    <3>5. ReadLine([now |-> now, text |-> text], t[1], key, heading) = [now |-> k, text |-> upto(1)]
      BY <3>3, <3>4 DEF ReadLine
    <3> QED
      BY <3>2, <3>5
  <2>3. CASE i > m + 1
    <3> DEFINE j == i - m
    <3>1. /\ j \in 1 .. l /\ j - 1 = (i - 1) - m /\ i - 1 \in 0 .. m + l /\ i \in 0 .. m + l
          /\ ~(i <= m) /\ ~(i - 1 <= m) /\ i = m + j
      BY <1>2, <2>3
    <3>2. g[i] = [now |-> k, text |-> upto(j)] /\ g[i - 1] = [now |-> k, text |-> upto(j - 1)]
          /\ d[i] = t[j]
      BY <1>2, <3>1
    <3>3. (IF t[j] \in heading THEN t[j] ELSE k) = k
      BY <3>1 DEF Block
    <3>4. upto(j) = IF k = key THEN Append(upto(j - 1), t[j]) ELSE upto(j - 1)
      BY <1>5, <3>1
    <3> HIDE DEF j
    <3>5. ReadLine([now |-> k, text |-> upto(j - 1)], t[j], key, heading)
            = [now |-> k, text |-> upto(j)]
      BY <3>3, <3>4 DEF ReadLine
    <3> QED
      BY <3>2, <3>5
  <2> QED
    BY <1>2, <2>1, <2>2, <2>3
<1>8. ReadRounds(g, d, key, heading, preface, X)
  BY <1>2, <1>6, <1>7 DEF ReadRounds
<1>9. g[Len(d)] = [now |-> IF t = <<>> THEN now ELSE k,
                   text |-> IF k = key THEN text \o t ELSE text]
  <2>1. CASE t = <<>>
    <3>1. l = 0 /\ Len(d) = m /\ m <= m /\ m \in 0 .. m + l /\ text \o t = text
      BY <1>2, <2>1
    <3> QED
      BY <1>1, <2>1, <3>1
  <2>2. CASE t # <<>>
    <3>1. l # 0 /\ SubSeq(t, 1, l) = t
      BY <1>2, <2>2
    <3>2. Len(d) = m + l /\ ~(m + l <= m) /\ m + l \in 0 .. m + l /\ (m + l) - m = l
      BY <1>2, <3>1
    <3>3. g[Len(d)] = [now |-> k, text |-> upto(l)]
      BY <3>2
    <3>4. upto(l) = IF k = key THEN text \o t ELSE text
      BY <3>1 DEF upto
    <3> QED
      BY <2>2, <3>3, <3>4
  <2> QED
    BY <2>1, <2>2
<1> HIDE DEF g
<1> QED
  BY <1>8, <1>9 DEF Reads, d

(***************************************************************************)
(* What a document has under a heading is a block, and empty only if the   *)
(* document does not have the heading.                                     *)
(***************************************************************************)
LEMMA SectionFacts ==
  ASSUME NEW X, NEW doc \in Seq(X), NEW key, NEW heading, NEW preface \in X \ heading
  PROVE  /\ Block(Section(doc, heading, key, preface), key, heading, X)
         /\ key \in heading => (Section(doc, heading, key, preface) = <<>>
                                   <=> key \notin ToSet(doc))
<1> DEFINE n == Len(doc)
<1>1. PICK f : /\ ReadRounds(f, doc, key, heading, preface, X)
               /\ Section(doc, heading, key, preface) = f[n].text
  BY ReadLoop
<1> DEFINE Inv(i) == /\ Block(f[i].text, key, heading, X)
                     /\ key \in heading /\ f[i].text = <<>> => f[i].now # key
                     /\ key \in heading => (f[i].text = <<>> <=> \A j \in 1 .. i : doc[j] # key)
           M == {i \in 0 .. n : Inv(i)}
<1>2. /\ n \in Nat /\ DOMAIN doc = 1 .. n /\ \A i \in 1 .. n : doc[i] \in X
      /\ f \in [0 .. n -> [now : X, text : Seq(X)]] /\ f[0] = [now |-> preface, text |-> <<>>]
      /\ \A i \in 1 .. n : f[i] = ReadLine(f[i - 1], doc[i], key, heading)
  BY <1>1 DEF ReadRounds
<1>3. 0 \in M
  <2>1. 0 \in 0 .. n /\ 1 .. 0 = {} /\ f[0].text = <<>> /\ f[0].now = preface
    BY <1>2
  <2>2. Block(<<>>, key, heading, X)
    BY DEF Block
  <2> HIDE DEF n
  <2> QED
    BY <2>1, <2>2
<1>4. ASSUME NEW i \in 1 .. n, i - 1 \in M PROVE i \in M
  <2> DEFINE t == f[i - 1].text
             now == IF doc[i] \in heading THEN doc[i] ELSE f[i - 1].now
  <2>1. /\ i \in Nat /\ i - 1 \in 0 .. n /\ i \in 0 .. n /\ i \in 1 .. i
        /\ t \in Seq(X) /\ doc[i] \in X
        /\ \A j \in 1 .. i : j = i \/ j \in 1 .. i - 1
        /\ \A j \in 1 .. i - 1 : j \in 1 .. i
    BY <1>2
  <2>2. Inv(i - 1)
    BY <1>4
  <2>3. f[i].now = now /\ f[i].text = IF now = key THEN Append(t, doc[i]) ELSE t
    <3>1. f[i] = ReadLine(f[i - 1], doc[i], key, heading)
      BY <1>2
    <3>2. ReadLine(f[i - 1], doc[i], key, heading)
            = [now |-> now, text |-> IF now = key THEN Append(t, doc[i]) ELSE t]
      BY Zenon DEF ReadLine
    <3> HIDE DEF now, t
    <3> QED
      BY <3>1, <3>2
  <2> HIDE DEF n
  <2>4. CASE now = key
    <3>1. f[i].text = Append(t, doc[i]) /\ f[i].text # <<>>
      BY <2>1, <2>3, <2>4
    <3>2. doc[i] \in heading => doc[i] = key
      BY <2>4
    <3>3. key \in heading /\ t = <<>> => doc[i] = key
      BY <2>2, <2>4
    <3>4. Block(Append(t, doc[i]), key, heading, X)
      <4>1. /\ Append(t, doc[i]) \in Seq(X) /\ Len(Append(t, doc[i])) = Len(t) + 1
            /\ \A j \in 1 .. Len(t) : Append(t, doc[i])[j] = t[j]
            /\ Append(t, doc[i])[Len(t) + 1] = doc[i]
            /\ \A j \in 1 .. Len(t) + 1 : j \in 1 .. Len(t) \/ j = Len(t) + 1
            /\ (t = <<>> => Len(t) = 0) /\ (t # <<>> => 1 \in 1 .. Len(t))
        BY <2>1
      <4>2. Block(t, key, heading, X)
        BY <2>2
      <4>3. \A j \in 1 .. Len(t) + 1 :
              Append(t, doc[i])[j] \in heading => Append(t, doc[i])[j] = key
        BY <3>2, <4>1, <4>2 DEF Block
      <4>4. key \in heading => Append(t, doc[i])[1] = key
        BY <3>3, <4>1, <4>2 DEF Block
      <4> QED
        BY <4>1, <4>3, <4>4 DEF Block
    <3>5. key \in heading => \E j \in 1 .. i : doc[j] = key
      <4>1. CASE t = <<>>
        BY <2>1, <3>3, <4>1
      <4>2. CASE t # <<>>
        BY <2>1, <2>2, <4>2
      <4> QED
        BY <4>1, <4>2
    <3>6. Inv(i)
      BY <3>1, <3>4, <3>5
    <3> QED
      BY <2>1, <3>6
  <2>5. CASE now # key
    <3>1. f[i].text = t /\ f[i].now # key
      BY <2>3, <2>5
    <3>2. key \in heading => doc[i] # key
      BY <2>5
    <3>3. key \in heading => ((\A j \in 1 .. i : doc[j] # key)
                                <=> \A j \in 1 .. i - 1 : doc[j] # key)
      BY <2>1, <3>2
    <3>4. Inv(i)
      BY <2>2, <3>1, <3>3
    <3> QED
      BY <2>1, <3>4
  <2> QED
    BY <2>4, <2>5
<1>5. Inductive(M, n)
  <2> HIDE DEF M
  <2> QED
    BY <1>3, <1>4 DEF Inductive
<1>6. n \in M
  <2> HIDE DEF M
  <2> QED
    BY <1>2, <1>5, CountUp
<1>7. Inv(n)
  BY <1>6
<1>8. (\A j \in 1 .. n : doc[j] # key) <=> key \notin ToSet(doc)
  BY <1>2 DEF ToSet
<1> HIDE DEF n
<1> QED
  BY <1>1, <1>7, <1>8

OpenRounds(f, doc, heading, preface, X) ==
  /\ f \in [0 .. Len(doc) -> Seq(X)]
  /\ f[0] = <<preface>>
  /\ \A i \in 1 .. Len(doc) :
       f[i] = IF doc[i] \in heading /\ doc[i] \notin ToSet(f[i - 1])
              THEN Append(f[i - 1], doc[i]) ELSE f[i - 1]

LEMMA OpenLoop ==
  ASSUME NEW X, NEW doc \in Seq(X), NEW heading, NEW preface \in X
  PROVE  \E f : /\ OpenRounds(f, doc, heading, preface, X)
                /\ SectionOrder(doc, heading, preface) = f[Len(doc)]
<1> DEFINE n == Len(doc)
           A == Seq(X)
           start == <<preface>>
           Round(k, acc) == IF doc[k] \in heading /\ doc[k] \notin ToSet(acc)
                            THEN Append(acc, doc[k]) ELSE acc
           step == [k \in 1 .. n |-> [acc \in A |-> Round(k, acc)]]
           Folds(it) == it = [p \in SUBSET DOMAIN doc |->
                                 IF p = {} THEN start ELSE Round(Max(p), it[p \ {Max(p)}])]
           fold == CHOOSE it : Folds(it)
<1>1. n \in Nat /\ DOMAIN doc = 1 .. n
  OBVIOUS
<1>2. SectionOrder(doc, heading, preface) = fold[DOMAIN doc]
  BY Zenon DEF SectionOrder, FoldLeft, MapThenFoldSet
<1>a. /\ start \in A
      /\ \A k \in 1 .. n : \A acc \in A : Round(k, acc) \in A
  BY <1>1
<1> HIDE DEF n, A, start, Round
<1>3. step \in [1 .. n -> [A -> A]]
  BY <1>a
<1>4. PICK it : IsFold(it, A, start, n, step)
  <2> HIDE DEF step
  <2> QED
    BY <1>1, <1>a, <1>3, FoldExists
<1>5. \A p \in SUBSET (1 .. n) : it[p] = IF p = {} THEN start ELSE Round(Max(p), it[p \ {Max(p)}])
  <2> SUFFICES ASSUME NEW p \in SUBSET (1 .. n), p # {}
               PROVE  it[p] = Round(Max(p), it[p \ {Max(p)}])
    BY <1>4 DEF IsFold
  <2>1. Max(p) \in 1 .. n /\ it[p \ {Max(p)}] \in A
    BY <1>1, <1>4, GreatestNumber DEF IsFold
  <2> QED
    BY <1>4, <2>1 DEF IsFold
<1>6. Folds(it)
  BY <1>1, <1>4, <1>5 DEF IsFold
<1>7. Folds(fold)
  <2> HIDE DEF Folds
  <2> QED
    BY <1>6
<1>8. /\ fold[{}] = start
      /\ \A p \in SUBSET (1 .. n) : p # {} => fold[p] = Round(Max(p), fold[p \ {Max(p)}])
  <2> HIDE DEF fold
  <2> QED
    BY <1>1, <1>7
<1> HIDE DEF fold
<1>9. FoldRounds(fold, A, n, step)
  <2> SUFFICES ASSUME NEW k \in 1 .. n, fold[1 .. (k - 1)] \in A
               PROVE  fold[1 .. k] = step[k][fold[1 .. (k - 1)]]
    BY DEF FoldRounds
  <2>1. /\ 1 .. k \in SUBSET (1 .. n) /\ 1 .. k # {} /\ Max(1 .. k) = k
        /\ (1 .. k) \ {k} = 1 .. (k - 1)
    BY <1>1, PrefixSets DEF PrefixFacts
  <2>2. fold[1 .. k] = Round(k, fold[1 .. (k - 1)])
    BY <1>8, <2>1
  <2> QED
    BY <2>2
<1> DEFINE f == [k \in 0 .. n |-> fold[1 .. k]]
<1>10. IsLoop(f, A, start, n, step)
  <2> HIDE DEF step
  <2> QED
    BY <1>1, <1>a, <1>3, <1>8, <1>9, FoldIsLoop
<1>11. f[n] = fold[DOMAIN doc]
  BY <1>1
<1> HIDE DEF f
<1>12. f \in [0 .. n -> A] /\ f[0] = start /\ \A k \in 1 .. n : f[k] = Round(k, f[k - 1])
  <2>1. \A k \in 1 .. n : f[k - 1] \in A
    BY <1>1, <1>10 DEF IsLoop
  <2> QED
    BY <1>10, <2>1 DEF IsLoop
<1>13. OpenRounds(f, doc, heading, preface, X)
  BY <1>1, <1>12 DEF OpenRounds, Round, start, n, A
<1> QED
  BY <1>2, <1>11, <1>13 DEF n

\* The sections of a document: the preface first, then each of its headings, once.
LEMMA SectionOrderFacts ==
  ASSUME NEW X, NEW doc \in Seq(X), NEW heading, NEW preface \in X \ heading
  PROVE  LET order == SectionOrder(doc, heading, preface)
         IN  /\ order \in Seq(X) /\ IsInjective(order)
             /\ ToSet(order) = {preface} \cup (ToSet(doc) \cap heading)
             /\ order # <<>> /\ order[1] = preface
<1> DEFINE n == Len(doc)
           order == SectionOrder(doc, heading, preface)
<1>1. PICK f : OpenRounds(f, doc, heading, preface, X) /\ order = f[n]
  BY OpenLoop
<1> HIDE DEF order
<1> DEFINE Inv(i) == /\ f[i] \in Seq(X) /\ IsInjective(f[i]) /\ f[i] # <<>> /\ f[i][1] = preface
                     /\ ToSet(f[i]) = {preface} \cup ({doc[j] : j \in 1 .. i} \cap heading)
           M == {i \in 0 .. n : Inv(i)}
<1>2. /\ n \in Nat /\ DOMAIN doc = 1 .. n /\ \A i \in 1 .. n : doc[i] \in X
      /\ f \in [0 .. n -> Seq(X)] /\ f[0] = <<preface>>
      /\ \A i \in 1 .. n : f[i] = IF doc[i] \in heading /\ doc[i] \notin ToSet(f[i - 1])
                                  THEN Append(f[i - 1], doc[i]) ELSE f[i - 1]
  BY <1>1 DEF OpenRounds
<1>3. 0 \in M
  <2>1. 0 \in 0 .. n /\ 1 .. 0 = {} /\ <<preface>> \in Seq(X) /\ <<preface>> # <<>>
        /\ <<preface>>[1] = preface /\ DOMAIN <<preface>> = {1}
    BY <1>2
  <2>2. ToSet(<<preface>>) = {preface} /\ IsInjective(<<preface>>)
    BY <2>1 DEF ToSet, IsInjective
  <2>3. {doc[j] : j \in 1 .. 0} = {}
    BY <2>1
  <2> HIDE DEF n
  <2> QED
    BY <1>2, <2>1, <2>2, <2>3
<1>4. ASSUME NEW i \in 1 .. n, i - 1 \in M PROVE i \in M
  <2> DEFINE s == f[i - 1]
  <2>1. i \in 0 .. n /\ doc[i] \in X /\ 1 .. i = (1 .. i - 1) \cup {i}
    BY <1>2
  <2>2. /\ s \in Seq(X) /\ IsInjective(s) /\ s # <<>> /\ s[1] = preface
        /\ ToSet(s) = {preface} \cup ({doc[j] : j \in 1 .. i - 1} \cap heading)
    BY <1>4
  <2>3. {doc[j] : j \in 1 .. i} = {doc[j] : j \in 1 .. i - 1} \cup {doc[i]}
    BY <2>1
  <2> HIDE DEF n
  <2>4. CASE doc[i] \in heading /\ doc[i] \notin ToSet(s)
    <3>1. f[i] = Append(s, doc[i])
      BY <1>2, <2>4
    <3> HIDE DEF s
    <3>2. /\ Append(s, doc[i]) \in Seq(X) /\ ToSet(Append(s, doc[i])) = ToSet(s) \cup {doc[i]}
          /\ IsInjective(Append(s, doc[i]))
      BY <2>1, <2>2, <2>4, AppendFacts
    <3>3. Append(s, doc[i]) # <<>> /\ Append(s, doc[i])[1] = s[1]
      BY <2>1, <2>2
    <3>4. Inv(i)
      BY <2>2, <2>3, <2>4, <3>1, <3>2, <3>3
    <3> QED
      BY <2>1, <3>4
  <2>5. CASE ~(doc[i] \in heading /\ doc[i] \notin ToSet(s))
    <3>1. f[i] = s
      BY <1>2, <2>5
    <3>2. {doc[j] : j \in 1 .. i} \cap heading \subseteq ToSet(s)
      BY <2>2, <2>3, <2>5
    <3>3. Inv(i)
      BY <2>2, <2>3, <3>1, <3>2
    <3> QED
      BY <2>1, <3>3
  <2> QED
    BY <2>4, <2>5
<1>5. Inductive(M, n)
  <2> HIDE DEF M
  <2> QED
    BY <1>3, <1>4 DEF Inductive
<1>6. n \in M
  <2> HIDE DEF M
  <2> QED
    BY <1>2, <1>5, CountUp
<1>7. Inv(n)
  BY <1>6
<1>8. {doc[j] : j \in 1 .. n} = ToSet(doc)
  BY <1>2 DEF ToSet
<1> HIDE DEF n
<1> QED
  BY <1>1, <1>7, <1>8 DEF order

\* The pieces of a sequence, one behind the other.
LEMMA FlattenLoop ==
  ASSUME NEW X, NEW T \in Seq(Seq(X)), T # <<>>
  PROVE  \E g \in [0 .. Len(T) -> Seq(X)] :
            /\ g[0] = <<>>
            /\ \A i \in 1 .. Len(T) : g[i] = g[i - 1] \o T[i]
            /\ FlattenSeq(T) = g[Len(T)]
<1> DEFINE n == Len(T)
           A == Seq(X)
           step == [k \in 1 .. n |-> [acc \in A |-> acc \o T[k]]]
<1>1. n \in Nat /\ n # 0 /\ n \in 1 .. n /\ <<>> \in A /\ \A k \in 1 .. n : T[k] \in A
  OBVIOUS
<1>2. \A k \in 1 .. n : \A acc \in A : acc \o T[k] \in A
  BY <1>1
<1>3. step \in [1 .. n -> [A -> A]]
  <2> HIDE DEF n, A
  <2> QED
    BY <1>2
<1>4. PICK g : IsLoop(g, A, <<>>, n, step)
  <2> HIDE DEF step, n, A
  <2> QED
    BY <1>1, <1>3, LoopExists
<1>5. /\ g \in [0 .. n -> A] /\ g[0] = <<>>
      /\ \A k \in 1 .. n : g[k] = g[k - 1] \o T[k]
  <2> HIDE DEF n, A
  <2>1. \A k \in 1 .. n : k - 1 \in 0 .. n
    BY <1>1
  <2> QED
    BY <1>4, <2>1 DEF IsLoop
<1> DEFINE Flattens(h) == h = [i \in 1 .. n |-> IF i = 1 THEN T[i] ELSE h[i - 1] \o T[i]]
           flatten == CHOOSE h : Flattens(h)
           h1 == [i \in 1 .. n |-> g[i]]
<1>6. FlattenSeq(T) = flatten[n]
  BY <1>1, Zenon DEF FlattenSeq
<1>7. Flattens(h1)
  <2> HIDE DEF n, A
  <2> SUFFICES ASSUME NEW i \in 1 .. n
               PROVE  g[i] = IF i = 1 THEN T[i] ELSE h1[i - 1] \o T[i]
    OBVIOUS
  <2>1. CASE i = 1
    <3>0. 1 \in 1 .. n /\ 1 - 1 = 0
      BY <2>1
    <3>1. g[1] = <<>> \o T[1] /\ T[1] \in Seq(X)
      BY <1>1, <1>5, <3>0 DEF A
    <3> QED
      BY <2>1, <3>1
  <2>2. CASE i # 1
    <3>1. i - 1 \in 1 .. n
      BY <1>1, <2>2
    <3> QED
      BY <1>5, <2>2, <3>1
  <2> QED
    BY <2>1, <2>2
<1>8. Flattens(flatten)
  <2> HIDE DEF Flattens
  <2> QED
    BY <1>7
<1>9. \A i \in 1 .. n : flatten[i] = IF i = 1 THEN T[i] ELSE flatten[i - 1] \o T[i]
  <2> HIDE DEF flatten, n
  <2> QED
    BY <1>8
<1> HIDE DEF flatten
<1> DEFINE M == {i \in 0 .. n : i = 0 \/ flatten[i] = g[i]}
<1>10. ASSUME NEW i \in 1 .. n, i - 1 \in M PROVE i \in M
  <2> HIDE DEF n, A
  <2>1. CASE i = 1
    <3>0. 1 \in 1 .. n /\ 1 - 1 = 0
      BY <2>1
    <3>1. g[1] = <<>> \o T[1] /\ T[1] \in Seq(X)
      BY <1>1, <1>5, <3>0 DEF A
    <3>2. flatten[1] = T[1] /\ <<>> \o T[1] = T[1] /\ 1 \in 0 .. n
      BY <1>1, <1>9, <2>1, <3>1
    <3> QED
      BY <2>1, <3>1, <3>2
  <2>2. CASE i # 1
    <3>1. i - 1 # 0 /\ i \in 0 .. n
      BY <1>1, <2>2
    <3>2. flatten[i - 1] = g[i - 1]
      BY <1>10, <3>1
    <3> QED
      BY <1>5, <1>9, <2>2, <3>1, <3>2
  <2> QED
    BY <2>1, <2>2
<1>11. Inductive(M, n)
  <2>1. 0 \in M
    BY <1>1
  <2> HIDE DEF M
  <2> QED
    BY <1>10, <2>1 DEF Inductive
<1>12. n \in M
  <2> HIDE DEF M
  <2> QED
    BY <1>1, <1>11, CountUp
<1>13. FlattenSeq(T) = g[n]
  BY <1>1, <1>6, <1>12
<1> QED
  BY <1>5, <1>13

--------------------------------------------------------------------------------
(***************************************************************************)
(* The merge of companions: the blocks of the sections in the order they   *)
(* are written, where no section that has a heading is written twice.      *)
(***************************************************************************)
AnyLine == Heading \cup Text \cup {Preface}

LEMMA DocFacts ==
  ASSUME NEW doc \in Docs
  PROVE  doc \in Seq(AnyLine) /\ Preface \in AnyLine \ Heading /\ Heading \subseteq AnyLine
<1>1. doc \in Seq(Heading \cup Text) /\ Heading \cup Text \subseteq AnyLine
  BY DocsAssumption DEF AnyLine
<1>2. doc \in Seq(AnyLine)
  BY <1>1, SeqMonotonic
<1> QED
  BY <1>2, LineAssumption DEF AnyLine

LEMMA MergedBlock ==
  ASSUME NEW X, NEW heading, NEW k, NEW b, NEW o, NEW t, Block(b, k, heading, X),
         Block(o, k, heading, X), Block(t, k, heading, X)
  PROVE  Block(MergeSection(b, o, t), k, heading, X)
<1> DEFINE both == o # b /\ t # b /\ o # t /\ IsPrefix(b, o) /\ IsPrefix(b, t)
           rest == SubSeq(o, Len(b) + 1, Len(o))
<1>1. b \in Seq(X) /\ o \in Seq(X) /\ t \in Seq(X)
  BY DEF Block
<1>2. CASE ~both
  <2>1. MergeSection(b, o, t) \in {o, t}
    BY <1>2 DEF MergeSection
  <2> QED
    BY <2>1
<1>3. CASE both
  <2>1. MergeSection(b, o, t) = t \o rest
    BY <1>3 DEF MergeSection
  <2>2. t # <<>>
    <3>1. t = <<>> => b = <<>>
      BY <1>1, <1>3 DEF IsPrefix
    <3> QED
      BY <1>3, <3>1
  <2>3. /\ Len(b) \in Nat /\ Len(o) \in Nat /\ Len(t) \in Nat
        /\ Len(b) <= Len(o)
    BY <1>1, <1>3 DEF IsPrefix
  <2>4. /\ rest \in Seq(X) /\ Len(rest) = Len(o) - Len(b)
        /\ \A i \in 1 .. Len(rest) : rest[i] = o[Len(b) + i] /\ Len(b) + i \in 1 .. Len(o)
    BY <1>1, <2>3
  <2>5. \A i \in 1 .. Len(rest) : rest[i] \in heading => rest[i] = k
    BY <2>4 DEF Block
  <2> HIDE DEF rest
  <2>6. /\ t \o rest \in Seq(X) /\ Len(t \o rest) = Len(t) + Len(rest) /\ t \o rest # <<>>
        /\ \A i \in 1 .. Len(t) : (t \o rest)[i] = t[i]
        /\ \A i \in 1 .. Len(rest) : (t \o rest)[Len(t) + i] = rest[i]
    <3>1. t \in Seq(X) /\ rest \in Seq(X) /\ Len(t) \in Nat /\ Len(rest) \in Nat /\ Len(t) # 0
      BY <1>1, <2>2, <2>4
    <3>2. t \o rest \in Seq(X) /\ Len(t \o rest) = Len(t) + Len(rest)
      BY <3>1
    <3>3. /\ \A i \in 1 .. Len(t) : (t \o rest)[i] = t[i]
          /\ \A i \in 1 .. Len(rest) : (t \o rest)[Len(t) + i] = rest[i]
      BY <3>1
    <3>4. t \o rest # <<>>
      BY <3>1, <3>2
    <3> QED
      BY <3>2, <3>3, <3>4
  <2>7. ASSUME NEW i \in 1 .. Len(t) + Len(rest), (t \o rest)[i] \in heading
        PROVE  (t \o rest)[i] = k
    <3>1. CASE i <= Len(t)
      <4>1. i \in 1 .. Len(t)
        BY <2>3, <3>1
      <4> QED
        BY <2>6, <2>7, <4>1 DEF Block
    <3>2. CASE ~(i <= Len(t))
      <4>1. i - Len(t) \in 1 .. Len(rest) /\ i = Len(t) + (i - Len(t))
        BY <2>3, <2>4, <3>2
      <4> QED
        BY <2>5, <2>6, <2>7, <4>1
    <3> QED
      BY <3>1, <3>2
  <2>8. (t \o rest)[1] = t[1]
    <3>1. 1 \in 1 .. Len(t)
      BY <1>1, <2>2
    <3> QED
      BY <2>6, <3>1
  <2> QED
    BY <2>1, <2>2, <2>6, <2>7, <2>8 DEF Block
<1> QED
  BY <1>2, <1>3

\* The order in which MergeSections writes the sections.
Written(base0, ours, theirs) ==
  SectionOrder(ours, Heading, Preface) \o AddedSections(base0, ours, theirs, Heading, Preface)

IsWritten(base0, ours, theirs, k) ==
  \/ k \in {Preface} \cup ToSet(ours)
  \/ k \in ToSet(theirs) /\ Of(ours, k) = <<>> /\ Of(base0, k) = <<>>

LEMMA WrittenFacts ==
  ASSUME NEW b \in Docs, NEW ours \in Docs, NEW theirs \in Docs
  PROVE  LET order == Written(b, ours, theirs)
         IN  /\ order \in Seq(AnyLine) /\ order # <<>> /\ order[1] = Preface
             /\ \A i \in 1 .. Len(order) : order[i] \in Heading \cup {Preface}
             /\ \A i, j \in 1 .. Len(order) : order[i] = order[j] => i = j \/ order[i] = Preface
             /\ \A i \in 1 .. Len(order) : order[i] = Preface /\ i # 1
                  => Of(ours, Preface) = <<>> /\ Of(b, Preface) = <<>>
             /\ \A k \in Heading \cup {Preface} :
                  (\E i \in 1 .. Len(order) : order[i] = k) <=> IsWritten(b, ours, theirs, k)
<1> DEFINE O == SectionOrder(ours, Heading, Preface)
           R == SectionOrder(theirs, Heading, Preface)
           S == {k \in {Preface} \cup ToSet(theirs) : /\ Section(ours, Heading, k, Preface) = <<>>
                                                      /\ Section(b, Heading, k, Preface) = <<>>}
           A == AddedSections(b, ours, theirs, Heading, Preface)
           order == Written(b, ours, theirs)
<1>1. /\ ours \in Seq(AnyLine) /\ theirs \in Seq(AnyLine)
      /\ Preface \in AnyLine \ Heading /\ Preface \in AnyLine /\ Preface \notin Heading
  BY DocFacts
<1>2. /\ O \in Seq(AnyLine) /\ IsInjective(O)
      /\ ToSet(O) = {Preface} \cup (ToSet(ours) \cap Heading)
      /\ O # <<>> /\ O[1] = Preface
  BY <1>1, SectionOrderFacts
<1>3. R \in Seq(AnyLine) /\ IsInjective(R) /\ ToSet(R) = {Preface} \cup (ToSet(theirs) \cap Heading)
  BY <1>1, SectionOrderFacts
<1>4. A = Only(R, S)
  BY DEF AddedSections
<1>5. /\ \A k : k \in S <=> /\ k \in {Preface} \cup ToSet(theirs)
                            /\ Of(ours, k) = <<>> /\ Of(b, k) = <<>>
  BY DEF Of
<1> HIDE DEF O, R, S
<1>6. A \in Seq(AnyLine) /\ IsInjective(A) /\ ToSet(A) = ToSet(R) \cap S
  BY <1>3, <1>4, OnlyFacts
<1> HIDE DEF A
<1>7. /\ Len(O) \in Nat /\ Len(A) \in Nat /\ DOMAIN O = 1 .. Len(O) /\ DOMAIN A = 1 .. Len(A)
      /\ 1 \in 1 .. Len(O)
  BY <1>2, <1>6
<1>8. /\ order \in Seq(AnyLine) /\ Len(order) = Len(O) + Len(A)
      /\ \A i \in 1 .. Len(O) : order[i] = O[i]
      /\ \A i \in 1 .. Len(A) : order[Len(O) + i] = A[i]
  <2>1. order = O \o A
    BY DEF Written, O, A
  <2> HIDE DEF order
  <2> QED
    BY <1>2, <1>6, <2>1
<1> HIDE DEF order
<1>9. ASSUME NEW i \in 1 .. Len(order)
      PROVE  \/ i \in 1 .. Len(O) /\ order[i] = O[i]
             \/ i - Len(O) \in 1 .. Len(A) /\ order[i] = A[i - Len(O)]
  <2>1. i \in 1 .. Len(O) \/ (i - Len(O) \in 1 .. Len(A) /\ i = Len(O) + (i - Len(O)))
    BY <1>7, <1>8
  <2>2. ASSUME i - Len(O) \in 1 .. Len(A), i = Len(O) + (i - Len(O))
        PROVE  order[i] = A[i - Len(O)]
    <3> DEFINE j == i - Len(O)
    <3>1. j \in 1 .. Len(A) /\ i = Len(O) + j
      BY <2>2
    <3> HIDE DEF j
    <3>2. order[Len(O) + j] = A[j]
      BY <1>8, <3>1
    <3>3. order[i] = A[j]
      BY <3>1, <3>2
    <3> QED
      BY <3>3 DEF j
  <2> QED
    BY <1>8, <2>1, <2>2
<1>10. /\ \A i \in 1 .. Len(O) : O[i] \in ToSet(O)
       /\ \A i \in 1 .. Len(A) : A[i] \in ToSet(A)
       /\ \A k \in ToSet(O) : \E i \in 1 .. Len(O) : O[i] = k
       /\ \A k \in ToSet(A) : \E i \in 1 .. Len(A) : A[i] = k
       /\ \A i, j \in 1 .. Len(O) : O[i] = O[j] => i = j
       /\ \A i, j \in 1 .. Len(A) : A[i] = A[j] => i = j
  BY <1>2, <1>6, <1>7 DEF ToSet, IsInjective
<1>11. ToSet(O) \cap ToSet(A) \subseteq {Preface}
  <2> SUFFICES ASSUME NEW k \in Heading, k \in ToSet(ours), k \in S PROVE FALSE
    BY <1>2, <1>3, <1>6
  <2>1. Of(ours, k) # <<>>
    BY <1>1, SectionFacts DEF Of
  <2> QED
    BY <1>5, <2>1
<1>12. ASSUME NEW i \in 1 .. Len(order)
       PROVE  order[i] \in Heading \cup {Preface} /\ order[i] \in ToSet(O) \cup ToSet(A)
  <2>1. order[i] \in ToSet(O) \cup ToSet(A)
    BY <1>9, <1>10
  <2> QED
    BY <1>2, <1>3, <1>6, <2>1
<1>13. ASSUME NEW i \in 1 .. Len(order), NEW j \in 1 .. Len(order), order[i] = order[j], i # j
       PROVE  order[i] = Preface
  <2>1. CASE i \in 1 .. Len(O) /\ j \in 1 .. Len(O)
    BY <1>8, <1>10, <1>13, <2>1
  <2>2. CASE i - Len(O) \in 1 .. Len(A) /\ j - Len(O) \in 1 .. Len(A)
    <3>1. order[i] = A[i - Len(O)] /\ order[j] = A[j - Len(O)]
      <4>1. i \notin 1 .. Len(O) /\ j \notin 1 .. Len(O)
        BY <1>7, <2>2
      <4> QED
        BY <1>9, <4>1
    <3>2. i - Len(O) = j - Len(O)
      BY <1>10, <1>13, <2>2, <3>1
    <3> QED
      BY <1>7, <1>13, <3>2
  <2>3. CASE \/ i \in 1 .. Len(O) /\ j - Len(O) \in 1 .. Len(A)
             \/ j \in 1 .. Len(O) /\ i - Len(O) \in 1 .. Len(A)
    <3>1. ASSUME NEW l \in 1 .. Len(order), l - Len(O) \in 1 .. Len(A)
          PROVE  order[l] \in ToSet(A)
      <4>1. l \notin 1 .. Len(O)
        BY <1>7, <3>1
      <4> QED
        BY <1>9, <1>10, <4>1
    <3>2. ASSUME NEW l \in 1 .. Len(O) PROVE order[l] \in ToSet(O)
      BY <1>8, <1>10
    <3>3. order[i] \in ToSet(O) /\ order[i] \in ToSet(A)
      BY <1>13, <2>3, <3>1, <3>2
    <3> QED
      BY <1>11, <3>3
  <2> QED
    BY <1>9, <2>1, <2>2, <2>3
<1>14. ASSUME NEW i \in 1 .. Len(order), order[i] = Preface, i # 1
       PROVE  Of(ours, Preface) = <<>> /\ Of(b, Preface) = <<>>
  <2>1. i \notin 1 .. Len(O)
    BY <1>2, <1>7, <1>8, <1>10, <1>14
  <2>2. Preface \in ToSet(A)
    BY <1>9, <1>10, <1>14, <2>1
  <2> QED
    BY <1>5, <1>6, <2>2
<1>15. ASSUME NEW k \in Heading \cup {Preface}
       PROVE  (\E i \in 1 .. Len(order) : order[i] = k) <=> IsWritten(b, ours, theirs, k)
  <2>1. IsWritten(b, ours, theirs, k) <=> k \in ToSet(O) \cup ToSet(A)
    BY <1>2, <1>3, <1>5, <1>6 DEF IsWritten
  <2>2. ASSUME k \in ToSet(O) \cup ToSet(A) PROVE \E i \in 1 .. Len(order) : order[i] = k
    <3>1. \A i \in 1 .. Len(O) : i \in 1 .. Len(order)
      BY <1>7, <1>8
    <3>2. \A i \in 1 .. Len(A) : Len(O) + i \in 1 .. Len(order)
      BY <1>7, <1>8
    <3> QED
      BY <1>8, <1>10, <2>2, <3>1, <3>2
  <2> QED
    BY <1>12, <2>1, <2>2
<1>16. order # <<>> /\ order[1] = Preface
  BY <1>2, <1>7, <1>8
<1> QED
  BY <1>8, <1>12, <1>13, <1>14, <1>15, <1>16 DEF order

(***************************************************************************)
(* Reading the merged companion back: under a heading is what the sections *)
(* of the three documents under it merge to.                               *)
(***************************************************************************)
LEMMA SectionsWritten ==
  ASSUME NEW b \in Docs, NEW ours \in Docs, NEW theirs \in Docs,
         ~PrefaceAdded(b, ours, theirs), NEW q \in Heading \cup {Preface}
  PROVE  Of(MergeSections(b, ours, theirs, Heading, Preface), q)
           = IF IsWritten(b, ours, theirs, q)
             THEN MergeSection(Of(b, q), Of(ours, q), Of(theirs, q)) ELSE <<>>
<1> DEFINE order == Written(b, ours, theirs)
           n == Len(order)
           text(k) == MergeSection(Of(b, k), Of(ours, k), Of(theirs, k))
           T == [i \in 1 .. n |-> text(order[i])]
           m == MergeSections(b, ours, theirs, Heading, Preface)
<1>1. /\ order \in Seq(AnyLine) /\ order # <<>> /\ order[1] = Preface
      /\ \A i \in 1 .. n : order[i] \in Heading \cup {Preface}
      /\ \A i, j \in 1 .. n : order[i] = order[j] => i = j \/ order[i] = Preface
      /\ \A i \in 1 .. n : order[i] = Preface /\ i # 1
           => Of(ours, Preface) = <<>> /\ Of(b, Preface) = <<>>
      /\ (\E i \in 1 .. n : order[i] = q) <=> IsWritten(b, ours, theirs, q)
  <2>1. /\ order \in Seq(AnyLine) /\ order # <<>> /\ order[1] = Preface
        /\ \A i \in 1 .. n : order[i] \in Heading \cup {Preface}
        /\ \A i, j \in 1 .. n : order[i] = order[j] => i = j \/ order[i] = Preface
        /\ \A i \in 1 .. n : order[i] = Preface /\ i # 1
             => Of(ours, Preface) = <<>> /\ Of(b, Preface) = <<>>
        /\ \A k \in Heading \cup {Preface} :
             (\E i \in 1 .. n : order[i] = k) <=> IsWritten(b, ours, theirs, k)
    BY WrittenFacts, Zenon
  <2> HIDE DEF order, n
  <2> QED
    BY <2>1
<1>2. n \in Nat /\ n # 0 /\ DOMAIN order = 1 .. n /\ 1 \in 1 .. n /\ n \in 0 .. n
  <2> HIDE DEF order
  <2> QED
    BY <1>1
<1>3. /\ b \in Seq(AnyLine) /\ ours \in Seq(AnyLine) /\ theirs \in Seq(AnyLine)
      /\ Preface \in AnyLine \ Heading /\ Heading \subseteq AnyLine
  BY DocFacts
<1>4. \A k : Block(text(k), k, Heading, AnyLine)
  <2> SUFFICES ASSUME NEW k PROVE Block(text(k), k, Heading, AnyLine)
    OBVIOUS
  <2>1. /\ Block(Of(b, k), k, Heading, AnyLine) /\ Block(Of(ours, k), k, Heading, AnyLine)
        /\ Block(Of(theirs, k), k, Heading, AnyLine)
    BY <1>3, SectionFacts DEF Of
  <2> QED
    BY <2>1, MergedBlock
<1>5. m = FlattenSeq(T)
  <2>1. m = FlattenSeq([i \in DOMAIN order |-> text(order[i])])
    BY Zenon DEF MergeSections, Written, Of
  <2> HIDE DEF order, n, text, m
  <2> QED
    BY <1>2, <2>1
<1>6. Of(b, Preface) = <<>> /\ Of(ours, Preface) = <<>> => text(Preface) = <<>>
  BY DEF PrefaceAdded, MergeSection
<1> HIDE DEF order, n, text, m
<1>7. T \in Seq(Seq(AnyLine)) /\ Len(T) = n /\ T # <<>> /\ \A i \in 1 .. n : T[i] = text(order[i])
  <2>1. \A i \in 1 .. n : text(order[i]) \in Seq(AnyLine)
    BY <1>4 DEF Block
  <2> QED
    BY <1>2, <2>1
<1> HIDE DEF T
<1>8. PICK g \in [0 .. n -> Seq(AnyLine)] :
        g[0] = <<>> /\ (\A i \in 1 .. n : g[i] = g[i - 1] \o T[i]) /\ FlattenSeq(T) = g[n]
  BY <1>7, FlattenLoop
<1> DEFINE acc(i) == IF \E j \in 1 .. i : order[j] = q THEN text(q) ELSE <<>>
           Inv(i) == \E now \in AnyLine :
                       /\ i = 0 => now = Preface
                       /\ Reads(g[i], q, Heading, Preface, AnyLine, now, acc(i))
           M == {i \in 0 .. n : Inv(i)}
<1>9. 0 \in M
  <2>1. 0 \in 0 .. n /\ 1 .. 0 = {}
    BY <1>2
  <2>2. acc(0) = <<>>
    BY <2>1
  <2>3. Reads(g[0], q, Heading, Preface, AnyLine, Preface, acc(0))
    BY <1>3, <1>8, <2>2, EmptyRead
  <2> HIDE DEF acc
  <2> QED
    BY <1>3, <2>1, <2>3
<1>10. ASSUME NEW i \in 1 .. n, i - 1 \in M PROVE i \in M
  <2> DEFINE k == order[i]
  <2>1. PICK now \in AnyLine :
          /\ i - 1 = 0 => now = Preface
          /\ Reads(g[i - 1], q, Heading, Preface, AnyLine, now, acc(i - 1))
    BY <1>10
  <2>2. /\ i \in 0 .. n /\ i - 1 \in 0 .. n /\ i \in Nat /\ g[i - 1] \in Seq(AnyLine)
        /\ i \in 1 .. i /\ (\A j \in 1 .. i : j = i \/ j \in 1 .. i - 1)
        /\ (\A j \in 1 .. i - 1 : j \in 1 .. i /\ j \in 1 .. n /\ j # i)
        /\ (i # 1 => 1 \in 1 .. i - 1)
    BY <1>2, <1>8
  <2>3. acc(i - 1) \in Seq(AnyLine)
    BY <1>4 DEF Block
  <2>4. g[i] = g[i - 1] \o T[i] /\ T[i] = text(k)
    BY <1>7, <1>8
  <2>5. CASE k = Preface /\ i # 1
    <3>1. T[i] = <<>>
      BY <1>1, <1>6, <2>4, <2>5
    <3>2. g[i] = g[i - 1]
      BY <2>2, <2>4, <3>1
    <3>3. acc(i) = acc(i - 1)
      <4>1. (\E j \in 1 .. i : order[j] = q) <=> (\E j \in 1 .. i - 1 : order[j] = q)
        BY <1>1, <2>2, <2>5
      <4> QED
        BY <4>1
    <3> HIDE DEF acc
    <3>4. i # 0
      OBVIOUS
    <3> QED
      BY <2>1, <2>2, <3>2, <3>3, <3>4
  <2>6. CASE k \in Heading \/ i = 1
    <3>1. k \in Heading \/ now = k
      BY <1>1, <2>1, <2>6
    <3>2. k \in AnyLine /\ Block(T[i], k, Heading, AnyLine)
      BY <1>1, <1>3, <1>4, <2>4
    <3> DEFINE later == IF T[i] = <<>> THEN now ELSE k
    <3>3. acc(i) = IF k = q THEN acc(i - 1) \o T[i] ELSE acc(i - 1)
      <4>1. CASE k = q
        <5>1. ~\E j \in 1 .. i - 1 : order[j] = q
          <6>1. CASE i = 1
            BY <6>1
          <6>2. CASE i # 1
            <7>1. k # Preface
              BY <1>3, <2>6, <6>2
            <7> QED
              BY <1>1, <2>2, <4>1, <7>1
          <6> QED
            BY <6>1, <6>2
        <5>2. acc(i - 1) = <<>> /\ acc(i) = text(q)
          BY <2>2, <4>1, <5>1
        <5>3. T[i] = text(q) /\ T[i] \in Seq(AnyLine)
          BY <2>4, <3>2, <4>1 DEF Block
        <5> HIDE DEF acc
        <5> QED
          BY <4>1, <5>2, <5>3
      <4>2. CASE k # q
        <5>1. (\E j \in 1 .. i : order[j] = q) <=> (\E j \in 1 .. i - 1 : order[j] = q)
          BY <2>2, <4>2
        <5> QED
          BY <4>2, <5>1
      <4> QED
        BY <4>1, <4>2
    <3> HIDE DEF acc, k
    <3>4. Reads(g[i - 1] \o T[i], q, Heading, Preface, AnyLine, later,
                IF k = q THEN acc(i - 1) \o T[i] ELSE acc(i - 1))
      BY <1>3, <2>1, <2>2, <2>3, <3>1, <3>2, BlockRead
    <3>5. Reads(g[i], q, Heading, Preface, AnyLine, later, acc(i))
      BY <2>4, <3>3, <3>4
    <3>6. later \in AnyLine /\ i # 0
      BY <3>2
    <3> HIDE DEF later
    <3> QED
      BY <2>2, <3>5, <3>6
  <2> QED
    BY <1>1, <2>5, <2>6
<1>11. Inductive(M, n)
  <2> HIDE DEF M
  <2> QED
    BY <1>9, <1>10 DEF Inductive
<1>12. n \in M
  <2> HIDE DEF M
  <2> QED
    BY <1>2, <1>11, CountUp
<1>13. PICK now : Reads(g[n], q, Heading, Preface, AnyLine, now, acc(n))
  BY <1>12
<1>14. acc(n) = IF IsWritten(b, ours, theirs, q) THEN text(q) ELSE <<>>
  BY <1>1
<1> HIDE DEF acc
<1>15. Section(g[n], Heading, q, Preface) = acc(n)
  <2>1. g[n] \in Seq(AnyLine)
    BY <1>2, <1>8
  <2> QED
    BY <1>3, <1>13, <2>1, SectionRead
<1>16. Of(m, q) = acc(n)
  BY <1>5, <1>8, <1>15 DEF Of
<1> QED
  BY <1>14, <1>16 DEF m, text

(***************************************************************************)
(* What is not written is empty in ours, and in theirs or not new there.   *)
(***************************************************************************)
LEMMA SectionsHold ==
  ASSUME NEW b \in Docs, NEW p \in Docs, NEW o \in Docs, NEW r,
         \/ p = b /\ r = o
         \/ o = b /\ r = p
         \/ p = o /\ r = p
         \/ r = MergeSections(b, p, o, Heading, Preface)
  PROVE  AppendsAreKept(b, p, o, r) /\ SectionsAreMerged(b, p, o, r)
<1> SUFFICES ASSUME ~PrefaceAdded(b, p, o), NEW k \in Heading \cup {Preface}
             PROVE  /\ Appended(b, p, k) /\ Appended(b, o, k) /\ Of(p, k) # Of(o, k)
                         => Of(r, k) = Of(o, k) \o SubSeq(Of(p, k), Len(Of(b, k)) + 1,
                                                          Len(Of(p, k)))
                    /\ SectionMerged(b, p, o, r, k)
  BY DEF AppendsAreKept, SectionsAreMerged
<1>1. CASE (p = b /\ r = o) \/ (o = b /\ r = p) \/ (p = o /\ r = p)
  BY <1>1 DEF Appended, SectionMerged
<1>2. CASE r = MergeSections(b, p, o, Heading, Preface)
  <2>1. Of(r, k) = IF IsWritten(b, p, o, k)
                   THEN MergeSection(Of(b, k), Of(p, k), Of(o, k)) ELSE <<>>
    BY <1>2, SectionsWritten
  <2>2. CASE IsWritten(b, p, o, k)
    BY <2>1, <2>2 DEF Appended, SectionMerged, MergeSection
  <2>3. CASE ~IsWritten(b, p, o, k)
    <3>1. /\ b \in Seq(AnyLine) /\ p \in Seq(AnyLine) /\ o \in Seq(AnyLine)
          /\ Preface \in AnyLine \ Heading
      BY DocFacts
    <3>2. /\ k \in Heading /\ k \notin ToSet(p)
          /\ Of(p, k) = <<>> /\ Of(b, k) = <<>> => k \notin ToSet(o)
      BY <2>3 DEF IsWritten
    <3>3. Of(p, k) = <<>> /\ (k \notin ToSet(o) => Of(o, k) = <<>>)
      BY <3>1, <3>2, SectionFacts DEF Of
    <3>4. ~Appended(b, p, k)
      <4>1. Of(b, k) \in Seq(AnyLine)
        BY <3>1, SectionFacts DEF Of, Block
      <4>2. IsPrefix(Of(b, k), <<>>) => Of(b, k) = <<>>
        BY <4>1 DEF IsPrefix
      <4> QED
        BY <3>3, <4>2 DEF Appended
    <3> QED
      BY <2>1, <2>3, <3>2, <3>3, <3>4 DEF SectionMerged
  <2> QED
    BY <2>2, <2>3
<1> QED
  BY <1>1, <1>2

--------------------------------------------------------------------------------
(***************************************************************************)
(* Snapshots.                                                              *)
(***************************************************************************)

\* The order of the slides is all that is normalized.
LEMMA NormalizeKeepsFiles ==
  ASSUME NEW snap, DOMAIN snap = Path
  PROVE  /\ DOMAIN NormalizeSlideOrder(snap) = Path
         /\ \A s \in Slide : \A p \in Pair(s) : NormalizeSlideOrder(snap)[p] = snap[p]
<1>1. \A s \in Slide : \A p \in Pair(s) : p \in Path /\ p # Deck
  BY SlideAssumption DEF Pair, Path, Deck
<1> QED
  BY <1>1 DEF NormalizeSlideOrder

LEMMA ContestedSymmetry ==
  ASSUME NEW b, NEW o, NEW t
  PROVE  /\ \A s \in Slide : Contested(b, o, t, s) = Contested(b, t, o, s)
         /\ ChosenPaths(b, o, t) = ChosenPaths(b, t, o)
         /\ Conflicts(b, o, t) = Conflicts(b, t, o)
<1>1. ASSUME NEW s PROVE Contested(b, o, t, s) = Contested(b, t, o, s)
  BY Zenon DEF Contested
<1>2. Conflicts(b, o, t) = Conflicts(b, t, o)
  BY DEF Conflicts
<1>3. {s \in Slide : Contested(b, o, t, s)} = {s \in Slide : Contested(b, t, o, s)}
  <2> HIDE DEF Contested
  <2> QED
    BY <1>1, Zenon
<1> QED
  BY <1>1, <1>2, <1>3, Zenon DEF ChosenPaths

LEMMA PathSymmetry ==
  ASSUME NEW p, NEW b, NEW o, NEW t, NEW prefer \in BOOLEAN
  PROVE  MergePath(p, b, o, t, prefer) = MergePath(p, b, t, o, ~prefer)
<1>1. Sides(o, t, prefer) = Sides(t, o, ~prefer)
  BY DEF Sides
<1> QED
  BY <1>1 DEF MergePath, MergeFile

LEMMA SnapshotSymmetry ==
  ASSUME NEW b, NEW o, NEW t, NEW prefer \in BOOLEAN
  PROVE  MergeSnapshots(b, o, t, prefer) = MergeSnapshots(b, t, o, ~prefer)
<1>1. Chosen(o, t, prefer) = Chosen(t, o, ~prefer)
  BY DEF Chosen
<1>2. \A p : (NoFile \in {o[p], t[p]}) = (NoFile \in {t[p], o[p]})
  OBVIOUS
<1>3. \A p \in Path : MergePath(p, b[p], o[p], t[p], prefer)
                        = MergePath(p, b[p], t[p], o[p], ~prefer)
  BY PathSymmetry
<1> QED
  BY <1>1, <1>2, <1>3, ContestedSymmetry DEF MergeSnapshots

LEMMA MergeSymmetry ==
  ASSUME NEW b, NEW o, NEW t, NEW prefer \in BOOLEAN
  PROVE  SidesExchange(b, o, t, prefer, MergeOfSnapshots(b, o, t, prefer))
BY SnapshotSymmetry DEF SidesExchange, MergeOfSnapshots

\* One path that is not decided by the pair it belongs to.
LEMMA PathMerged ==
  ASSUME NEW b, NEW o, NEW t, NEW prefer \in BOOLEAN, NEW p
  PROVE  LET r == MergePath(p, b, o, t, prefer)
         IN  /\ o = b => r = t
             /\ t = b => r = o
             /\ o = t => r = o
             /\ p # Deck => r \in {o, t}
BY DEF MergePath, MergeFile, Sides

LEMMA ChangesAreReported ==
  ASSUME NEW b, NEW o, NEW t, NEW prefer \in BOOLEAN
  PROVE  ChangesReported(b, o, t, MergeOfSnapshots(b, o, t, prefer), Alternatives(b, o, t))
<1> DEFINE B == NormalizeSlideOrder(b)
           O == NormalizeSlideOrder(o)
           T == NormalizeSlideOrder(t)
           r == MergeSnapshots(B, O, T, prefer)
<1>1. ASSUME NEW p \in Path \ (ChosenPaths(B, O, T) \cup Conflicts(B, O, T))
      PROVE  (O[p] # B[p] => r[p] = O[p]) /\ (T[p] # B[p] => r[p] = T[p])
  <2> HIDE DEF B, O, T
  <2>1. r[p] = MergePath(p, B[p], O[p], T[p], prefer)
    BY <1>1 DEF MergeSnapshots
  <2>2. O[p] = B[p] \/ T[p] = B[p] \/ O[p] = T[p]
    BY <1>1 DEF Conflicts
  <2> QED
    BY <2>1, <2>2, PathMerged
<1> QED
  BY <1>1 DEF ChangesReported, Alternatives, MergeOfSnapshots

LEMMA PairsAreWhole ==
  ASSUME NEW b \in BaseSnapshots, NEW o \in Snapshots, NEW t \in Snapshots,
         NEW prefer \in BOOLEAN
  PROVE  PairsStayWhole(b, o, t, prefer, MergeOfSnapshots(b, o, t, prefer))
<1> DEFINE B == NormalizeSlideOrder(b)
           O == NormalizeSlideOrder(o)
           T == NormalizeSlideOrder(t)
           r == MergeSnapshots(B, O, T, prefer)
<1>1. /\ DOMAIN b = Path /\ Complete(b) /\ DOMAIN o = Path /\ Complete(o)
      /\ DOMAIN t = Path /\ Complete(t)
  BY SnapshotAssumption
<1> SUFFICES ASSUME NEW s \in Slide
             PROVE  /\ r[<<s, "html">>] = NoFile <=> r[<<s, "md">>] = NoFile
                    /\ Contested(B, O, T, s) =>
                         \A p \in Pair(s) : r[p] = Chosen(o, t, prefer)[p]
  BY DEF PairsStayWhole, MergeOfSnapshots
<1>2. /\ <<s, "html">> \in Pair(s) /\ <<s, "md">> \in Pair(s)
      /\ Pair(s) = {<<s, "html">>, <<s, "md">>} /\ Pair(s) \subseteq Path
      /\ \A p \in Pair(s) : p # Deck
      /\ \A q \in Slide : q # s => Pair(q) \cap Pair(s) = {}
  BY SlideAssumption DEF Pair, Path, Deck
<1>3. \A p \in Pair(s) : B[p] = b[p] /\ O[p] = o[p] /\ T[p] = t[p]
  BY <1>1, NormalizeKeepsFiles
<1>4. /\ B[<<s, "html">>] = NoFile <=> B[<<s, "md">>] = NoFile
      /\ O[<<s, "html">>] = NoFile <=> O[<<s, "md">>] = NoFile
      /\ T[<<s, "html">>] = NoFile <=> T[<<s, "md">>] = NoFile
  BY <1>1, <1>2, <1>3 DEF Complete
<1> HIDE DEF B, O, T
<1>5. \A p \in Pair(s) : p \in ChosenPaths(B, O, T) <=> Contested(B, O, T, s)
  BY <1>2 DEF ChosenPaths
<1>6. CASE Contested(B, O, T, s)
  <2>1. \A p \in Pair(s) : r[p] = Chosen(O, T, prefer)[p]
    BY <1>2, <1>5, <1>6 DEF MergeSnapshots
  <2>2. \A p \in Pair(s) : r[p] = Chosen(o, t, prefer)[p]
    BY <1>3, <2>1 DEF Chosen
  <2>3. r[<<s, "html">>] = NoFile <=> r[<<s, "md">>] = NoFile
    BY <1>2, <1>4, <2>1 DEF Chosen
  <2> QED
    BY <2>2, <2>3
<1>7. CASE ~Contested(B, O, T, s)
  <2>1. \A p \in Pair(s) :
          r[p] = IF p \in Conflicts(B, O, T) /\ NoFile \in {O[p], T[p]}
                 THEN Chosen(O, T, prefer)[p] ELSE MergePath(p, B[p], O[p], T[p], prefer)
    BY <1>2, <1>5, <1>7 DEF MergeSnapshots
  <2>2. ASSUME NEW p \in Pair(s)
        PROVE  /\ r[p] \in {O[p], T[p]}
               /\ O[p] = B[p] => r[p] = T[p]
               /\ T[p] = B[p] => r[p] = O[p]
    BY <1>2, <2>1, PathMerged DEF Conflicts, Chosen
  <2>3. \* A side that deleted a file deleted both, and the other changed nothing.
        /\ (\E p \in Pair(s) : B[p] # NoFile /\ O[p] = NoFile) => \A p \in Pair(s) : T[p] = B[p]
        /\ (\E p \in Pair(s) : B[p] # NoFile /\ T[p] = NoFile) => \A p \in Pair(s) : O[p] = B[p]
    BY <1>7 DEF Contested
  <2> QED
    BY <1>2, <1>4, <1>7, <2>2, <2>3
<1> QED
  BY <1>6, <1>7
--------------------------------------------------------------------------------
(***************************************************************************)
(* The system: what is merged are a base and versions of the kinds the     *)
(* assumptions describe, and the result is what the merge of the kind is.  *)
(***************************************************************************)
MergeInv ==
  /\ preferCurrent \in BOOLEAN
  /\ done \in BOOLEAN
  /\ kind = "order" =>
       /\ base \in Bases /\ incoming \in Lists /\ current \in Lists
       /\ done => result = MergeList(base, incoming, current)
  /\ kind = "element" =>
       /\ base \in Ancestors /\ incoming \in Element /\ current \in Element /\ preferCurrent
       /\ done => result = MergeFile(base, incoming, current,
                                     MergeElement(base, preferred, other))
  /\ kind = "section" =>
       /\ base \in Docs /\ incoming \in Docs /\ current \in Docs
       /\ done => result = MergeFile(base, incoming, current,
                             MergeSections(base, preferred, other, Heading, Preface))
  /\ kind = "snapshot" =>
       /\ base \in BaseSnapshots /\ incoming \in Snapshots /\ current \in Snapshots
       /\ done => /\ result = MergeOfSnapshots(base, incoming, current, preferCurrent)
                  /\ alternatives = Alternatives(base, incoming, current)

LEMMA MergeInvariant == Spec => []MergeInv
<1>1. Init => MergeInv
  BY DEF Init, Inputs, MergeInv
<1>2. MergeInv /\ [Next]_vars => MergeInv'
  <2> SUFFICES ASSUME MergeInv, [Next]_vars PROVE MergeInv'
    OBVIOUS
  <2>1. CASE MergeOrders
    BY <2>1 DEF MergeOrders, Outcome, MergeInv
  <2>2. CASE MergeElements
    BY <2>2 DEF MergeElements, Outcome, MergeInv, preferred, other
  <2>3. CASE MergeCompanions
    BY <2>3 DEF MergeCompanions, Outcome, MergeInv, preferred, other
  <2>4. CASE MergeDecks
    BY <2>4 DEF MergeDecks, Outcome, MergeInv
  <2>5. CASE UNCHANGED vars
    BY <2>5 DEF vars, MergeInv, preferred, other
  <2> QED
    BY <2>1, <2>2, <2>3, <2>4, <2>5 DEF Next
<1> QED
  BY <1>1, <1>2, PTL DEF Spec

(***************************************************************************)
(* mergeOrder moves as little as can be: the keys it leaves in place are a *)
(* largest set that base and ours order alike, for orders of any length.   *)
(***************************************************************************)
THEOREM MovesAreMinimal == Spec => []MinimumMoves
<1>1. MergeInv => MinimumMoves
  <2> SUFFICES ASSUME MergeInv, kind = "order" PROVE FewestMoves(base, incoming)
    BY DEF MinimumMoves
  <2>1. NoRepetition(base) /\ NoRepetition(incoming)
    BY OrdersAssumption DEF MergeInv
  <2> QED
    BY <2>1, FewestMovesHold
<1> QED
  BY <1>1, MergeInvariant, PTL

\* The outcome of a merge of two orders, whichever case of mergeValue it is.
LEMMA OrdersMerged ==
  ASSUME MergeInv, Done("order")
  PROVE  /\ KeysAreExact(base, incoming, current, result)
         /\ TheirMovesSurvive(base, incoming, current, result)
         /\ OurMovesSurvive(base, incoming, current, result)
<1>1. NoRepetition(base) /\ NoRepetition(incoming) /\ NoRepetition(current)
  BY OrdersAssumption DEF MergeInv, Done
<1>2. result = MergeList(base, incoming, current)
  BY DEF MergeInv, Done
<1> QED
  BY <1>1, <1>2, MergeListFacts

(***************************************************************************)
(* mergeOrder keeps both writers' moves: keys ours left in place have the  *)
(* order of theirs, a key ours moved follows what it follows in ours, for  *)
(* orders of any length.                                                   *)
(***************************************************************************)
THEOREM MovesAreKept == Spec => []MovesSurvive
<1>1. MergeInv => MovesSurvive
  BY OrdersMerged DEF MovesSurvive
<1> QED
  BY <1>1, MergeInvariant, PTL

(***************************************************************************)
(* mergeOrder neither loses, repeats nor invents a key: the result has     *)
(* what one side has and the other did not delete, and what ours moved.    *)
(***************************************************************************)
THEOREM KeysAreKept == Spec => []ExactKeys
<1>1. MergeInv => ExactKeys
  BY OrdersMerged DEF ExactKeys
<1> QED
  BY <1>1, MergeInvariant, PTL

\* The outcome of a merge of two elements, the human side being preferred.
LEMMA ElementsMerged ==
  ASSUME MergeInv, Done("element")
  PROVE  /\ IndependentEditsSurvive(base, current, incoming, result)
         /\ RenderedFromAWriter(current, incoming, result)
         /\ DeletionsAreKept(base, current, incoming, result)
<1>1. base \in Element /\ incoming \in Element /\ current \in Element
  BY AncestorAssumption DEF MergeInv, Done
<1>2. result = MergeFile(base, incoming, current, MergeElement(base, current, incoming))
  BY DEF MergeInv, Done, preferred, other, Sides
<1> QED
  BY <1>1, <1>2, ElementHolds

(***************************************************************************)
(* mergeHTML: an edit of an object the other writer left alone is rendered *)
(* whatever was moved, inserted or deleted around it, an object both have  *)
(* is merged property by property, and nothing is rendered twice or with a *)
(* property neither writer gave it.  For every fragment.                   *)
(***************************************************************************)
THEOREM IndependentEditsAreKept == Spec => []EditsAreRendered
<1>1. MergeInv => EditsAreRendered
  BY ElementsMerged DEF EditsAreRendered
<1> QED
  BY <1>1, MergeInvariant, PTL

(***************************************************************************)
(* mergeHTML never brings back an object that was deleted and that the     *)
(* other writer had left alone.  For every fragment.                       *)
(***************************************************************************)
THEOREM DeletionsAreNotUndone == Spec => []DeletionsSurvive
<1>1. MergeInv => DeletionsSurvive
  BY ElementsMerged DEF DeletionsSurvive
<1> QED
  BY <1>1, MergeInvariant, PTL

\* The outcome of a merge of two companions, whichever side is preferred.
LEMMA CompanionsMerged ==
  ASSUME MergeInv, Done("section")
  PROVE  /\ AppendsAreKept(base, preferred, other, result)
         /\ SectionsAreMerged(base, preferred, other, result)
<1>1. /\ base \in Docs /\ preferred \in Docs /\ other \in Docs
      /\ \/ preferred = incoming /\ other = current
         \/ preferred = current /\ other = incoming
  BY DEF MergeInv, Done, preferred, other, Sides
<1>2. result = MergeFile(base, incoming, current,
                         MergeSections(base, preferred, other, Heading, Preface))
  BY DEF MergeInv, Done
<1>3. \/ preferred = base /\ result = other
      \/ other = base /\ result = preferred
      \/ preferred = other /\ result = preferred
      \/ result = MergeSections(base, preferred, other, Heading, Preface)
  <2> HIDE DEF preferred, other
  <2> QED
    BY <1>1, <1>2 DEF MergeFile
<1> HIDE DEF preferred, other
<1> QED
  BY <1>1, <1>3, SectionsHold

(***************************************************************************)
(* mergeSections: what both writers appended to a section is there, theirs *)
(* first, behind the old lines, which are there once.  For documents of    *)
(* any length, unless lines in front of all headings were added.           *)
(***************************************************************************)
THEOREM AppendsAreNotLost == Spec => []AppendsSurvive
<1>1. MergeInv => AppendsSurvive
  BY CompanionsMerged DEF AppendsSurvive
<1> QED
  BY <1>1, MergeInvariant, PTL

(***************************************************************************)
(* mergeSections: each section is what its two versions merge to, whatever *)
(* was done to the others: sections do not disturb each other when they    *)
(* are added, moved and deleted.  For documents of any length, likewise.   *)
(***************************************************************************)
THEOREM SectionsAreIndependent == Spec => []SectionsIndependent
<1>1. MergeInv => SectionsIndependent
  BY CompanionsMerged DEF SectionsIndependent
<1> QED
  BY <1>1, MergeInvariant, PTL

(***************************************************************************)
(* Merge: a slide keeps both its files or neither, and a contested one is  *)
(* wholly the chosen side's; a change that is not visible is listed.  For  *)
(* every set of slides and complete snapshots.                             *)
(***************************************************************************)
THEOREM PairsAreKept == Spec => []SnapshotsMerge
<1>1. MergeInv => SnapshotsMerge
  BY PairsAreWhole, ChangesAreReported DEF MergeInv, SnapshotsMerge, Done
<1> QED
  BY <1>1, MergeInvariant, PTL

(***************************************************************************)
(* Merge with the sides and the preference exchanged gives the same        *)
(* snapshot, for all snapshots.                                            *)
(***************************************************************************)
THEOREM PreferenceIsSymmetric == Spec => []PreferenceSymmetry
<1>1. MergeInv => PreferenceSymmetry
  BY MergeSymmetry DEF MergeInv, PreferenceSymmetry, Done
<1> QED
  BY <1>1, MergeInvariant, PTL
================================================================================
