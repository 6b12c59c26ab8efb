----------------------------- MODULE DataLemmas -----------------------------
(***************************************************************************)
(* Lemmas about numbers, finite sets and recursion that the proofs about   *)
(* the accounts and the Base32 decoder use.  The induction theorems of the *)
(* library take an operator; here induction is over a set of numbers       *)
(* (Counting), and a function that is defined by recursion is built from   *)
(* its finite parts.                                                       *)
(***************************************************************************)
EXTENDS Integers, SequencesExt, SequenceTheorems, FiniteSetTheorems, TLAPS

\* A set of naturals that is not empty has a least element.
LEMMA LeastNumber ==
  ASSUME NEW S \in SUBSET Nat, S # {}
  PROVE  \E m \in S : \A n \in S : m <= n
<1>1. PICK m \in S : \A y \in S : ~(<<y, m>> \in OpToRel(<, Nat))
  BY NatLessThanWellFounded, WFMin
<1>2. \A y \in S : ~(y < m)
  BY <1>1 DEF OpToRel
<1>3. QED BY <1>2

\* Induction over 0..n, with the property as a set.
LEMMA Counting ==
  ASSUME NEW n \in Nat, NEW S, 0 \in S, \A k \in 0..n-1 : k \in S => k + 1 \in S
  PROVE  \A k \in 0..n : k \in S
<1> DEFINE Bad == {k \in 0..n : k \notin S}
<1> SUFFICES ASSUME Bad # {} PROVE FALSE
  OBVIOUS
<1>1. Bad \in SUBSET Nat
  OBVIOUS
<1> HIDE DEF Bad
<1>2. PICK m \in Bad : \A k \in Bad : m <= k
  BY <1>1, LeastNumber
<1>3. m # 0 /\ m - 1 \in 0..n-1 /\ m \notin S
  BY DEF Bad
<1>4. m - 1 \in S
  BY <1>2, <1>3 DEF Bad
<1>5. m \in Nat
  BY DEF Bad
<1>6. QED BY <1>3, <1>4, <1>5

\* What Max returns, of a set that has a greatest element.
LEMMA MaxIs ==
  ASSUME NEW S \in SUBSET Int, NEW m \in S, \A y \in S : m >= y
  PROVE  Max(S) = m
<1>1. \A x \in S : (\A y \in S : x >= y) => x = m
  OBVIOUS
<1>2. QED BY <1>1 DEF Max

\* What Min returns, of a set that has a least element.
LEMMA MinIs ==
  ASSUME NEW S \in SUBSET Int, NEW m \in S, \A y \in S : m <= y
  PROVE  Min(S) = m
<1>1. \A x \in S : (\A y \in S : x <= y) => x = m
  OBVIOUS
<1>2. QED BY <1>1 DEF Min

\* A set of naturals has its Min.
LEMMA MinIn ==
  ASSUME NEW S \in SUBSET Nat, S # {}
  PROVE  Min(S) \in S /\ \A y \in S : Min(S) <= y
<1>1. PICK m \in S : \A n \in S : m <= n
  BY LeastNumber
<1>2. Min(S) = m
  BY <1>1, MinIs
<1>3. QED BY <1>1, <1>2

\* A bounded set of naturals has its Max.
LEMMA MaxIn ==
  ASSUME NEW n \in Nat, NEW S \in SUBSET (0..n), S # {}
  PROVE  Max(S) \in S /\ \A y \in S : Max(S) >= y
<1> DEFINE Up == {m \in Nat : \A y \in S : m >= y}
<1>1. n \in Up
  OBVIOUS
<1>2. PICK m \in Up : \A k \in Up : m <= k
  <2> Up \in SUBSET Nat
    OBVIOUS
  <2> HIDE DEF Up
  <2> QED BY <1>1, LeastNumber
<1>3. m \in S
  <2> SUFFICES ASSUME m \notin S PROVE FALSE
    OBVIOUS
  <2>1. \A y \in S : m > y
    OBVIOUS
  <2>2. m - 1 \in Up
    <3>1. PICK y \in S : TRUE
      OBVIOUS
    <3>2. m > y /\ y >= 0
      BY <2>1
    <3>3. QED BY <2>1, <3>2
  <2>3. QED BY <1>2, <2>2
<1>4. Max(S) = m
  BY <1>3, MaxIs
<1>5. QED BY <1>3, <1>4

-----------------------------------------------------------------------------
(***************************************************************************)
(* Folds.                                                                  *)
(***************************************************************************)
\* h is the fold of G from base over the sets of indices, the greatest index
\* first: the recursion that FoldLeft evaluates.
FoldsBy(h, n, base, G) ==
    \A s \in SUBSET (1..n) :
        h[s] = IF s = {} THEN base ELSE G[<<h[s \ {Max(s)}], Max(s)>>]

\* The fold exists: functions on the subsets of 1..k exist for every k.
LEMMA FoldExists ==
  ASSUME NEW n \in Nat, NEW X, NEW base \in X, NEW G \in [X \X (1..n) -> X]
  PROVE  \E h \in [SUBSET (1..n) -> X] : FoldsBy(h, n, base, G)
<1> DEFINE Ok(k, h) == \A s \in SUBSET (1..k) :
             h[s] = IF s = {} THEN base ELSE G[<<h[s \ {Max(s)}], Max(s)>>]
           K == {k \in 0..n : \E h \in [SUBSET (1..k) -> X] : Ok(k, h)}
<1>1. 0 \in K
  <2>1. [s \in SUBSET (1..0) |-> base] \in [SUBSET (1..0) -> X]
    OBVIOUS
  <2>2. 1..0 = {}
    OBVIOUS
  <2>3. Ok(0, [s \in SUBSET (1..0) |-> base])
    BY <2>2
  <2> HIDE DEF Ok
  <2>4. QED BY <2>1, <2>3
<1>2. ASSUME NEW k \in 0..n-1, k \in K PROVE k + 1 \in K
  <2>1. PICK h \in [SUBSET (1..k) -> X] : Ok(k, h)
    BY <1>2
  <2> DEFINE g == [s \in SUBSET (1..k+1) |->
                     IF k + 1 \in s THEN G[<<h[s \ {k + 1}], k + 1>>] ELSE h[s]]
  <2>2. \A s \in SUBSET (1..k+1) : s \ {k + 1} \in SUBSET (1..k) /\ (k + 1 \notin s => s \in SUBSET (1..k))
    OBVIOUS
  <2>3. g \in [SUBSET (1..k+1) -> X]
    BY <2>2
  <2>4. ASSUME NEW s \in SUBSET (1..k+1)
        PROVE  g[s] = IF s = {} THEN base ELSE G[<<g[s \ {Max(s)}], Max(s)>>]
    <3>1. CASE k + 1 \in s
      <4>1. Max(s) = k + 1
        BY <3>1, MaxIs
      <4>2. g[s \ {k + 1}] = h[s \ {k + 1}]
        BY <2>2
      <4>3. QED BY <3>1, <4>1, <4>2
    <3>2. CASE k + 1 \notin s
      <4>1. s \in SUBSET (1..k) /\ g[s] = h[s]
        BY <2>2, <3>2
      <4>2. s \ {Max(s)} \in SUBSET (1..k) /\ s \ {Max(s)} \in SUBSET (1..k+1) /\ k + 1 \notin s \ {Max(s)}
        BY <4>1, <3>2
      <4>3. g[s \ {Max(s)}] = h[s \ {Max(s)}]
        BY <4>2
      <4>4. QED BY <2>1, <4>1, <4>3
    <3>3. QED BY <3>1, <3>2
  <2>5. Ok(k + 1, g)
    BY <2>4
  <2> HIDE DEF Ok, g
  <2>6. QED BY <2>3, <2>5
<1> HIDE DEF K
<1>3. n \in K
  BY <1>1, <1>2, Counting
<1>4. QED BY <1>3 DEF K, FoldsBy

-----------------------------------------------------------------------------
(***************************************************************************)
(* Sizes of finite sets.                                                   *)
(***************************************************************************)
\* Two sets whose elements R pairs off are of one size.
LEMMA Pairing ==
  ASSUME NEW S, NEW T, NEW R, IsFiniteSet(S),
         \A s \in S : \E t \in T : <<s, t>> \in R,
         \A t \in T : \E s \in S : <<s, t>> \in R,
         \A s1, s2 \in S, t1, t2 \in T : <<s1, t1>> \in R /\ <<s2, t2>> \in R => (s1 = s2 <=> t1 = t2)
  PROVE  IsFiniteSet(T) /\ Cardinality(S) = Cardinality(T)
<1> DEFINE f == [s \in S |-> CHOOSE t \in T : <<s, t>> \in R]
<1>1. \A s \in S : f[s] \in T /\ <<s, f[s]>> \in R
  OBVIOUS
<1>2. f \in [S -> T]
  OBVIOUS
<1> HIDE DEF f
<1>3. f \in Injection(S, T)
  <2>1. ASSUME NEW s1 \in S, NEW s2 \in S, f[s1] = f[s2] PROVE s1 = s2
    <3>1. <<s1, f[s1]>> \in R /\ <<s2, f[s2]>> \in R /\ f[s1] \in T /\ f[s2] \in T
      BY <1>1
    <3>2. QED BY <2>1, <3>1
  <2>2. DOMAIN f = S
    BY <1>2
  <2>3. IsInjective(f)
    BY <2>1, <2>2 DEF IsInjective
  <2>4. QED BY <1>2, <2>3 DEF Injection
<1>4. f \in Surjection(S, T)
  <2>1. \A t \in T : \E s \in S : f[s] = t
    BY <1>1, ZenonT(60)
  <2>2. QED BY <1>2, <2>1 DEF Surjection
<1>5. ExistsBijection(S, T)
  BY <1>3, <1>4 DEF ExistsBijection, Bijection
<1>6. QED BY <1>5, FS_Bijection

\* The size of a set in two parts.
LEMMA TwoParts ==
  ASSUME NEW S, NEW A, NEW B, IsFiniteSet(S), S = A \cup B, A \cap B = {}
  PROVE  /\ IsFiniteSet(A) /\ IsFiniteSet(B) /\ Cardinality(A) \in Nat /\ Cardinality(B) \in Nat
         /\ Cardinality(S) \in Nat /\ Cardinality(S) = Cardinality(A) + Cardinality(B)
<1>1. IsFiniteSet(A) /\ IsFiniteSet(B)
  BY FS_Subset
<1>2. Cardinality(S) = Cardinality(A) + Cardinality(B) - Cardinality(A \cap B)
  BY <1>1, FS_Union
<1>3. Cardinality(A \cap B) = 0
  BY FS_EmptySet
<1>4. Cardinality(A) \in Nat /\ Cardinality(B) \in Nat /\ Cardinality(S) \in Nat
  BY <1>1, FS_CardinalityType
<1> DEFINE a == Cardinality(A)
           b == Cardinality(B)
           c == Cardinality(S)
           d == Cardinality(A \cap B)
<1>5. c = a + b - d /\ d = 0 /\ a \in Nat /\ b \in Nat
  BY <1>2, <1>3, <1>4
<1> HIDE DEF a, b, c, d
<1>6. c = a + b
  BY <1>5
<1>7. QED BY <1>1, <1>4, <1>6 DEF a, b, c

\* Min and Max of two numbers.
LEMMA MinMaxOfTwo ==
  ASSUME NEW a \in Int, NEW b \in Int
  PROVE  /\ Min({a, b}) = IF a <= b THEN a ELSE b
         /\ Max({a, b}) = IF a >= b THEN a ELSE b
<1>1. {a, b} \in SUBSET Int /\ a \in {a, b} /\ b \in {a, b}
  OBVIOUS
<1>2. CASE a <= b /\ a # b
  <2>1. \A y \in {a, b} : a <= y /\ b >= y
    BY <1>2
  <2>2. Min({a, b}) = a /\ Max({a, b}) = b
    BY <1>1, <2>1, MinIs, MaxIs
  <2>3. QED BY <1>2, <2>2
<1>3. CASE ~(a <= b) \/ a = b
  <2>1. \A y \in {a, b} : b <= y /\ a >= y
    BY <1>3
  <2>2. Min({a, b}) = b /\ Max({a, b}) = a
    BY <1>1, <2>1, MinIs, MaxIs
  <2>3. QED BY <1>3, <2>2
<1>4. QED BY <1>2, <1>3

-----------------------------------------------------------------------------
(***************************************************************************)
(* Iterations.                                                             *)
(***************************************************************************)
\* g is the run of G from base, k steps long.
RunsTo(g, k, base, G) ==
    /\ g[0] = base
    /\ \A j \in 0..k - 1 : g[j + 1] = G[g[j]]

\* Runs of every length exist.
LEMMA RunExists ==
  ASSUME NEW X, NEW base \in X, NEW G \in [X -> X], NEW n \in Nat
  PROVE  \E g \in [0..n -> X] : RunsTo(g, n, base, G)
<1> DEFINE K == {k \in 0..n : \E g \in [0..k -> X] : RunsTo(g, k, base, G)}
<1>1. 0 \in K
  <2> DEFINE g == [j \in 0..0 |-> base]
  <2>1. g \in [0..0 -> X] /\ RunsTo(g, 0, base, G)
    BY DEF RunsTo
  <2>2. QED BY <2>1
<1>2. ASSUME NEW k \in 0..n - 1, k \in K PROVE k + 1 \in K
  <2>1. PICK g \in [0..k -> X] : RunsTo(g, k, base, G)
    BY <1>2
  <2> DEFINE h == [j \in 0..k + 1 |-> IF j = k + 1 THEN G[g[k]] ELSE g[j]]
  <2>2. /\ k \in 0..k /\ k \in Nat /\ 0 \in 0..k
        /\ 0 \in 0..k + 1 /\ k + 1 \in 0..k + 1 /\ k + 1 \in 0..n
        /\ \A j \in 0..k : j \in 0..k + 1 /\ j # k + 1
        /\ \A j \in 0..k + 1 : j \in 0..k \/ j = k + 1
    OBVIOUS
  <2>3. g[k] \in X /\ G[g[k]] \in X
    BY <2>2
  <2>4. h \in [0..k + 1 -> X]
    BY <2>2, <2>3
  <2>5. h[k + 1] = G[g[k]] /\ \A j \in 0..k : h[j] = g[j]
    BY <2>2
  <2> HIDE DEF h
  <2>6. RunsTo(h, k + 1, base, G)
    <3>1. h[0] = base
      BY <2>1, <2>2, <2>5 DEF RunsTo
    <3>2. ASSUME NEW j \in 0..(k + 1) - 1 PROVE h[j + 1] = G[h[j]]
      <4>1. j \in 0..k /\ (j = k \/ (j \in 0..k - 1 /\ j + 1 \in 0..k))
        BY <2>2
      <4>2. CASE j = k
        BY <2>5, <4>1, <4>2
      <4>3. CASE j \in 0..k - 1 /\ j + 1 \in 0..k
        BY <2>1, <2>5, <4>1, <4>3 DEF RunsTo
      <4>4. QED BY <4>1, <4>2, <4>3
    <3>3. QED BY <3>1, <3>2 DEF RunsTo
  <2>7. QED BY <2>2, <2>4, <2>6
<1> HIDE DEF K
<1>3. \A k \in 0..n : k \in K
  BY <1>1, <1>2, Counting
<1>4. n \in K
  BY <1>3
<1>5. QED BY <1>4 DEF K

\* Two runs agree as far as the shorter goes.
LEMMA RunsAgree ==
  ASSUME NEW base, NEW G, NEW k \in Nat, NEW m \in Nat, k <= m,
         NEW g, RunsTo(g, k, base, G), NEW h, RunsTo(h, m, base, G)
  PROVE  \A j \in 0..k : g[j] = h[j]
<1> DEFINE S == {j \in 0..k : g[j] = h[j]}
<1>1. 0 \in S
  BY DEF RunsTo
<1>2. \A j \in 0..k - 1 : j \in S => j + 1 \in S
  <2> TAKE j \in 0..k - 1
  <2> HAVE j \in S
  <2>1. j \in 0..m - 1 /\ j + 1 \in 0..k
    OBVIOUS
  <2>2. g[j + 1] = G[g[j]] /\ h[j + 1] = G[h[j]] /\ g[j] = h[j]
    BY <2>1 DEF RunsTo
  <2>3. QED BY <2>1, <2>2
<1> HIDE DEF S
<1>3. \A j \in 0..k : j \in S
  BY <1>1, <1>2, Counting
<1>4. QED BY <1>3 DEF S

\* A function on the naturals is defined by its first value and a step.
LEMMA IterationExists ==
  ASSUME NEW X, NEW base \in X, NEW G \in [X -> X]
  PROVE  \E f \in [Nat -> X] : f[0] = base /\ \A k \in Nat : f[k + 1] = G[f[k]]
<1> DEFINE H == [k \in Nat |-> CHOOSE g \in [0..k -> X] : RunsTo(g, k, base, G)]
           f == [k \in Nat |-> H[k][k]]
<1>1. \A k \in Nat : H[k] \in [0..k -> X] /\ RunsTo(H[k], k, base, G)
  BY RunExists
<1> HIDE DEF H
<1>2. \A k \in Nat : f[k] = H[k][k] /\ f[k] \in X
  <2> TAKE k \in Nat
  <2>1. k \in 0..k
    OBVIOUS
  <2>2. QED BY <1>1, <2>1
<1>3. f \in [Nat -> X]
  BY <1>2
<1> HIDE DEF f
<1>4. f[0] = base
  BY <1>1, <1>2 DEF RunsTo
<1>5. ASSUME NEW k \in Nat PROVE f[k + 1] = G[f[k]]
  <2>1. k + 1 \in Nat /\ k <= k + 1 /\ k \in 0..k /\ k \in 0..(k + 1) - 1
    OBVIOUS
  <2>2. f[k + 1] = H[k + 1][k + 1] /\ f[k] = H[k][k]
    BY <1>2, <2>1
  <2>3. RunsTo(H[k], k, base, G) /\ RunsTo(H[k + 1], k + 1, base, G)
    BY <1>1, <2>1
  <2>4. H[k + 1][k + 1] = G[H[k + 1][k]]
    BY <2>1, <2>3 DEF RunsTo
  <2>5. H[k][k] = H[k + 1][k]
    <3> DEFINE g1 == H[k]
               h1 == H[k + 1]
               m == k + 1
    <3>1. k \in Nat /\ m \in Nat /\ k <= m /\ RunsTo(g1, k, base, G) /\ RunsTo(h1, m, base, G)
      BY <2>1, <2>3
    <3> HIDE DEF g1, h1, m
    <3>2. \A j \in 0..k : g1[j] = h1[j]
      BY <3>1, RunsAgree
    <3>3. QED BY <2>1, <3>2 DEF g1, h1
  <2>6. QED BY <2>2, <2>4, <2>5
<1>6. QED BY <1>3, <1>4, <1>5

-----------------------------------------------------------------------------
(***************************************************************************)
(* Going round a finite set of numbers.                                    *)
(***************************************************************************)
\* v follows u in U: the least number above it, or the least one after the last.
Follows(U, u, v) ==
    \/ u < v /\ \A w \in U : w > u => v <= w
    \/ (\A w \in U : ~(w > u)) /\ \A w \in U : v <= w

\* The numbers of U below u.
Below(U, u) == {w \in U : w < u}

\* The place of u among the numbers of U.
Pos(U, u) == Cardinality(Below(U, u))

\* The number that follows is one place on, or the first after the last.
LEMMA PosFacts ==
  ASSUME NEW U \in SUBSET Nat, IsFiniteSet(U)
  PROVE  /\ Cardinality(U) \in Nat
         /\ \A u \in U : Pos(U, u) \in Nat /\ Pos(U, u) < Cardinality(U)
         /\ \A u, v \in U : Pos(U, u) = Pos(U, v) => u = v
         /\ \A u, v \in U : Follows(U, u, v) =>
              \/ Pos(U, v) = Pos(U, u) + 1
              \/ Pos(U, u) = Cardinality(U) - 1 /\ Pos(U, v) = 0
<1>0. \A u \in U : u \in Nat
  OBVIOUS
<1>9. \A u : Below(U, u) \subseteq U /\ \A w \in U : w \in Below(U, u) <=> w < u
  BY DEF Below
<1>1. \A S \in SUBSET U : IsFiniteSet(S) /\ Cardinality(S) \in Nat /\ Cardinality(S) <= Cardinality(U)
  BY FS_Subset, FS_CardinalityType
<1>2. \A u \in U : /\ Below(U, u) \in SUBSET U /\ u \notin Below(U, u)
                   /\ Below(U, u) \cup {u} \in SUBSET U
                   /\ IsFiniteSet(Below(U, u)) /\ Pos(U, u) \in Nat
                   /\ Cardinality(Below(U, u) \cup {u}) = Pos(U, u) + 1
  <2> TAKE u \in U
  <2>1. Below(U, u) \in SUBSET U /\ u \notin Below(U, u)
    BY DEF Below
  <2>2. IsFiniteSet(Below(U, u)) /\ Pos(U, u) \in Nat
    BY <1>1, <2>1 DEF Pos
  <2>3. Cardinality(Below(U, u) \cup {u}) = Pos(U, u) + 1
    BY <2>1, <2>2, FS_AddElement DEF Pos
  <2>4. QED BY <2>1, <2>2, <2>3
<1>3. Cardinality(U) \in Nat
  BY FS_CardinalityType
<1>4. ASSUME NEW u \in U PROVE Pos(U, u) < Cardinality(U)
  <2> DEFINE c == Cardinality(U)
             p == Pos(U, u)
  <2>1. p \in Nat /\ c \in Nat /\ p + 1 <= c
    <3>1. Cardinality(Below(U, u) \cup {u}) <= Cardinality(U)
      BY <1>1, <1>2
    <3>2. QED BY <1>2, <1>3, <3>1
  <2> HIDE DEF c, p
  <2>2. p < c
    BY <2>1
  <2>3. QED BY <2>2 DEF c, p
<1>5. ASSUME NEW u \in U, NEW v \in U, u < v PROVE Pos(U, u) + 1 <= Pos(U, v)
  <2>1. Below(U, u) \cup {u} \in SUBSET Below(U, v)
    <3>1. \A w \in U : w < u => w < v
      BY <1>0, <1>5
    <3>2. QED BY <1>5, <1>9, <3>1
  <2>2. Cardinality(Below(U, u) \cup {u}) <= Cardinality(Below(U, v))
    BY <1>2, <2>1, FS_Subset
  <2>3. QED BY <1>2, <2>2 DEF Pos
<1>6. ASSUME NEW u \in U, NEW v \in U, Pos(U, u) = Pos(U, v) PROVE u = v
  <2>1. Pos(U, u) \in Nat /\ Pos(U, v) \in Nat
    BY <1>2
  <2>2. ~(u < v) /\ ~(v < u)
    BY <1>5, <1>6, <2>1
  <2>3. QED BY <2>2
<1>7. ASSUME NEW u \in U, NEW v \in U, Follows(U, u, v)
      PROVE  \/ Pos(U, v) = Pos(U, u) + 1
             \/ Pos(U, u) = Cardinality(U) - 1 /\ Pos(U, v) = 0
  <2>1. CASE u < v /\ \A w \in U : w > u => v <= w
    <3>1. Below(U, v) = Below(U, u) \cup {u}
      <4>1. \A w \in U : w < v <=> w < u \/ w = u
        BY <1>0, <2>1
      <4>2. QED BY <1>9, <4>1
    <3>2. QED BY <1>2, <3>1 DEF Pos
  <2>2. CASE (\A w \in U : ~(w > u)) /\ \A w \in U : v <= w
    <3>1. Below(U, u) \cup {u} = U
      <4>1. \A w \in U : w < u \/ w = u
        BY <1>0, <2>2
      <4>2. QED BY <1>9, <4>1
    <3>2. Below(U, v) = {}
      <4>1. \A w \in U : ~(w < v)
        BY <1>0, <2>2
      <4>2. QED BY <1>9, <4>1
    <3>3. Pos(U, v) = 0
      BY <3>2, FS_EmptySet DEF Pos
    <3>4. Cardinality(U) = Pos(U, u) + 1
      BY <1>2, <3>1
    <3> DEFINE c == Cardinality(U)
               p == Pos(U, u)
    <3>5. c = p + 1 /\ p \in Nat
      BY <1>2, <3>4
    <3> HIDE DEF c, p
    <3>6. p = c - 1
      BY <3>5
    <3>7. QED BY <3>3, <3>6 DEF c, p
  <2>3. QED BY <1>7, <2>1, <2>2 DEF Follows
<1>8. QED BY <1>2, <1>3, <1>4, <1>6, <1>7

\* Going n times to the number that follows visits all n numbers and ends
\* at the first.
LEMMA RoundTrip ==
  ASSUME NEW U \in SUBSET Nat, IsFiniteSet(U), NEW n \in Nat, n = Cardinality(U),
         NEW g \in [0..n -> U], \A k \in 0..n - 1 : Follows(U, g[k], g[k + 1])
  PROVE  {g[k] : k \in 1..n} = U /\ g[n] = g[0]
<1> DEFINE p == [k \in 0..n |-> Pos(U, g[k])]
           a == p[0]
           At(k) == IF a + k < n THEN a + k ELSE a + k - n
<1>1. \A k \in 0..n : g[k] \in U /\ p[k] = Pos(U, g[k]) /\ p[k] \in Nat /\ p[k] < n
  BY PosFacts
<1>2. 0 \in 0..n /\ n \in 0..n
  OBVIOUS
<1>10. \A u, v \in U : Pos(U, u) = Pos(U, v) => u = v
  BY PosFacts
<1>3. a \in Nat /\ a < n
  BY <1>1, <1>2
<1>4. \A k \in 0..n - 1 : p[k + 1] = p[k] + 1 \/ (p[k] = n - 1 /\ p[k + 1] = 0)
  <2> TAKE k \in 0..n - 1
  <2>1. k \in 0..n /\ k + 1 \in 0..n
    OBVIOUS
  <2>2. g[k] \in U /\ g[k + 1] \in U /\ p[k] = Pos(U, g[k]) /\ p[k + 1] = Pos(U, g[k + 1])
    BY <1>1, <2>1
  <2> HIDE DEF p
  <2>3. QED BY <2>2, PosFacts, ZenonT(60)
<1> DEFINE S == {k \in 0..n : p[k] = At(k)}
<1>5. \A k \in 0..n : k \in S
  <2> HIDE DEF p
  <2>1. 0 \in S
    BY <1>2, <1>3
  <2>2. \A k \in 0..n - 1 : k \in S => k + 1 \in S
    <3> TAKE k \in 0..n - 1
    <3> HAVE k \in S
    <3>1. k + 1 \in 0..n /\ k \in 0..n
      OBVIOUS
    <3>2. p[k] = At(k) /\ p[k + 1] \in Nat /\ p[k + 1] < n
      BY <1>1, <3>1
    <3> HIDE DEF a
    <3>3. p[k + 1] = p[k] + 1 \/ (p[k] = n - 1 /\ p[k + 1] = 0)
      BY <1>4
    <3>4. p[k + 1] = At(k + 1)
      BY <1>3, <3>2, <3>3
    <3>5. QED BY <3>1, <3>4
  <2> HIDE DEF S
  <2>3. QED BY <2>1, <2>2, Counting
<1>6. g[n] = g[0]
  <2>1. p[n] = At(n)
    BY <1>2, <1>5
  <2>2. p[n] = a
    <3> HIDE DEF p, a
    <3> QED BY <1>3, <2>1
  <2>3. Pos(U, g[n]) = Pos(U, g[0])
    BY <1>1, <1>2, <2>2
  <2>4. QED BY <1>1, <1>2, <1>10, <2>3
<1>7. ASSUME NEW u \in U PROVE \E k \in 1..n : g[k] = u
  <2> DEFINE q == Pos(U, u)
             k == IF q > a THEN q - a ELSE q - a + n
  <2>1. q \in Nat /\ q < n
    BY PosFacts
  <2> HIDE DEF q, p
  <2>2. k \in 1..n /\ k \in 0..n /\ At(k) = q
    <3> HIDE DEF a
    <3> QED BY <1>3, <2>1
  <2> HIDE DEF k
  <2>3. p[k] = q
    BY <1>5, <2>2
  <2>4. Pos(U, g[k]) = Pos(U, u) /\ g[k] \in U
    BY <1>1, <2>2, <2>3 DEF q
  <2>5. g[k] = u
    BY <1>10, <2>4
  <2>6. QED BY <2>2, <2>5
<1>8. \A k \in 1..n : g[k] \in U
  OBVIOUS
<1>9. QED BY <1>6, <1>7, <1>8, ZenonT(60)
=============================================================================
