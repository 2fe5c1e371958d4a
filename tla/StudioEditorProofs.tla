------------------------- MODULE StudioEditorProofs -------------------------
(***************************************************************************)
(* Proofs about StudioEditor, for any number of step names, bodies,        *)
(* changes and requests under way.                                         *)
(*                                                                         *)
(* The graph: dependsOnTransitively and computeWaves are recursive         *)
(* functions.  What is proved of them goes by induction over the subsets   *)
(* of a finite set, in the form of a set that holds the subsets for which  *)
(* the claim is true, and begins with the existence of a function that     *)
(* satisfies the recursive equation.                                       *)
(*                                                                         *)
(* The editor: whatever was read from the server is a copy of its present  *)
(* or of an earlier state, a revision has one body in the life of a        *)
(* resource, and the form on the screen was opened on the revision of the  *)
(* query, which is the one a save carries.                                 *)
(***************************************************************************)
EXTENDS StudioEditor, FiniteSetTheorems, WellFoundedInduction, TLAPS

-----------------------------------------------------------------------------
(* Induction                                                               *)

\* Induction over the subsets of a finite set, with the set of those for which the
\* claim holds.
LEMMA SubsetInduction ==
  ASSUME NEW S, IsFiniteSet(S), NEW P,
         \A x \in SUBSET S :
           (\A y \in SUBSET S : y \subseteq x /\ y # x => y \in P) => x \in P
  PROVE  SUBSET S \subseteq P
<1> DEFINE Bad == (SUBSET S) \ P
<1>1. IsWellFoundedOn(StrictSubsetOrdering(S), SUBSET S)
  BY FS_StrictSubsetOrderingWellFounded, FS_FiniteSubsetsOfFinite, Zenon
<1>2. ASSUME Bad # {} PROVE FALSE
  <2>1. Bad \subseteq SUBSET S
    OBVIOUS
  <2> HIDE DEF Bad
  <2>2. PICK x \in Bad : \A y \in Bad : ~(<<y, x>> \in StrictSubsetOrdering(S))
    BY <1>1, <1>2, <2>1, WFMin
  <2>3. \A y \in SUBSET S : y \subseteq x /\ y # x => y \in P
    BY <2>1, <2>2 DEF StrictSubsetOrdering, Bad
  <2> QED BY <2>2, <2>3 DEF Bad
<1> QED BY <1>2

\* Induction over the natural numbers, in the same form.
LEMMA NatSetInduction ==
  ASSUME NEW P, 0 \in P, \A n \in Nat : n \in P => n + 1 \in P
  PROVE  Nat \subseteq P
<1> DEFINE Bad == Nat \ P
<1>1. ASSUME Bad # {} PROVE FALSE
  <2>1. Bad \subseteq Nat
    OBVIOUS
  <2>2. PICK x \in Bad : \A y \in Bad : ~(<<y, x>> \in OpToRel(<, Nat))
    BY <1>1, <2>1, NatLessThanWellFounded, WFMin, Zenon
  <2>3. \A y \in Bad : ~(y < x)
    BY <2>2, Zenon DEF OpToRel
  <2>4. x \in Nat /\ x \notin P
    BY <2>2, Zenon
  <2>5. x # 0 /\ x - 1 \in Nat
    BY <2>4
  <2>6. x - 1 \in P
    BY <2>3, <2>5
  <2> QED BY <2>4, <2>5, <2>6
<1> QED BY <1>1

-----------------------------------------------------------------------------
(* What a step reaches                                                     *)

\* The direct dependencies of the steps in S.
Successors(D, S) == {d \in Names : \E s \in S : <<s, d>> \in D}

\* f satisfies the equation of seen in dependsOnTransitively.
Follows(D, f) ==
  f = [S \in SUBSET Names |->
         LET T == S \cup {d \in Names : \E s \in S : <<s, d>> \in D}
         IN IF T = S THEN S ELSE f[T]]

\* Such a function exists: it gives the least closed set around its argument.
LEMMA SeenExists ==
  ASSUME NEW D
  PROVE  \E f : Follows(D, f)
<1> DEFINE Closed(C) == Successors(D, C) \subseteq C
           Closure(S) == {x \in Names : \A C \in SUBSET Names : S \subseteq C /\ Closed(C) => x \in C}
           f == [S \in SUBSET Names |-> Closure(S)]
<1>1. ASSUME NEW S \in SUBSET Names
      PROVE  f[S] = LET T == S \cup {d \in Names : \E s \in S : <<s, d>> \in D}
                    IN IF T = S THEN S ELSE f[T]
  <2> DEFINE T == S \cup {d \in Names : \E s \in S : <<s, d>> \in D}
  <2>1. T \in SUBSET Names /\ f[S] = Closure(S) /\ f[T] = Closure(T)
    OBVIOUS
  <2>2. CASE T = S
    <3>1. Closed(S)
      BY <2>2 DEF Successors
    <3>2. Closure(S) = S
      BY <3>1
    <3> QED BY <2>1, <2>2, <3>2
  <2>3. Closure(T) = Closure(S)
    <3>1. \A C \in SUBSET Names : Closed(C) => (S \subseteq C <=> T \subseteq C)
      BY DEF Successors
    <3> QED BY <3>1
  <2> QED BY <2>1, <2>2, <2>3
<1>2. Follows(D, f)
  BY <1>1 DEF Follows
<1> QED BY <1>2

\* What seen holds is closed and contains where it started.
LEMMA SeenClosed ==
  ASSUME NEW D, NEW f, Follows(D, f), IsFiniteSet(Names), NEW S \in SUBSET Names
  PROVE  f[S] \in SUBSET Names /\ S \subseteq f[S] /\ Successors(D, f[S]) \subseteq f[S]
<1> DEFINE Fine(U) == f[U] \in SUBSET Names /\ U \subseteq f[U] /\ Successors(D, f[U]) \subseteq f[U]
           P == {R \in SUBSET Names : Fine(Names \ R)}
<1>1. ASSUME NEW x \in SUBSET Names,
             \A y \in SUBSET Names : y \subseteq x /\ y # x => y \in P
      PROVE  x \in P
  <2> DEFINE U == Names \ x
             T == U \cup {d \in Names : \E s \in U : <<s, d>> \in D}
  <2>1. f[U] = IF T = U THEN U ELSE f[T]
    BY DEF Follows
  <2>2. CASE T = U
    BY <2>1, <2>2 DEF Successors
  <2>3. CASE T # U
    <3>1. Names \ T \in P
      BY <1>1, <2>3
    <3>2. Names \ (Names \ T) = T
      OBVIOUS
    <3>3. Fine(T)
      BY <3>1, <3>2
    <3> QED BY <2>1, <2>3, <3>3
  <2> QED BY <2>2, <2>3
<1> HIDE DEF P
<1>2. SUBSET Names \subseteq P
  BY <1>1, SubsetInduction
<1>3. Names \ (Names \ S) = S /\ Names \ S \in P
  BY <1>2
<1> QED BY <1>3 DEF P

\* The walk of dependsOnTransitively ends in a set that is closed, so that a
\* target it does not find is not reachable.
LEMMA NotReached ==
  ASSUME NEW D, NEW step \in Names, NEW target, IsFiniteSet(Names),
         ~dependsOnTransitively(D, step, target)
  PROVE  \E R \in SUBSET Names : step \in R /\ target \notin R /\ Successors(D, R) \subseteq R
<1> DEFINE f == CHOOSE g : Follows(D, g)
<1>1. Follows(D, f)
  BY SeenExists, Zenon
<1>2. dependsOnTransitively(D, step, target) <=> target \in f[{step}]
  BY Zenon DEF dependsOnTransitively, Follows
<1> HIDE DEF f
<1>3. f[{step}] \in SUBSET Names /\ {step} \subseteq f[{step}] /\ Successors(D, f[{step}]) \subseteq f[{step}]
  BY <1>1, SeenClosed
<1> QED BY <1>2, <1>3

\* An acyclic relation stays so when a pair <<step, dep>> is added to it, if some
\* set with dep and without step is closed under it.
LEMMA NewEdgeAcyclic ==
  ASSUME NEW E \in SUBSET Pairs, IsAcyclic(E), IsFiniteSet(Names),
         NEW step \in Names, NEW dep \in Names, NEW R \in SUBSET Names,
         dep \in R, step \notin R, Successors(E, R) \subseteq R
  PROVE  IsAcyclic(E \cup {<<step, dep>>})
<1>1. PICK rank \in [Names -> 1..Cardinality(Names)] : \A p \in E : rank[p[2]] < rank[p[1]]
  BY DEF IsAcyclic
<1> DEFINE Below(x) == IF x \in R THEN {y \in R : rank[y] <= rank[x]}
                       ELSE R \cup {y \in Names : rank[y] <= rank[x]}
           new == [x \in Names |-> Cardinality(Below(x))]
<1>2. Cardinality(Names) \in Nat /\ \A x \in Names : rank[x] \in Nat /\ rank[x] <= rank[x]
  BY <1>1, FS_CardinalityType
<1>3. \A x \in Names : Below(x) \in SUBSET Names /\ x \in Below(x)
  BY <1>2
<1>4. \A x \in Names : IsFiniteSet(Below(x)) /\ Cardinality(Below(x)) \in 1..Cardinality(Names)
  <2> SUFFICES ASSUME NEW x \in Names
               PROVE  IsFiniteSet(Below(x)) /\ Cardinality(Below(x)) \in 1..Cardinality(Names)
    OBVIOUS
  <2> HIDE DEF Below
  <2>1. IsFiniteSet(Below(x)) /\ Cardinality(Below(x)) <= Cardinality(Names)
    BY <1>3, FS_Subset
  <2>2. Cardinality(Below(x)) \in Nat /\ Cardinality(Below(x)) # 0
    BY <1>3, <2>1, FS_CardinalityType, FS_EmptySet
  <2> QED BY <1>2, <2>1, <2>2
<1>5. ASSUME NEW a \in Names, NEW b \in Names, <<a, b>> \in E \cup {<<step, dep>>}
      PROVE  Below(b) \subseteq Below(a) /\ a \notin Below(b)
  <2>1. CASE <<a, b>> \in E
    <3>1. rank[b] < rank[a]
      BY <1>1, <2>1
    <3>2. a \in R => b \in R
      BY <2>1 DEF Successors
    <3> QED BY <1>2, <3>1, <3>2
  <2>2. CASE a = step /\ b = dep
    BY <2>2
  <2> QED BY <1>5, <2>1, <2>2
<1>6. ASSUME NEW a \in Names, NEW b \in Names, <<a, b>> \in E \cup {<<step, dep>>}
      PROVE  Cardinality(Below(b)) < Cardinality(Below(a))
  <2>1. Below(b) \subseteq Below(a) /\ a \notin Below(b) /\ a \in Below(a)
    BY <1>3, <1>5, <1>6
  <2> HIDE DEF Below
  <2>2. IsFiniteSet(Below(a)) /\ Cardinality(Below(a)) \in Nat /\ Cardinality(Below(b)) \in Nat
    BY <1>4
  <2>3. Cardinality(Below(b)) <= Cardinality(Below(a)) /\ Cardinality(Below(a)) # Cardinality(Below(b))
    BY <2>1, <2>2, FS_Subset
  <2> QED BY <2>2, <2>3
<1> HIDE DEF Below
<1>7. new \in [Names -> 1..Cardinality(Names)]
  BY <1>4
<1>8. ASSUME NEW p \in E \cup {<<step, dep>>} PROVE new[p[2]] < new[p[1]]
  <2>1. p[1] \in Names /\ p[2] \in Names /\ p = <<p[1], p[2]>>
    BY DEF Pairs
  <2> QED BY <1>6, <2>1
<1> HIDE DEF new
<1> QED BY <1>7, <1>8 DEF IsAcyclic

-----------------------------------------------------------------------------
(* Chains of steps                                                         *)

\* A shorter chain ends where a longer one does.
LEMMA ShorterChain ==
  ASSUME NEW S, NEW D, NEW s, NEW n \in Nat, EndsChain(S, D, s, n),
         NEW m \in Nat, 1 <= m, m <= n
  PROVE  EndsChain(S, D, s, m)
<1>1. PICK c \in [1..n -> S] : c[n] = s /\ \A i \in 1..(n - 1) : <<c[i + 1], c[i]>> \in D
  BY DEF EndsChain
<1> DEFINE d == [i \in 1..m |-> c[i + (n - m)]]
<1>2. \A i \in 1..m : i + (n - m) \in 1..n
  OBVIOUS
<1>3. d \in [1..m -> S] /\ d[m] = s
  BY <1>1, <1>2
<1>4. ASSUME NEW i \in 1..(m - 1) PROVE <<d[i + 1], d[i]>> \in D
  <2>1. i + (n - m) \in 1..(n - 1) /\ i \in 1..m /\ i + 1 \in 1..m
    OBVIOUS
  <2>2. d[i] = c[i + (n - m)] /\ d[i + 1] = c[(i + (n - m)) + 1]
    BY <2>1
  <2> QED BY <1>1, <2>1, <2>2
<1> HIDE DEF d
<1> QED BY <1>3, <1>4 DEF EndsChain

\* A step alone is a chain.
LEMMA ChainOfOne ==
  ASSUME NEW S, NEW D, NEW s \in S
  PROVE  EndsChain(S, D, s, 1)
<1> DEFINE c == [i \in 1..1 |-> s]
<1>1. c \in [1..1 -> S] /\ c[1] = s
  OBVIOUS
<1>2. \A i \in 1..(1 - 1) : <<c[i + 1], c[i]>> \in D
  OBVIOUS
<1> HIDE DEF c
<1> QED BY <1>1, <1>2 DEF EndsChain

\* A chain of two or more steps goes on from a chain that ends in a dependency.
LEMMA ChainExtends ==
  ASSUME NEW S, NEW D, NEW s \in S, NEW t \in S, <<s, t>> \in D,
         NEW n \in Nat, 1 <= n, EndsChain(S, D, t, n)
  PROVE  EndsChain(S, D, s, n + 1)
<1>1. PICK c \in [1..n -> S] : c[n] = t /\ \A i \in 1..(n - 1) : <<c[i + 1], c[i]>> \in D
  BY DEF EndsChain
<1> DEFINE d == [i \in 1..(n + 1) |-> IF i = n + 1 THEN s ELSE c[i]]
<1>2. d \in [1..(n + 1) -> S] /\ d[n + 1] = s
  BY <1>1
<1>3. ASSUME NEW i \in 1..((n + 1) - 1) PROVE <<d[i + 1], d[i]>> \in D
  <2>1. i \in 1..n /\ d[i] = c[i]
    OBVIOUS
  <2>2. CASE i = n
    BY <1>1, <2>1, <2>2
  <2>3. CASE i # n
    <3>1. i \in 1..(n - 1) /\ d[i + 1] = c[i + 1]
      BY <2>1, <2>3
    <3> QED BY <1>1, <2>1, <3>1
  <2> QED BY <2>2, <2>3
<1> HIDE DEF d
<1> QED BY <1>2, <1>3 DEF EndsChain

\* The steps of S that wait for no step of S.
Free(S, D) == {s \in S : \A d \in S : <<s, d>> \notin D}

\* Without its free steps, every chain is shorter by its first step.
LEMMA ChainWithoutFree ==
  ASSUME NEW S, NEW D, NEW s \in S \ Free(S, D), NEW n \in Nat, 1 <= n
  PROVE  EndsChain(S, D, s, n + 1) <=> EndsChain(S \ Free(S, D), D, s, n)
<1> DEFINE T == S \ Free(S, D)
<1>1. ASSUME EndsChain(S, D, s, n + 1) PROVE EndsChain(T, D, s, n)
  <2>1. PICK c \in [1..(n + 1) -> S] :
          c[n + 1] = s /\ \A i \in 1..((n + 1) - 1) : <<c[i + 1], c[i]>> \in D
    BY <1>1 DEF EndsChain
  <2> DEFINE d == [i \in 1..n |-> c[i + 1]]
  <2>2. \A i \in 1..n : c[i] \in S /\ c[i + 1] \in S /\ <<c[i + 1], c[i]>> \in D
    BY <2>1
  <2>3. \A i \in 1..n : c[i + 1] \in T
    BY <2>2 DEF Free
  <2>4. d \in [1..n -> T] /\ d[n] = s
    BY <2>1, <2>3
  <2>5. ASSUME NEW i \in 1..(n - 1) PROVE <<d[i + 1], d[i]>> \in D
    <3>1. i \in 1..n /\ i + 1 \in 1..n /\ d[i] = c[i + 1] /\ d[i + 1] = c[(i + 1) + 1]
      OBVIOUS
    <3> QED BY <2>2, <3>1
  <2> HIDE DEF d
  <2> QED BY <2>4, <2>5 DEF EndsChain
<1>2. ASSUME EndsChain(T, D, s, n) PROVE EndsChain(S, D, s, n + 1)
  <2>1. PICK c \in [1..n -> T] : c[n] = s /\ \A i \in 1..(n - 1) : <<c[i + 1], c[i]>> \in D
    BY <1>2 DEF EndsChain
  <2>2. c[1] \in T
    BY <2>1
  <2>3. PICK t \in S : <<c[1], t>> \in D
    BY <2>2 DEF Free
  <2> DEFINE d == [i \in 1..(n + 1) |-> IF i = 1 THEN t ELSE c[i - 1]]
  <2>4. \A i \in 1..(n + 1) : i # 1 => i - 1 \in 1..n /\ c[i - 1] \in S
    BY <2>1
  <2>5. d \in [1..(n + 1) -> S] /\ d[n + 1] = s
    BY <2>1, <2>4
  <2>6. ASSUME NEW i \in 1..((n + 1) - 1) PROVE <<d[i + 1], d[i]>> \in D
    <3>1. i \in 1..n /\ d[i + 1] = c[i]
      OBVIOUS
    <3>2. CASE i = 1
      <4>1. d[i] = t /\ d[i + 1] = c[1]
        BY <3>1, <3>2
      <4> QED BY <2>3, <4>1
    <3>3. CASE i # 1
      <4>1. i - 1 \in 1..(n - 1) /\ d[i] = c[i - 1] /\ (i - 1) + 1 = i
        BY <3>1, <3>3
      <4> QED BY <2>1, <3>1, <4>1
    <3> QED BY <3>2, <3>3
  <2> HIDE DEF d
  <2> QED BY <2>5, <2>6 DEF EndsChain
<1> QED BY <1>1, <1>2

-----------------------------------------------------------------------------
(* The waves of the graph                                                  *)

\* The body of waves in computeWaves.
WaveBody(D, f, r) ==
  IF r = {} THEN [s \in {} |-> 0]
  ELSE LET next == nextWave(D, r)
           rest == f[r \ next]
       IN [s \in r |-> IF s \in next THEN 1 ELSE rest[s] + 1]

\* f satisfies the equation of waves on the sets in Dom.
Waves(D, f, Dom) == f = [r \in Dom |-> WaveBody(D, f, r)]

\* The subsets of S with at most k elements.
Small(S, k) == {r \in SUBSET S : Cardinality(r) <= k}

\* Every wave takes a step.
LEMMA NextWaveFacts ==
  ASSUME NEW D, NEW r, r # {}
  PROVE  /\ nextWave(D, r) \subseteq r /\ nextWave(D, r) # {}
         /\ nextWave(D, r) = IF Free(r, D) = {} THEN r ELSE Free(r, D)
  BY DEF nextWave, Free

\* The steps after a wave are fewer.
LEMMA RestIsSmaller ==
  ASSUME NEW D, NEW S, IsFiniteSet(S), NEW r \in SUBSET S, r # {}
  PROVE  /\ r \ nextWave(D, r) \in SUBSET S
         /\ Cardinality(r \ nextWave(D, r)) \in Nat /\ Cardinality(r) \in Nat
         /\ Cardinality(r \ nextWave(D, r)) < Cardinality(r)
<1> DEFINE n == nextWave(D, r)
<1>1. n \subseteq r /\ n # {}
  BY NextWaveFacts
<1> HIDE DEF n
<1>2. IsFiniteSet(r)
  BY FS_Subset
<1>3. r \ n \in SUBSET r /\ r \ n # r
  BY <1>1
<1>4. IsFiniteSet(r \ n) /\ Cardinality(r \ n) <= Cardinality(r) /\ Cardinality(r) # Cardinality(r \ n)
  BY <1>2, <1>3, FS_Subset
<1>5. Cardinality(r) \in Nat /\ Cardinality(r \ n) \in Nat
  BY <1>2, <1>4, FS_CardinalityType
<1>6. Cardinality(r \ n) < Cardinality(r)
  BY <1>4, <1>5
<1> QED BY <1>3, <1>5, <1>6 DEF n

\* One more step: from the waves of the sets of k steps to those of k + 1.
LEMMA WavesExtend ==
  ASSUME NEW D, NEW S, IsFiniteSet(S), NEW k \in Nat, NEW f, Waves(D, f, Small(S, k))
  PROVE  \E g : Waves(D, g, Small(S, k + 1))
<1> DEFINE g == [r \in Small(S, k + 1) |-> WaveBody(D, f, r)]
<1>1. \A r \in Small(S, k) : r \in Small(S, k + 1) /\ g[r] = f[r]
  <2> SUFFICES ASSUME NEW r \in Small(S, k) PROVE r \in Small(S, k + 1) /\ g[r] = f[r]
    OBVIOUS
  <2>1. Cardinality(r) \in Nat
    BY FS_Subset, FS_CardinalityType DEF Small
  <2>2. r \in Small(S, k + 1)
    BY <2>1 DEF Small
  <2>3. f[r] = WaveBody(D, f, r)
    BY DEF Waves
  <2> QED BY <2>2, <2>3
<1>2. ASSUME NEW r \in Small(S, k + 1) PROVE WaveBody(D, f, r) = WaveBody(D, g, r)
  <2>1. CASE r = {}
    BY <2>1 DEF WaveBody
  <2>2. CASE r # {}
    <3> DEFINE t == r \ nextWave(D, r)
    <3>1. r \in SUBSET S /\ Cardinality(r) <= k + 1
      BY DEF Small
    <3>2. t \in SUBSET S /\ Cardinality(t) \in Nat /\ Cardinality(r) \in Nat /\ Cardinality(t) < Cardinality(r)
      BY <2>2, <3>1, RestIsSmaller
    <3>3. Cardinality(t) <= k
      BY <3>1, <3>2
    <3>4. t \in Small(S, k)
      BY <3>2, <3>3 DEF Small
    <3>5. f[t] = g[t]
      BY <1>1, <3>4
    <3> HIDE DEF g
    <3> QED BY <3>5 DEF WaveBody
  <2> QED BY <2>1, <2>2
<1>3. g = [r \in Small(S, k + 1) |-> WaveBody(D, g, r)]
  BY <1>2
<1> HIDE DEF g
<1> QED BY <1>3 DEF Waves

\* computeWaves ends: its equation has a solution on every subset of a finite set.
LEMMA WavesExist ==
  ASSUME NEW D, NEW S, IsFiniteSet(S)
  PROVE  \E f : Waves(D, f, SUBSET S)
<1> DEFINE P == {k \in Nat : \E f : Waves(D, f, Small(S, k))}
<1>1. 0 \in P
  <2> DEFINE f == [r \in Small(S, 0) |-> [s \in {} |-> 0]]
  <2>1. \A r \in Small(S, 0) : r = {}
    <3> SUFFICES ASSUME NEW r \in Small(S, 0) PROVE r = {}
      OBVIOUS
    <3>1. IsFiniteSet(r) /\ Cardinality(r) <= 0
      BY FS_Subset DEF Small
    <3>2. Cardinality(r) \in Nat
      BY <3>1, FS_CardinalityType
    <3>3. Cardinality(r) = 0
      BY <3>1, <3>2
    <3> QED BY <3>1, <3>3, FS_EmptySet
  <2>2. \A r \in Small(S, 0) : WaveBody(D, f, r) = [s \in {} |-> 0]
    BY <2>1 DEF WaveBody
  <2>3. Waves(D, f, Small(S, 0))
    BY <2>2 DEF Waves
  <2> QED BY <2>3
<1>2. \A k \in Nat : k \in P => k + 1 \in P
  BY WavesExtend
<1> HIDE DEF P
<1>3. Nat \subseteq P
  BY <1>1, <1>2, NatSetInduction
<1>4. Cardinality(S) \in Nat
  BY FS_CardinalityType
<1>5. Small(S, Cardinality(S)) = SUBSET S
  BY FS_Subset DEF Small
<1> QED BY <1>3, <1>4, <1>5 DEF P

\* computeWaves uses a function that satisfies the equation of waves.
LEMMA ComputeWavesIsWaves ==
  ASSUME NEW D, NEW S, IsFiniteSet(S)
  PROVE  \E f : Waves(D, f, SUBSET S) /\ computeWaves(S, D) = f[S]
<1> DEFINE f == CHOOSE g : Waves(D, g, SUBSET S)
<1>1. Waves(D, f, SUBSET S)
  BY WavesExist, Zenon
<1>2. computeWaves(S, D) = f[S]
  BY Zenon DEF computeWaves, Waves, WaveBody
<1> QED BY <1>1, <1>2

\* A step is stuck in S when longer chains end in it than S has steps.
Stuck(S, D, s) == EndsChain(S, D, s, Cardinality(S) + 1)

\* w puts the steps of S into the waves in which they can run.
Layered(S, D, w) ==
  /\ w \in [S -> Nat \ {0}]
  /\ \A s \in S : Stuck(S, D, s) =>
       /\ \A n \in Nat \ {0} : EndsChain(S, D, s, n)
       /\ \A t \in S : w[t] <= w[s] /\ (Stuck(S, D, t) \/ w[t] < w[s])
  /\ \A s \in S : ~Stuck(S, D, s) =>
       EndsChain(S, D, s, w[s]) /\ ~EndsChain(S, D, s, w[s] + 1)

\* When every step waits for another one, chains never end.
LEMMA NoFreeAllStuck ==
  ASSUME NEW S, NEW D, Free(S, D) = {}
  PROVE  \A n \in Nat \ {0} : \A s \in S : EndsChain(S, D, s, n)
<1> DEFINE P == {n \in Nat : \A s \in S : EndsChain(S, D, s, n + 1)}
<1>1. 0 \in P
  BY ChainOfOne
<1>2. ASSUME NEW n \in Nat, n \in P PROVE n + 1 \in P
  <2> SUFFICES ASSUME NEW s \in S PROVE EndsChain(S, D, s, (n + 1) + 1)
    OBVIOUS
  <2>1. PICK t \in S : <<s, t>> \in D
    BY DEF Free
  <2>2. EndsChain(S, D, t, n + 1)
    BY <1>2
  <2>3. n + 1 \in Nat /\ 1 <= n + 1
    OBVIOUS
  <2> QED BY <2>1, <2>2, <2>3, ChainExtends
<1> HIDE DEF P
<1>3. Nat \subseteq P
  BY <1>1, <1>2, NatSetInduction
<1>4. \A n \in Nat \ {0} : n - 1 \in P /\ (n - 1) + 1 = n
  BY <1>3
<1> QED BY <1>4 DEF P

\* The first wave and the waves of the rest are the waves of the whole.
LEMMA FirstWave ==
  ASSUME NEW S, IsFiniteSet(S), NEW D, Free(S, D) # {},
         NEW v, Layered(S \ Free(S, D), D, v)
  PROVE  Layered(S, D, [s \in S |-> IF s \in Free(S, D) THEN 1 ELSE v[s] + 1])
<1> DEFINE F == Free(S, D)
           T == S \ F
           w == [s \in S |-> IF s \in F THEN 1 ELSE v[s] + 1]
<1>1. F \subseteq S /\ \A s \in F : \A d \in S : <<s, d>> \notin D
  BY DEF Free
<1>2. \A s \in T : \A n \in Nat : 1 <= n => (EndsChain(S, D, s, n + 1) <=> EndsChain(T, D, s, n))
  BY ChainWithoutFree
<1>3. v \in [T -> Nat \ {0}]
  BY DEF Layered
<1>4. /\ IsFiniteSet(T) /\ Cardinality(S) \in Nat /\ Cardinality(T) \in Nat
      /\ Cardinality(T) + 1 <= Cardinality(S)
  <2> HIDE DEF F
  <2>1. T \in SUBSET S /\ T # S
    BY <1>1 DEF F
  <2> HIDE DEF T
  <2>2. IsFiniteSet(T) /\ Cardinality(T) <= Cardinality(S) /\ Cardinality(S) # Cardinality(T)
    BY <2>1, FS_Subset
  <2>3. Cardinality(T) \in Nat /\ Cardinality(S) \in Nat
    BY <2>2, FS_CardinalityType
  <2> QED BY <2>2, <2>3
<1>5. ASSUME NEW s \in F
      PROVE  EndsChain(S, D, s, 1) /\ ~EndsChain(S, D, s, 2) /\ ~Stuck(S, D, s)
  <2>1. EndsChain(S, D, s, 1)
    BY <1>1, ChainOfOne
  <2>2. ~EndsChain(S, D, s, 2)
    <3> SUFFICES ASSUME EndsChain(S, D, s, 2) PROVE FALSE
      OBVIOUS
    <3>1. PICK c \in [1..2 -> S] : c[2] = s /\ \A i \in 1..(2 - 1) : <<c[i + 1], c[i]>> \in D
      BY DEF EndsChain
    <3>2. c[1] \in S /\ <<c[2], c[1]>> \in D
      BY <3>1
    <3> QED BY <1>1, <3>1, <3>2
  <2>3. 2 <= Cardinality(S) + 1 /\ Cardinality(S) + 1 \in Nat
    BY <1>4
  <2> QED BY <2>1, <2>2, <2>3, ShorterChain DEF Stuck
<1>6. ASSUME NEW s \in T
      PROVE  /\ Stuck(S, D, s) <=> Stuck(T, D, s)
             /\ Stuck(S, D, s) => \A n \in Nat \ {0} : EndsChain(S, D, s, n)
  <2>1. ASSUME Stuck(S, D, s) PROVE Stuck(T, D, s)
    <3>1. EndsChain(T, D, s, Cardinality(S))
      BY <1>2, <1>4, <2>1 DEF Stuck
    <3> QED BY <1>4, <3>1, ShorterChain DEF Stuck
  <2>2. ASSUME Stuck(T, D, s) PROVE \A n \in Nat \ {0} : EndsChain(S, D, s, n)
    <3> SUFFICES ASSUME NEW n \in Nat \ {0} PROVE EndsChain(S, D, s, n)
      OBVIOUS
    <3>1. EndsChain(T, D, s, n)
      BY <2>2 DEF Layered
    <3>2. EndsChain(S, D, s, n + 1)
      BY <1>2, <3>1
    <3> QED BY <3>2, ShorterChain
  <2>3. Cardinality(S) + 1 \in Nat \ {0}
    BY <1>4
  <2>4. Stuck(T, D, s) => Stuck(S, D, s)
    BY <2>2, <2>3 DEF Stuck
  <2> QED BY <2>1, <2>2, <2>4
<1>7. /\ w \in [S -> Nat \ {0}] /\ \A s \in F : w[s] = 1
      /\ \A s \in T : w[s] = v[s] + 1 /\ v[s] \in Nat \ {0}
  BY <1>1, <1>3
<1> HIDE DEF w, F
<1>8. ASSUME NEW s \in S, Stuck(S, D, s), NEW t \in S
      PROVE  w[t] <= w[s] /\ (Stuck(S, D, t) \/ w[t] < w[s])
  <2>1. s \in T
    BY <1>5, <1>8
  <2>2. CASE t \in F
    BY <1>7, <2>1, <2>2
  <2>3. CASE t \in T
    <3>1. Stuck(T, D, s)
      BY <1>6, <1>8, <2>1
    <3>2. v[t] <= v[s] /\ (Stuck(T, D, t) \/ v[t] < v[s])
      BY <2>1, <2>3, <3>1 DEF Layered, F
    <3>3. Stuck(S, D, t) <=> Stuck(T, D, t)
      BY <1>6, <2>3
    <3>4. w[t] <= w[s] /\ (v[t] < v[s] => w[t] < w[s])
      BY <1>7, <2>1, <2>3, <3>2
    <3> QED BY <3>2, <3>3, <3>4
  <2> QED BY <2>2, <2>3
<1>9. ASSUME NEW s \in S, ~Stuck(S, D, s)
      PROVE  EndsChain(S, D, s, w[s]) /\ ~EndsChain(S, D, s, w[s] + 1)
  <2>1. CASE s \in F
    BY <1>5, <1>7, <2>1
  <2>2. CASE s \in T
    <3>1. EndsChain(T, D, s, v[s]) /\ ~EndsChain(T, D, s, v[s] + 1)
      BY <1>6, <1>9, <2>2 DEF Layered, F
    <3>2. v[s] \in Nat /\ 1 <= v[s] /\ v[s] + 1 \in Nat /\ 1 <= v[s] + 1
      BY <1>7, <2>2
    <3>3. EndsChain(S, D, s, v[s] + 1) /\ ~EndsChain(S, D, s, (v[s] + 1) + 1)
      BY <1>2, <2>2, <3>1, <3>2
    <3> QED BY <1>7, <2>2, <3>3
  <2> QED BY <2>1, <2>2
<1>10. \A s \in S : Stuck(S, D, s) => \A n \in Nat \ {0} : EndsChain(S, D, s, n)
  BY <1>5, <1>6
<1>11. Layered(S, D, w)
  BY <1>7, <1>8, <1>9, <1>10 DEF Layered
<1> QED BY <1>11 DEF w, F

\* The columns of the graph are the waves of the gateway, with everything that waits
\* for a cycle in the last one.
LEMMA ComputeWavesLayered ==
  ASSUME NEW S, IsFiniteSet(S), NEW D
  PROVE  Layered(S, D, computeWaves(S, D))
<1>1. PICK f : Waves(D, f, SUBSET S) /\ computeWaves(S, D) = f[S]
  BY ComputeWavesIsWaves
<1> DEFINE P == {r \in SUBSET S : Layered(r, D, f[r])}
<1>2. ASSUME NEW r \in SUBSET S,
             \A y \in SUBSET S : y \subseteq r /\ y # r => y \in P
      PROVE  r \in P
  <2>1. f[r] = WaveBody(D, f, r)
    BY <1>1 DEF Waves
  <2>2. CASE r = {}
    <3>1. f[r] = [s \in {} |-> 0]
      BY <2>1, <2>2 DEF WaveBody
    <3>2. Layered(r, D, f[r])
      BY <2>2, <3>1 DEF Layered
    <3> QED BY <3>2
  <2>3. CASE r # {} /\ Free(r, D) = {}
    <3>1. nextWave(D, r) = r
      BY <2>3, NextWaveFacts
    <3>2. f[r] = [s \in r |-> 1]
      BY <2>1, <2>3, <3>1 DEF WaveBody
    <3>3. \A s \in r : \A n \in Nat \ {0} : EndsChain(r, D, s, n)
      BY <2>3, NoFreeAllStuck
    <3>4. Cardinality(r) \in Nat
      BY FS_Subset, FS_CardinalityType
    <3>5. \A s \in r : Stuck(r, D, s)
      BY <3>3, <3>4 DEF Stuck
    <3>6. Layered(r, D, f[r])
      BY <3>2, <3>3, <3>5 DEF Layered
    <3> QED BY <3>6
  <2>4. CASE r # {} /\ Free(r, D) # {}
    <3> DEFINE F == Free(r, D)
    <3>1. nextWave(D, r) = F /\ F \subseteq r
      BY <2>4, NextWaveFacts DEF Free
    <3>2. f[r] = [s \in r |-> IF s \in F THEN 1 ELSE f[r \ F][s] + 1]
      BY <2>1, <2>4, <3>1 DEF WaveBody
    <3>3. r \ F \in P
      BY <1>2, <2>4, <3>1
    <3>4. IsFiniteSet(r) /\ Layered(r \ F, D, f[r \ F])
      BY <3>3, FS_Subset
    <3>5. Layered(r, D, f[r])
      BY <2>4, <3>2, <3>4, FirstWave
    <3> QED BY <3>5
  <2> QED BY <2>2, <2>3, <2>4
<1> HIDE DEF P
<1>3. SUBSET S \subseteq P
  BY <1>2, SubsetInduction
<1> QED BY <1>1, <1>3 DEF P

\* A body whose references and dependencies are those of its own steps.
WellFormed(b) == b.refs \subseteq b.steps \X b.steps /\ b.deps \subseteq b.steps \X Names

\* r was read from the server: it is of this life of the resource or of an earlier
\* one, and no revision has two bodies in one life.
CopyOf(r, h) ==
  /\ r.life <= h.life
  /\ r.life = h.life /\ h.rev > 0 => r.rev <= h.rev /\ (r.rev = h.rev => r.body = h.body)

\* r is a copy of what the server had, of a body that is well formed.
Sound(r) == CopyOf(r, head) /\ WellFormed(r.body)

\* A save carries the revision of the copy its form was opened on.
GoodSave(s) ==
  /\ Sound(s.from) /\ Sound(s.got) /\ WellFormed(s.body)
  /\ s.base = s.from.rev
  /\ s.st = "ok" => s.got.rev > 0

\* The types of the form, of the references shown and of a question about them.
Form == [on : BOOLEAN, from : Resource, body : Body, view : {"form", "yaml"},
         yamlError : BOOLEAN, stale : BOOLEAN, deleting : BOOLEAN]
Lint == [shown : SUBSET Pairs, armed : BOOLEAN]
Question == [of : Body, live : BOOLEAN]

\* React's key: the form on the screen was opened on the revision of the query.
FormOnData == form.on => form.from.rev = res.data.rev

\* What is read, shown and on its way to the server is sound, and a save's base is the
\* revision of the body it was opened on.
EditorInv ==
  /\ TypeOK
  /\ WellFormed(head.body)
  /\ Sound(res.data) /\ Sound(res.got)
  /\ Sound(form.from) /\ WellFormed(form.body)
  /\ FormOnData
  /\ \A s \in saves : GoodSave(s)

\* The types, component by component.
LEMMA EditorTypes ==
  ASSUME EditorInv
  PROVE  /\ head \in Resource /\ page \in {"draft", "editor"} /\ res \in Query /\ form \in Form
         /\ \A s \in saves : s \in SaveRequest
         /\ removal \in DeleteRequest /\ lint \in Lint /\ \A a \in asks : a \in Question
         /\ count \in 0..MaxChanges
  BY DEF EditorInv, TypeOK, Form, Lint, Question

\* A resource that is not there is sound.
LEMMA MissingSound ==
  ASSUME head \in Resource
  PROVE  Sound(Missing) /\ Missing \in Resource /\ Blank \in Body /\ WellFormed(Blank)
  BY DEF Sound, CopyOf, WellFormed, Missing, Blank, Resource, Body

\* The editor starts on a resource that is not loaded.
LEMMA EditorInit == Init => EditorInv
<1> SUFFICES ASSUME Init PROVE EditorInv
  OBVIOUS
<1>1. head \in Resource /\ WellFormed(head.body)
  BY EditorAssumption DEF Init, Missing, Blank, Resource, Body, WellFormed
<1>2. Sound(Missing) /\ Missing \in Resource /\ Blank \in Body /\ WellFormed(Blank)
  BY <1>1, MissingSound
<1>3. form \in Form /\ form.from = Missing /\ form.body = Blank /\ form.on = FALSE
  BY <1>2 DEF Init, NoForm, Form
<1>4. res \in Query /\ res.data = Missing /\ res.got = Missing
  BY <1>2 DEF Init, Query
<1>5. TypeOK
  BY <1>1, <1>3, <1>4, EditorAssumption DEF Init, TypeOK, Form, DeleteRequest
<1> QED BY <1>1, <1>2, <1>3, <1>4, <1>5 DEF EditorInv, FormOnData, Init

-----------------------------------------------------------------------------
(* Steps by what they change                                               *)

\* Rendering a page with another query, after an answer or a link.
LEMMA RenderKeeps ==
  ASSUME EditorInv, NEW p \in {"draft", "editor"}, NEW r \in Query, NEW sv,
         Sound(r.data), Sound(r.got), \A s \in sv : s \in SaveRequest /\ GoodSave(s),
         Render(p, r, sv), removal' \in DeleteRequest, UNCHANGED <<head, count>>
  PROVE  EditorInv'
<1>1. page' = p /\ res' = r
  BY DEF Render
<1>2. /\ form' \in Form /\ Sound(form'.from) /\ WellFormed(form'.body)
      /\ form'.on => form'.from.rev = r.data.rev
      /\ lint' \in Lint /\ (\A a \in asks' : a \in Question)
      /\ \A s \in saves' : s \in SaveRequest /\ GoodSave(s)
  <2>1. CASE Kept(p, r)
    <3>1. saves' = sv /\ UNCHANGED <<form, lint, asks>> /\ form.from.rev = r.data.rev
      BY <2>1 DEF Render, Kept
    <3>2. Sound(form.from) /\ WellFormed(form.body)
      BY DEF EditorInv
    <3> QED BY <3>1, <3>2, EditorTypes
  <2>2. CASE ~Kept(p, r)
    <3>1. /\ form' = IF Shows(p, r) THEN [NoForm EXCEPT !.on = TRUE, !.from = r.data, !.body = r.data.body]
                     ELSE NoForm
          /\ saves' = {[s EXCEPT !.mine = FALSE] : s \in sv}
          /\ lint' = [shown |-> {}, armed |-> Shows(p, r)]
          /\ asks' = {}
      BY <2>2 DEF Render
    <3>2. Sound(Missing) /\ Missing \in Resource /\ Blank \in Body /\ WellFormed(Blank)
      BY EditorTypes, MissingSound
    <3>3. r.data \in Resource /\ r.data.body \in Body /\ WellFormed(r.data.body)
      BY DEF Query, Resource, Sound
    <3>4. /\ form' \in Form /\ Sound(form'.from) /\ WellFormed(form'.body)
          /\ form'.on => form'.from.rev = r.data.rev
      BY <3>1, <3>2, <3>3 DEF NoForm, Form
    <3>5. lint' \in Lint
      BY <3>1 DEF Lint, Shows
    <3>6. \A s \in saves' : s \in SaveRequest /\ GoodSave(s)
      <4> SUFFICES ASSUME NEW s \in sv
                   PROVE  [s EXCEPT !.mine = FALSE] \in SaveRequest /\ GoodSave([s EXCEPT !.mine = FALSE])
        BY <3>1
      <4> DEFINE t == [s EXCEPT !.mine = FALSE]
      <4>1. t \in SaveRequest /\ t.from = s.from /\ t.got = s.got /\ t.body = s.body /\ t.base = s.base /\ t.st = s.st
        BY DEF SaveRequest
      <4> HIDE DEF t
      <4>2. GoodSave(t)
        BY <4>1 DEF GoodSave
      <4> QED BY <4>1, <4>2 DEF t
    <3> QED BY <3>1, <3>4, <3>5, <3>6
  <2> QED BY <2>1, <2>2
<1>3. TypeOK'
  BY <1>1, <1>2, EditorTypes DEF TypeOK, Form, Lint, Question
<1>4. \A x : Sound(x)' <=> CopyOf(x, head) /\ WellFormed(x.body)
  BY DEF Sound, CopyOf, WellFormed
<1>5. \A s : GoodSave(s)' <=> GoodSave(s)
  BY DEF GoodSave, Sound, CopyOf, WellFormed
<1>6. Sound(res.data)' /\ Sound(res.got)' /\ Sound(form.from)'
  BY <1>1, <1>2 DEF Sound
<1>7. \A s \in saves' : GoodSave(s)'
  BY <1>2, <1>5
<1>8. WellFormed(head.body)' /\ WellFormed(form.body)' /\ FormOnData'
  BY <1>1, <1>2 DEF EditorInv, FormOnData
<1> QED BY <1>3, <1>6, <1>7, <1>8 DEF EditorInv

\* A step of the tab that leaves the query's data and the form's copy alone.
LEMMA TabKeeps ==
  ASSUME EditorInv, UNCHANGED <<head, page>>,
         res' \in Query, res'.data = res.data, Sound(res'.got),
         form' \in Form, form'.from = form.from, form'.on = form.on, WellFormed(form'.body),
         \A s \in saves' : s \in SaveRequest /\ GoodSave(s),
         removal' \in DeleteRequest, lint' \in Lint, \A a \in asks' : a \in Question,
         count' \in 0..MaxChanges
  PROVE  EditorInv'
<1>1. TypeOK'
  BY EditorTypes DEF TypeOK, Form, Lint, Question
<1>2. \A s : GoodSave(s)' <=> GoodSave(s)
  BY DEF GoodSave, Sound, CopyOf, WellFormed
<1>3. Sound(res.data)' /\ Sound(res.got)' /\ Sound(form.from)'
  BY DEF EditorInv, Sound
<1>4. WellFormed(head.body)' /\ WellFormed(form.body)' /\ FormOnData'
  BY DEF EditorInv, FormOnData
<1> QED BY <1>1, <1>2, <1>3, <1>4 DEF EditorInv

\* A step of the server: copies stay copies.
LEMMA ServerKeeps ==
  ASSUME EditorInv, UNCHANGED <<page, res, form, lint, asks>>,
         head' \in Resource, WellFormed(head'.body),
         \A r \in Resource : CopyOf(r, head) => CopyOf(r, head'),
         \A s \in saves' : s \in SaveRequest /\ GoodSave(s)',
         removal' \in DeleteRequest, count' \in 0..MaxChanges
  PROVE  EditorInv'
<1>1. TypeOK'
  BY EditorTypes DEF TypeOK, Form, Lint, Question
<1>2. \A r \in Resource : Sound(r) => Sound(r)'
  BY DEF Sound
<1>3. res.data \in Resource /\ res.got \in Resource /\ form.from \in Resource
  BY EditorTypes DEF Query, Form
<1>4. Sound(res.data)' /\ Sound(res.got)' /\ Sound(form.from)'
  BY <1>2, <1>3 DEF EditorInv
<1>5. WellFormed(head.body)' /\ WellFormed(form.body)' /\ FormOnData'
  BY DEF EditorInv, FormOnData
<1> QED BY <1>1, <1>4, <1>5 DEF EditorInv

\* A save that goes on after the server's step is as good as it was.
LEMMA SaveStaysGood ==
  ASSUME \A r \in Resource : CopyOf(r, head) => CopyOf(r, head'),
         NEW s \in SaveRequest, GoodSave(s)
  PROVE  GoodSave(s)'
<1>1. s.from \in Resource /\ s.got \in Resource
  BY DEF SaveRequest
<1> QED BY <1>1 DEF GoodSave, Sound

\* What the server has written is newer than every copy.
LEMMA WrittenIsNew ==
  ASSUME EditorInv, NEW b \in Body, WellFormed(b), head' = Written(b)
  PROVE  /\ head' \in Resource /\ WellFormed(head'.body) /\ head'.rev > 0 /\ head'.body = b
         /\ CopyOf(head', head')
         /\ \A r \in Resource : CopyOf(r, head) => CopyOf(r, head') /\ r # head'
<1>1. head \in Resource /\ head.rev \in Nat /\ head.life \in Nat
  BY EditorTypes DEF Resource
<1>2. /\ head' \in Resource /\ head'.rev = head.rev + 1 /\ head'.body = b
      /\ head'.life = IF head.rev = 0 THEN head.life + 1 ELSE head.life
  BY <1>1 DEF Written, Resource
<1>3. ASSUME NEW r \in Resource, CopyOf(r, head) PROVE CopyOf(r, head') /\ r # head'
  <2>1. r.rev \in Nat /\ r.life \in Nat
    BY DEF Resource
  <2> QED BY <1>1, <1>2, <1>3, <2>1 DEF CopyOf
<1>4. CopyOf(head', head')
  BY <1>1, <1>2 DEF CopyOf
<1> QED BY <1>1, <1>2, <1>3, <1>4

\* Nor does a delete make a copy wrong: the revisions of that life are over.
LEMMA DeletedKeepsCopies ==
  ASSUME EditorInv, head' = [head EXCEPT !.rev = 0, !.body = Blank]
  PROVE  /\ head' \in Resource /\ WellFormed(head'.body) /\ head'.rev = 0
         /\ \A r \in Resource : CopyOf(r, head) => CopyOf(r, head')
<1>1. head \in Resource /\ head.rev \in Nat /\ head.life \in Nat
  BY EditorTypes DEF Resource
<1>2. head' \in Resource /\ head'.rev = 0 /\ head'.body = Blank /\ head'.life = head.life
  BY <1>1 DEF Resource, Blank, Body
<1> QED BY <1>1, <1>2 DEF CopyOf, WellFormed, Blank, Resource

-----------------------------------------------------------------------------
(* The actions                                                             *)

\* Following a link, and the answers that make the page render another form.
LEMMA RenderSteps ==
  ASSUME EditorInv,
         \/ Open \/ Leave \/ DeleteAnswered
         \/ \E ok \in BOOLEAN : ResourceArrives(ok)
         \/ \E s \in saves : SaveSucceeds(s)
  PROVE  EditorInv'
<1>1. /\ res \in Query /\ page \in {"draft", "editor"} /\ removal \in DeleteRequest
      /\ Sound(res.data) /\ Sound(res.got)
      /\ \A s \in saves : s \in SaveRequest /\ GoodSave(s)
      /\ Sound(Missing) /\ Missing \in Resource
  BY EditorTypes, MissingSound DEF EditorInv
<1>2. CASE Open
  BY <1>1, <1>2, RenderKeeps DEF Open
<1>3. CASE Leave
  BY <1>1, <1>3, RenderKeeps DEF Leave
<1>4. CASE DeleteAnswered
  <2>1. removal' \in DeleteRequest /\ UNCHANGED <<head, count>>
    BY <1>4 DEF DeleteAnswered, DeleteRequest
  <2>2. PICK p \in {"draft", "editor"} : Render(p, res, saves)
    BY <1>1, <1>4 DEF DeleteAnswered
  <2> QED BY <1>1, <2>1, <2>2, RenderKeeps
<1>5. ASSUME NEW ok \in BOOLEAN, ResourceArrives(ok) PROVE EditorInv'
  <2> DEFINE r == [data |-> IF ok /\ res.got.rev > 0 THEN res.got ELSE res.data,
                   st |-> IF ~ok THEN "error" ELSE IF res.got.rev > 0 THEN "success" ELSE "missing",
                   req |-> "idle", got |-> Missing]
  <2>1. r \in Query /\ Sound(r.data) /\ Sound(r.got)
    BY <1>1 DEF Query
  <2>2. Render(page, r, saves) /\ UNCHANGED <<head, removal, count>>
    BY <1>5 DEF ResourceArrives
  <2> HIDE DEF r
  <2> QED BY <1>1, <2>1, <2>2, RenderKeeps
<1>6. ASSUME NEW s \in saves, SaveSucceeds(s) PROVE EditorInv'
  <2> DEFINE r == [res EXCEPT !.data = s.got, !.st = "success"]
  <2>1. s.got \in Resource /\ Sound(s.got)
    BY <1>1 DEF SaveRequest, GoodSave
  <2>2. r \in Query /\ r.data = s.got /\ r.got = res.got
    BY <1>1, <2>1 DEF Query
  <2>3. Render(page, r, saves \ {s}) /\ UNCHANGED <<head, removal, count>>
    BY <1>6 DEF SaveSucceeds
  <2> HIDE DEF r
  <2> QED BY <1>1, <2>1, <2>2, <2>3, RenderKeeps
<1> QED BY <1>2, <1>3, <1>4, <1>5, <1>6

\* Reads of the resource.
LEMMA QuerySteps ==
  ASSUME EditorInv, FetchResource \/ Reload \/ ServeResource
  PROVE  EditorInv'
<1>1. res \in Query /\ head \in Resource /\ Missing \in Resource
  BY EditorTypes, MissingSound
<1>2. res' \in Query /\ res'.data = res.data /\ res'.got \in {res.got, Missing, head}
  BY <1>1 DEF FetchResource, Reload, ServeResource, Query
<1>3. Sound(head)
  BY <1>1 DEF EditorInv, Sound, CopyOf, Resource
<1>4. Sound(res'.got)
  BY <1>1, <1>2, <1>3, MissingSound DEF EditorInv
<1>5. UNCHANGED <<head, page, form, saves, removal, lint, asks, count>>
  BY DEF FetchResource, Reload, ServeResource
<1>6. WellFormed(form.body) /\ \A s \in saves : GoodSave(s)
  BY DEF EditorInv
<1> QED BY <1>2, <1>4, <1>5, <1>6, EditorTypes, TabKeeps

\* Steps that only change the form, and the questions about its steps.
LEMMA FormKeeps ==
  ASSUME EditorInv, form' \in Form, form'.from = form.from, form'.on = form.on,
         WellFormed(form'.body), lint' \in Lint, \A a \in asks' : a \in Question,
         count' \in 0..MaxChanges, UNCHANGED <<head, page, res, saves, removal>>
  PROVE  EditorInv'
<1>1. Sound(res.got) /\ \A s \in saves : GoodSave(s)
  BY DEF EditorInv
<1> QED BY <1>1, EditorTypes, TabKeeps

\* The questions after the steps have changed to b.
LEMMA EditedQuestions ==
  ASSUME EditorInv, NEW b,
         lint' = [lint EXCEPT !.armed = @ \/ b # form.body],
         asks' = IF b = form.body THEN asks ELSE {[a EXCEPT !.live = FALSE] : a \in asks}
  PROVE  lint' \in Lint /\ \A a \in asks' : a \in Question
<1>1. lint \in Lint /\ \A a \in asks : a \in Question
  BY EditorTypes
<1>2. lint' \in Lint
  BY <1>1 DEF Lint
<1>3. \A a \in asks : [a EXCEPT !.live = FALSE] \in Question
  BY <1>1 DEF Question
<1> QED BY <1>1, <1>2, <1>3

\* An edit leaves the query and the copy the form was opened on alone.
LEMMA EditKeeps ==
  ASSUME EditorInv, NEW b \in Body, WellFormed(b), Edit(b)
  PROVE  EditorInv'
<1>1. lint' \in Lint /\ \A a \in asks' : a \in Question
  BY EditedQuestions DEF Edit
<1>2. form' \in Form /\ form'.from = form.from /\ form'.on = form.on /\ form'.body = b
  BY EditorTypes DEF Edit, Form
<1>3. count' \in 0..MaxChanges
  BY EditorTypes, EditorAssumption DEF Edit
<1> QED BY <1>1, <1>2, <1>3, FormKeeps DEF Edit

\* A new depends_on keeps a body well formed.
LEMMA WithDependsOnFacts ==
  ASSUME NEW b \in Body, WellFormed(b), NEW step \in b.steps, NEW D \in SUBSET Names
  PROVE  /\ withDependsOn(b, step, D) \in Body
         /\ WellFormed(withDependsOn(b, step, D))
         /\ withDependsOn(b, step, D).steps = b.steps
         /\ withDependsOn(b, step, D).refs = b.refs
         /\ withDependsOn(b, step, D).deps = {p \in b.deps : p[1] # step} \cup ({step} \X D)
<1> DEFINE c == withDependsOn(b, step, D)
<1>1. /\ c.steps = b.steps /\ c.refs = b.refs
      /\ c.deps = {p \in b.deps : p[1] # step} \cup ({step} \X D)
      /\ c = [steps |-> c.steps, deps |-> c.deps, refs |-> c.refs]
  BY DEF withDependsOn, Body
<1>2. b.steps \in SUBSET Names /\ b.deps \in SUBSET Pairs /\ b.refs \in SUBSET Pairs
  BY DEF Body
<1> HIDE DEF c
<1>3. c.deps \subseteq b.steps \X Names
  BY <1>1, <1>2 DEF WellFormed
<1>4. c.deps \in SUBSET Pairs
  BY <1>2, <1>3 DEF Pairs
<1>5. c \in Body
  BY <1>1, <1>2, <1>4 DEF Body
<1>6. WellFormed(c)
  BY <1>1, <1>3 DEF WellFormed
<1> QED BY <1>1, <1>5, <1>6 DEF c

\* Every way to change the form.
LEMMA EditingSteps ==
  ASSUME EditorInv, Editing
  PROVE  EditorInv'
<1>1. form \in Form /\ form.body \in Body /\ WellFormed(form.body)
  BY EditorTypes DEF EditorInv, Form
<1>2. ASSUME NEW step \in Names, NEW dep \in Names, Connect(step, dep) PROVE EditorInv'
  <2> DEFINE E == {d \in Names : <<step, d>> \in form.body.deps} \cup {dep}
  <2>1. step \in form.body.steps /\ E \in SUBSET Names /\ Edit(withDependsOn(form.body, step, E))
    BY <1>2 DEF Connect
  <2> HIDE DEF E
  <2> QED BY <1>1, <2>1, WithDependsOnFacts, EditKeeps
<1>3. ASSUME NEW pair \in Pairs, Disconnect(pair) PROVE EditorInv'
  <2> DEFINE E == {d \in Names \ {pair[2]} : <<pair[1], d>> \in form.body.deps}
  <2>1. E \in SUBSET Names /\ Edit(withDependsOn(form.body, pair[1], E))
    BY <1>3 DEF Disconnect
  <2>2. pair[1] \in form.body.steps
    BY <1>1, <1>3 DEF Disconnect, stepEdges, WellFormed
  <2> HIDE DEF E
  <2> QED BY <1>1, <2>1, <2>2, WithDependsOnFacts, EditKeeps
<1>4. ASSUME NEW f \in Fields, SetDependsOn(f[1], f[2]) PROVE EditorInv'
  <2>1. f[2] \in SUBSET Names
    BY EditorAssumption
  <2> QED BY <1>1, <1>4, <2>1, WithDependsOnFacts, EditKeeps DEF SetDependsOn
<1>5. ASSUME NEW f \in Fields, SetTemplates(f[1], f[2]) PROVE EditorInv'
  <2> DEFINE b == form.body
             c == [b EXCEPT !.refs = {p \in @ : p[1] # f[1]} \cup ({f[1]} \X f[2])]
  <2>1. f[1] \in b.steps /\ f[2] \subseteq b.steps /\ Edit(c)
    BY <1>5 DEF SetTemplates
  <2>2. b.steps \in SUBSET Names /\ b.deps \in SUBSET Pairs /\ b.refs \in SUBSET Pairs
    BY <1>1 DEF Body
  <2>3. /\ c.steps = b.steps /\ c.deps = b.deps
        /\ c.refs = {p \in b.refs : p[1] # f[1]} \cup ({f[1]} \X f[2])
        /\ c = [steps |-> c.steps, deps |-> c.deps, refs |-> c.refs]
    BY <1>1 DEF Body
  <2> HIDE DEF c
  <2>4. c.refs \subseteq b.steps \X b.steps
    BY <1>1, <2>1, <2>3 DEF WellFormed
  <2>5. c.refs \in SUBSET Pairs
    BY <2>2, <2>4 DEF Pairs
  <2>6. c \in Body /\ WellFormed(c)
    BY <1>1, <2>2, <2>3, <2>4, <2>5 DEF Body, WellFormed
  <2> QED BY <2>1, <2>6, EditKeeps
<1>6. ASSUME NEW b \in Bodies, TypeYaml(b) PROVE EditorInv'
  <2>1. b \in Body /\ WellFormed(b)
    BY EditorAssumption DEF WellFormed
  <2>2. lint' \in Lint /\ \A a \in asks' : a \in Question
    BY <1>6, EditedQuestions DEF TypeYaml
  <2>3. form' \in Form /\ form'.from = form.from /\ form'.on = form.on /\ form'.body = b
    BY <1>1, <1>6, <2>1 DEF TypeYaml, Form
  <2>4. count' \in 0..MaxChanges
    BY <1>6, EditorTypes, EditorAssumption DEF TypeYaml
  <2> QED BY <1>6, <2>1, <2>2, <2>3, <2>4, FormKeeps DEF TypeYaml
<1>7. CASE BreakYaml \/ SwitchView
  <2>1. form' \in Form /\ form'.from = form.from /\ form'.on = form.on /\ form'.body = form.body
    BY <1>1, <1>7 DEF BreakYaml, SwitchView, Form
  <2>2. UNCHANGED <<head, page, res, saves, removal, lint, asks, count>>
    BY <1>7 DEF BreakYaml, SwitchView
  <2> QED BY <1>1, <2>1, <2>2, EditorTypes, FormKeeps
<1> QED BY <1>2, <1>3, <1>4, <1>5, <1>6, <1>7 DEF Editing

\* The timer of the references, its questions and their answers.
LEMMA QuestionSteps ==
  ASSUME EditorInv, Ask \/ \E a \in asks, ok \in BOOLEAN : AskAnswered(a, ok)
  PROVE  EditorInv'
<1>1. /\ form \in Form /\ form.body \in Body /\ WellFormed(form.body)
      /\ lint \in Lint /\ (\A a \in asks : a \in Question) /\ count \in 0..MaxChanges
  BY EditorTypes DEF EditorInv, Form
<1>2. CASE Ask
  <2>1. lint' \in Lint
    BY <1>1, <1>2 DEF Ask, Lint
  <2>2. [of |-> form.body, live |-> TRUE] \in Question
    BY <1>1 DEF Question
  <2>3. \A a \in asks' : a \in Question
    BY <1>1, <1>2, <2>2 DEF Ask
  <2> QED BY <1>1, <1>2, <2>1, <2>3, FormKeeps DEF Ask
<1>3. ASSUME NEW a \in asks, NEW ok \in BOOLEAN, AskAnswered(a, ok) PROVE EditorInv'
  <2>1. a.of.refs \in SUBSET Pairs /\ lint.shown \in SUBSET Pairs
    BY <1>1 DEF Question, Body, Lint
  <2>2. Answered(a, ok) \in SUBSET Pairs
    BY <2>1 DEF Answered, Inferred
  <2>3. lint' \in Lint /\ \A x \in asks' : x \in Question
    BY <1>1, <1>3, <2>2 DEF AskAnswered, Lint
  <2> QED BY <1>1, <1>3, <2>3, FormKeeps DEF AskAnswered
<1> QED BY <1>2, <1>3

\* Save, its failure, and the delete dialog.
LEMMA RequestSteps ==
  ASSUME EditorInv,
         \/ Save \/ \E s \in saves : SaveFails(s)
         \/ OpenDelete \/ CancelDelete \/ ConfirmDelete
  PROVE  EditorInv'
<1>1. /\ res \in Query /\ res.data.rev \in Nat /\ form \in Form /\ form.body \in Body
      /\ WellFormed(form.body) /\ Sound(form.from) /\ form.from \in Resource /\ Sound(res.got)
      /\ \A s \in saves : s \in SaveRequest /\ GoodSave(s)
  BY EditorTypes DEF EditorInv, Form, Query, Resource
<1>2. CASE Save
  <2> DEFINE s == [base |-> res.data.rev, body |-> form.body, from |-> form.from,
                   mine |-> TRUE, st |-> "sent", got |-> Missing]
  <2>1. s \in SaveRequest
    BY <1>1, EditorTypes, MissingSound DEF SaveRequest
  <2>2. res.data.rev = form.from.rev
    BY <1>2 DEF Save, EditorInv, FormOnData
  <2>3. GoodSave(s)
    BY <1>1, <2>2, EditorTypes, MissingSound DEF GoodSave
  <2>4. saves' = saves \cup {s}
    BY <1>2 DEF Save
  <2>5. form' \in Form /\ form'.from = form.from /\ form'.on = form.on /\ form'.body = form.body
    BY <1>1, <1>2 DEF Save, Form
  <2>6. count' \in 0..MaxChanges
    BY <1>2, EditorTypes, EditorAssumption DEF Save
  <2>7. UNCHANGED <<head, page, res, removal, lint, asks>>
    BY <1>2 DEF Save
  <2> HIDE DEF s
  <2>8. \A x \in saves' : x \in SaveRequest /\ GoodSave(x)
    BY <1>1, <2>1, <2>3, <2>4
  <2> QED BY <1>1, <2>5, <2>6, <2>7, <2>8, EditorTypes, TabKeeps
<1>3. ASSUME NEW s \in saves, SaveFails(s) PROVE EditorInv'
  <2>1. form' \in Form /\ form'.from = form.from /\ form'.on = form.on /\ form'.body = form.body
    BY <1>1, <1>3 DEF SaveFails, Form
  <2>2. \A x \in saves' : x \in SaveRequest /\ GoodSave(x)
    BY <1>1, <1>3 DEF SaveFails
  <2>3. UNCHANGED <<head, page, res, removal, lint, asks, count>>
    BY <1>3 DEF SaveFails
  <2> QED BY <1>1, <2>1, <2>2, <2>3, EditorTypes, TabKeeps
<1>4. CASE OpenDelete \/ CancelDelete
  <2>1. form' \in Form /\ form'.from = form.from /\ form'.on = form.on /\ form'.body = form.body
    BY <1>1, <1>4 DEF OpenDelete, CancelDelete, Form
  <2>2. UNCHANGED <<head, page, res, saves, removal, lint, asks, count>>
    BY <1>4 DEF OpenDelete, CancelDelete
  <2> QED BY <1>1, <2>1, <2>2, EditorTypes, FormKeeps
<1>5. CASE ConfirmDelete
  <2>1. removal' \in DeleteRequest
    BY <1>1, <1>5 DEF ConfirmDelete, DeleteRequest
  <2>2. count' \in 0..MaxChanges
    BY <1>5, EditorTypes, EditorAssumption DEF ConfirmDelete
  <2>3. UNCHANGED <<head, page, res, form, saves, lint, asks>>
    BY <1>5 DEF ConfirmDelete
  <2> QED BY <1>1, <2>1, <2>2, <2>3, EditorTypes, TabKeeps
<1> QED BY <1>2, <1>3, <1>4, <1>5

\* The server applies or refuses what the tabs ask for.
LEMMA ServerSteps ==
  ASSUME EditorInv,
         \/ \E s \in saves, ok \in BOOLEAN : ServeSave(s, ok)
         \/ ServeDelete \/ OthersDelete \/ \E b \in Bodies : OthersSave(b)
  PROVE  EditorInv'
<1>1. /\ head \in Resource /\ WellFormed(head.body) /\ removal \in DeleteRequest
      /\ count \in 0..MaxChanges /\ \A s \in saves : s \in SaveRequest /\ GoodSave(s)
  BY EditorTypes DEF EditorInv
<1>2. ASSUME NEW s \in saves, NEW ok \in BOOLEAN, ServeSave(s, ok) PROVE EditorInv'
  <2>1. PICK t : t = [s EXCEPT !.st = IF ~ok THEN "failed" ELSE IF Accepts(s) THEN "ok" ELSE "conflict",
                               !.got = IF ok /\ Accepts(s) THEN Written(s.body) ELSE Missing]
    OBVIOUS
  <2>2. s \in SaveRequest /\ s.body \in Body /\ WellFormed(s.body) /\ GoodSave(s)
    BY <1>1 DEF SaveRequest, GoodSave
  <2>3. saves' = (saves \ {s}) \cup {t} /\ UNCHANGED <<page, res, form, removal, lint, asks, count>>
    BY <1>2, <2>1 DEF ServeSave
  <2>4. CASE ok /\ Accepts(s)
    <3>1. head' = Written(s.body)
      BY <1>2, <2>4 DEF ServeSave
    <3>2. /\ head' \in Resource /\ WellFormed(head'.body) /\ head'.rev > 0 /\ CopyOf(head', head')
          /\ \A r \in Resource : CopyOf(r, head) => CopyOf(r, head')
      BY <2>2, <3>1, WrittenIsNew
    <3>3. /\ t \in SaveRequest /\ t.from = s.from /\ t.base = s.base /\ t.body = s.body
          /\ t.got = head' /\ t.st = "ok"
      BY <2>1, <2>2, <2>4, <3>1, <3>2 DEF SaveRequest
    <3>4. GoodSave(s)'
      BY <2>2, <3>2, SaveStaysGood
    <3>5. GoodSave(t)'
      BY <3>2, <3>3, <3>4 DEF GoodSave, Sound
    <3>6. \A x \in saves' : x \in SaveRequest /\ GoodSave(x)'
      BY <1>1, <2>3, <3>2, <3>3, <3>5, SaveStaysGood
    <3> QED BY <1>1, <2>3, <3>2, <3>6, ServerKeeps
  <2>5. CASE ~(ok /\ Accepts(s))
    <3>1. head' = head /\ \A r \in Resource : CopyOf(r, head) => CopyOf(r, head')
      BY <1>2, <2>5 DEF ServeSave
    <3>2. /\ t \in SaveRequest /\ t.from = s.from /\ t.base = s.base /\ t.body = s.body
          /\ t.got = Missing /\ t.st # "ok"
      BY <1>1, <2>1, <2>2, <2>5, MissingSound DEF SaveRequest
    <3>3. GoodSave(t)
      BY <1>1, <2>2, <3>2, MissingSound DEF GoodSave
    <3>4. \A x \in saves' : x \in SaveRequest /\ GoodSave(x)'
      BY <1>1, <2>3, <3>1, <3>2, <3>3, SaveStaysGood
    <3> QED BY <1>1, <2>3, <3>1, <3>4, ServerKeeps
  <2> QED BY <2>4, <2>5
<1>3. ASSUME head' = [head EXCEPT !.rev = 0, !.body = Blank], removal' \in DeleteRequest,
             count' \in 0..MaxChanges, UNCHANGED <<page, res, form, saves, lint, asks>>
      PROVE  EditorInv'
  <2>1. /\ head' \in Resource /\ WellFormed(head'.body)
        /\ \A r \in Resource : CopyOf(r, head) => CopyOf(r, head')
    BY <1>3, DeletedKeepsCopies
  <2> QED BY <1>1, <1>3, <2>1, SaveStaysGood, ServerKeeps
<1>4. CASE ServeDelete
  <2>1. removal' \in DeleteRequest /\ UNCHANGED <<page, res, form, saves, lint, asks, count>>
    BY <1>1, <1>4 DEF ServeDelete, DeleteRequest
  <2>2. CASE removal.base = head.rev
    BY <1>1, <1>3, <1>4, <2>1, <2>2 DEF ServeDelete
  <2>3. CASE removal.base # head.rev
    <3>1. head' = head /\ \A r \in Resource : CopyOf(r, head) => CopyOf(r, head')
      BY <1>4, <2>3 DEF ServeDelete
    <3> QED BY <1>1, <2>1, <3>1, SaveStaysGood, ServerKeeps
  <2> QED BY <2>2, <2>3
<1>5. CASE OthersDelete
  <2>1. count' \in 0..MaxChanges
    BY <1>1, <1>5, EditorAssumption DEF OthersDelete
  <2> QED BY <1>1, <1>3, <1>5, <2>1 DEF OthersDelete
<1>6. ASSUME NEW b \in Bodies, OthersSave(b) PROVE EditorInv'
  <2>1. b \in Body /\ WellFormed(b)
    BY EditorAssumption DEF WellFormed
  <2>2. /\ head' \in Resource /\ WellFormed(head'.body)
        /\ \A r \in Resource : CopyOf(r, head) => CopyOf(r, head')
    BY <1>6, <2>1, WrittenIsNew DEF OthersSave
  <2>3. count' \in 0..MaxChanges
    BY <1>1, <1>6, EditorAssumption DEF OthersSave
  <2>4. UNCHANGED <<page, res, form, saves, removal, lint, asks>>
    BY <1>6 DEF OthersSave
  <2> QED BY <1>1, <2>2, <2>3, <2>4, SaveStaysGood, ServerKeeps
<1> QED BY <1>2, <1>4, <1>5, <1>6

\* Every step keeps the invariant.
LEMMA EditorStep == EditorInv /\ [Next]_vars => EditorInv'
<1> SUFFICES ASSUME EditorInv, [Next]_vars PROVE EditorInv'
  OBVIOUS
<1>1. CASE UNCHANGED vars
  <2>1. UNCHANGED <<head, page, res, form, saves, removal, lint, asks, count>>
    BY <1>1 DEF vars
  <2>2. WellFormed(form.body)
    BY DEF EditorInv
  <2> QED BY <2>1, <2>2, EditorTypes, FormKeeps
<1>2. CASE Next
  BY <1>2, RenderSteps, QuerySteps, EditingSteps, QuestionSteps, RequestSteps, ServerSteps DEF Next
<1> QED BY <1>1, <1>2

\* The invariant holds of every behaviour.
LEMMA EditorCorrect == Spec => []EditorInv
  BY EditorInit, EditorStep, PTL DEF Spec

-----------------------------------------------------------------------------
(* No save overwrites what its user did not see                            *)

\* Only the server's steps change the resource.
LEMMA HeadChanges ==
  ASSUME Next, head' # head
  PROVE  \/ \E t \in saves : /\ Accepts(t) /\ head' = Written(t.body)
                             /\ saves' = (saves \ {t}) \cup {[t EXCEPT !.st = "ok", !.got = head']}
         \/ saves' = saves /\ head' = [head EXCEPT !.rev = 0, !.body = Blank]
         \/ saves' = saves /\ \E b \in Bodies : head' = Written(b)
<1>1. ASSUME NEW t \in saves, NEW ok \in BOOLEAN, ServeSave(t, ok)
      PROVE  /\ Accepts(t) /\ head' = Written(t.body)
             /\ saves' = (saves \ {t}) \cup {[t EXCEPT !.st = "ok", !.got = head']}
  <2>1. ok /\ Accepts(t)
    BY <1>1 DEF ServeSave
  <2> QED BY <1>1, <2>1 DEF ServeSave
<1>2. CASE ServeDelete
  BY <1>2 DEF ServeDelete
<1>3. CASE OthersDelete
  BY <1>3 DEF OthersDelete
<1>4. ASSUME NEW b \in Bodies, OthersSave(b)
      PROVE  saves' = saves /\ head' = Written(b)
  BY <1>4 DEF OthersSave
<1>5. /\ ~Open /\ ~Leave /\ ~FetchResource /\ ~Reload /\ ~ServeResource /\ ~Ask /\ ~Save
      /\ ~OpenDelete /\ ~CancelDelete /\ ~ConfirmDelete /\ ~DeleteAnswered
  BY DEF Open, Leave, FetchResource, Reload, ServeResource, Ask, Save, OpenDelete, CancelDelete,
         ConfirmDelete, DeleteAnswered
<1>6. /\ \A ok \in BOOLEAN : ~ResourceArrives(ok)
      /\ \A a \in asks, ok \in BOOLEAN : ~AskAnswered(a, ok)
      /\ \A s \in saves : ~SaveSucceeds(s) /\ ~SaveFails(s)
  BY DEF ResourceArrives, AskAnswered, SaveSucceeds, SaveFails
<1>7. ~Editing
  BY DEF Editing, Connect, Disconnect, SetDependsOn, SetTemplates, Edit, TypeYaml, BreakYaml, SwitchView
<1> QED BY <1>1, <1>2, <1>3, <1>4, <1>5, <1>6, <1>7 DEF Next

\* A save that the server applies was opened on the body it replaces, as long as the
\* resource was not deleted and created again since.
THEOREM EditorNoBlindOverwrite == Spec => NoBlindOverwrite
<1> DEFINE Seen == \A s \in saves :
              s.st = "sent" /\ head' # head /\ [s EXCEPT !.st = "ok", !.got = head'] \in saves'
                            /\ s.from.life = head.life /\ s.from.rev > 0
                => s.from.body = head.body
<1>1. ASSUME EditorInv, Next PROVE Seen
  <2> SUFFICES ASSUME NEW s \in saves, head' # head,
                      [s EXCEPT !.st = "ok", !.got = head'] \in saves',
                      s.from.life = head.life, s.from.rev > 0
               PROVE  s.from.body = head.body
    OBVIOUS
  <2>1. s \in SaveRequest /\ GoodSave(s) /\ (\A t \in saves : t \in SaveRequest /\ GoodSave(t)) /\ head \in Resource
    BY <1>1, EditorTypes DEF EditorInv
  <2>2. PICK u : u = [s EXCEPT !.st = "ok", !.got = head']
    OBVIOUS
  <2>3. u \in saves' /\ u.base = s.base /\ u.st = "ok" /\ u.got = head'
    BY <2>1, <2>2 DEF SaveRequest
  <2>4. ASSUME NEW b \in Body, WellFormed(b), head' = Written(b) PROVE u \notin saves
    <3> SUFFICES ASSUME u \in saves PROVE FALSE
      OBVIOUS
    <3>1. u.got \in Resource /\ CopyOf(u.got, head)
      BY <2>1 DEF SaveRequest, GoodSave, Sound
    <3> QED BY <1>1, <2>3, <2>4, <3>1, WrittenIsNew
  <2>5. CASE saves' = saves /\ head' = [head EXCEPT !.rev = 0, !.body = Blank]
    <3>1. head'.rev = 0
      BY <2>1, <2>5 DEF Resource
    <3>2. u.got.rev > 0
      BY <2>1, <2>3, <2>5 DEF GoodSave
    <3> QED BY <2>3, <3>1, <3>2
  <2>6. ASSUME saves' = saves, NEW b \in Bodies, head' = Written(b) PROVE FALSE
    BY <2>3, <2>4, <2>6, EditorAssumption DEF WellFormed
  <2>7. ASSUME NEW t \in saves, Accepts(t), head' = Written(t.body),
               saves' = (saves \ {t}) \cup {[t EXCEPT !.st = "ok", !.got = head']}
        PROVE  s.from.body = head.body
    <3>1. t.body \in Body /\ WellFormed(t.body) /\ t \in SaveRequest
      BY <2>1 DEF SaveRequest, GoodSave
    <3>2. u = [t EXCEPT !.st = "ok", !.got = head']
      BY <2>3, <2>4, <2>7, <3>1
    <3>3. u.base = t.base
      BY <3>1, <3>2 DEF SaveRequest
    <3>4. s.base = head.rev /\ s.base = s.from.rev /\ CopyOf(s.from, head)
      BY <2>1, <2>3, <2>7, <3>3 DEF Accepts, GoodSave, Sound
    <3> QED BY <2>1, <3>4 DEF CopyOf, Resource
  <2> QED BY <1>1, <2>5, <2>6, <2>7, HeadChanges
<1>2. EditorInv /\ [Next]_vars => [Seen]_vars
  BY <1>1
<1> QED BY <1>2, EditorCorrect, PTL DEF Spec, NoBlindOverwrite

-----------------------------------------------------------------------------
(* The step graph                                                          *)

\* An edge that connect draws makes no cycle.
LEMMA ConnectAcyclic ==
  ASSUME EditorInv, lint.shown = Inferred(form.body),
         IsAcyclic(form.body.deps \cup form.body.refs),
         NEW step \in Names, NEW dep \in Names, Connect(step, dep)
  PROVE  IsAcyclic(form'.body.deps \cup form'.body.refs)
<1> DEFINE b == form.body
           E == b.deps \cup b.refs
           D == runtime(b, Inferred(b))
           N == {d \in Names : <<step, d>> \in b.deps} \cup {dep}
<1>1. form \in Form /\ b \in Body /\ WellFormed(b) /\ IsFiniteSet(Names)
  BY EditorTypes, EditorAssumption DEF EditorInv, Form
<1>2. b.steps \in SUBSET Names /\ b.deps \in SUBSET Pairs /\ b.refs \in SUBSET Pairs
  BY <1>1 DEF Body
<1>3. /\ step \in b.steps /\ dep \in b.steps /\ ~dependsOnTransitively(D, dep, step)
      /\ Edit(withDependsOn(b, step, N))
  BY DEF Connect
<1>4. PICK R \in SUBSET Names : dep \in R /\ step \notin R /\ Successors(D, R) \subseteq R
  BY <1>1, <1>3, NotReached
<1> DEFINE Q == R \cup (Names \ b.steps)
<1>5. \A a \in Names : <<a, a>> \notin E
  <2>1. PICK rank \in [Names -> 1..Cardinality(Names)] : \A p \in E : rank[p[2]] < rank[p[1]]
    BY DEF IsAcyclic
  <2>2. \A a \in Names : rank[a] \in Nat
    BY <1>1, <2>1, FS_CardinalityType
  <2> QED BY <2>1, <2>2
<1>6. ASSUME NEW a \in b.steps, NEW x \in b.steps, <<a, x>> \in E PROVE <<a, x>> \in D
  <2>1. a # x
    BY <1>2, <1>5, <1>6
  <2> QED BY <1>6, <2>1 DEF runtime, stepEdges, inferredFor, Inferred
<1>7. Successors(E, Q) \subseteq Q
  <2> SUFFICES ASSUME NEW x \in Names, NEW a \in Q, <<a, x>> \in E PROVE x \in Q
    BY DEF Successors
  <2>1. a \in b.steps
    BY <1>1 DEF WellFormed
  <2>2. CASE x \in b.steps
    BY <1>4, <1>6, <2>1, <2>2 DEF Successors
  <2>3. CASE x \notin b.steps
    BY <2>3
  <2> QED BY <2>2, <2>3
<1>8. E \in SUBSET Pairs /\ Q \in SUBSET Names /\ dep \in Q /\ step \notin Q
  BY <1>2, <1>3, <1>4
<1>9. IsAcyclic(E)
  OBVIOUS
<1> HIDE DEF E, Q
<1>10. IsAcyclic(E \cup {<<step, dep>>})
  BY <1>1, <1>7, <1>8, <1>9, NewEdgeAcyclic
<1>11. N \in SUBSET Names
  OBVIOUS
<1>12. form'.body = withDependsOn(b, step, N)
  BY <1>1, <1>3 DEF Edit, Form
<1>13. /\ form'.body.refs = b.refs
       /\ form'.body.deps = {p \in b.deps : p[1] # step} \cup ({step} \X N)
  <2> HIDE DEF N
  <2>1. /\ withDependsOn(b, step, N).refs = b.refs
        /\ withDependsOn(b, step, N).deps = {p \in b.deps : p[1] # step} \cup ({step} \X N)
    BY <1>1, <1>3, <1>11, WithDependsOnFacts
  <2> QED BY <1>12, <2>1, Zenon
<1>14. {p \in b.deps : p[1] # step} \cup ({step} \X N) = b.deps \cup {<<step, dep>>}
  <2>1. \A p \in b.deps : p[2] \in Names /\ p = <<p[1], p[2]>>
    BY <1>2 DEF Pairs
  <2>2. \A p \in b.deps : p[1] = step => p \in {step} \X N
    BY <2>1
  <2>3. \A p \in {step} \X N : p \in b.deps \cup {<<step, dep>>}
    OBVIOUS
  <2>4. <<step, dep>> \in {step} \X N
    OBVIOUS
  <2> QED BY <2>2, <2>3, <2>4
<1>15. form'.body.deps \cup form'.body.refs = E \cup {<<step, dep>>}
  BY <1>13, <1>14 DEF E
<1> QED BY <1>10, <1>15

\* Once the references shown are those of the steps, drawing an edge in the step graph
\* never makes a cycle, whatever names depends_on holds.
THEOREM EditorDrawsNoCycle == Spec => DrawsNoCycle
<1> DEFINE Draws == form.on /\ lint.shown = Inferred(form.body)
                      /\ IsAcyclic(form.body.deps \cup form.body.refs)
                      /\ (\E step, dep \in Names : Connect(step, dep))
                    => IsAcyclic(form'.body.deps \cup form'.body.refs)
<1>1. EditorInv /\ [Next]_vars => [Draws]_vars
  BY ConnectAcyclic
<1> QED BY <1>1, EditorCorrect, PTL DEF Spec, DrawsNoCycle

\* For every set of steps and every mixture of edges, the column of a step is the length
\* of the longest chain of dependencies behind it, and what waits for a cycle is last.
THEOREM EditorWavesShowExecution == Spec => []WavesShowExecution
<1>1. EditorInv => WavesShowExecution
  <2> SUFFICES ASSUME EditorInv PROVE WavesShowExecution
    OBVIOUS
  <2> DEFINE b == form.body
             D == runtime(b, lint.shown)
             W == computeWaves(b.steps, D)
  <2>1. b.steps \in SUBSET Names
    BY EditorTypes DEF Form, Body
  <2>2. IsFiniteSet(b.steps)
    BY <2>1, EditorAssumption, FS_Subset
  <2>3. Layered(b.steps, D, W)
    BY <2>2, ComputeWavesLayered
  <2> QED BY <2>3, Zenon DEF WavesShowExecution, Layered, Stuck
<1> QED BY <1>1, EditorCorrect, PTL

-----------------------------------------------------------------------------
(* The references that are shown                                           *)

\* References shown for other steps than those on the page are about to be replaced:
\* the timer runs, or a question about the steps on the page is under way.  This is
\* what LintCatchesUp rests on; that the timer fires and the answer comes is fairness.
CorrectionOnTheWay ==
  form.on => \/ lint.shown \in {{}, Inferred(form.body)}
             \/ lint.armed
             \/ \E a \in asks : a.live /\ a.of = form.body

\* Live questions are about the steps on the page, and nothing is asked without a form.
QuestionsCurrent ==
  /\ lint.armed => form.on
  /\ \A a \in asks : a.live => form.on /\ a.of = form.body

\* Both, which is inductive.
LintInv == CorrectionOnTheWay /\ QuestionsCurrent

\* A step that leaves the form, the references and the questions alone.
LEMMA LintUnchanged ==
  ASSUME LintInv, form'.on = form.on, form'.body = form.body, UNCHANGED <<lint, asks>>
  PROVE  LintInv'
  BY DEF LintInv, CorrectionOnTheWay, QuestionsCurrent

\* A page rendered anew asks about its own steps.
LEMMA RenderLint ==
  ASSUME LintInv, NEW p, NEW r, NEW sv, Render(p, r, sv)
  PROVE  LintInv'
<1>1. CASE Kept(p, r)
  BY <1>1, LintUnchanged DEF Render
<1>2. CASE ~Kept(p, r)
  <2>1. asks' = {} /\ lint' = [shown |-> {}, armed |-> Shows(p, r)]
    BY <1>2 DEF Render
  <2>2. lint'.shown = {} /\ (lint'.armed => Shows(p, r))
    BY <2>1
  <2>3. Shows(p, r) => form'.on
    BY <1>2 DEF Render, NoForm
  <2> QED BY <2>1, <2>2, <2>3 DEF LintInv, CorrectionOnTheWay, QuestionsCurrent
<1> QED BY <1>1, <1>2

\* An edit of the steps starts the timer, and leaves no question about them alive.
LEMMA EditLint ==
  ASSUME EditorInv, LintInv, NEW b, form.on, form'.on = form.on, form'.body = b,
         lint' = [lint EXCEPT !.armed = @ \/ b # form.body],
         asks' = IF b = form.body THEN asks ELSE {[a EXCEPT !.live = FALSE] : a \in asks}
  PROVE  LintInv'
<1>1. lint \in Lint /\ \A a \in asks : a \in Question
  BY EditorTypes
<1>2. lint'.shown = lint.shown /\ lint'.armed = (lint.armed \/ b # form.body)
  BY <1>1 DEF Lint
<1>3. CASE b = form.body
  BY <1>2, <1>3 DEF LintInv, CorrectionOnTheWay, QuestionsCurrent
<1>4. CASE b # form.body
  <2>1. lint'.armed
    BY <1>2, <1>4
  <2>2. \A a \in asks : [a EXCEPT !.live = FALSE].live = FALSE
    BY <1>1 DEF Question
  <2>3. \A a \in asks' : a.live = FALSE
    BY <1>4, <2>2
  <2> QED BY <2>1, <2>3 DEF LintInv, CorrectionOnTheWay, QuestionsCurrent
<1> QED BY <1>3, <1>4

\* The timer asks, and an answer that is alive is of the steps on the page.
LEMMA QuestionLint ==
  ASSUME EditorInv, LintInv, Ask \/ \E a \in asks, ok \in BOOLEAN : AskAnswered(a, ok)
  PROVE  LintInv'
<1>1. lint \in Lint
  BY EditorTypes
<1>2. CASE Ask
  <2>1. /\ lint.armed /\ form.on /\ form' = form
        /\ lint' = [lint EXCEPT !.armed = FALSE]
        /\ asks' = asks \cup {[of |-> form.body, live |-> TRUE]}
    BY <1>2 DEF Ask, LintInv, QuestionsCurrent
  <2>2. lint'.armed = FALSE
    BY <1>1, <2>1 DEF Lint
  <2>3. \E a \in asks' : a.live /\ a.of = form'.body
    <3>1. PICK q : q = [of |-> form.body, live |-> TRUE]
      OBVIOUS
    <3>2. q.live /\ q.of = form'.body
      BY <2>1, <3>1
    <3> QED BY <2>1, <3>1, <3>2
  <2>4. \A a \in asks' : a.live => form'.on /\ a.of = form'.body
    BY <2>1 DEF LintInv, QuestionsCurrent
  <2> QED BY <2>2, <2>3, <2>4 DEF LintInv, CorrectionOnTheWay, QuestionsCurrent
<1>3. ASSUME NEW a \in asks, NEW ok \in BOOLEAN, AskAnswered(a, ok) PROVE LintInv'
  <2>1. form' = form /\ asks' = asks \ {a} /\ lint'.shown = Answered(a, ok) /\ lint'.armed = lint.armed
    BY <1>1, <1>3 DEF AskAnswered, Lint
  <2>2. QuestionsCurrent'
    BY <2>1 DEF LintInv, QuestionsCurrent
  <2>3. CASE a.live
    <3>1. lint'.shown \in {{}, Inferred(form.body)}
      BY <2>1, <2>3 DEF Answered, LintInv, QuestionsCurrent
    <3> QED BY <2>1, <2>2, <3>1 DEF LintInv, CorrectionOnTheWay
  <2>4. CASE ~a.live
    <3>1. lint'.shown = lint.shown
      BY <2>1, <2>4 DEF Answered
    <3>2. \A c \in asks : c.live => c \in asks'
      BY <2>1, <2>4
    <3> QED BY <2>1, <2>2, <3>1, <3>2 DEF LintInv, CorrectionOnTheWay
  <2> QED BY <2>3, <2>4
<1> QED BY <1>2, <1>3

\* Every step keeps a correction on its way.
LEMMA LintStep == EditorInv /\ LintInv /\ [Next]_vars => LintInv'
<1> SUFFICES ASSUME EditorInv, LintInv, [Next]_vars PROVE LintInv'
  OBVIOUS
<1>1. form \in Form
  BY EditorTypes
<1>2. CASE UNCHANGED vars
  BY <1>2, LintUnchanged DEF vars
<1>3. CASE Open \/ Leave \/ DeleteAnswered
  BY <1>3, RenderLint DEF Open, Leave, DeleteAnswered
<1>4. ASSUME NEW ok \in BOOLEAN, ResourceArrives(ok) PROVE LintInv'
  BY <1>4, RenderLint DEF ResourceArrives
<1>5. ASSUME NEW s \in saves, SaveSucceeds(s) PROVE LintInv'
  BY <1>5, RenderLint DEF SaveSucceeds
<1>6. ASSUME NEW b, Edit(b) PROVE LintInv'
  <2>1. form.on /\ form'.on = form.on /\ form'.body = b
    BY <1>1, <1>6 DEF Edit, Form
  <2> QED BY <1>6, <2>1, EditLint DEF Edit
<1>7. ASSUME NEW b, TypeYaml(b) PROVE LintInv'
  <2>1. form.on /\ form'.on = form.on /\ form'.body = b
    BY <1>1, <1>7 DEF TypeYaml, Form
  <2> QED BY <1>7, <2>1, EditLint DEF TypeYaml
<1>8. CASE BreakYaml \/ SwitchView \/ OpenDelete \/ CancelDelete \/ Save
  <2>1. form'.on = form.on /\ form'.body = form.body /\ UNCHANGED <<lint, asks>>
    BY <1>1, <1>8 DEF BreakYaml, SwitchView, OpenDelete, CancelDelete, Save, Form
  <2> QED BY <2>1, LintUnchanged
<1>9. CASE FetchResource \/ Reload \/ ServeResource \/ ConfirmDelete \/ ServeDelete \/ OthersDelete
  BY <1>9, LintUnchanged DEF FetchResource, Reload, ServeResource, ConfirmDelete, ServeDelete,
     OthersDelete
<1>10. ASSUME NEW s \in saves, SaveFails(s) PROVE LintInv'
  <2>1. form'.on = form.on /\ form'.body = form.body /\ UNCHANGED <<lint, asks>>
    BY <1>1, <1>10 DEF SaveFails, Form
  <2> QED BY <2>1, LintUnchanged
<1>11. ASSUME NEW s \in saves, NEW ok \in BOOLEAN, ServeSave(s, ok) PROVE LintInv'
  BY <1>11, LintUnchanged DEF ServeSave
<1>12. ASSUME NEW b \in Bodies, OthersSave(b) PROVE LintInv'
  BY <1>12, LintUnchanged DEF OthersSave
<1>13. CASE Editing
  BY <1>6, <1>7, <1>8, <1>13 DEF Editing, Connect, Disconnect, SetDependsOn, SetTemplates
<1> QED
  BY <1>2, <1>3, <1>4, <1>5, <1>8, <1>9, <1>10, <1>11, <1>12, <1>13, QuestionLint DEF Next

\* References that are not those of the steps on the page are never left standing: their
\* correction is always on the way, whichever answers are late or lost.
THEOREM EditorCorrectionOnTheWay == Spec => []CorrectionOnTheWay
<1>1. Init => LintInv
  BY DEF Init, LintInv, CorrectionOnTheWay, QuestionsCurrent, NoForm
<1>2. Spec => []LintInv
  BY <1>1, LintStep, EditorCorrect, PTL DEF Spec
<1>3. LintInv => CorrectionOnTheWay
  BY DEF LintInv
<1> QED BY <1>2, <1>3, PTL

=============================================================================
