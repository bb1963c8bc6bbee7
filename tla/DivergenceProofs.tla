-------------------------- MODULE DivergenceProofs --------------------------
(***************************************************************************)
(* What the operators of Divergence return, for every history.             *)
(***************************************************************************)
EXTENDS Divergence, TLAPS, WellFoundedInduction, FiniteSetTheorems

-----------------------------------------------------------------------------
(* Smallest and largest elements *)

\* A finite set of numbers has a smallest and a largest one: a minimal counterexample would
\* lose them by losing any of its elements.
LEMMA BoundsExist ==
    ASSUME NEW S \in SUBSET Nat, S # {}, IsFiniteSet(S)
    PROVE  /\ \E m \in S : \A n \in S : m <= n
           /\ \E m \in S : \A n \in S : n <= m
  <1> DEFINE Bounded(T) == /\ \E m \in T : \A n \in T : m <= n
                           /\ \E m \in T : \A n \in T : n <= m
             Bad == {T \in FiniteSubsetsOf(Nat) : T # {} /\ ~Bounded(T)}
  <1>1. S \in FiniteSubsetsOf(Nat)
    BY DEF FiniteSubsetsOf
  <1>2. SUFFICES ASSUME Bad # {} PROVE FALSE
    BY <1>1
  <1>3. PICK T \in Bad : \A U \in Bad : ~(<<U, T>> \in StrictSubsetOrdering(Nat))
    <2> HIDE DEF Bounded
    <2> QED
      BY <1>2, FS_StrictSubsetOrderingWellFounded, WFMin
  <1>4. T \in SUBSET Nat /\ IsFiniteSet(T) /\ T # {} /\ ~Bounded(T)
    BY <1>3 DEF FiniteSubsetsOf
  <1>5. PICK t : t \in T /\ t \in Nat
    BY <1>4
  <1>6. IsFiniteSet(T \ {t}) /\ T \ {t} \in SUBSET Nat /\ T \ {t} # T
    BY <1>4, <1>5, FS_RemoveElement
  <1>7. T \ {t} = {} \/ Bounded(T \ {t})
    <2> HIDE DEF Bounded
    <2>1. <<T \ {t}, T>> \in StrictSubsetOrdering(Nat)
      BY <1>4, <1>6 DEF StrictSubsetOrdering
    <2>2. T \ {t} \in FiniteSubsetsOf(Nat)
      BY <1>6 DEF FiniteSubsetsOf
    <2> QED
      BY <2>1, <2>2, <1>3
  <1>8. CASE T \ {t} = {}
    <2>1. T = {t}
      BY <1>5, <1>8
    <2> QED
      BY <2>1, <1>4, <1>5
  <1>9. CASE Bounded(T \ {t})
    <2>1. PICK a \in T \ {t} : \A n \in T \ {t} : a <= n
      BY <1>9
    <2>2. PICK b \in T \ {t} : \A n \in T \ {t} : n <= b
      BY <1>9
    <2>3. a \in Nat /\ b \in Nat /\ \A n \in T : n \in Nat
      BY <1>4
    <2>4. \E m \in T : \A n \in T : m <= n
      BY <2>1, <2>3, <1>5
    <2>5. \E m \in T : \A n \in T : n <= m
      BY <2>2, <2>3, <1>5
    <2> QED
      BY <2>4, <2>5, <1>4
  <1> QED
    BY <1>7, <1>8, <1>9

\* Any set of numbers has a smallest one: it is among those up to one of them.
LEMMA MinFacts ==
    ASSUME NEW S \in SUBSET Nat, S # {}
    PROVE  Min(S) \in S /\ Min(S) \in Nat /\ \A n \in S : Min(S) <= n
  <1>1. PICK k : k \in S /\ k \in Nat
    OBVIOUS
  <1> DEFINE T == S \cap (0 .. k)
  <1>2. T \in SUBSET Nat /\ T # {} /\ IsFiniteSet(T)
    <2>1. IsFiniteSet(0 .. k)
      BY <1>1, FS_Interval
    <2> HIDE DEF T
    <2>2. IsFiniteSet(T)
      BY <2>1, FS_Intersection DEF T
    <2>3. k \in T
      BY <1>1 DEF T
    <2> QED
      BY <2>2, <2>3 DEF T
  <1>3. PICK m \in T : \A n \in T : m <= n
    BY <1>2, BoundsExist
  <1>4. \A n \in S : m <= n
    BY <1>1, <1>3
  <1> QED
    BY <1>3, <1>4 DEF Min

\* What holds of the first number and goes on to the next one holds up to the last.
LEMMA UpTo ==
    ASSUME NEW N \in Nat, NEW S, 0 \in S, \A n \in 0..N : n \in S /\ n < N => n + 1 \in S
    PROVE  \A n \in 0..N : n \in S
  <1> DEFINE Bad == {n \in 0..N : n \notin S}
  <1>1. SUFFICES ASSUME Bad # {} PROVE FALSE
    OBVIOUS
  <1>2. Bad \in SUBSET Nat
    OBVIOUS
  <1>3. PICK m \in Bad : \A n \in Bad : m <= n
    <2> HIDE DEF Bad
    <2> QED
      BY <1>1, <1>2, MinFacts
  <1>4. m # 0 /\ m \in 0..N /\ m \in Nat
    BY <1>3
  <1>5. m - 1 \in 0..N /\ m - 1 \notin Bad /\ m - 1 < N /\ (m - 1) + 1 = m
    BY <1>3, <1>4
  <1> QED
    BY <1>3, <1>5

LEMMA MaxFacts ==
    ASSUME NEW S \in SUBSET Nat, S # {}, IsFiniteSet(S)
    PROVE  Max(S) \in S /\ Max(S) \in Nat /\ \A n \in S : n <= Max(S)
  BY BoundsExist DEF Max

LEMMA MaxWithZero ==
    ASSUME NEW S \in SUBSET Nat, IsFiniteSet(S)
    PROVE  LET m == Max({0} \cup S)
           IN  m \in Nat /\ m \in {0} \cup S /\ \A n \in S : n <= m
  <1>1. {0} \cup S \in SUBSET Nat /\ {0} \cup S # {}
    OBVIOUS
  <1>2. IsFiniteSet({0} \cup S)
    BY FS_Singleton, FS_Union
  <1> QED
    BY <1>1, <1>2, MaxFacts

-----------------------------------------------------------------------------
(* Blocks, samples and plans *)

\* The image of a finite set under a function is finite.
LEMMA ImageFinite ==
    ASSUME NEW S, IsFiniteSet(S), NEW f, DOMAIN f = S
    PROVE  IsFiniteSet({f[x] : x \in S})
  <1> DEFINE T == {f[x] : x \in S}
             g == [x \in S |-> f[x]]
  <1>1. g \in Surjection(S, T)
    BY DEF Surjection
  <1> QED
    BY <1>1, FS_Surjection

LEMMA SequencesFinite ==
    ASSUME NEW H, IsFiniteSet(H), \A b \in H : b.seq \in Nat
    PROVE  {b.seq : b \in H} \in SUBSET Nat /\ IsFiniteSet({b.seq : b \in H})
  <1> DEFINE f == [b \in H |-> b.seq]
  <1>1. {f[b] : b \in H} = {b.seq : b \in H}
    OBVIOUS
  <1>2. IsFiniteSet({f[b] : b \in H})
    BY ImageFinite
  <1> QED
    BY <1>1, <1>2

\* The bounds are sequence numbers, common ones really common and divergent ones really
\* held under two hashes.
LEMMA BoundTypes ==
    ASSUME NEW samples, NEW held, IsFiniteSet(held),
           \A b \in samples : b.seq \in Nat, \A b \in held : b.seq \in Nat
    PROVE  /\ LastCommon(samples, held) \in Nat
           /\ LastCommon(samples, held) # 0 => \E b \in samples \cap held : b.seq = LastCommon(samples, held)
           /\ \A b \in samples \cap held : b.seq <= LastCommon(samples, held)
           /\ FirstDivergent(samples, held) \in Nat
           /\ FirstDivergent(samples, held) # 0 =>
                \E x \in samples, y \in held : x.seq = FirstDivergent(samples, held) /\ y.seq = x.seq /\ x.hash # y.hash
  <1>1. IsFiniteSet(samples \cap held)
    BY FS_Intersection
  <1>2. Common(samples, held) \in SUBSET Nat /\ IsFiniteSet(Common(samples, held))
    BY <1>1, SequencesFinite DEF Common
  <1>3. Conflicting(samples, held) \in SUBSET Nat
    BY DEF Conflicting
  <1>4. LET m == LastCommon(samples, held)
        IN  m \in Nat /\ m \in {0} \cup Common(samples, held) /\ \A n \in Common(samples, held) : n <= m
    BY <1>2, MaxWithZero DEF LastCommon
  <1>5. Conflicting(samples, held) # {} => FirstDivergent(samples, held) \in Conflicting(samples, held)
    BY <1>3, MinFacts DEF FirstDivergent
  <1> QED
    BY <1>3, <1>4, <1>5 DEF Common, Conflicting, FirstDivergent

-----------------------------------------------------------------------------
(* The distances of the samples *)

\* The beginnings of the sequence of distances: there is one of every length, and they agree.
Doubling(n) == {g \in [0 .. n -> Nat] : g[0] = 1 /\ \A i \in 1 .. n : g[i] = 2 * g[i - 1]}

LEMMA DoublingExists == ASSUME NEW n \in Nat PROVE Doubling(n) # {}
  <1> DEFINE Bad == {m \in Nat : Doubling(m) = {}}
  <1>1. SUFFICES ASSUME Bad # {} PROVE FALSE
    OBVIOUS
  <1>2. PICK m \in Bad : \A k \in Bad : m <= k
    BY <1>1, MinFacts
  <1>3. CASE m = 0
    <2>1. [i \in 0 .. 0 |-> 1] \in Doubling(0)
      BY DEF Doubling
    <2> QED
      BY <2>1, <1>2, <1>3
  <1>4. CASE m # 0
    <2>1. m \in Nat /\ m - 1 \in Nat /\ m - 1 \notin Bad
      BY <1>2, <1>4
    <2>2. PICK g : g \in Doubling(m - 1)
      BY <2>1
    <2>3. g \in [0 .. m - 1 -> Nat] /\ g[0] = 1 /\ \A i \in 1 .. m - 1 : g[i] = 2 * g[i - 1]
      BY <2>2 DEF Doubling
    <2> DEFINE h == [i \in 0 .. m |-> IF i = m THEN 2 * g[m - 1] ELSE g[i]]
    <2>4. \A i \in 0 .. m - 1 : h[i] = g[i] /\ g[i] \in Nat
      BY <2>1, <2>3
    <2>5. h[m] = 2 * g[m - 1] /\ g[m - 1] \in Nat
      BY <2>1, <2>3
    <2>6. h \in [0 .. m -> Nat]
      <3>1. \A i \in 0 .. m : i = m \/ i \in 0 .. m - 1
        BY <2>1
      <3>2. \A i \in 0 .. m - 1 : h[i] \in Nat
        BY <2>4
      <3>3. h[m] \in Nat
        BY <2>5
      <3>4. \A i \in 0 .. m : h[i] \in Nat
        BY <3>1, <3>2, <3>3
      <3> QED
        BY <3>4
    <2>7. \A i \in 1 .. m : h[i] = 2 * h[i - 1]
      <3>1. \A i \in 1 .. m : i - 1 \in 0 .. m - 1 /\ (i = m \/ (i \in 1 .. m - 1 /\ i \in 0 .. m - 1))
        BY <2>1
      <3> HIDE DEF h
      <3> QED
        BY <3>1, <2>3, <2>4, <2>5
    <2>8. h[0] = 1
      <3>1. 0 \in 0 .. m - 1
        BY <2>1
      <3> QED
        BY <3>1, <2>3, <2>4
    <2>9. h \in Doubling(m)
      BY <2>6, <2>7, <2>8 DEF Doubling
    <2> QED
      BY <2>9, <1>2
  <1> QED
    BY <1>3, <1>4

LEMMA DoublingAgrees ==
    ASSUME NEW m \in Nat, NEW n \in Nat, NEW g \in Doubling(m), NEW h \in Doubling(n),
           NEW i \in Nat, i <= m, i <= n
    PROVE  g[i] = h[i]
  <1> DEFINE Bad == {k \in Nat : k <= m /\ k <= n /\ g[k] # h[k]}
  <1>1. SUFFICES ASSUME Bad # {} PROVE FALSE
    OBVIOUS
  <1>2. PICK k \in Bad : \A j \in Bad : k <= j
    BY <1>1, MinFacts
  <1>3. g[0] = h[0]
    BY DEF Doubling
  <1>4. k # 0
    BY <1>2, <1>3
  <1>5. k - 1 \in Nat /\ k - 1 \notin Bad /\ k \in 1 .. m /\ k \in 1 .. n
    BY <1>2, <1>4
  <1>6. g[k - 1] = h[k - 1]
    BY <1>5
  <1>7. g[k] = 2 * g[k - 1] /\ h[k] = 2 * h[k - 1]
    BY <1>5 DEF Doubling
  <1> QED
    BY <1>2, <1>6, <1>7

\* The definition of Distance defines it.
LEMMA DistanceUnfolds == Distance = [k \in Nat |-> IF k = 0 THEN 1 ELSE 2 * Distance[k - 1]]
  <1> DEFINE G(n) == CHOOSE g : g \in Doubling(n)
             f == [n \in Nat |-> G(n)[n]]
  <1>1. \A n \in Nat : G(n) \in Doubling(n)
    BY DoublingExists
  <1>2. \A n \in Nat : f[n] = G(n)[n]
    OBVIOUS
  <1> HIDE DEF G
  <1>3. \A n \in Nat : f[n] = IF n = 0 THEN 1 ELSE 2 * f[n - 1]
    <2> SUFFICES ASSUME NEW n \in Nat PROVE f[n] = IF n = 0 THEN 1 ELSE 2 * f[n - 1]
      OBVIOUS
    <2>1. CASE n = 0
      BY <1>1, <1>2, <2>1 DEF Doubling
    <2>2. CASE n # 0
      <3>1. n - 1 \in Nat /\ n \in 1 .. n /\ n - 1 <= n /\ n - 1 <= n - 1
        BY <2>2
      <3>2. G(n)[n] = 2 * G(n)[n - 1]
        BY <1>1, <3>1 DEF Doubling
      <3>3. G(n)[n - 1] = G(n - 1)[n - 1]
        BY <1>1, <3>1, DoublingAgrees
      <3> QED
        BY <1>2, <2>2, <3>1, <3>2, <3>3
    <2> QED
      BY <2>1, <2>2
  <1>4. f = [k \in Nat |-> IF k = 0 THEN 1 ELSE 2 * f[k - 1]]
    BY <1>3
  <1>5. \E d : d = [k \in Nat |-> IF k = 0 THEN 1 ELSE 2 * d[k - 1]]
    BY <1>4
  <1> QED
    BY <1>5 DEF Distance

LEMMA DistanceStep ==
    /\ Distance[0] = 1
    /\ \A k \in Nat : Distance[k + 1] = 2 * Distance[k]
  <1>1. \A k \in Nat : Distance[k] = IF k = 0 THEN 1 ELSE 2 * Distance[k - 1]
    BY DistanceUnfolds
  <1>2. \A k \in Nat : k + 1 \in Nat /\ k + 1 # 0 /\ (k + 1) - 1 = k
    OBVIOUS
  <1> QED
    BY <1>1, <1>2

\* the distances outgrow their index
LEMMA DistanceGrows == ASSUME NEW k \in Nat PROVE Distance[k] \in Nat /\ Distance[k] > k
  <1> DEFINE Bad == {m \in Nat : ~(Distance[m] \in Nat /\ Distance[m] > m)}
  <1>1. SUFFICES ASSUME Bad # {} PROVE FALSE
    OBVIOUS
  <1>2. PICK m \in Bad : \A j \in Bad : m <= j
    BY <1>1, MinFacts
  <1>3. m # 0
    BY <1>2, DistanceStep
  <1>4. m - 1 \in Nat /\ m - 1 \notin Bad /\ (m - 1) + 1 = m
    BY <1>2, <1>3
  <1>5. Distance[m - 1] \in Nat /\ Distance[m - 1] > m - 1
    BY <1>4
  <1>6. Distance[m] = 2 * Distance[m - 1]
    <2>1. Distance[(m - 1) + 1] = 2 * Distance[m - 1]
      BY <1>4, DistanceStep
    <2> QED
      BY <1>4, <2>1
  <1>7. Distance[m] \in Nat /\ Distance[m] > m
    BY <1>4, <1>5, <1>6, <1>2
  <1> QED
    BY <1>2, <1>7

\* between any distance and its double there is a sampled one
LEMMA DistanceBetween ==
    ASSUME NEW d \in Nat, d > 0
    PROVE  \E k \in Nat : d <= Distance[k] /\ Distance[k] <= 2 * d
  <1> DEFINE S == {k \in Nat : d <= Distance[k]}
  <1>1. d \in S
    BY DistanceGrows
  <1>2. PICK k \in S : \A j \in S : k <= j
    BY <1>1, MinFacts
  <1>3. CASE k = 0
    BY <1>2, <1>3, DistanceStep
  <1>4. CASE k # 0
    <2>1. k - 1 \in Nat /\ k - 1 \notin S /\ (k - 1) + 1 = k
      BY <1>2, <1>4
    <2>2. Distance[k - 1] \in Nat /\ Distance[k - 1] < d
      BY <2>1, DistanceGrows
    <2>3. Distance[k] = 2 * Distance[k - 1]
      <3>1. Distance[(k - 1) + 1] = 2 * Distance[k - 1]
        BY <2>1, DistanceStep
      <3> QED
        BY <2>1, <3>1
    <2> QED
      BY <1>2, <2>2, <2>3
  <1> QED
    BY <1>3, <1>4

=============================================================================
