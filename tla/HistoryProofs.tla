--------------------------- MODULE HistoryProofs ---------------------------
(***************************************************************************)
(* Proofs about histories: the bounds of find_divergence and the range of  *)
(* plan_pull for two views of any length that part anywhere (ForkedViews), *)
(* and what a cut at the server and a prune at a client leave of a history *)
(* (HistoryCut), for any number of clients, objects and records.           *)
(*                                                                         *)
(* The invariant of a cut history says of the records that a segment goes  *)
(* back to the one before and lists all between, and that a record names   *)
(* the newest one before it of each object it changes; of the server that  *)
(* it has every record that changes an object and all from the newest      *)
(* segment on; and of a client whose rows are not lost that it either      *)
(* waits for its anchor, having passed all the server has below its fetch, *)
(* or has everything from the anchor to its newest record and, below, the  *)
(* records that change objects.                                            *)
(***************************************************************************)
EXTENDS Histories, DivergenceProofs, SequenceTheorems

-----------------------------------------------------------------------------
(* Where two views part *)

\* The blocks of a view are those of its branch.
Branch(view, branch) ==
    /\ IsFiniteSet(view)
    /\ \A b \in view : \E q \in Nat \ {0} : b = Block(q, branch)

Views == fork \in Nat /\ Branch(ours, "ours") /\ Branch(theirs, "theirs")

LEMMA BlockFacts ==
    ASSUME NEW q, NEW branch
    PROVE  /\ Block(q, branch).seq = q
           /\ Block(q, branch).hash = <<q, IF q <= fork THEN "common" ELSE branch>>
  BY DEF Block

LEMMA GrowBranch ==
    ASSUME NEW view, NEW branch, Branch(view, branch), NEW w \in Grow(view, branch)
    PROVE  Branch(w, branch)
  <1>1. PICK q \in 1 .. MaxHead : w = view \cup {Block(q, branch)}
    BY DEF Grow
  <1>2. IsFiniteSet(w)
    BY <1>1, FS_AddElement DEF Branch
  <1>3. q \in Nat \ {0}
    BY <1>1, MaxHeadAssumption
  <1> QED
    BY <1>1, <1>2, <1>3 DEF Branch

LEMMA ViewsStep == Views /\ [Next]_vars => Views'
  <1> SUFFICES ASSUME Views, [Next]_vars PROVE Views'
    OBVIOUS
  <1>1. fork' = fork
    BY DEF Next, vars
  <1>2. ours' = ours \/ ours' \in Grow(ours, "ours")
    BY DEF Next, vars
  <1>3. theirs' = theirs \/ theirs' \in Grow(theirs, "theirs")
    BY DEF Next, vars
  <1>4. Branch(ours', "ours") /\ Branch(theirs', "theirs")
    BY <1>2, <1>3, GrowBranch DEF Views
  <1> QED
    BY <1>1, <1>4 DEF Views, Branch, Block

LEMMA ViewsInit == Init => Views
  BY MaxHeadAssumption, FS_EmptySet DEF Init, Views, Branch

LEMMA BranchFacts ==
    ASSUME Views
    PROVE  /\ IsFiniteSet(ours) /\ IsFiniteSet(theirs)
           /\ \A b \in ours \cup theirs : b.seq \in Nat \ {0}
           /\ Samples \subseteq theirs
           /\ \A b \in ours, c \in theirs : b.seq = c.seq => (b = c <=> b.seq <= fork)
           /\ \A b \in ours, c \in theirs : b.seq = c.seq /\ b.hash = c.hash => b = c
           /\ \A b, c \in theirs : b.seq = c.seq => b = c
           /\ \A b, c \in ours : b.seq = c.seq => b = c
  <1>1. \A b \in ours : \E q \in Nat \ {0} : b = Block(q, "ours")
    BY DEF Views, Branch
  <1>2. \A b \in theirs : \E q \in Nat \ {0} : b = Block(q, "theirs")
    BY DEF Views, Branch
  <1>3. \A q \in Nat \ {0} : /\ Block(q, "ours").seq = q /\ Block(q, "theirs").seq = q
                             /\ Block(q, "ours") = Block(q, "theirs") <=> q <= fork
                             /\ Block(q, "ours").hash = Block(q, "theirs").hash <=> q <= fork
    BY DEF Block
  <1> QED
    BY <1>1, <1>2, <1>3 DEF Views, Branch, Samples, SamplesOf

LEMMA ViewBounds ==
    ASSUME Views
    PROVE  /\ Last \in Nat /\ First \in Nat
           /\ Last # 0 => \E b \in Samples \cap ours : b.seq = Last
           /\ First # 0 => \E x \in Samples, y \in ours : x.seq = First /\ y.seq = x.seq /\ x.hash # y.hash
  BY BranchFacts, BoundTypes DEF Last, First

\* The newest common sample is at or before the fork and the oldest conflicting one behind it,
\* for histories of any length and with any gaps.
THEOREM ForkIsBracketed == Spec => []BoundsBracketTheFork
  <1>1. Views => BoundsBracketTheFork
    <2> SUFFICES ASSUME Views PROVE Last <= fork /\ (First # 0 => First > fork)
      BY DEF BoundsBracketTheFork
    <2>1. /\ Last \in Nat /\ First \in Nat
          /\ Last # 0 => \E b \in Samples \cap ours : b.seq = Last
          /\ First # 0 => \E x \in Samples, y \in ours : x.seq = First /\ y.seq = x.seq /\ x.hash # y.hash
      BY ViewBounds
    <2>2. fork \in Nat
      BY DEF Views
    <2>3. Last <= fork
      BY <2>1, <2>2, BranchFacts
    <2>4. First # 0 => First > fork
      BY <2>1, <2>2, BranchFacts
    <2> QED
      BY <2>3, <2>4
  <1> QED
    BY <1>1, ViewsInit, ViewsStep, PTL DEF Spec

LEMMA LastSeqFacts ==
    ASSUME NEW H, IsFiniteSet(H), \A b \in H : b.seq \in Nat
    PROVE  LastSeq(H) \in Nat /\ \A b \in H : b.seq <= LastSeq(H)
  <1> DEFINE N == {b.seq : b \in H}
  <1>1. N \in SUBSET Nat /\ IsFiniteSet(N)
    BY SequencesFinite
  <1> HIDE DEF N
  <1>2. Max({0} \cup N) \in Nat /\ \A n \in N : n <= Max({0} \cup N)
    BY <1>1, MaxWithZero
  <1> QED
    BY <1>2 DEF LastSeq, N

\* A replica that is behind pulls exactly what it misses, from whatever point it stopped at.
THEOREM PullIsExact == Spec => []PullsWhatIsMissing
  <1>1. Views => PullsWhatIsMissing
    <2> SUFFICES ASSUME Views, ours = {b \in theirs : b.seq <= LastSeq(ours)}
                 PROVE  {b \in theirs : From > 0 /\ b.seq >= From} = theirs \ ours
      BY DEF PullsWhatIsMissing
    <2> DEFINE k == LastSeq(ours)
               h == LastSeq(theirs)
    <2>1. k \in Nat /\ h \in Nat /\ (\A b \in ours : b.seq <= k) /\ (\A b \in theirs : b.seq <= h)
      BY BranchFacts, LastSeqFacts
    <2>2. Last \in Nat /\ (Last # 0 => \E b \in ours : b.seq = Last)
      BY ViewBounds
    <2>3. Last <= k
      BY <2>1, <2>2
    <2>4. First = 0
      <3>1. \A x \in Samples, y \in ours : x.seq = y.seq => x = y
        BY BranchFacts
      <3> QED
        BY <3>1 DEF First, FirstDivergent, Conflicting
    <2>5. \A b \in theirs : b.seq \in Nat
      BY BranchFacts
    <2> HIDE DEF k, h
    <2>6. From = IF k < h THEN k + 1 ELSE 0
      BY <2>1, <2>2, <2>3, <2>4 DEF From, PlanPull, k, h
    <2>7. ours = {b \in theirs : b.seq <= k}
      BY DEF k
    <2> QED
      BY <2>1, <2>5, <2>6, <2>7
  <1> QED
    BY <1>1, ViewsInit, ViewsStep, PTL DEF Spec

-----------------------------------------------------------------------------
(* Views of one length *)

LEMMA HeadHeld ==
    ASSUME NEW H, IsFiniteSet(H), \A b \in H : b.seq \in Nat, LastSeq(H) # 0
    PROVE  \E b \in H : b.seq = LastSeq(H)
  <1> DEFINE N == {b.seq : b \in H}
  <1>1. N \in SUBSET Nat /\ IsFiniteSet(N)
    BY SequencesFinite
  <1> HIDE DEF N
  <1>2. Max({0} \cup N) \in {0} \cup N
    BY <1>1, MaxWithZero
  <1> QED
    BY <1>2 DEF LastSeq, N

\* A view with as many blocks as its head says skips no sequence.
LEMMA NoneSkipped ==
    ASSUME NEW H, IsFiniteSet(H), \A b \in H : b.seq \in Nat \ {0}, \A b, c \in H : b.seq = c.seq => b = c,
           Cardinality(H) = LastSeq(H), NEW q \in 1 .. LastSeq(H)
    PROVE  \E b \in H : b.seq = q
  <1>1. LastSeq(H) \in Nat /\ \A b \in H : b.seq <= LastSeq(H)
    BY LastSeqFacts
  <1>2. PICK h : h = LastSeq(H)
    OBVIOUS
  <1>3. IsFiniteSet(1 .. h) /\ Cardinality(1 .. h) = h
    <2>1. h \in Int /\ h >= 0 /\ 1 \in Int
      BY <1>1, <1>2
    <2>2. IsFiniteSet(1 .. h) /\ Cardinality(1 .. h) = IF 1 > h THEN 0 ELSE h - 1 + 1
      BY <2>1, FS_Interval, ZenonT(60)
    <2>3. (IF 1 > h THEN 0 ELSE h - 1 + 1) = h
      BY <2>1
    <2> QED
      BY <2>2, <2>3, Zenon
  <1> DEFINE f == [b \in H |-> b.seq]
  <1>4. f \in Injection(H, 1 .. h)
    <2>1. \A b \in H : b.seq \in 1 .. h
      BY <1>1, <1>2
    <2>2. f \in [H -> 1 .. h]
      BY <2>1
    <2> QED
      BY <2>2 DEF Injection, IsInjective
  <1>5. f \in Surjection(H, 1 .. h)
    <2> HIDE DEF f
    <2>1. Cardinality(H) = Cardinality(1 .. h) <=> f \in Surjection(H, 1 .. h)
      BY <1>3, <1>4, FS_Injection
    <2> QED
      BY <2>1, <1>2, <1>3
  <1> QED
    BY <1>2, <1>5 DEF Surjection

\* Two servers whose views of an origin have the same head see that they part, and when nothing is
\* skipped the newest common sample is at most twice as far from the head as the fork
\* (sample_sequences and find_divergence; divergence.hpp: "enough to place a fork within a factor
\* of two of its sequence"), for histories of any length.
THEOREM EqualHeadsAreTold == Spec => []EqualHeadsTellForks
  <1>1. Views => EqualHeadsTellForks
    <2> SUFFICES ASSUME Views, Parted, LastSeq(ours) = LastSeq(theirs)
                 PROVE  /\ First > 0
                        /\ Cardinality(ours) = LastSeq(ours) /\ Cardinality(theirs) = LastSeq(ours) =>
                             LastSeq(ours) - Last <= 2 * (LastSeq(ours) - fork)
      BY DEF EqualHeadsTellForks
    <2>1. PICK head : head = LastSeq(ours)
      OBVIOUS
    <2>2. /\ head \in Nat /\ fork \in Nat /\ head = LastSeq(theirs)
          /\ \A b \in ours : b.seq \in Nat /\ b.seq > 0 /\ b.seq <= head
          /\ \A b \in theirs : b.seq \in Nat /\ b.seq > 0 /\ b.seq <= head
      BY <2>1, BranchFacts, LastSeqFacts DEF Views
    <2>3. head > fork
      <3>1. PICK b \in ours, c \in theirs : b.seq = c.seq /\ b.hash # c.hash
        BY DEF Parted
      <3>2. ~(b.seq <= fork)
        BY <3>1, BranchFacts
      <3> QED
        BY <3>2, <2>2
    <2>4. First > 0
      <3>1. PICK b \in ours : b.seq = head
        BY <2>1, <2>2, <2>3, BranchFacts, HeadHeld
      <3>2. PICK c \in theirs : c.seq = head
        BY <2>2, <2>3, BranchFacts, HeadHeld
      <3>3. c \in Samples
        BY <2>2, <2>3, <3>2 DEF Samples, SamplesOf, SampleSequences
      <3>4. b.hash # c.hash
        BY <2>2, <2>3, <3>1, <3>2, BranchFacts
      <3>5. head \in Conflicting(Samples, ours)
        BY <3>1, <3>2, <3>3, <3>4 DEF Conflicting
      <3>6. Conflicting(Samples, ours) \in SUBSET (Nat \ {0})
        BY <2>2, BranchFacts DEF Conflicting
      <3>7. Min(Conflicting(Samples, ours)) \in Conflicting(Samples, ours)
        BY <3>5, <3>6, MinFacts
      <3> QED
        BY <3>5, <3>6, <3>7 DEF First, FirstDivergent
    <2>5. ASSUME Cardinality(ours) = head, Cardinality(theirs) = head PROVE head - Last <= 2 * (head - fork)
      <3>1. PICK d : d = head - fork
        OBVIOUS
      <3>2. d \in Nat /\ d > 0
        BY <3>1, <2>2, <2>3
      <3>3. PICK k \in Nat : d <= Distance[k] /\ Distance[k] <= 2 * d
        BY <3>2, DistanceBetween
      <3>4. Distance[k] \in Nat /\ Distance[k] > k /\ Last \in Nat
        BY DistanceGrows, ViewBounds
      <3>5. CASE Distance[k] >= head
        BY <3>1, <3>2, <3>3, <3>4, <3>5, <2>2
      <3>6. CASE Distance[k] < head
        <4>1. PICK q : q = head - Distance[k]
          OBVIOUS
        <4>2. q \in 1 .. head /\ q <= fork /\ head - q <= 2 * d
          BY <4>1, <3>1, <3>2, <3>3, <3>4, <3>6, <2>2
        <4>3. PICK b \in ours : b.seq = q
          BY <4>2, <2>1, <2>5, BranchFacts, NoneSkipped
        <4>4. PICK c \in theirs : c.seq = q
          BY <4>2, <2>2, <2>5, BranchFacts, NoneSkipped
        <4>5. b = c
          BY <4>2, <4>3, <4>4, BranchFacts
        <4>6. q \in SampleSequences(head)
          <5>1. k \in 0 .. head
            BY <2>2, <3>4, <3>6
          <5> QED
            BY <5>1, <4>1, <3>4, <3>6 DEF SampleSequences
        <4>7. c \in Samples
          BY <4>4, <4>6, <2>2 DEF Samples, SamplesOf
        <4>8. q <= Last
          <5>1. \A x \in Samples \cap ours : x.seq <= Last
            <6>1. \A x \in Samples : x.seq \in Nat
              BY <2>2, BranchFacts
            <6>2. IsFiniteSet(ours) /\ \A x \in ours : x.seq \in Nat
              BY <2>2, BranchFacts
            <6> QED
              BY <6>1, <6>2, BoundTypes DEF Last
          <5> QED
            BY <5>1, <4>3, <4>5, <4>7
        <4> QED
          BY <4>2, <4>8, <3>1, <3>4, <2>2
      <3> QED
        BY <3>4, <3>5, <3>6, <2>2
    <2> QED
      BY <2>1, <2>4, <2>5
  <1> QED
    BY <1>1, ViewsInit, ViewsStep, PTL DEF Spec

-----------------------------------------------------------------------------
(* Numbers and sets *)

\* a property of numbers that passes from those below to a number holds of all of them
LEMMA FromBelow ==
    ASSUME NEW N \in Nat, NEW S, \A n \in 1..N : (\A m \in 1..(n - 1) : m \in S) => n \in S
    PROVE  \A n \in 1..N : n \in S
  <1> DEFINE Bad == {n \in 1..N : n \notin S}
  <1>1. SUFFICES ASSUME Bad # {} PROVE FALSE
    OBVIOUS
  <1>2. Bad \in SUBSET Nat
    OBVIOUS
  <1>3. PICK m \in Bad : \A n \in Bad : m <= n
    <2> HIDE DEF Bad
    <2> QED
      BY <1>1, <1>2, MinFacts
  <1>4. \A k \in 1..(m - 1) : k \in S
    BY <1>3
  <1> QED
    BY <1>3, <1>4

Newest(S) == History!Newest(S)

LEMMA NewestFacts ==
    ASSUME NEW k \in Nat, NEW S \in SUBSET (1..k)
    PROVE  /\ Newest(S) \in 0..k
           /\ Newest(S) = 0 <=> S = {}
           /\ S # {} => Newest(S) \in S
           /\ \A n \in S : n <= Newest(S)
  <1>1. CASE S = {}
    BY <1>1 DEF Newest, History!Newest
  <1>2. CASE S # {}
    <2>1. S \in SUBSET Nat /\ IsFiniteSet(S)
      <3>1. IsFiniteSet(1..k)
        BY FS_Interval
      <3>2. S \subseteq 1..k /\ S \in SUBSET Nat
        OBVIOUS
      <3>3. IsFiniteSet(S)
        BY <3>1, <3>2, FS_Subset
      <3> QED
        BY <3>2, <3>3
    <2>2. Max(S) \in S /\ \A n \in S : n <= Max(S)
      BY <1>2, <2>1, MaxFacts
    <2>3. Newest(S) = Max(S)
      BY <1>2 DEF Newest, History!Newest, History!Max, Max
    <2>4. Newest(S) \in S /\ \A n \in S : n <= Newest(S)
      BY <2>2, <2>3
    <2>5. Newest(S) \in 1..k
      BY <2>4
    <2> QED
      BY <1>2, <2>4, <2>5
  <1> QED
    BY <1>1, <1>2

LEMMA RecordsAreCounted == \A S : History!Cardinality(S) = Cardinality(S)
  BY DEF History!Cardinality, Cardinality

LEMMA LeastFacts ==
    ASSUME NEW S \in SUBSET Nat, S # {}
    PROVE  History!Min(S) \in S /\ \A n \in S : History!Min(S) <= n
  <1>1. History!Min(S) = Min(S)
    BY DEF History!Min, Min
  <1> QED
    BY <1>1, MinFacts

-----------------------------------------------------------------------------
(* The records of a batch, one after the other *)

Top == Len(block)
Handled(c, batch) == History!HandledUpTo(c, batch)

\* a record more
Handle(c, batch, st, n) == IF n \in batch THEN History!HandleRecord(anchor[c], st, n) ELSE st

LEMMA HandledUnfolds ==
    ASSUME NEW c, NEW batch, Top \in Nat
    PROVE  /\ Handled(c, batch)[0] = [state |-> rows[c], refused |-> c \in bad]
           /\ \A n \in 1..Top : Handled(c, batch)[n] = Handle(c, batch, Handled(c, batch)[n - 1], n)
  <1> DEFINE s0 == [state |-> rows[c], refused |-> c \in bad]
             Step(st, n) == Handle(c, batch, st, n)
             Good(k) == \E f : f = [n \in 0..k |-> IF n = 0 THEN s0 ELSE Step(f[n - 1], n)]
             S == {k \in 0..Top : Good(k)}
  <1>1. Handled(c, batch) = CHOOSE f : f = [n \in 0..Top |-> IF n = 0 THEN s0 ELSE Step(f[n - 1], n)]
    BY DEF Handled, History!HandledUpTo, Handle, Top, History!Top
  <1> HIDE DEF s0, Step
  <1>2. 0 \in S
    <2> DEFINE f == [n \in 0..0 |-> s0]
    <2>1. f = [n \in 0..0 |-> IF n = 0 THEN s0 ELSE Step(f[n - 1], n)]
      OBVIOUS
    <2>2. 0 \in 0..Top
      OBVIOUS
    <2> HIDE DEF f
    <2> QED
      BY <2>1, <2>2
  <1>3. ASSUME NEW k \in 0..Top, k \in S, k < Top PROVE k + 1 \in S
    <2>1. PICK f : f = [n \in 0..k |-> IF n = 0 THEN s0 ELSE Step(f[n - 1], n)]
      BY <1>3
    <2> DEFINE g == [n \in 0..(k + 1) |-> IF n = k + 1 THEN Step(f[k], n) ELSE f[n]]
    <2>2. ASSUME NEW n \in 0..(k + 1) PROVE g[n] = IF n = 0 THEN s0 ELSE Step(g[n - 1], n)
      <3>1. CASE n = k + 1
        BY <3>1
      <3>2. CASE n # k + 1
        <4>1. n \in 0..k /\ g[n] = f[n]
          BY <3>2
        <4>2. f[n] = IF n = 0 THEN s0 ELSE Step(f[n - 1], n)
          BY <2>1, <4>1
        <4>3. n # 0 => g[n - 1] = f[n - 1]
          BY <4>1
        <4> QED
          BY <4>1, <4>2, <4>3
      <3> QED
        BY <3>1, <3>2
    <2>3. g = [n \in 0..(k + 1) |-> IF n = 0 THEN s0 ELSE Step(g[n - 1], n)]
      BY <2>2
    <2>4. k + 1 \in 0..Top
      BY <1>3
    <2> HIDE DEF g
    <2> QED
      BY <2>3, <2>4
  <1>4. Top \in S
    <2> HIDE DEF S
    <2>1. \A k \in 0..Top : k \in S
      BY <1>2, <1>3, UpTo
    <2> QED
      BY <2>1
  <1>5. Handled(c, batch) = [n \in 0..Top |-> IF n = 0 THEN s0 ELSE Step(Handled(c, batch)[n - 1], n)]
    BY <1>1, <1>4
  <1>6. Handled(c, batch)[0] = s0
    BY <1>5
  <1>7. \A n \in 1..Top : Handled(c, batch)[n] = Step(Handled(c, batch)[n - 1], n)
    BY <1>5
  <1> QED
    BY <1>6, <1>7 DEF s0, Step

-----------------------------------------------------------------------------
(* The walk along the records of an object *)

\* where the previous record of an object is the newest one before, and held, the walk from the
\* newest finds them all (object_versions, object_chain_tags_below)
LEMMA WalkFindsAll ==
    ASSUME Top \in Nat, NEW held \in SUBSET (1..Top), NEW o,
           NEW V, V = {n \in held : o \in History!ObjectsOf(n)},
           \A n \in V : /\ block[n].prev[o] \in V \cup {0} /\ block[n].prev[o] < n
                        /\ \A m \in V : m < n => m <= block[n].prev[o]
    PROVE  History!ObjectVersions(held, o) = V
  <1> DEFINE prev(n) == block[n].prev[o]
             Walk(f) == [n \in 0..Top |-> IF n \in V THEN {n} \cup f[prev(n)] ELSE {}]
             w == CHOOSE f : f = Walk(f)
             W == [n \in 0..Top |-> IF n \in V THEN {m \in V : m <= n} ELSE {}]
  <1>1. V \subseteq 1..Top /\ 0 \notin V /\ \A n \in V : n \in Nat /\ n \in 0..Top
    <2>1. V \subseteq 1..Top
      BY Zenon
    <2> QED
      BY <2>1, SMTT(30)
  <1>2. History!ObjectVersions(held, o) = w[Newest(V)]
    <2>1. \A n : n \in held /\ o \in History!ObjectsOf(n) <=> n \in V
      OBVIOUS
    <2>2. w = CHOOSE f : f = [n \in 0..Top |-> IF n \in held /\ o \in History!ObjectsOf(n)
                                               THEN {n} \cup f[block[n].prev[o]] ELSE {}]
      BY <2>1
    <2>3. History!ObjectHead(held, o) = Newest(V)
      BY DEF History!ObjectHead, Newest
    <2> HIDE DEF w
    <2> QED
      BY <2>2, <2>3 DEF History!ObjectVersions, Top, History!Top
  <1>3. W = Walk(W)
    <2>1. ASSUME NEW n \in V PROVE {m \in V : m <= n} = {n} \cup W[prev(n)]
      <3>1. CASE prev(n) = 0
        <4>1. W[prev(n)] = {}
          BY <1>1, <3>1
        <4>2. \A m \in V : m <= n => m = n
          BY <1>1, <2>1, <3>1
        <4> QED
          BY <1>1, <2>1, <4>1, <4>2
      <3>2. CASE prev(n) \in V
        <4>1. W[prev(n)] = {m \in V : m <= prev(n)}
          BY <1>1, <3>2
        <4>2. \A m \in V : m <= n <=> (m = n \/ m <= prev(n))
          BY <1>1, <2>1, <3>2
        <4> QED
          BY <1>1, <2>1, <4>1, <4>2
      <3> QED
        BY <2>1, <3>1, <3>2
    <2> QED
      BY <2>1
  <1>4. w = Walk(w)
    <2> HIDE DEF W, Walk
    <2>1. \E f : f = Walk(f)
      BY <1>3
    <2> QED
      BY <2>1
  <1> HIDE DEF w, W
  <1>5. \A n \in V : w[n] = {n} \cup w[prev(n)]
    BY <1>1, <1>4
  <1>6. w[0] = {}
    BY <1>1, <1>4
  <1>7. \A n \in V : w[n] = {m \in V : m <= n}
    <2> DEFINE S == {n \in 1..Top : n \in V => w[n] = {m \in V : m <= n}}
    <2>1. ASSUME NEW n \in 1..Top, \A m \in 1..(n - 1) : m \in S PROVE n \in S
      <3>1. CASE n \notin V
        BY <3>1
      <3>2. CASE n \in V
        <4>1. CASE prev(n) = 0
          <5>1. \A m \in V : m <= n => m = n
            BY <1>1, <3>2, <4>1
          <5> QED
            BY <1>1, <1>5, <1>6, <3>2, <4>1, <5>1
        <4>2. CASE prev(n) \in V
          <5>1. prev(n) \in 1..(n - 1)
            BY <1>1, <3>2, <4>2
          <5>2. w[prev(n)] = {m \in V : m <= prev(n)}
            BY <2>1, <4>2, <5>1
          <5>3. \A m \in V : m <= n <=> (m = n \/ m <= prev(n))
            BY <1>1, <3>2, <4>2
          <5> QED
            BY <1>5, <3>2, <5>2, <5>3
        <4> QED
          BY <3>2, <4>1, <4>2
      <3> QED
        BY <3>1, <3>2
    <2> HIDE DEF S
    <2>2. \A n \in 1..Top : n \in S
      BY <2>1, FromBelow
    <2> QED
      BY <1>1, <2>2 DEF S
  <1>8. CASE V = {}
    BY <1>2, <1>6, <1>8, NewestFacts
  <1>9. CASE V # {}
    <2>1. Newest(V) \in V /\ \A n \in V : n <= Newest(V)
      BY <1>1, <1>9, NewestFacts
    <2>2. w[Newest(V)] = {m \in V : m <= Newest(V)}
      BY <1>7, <2>1
    <2> QED
      BY <1>2, <2>1, <2>2
  <1> QED
    BY <1>8, <1>9

-----------------------------------------------------------------------------
(* The records *)

\* A segment states its own sequence as its end, goes back to the segment before it, and lists all
\* that was committed in between.
SegmentAt(n) ==
    /\ n >= 2 /\ block[n].end = n /\ History!ObjectsOf(n) = {}
    /\ block[n].back \in 0..(n - 1)
    /\ block[n].back = 0 => block[n].start = 1
    /\ block[n].back # 0 => History!IsSegment(block[n].back) /\ block[n].start = block[n].back
    /\ \A m \in (block[n].back + 1)..(n - 1) : ~History!IsSegment(m)
    /\ block[n].tags = block[n].start..(n - 1)

Backbone ==
    \A n \in 1..Top : IF History!IsSegment(n) THEN SegmentAt(n) ELSE block[n].start = 0 /\ block[n].back = 0

LEMMA CoverageIsRange ==
    ASSUME NEW held \in SUBSET Nat, NEW n \in Nat, SegmentAt(n)
    PROVE  History!CoverageHolds(held, n) <=> block[n].start..(n - 1) \subseteq held
  <1> DEFINE s == block[n].start
  <1>1. s \in 1..(n - 1) /\ block[n].end = n /\ block[n].tags = s..(n - 1)
    BY DEF SegmentAt
  <1>2. History!CoverageHolds(held, n) <=> s..(n - 1) = {m \in held : s <= m /\ m <= n - 1}
    BY <1>1 DEF History!CoverageHolds, History!TagsInRange
  <1>3. s \in Nat
    BY <1>1
  <1> HIDE DEF s
  <1>4. s..(n - 1) = {m \in held : s <= m /\ m <= n - 1} <=> s..(n - 1) \subseteq held
    <2> DEFINE T == {m \in held : s <= m /\ m <= n - 1}
               R == s..(n - 1)
    <2>1. \A m : m \in T <=> m \in held /\ m \in R
      <3>1. ASSUME NEW m \in held PROVE s <= m /\ m <= n - 1 <=> m \in R
        <4>1. m \in Nat
          OBVIOUS
        <4> QED
          BY <4>1, <1>3
      <3> QED
        BY <3>1, Zenon
    <2>2. (\A m : m \in R <=> m \in T) <=> R \subseteq held
      <3> HIDE DEF T, R
      <3> QED
        BY <2>1, Zenon
    <2>3. R = T <=> (\A m : m \in R <=> m \in T)
      <3> HIDE DEF T, R
      <3> QED
        OBVIOUS
    <2> QED
      BY <2>2, <2>3, Zenon
  <1> QED
    BY <1>2, <1>4 DEF s

\* The fast verification walks from a segment to the anchor exactly when nothing is missing in between.
LEMMA BackboneStands ==
    ASSUME Top \in Nat, Backbone, NEW held \in SUBSET (1..Top),
           NEW a, a.seq \in 0..Top, a.seq > 1 => History!IsSegment(a.seq),
           NEW newest \in 1..Top, History!IsSegment(newest), newest > a.seq
    PROVE  History!VerifyBackbone(held, a, newest) <=>
               (IF a.seq = 0 THEN 1 ELSE a.seq)..(newest - 1) \subseteq held
  <1> DEFINE A == a.seq
             back(n) == block[n].back
             Link(n) == back(n) = A \/ block[back(n)].end = block[n].start
             Rest(f, n) == IF back(n) = 0 THEN block[n].start = 1
                           ELSE /\ back(n) \in held /\ Link(n) /\ f[back(n)]
             Walk(f) == [n \in 1..Top |-> n = A \/ (History!CoverageHolds(held, n) /\ Rest(f, n))]
             w == CHOOSE f : f = Walk(f)
             Lower(n) == IF A > 0 /\ n > A THEN A ELSE 1
             Whole(n) == n = A \/ (History!IsSegment(n) /\ Lower(n)..(n - 1) \subseteq held)
             W == [n \in 1..Top |-> Whole(n)]
  <1>1. History!VerifyBackbone(held, a, newest) = w[newest]
    <2>1. w = CHOOSE f : f = [n \in 1..Len(block) |->
                \/ n = a.seq
                \/ /\ History!CoverageHolds(held, n)
                   /\ IF block[n].back = 0 THEN block[n].start = 1
                      ELSE /\ block[n].back \in held
                           /\ block[n].back = a.seq \/ block[block[n].back].end = block[n].start
                           /\ f[block[n].back]]
      BY Zenon DEF Top
    <2> HIDE DEF w
    <2> QED
      BY <2>1, Zenon DEF History!VerifyBackbone, History!Top
  <1>2. A \in Nat
    OBVIOUS
  <1>3. ASSUME NEW n \in 1..Top, ~History!IsSegment(n) PROVE ~History!CoverageHolds(held, n)
    <2>1. block[n].start = 0 /\ block[n].end = 0
      BY <1>3 DEF Backbone, History!IsSegment
    <2> QED
      BY <2>1 DEF History!CoverageHolds
  <1>4. ASSUME NEW n \in 1..Top, History!IsSegment(n)
        PROVE  /\ n >= 2 /\ back(n) \in 0..(n - 1) /\ (back(n) # 0 => back(n) \in 1..Top)
               /\ back(n) = 0 => block[n].start = 1
               /\ back(n) # 0 => History!IsSegment(back(n)) /\ block[n].start = back(n) /\ Link(n)
               /\ \A m \in (back(n) + 1)..(n - 1) : ~History!IsSegment(m)
               /\ History!CoverageHolds(held, n) <=> block[n].start..(n - 1) \subseteq held
    <2>1. SegmentAt(n)
      BY <1>4 DEF Backbone
    <2>2. History!CoverageHolds(held, n) <=> block[n].start..(n - 1) \subseteq held
      BY <2>1, CoverageIsRange
    <2>3. back(n) # 0 => back(n) \in 1..Top
      BY <2>1 DEF SegmentAt
    <2>4. back(n) # 0 => block[back(n)].end = back(n)
      BY <2>1, <2>3 DEF SegmentAt, Backbone
    <2> QED
      BY <2>1, <2>2, <2>3, <2>4 DEF SegmentAt
  <1> HIDE DEF A
  <1>5. ASSUME NEW n \in 1..Top, History!IsSegment(n), n # A
        PROVE  Whole(n) <=> /\ block[n].start..(n - 1) \subseteq held
                            /\ back(n) # 0 => Whole(back(n))
    <2> DEFINE b == back(n)
    <2>1. n \in Nat /\ b \in Nat /\ b < n /\ n >= 2
      BY <1>4, <1>5
    <2>2. CASE b = 0
      <3>1. block[n].start = 1
        BY <1>4, <1>5, <2>2
      <3>2. Lower(n) = 1
        <4> SUFFICES ASSUME A > 1, n > A PROVE FALSE
          BY <1>2
        <4>1. History!IsSegment(A) /\ A \in (b + 1)..(n - 1)
          BY <1>2, <2>1, <2>2 DEF A
        <4> QED
          BY <1>4, <1>5, <4>1
      <3> QED
        BY <1>5, <2>2, <3>1, <3>2
    <2>3. CASE b # 0
      <3>1. block[n].start = b /\ History!IsSegment(b) /\ b \in 1..Top /\ b >= 2
        <4>1. block[n].start = b /\ History!IsSegment(b) /\ b \in 1..Top
          BY <1>4, <1>5, <2>3
        <4> QED
          BY <1>4, <4>1
      <3>2. A > 1 /\ n > A => A <= b
        <4> SUFFICES ASSUME A > 1, n > A, b < A PROVE FALSE
          BY <1>2, <2>1
        <4>1. History!IsSegment(A) /\ A \in (b + 1)..(n - 1)
          BY <1>2, <2>1 DEF A
        <4> QED
          BY <1>4, <1>5, <4>1
      <3> HIDE DEF b
      <3>3. CASE A = b
        <4>1. Lower(n) = b
          BY <1>2, <2>1, <3>1, <3>3
        <4> QED
          BY <1>5, <2>3, <3>1, <3>3, <4>1 DEF b
      <3>4. CASE A # b
        <4>1. Lower(n) = Lower(b) /\ Lower(b) \in 1..b
          BY <1>2, <1>5, <2>1, <3>1, <3>2, <3>4
        <4> DEFINE l == Lower(b)
        <4>2. l \in 1..b
          BY <4>1
        <4> HIDE DEF l
        <4>3. l..(n - 1) \subseteq held <=> b..(n - 1) \subseteq held /\ l..(b - 1) \subseteq held
          BY <2>1, <3>1, <4>2
        <4>4. Whole(n) <=> l..(n - 1) \subseteq held
          BY <1>5, <4>1 DEF l
        <4>5. Whole(b) <=> l..(b - 1) \subseteq held
          BY <3>1, <3>4 DEF l
        <4> QED
          BY <2>3, <3>1, <4>3, <4>4, <4>5 DEF b
      <3> QED
        BY <3>3, <3>4
    <2> QED
      BY <2>2, <2>3
  <1>6. ASSUME NEW n \in 1..Top
        PROVE  W[n] = (n = A \/ (History!CoverageHolds(held, n) /\ Rest(W, n)))
    <2>1. CASE n = A
      BY <2>1
    <2>2. CASE n # A /\ ~History!IsSegment(n)
      BY <1>3, <2>2
    <2>3. CASE n # A /\ History!IsSegment(n)
      <3>1. Rest(W, n) <=> (back(n) = 0 \/ (back(n) \in held /\ Whole(back(n))))
        BY <1>4, <2>3
      <3>2. back(n) # 0 /\ block[n].start..(n - 1) \subseteq held => back(n) \in held
        BY <1>4, <2>3
      <3>3. W[n] <=> Whole(n)
        OBVIOUS
      <3>4. History!CoverageHolds(held, n) <=> block[n].start..(n - 1) \subseteq held
        BY <1>4, <2>3
      <3> HIDE DEF Whole, Rest
      <3>5. W[n] <=> (History!CoverageHolds(held, n) /\ Rest(W, n))
        BY <1>5, <2>3, <3>1, <3>2, <3>3, <3>4
      <3>6. W[n] \in BOOLEAN
        BY DEF Whole
      <3> QED
        BY <2>3, <3>5, <3>6
    <2> QED
      BY <2>1, <2>2, <2>3
  <1>7. W = Walk(W)
    <2> HIDE DEF Rest, Whole
    <2> QED
      BY <1>6
  <1>8. w = Walk(w)
    <2> HIDE DEF W, Walk
    <2>1. \E f : f = Walk(f)
      BY <1>7
    <2> QED
      BY <2>1
  <1> HIDE DEF w, W
  <1>9. ASSUME NEW n \in 1..Top
        PROVE  w[n] = (n = A \/ (History!CoverageHolds(held, n) /\ Rest(w, n)))
    <2> HIDE DEF Rest
    <2> QED
      BY <1>8
  <1>10. \A n \in 1..Top : w[n] = W[n]
    <2> DEFINE S == {n \in 1..Top : w[n] = W[n]}
    <2>1. ASSUME NEW n \in 1..Top, \A m \in 1..(n - 1) : m \in S PROVE n \in S
      <3>1. CASE ~History!IsSegment(n)
        <4> HIDE DEF Rest
        <4> QED
          BY <1>3, <1>6, <1>9, <3>1
      <3>2. CASE History!IsSegment(n)
        <4>1. back(n) # 0 => w[back(n)] = W[back(n)]
          BY <1>4, <2>1, <3>2
        <4>2. Rest(w, n) = Rest(W, n)
          BY <4>1
        <4> HIDE DEF Rest
        <4> QED
          BY <1>6, <1>9, <4>2
      <3> QED
        BY <3>1, <3>2
    <2> HIDE DEF S
    <2>2. \A n \in 1..Top : n \in S
      BY <2>1, FromBelow
    <2> QED
      BY <2>2 DEF S
  <1>11. w[newest] <=> Whole(newest)
    BY <1>10 DEF W
  <1>12. Lower(newest) = IF A = 0 THEN 1 ELSE A
    BY <1>2 DEF A
  <1> QED
    BY <1>1, <1>2, <1>11, <1>12 DEF A

-----------------------------------------------------------------------------
(* What a client does with one record *)

State == {"none", "in_sync", "pending_sync", "invalid"}
RowStates == [1..MaxLog -> State]
HeldIn(s) == {n \in 1..MaxLog : s[n] = "in_sync"}

\* a client that waits for the record of its anchor: nothing is in sync, nothing was refused
Waits(s) == \A n \in 1..MaxLog : s[n] \in {"none", "pending_sync"}

\* a client whose anchor is there, or that has none: from there on nothing is missing below a
\* record in sync, and before it the records ch are there
Root(a) == IF a.seq = 0 THEN 1 ELSE a.seq
Rooted(s, a, ch) ==
    /\ a.seq > 0 => s[a.seq] = "in_sync"
    /\ \A n \in HeldIn(s) : \A m \in Root(a)..n : s[m] = "in_sync"
    /\ \A n \in ch : n < a.seq => s[n] = "in_sync"
    /\ \A n \in 1..MaxLog : n <= a.seq => s[n] # "pending_sync"

\* the waiting records that a record n in sync takes along
Follows(s, a, n, m) ==
    /\ s[m] = "pending_sync"
    /\ (n = a.seq /\ m < n) \/ (m > n /\ \A k \in (n + 1)..m : s[k] = "pending_sync")

Verdict(s, a, refused, n) == History!CheckChainBlock(HeldIn(s), a, refused, n)

\* r is what becomes of s when the record n comes and the verdict on it is v
Handles(s, a, refused, n, v, r) ==
    /\ v \in {"in_sync", "pending_sync", "invalid"}
    /\ r.refused = (refused \/ (n = a.seq /\ ~a.same))
    /\ r = [state |-> r.state, refused |-> r.refused]
    /\ r.state \in RowStates /\ r.state[n] = v
    /\ \A m \in 1..MaxLog : m # n =>
          r.state[m] = IF v = "in_sync" /\ Follows(s, a, n, m) THEN "in_sync" ELSE s[m]

LEMMA HandleResult ==
    ASSUME NEW s \in RowStates, NEW a, NEW refused \in BOOLEAN, NEW n \in 1..MaxLog, s[n] = "none",
           NEW v, v = Verdict(s, a, refused, n),
           NEW r, r = History!HandleRecord(a, [state |-> s, refused |-> refused], n)
    PROVE  Handles(s, a, refused, n, v, r)
  <1> DEFINE stored == [s EXCEPT ![n] = v]
             promoted == [m \in 1..MaxLog |->
                            IF n = a.seq /\ m < n /\ stored[m] = "pending_sync" THEN "in_sync" ELSE stored[m]]
             checked == [m \in 1..MaxLog |->
                            IF m > n /\ \A k \in (n + 1)..m : promoted[k] = "pending_sync" THEN "in_sync" ELSE promoted[m]]
             result == [state |-> IF v = "in_sync" THEN checked ELSE stored,
                        refused |-> refused \/ (n = a.seq /\ ~a.same)]
  <1>1. v \in {"in_sync", "pending_sync", "invalid"}
    BY DEF Verdict, History!CheckChainBlock, History!CheckStrict
  <1>2. DOMAIN s = 1..MaxLog /\ s \in [1..MaxLog -> State] /\ MaxLog \in Nat
    BY HistoryAssumption DEF RowStates
  <1>3. stored \in RowStates /\ stored[n] = v /\ \A m \in 1..MaxLog : m # n => stored[m] = s[m]
    BY <1>1, <1>2 DEF RowStates, State
  <1>4. DOMAIN stored = 1..MaxLog /\ DOMAIN promoted = 1..MaxLog
    BY <1>2
  <1>5. r = result
    <2>1. HeldIn(s) = {m \in DOMAIN s : s[m] = "in_sync"}
      BY <1>2 DEF HeldIn
    <2>2. History!Promoted(stored, a, n) = promoted
      BY <1>4 DEF History!Promoted
    <2> HIDE DEF promoted, stored
    <2>3. History!PendingChecked(promoted, n) = checked
      BY <1>4 DEF History!PendingChecked
    <2> HIDE DEF checked
    <2>4. v = History!CheckChainBlock({m \in DOMAIN s : s[m] = "in_sync"}, a, refused, n)
      BY <2>1 DEF Verdict
    <2>5. r = [state |-> IF v = "in_sync" THEN History!PendingChecked(History!Promoted(stored, a, n), n) ELSE stored,
               refused |-> refused \/ (n = a.seq /\ ~a.same)]
      BY <2>4, Zenon DEF History!HandleRecord, stored
    <2> QED
      BY <2>2, <2>3, <2>5
  <1> HIDE DEF stored
  <1>6. \A m \in 1..MaxLog : m > n => promoted[m] = s[m]
    BY <1>2, <1>3
  <1>7. ASSUME NEW m \in 1..MaxLog, m # n
        PROVE  checked[m] = IF Follows(s, a, n, m) THEN "in_sync" ELSE s[m]
    <2>1. CASE m > n
      <3>1. \A k \in (n + 1)..m : promoted[k] = s[k] /\ k \in 1..MaxLog
        <4>1. \A k \in (n + 1)..m : k \in 1..MaxLog /\ k > n
          BY <1>2, <2>1
        <4> HIDE DEF promoted
        <4> QED
          BY <1>6, <4>1
      <3>2. m \in (n + 1)..m
        BY <2>1
      <3> HIDE DEF promoted
      <3> QED
        BY <1>6, <2>1, <3>1, <3>2 DEF Follows
    <2>2. CASE m < n
      <3>1. checked[m] = promoted[m]
        BY <2>2
      <3>2. promoted[m] = IF n = a.seq /\ s[m] = "pending_sync" THEN "in_sync" ELSE s[m]
        BY <1>3, <2>2
      <3> HIDE DEF promoted, checked
      <3> QED
        BY <2>2, <3>1, <3>2 DEF Follows
    <2> QED
      BY <1>7, <2>1, <2>2
  <1>8. v = "in_sync" => checked[n] = v
    BY <1>3
  <1>9. checked \in RowStates
    BY <1>3 DEF RowStates, State
  <1> HIDE DEF promoted, checked
  <1> QED
    BY <1>1, <1>3, <1>5, <1>7, <1>8, <1>9 DEF Handles

\* what is known stays known, and nothing else becomes known
KnownStays(s, a, refused, n, r) ==
    /\ r = [state |-> r.state, refused |-> r.refused]
    /\ r.state \in RowStates /\ r.refused \in BOOLEAN
    /\ \A m \in 1..MaxLog : r.state[m] = "none" <=> (s[m] = "none" /\ m # n)
    /\ r.refused => refused \/ ~a.same

LEMMA HandleTypes ==
    ASSUME NEW s \in RowStates, NEW a, NEW refused \in BOOLEAN, NEW n \in 1..MaxLog,
           NEW r, r = History!HandleRecord(a, [state |-> s, refused |-> refused], n)
    PROVE  KnownStays(s, a, refused, n, r)
  <1>1. CASE s[n] # "none"
    <2>1. r = [state |-> s, refused |-> refused]
      BY <1>1 DEF History!HandleRecord
    <2> QED
      BY <1>1, <2>1 DEF KnownStays
  <1>2. CASE s[n] = "none"
    <2> DEFINE v == Verdict(s, a, refused, n)
    <2>1. v = Verdict(s, a, refused, n)
      OBVIOUS
    <2> HIDE DEF v
    <2>2. Handles(s, a, refused, n, v, r)
      BY <1>2, <2>1, HandleResult
    <2>3. \A m \in 1..MaxLog : m # n => (r.state[m] = "none" <=> s[m] = "none")
      BY <2>2 DEF Follows, Handles
    <2>4. r.refused \in BOOLEAN /\ (r.refused => refused \/ ~a.same)
      <3>1. r.refused = (refused \/ (n = a.seq /\ ~a.same))
        BY <2>2 DEF Handles
      <3> QED
        BY <3>1
    <2>5. /\ v # "none" /\ r = [state |-> r.state, refused |-> r.refused]
          /\ r.state \in RowStates /\ r.state[n] = v
      BY <2>2 DEF Handles
    <2> QED
      BY <1>2, <2>3, <2>4, <2>5 DEF KnownStays
  <1> QED
    BY <1>1, <1>2

\* a client whose anchor is of another history takes nothing in
LEMMA HandleOther ==
    ASSUME NEW s \in RowStates, NEW a, NEW refused \in BOOLEAN, NEW n \in 1..MaxLog,
           ~a.same, a.seq > 0, HeldIn(s) = {},
           NEW r, r = History!HandleRecord(a, [state |-> s, refused |-> refused], n)
    PROVE  HeldIn(r.state) = {}
  <1>1. CASE s[n] # "none"
    <2>1. r = [state |-> s, refused |-> refused]
      BY <1>1 DEF History!HandleRecord
    <2> QED
      BY <2>1
  <1>2. CASE s[n] = "none"
    <2> DEFINE v == Verdict(s, a, refused, n)
    <2>1. v \in {"pending_sync", "invalid"}
      BY DEF Verdict, History!CheckChainBlock, History!AnchorHeld
    <2> HIDE DEF v
    <2>2. Handles(s, a, refused, n, v, r)
      BY <1>2, HandleResult DEF v
    <2>3. r.state[n] = v /\ \A m \in 1..MaxLog : m # n => r.state[m] = s[m]
      BY <2>1, <2>2 DEF Handles
    <2> QED
      BY <2>1, <2>3 DEF HeldIn
  <1> QED
    BY <1>1, <1>2

\* a client that waits for its anchor keeps waiting until it comes, and has then what came before
LEMMA HandleWaiting ==
    ASSUME NEW s \in RowStates, NEW a, NEW n \in 1..MaxLog, NEW ch \in SUBSET (1..MaxLog),
           a.same, a.seq \in 1..MaxLog, Waits(s),
           n = a.seq => \A m \in ch : m < n => s[m] # "none",
           NEW r, r = History!HandleRecord(a, [state |-> s, refused |-> FALSE], n)
    PROVE  Waits(r.state) \/ Rooted(r.state, a, ch)
  <1>1. CASE s[n] # "none"
    <2>1. r = [state |-> s, refused |-> FALSE]
      BY <1>1 DEF History!HandleRecord
    <2> QED
      BY <2>1
  <1>2. CASE s[n] = "none"
    <2> DEFINE v == Verdict(s, a, FALSE, n)
    <2>1. HeldIn(s) = {}
      BY DEF HeldIn, Waits
    <2>2. v = IF n = a.seq THEN "in_sync" ELSE "pending_sync"
      BY <2>1 DEF Verdict, History!CheckChainBlock, History!AnchorHeld
    <2> HIDE DEF v
    <2>3. Handles(s, a, FALSE, n, v, r)
      BY <1>2, HandleResult DEF v
    <2>4. CASE n # a.seq
      BY <2>2, <2>3, <2>4 DEF Waits, Handles
    <2>5. CASE n = a.seq
      <3>0. \A m \in 1..MaxLog : m # n => r.state[m] = IF Follows(s, a, n, m) THEN "in_sync" ELSE s[m]
        <4>1. \A m \in 1..MaxLog : m # n =>
                  r.state[m] = IF v = "in_sync" /\ Follows(s, a, n, m) THEN "in_sync" ELSE s[m]
          BY <2>3 DEF Handles
        <4>2. v = "in_sync"
          BY <2>2, <2>5
        <4> QED
          BY <4>1, <4>2
      <3>1. r.state[n] = "in_sync"
        BY <2>2, <2>3, <2>5 DEF Handles
      <3>2. \A m \in 1..MaxLog : m < n => r.state[m] = IF s[m] = "pending_sync" THEN "in_sync" ELSE "none"
        <4> SUFFICES ASSUME NEW m \in 1..MaxLog, m < n
                     PROVE  r.state[m] = IF s[m] = "pending_sync" THEN "in_sync" ELSE "none"
          OBVIOUS
        <4>0. m # n
          OBVIOUS
        <4>1. r.state[m] = IF Follows(s, a, n, m) THEN "in_sync" ELSE s[m]
          BY <3>0, <4>0
        <4> QED
          BY <4>1, <2>5 DEF Follows, Waits
      <3>3. \A m \in 1..MaxLog : m > n => (r.state[m] = "in_sync" <=> \A k \in (n + 1)..m : s[k] = "pending_sync")
        <4> SUFFICES ASSUME NEW m \in 1..MaxLog, m > n
                     PROVE  r.state[m] = "in_sync" <=> \A k \in (n + 1)..m : s[k] = "pending_sync"
          OBVIOUS
        <4>0. m # n
          OBVIOUS
        <4>1. r.state[m] = IF Follows(s, a, n, m) THEN "in_sync" ELSE s[m]
          BY <3>0, <4>0
        <4>2. s[m] # "in_sync" /\ m \in (n + 1)..m
          BY DEF Waits
        <4> QED
          BY <4>1, <4>2, <2>5 DEF Follows
      <3>4. ASSUME NEW i \in HeldIn(r.state), NEW m \in n..i PROVE r.state[m] = "in_sync"
        <4>1. i \in 1..MaxLog /\ r.state[i] = "in_sync"
          BY <3>4 DEF HeldIn
        <4>2. CASE m = n
          BY <3>1, <4>2
        <4>3. CASE m > n
          <5>1. m \in 1..MaxLog /\ i > n
            BY <4>1, <4>3, HistoryAssumption
          <5>2. \A k \in (n + 1)..i : s[k] = "pending_sync"
            BY <3>3, <4>1, <5>1
          <5>3. \A k \in (n + 1)..m : s[k] = "pending_sync"
            BY <5>1, <5>2, <4>1
          <5> QED
            BY <3>3, <4>3, <5>1, <5>3
        <4> QED
          BY <4>2, <4>3, <4>1
      <3>5. \A m \in ch : m < n => r.state[m] = "in_sync"
        BY <2>5, <3>2 DEF Waits
      <3>6. \A m \in 1..MaxLog : m <= n => r.state[m] # "pending_sync"
        <4>1. \A m \in 1..MaxLog : m <= n => m = n \/ m < n
          OBVIOUS
        <4> QED
          BY <3>1, <3>2, <4>1
      <3>7. Root(a) = n
        BY <2>5 DEF Root
      <3> QED
        BY <2>5, <3>1, <3>4, <3>5, <3>6, <3>7 DEF Rooted
    <2> QED
      BY <2>4, <2>5
  <1> QED
    BY <1>1, <1>2

\* a client that has its anchor, or none, takes what follows and what came before it
LEMMA HandleRooted ==
    ASSUME NEW s \in RowStates, NEW a, NEW n \in 1..MaxLog, NEW ch \in SUBSET (1..MaxLog),
           a.same, a.seq \in 0..MaxLog, Rooted(s, a, ch),
           NEW r, r = History!HandleRecord(a, [state |-> s, refused |-> FALSE], n)
    PROVE  Rooted(r.state, a, ch)
  <1>1. CASE s[n] # "none"
    <2>1. r = [state |-> s, refused |-> FALSE]
      BY <1>1 DEF History!HandleRecord
    <2> QED
      BY <2>1
  <1>2. CASE s[n] = "none"
    <2> DEFINE v == Verdict(s, a, FALSE, n)
               H == HeldIn(s)
               last == Newest(H)
    <2>1. H \in SUBSET (1..MaxLog) /\ MaxLog \in Nat
      BY HistoryAssumption DEF HeldIn
    <2>2. /\ last \in 0..MaxLog /\ (H # {} => last \in H) /\ (last = 0 <=> H = {})
          /\ \A m \in H : m <= last
      BY <2>1, NewestFacts
    <2>3. n \notin H /\ \A m \in 1..MaxLog : m \in H <=> s[m] = "in_sync"
      BY <1>2 DEF HeldIn
    <2>4. a.seq > 0 => a.seq \in H
      BY <2>3 DEF Rooted
    <2>5. v = IF n < a.seq THEN "in_sync" ELSE IF n = 1 \/ n - 1 \in H THEN "in_sync" ELSE "pending_sync"
      <3>1. v = History!CheckStrict(H, a, n)
        BY <2>4 DEF Verdict, History!CheckChainBlock, History!AnchorHeld
      <3>2. n >= a.seq => n > last
        <4> SUFFICES ASSUME n >= a.seq, n <= last PROVE FALSE
          BY <2>2
        <4>1. last \in H /\ n \in Root(a)..last
          BY <2>2 DEF Root
        <4> QED
          BY <2>3, <4>1 DEF Rooted
      <3>3. n > last /\ ~(n = 1 \/ n - 1 \in H) => last + 1 < n
        BY <2>2
      <3>4. History!CheckStrict(H, a, n) =
               IF a.seq > 0 /\ n \notin H /\ n < a.seq THEN "in_sync"
               ELSE IF n <= last THEN "invalid"
               ELSE IF n = 1 \/ n - 1 \in H THEN "in_sync"
               ELSE IF last + 1 < n THEN "pending_sync"
               ELSE "invalid"
        BY DEF History!CheckStrict, Newest
      <3> HIDE DEF v, H, last
      <3> QED
        BY <2>2, <2>3, <3>1, <3>2, <3>3, <3>4
    <2> HIDE DEF v
    <2>6. Handles(s, a, FALSE, n, v, r)
      BY <1>2, HandleResult DEF v
    <2>7. r.state[n] = v /\ \A m \in 1..MaxLog : m # n =>
                  r.state[m] = IF v = "in_sync" /\ Follows(s, a, n, m) THEN "in_sync" ELSE s[m]
      BY <2>6 DEF Handles
    <2>8. n # a.seq
      BY <2>3, <2>4
    <2>9. \A m \in 1..MaxLog : s[m] = "in_sync" => r.state[m] = "in_sync"
      BY <1>2, <2>7
    <2>10. \A m \in 1..MaxLog : m <= a.seq => r.state[m] # "pending_sync"
      <3> SUFFICES ASSUME NEW m \in 1..MaxLog, m <= a.seq, r.state[m] = "pending_sync" PROVE FALSE
        OBVIOUS
      <3>1. s[m] # "pending_sync"
        BY DEF Rooted
      <3>2. m = n
        BY <2>7, <3>1
      <3> QED
        BY <2>5, <2>7, <2>8, <3>2
    <2>11. ASSUME NEW i \in HeldIn(r.state), NEW m \in Root(a)..i PROVE r.state[m] = "in_sync"
      <3>1. i \in 1..MaxLog /\ r.state[i] = "in_sync" /\ m \in 1..MaxLog /\ m <= i /\ m >= Root(a)
        <4>1. i \in 1..MaxLog /\ r.state[i] = "in_sync"
          BY <2>11 DEF HeldIn
        <4>2. Root(a) \in Nat /\ Root(a) >= 1
          BY DEF Root
        <4> QED
          BY <2>1, <4>1, <4>2
      <3>2. CASE s[i] = "in_sync"
        <4>1. i \in HeldIn(s)
          BY <3>1, <3>2 DEF HeldIn
        <4>2. s[m] = "in_sync"
          BY <4>1 DEF Rooted
        <4> QED
          BY <2>9, <3>1, <4>2
      <3>3. CASE s[i] # "in_sync"
        <4>1. v = "in_sync" /\ (i = n \/ Follows(s, a, n, i))
          BY <2>7, <3>1, <3>3
        <4>2. \A k \in 1..MaxLog : k >= Root(a) /\ k < n => s[k] = "in_sync"
          <5> SUFFICES ASSUME NEW k \in 1..MaxLog, k >= Root(a), k < n PROVE s[k] = "in_sync"
            OBVIOUS
          <5>1. n - 1 \in H
            BY <2>5, <4>1 DEF Root
          <5>2. k \in Root(a)..(n - 1)
            BY DEF Root
          <5> QED
            BY <5>1, <5>2 DEF Rooted
        <4>3. CASE m < n
          BY <2>9, <3>1, <4>2, <4>3
        <4>4. CASE m = n
          BY <2>7, <4>1, <4>4
        <4>5. CASE m > n
          <5>1. Follows(s, a, n, i) /\ i > n
            BY <3>1, <4>1, <4>5
          <5>2. \A k \in (n + 1)..i : s[k] = "pending_sync"
            BY <2>8, <5>1 DEF Follows
          <5>3. Follows(s, a, n, m)
            <6>1. \A k \in (n + 1)..m : k \in (n + 1)..i
              BY <3>1, <4>5
            <6>2. m \in (n + 1)..i
              BY <3>1, <4>5
            <6> QED
              BY <4>5, <5>2, <6>1, <6>2 DEF Follows
          <5> QED
            BY <2>7, <3>1, <4>1, <4>5, <5>3
        <4> QED
          BY <3>1, <4>3, <4>4, <4>5
      <3> QED
        BY <3>2, <3>3
    <2>12. a.seq > 0 => r.state[a.seq] = "in_sync"
      <3>1. a.seq > 0 => a.seq \in 1..MaxLog /\ s[a.seq] = "in_sync"
        BY DEF Rooted
      <3> QED
        BY <2>9, <3>1
    <2>13. \A m \in ch : m < a.seq => r.state[m] = "in_sync"
      BY <2>9 DEF Rooted
    <2> QED
      BY <2>10, <2>11, <2>12, <2>13 DEF Rooted
  <1> QED
    BY <1>1, <1>2

-----------------------------------------------------------------------------
(* What a client does with the records of an answer *)

LEMMA BatchTypes ==
    ASSUME NEW c, NEW batch \in SUBSET (1..Top), Top \in 1..MaxLog, rows[c] \in RowStates
    PROVE  \A n \in 0..Top :
              LET h == Handled(c, batch)[n]
              IN  /\ h = [state |-> h.state, refused |-> h.refused]
                  /\ h.state \in RowStates /\ h.refused \in BOOLEAN
                  /\ \A m \in 1..MaxLog : h.state[m] = "none" <=> (rows[c][m] = "none" /\ (m \in batch => m > n))
                  /\ h.refused => c \in bad \/ ~anchor[c].same
  <1> DEFINE h(n) == Handled(c, batch)[n]
             Good(n) == /\ h(n) = [state |-> h(n).state, refused |-> h(n).refused]
                        /\ h(n).state \in RowStates /\ h(n).refused \in BOOLEAN
                        /\ \A m \in 1..MaxLog : h(n).state[m] = "none" <=> (rows[c][m] = "none" /\ (m \in batch => m > n))
                        /\ h(n).refused => c \in bad \/ ~anchor[c].same
             S == {n \in 0..Top : Good(n)}
  <1>1. Top \in Nat /\ MaxLog \in Nat /\ \A n \in 1..Top : n \in 1..MaxLog
    BY HistoryAssumption
  <1>2. h(0) = [state |-> rows[c], refused |-> c \in bad]
    BY <1>1, HandledUnfolds
  <1>3. \A n \in 1..Top : h(n) = Handle(c, batch, h(n - 1), n)
    BY <1>1, HandledUnfolds
  <1> HIDE DEF h
  <1>4. Good(0)
    <2>1. h(0).state = rows[c] /\ h(0).refused = (c \in bad)
      BY <1>2
    <2>2. h(0).refused \in BOOLEAN /\ (h(0).refused => c \in bad)
      <3>1. CASE c \in bad
        BY <2>1, <3>1
      <3>2. CASE c \notin bad
        <4>1. (c \in bad) = FALSE
          BY <3>2
        <4>2. h(0).refused = FALSE
          BY <2>1, <4>1
        <4> QED
          BY <4>2
      <3> QED
        BY <3>1, <3>2
    <2>3. \A m \in 1..MaxLog : m > 0
      BY <1>1
    <2>4. h(0) = [state |-> h(0).state, refused |-> h(0).refused]
      BY <1>2
    <2> QED
      BY <2>1, <2>2, <2>3, <2>4
  <1>5. ASSUME NEW n \in 0..Top, Good(n), n < Top PROVE Good(n + 1)
    <2>1. n + 1 \in 1..Top /\ n + 1 \in 1..MaxLog /\ (n + 1) - 1 = n
      BY <1>1, <1>5
    <2>2. h(n + 1) = Handle(c, batch, h(n), n + 1)
      BY <1>3, <2>1
    <2>3. CASE n + 1 \notin batch
      <3>1. h(n + 1) = h(n)
        BY <2>2, <2>3 DEF Handle
      <3>2. \A m \in batch : m > n <=> m > n + 1
        BY <1>1, <2>1, <2>3
      <3> QED
        BY <1>5, <3>1, <3>2
    <2>4. CASE n + 1 \in batch
      <3> DEFINE s == h(n).state
                 ref == h(n).refused
                 r == h(n + 1)
      <3>1. s \in RowStates /\ ref \in BOOLEAN /\ h(n) = [state |-> s, refused |-> ref]
        BY <1>5
      <3>2. r = History!HandleRecord(anchor[c], [state |-> s, refused |-> ref], n + 1)
        BY <2>2, <2>4, <3>1 DEF Handle
      <3>3. (ref => c \in bad \/ ~anchor[c].same) /\
            \A m \in 1..MaxLog : s[m] = "none" <=> (rows[c][m] = "none" /\ (m \in batch => m > n))
        BY <1>5
      <3> HIDE DEF s, ref, r
      <3>4. /\ r = [state |-> r.state, refused |-> r.refused]
            /\ r.state \in RowStates /\ r.refused \in BOOLEAN
            /\ \A m \in 1..MaxLog : r.state[m] = "none" <=> (s[m] = "none" /\ m # n + 1)
            /\ r.refused => ref \/ ~anchor[c].same
        <4>1. KnownStays(s, anchor[c], ref, n + 1, r)
          BY <2>1, <3>1, <3>2, HandleTypes
        <4> QED
          BY <4>1 DEF KnownStays
      <3>5. \A m \in 1..MaxLog : ((m \in batch => m > n) /\ m # n + 1) <=> (m \in batch => m > n + 1)
        BY <1>1, <2>1, <2>4
      <3>6. \A m \in 1..MaxLog : r.state[m] = "none" <=> (rows[c][m] = "none" /\ (m \in batch => m > n + 1))
        BY <3>3, <3>4, <3>5
      <3>7. r.refused => c \in bad \/ ~anchor[c].same
        BY <3>3, <3>4
      <3> QED
        BY <3>4, <3>6, <3>7 DEF r
    <2> QED
      BY <2>3, <2>4
  <1> HIDE DEF Good
  <1>6. 0 \in S /\ \A n \in 0..Top : n \in S /\ n < Top => n + 1 \in S
    BY <1>1, <1>4, <1>5
  <1>7. \A n \in 0..Top : n \in S
    <2> HIDE DEF S
    <2> QED
      BY <1>1, <1>6, UpTo
  <1> QED
    BY <1>7 DEF Good, h

LEMMA BatchOther ==
    ASSUME NEW c, NEW batch \in SUBSET (1..Top), Top \in 1..MaxLog, rows[c] \in RowStates,
           ~anchor[c].same, anchor[c].seq > 0, HeldIn(rows[c]) = {}
    PROVE  HeldIn(Handled(c, batch)[Top].state) = {}
  <1> DEFINE h(n) == Handled(c, batch)[n]
             S == {n \in 0..Top : HeldIn(h(n).state) = {}}
  <1>1. Top \in Nat /\ MaxLog \in Nat /\ \A n \in 1..Top : n \in 1..MaxLog
    BY HistoryAssumption
  <1>2. \A n \in 1..Top : h(n) = Handle(c, batch, h(n - 1), n)
    BY <1>1, HandledUnfolds
  <1>3. \A n \in 0..Top : /\ h(n) = [state |-> h(n).state, refused |-> h(n).refused]
                          /\ h(n).state \in RowStates /\ h(n).refused \in BOOLEAN
    BY BatchTypes
  <1>4. 0 \in S
    <2>1. h(0) = [state |-> rows[c], refused |-> c \in bad]
      BY <1>1, HandledUnfolds
    <2>2. h(0).state = rows[c]
      BY <2>1
    <2> QED
      BY <1>1, <2>2
  <1> HIDE DEF h
  <1>5. ASSUME NEW n \in 0..Top, n \in S, n < Top PROVE n + 1 \in S
    <2>1. n + 1 \in 1..Top /\ n + 1 \in 1..MaxLog /\ (n + 1) - 1 = n
      BY <1>1, <1>5
    <2>2. h(n + 1) = Handle(c, batch, h(n), n + 1)
      BY <1>2, <2>1
    <2>3. CASE n + 1 \notin batch
      BY <1>5, <2>1, <2>2, <2>3 DEF Handle
    <2>4. CASE n + 1 \in batch
      <3>1. h(n + 1) = History!HandleRecord(anchor[c], [state |-> h(n).state, refused |-> h(n).refused], n + 1)
        BY <1>3, <2>2, <2>4 DEF Handle
      <3>2. HeldIn(h(n + 1).state) = {}
        BY <1>3, <1>5, <2>1, <3>1, HandleOther, ZenonT(30)
      <3> QED
        BY <2>1, <3>2
    <2> QED
      BY <2>3, <2>4
  <1>6. \A n \in 0..Top : n \in S
    <2> HIDE DEF S
    <2> QED
      BY <1>1, <1>4, <1>5, UpTo
  <1> QED
    BY <1>1, <1>6 DEF h

\* where nothing was refused, the next record is handled by itself
LEMMA BatchStep ==
    ASSUME NEW c, NEW batch \in SUBSET (1..Top), Top \in 1..MaxLog, rows[c] \in RowStates,
           anchor[c].same, c \notin bad, NEW n \in 0..Top, n < Top, n + 1 \in batch
    PROVE  /\ n + 1 \in 1..MaxLog
           /\ Handled(c, batch)[n + 1] =
                 History!HandleRecord(anchor[c], [state |-> Handled(c, batch)[n].state, refused |-> FALSE], n + 1)
  <1> DEFINE h(i) == Handled(c, batch)[i]
  <1>1. n + 1 \in 1..Top /\ n + 1 \in 1..MaxLog /\ (n + 1) - 1 = n /\ Top \in Nat
    BY HistoryAssumption
  <1>2. h(n + 1) = Handle(c, batch, h(n), n + 1)
    BY <1>1, HandledUnfolds
  <1>3. h(n) = [state |-> h(n).state, refused |-> h(n).refused] /\ h(n).refused \in BOOLEAN /\ ~h(n).refused
    BY BatchTypes
  <1> HIDE DEF h
  <1>4. h(n) = [state |-> h(n).state, refused |-> FALSE]
    BY <1>3
  <1>5. h(n + 1) = History!HandleRecord(anchor[c], h(n), n + 1)
    BY <1>2 DEF Handle
  <1> QED
    BY <1>1, <1>4, <1>5 DEF h

LEMMA BatchSkip ==
    ASSUME NEW c, NEW batch, Top \in Nat, NEW n \in 0..Top, n < Top, n + 1 \notin batch
    PROVE  Handled(c, batch)[n + 1] = Handled(c, batch)[n]
  <1>1. n + 1 \in 1..Top /\ (n + 1) - 1 = n
    OBVIOUS
  <1>2. Handled(c, batch)[n + 1] = Handle(c, batch, Handled(c, batch)[n], n + 1)
    BY <1>1, HandledUnfolds
  <1> QED
    BY <1>2 DEF Handle

LEMMA BatchStart ==
    ASSUME NEW c, NEW batch, Top \in Nat
    PROVE  Handled(c, batch)[0].state = rows[c]
  <1>1. Handled(c, batch)[0] = [state |-> rows[c], refused |-> c \in bad]
    BY HandledUnfolds
  <1> QED
    BY <1>1

LEMMA BatchRooted ==
    ASSUME NEW c, NEW batch \in SUBSET (1..Top), Top \in 1..MaxLog, rows[c] \in RowStates,
           NEW ch \in SUBSET (1..MaxLog), anchor[c].same, anchor[c].seq \in 0..MaxLog, c \notin bad,
           Rooted(rows[c], anchor[c], ch)
    PROVE  Rooted(Handled(c, batch)[Top].state, anchor[c], ch)
  <1> DEFINE s(n) == Handled(c, batch)[n].state
             S == {n \in 0..Top : Rooted(s(n), anchor[c], ch)}
  <1>1. Top \in Nat /\ 0 \in 0..Top /\ Top \in 0..Top
    BY HistoryAssumption
  <1>2. 0 \in S
    BY <1>1, BatchStart
  <1>3. ASSUME NEW n \in 0..Top, n \in S, n < Top PROVE n + 1 \in S
    <2>0. n + 1 \in 0..Top
      BY <1>1, <1>3
    <2>1. CASE n + 1 \notin batch
      <3>1. s(n + 1) = s(n)
        BY <1>1, <1>3, <2>1, BatchSkip
      <3> QED
        BY <1>3, <2>0, <3>1
    <2>2. CASE n + 1 \in batch
      <3>1. n + 1 \in 1..MaxLog /\ Handled(c, batch)[n + 1] =
                 History!HandleRecord(anchor[c], [state |-> s(n), refused |-> FALSE], n + 1)
        BY <1>3, <2>2, BatchStep
      <3>2. s(n) \in RowStates
        BY BatchTypes
      <3>3. Rooted(s(n + 1), anchor[c], ch)
        <4> HIDE DEF s
        <4>1. Rooted(Handled(c, batch)[n + 1].state, anchor[c], ch)
          BY <1>3, <3>1, <3>2, HandleRooted
        <4> QED
          BY <4>1 DEF s
      <3> QED
        BY <2>0, <3>3
    <2> QED
      BY <2>1, <2>2
  <1>4. \A n \in 0..Top : n \in S
    <2> HIDE DEF S
    <2> QED
      BY <1>1, <1>2, <1>3, UpTo
  <1> QED
    BY <1>1, <1>4

\* When the record of the anchor comes, what the records ch are is here or came before it.
LEMMA BatchWaiting ==
    ASSUME NEW c, NEW batch \in SUBSET (1..Top), Top \in 1..MaxLog, rows[c] \in RowStates,
           NEW ch \in SUBSET (1..MaxLog), anchor[c].same, anchor[c].seq \in 1..MaxLog, c \notin bad,
           Waits(rows[c]),
           anchor[c].seq \in batch =>
               \A m \in ch : m < anchor[c].seq => rows[c][m] # "none" \/ m \in batch
    PROVE  \/ Waits(Handled(c, batch)[Top].state)
           \/ Rooted(Handled(c, batch)[Top].state, anchor[c], ch)
  <1> DEFINE s(n) == Handled(c, batch)[n].state
             S == {n \in 0..Top : Waits(s(n)) \/ Rooted(s(n), anchor[c], ch)}
  <1>1. Top \in Nat /\ 0 \in 0..Top /\ Top \in 0..Top
    BY HistoryAssumption
  <1>2. 0 \in S
    BY <1>1, BatchStart
  <1>3. ASSUME NEW n \in 0..Top, n \in S, n < Top PROVE n + 1 \in S
    <2>0. n + 1 \in 0..Top
      BY <1>1, <1>3
    <2>1. CASE n + 1 \notin batch
      <3>1. s(n + 1) = s(n)
        BY <1>1, <1>3, <2>1, BatchSkip
      <3> QED
        BY <1>3, <2>0, <3>1
    <2>2. CASE n + 1 \in batch
      <3>1. n + 1 \in 1..MaxLog /\ Handled(c, batch)[n + 1] =
                 History!HandleRecord(anchor[c], [state |-> s(n), refused |-> FALSE], n + 1)
        BY <1>3, <2>2, BatchStep
      <3>2. /\ s(n) \in RowStates
            /\ \A m \in 1..MaxLog : s(n)[m] = "none" <=> (rows[c][m] = "none" /\ (m \in batch => m > n))
        BY BatchTypes
      <3> HIDE DEF s
      <3>3. CASE Rooted(s(n), anchor[c], ch)
        <4>1. Rooted(Handled(c, batch)[n + 1].state, anchor[c], ch)
          BY <3>1, <3>2, <3>3, HandleRooted
        <4> QED
          BY <2>0, <4>1 DEF s
      <3>4. CASE Waits(s(n))
        <4>1. n + 1 = anchor[c].seq => \A m \in ch : m < n + 1 => s(n)[m] # "none"
          <5> SUFFICES ASSUME n + 1 = anchor[c].seq, NEW m \in ch, m < n + 1 PROVE s(n)[m] # "none"
            OBVIOUS
          <5>0. MaxLog \in Nat /\ n \in Nat
            BY <1>1, HistoryAssumption
          <5>a. m \in 1..MaxLog
            OBVIOUS
          <5>1. m \in 1..MaxLog /\ ~(m > n)
            BY <5>0, <5>a
          <5>2. rows[c][m] # "none" \/ m \in batch
            BY <2>2
          <5> QED
            BY <3>2, <5>1, <5>2
        <4>2. \/ Waits(Handled(c, batch)[n + 1].state)
              \/ Rooted(Handled(c, batch)[n + 1].state, anchor[c], ch)
          BY <3>1, <3>2, <3>4, <4>1, HandleWaiting
        <4> QED
          BY <2>0, <4>2 DEF s
      <3> QED
        BY <1>3, <3>3, <3>4
    <2> QED
      BY <2>1, <2>2
  <1>4. \A n \in 0..Top : n \in S
    <2> HIDE DEF S
    <2> QED
      BY <1>1, <1>2, <1>3, UpTo
  <1> QED
    BY <1>1, <1>4

-----------------------------------------------------------------------------
(* The invariant *)

Client == History!Client
Changing == {n \in 1..Top : History!ObjectsOf(n) # {}}

HistoryTypes ==
    /\ \E S : block \in Seq(S)
    /\ Top \in 1..MaxLog
    /\ log \subseteq 1..Top /\ Top \in log
    /\ released \subseteq (1..Top) \X Object
    /\ rows \in [Client -> RowStates]
    /\ anchor \in [Client -> [seq : -1..Top, same : BOOLEAN]]
    /\ fetching \in [Client -> -1..Top]
    /\ told \in [Client -> SUBSET (1..Top)]
    /\ bad \subseteq Client /\ up \subseteq Client
    /\ breaks \in Nat /\ IsFiniteSet(lost) /\ lost \subseteq Client \X (1..MaxLog)

\* a record names the newest record before it of each object it changes
ObjectsLinked ==
    \A n \in 1..Top : \A o \in History!ObjectsOf(n) :
        /\ o \in Object
        /\ block[n].prev[o] = Newest(History!Versions(o, n - 1))
        /\ block[n].data[o] \in 1..n

\* the server has every record that changes an object, and all from the newest segment on
OnServer ==
    /\ Changing \subseteq log
    /\ \A n \in 1..Top : (\A m \in (n + 1)..Top : ~History!IsSegment(m)) => n \in log

\* the data of the newest versions of an object is there
DataKept ==
    \A o \in Object : \A n \in History!Versions(o, Top) :
        Cardinality({m \in History!Versions(o, Top) : m >= n}) <= KeptVersions
            => <<block[n].data[o], o>> \notin released

\* While the anchor has not come, its notification is not on the way, and a fetch has been past
\* all that the server has before the fetch's place.
Fetches(c) ==
    /\ \A n \in told[c] : n > anchor[c].seq
    /\ fetching[c] # -1 => \A n \in log : n < fetching[c] => rows[c][n] # "none"

\* the rows and the anchor of a client
AnchorOK(c) ==
    /\ \A n \in 1..MaxLog : n > Top => rows[c][n] = "none"
    /\ anchor[c].seq = -1 => /\ anchor[c] = [seq |-> -1, same |-> TRUE] /\ c \notin up
                             /\ \A n \in 1..MaxLog : rows[c][n] = "none"
    /\ anchor[c].seq > 1 => History!IsSegment(anchor[c].seq)
    /\ anchor[c].seq = 0 => anchor[c].same
    /\ c \in bad => ~anchor[c].same
    /\ ~anchor[c].same => HeldIn(rows[c]) = {}

ClientOK(c) ==
    /\ AnchorOK(c)
    /\ c \notin up => fetching[c] = -1 /\ told[c] = {}
    /\ History!Unharmed(c) /\ anchor[c].same =>
          \/ anchor[c].seq > 0 /\ Waits(rows[c]) /\ Fetches(c)
          \/ Rooted(rows[c], anchor[c], Changing)

HistoryInv ==
    /\ HistoryTypes /\ Backbone /\ ObjectsLinked /\ OnServer /\ DataKept
    /\ \A c \in Client : ClientOK(c)

LEMMA ClientTypes ==
    ASSUME HistoryTypes, NEW c \in Client
    PROVE  /\ Top \in Nat /\ MaxLog \in Nat /\ Top <= MaxLog /\ Top >= 1
           /\ rows[c] \in RowStates
           /\ anchor[c] = [seq |-> anchor[c].seq, same |-> anchor[c].same]
           /\ anchor[c].seq \in -1..Top /\ anchor[c].same \in BOOLEAN
           /\ fetching[c] \in -1..Top
           /\ told[c] \in SUBSET (1..Top)
  BY HistoryAssumption DEF HistoryTypes

LEMMA InSyncIsHeld ==
    ASSUME HistoryTypes, NEW c \in Client, AnchorOK(c)
    PROVE  History!InSync(c) = HeldIn(rows[c]) /\ HeldIn(rows[c]) \in SUBSET (1..Top)
  <1>1. /\ Top \in Nat /\ MaxLog \in Nat /\ Top <= MaxLog
        /\ \A n \in 1..MaxLog : n > Top => rows[c][n] = "none"
    BY ClientTypes DEF AnchorOK
  <1>2. History!InSync(c) = {n \in 1..Top : rows[c][n] = "in_sync"}
    BY DEF History!InSync, Top, History!Top
  <1> QED
    BY <1>1, <1>2 DEF HeldIn

-----------------------------------------------------------------------------
(* The versions of an object *)

LEMMA VersionsFacts ==
    ASSUME Top \in Nat, NEW k \in 0..Top, NEW o
    PROVE  /\ History!Versions(o, k) \in SUBSET (1..k)
           /\ History!Versions(o, k) \in SUBSET (1..Top)
           /\ \A n \in 1..k : n \in History!Versions(o, k) <=> o \in History!ObjectsOf(n)
  BY DEF History!Versions

LEMMA HeldVersions ==
    ASSUME Top \in Nat, ObjectsLinked, NEW held \in SUBSET (1..Top), NEW o, NEW k \in 0..Top,
           {n \in held : o \in History!ObjectsOf(n)} = History!Versions(o, k)
    PROVE  History!ObjectVersions(held, o) = History!Versions(o, k)
  <1> DEFINE V == History!Versions(o, k)
  <1>1. V \in SUBSET (1..k) /\ \A n \in 1..k : n \in V <=> o \in History!ObjectsOf(n)
    BY VersionsFacts
  <1>2. ASSUME NEW n \in V
        PROVE  /\ block[n].prev[o] \in V \cup {0} /\ block[n].prev[o] < n
               /\ \A m \in V : m < n => m <= block[n].prev[o]
    <2> DEFINE P == History!Versions(o, n - 1)
    <2>1. n \in 1..k /\ n \in 1..Top /\ n - 1 \in 0..Top /\ n - 1 \in Nat /\ o \in History!ObjectsOf(n)
      BY <1>1
    <2>2. block[n].prev[o] = Newest(P)
      BY <2>1 DEF ObjectsLinked
    <2>3. P \in SUBSET (1..(n - 1)) /\ \A m \in 1..(n - 1) : m \in P <=> o \in History!ObjectsOf(m)
      BY <2>1, VersionsFacts
    <2> HIDE DEF P, V
    <2>4. \A m \in P : m \in V
      BY <1>1, <2>1, <2>3
    <2>5. \A m \in V : m < n => m \in P
      BY <1>1, <2>1, <2>3
    <2>6. /\ Newest(P) \in 0..(n - 1)
          /\ Newest(P) = 0 <=> P = {}
          /\ P # {} => Newest(P) \in P
          /\ \A m \in P : m <= Newest(P)
      BY <2>1, <2>3, NewestFacts
    <2> QED
      BY <2>1, <2>2, <2>4, <2>5, <2>6
  <1> HIDE DEF V
  <1>3. V = {n \in held : o \in History!ObjectsOf(n)}
    BY DEF V
  <1> QED
    BY <1>2, <1>3, WalkFindsAll DEF V

\* the server's walk finds every version, and what it retains before a cut are the records that change objects
LEMMA ServerVersions ==
    ASSUME Top \in Nat, ObjectsLinked, NEW held \in SUBSET (1..Top), Changing \subseteq held
    PROVE  \A o : History!ObjectVersions(held, o) = History!Versions(o, Top)
  <1> SUFFICES ASSUME NEW o PROVE History!ObjectVersions(held, o) = History!Versions(o, Top)
    OBVIOUS
  <1>1. Top \in 0..Top
    OBVIOUS
  <1>2. {n \in held : o \in History!ObjectsOf(n)} = History!Versions(o, Top)
    <2>1. \A n \in 1..Top : o \in History!ObjectsOf(n) => n \in held
      BY DEF Changing
    <2> QED
      BY <2>1 DEF History!Versions
  <1> QED
    BY <1>1, <1>2, HeldVersions

LEMMA ServerObjects ==
    ASSUME HistoryInv
    PROVE  History!ServerKeepsObjects
  <1>1. Top \in Nat /\ ObjectsLinked /\ log \in SUBSET (1..Top) /\ Changing \subseteq log /\ DataKept
    BY HistoryAssumption DEF HistoryInv, HistoryTypes, OnServer
  <1>2. \A o : History!ObjectVersions(log, o) = History!Versions(o, Top)
    BY <1>1, ServerVersions
  <1>3. \A o \in Object : \A n \in History!Versions(o, Top) :
            Cardinality({m \in History!Versions(o, Top) : m >= n}) <= KeptVersions
                => <<block[n].data[o], o>> \notin released
    BY <1>1, Zenon DEF DataKept
  <1>4. History!Top = Top
    BY DEF Top, History!Top
  <1> QED
    BY <1>2, <1>3, <1>4, RecordsAreCounted, Zenon DEF History!ServerKeepsObjects

\* what a rooted client holds of an object are its versions up to the newest record held
LEMMA RootedVersions ==
    ASSUME HistoryTypes, ObjectsLinked, NEW c \in Client, AnchorOK(c), anchor[c].seq # -1,
           Rooted(rows[c], anchor[c], Changing)
    PROVE  \A o : /\ {n \in History!InSync(c) : o \in History!ObjectsOf(n)} = History!Versions(o, Newest(History!InSync(c)))
                  /\ History!ObjectVersions(History!InSync(c), o) = History!Versions(o, Newest(History!InSync(c)))
  <1> SUFFICES ASSUME NEW o
               PROVE  /\ {n \in History!InSync(c) : o \in History!ObjectsOf(n)} = History!Versions(o, Newest(History!InSync(c)))
                      /\ History!ObjectVersions(History!InSync(c), o) = History!Versions(o, Newest(History!InSync(c)))
    OBVIOUS
  <1> DEFINE H == HeldIn(rows[c])
             a == anchor[c]
             k == Newest(H)
             V == History!Versions(o, k)
  <1>1. Top \in Nat /\ MaxLog \in Nat /\ Top <= MaxLog /\ a.seq \in 0..Top
    <2>1. Top \in Nat /\ MaxLog \in Nat /\ Top <= MaxLog /\ anchor[c].seq \in -1..Top
      BY ClientTypes
    <2> QED
      BY <2>1
  <1>2. H \in SUBSET (1..Top) /\ History!InSync(c) = H
    BY InSyncIsHeld
  <1>3. /\ k \in 0..Top
        /\ k = 0 <=> H = {}
        /\ H # {} => k \in H
        /\ \A n \in H : n <= k
    <2> HIDE DEF H
    <2> QED
      BY <1>1, <1>2, NewestFacts
  <1>4. /\ \A n \in H : \A m \in Root(a)..n : rows[c][m] = "in_sync"
        /\ \A n \in Changing : n < a.seq => rows[c][n] = "in_sync"
    BY DEF Rooted
  <1>5. V \in SUBSET (1..k) /\ \A n \in 1..k : n \in V <=> o \in History!ObjectsOf(n)
    BY <1>1, <1>3, VersionsFacts
  <1>6. \A n \in 1..MaxLog : rows[c][n] = "in_sync" <=> n \in H
    BY DEF HeldIn
  <1> HIDE DEF H, k, V, a
  <1>7. ASSUME NEW n \in V PROVE n \in H
    <2>1. n \in 1..k /\ k \in H /\ n \in 1..Top /\ n \in 1..MaxLog /\ o \in History!ObjectsOf(n)
      BY <1>1, <1>3, <1>5
    <2>2. CASE n >= Root(a)
      <3>1. n \in Root(a)..k
        BY <1>1, <2>1, <2>2 DEF Root
      <3> QED
        BY <1>4, <1>6, <2>1, <3>1
    <2>3. CASE ~(n >= Root(a))
      <3>1. n < a.seq
        BY <1>1, <2>1, <2>3 DEF Root
      <3>2. n \in Changing
        BY <2>1 DEF Changing
      <3> QED
        BY <1>4, <1>6, <2>1, <3>1, <3>2
    <2> QED
      BY <2>2, <2>3
  <1>8. {n \in H : o \in History!ObjectsOf(n)} = V
    <2>1. \A n \in H : n \in 1..k
      BY <1>1, <1>2, <1>3
    <2>2. \A n \in V : n \in 1..k
      BY <1>5
    <2> QED
      BY <1>5, <1>7, <2>1, <2>2
  <1>9. History!ObjectVersions(H, o) = V
    BY <1>1, <1>2, <1>3, <1>8, HeldVersions DEF V
  <1> QED
    BY <1>2, <1>8, <1>9 DEF k, V

\* a client whose rows are not lost waits for its anchor or is rooted
LEMMA UnharmedCases ==
    ASSUME HistoryInv, NEW c \in Client, History!Unharmed(c)
    PROVE  /\ anchor[c].seq \in 0..Top
           /\ HeldIn(rows[c]) = {} \/ (anchor[c].same /\ Rooted(rows[c], anchor[c], Changing))
           /\ anchor[c].seq = 0 => Rooted(rows[c], anchor[c], Changing)
  <1>1. HistoryTypes /\ ClientOK(c) /\ AnchorOK(c)
    BY DEF HistoryInv, ClientOK
  <1>2. anchor[c].seq \in -1..Top /\ Top \in Nat /\ anchor[c].same \in BOOLEAN
    BY <1>1, ClientTypes
  <1>3. anchor[c].seq # -1
    BY <1>1 DEF AnchorOK, History!Unharmed, History!Outside
  <1>4. CASE ~anchor[c].same
    BY <1>1, <1>2, <1>3, <1>4 DEF AnchorOK
  <1>5. CASE anchor[c].same
    <2>1. \/ anchor[c].seq > 0 /\ Waits(rows[c])
          \/ Rooted(rows[c], anchor[c], Changing)
      BY <1>1, <1>5 DEF ClientOK
    <2>2. Waits(rows[c]) => HeldIn(rows[c]) = {}
      BY DEF Waits, HeldIn
    <2> QED
      BY <1>2, <1>3, <1>5, <2>1, <2>2
  <1> QED
    BY <1>4, <1>5

LEMMA ClientObjects ==
    ASSUME HistoryInv
    PROVE  History!ClientKeepsObjects
  <1> SUFFICES ASSUME NEW c \in Client, History!Unharmed(c), NEW o
               PROVE  History!ObjectVersions(History!InSync(c), o) = History!Versions(o, Newest(History!InSync(c)))
    BY DEF History!ClientKeepsObjects, Client, Newest
  <1>1. HistoryTypes /\ ObjectsLinked /\ AnchorOK(c) /\ Top \in Nat
    BY ClientTypes DEF HistoryInv, ClientOK
  <1>2. anchor[c].seq # -1
    BY <1>1, UnharmedCases
  <1>3. CASE Rooted(rows[c], anchor[c], Changing)
    BY <1>1, <1>2, <1>3, RootedVersions
  <1>4. CASE HeldIn(rows[c]) = {}
    <2>1. History!InSync(c) = {} /\ {} \in SUBSET (1..Top) /\ 0 \in 0..Top
      BY <1>1, <1>4, InSyncIsHeld
    <2>2. Newest({}) = 0
      BY <1>1, <2>1, NewestFacts
    <2>3. History!Versions(o, 0) = {}
      BY <1>1, <2>1, VersionsFacts
    <2>4. {n \in {} : o \in History!ObjectsOf(n)} = History!Versions(o, 0)
      BY <2>3
    <2>5. History!ObjectVersions({}, o) = History!Versions(o, 0)
      BY <1>1, <2>1, <2>4, HeldVersions
    <2> QED
      BY <2>1, <2>2, <2>5
  <1> QED
    BY <1>3, <1>4, UnharmedCases

-----------------------------------------------------------------------------
(* What a client has proves itself *)

LEMMA HonestVerifies ==
    ASSUME HistoryInv
    PROVE  History!HonestHistoryVerifies
  <1> SUFFICES ASSUME NEW c \in Client, History!Unharmed(c),
                      History!HasAnchor(c) => History!AnchorHeld(History!InSync(c), anchor[c])
               PROVE  History!FullVerify(History!InSync(c), anchor[c])
    BY DEF History!HonestHistoryVerifies, Client
  <1> DEFINE H == HeldIn(rows[c])
             a == anchor[c]
             k == Newest(H)
  <1>1. HistoryTypes /\ AnchorOK(c)
    BY DEF HistoryInv, ClientOK
  <1>2. History!InSync(c) = H /\ H \in SUBSET (1..Top)
    BY <1>1, InSyncIsHeld
  <1>3. Top \in Nat /\ MaxLog \in Nat /\ Top <= MaxLog
    BY <1>1, ClientTypes
  <1>4. /\ a.seq \in 0..Top /\ (H = {} \/ Rooted(rows[c], a, Changing))
        /\ a.seq = 0 => Rooted(rows[c], a, Changing)
    BY UnharmedCases
  <1>5. a.seq > 0 => a.same /\ a.seq \in H
    BY <1>2 DEF History!HasAnchor, History!AnchorHeld
  <1>6. Rooted(rows[c], a, Changing)
    BY <1>4, <1>5
  <1>7. \A n \in H : \A m \in Root(a)..n : rows[c][m] = "in_sync"
    BY <1>6 DEF Rooted
  <1>8. \A m \in 1..MaxLog : rows[c][m] = "in_sync" <=> m \in H
    BY DEF HeldIn
  <1> HIDE DEF H, a
  <1>9. /\ k \in 0..Top
        /\ k = 0 <=> H = {}
        /\ H # {} => k \in H
    BY <1>2, <1>3, NewestFacts
  <1>10. \A m \in Root(a)..k : m \in H
    <2> SUFFICES ASSUME NEW m \in Root(a)..k PROVE m \in H
      OBVIOUS
    <2>1. Root(a) \in 1..(Top + 1) /\ Root(a) >= 1
      BY <1>3, <1>4 DEF Root
    <2>2. k \in H /\ m \in 1..MaxLog
      BY <1>3, <1>9, <2>1
    <2> QED
      BY <1>7, <1>8, <2>2
  <1>11. CASE a.seq = 0
    <2>1. Root(a) = 1
      BY <1>11 DEF Root
    <2>2. 1..k \subseteq H
      BY <1>10, <2>1
    <2> QED
      BY <1>2, <1>11, <2>2 DEF History!FullVerify, History!VerifyRange, Newest, k, a
  <1>12. CASE a.seq # 0
    <2>1. a.seq > 0 /\ Root(a) = a.seq /\ a.seq \in Nat
      BY <1>4, <1>12 DEF Root
    <2>2. (a.seq + 1)..k \subseteq H
      BY <1>9, <1>10, <2>1
    <2>3. History!AnchorHeld(H, a)
      BY <1>5, <2>1 DEF History!AnchorHeld
    <2> QED
      BY <1>2, <1>12, <2>2, <2>3 DEF History!FullVerify, History!VerifyRange, Newest, k, a
  <1> QED
    BY <1>11, <1>12

LEMMA FastIsFull ==
    ASSUME HistoryInv
    PROVE  History!FastSaysWhatFullSays
  <1> SUFFICES ASSUME NEW c \in Client
               PROVE  History!FastVerify(History!InSync(c), anchor[c]) <=> History!FullVerify(History!InSync(c), anchor[c])
    BY DEF History!FastSaysWhatFullSays, Client
  <1> DEFINE H == HeldIn(rows[c])
             a == anchor[c]
             k == Newest(H)
             g == History!NewestSegment(H)
             G == {n \in H : History!IsSegment(n)}
  <1>1. HistoryTypes /\ AnchorOK(c) /\ Backbone
    BY DEF HistoryInv, ClientOK
  <1>2. History!InSync(c) = H /\ H \in SUBSET (1..Top)
    BY <1>1, InSyncIsHeld
  <1>3. Top \in Nat /\ a.seq \in -1..Top
    BY <1>1, ClientTypes
  <1>4. a.seq > 1 => History!IsSegment(a.seq)
    BY <1>1 DEF AnchorOK
  <1>5. a.seq = -1 => H = {}
    BY <1>1 DEF AnchorOK, HeldIn
  <1> HIDE DEF H, a
  <1>6. k \in 0..Top /\ (H # {} => k \in H) /\ \A n \in H : n <= k
    BY <1>2, <1>3, NewestFacts
  <1>7. g = Newest(G) /\ G \in SUBSET (1..Top)
    BY <1>2 DEF History!NewestSegment, Newest
  <1> HIDE DEF g, G
  <1>8. g \in 0..Top /\ (g = 0 <=> G = {}) /\ (G # {} => g \in G) /\ \A n \in G : n <= g
    BY <1>3, <1>7, NewestFacts
  <1> HIDE DEF k
  <1>a. History!FastVerify(H, a) <=>
            IF g = 0 \/ g = a.seq THEN History!FullVerify(H, a)
            ELSE /\ a.seq > 0 => History!AnchorHeld(H, a)
                 /\ block[g].end - 1 \in H
                 /\ block[g].end..k \subseteq H
                 /\ History!VerifyBackbone(H, a, g)
    BY DEF History!FastVerify, History!VerifyRange, g, k, Newest
  <1>b. History!FullVerify(H, a) <=>
            IF a.seq = 0 THEN 1..k \subseteq H
            ELSE History!AnchorHeld(H, a) /\ (a.seq + 1)..k \subseteq H
    BY DEF History!FullVerify, History!VerifyRange, k, Newest
  <1>9. CASE g = 0 \/ g = a.seq
    BY <1>2, <1>9, <1>a DEF a
  <1>10. CASE g # 0 /\ g # a.seq
    <2>1. g \in 1..Top /\ History!IsSegment(g) /\ g \in H /\ a.seq \in 0..Top
      BY <1>3, <1>5, <1>8, <1>10 DEF G
    <2>2. g >= 2 /\ block[g].end = g
      BY <1>1, <2>1 DEF Backbone, SegmentAt
    <2>3. CASE g < a.seq
      <3>1. a.seq > 1 /\ a.seq \in 1..Top
        BY <1>3, <2>1, <2>2, <2>3
      <3>2. a.seq \notin H
        BY <1>4, <1>8, <2>1, <2>3, <3>1 DEF G
      <3>3. ~History!AnchorHeld(H, a)
        BY <3>2 DEF History!AnchorHeld
      <3> QED
        BY <1>2, <1>a, <1>b, <1>10, <3>1, <3>3 DEF a
    <2>4. CASE g > a.seq
      <3>1. History!VerifyBackbone(H, a, g) <=> (IF a.seq = 0 THEN 1 ELSE a.seq)..(g - 1) \subseteq H
        BY <1>1, <1>2, <1>3, <1>4, <2>1, <2>4, BackboneStands
      <3>2. CASE a.seq = 0
        <4>1. 1..k \subseteq H <=> (g - 1 \in H /\ g..k \subseteq H /\ 1..(g - 1) \subseteq H)
          BY <1>6, <2>1, <2>2
        <4>2. History!FastVerify(H, a) <=> (g - 1 \in H /\ g..k \subseteq H /\ 1..(g - 1) \subseteq H)
          BY <1>a, <1>10, <2>2, <3>1, <3>2
        <4> QED
          BY <1>2, <1>b, <3>2, <4>1, <4>2 DEF a
      <3>3. CASE a.seq # 0
        <4>1. a.seq > 0 /\ a.seq \in Nat
          BY <2>1, <3>3
        <4>2. History!FastVerify(H, a) <=>
                 /\ History!AnchorHeld(H, a) /\ g - 1 \in H
                 /\ g..k \subseteq H /\ a.seq..(g - 1) \subseteq H
          BY <1>a, <1>10, <2>2, <3>1, <3>3, <4>1
        <4>3. a.seq \in H => ((a.seq + 1)..k \subseteq H <=>
                 g - 1 \in H /\ g..k \subseteq H /\ a.seq..(g - 1) \subseteq H)
          BY <1>6, <2>1, <2>4, <4>1
        <4>4. History!AnchorHeld(H, a) => a.seq \in H
          BY DEF History!AnchorHeld
        <4> QED
          BY <1>2, <1>b, <3>3, <4>2, <4>3, <4>4 DEF a
      <3> QED
        BY <3>2, <3>3
    <2> QED
      BY <1>3, <1>10, <2>1, <2>3, <2>4
  <1> QED
    BY <1>9, <1>10

-----------------------------------------------------------------------------
(* Sealing *)

Segments == {n \in 1..Top : History!IsSegment(n)}
\* where the next segment starts
NextStart == IF Newest(Segments) = 0 THEN 1 ELSE Newest(Segments)

LEMMA SegmentsFacts ==
    ASSUME HistoryTypes, Backbone
    PROVE  /\ Top \in Nat /\ Top >= 1 /\ Newest(Segments) \in 0..Top
           /\ Newest(Segments) # 0 => Newest(Segments) \in Segments /\ block[Newest(Segments)].end = Newest(Segments)
           /\ \A n \in 1..Top : History!IsSegment(n) => n <= Newest(Segments)
           /\ NextStart \in 1..Top
  <1>1. Top \in Nat /\ Top >= 1 /\ Segments \in SUBSET (1..Top)
    BY HistoryAssumption DEF HistoryTypes, Segments
  <1>2. /\ Newest(Segments) \in 0..Top
        /\ Newest(Segments) = 0 <=> Segments = {}
        /\ Segments # {} => Newest(Segments) \in Segments
        /\ \A n \in Segments : n <= Newest(Segments)
    BY <1>1, NewestFacts
  <1>3. \A n \in Segments : block[n].end = n
    BY DEF Segments, Backbone, SegmentAt
  <1> QED
    BY <1>1, <1>2, <1>3 DEF NextStart, Segments

\* whoever has all the records from the newest segment on sees the same backbone and the same tags
LEMMA SeesTheEnd ==
    ASSUME HistoryTypes, Backbone, NEW held \in SUBSET (1..Top), NextStart..Top \subseteq held
    PROVE  /\ History!NewestSegment(held) = Newest(Segments)
           /\ (IF Newest(Segments) = 0 THEN 1 ELSE block[Newest(Segments)].end) = NextStart
           /\ History!TagsInRange(held, NextStart, Top) = NextStart..Top
  <1>1. /\ Top \in Nat /\ Newest(Segments) \in 0..Top
        /\ Newest(Segments) # 0 => Newest(Segments) \in Segments /\ block[Newest(Segments)].end = Newest(Segments)
        /\ \A n \in 1..Top : History!IsSegment(n) => n <= Newest(Segments)
        /\ NextStart \in 1..Top
    BY SegmentsFacts
  <1> DEFINE G == {n \in held : History!IsSegment(n)}
             g == Newest(Segments)
  <1>2. G \in SUBSET (1..Top) /\ G \subseteq Segments
    BY DEF Segments
  <1>3. Newest(G) \in 0..Top /\ (Newest(G) = 0 <=> G = {}) /\ (G # {} => Newest(G) \in G) /\ \A n \in G : n <= Newest(G)
    <2> HIDE DEF G
    <2> QED
      BY <1>1, <1>2, NewestFacts
  <1>4. g # 0 => g \in G
    <2> SUFFICES ASSUME g # 0 PROVE g \in G
      OBVIOUS
    <2>1. NextStart = g
      BY DEF NextStart
    <2>2. g \in Segments /\ g \in g..Top
      BY <1>1
    <2>3. g \in held
      BY <2>1, <2>2
    <2> QED
      BY <2>2, <2>3 DEF Segments
  <1>5. \A n \in G : n <= g /\ n >= 1
    BY <1>1, <1>2
  <1> HIDE DEF G, g
  <1>6. Newest(G) = g
    <2>1. CASE g = 0
      BY <1>1, <1>3, <1>5, <2>1 DEF g
    <2>2. CASE g # 0
      BY <1>1, <1>3, <1>4, <1>5, <2>2 DEF g
    <2> QED
      BY <2>1, <2>2
  <1>7. History!NewestSegment(held) = Newest(G)
    BY DEF History!NewestSegment, G, Newest
  <1>8. (IF g = 0 THEN 1 ELSE block[g].end) = NextStart
    BY <1>1 DEF g, NextStart
  <1>9. History!TagsInRange(held, NextStart, Top) = NextStart..Top
    <2>1. NextStart \in Nat
      BY <1>1
    <2>2. \A n \in held : n \in Nat /\ n <= Top
      BY <1>1
    <2> DEFINE T == {n \in held : NextStart <= n /\ n <= Top}
               R == NextStart..Top
    <2>3. \A n : n \in T <=> n \in R
      <3>1. ASSUME NEW n \in held PROVE NextStart <= n /\ n <= Top <=> n \in R
        BY <1>1, <2>1, <2>2
      <3>2. R \subseteq held
        OBVIOUS
      <3> HIDE DEF R
      <3> QED
        BY <3>1, <3>2, Zenon
    <2>4. T = R
      <3> HIDE DEF T, R
      <3> QED
        BY <2>3
    <2> QED
      BY <2>4, Zenon DEF History!TagsInRange
  <1> QED
    BY <1>6, <1>7, <1>8, <1>9 DEF g

LEMMA ServerSeesTheEnd ==
    ASSUME HistoryTypes, Backbone, OnServer
    PROVE  log \in SUBSET (1..Top) /\ NextStart..Top \subseteq log
  <1>1. /\ Top \in Nat /\ Newest(Segments) \in 0..Top
        /\ \A n \in 1..Top : History!IsSegment(n) => n <= Newest(Segments)
        /\ NextStart \in 1..Top /\ NextStart >= Newest(Segments)
    BY SegmentsFacts DEF NextStart
  <1>2. log \in SUBSET (1..Top)
    BY DEF HistoryTypes
  <1>3. ASSUME NEW n \in NextStart..Top PROVE n \in log
    <2>1. n \in 1..Top /\ \A m \in (n + 1)..Top : ~History!IsSegment(m)
      BY <1>1, <1>3
    <2> QED
      BY <2>1 DEF OnServer
  <1> QED
    BY <1>2, <1>3

LEMMA ClientSeals ==
    ASSUME HistoryInv
    PROVE  History!SealsAccepted
  <1> SUFFICES ASSUME NEW c \in Client, History!AtHead(c), History!Unharmed(c)
               PROVE  History!CheckRulesSegment(History!MakeSegmentData(c))
    BY DEF History!SealsAccepted, Client
  <1> DEFINE H == HeldIn(rows[c])
             a == anchor[c]
             g == Newest(Segments)
             start == NextStart
  <1>1. HistoryTypes /\ AnchorOK(c) /\ Backbone /\ OnServer
    BY DEF HistoryInv, ClientOK
  <1>2. History!InSync(c) = H /\ H \in SUBSET (1..Top)
    BY <1>1, InSyncIsHeld
  <1>3. Top \in Nat /\ MaxLog \in Nat /\ Top <= MaxLog /\ Top >= 1
    BY <1>1, ClientTypes
  <1>4. Newest(H) = Top /\ Newest(History!InSync(c)) = Top
    BY <1>2 DEF History!AtHead, Newest, Top, History!Top
  <1>5. a.seq > 1 => History!IsSegment(a.seq)
    BY <1>1 DEF AnchorOK
  <1>6. a.seq \in 0..Top /\ (H = {} \/ Rooted(rows[c], a, Changing))
    BY UnharmedCases
  <1>7. \A m \in 1..MaxLog : rows[c][m] = "in_sync" <=> m \in H
    BY DEF HeldIn
  <1> HIDE DEF H
  <1>8. Top \in H
    BY <1>2, <1>3, <1>4, NewestFacts
  <1>9. \A m \in Root(a)..Top : rows[c][m] = "in_sync"
    <2>1. \A n \in H : \A m \in Root(a)..n : rows[c][m] = "in_sync"
      BY <1>6, <1>8 DEF Rooted, H
    <2> QED
      BY <1>8, <2>1
  <1>10. /\ g \in 0..Top /\ start \in 1..Top
         /\ \A n \in 1..Top : History!IsSegment(n) => n <= g
    BY <1>1, SegmentsFacts
  <1>11. Root(a) \in 1..Top /\ Root(a) <= start
    BY <1>3, <1>5, <1>6, <1>10 DEF Root, NextStart
  <1> HIDE DEF a
  <1>12. start..Top \subseteq H
    <2> SUFFICES ASSUME NEW m \in start..Top PROVE m \in H
      OBVIOUS
    <2>1. m \in Root(a)..Top /\ m \in 1..MaxLog
      BY <1>3, <1>10, <1>11
    <2> QED
      BY <1>7, <1>9, <2>1
  <1>13. /\ History!NewestSegment(H) = g
         /\ (IF g = 0 THEN 1 ELSE block[g].end) = start
         /\ History!TagsInRange(H, start, Top) = start..Top
    BY <1>1, <1>2, <1>12, SeesTheEnd
  <1>14. log \in SUBSET (1..Top) /\ start..Top \subseteq log
    BY <1>1, ServerSeesTheEnd
  <1>15. /\ History!NewestSegment(log) = g
         /\ History!TagsInRange(log, start, Top) = start..Top
    BY <1>1, <1>14, SeesTheEnd
  <1> HIDE DEF g, start
  <1> DEFINE seg == History!SegmentRecord(start, Top + 1, start..Top, g)
  <1>16. History!MakeSegmentData(c) = seg
    <2>1. History!Newest(H) = Top
      BY <1>4 DEF Newest
    <2> QED
      BY <1>2, <1>13, <2>1 DEF History!MakeSegmentData
  <1>17. seg.start = start /\ seg.end = Top + 1 /\ seg.tags = start..Top /\ seg.back = g
    BY DEF History!SegmentRecord
  <1> HIDE DEF seg
  <1>18. History!CheckSegmentBackbone(seg)
    BY <1>13, <1>15, <1>17 DEF History!CheckSegmentBackbone
  <1>19. (Top + 1) - 1 = Top
    BY <1>3
  <1> QED
    BY <1>15, <1>16, <1>17, <1>18, <1>19 DEF History!CheckRulesSegment, Top, History!Top

LEMMA OthersRefused ==
    ASSUME HistoryInv
    PROVE  History!OtherHistoryRefused
  <1> SUFFICES ASSUME NEW c \in Client, ~anchor[c].same
               PROVE  History!InSync(c) = {}
    BY DEF History!OtherHistoryRefused, Client
  <1>1. HistoryTypes /\ AnchorOK(c)
    BY DEF HistoryInv, ClientOK
  <1>2. History!InSync(c) = HeldIn(rows[c])
    BY <1>1, InSyncIsHeld
  <1> QED
    BY <1>1, <1>2 DEF AnchorOK

LEMMA HistoryKept ==
    ASSUME HistoryInv
    PROVE  History!CutKeepsHistory
  BY ServerObjects, ClientObjects, HonestVerifies, FastIsFull, ClientSeals, OthersRefused DEF History!CutKeepsHistory

LEMMA HistoryTypeOK ==
    ASSUME HistoryInv
    PROVE  History!TypeOK
  <1>1. HistoryTypes /\ Backbone /\ ObjectsLinked
    BY DEF HistoryInv
  <1>2. Top \in Nat /\ Top \in 1..MaxLog /\ MaxLog \in Nat
    BY <1>1, HistoryAssumption DEF HistoryTypes
  <1>3. ASSUME NEW n \in 1..Top PROVE block[n].back < n /\ \A o \in History!ObjectsOf(n) : block[n].prev[o] < n
    <2>1. block[n].back < n
      BY <1>1, <1>2 DEF Backbone, SegmentAt
    <2>2. ASSUME NEW o \in History!ObjectsOf(n) PROVE block[n].prev[o] < n
      <3>1. n - 1 \in 0..Top /\ n - 1 \in Nat /\ n \in Nat
        BY <1>2
      <3>2. History!Versions(o, n - 1) \in SUBSET (1..(n - 1))
        BY <1>2, <3>1, VersionsFacts
      <3>3. Newest(History!Versions(o, n - 1)) \in 0..(n - 1)
        BY <3>1, <3>2, NewestFacts
      <3>4. block[n].prev[o] = Newest(History!Versions(o, n - 1))
        BY <1>1 DEF ObjectsLinked
      <3> QED
        BY <3>1, <3>3, <3>4
    <2> QED
      BY <2>1, <2>2
  <1>4. ASSUME NEW c \in Client
        PROVE  anchor[c].seq \in -1..Top /\ fetching[c] \in -1..Top /\ told[c] \subseteq 1..Top
    BY <1>1, ClientTypes
  <1>5. /\ log \subseteq 1..Top /\ Top \in log /\ released \subseteq (1..Top) \X Object
        /\ rows \in [Client -> [1..MaxLog -> {"none", "in_sync", "pending_sync", "invalid"}]]
        /\ bad \subseteq Client /\ up \subseteq Client
    BY <1>1 DEF HistoryTypes, RowStates, State
  <1>6. History!Top = Top /\ History!Client = Client /\ History!Idle = -1
    BY DEF History!Top, Top, Client, History!Idle
  <1> QED
    BY <1>2, <1>3, <1>4, <1>5, <1>6 DEF History!TypeOK

-----------------------------------------------------------------------------
(* The steps *)

\* a client that a step does not touch, where no record is committed
LEMMA ClientFrame ==
    ASSUME NEW c \in Client, ClientOK(c), block' = block, log' \subseteq log, lost \subseteq lost',
           rows'[c] = rows[c], anchor'[c] = anchor[c], fetching'[c] = fetching[c], told'[c] = told[c],
           c \in up' <=> c \in up, c \in bad' <=> c \in bad
    PROVE  ClientOK(c)'
  <1>1. Top' = Top /\ Changing' = Changing
    BY DEF Top, Changing, History!ObjectsOf
  <1>2. AnchorOK(c)'
    BY <1>1 DEF ClientOK, AnchorOK, History!IsSegment, HeldIn
  <1>3. (c \notin up => fetching[c] = -1 /\ told[c] = {})'
    BY DEF ClientOK
  <1>4. History!Unharmed(c)' => History!Unharmed(c)
    BY DEF History!Unharmed
  <1>5. Rooted(rows[c], anchor[c], Changing) => Rooted(rows[c], anchor[c], Changing)'
    BY <1>1 DEF Rooted, HeldIn, Root
  <1>6. Waits(rows[c]) => Waits(rows[c])'
    BY DEF Waits
  <1>7. Fetches(c) => Fetches(c)'
    BY DEF Fetches
  <1>8. anchor'[c].same = anchor[c].same /\ anchor'[c].seq = anchor[c].seq
    OBVIOUS
  <1>9. History!Unharmed(c) /\ anchor[c].same =>
          \/ anchor[c].seq > 0 /\ Waits(rows[c]) /\ Fetches(c)
          \/ Rooted(rows[c], anchor[c], Changing)
    BY DEF ClientOK
  <1> QED
    BY <1>2, <1>3, <1>4, <1>5, <1>6, <1>7, <1>8, <1>9 DEF ClientOK

\* the records committed and the records on the server are left alone
LEMMA RecordsFrame ==
    ASSUME block' = block
    PROVE  /\ Backbone => Backbone' /\ (ObjectsLinked => ObjectsLinked')
           /\ log' = log => (OnServer => OnServer')
           /\ released' = released => (DataKept => DataKept')
  <1>1. Top' = Top /\ Changing' = Changing
    BY DEF Top, Changing, History!ObjectsOf
  <1>2. Backbone => Backbone'
    BY <1>1 DEF Backbone, SegmentAt, History!IsSegment, History!ObjectsOf
  <1>3. \A o, k : History!Versions(o, k)' = History!Versions(o, k)
    BY DEF History!Versions, History!ObjectsOf
  <1>4. ObjectsLinked => ObjectsLinked'
    BY <1>1, <1>3 DEF ObjectsLinked, History!ObjectsOf
  <1>5. log' = log => (OnServer => OnServer')
    BY <1>1 DEF OnServer, History!IsSegment
  <1>6. released' = released => (DataKept => DataKept')
    BY <1>1, <1>3, Zenon DEF DataKept
  <1> QED
    BY <1>2, <1>4, <1>5, <1>6

LEMMA InitStep ==
    ASSUME History!Init
    PROVE  HistoryInv
  <1> DEFINE r == [prev |-> History!NoObjects, data |-> History!NoObjects, start |-> 0, end |-> 0, back |-> 0, tags |-> {}]
  <1>1. block = <<r>>
    BY DEF History!Init, History!ChangeRecord
  <1>2. DOMAIN r.prev = {} /\ r.end = 0 /\ r.start = 0 /\ r.back = 0
    BY DEF History!NoObjects
  <1> HIDE DEF r
  <1>3. Top = 1 /\ block[1] = r /\ 1..Top = {1} /\ \E S : block \in Seq(S)
    <2>1. block \in Seq({r})
      BY <1>1
    <2>2. Top = 1
      BY <1>1 DEF Top
    <2>3. block[1] = r
      BY <1>1
    <2>4. \E S : block \in Seq(S)
      BY <2>1
    <2> QED
      BY <2>2, <2>3, <2>4
  <1>4. History!ObjectsOf(1) = {} /\ ~History!IsSegment(1)
    BY <1>2, <1>3 DEF History!ObjectsOf, History!IsSegment
  <1>5. Changing = {}
    BY <1>3, <1>4 DEF Changing
  <1>6. MaxLog \in Nat /\ 1 \in 1..MaxLog /\ Top \in 1..MaxLog
    BY <1>3, HistoryAssumption
  <1>7. /\ log = {1} /\ released = {} /\ lost = {} /\ bad = {} /\ up = Founder /\ breaks = 0
        /\ rows = [c \in Client |-> [n \in 1..MaxLog |-> IF n = 1 /\ c \in Founder THEN "in_sync" ELSE "none"]]
        /\ anchor = [c \in Client |-> IF c \in Founder THEN [seq |-> 0, same |-> TRUE] ELSE [seq |-> -1, same |-> TRUE]]
        /\ told = [c \in Client |-> {}] /\ fetching = [c \in Client |-> -1]
    BY DEF History!Init, Client, History!NoAnchor, History!Outside, History!Idle
  <1>8. HistoryTypes
    <2>1. rows \in [Client -> RowStates]
      BY <1>7 DEF RowStates, State
    <2>2. anchor \in [Client -> [seq : -1..Top, same : BOOLEAN]] /\ fetching \in [Client -> -1..Top]
      BY <1>3, <1>7
    <2>3. told \in [Client -> SUBSET (1..Top)]
      BY <1>7
    <2>4. IsFiniteSet(lost)
      BY <1>7, FS_EmptySet
    <2>5. up \subseteq Client
      BY <1>7 DEF Client, History!Client
    <2> QED
      BY <1>3, <1>6, <1>7, <2>1, <2>2, <2>3, <2>4, <2>5 DEF HistoryTypes
  <1>9. Backbone
    BY <1>2, <1>3, <1>4 DEF Backbone
  <1>10. ObjectsLinked
    BY <1>3, <1>4 DEF ObjectsLinked
  <1>11. OnServer
    BY <1>3, <1>5, <1>7 DEF OnServer
  <1>12. DataKept
    BY <1>7 DEF DataKept
  <1>13. ASSUME NEW c \in Client PROVE ClientOK(c)
    <2>1. CASE c \in Founder
      <3>1. anchor[c] = [seq |-> 0, same |-> TRUE] /\ c \in up /\ c \notin bad
        BY <1>7, <2>1
      <3>2. \A n \in 1..MaxLog : rows[c][n] = IF n = 1 THEN "in_sync" ELSE "none"
        BY <1>7, <2>1
      <3>3. AnchorOK(c)
        BY <1>3, <3>1, <3>2 DEF AnchorOK
      <3>4. Rooted(rows[c], anchor[c], Changing)
        BY <1>5, <1>6, <3>1, <3>2 DEF Rooted, HeldIn, Root
      <3> QED
        BY <3>1, <3>3, <3>4 DEF ClientOK
    <2>2. CASE c \notin Founder
      <3>1. anchor[c] = [seq |-> -1, same |-> TRUE] /\ c \notin up /\ c \notin bad /\ fetching[c] = -1 /\ told[c] = {}
        BY <1>7, <2>2
      <3>2. \A n \in 1..MaxLog : rows[c][n] = "none"
        BY <1>7, <2>2
      <3>3. AnchorOK(c)
        BY <3>1, <3>2 DEF AnchorOK
      <3>4. ~History!Unharmed(c)
        BY <3>1 DEF History!Unharmed, History!Outside
      <3> QED
        BY <3>1, <3>3, <3>4 DEF ClientOK
    <2> QED
      BY <2>1, <2>2
  <1> QED
    BY <1>8, <1>9, <1>10, <1>11, <1>12, <1>13 DEF HistoryInv

\* clients that a step changes one of
LEMMA ClientsOK ==
    ASSUME HistoryInv, NEW c \in Client, ClientOK(c)',
           block' = block, log' \subseteq log, lost \subseteq lost',
           \A d \in Client : d # c => /\ rows'[d] = rows[d] /\ anchor'[d] = anchor[d]
                                      /\ fetching'[d] = fetching[d] /\ told'[d] = told[d]
                                      /\ d \in up' <=> d \in up
                                      /\ d \in bad' <=> d \in bad
    PROVE  \A d \in Client : ClientOK(d)'
  <1> SUFFICES ASSUME NEW d \in Client PROVE ClientOK(d)'
    OBVIOUS
  <1>1. CASE d = c
    BY <1>1
  <1>2. CASE d # c
    <2>1. ClientOK(d)
      BY DEF HistoryInv
    <2> QED
      BY <1>2, <2>1, ClientFrame
  <1> QED
    BY <1>1, <1>2

\* what a cut leaves on the server
LEMMA CutLeaves ==
    ASSUME HistoryInv, NEW a, History!CutBefore(a)
    PROVE  /\ a \in 1..Top /\ History!IsSegment(a)
           /\ log' = {n \in log : n >= a} \cup {n \in Changing : n < a}
           /\ log' \subseteq log /\ Changing \subseteq log'
  <1>1. HistoryTypes /\ ObjectsLinked /\ OnServer
    BY DEF HistoryInv
  <1>2. Top \in Nat /\ log \in SUBSET (1..Top) /\ Changing \subseteq log /\ Changing \subseteq 1..Top
    BY <1>1, HistoryAssumption DEF HistoryTypes, OnServer, Changing
  <1>3. a \in log /\ History!IsSegment(a) /\ log' = History!TruncatePrefix(log, a)
    BY DEF History!CutBefore
  <1>4. \A o : History!ObjectVersions(log, o) = History!Versions(o, Top)
    BY <1>1, <1>2, ServerVersions
  <1>5. UNION {History!ObjectVersions(log, o) : o \in Object} = Changing
    <2>1. \A n : n \in Changing => \E o \in Object : n \in History!Versions(o, Top)
      <3> SUFFICES ASSUME NEW n \in Changing PROVE \E o \in Object : n \in History!Versions(o, Top)
        OBVIOUS
      <3>1. PICK o : o \in History!ObjectsOf(n) /\ n \in 1..Top
        BY DEF Changing
      <3>2. o \in Object
        BY <1>1, <3>1 DEF ObjectsLinked
      <3>3. n \in History!Versions(o, Top)
        BY <3>1 DEF History!Versions
      <3> QED
        BY <3>2, <3>3
    <2>2. \A o : \A n \in History!Versions(o, Top) : n \in Changing
      BY DEF History!Versions, Changing
    <2> QED
      BY <1>4, <2>1, <2>2
  <1>6. log' = {n \in log : n >= a} \cup {n \in Changing : n < a}
    BY <1>3, <1>5 DEF History!TruncatePrefix, History!RetainedTags
  <1>7. a \in 1..Top /\ a \in Nat
    BY <1>2, <1>3
  <1>8. \A n \in Changing : n \in Nat /\ n \in log
    BY <1>2
  <1> QED
    BY <1>3, <1>6, <1>7, <1>8

LEMMA CutStep ==
    ASSUME HistoryInv, NEW a, History!CutHistory(a)
    PROVE  HistoryInv'
  <1>1. HistoryTypes /\ ObjectsLinked /\ OnServer /\ Backbone /\ DataKept
    BY DEF HistoryInv
  <1>2. /\ History!CutBefore(a) /\ History!ReleaseDeadData(History!SupersededData(log', a))
        /\ UNCHANGED <<block, rows, anchor, bad, up, told, fetching, breaks, lost>>
    BY DEF History!CutHistory
  <1>3. /\ a \in 1..Top /\ History!IsSegment(a)
        /\ log' = {n \in log : n >= a} \cup {n \in Changing : n < a}
        /\ log' \subseteq log /\ Changing \subseteq log'
    BY <1>2, CutLeaves
  <1>4. Top \in Nat /\ log \in SUBSET (1..Top) /\ Top \in log /\ log' \in SUBSET (1..Top)
    <2>1. Top \in Nat /\ log \in SUBSET (1..Top) /\ Top \in log
      BY <1>1, HistoryAssumption DEF HistoryTypes
    <2>2. log' \in SUBSET (1..Top)
      BY <1>3, <2>1, Zenon
    <2> QED
      BY <2>1, <2>2
  <1>5. Top' = Top /\ Changing' = Changing
    BY <1>2 DEF Top, Changing, History!ObjectsOf
  <1>6. released' = released \cup History!SupersededData(log', a) \cup History!UnreferencedData(log')
    BY <1>2 DEF History!ReleaseDeadData, History!UnreferencedData, History!References, History!ObjectsOf, History!Top
  <1>7. HistoryTypes'
    <2>1. released' \subseteq (1..Top) \X Object
      BY <1>1, <1>6 DEF HistoryTypes, History!SupersededData, History!UnreferencedData, Top, History!Top
    <2>2. Top \in log'
      BY <1>3, <1>4
    <2> QED
      BY <1>1, <1>2, <1>4, <1>5, <2>1, <2>2 DEF HistoryTypes
  <1>8. Backbone' /\ ObjectsLinked'
    BY <1>1, <1>2, RecordsFrame
  <1>9. OnServer'
    <2>1. ASSUME NEW n \in 1..Top, \A m \in (n + 1)..Top : ~History!IsSegment(m) PROVE n \in log'
      <3>1. n \in log
        BY <1>1, <2>1 DEF OnServer
      <3>2. ~(a \in (n + 1)..Top)
        BY <1>3, <2>1
      <3>3. n >= a
        BY <1>3, <1>4, <3>2
      <3> QED
        BY <1>3, <3>1, <3>3
    <2>2. \A m : History!IsSegment(m)' = History!IsSegment(m)
      BY <1>2 DEF History!IsSegment
    <2> QED
      BY <1>3, <1>5, <2>1, <2>2 DEF OnServer
  <1>10. DataKept'
    <2>1. \A o, k : History!Versions(o, k)' = History!Versions(o, k)
      BY <1>2 DEF History!Versions, History!ObjectsOf
    <2>2. \A o : History!ObjectVersions(log', o) = History!Versions(o, Top)
      BY <1>1, <1>3, <1>4, ServerVersions
    <2>3. SUFFICES ASSUME NEW o \in Object, NEW n \in History!Versions(o, Top),
                          Cardinality({m \in History!Versions(o, Top) : m >= n}) <= KeptVersions
                   PROVE  <<block[n].data[o], o>> \notin released'
      BY <1>2, <1>5, <2>1, Zenon DEF DataKept
    <2> DEFINE d == block[n].data[o]
               V == History!Versions(o, Top)
               B == {m \in V : m < a}
    <2>4. n \in 1..Top /\ o \in History!ObjectsOf(n) /\ n \in log' /\ V \in SUBSET (1..Top)
      <3>1. n \in 1..Top /\ o \in History!ObjectsOf(n) /\ V \in SUBSET (1..Top)
        BY DEF History!Versions
      <3>2. n \in Changing
        BY <3>1 DEF Changing
      <3> QED
        BY <1>3, <3>1, <3>2
    <2>5. n \in History!References(log', o, d)
      BY <2>4 DEF History!References
    <2>6. <<d, o>> \notin released
      BY <1>1, <2>3, Zenon DEF DataKept
    <2>7. <<d, o>> \notin History!UnreferencedData(log')
      BY <2>5 DEF History!UnreferencedData
    <2>8. n \notin History!Superseded(log', o, a)
      <3>1. {m \in B : m >= n} \subseteq {m \in V : m >= n}
        OBVIOUS
      <3>2. IsFiniteSet(1..Top)
        BY <1>4, FS_Interval
      <3>3. IsFiniteSet({m \in V : m >= n})
        <4>1. {m \in V : m >= n} \subseteq 1..Top
          BY <2>4
        <4> HIDE DEF V
        <4> QED
          BY <3>2, <4>1, FS_Subset
      <3> DEFINE X == {m \in B : m >= n}
                 Y == {m \in V : m >= n}
      <3>4. Cardinality(X) \in Nat /\ Cardinality(Y) \in Nat /\ Cardinality(X) <= Cardinality(Y)
        <4>1. X \subseteq Y /\ IsFiniteSet(Y)
          BY <3>1, <3>3
        <4> HIDE DEF X, Y
        <4>2. IsFiniteSet(X) /\ Cardinality(X) <= Cardinality(Y)
          BY <4>1, FS_Subset
        <4> QED
          BY <4>1, <4>2, FS_CardinalityType
      <3>5. KeptVersions \in Nat /\ Cardinality(Y) <= KeptVersions
        BY <2>3, HistoryAssumption
      <3>6. History!Superseded(log', o, a) = {k \in B : Cardinality({m \in B : m >= k}) > KeptVersions}
        BY <2>2, RecordsAreCounted DEF History!Superseded
      <3> HIDE DEF B, V, Y
      <3>7. ~(Cardinality(X) > KeptVersions)
        <4> HIDE DEF X
        <4> QED
          BY <3>4, <3>5
      <3> QED
        BY <3>6, <3>7
    <2> HIDE DEF d
    <2>9. <<d, o>> \notin History!SupersededData(log', a)
      BY <2>5, <2>8 DEF History!SupersededData
    <2> QED
      BY <1>6, <2>6, <2>7, <2>9 DEF d
  <1>11. \A c \in Client : ClientOK(c)'
    <2> SUFFICES ASSUME NEW c \in Client PROVE ClientOK(c)'
      OBVIOUS
    <2>1. ClientOK(c)
      BY DEF HistoryInv
    <2> QED
      BY <1>2, <1>3, <2>1, ClientFrame
  <1> QED
    BY <1>7, <1>8, <1>9, <1>10, <1>11 DEF HistoryInv, Client, History!Client

\* where a client starts to fetch: before what it misses first
LEMMA CursorFacts ==
    ASSUME HistoryInv, NEW c \in Client
    PROVE  /\ anchor[c].seq >= 0 => History!FetchCursor(c) \in 0..Top
           /\ Waits(rows[c]) => \A n \in 1..Top : n < History!FetchCursor(c) => rows[c][n] # "none"
  <1> DEFINE R == History!Received(c)
             from == IF History!HasAnchor(c) /\ History!AnchorHeld(History!InSync(c), anchor[c]) THEN anchor[c].seq ELSE 1
             gaps == {n \in from..Newest(R) : n \notin R}
             gap == IF gaps = {} THEN 0 ELSE History!Min(gaps)
  <1>1. HistoryTypes /\ AnchorOK(c)
    BY DEF HistoryInv, ClientOK
  <1>2. Top \in Nat /\ Top >= 1 /\ MaxLog \in Nat /\ Top <= MaxLog /\ anchor[c].seq \in -1..Top
    BY <1>1, ClientTypes
  <1>3. R = {n \in 1..Top : rows[c][n] \in {"in_sync", "pending_sync"}}
    BY DEF History!Received, Top, History!Top
  <1>4. History!FetchCursor(c) = IF gap # 0 THEN gap - 1 ELSE Newest(R)
    BY DEF History!FetchCursor, History!FirstMissing, Newest
  <1>5. from \in 1..Top
    BY <1>2 DEF History!HasAnchor
  <1>6. Waits(rows[c]) => from = 1
    <2>1. Waits(rows[c]) => HeldIn(rows[c]) = {}
      BY DEF Waits, HeldIn
    <2>2. Waits(rows[c]) => ~History!AnchorHeld(History!InSync(c), anchor[c])
      BY <1>1, <2>1, InSyncIsHeld DEF History!AnchorHeld
    <2> QED
      BY <2>2
  <1> HIDE DEF R, from
  <1>7. R \in SUBSET (1..Top)
    BY <1>3
  <1>8. Newest(R) \in 0..Top
    BY <1>2, <1>7, NewestFacts
  <1>9. gaps \in SUBSET Nat /\ \A n \in gaps : n \in from..Newest(R) /\ n >= 1
    BY <1>5, <1>8
  <1>10. gap # 0 => gap \in gaps /\ \A n \in gaps : gap <= n
    <2> HIDE DEF gaps
    <2> QED
      BY <1>9, LeastFacts
  <1>11. gap = 0 => gaps = {}
    <2>1. 0 \notin gaps
      BY <1>9
    <2> HIDE DEF gaps
    <2> QED
      BY <1>9, <2>1, LeastFacts
  <1> HIDE DEF gap
  <1>12. History!FetchCursor(c) \in 0..Top
    <2>1. CASE gap # 0
      <3>1. gap \in from..Newest(R) /\ gap >= 1
        BY <1>9, <1>10, <2>1
      <3> QED
        BY <1>2, <1>4, <1>5, <1>8, <2>1, <3>1
    <2>2. CASE gap = 0
      BY <1>4, <1>8, <2>2
    <2> QED
      BY <2>1, <2>2
  <1>13. ASSUME Waits(rows[c]), NEW n \in 1..Top, n < History!FetchCursor(c) PROVE rows[c][n] # "none"
    <2>1. n \in R
      <3>1. CASE gap # 0
        <4>1. gap \in 1..Newest(R) /\ \A m \in gaps : gap <= m
          BY <1>5, <1>6, <1>8, <1>9, <1>10, <1>13, <3>1
        <4>2. n < gap /\ n \in from..Newest(R) /\ n \notin gaps
          BY <1>4, <1>6, <1>8, <1>13, <3>1, <4>1
        <4> QED
          BY <4>2
      <3>2. CASE gap = 0
        <4>1. n \in from..Newest(R)
          BY <1>4, <1>6, <1>8, <1>13, <3>2
        <4> QED
          BY <1>11, <3>2, <4>1
      <3> QED
        BY <3>1, <3>2
    <2> QED
      BY <1>3, <2>1
  <1> QED
    BY <1>12, <1>13

LEMMA ConnectStep ==
    ASSUME HistoryInv, NEW c \in Client, History!Connect(c)
    PROVE  HistoryInv'
  <1>1. HistoryTypes /\ ObjectsLinked /\ OnServer /\ Backbone /\ DataKept /\ ClientOK(c) /\ AnchorOK(c)
    BY DEF HistoryInv, ClientOK
  <1> DEFINE k == History!FetchCursor(c)
  <1>2. /\ c \notin up /\ anchor[c] # [seq |-> -1, same |-> TRUE]
        /\ up' = up \cup {c}
        /\ fetching' = [fetching EXCEPT ![c] = IF k < Top THEN k ELSE -1]
        /\ UNCHANGED <<block, log, released, rows, anchor, bad, told, breaks, lost>>
    BY DEF History!Connect, History!Outside, History!Idle, Top, History!Top
  <1>3. anchor[c].seq \in -1..Top /\ anchor[c].seq # -1 /\ Top \in Nat
    BY <1>1, <1>2, ClientTypes DEF AnchorOK
  <1>4. /\ k \in 0..Top
        /\ Waits(rows[c]) => \A n \in 1..Top : n < k => rows[c][n] # "none"
    BY <1>3, CursorFacts
  <1> HIDE DEF k
  <1>5. Top' = Top /\ Changing' = Changing
    BY <1>2 DEF Top, Changing, History!ObjectsOf
  <1>6. HistoryTypes'
    <2>1. fetching' \in [Client -> -1..Top]
      BY <1>1, <1>2, <1>4 DEF HistoryTypes
    <2> QED
      BY <1>1, <1>2, <1>5, <2>1 DEF HistoryTypes
  <1>7. Backbone' /\ ObjectsLinked' /\ OnServer' /\ DataKept'
    BY <1>1, <1>2, RecordsFrame
  <1>8. ClientOK(c)'
    <2>1. AnchorOK(c)'
      BY <1>1, <1>2, <1>3, <1>5 DEF AnchorOK, HeldIn, History!IsSegment
    <2>2. c \in up' /\ fetching'[c] = IF k < Top THEN k ELSE -1
      BY <1>1, <1>2 DEF HistoryTypes
    <2>3. told'[c] = {} /\ log \subseteq 1..Top
      BY <1>1, <1>2 DEF ClientOK, HistoryTypes
    <2>4. Waits(rows[c]) => Waits(rows[c])' /\ Fetches(c)'
      BY <1>2, <1>4, <2>2, <2>3 DEF Waits, Fetches
    <2>5. Rooted(rows[c], anchor[c], Changing) => Rooted(rows[c], anchor[c], Changing)'
      BY <1>2, <1>5 DEF Rooted, HeldIn, Root
    <2>6. History!Unharmed(c)' => History!Unharmed(c)
      BY <1>2 DEF History!Unharmed
    <2>7. History!Unharmed(c) /\ anchor[c].same =>
            \/ anchor[c].seq > 0 /\ Waits(rows[c])
            \/ Rooted(rows[c], anchor[c], Changing)
      BY <1>1 DEF ClientOK
    <2>8. anchor'[c].same = anchor[c].same /\ anchor'[c].seq = anchor[c].seq
      BY <1>2
    <2> QED
      BY <2>1, <2>2, <2>4, <2>5, <2>6, <2>7, <2>8 DEF ClientOK
  <1>9. \A d \in Client : ClientOK(d)'
    <2>1. \A d \in Client : d # c => /\ rows'[d] = rows[d] /\ anchor'[d] = anchor[d]
                                     /\ fetching'[d] = fetching[d] /\ told'[d] = told[d]
                                     /\ d \in up' <=> d \in up
                                     /\ d \in bad' <=> d \in bad
      BY <1>1, <1>2 DEF HistoryTypes
    <2> QED
      BY <1>2, <1>8, <2>1, ClientsOK
  <1> QED
    BY <1>6, <1>7, <1>9 DEF HistoryInv, Client, History!Client

LEMMA DisconnectStep ==
    ASSUME HistoryInv, NEW c \in Client, History!Disconnect(c)
    PROVE  HistoryInv'
  <1>1. HistoryTypes /\ ObjectsLinked /\ OnServer /\ Backbone /\ DataKept /\ ClientOK(c) /\ AnchorOK(c)
    BY DEF HistoryInv, ClientOK
  <1>2. /\ breaks' = breaks + 1 /\ up' = up \ {c}
        /\ told' = [told EXCEPT ![c] = {}]
        /\ fetching' = [fetching EXCEPT ![c] = -1]
        /\ UNCHANGED <<block, log, released, rows, anchor, bad, lost>>
    BY DEF History!Disconnect, History!Idle
  <1>3. Top' = Top /\ Changing' = Changing /\ Top \in Nat
    BY <1>1, <1>2, ClientTypes DEF Top, Changing, History!ObjectsOf
  <1>4. HistoryTypes'
    <2>1. fetching' \in [Client -> -1..Top] /\ told' \in [Client -> SUBSET (1..Top)]
      BY <1>1, <1>2, <1>3 DEF HistoryTypes
    <2> QED
      BY <1>1, <1>2, <1>3, <2>1 DEF HistoryTypes
  <1>5. Backbone' /\ ObjectsLinked' /\ OnServer' /\ DataKept'
    BY <1>1, <1>2, RecordsFrame
  <1>6. ClientOK(c)'
    <2>1. AnchorOK(c)'
      BY <1>1, <1>2, <1>3 DEF AnchorOK, HeldIn, History!IsSegment
    <2>2. c \notin up' /\ fetching'[c] = -1 /\ told'[c] = {}
      BY <1>1, <1>2 DEF HistoryTypes
    <2>3. Waits(rows[c]) => Waits(rows[c])' /\ Fetches(c)'
      BY <1>2, <2>2 DEF Waits, Fetches
    <2>4. Rooted(rows[c], anchor[c], Changing) => Rooted(rows[c], anchor[c], Changing)'
      BY <1>2, <1>3 DEF Rooted, HeldIn, Root
    <2>5. History!Unharmed(c)' => History!Unharmed(c)
      BY <1>2 DEF History!Unharmed
    <2>6. History!Unharmed(c) /\ anchor[c].same =>
            \/ anchor[c].seq > 0 /\ Waits(rows[c])
            \/ Rooted(rows[c], anchor[c], Changing)
      BY <1>1 DEF ClientOK
    <2>7. anchor'[c].same = anchor[c].same /\ anchor'[c].seq = anchor[c].seq
      BY <1>2
    <2> QED
      BY <2>1, <2>2, <2>3, <2>4, <2>5, <2>6, <2>7 DEF ClientOK
  <1>7. \A d \in Client : ClientOK(d)'
    <2>1. \A d \in Client : d # c => /\ rows'[d] = rows[d] /\ anchor'[d] = anchor[d]
                                     /\ fetching'[d] = fetching[d] /\ told'[d] = told[d]
                                     /\ d \in up' <=> d \in up
                                     /\ d \in bad' <=> d \in bad
      BY <1>1, <1>2 DEF HistoryTypes
    <2> QED
      BY <1>2, <1>6, <2>1, ClientsOK
  <1> QED
    BY <1>4, <1>5, <1>7 DEF HistoryInv, Client, History!Client

\* what a client has after the records of a batch
TakenIn(c, batch) ==
    /\ rows' \in [Client -> RowStates] /\ bad' \subseteq Client
    /\ \A d \in Client : d # c => rows'[d] = rows[d] /\ (d \in bad' <=> d \in bad)
    /\ \A m \in 1..MaxLog : rows'[c][m] = "none" <=> (rows[c][m] = "none" /\ m \notin batch)
    /\ AnchorOK(c)'
    /\ anchor[c].same /\ anchor[c].seq >= 0 /\ Rooted(rows[c], anchor[c], Changing) => Rooted(rows'[c], anchor[c], Changing)
    /\ /\ anchor[c].same /\ anchor[c].seq > 0 /\ Waits(rows[c])
       /\ anchor[c].seq \in batch =>
             \A m \in Changing : m < anchor[c].seq => rows[c][m] # "none" \/ m \in batch
       => Waits(rows'[c]) \/ Rooted(rows'[c], anchor[c], Changing)

LEMMA RecordsTaken ==
    ASSUME HistoryInv, NEW c \in Client, c \in up, NEW batch \in SUBSET (1..Top),
           History!HandleRecords(c, batch), UNCHANGED <<block, anchor, up>>
    PROVE  TakenIn(c, batch)
  <1> DEFINE h == Handled(c, batch)[Top]
  <1>1. HistoryTypes /\ ClientOK(c) /\ AnchorOK(c)
    BY DEF HistoryInv, ClientOK
  <1>2. /\ Top \in Nat /\ MaxLog \in Nat /\ Top <= MaxLog /\ Top \in 1..MaxLog
        /\ rows[c] \in RowStates /\ anchor[c].seq \in -1..Top /\ anchor[c].same \in BOOLEAN
    <2>1. Top \in 1..MaxLog
      BY <1>1 DEF HistoryTypes
    <2> QED
      BY <1>1, <2>1, ClientTypes
  <1>3. rows' = [rows EXCEPT ![c] = h.state] /\ bad' = IF h.refused THEN bad \cup {c} ELSE bad
    BY DEF History!HandleRecords, Handled, Top, History!Top
  <1>4. Top \in 0..Top
    BY <1>2
  <1>5. /\ h.state \in RowStates /\ h.refused \in BOOLEAN
        /\ \A m \in 1..MaxLog : h.state[m] = "none" <=> (rows[c][m] = "none" /\ (m \in batch => m > Top))
        /\ h.refused => c \in bad \/ ~anchor[c].same
    BY <1>2, <1>4, BatchTypes
  <1>6. /\ Changing \in SUBSET (1..MaxLog) /\ Changing \in SUBSET (1..Top)
        /\ anchor[c].seq # -1
    <2>1. Changing \in SUBSET (1..Top)
      BY DEF Changing
    <2>2. 1..Top \subseteq 1..MaxLog
      BY <1>2
    <2>3. anchor[c].seq # -1
      BY <1>1 DEF AnchorOK
    <2> QED
      BY <2>1, <2>2, <2>3
  <1>7. anchor[c].same => c \notin bad
    BY <1>1 DEF AnchorOK
  <1>8. ~anchor[c].same => HeldIn(h.state) = {}
    <2> SUFFICES ASSUME ~anchor[c].same PROVE HeldIn(h.state) = {}
      OBVIOUS
    <2>1. anchor[c].seq > 0 /\ HeldIn(rows[c]) = {}
      BY <1>1, <1>2, <1>6 DEF AnchorOK
    <2> QED
      BY <1>2, <2>1, BatchOther
  <1>9. anchor[c].same /\ anchor[c].seq >= 0 /\ Rooted(rows[c], anchor[c], Changing) => Rooted(h.state, anchor[c], Changing)
    <2> SUFFICES ASSUME anchor[c].same, anchor[c].seq >= 0, Rooted(rows[c], anchor[c], Changing)
                 PROVE  Rooted(h.state, anchor[c], Changing)
      OBVIOUS
    <2>1. anchor[c].seq \in 0..MaxLog
      BY <1>2
    <2> QED
      BY <1>2, <1>6, <1>7, <2>1, BatchRooted
  <1>10. ASSUME anchor[c].same, anchor[c].seq > 0, Waits(rows[c]),
                anchor[c].seq \in batch =>
                    \A m \in Changing : m < anchor[c].seq => rows[c][m] # "none" \/ m \in batch
         PROVE  Waits(h.state) \/ Rooted(h.state, anchor[c], Changing)
    <2>1. anchor[c].seq \in 1..MaxLog
      BY <1>2, <1>10
    <2> QED
      BY <1>2, <1>6, <1>7, <1>10, <2>1, BatchWaiting
  <1> HIDE DEF h
  <1>11. rows'[c] = h.state /\ rows' \in [Client -> RowStates] /\ \A d \in Client : d # c => rows'[d] = rows[d]
    BY <1>1, <1>3, <1>5 DEF HistoryTypes
  <1>12. bad' \subseteq Client /\ (\A d \in Client : d # c => (d \in bad' <=> d \in bad)) /\ (c \in bad' => ~anchor[c].same)
    <2>1. CASE h.refused
      BY <1>1, <1>3, <1>5, <1>7, <2>1 DEF HistoryTypes
    <2>2. CASE ~h.refused
      BY <1>1, <1>3, <1>7, <2>2 DEF HistoryTypes
    <2> QED
      BY <2>1, <2>2
  <1>13. \A m \in 1..MaxLog : rows'[c][m] = "none" <=> (rows[c][m] = "none" /\ m \notin batch)
    <2>1. \A m \in 1..MaxLog : m \in batch => ~(m > Top)
      BY <1>2
    <2> QED
      BY <1>5, <1>11, <2>1
  <1>14. AnchorOK(c)'
    <2>1. Top' = Top /\ anchor'[c] = anchor[c] /\ c \in up' /\ \A n : History!IsSegment(n)' = History!IsSegment(n)
      BY DEF Top, History!IsSegment
    <2>2. \A n \in 1..MaxLog : n > Top => rows'[c][n] = "none"
      <3>1. \A n \in 1..MaxLog : n > Top => n \notin batch
        BY <1>2
      <3>2. \A n \in 1..MaxLog : n > Top => rows[c][n] = "none"
        BY <1>1 DEF AnchorOK
      <3> QED
        BY <1>13, <3>1, <3>2
    <2>3. ~anchor'[c].same => HeldIn(rows[c])' = {}
      BY <1>8, <1>11, <2>1 DEF HeldIn
    <2>4. /\ anchor[c].seq > 1 => History!IsSegment(anchor[c].seq)
          /\ anchor[c].seq = 0 => anchor[c].same
      BY <1>1 DEF AnchorOK
    <2> QED
      BY <1>6, <1>12, <2>1, <2>2, <2>3, <2>4 DEF AnchorOK
  <1> QED
    BY <1>9, <1>10, <1>11, <1>12, <1>13, <1>14 DEF TakenIn

\* what a client is after it took records in, whatever it waited for
LEMMA TakenClient ==
    ASSUME HistoryInv, NEW c \in Client, c \in up, NEW batch \in SUBSET (1..Top), TakenIn(c, batch),
           UNCHANGED <<block, log, anchor, up, lost>>,
           anchor[c].same /\ Waits(rows[c]) /\ Fetches(c) /\ anchor[c].seq \in batch =>
               \A m \in Changing : m < anchor[c].seq => rows[c][m] # "none" \/ m \in batch,
           Fetches(c) => Fetches(c)'
    PROVE  ClientOK(c)'
  <1>1. HistoryTypes /\ ClientOK(c)
    BY DEF HistoryInv
  <1>2. /\ AnchorOK(c)'
        /\ anchor[c].same /\ anchor[c].seq >= 0 /\ Rooted(rows[c], anchor[c], Changing) => Rooted(rows'[c], anchor[c], Changing)
        /\ /\ anchor[c].same /\ anchor[c].seq > 0 /\ Waits(rows[c])
           /\ anchor[c].seq \in batch =>
                 \A m \in Changing : m < anchor[c].seq => rows[c][m] # "none" \/ m \in batch
           => Waits(rows'[c]) \/ Rooted(rows'[c], anchor[c], Changing)
    BY DEF TakenIn
  <1>3. Changing' = Changing /\ anchor'[c] = anchor[c] /\ c \in up'
    BY DEF Changing, History!ObjectsOf, Top
  <1>4. Rooted(rows'[c], anchor[c], Changing) => Rooted(rows[c], anchor[c], Changing)'
    BY <1>3 DEF Rooted, HeldIn, Root
  <1>5. Waits(rows'[c]) => Waits(rows[c])'
    BY DEF Waits
  <1>6. anchor[c].seq \in -1..Top /\ anchor[c].seq # -1 /\ Top \in Nat
    BY <1>1, ClientTypes DEF ClientOK, AnchorOK
  <1>7. History!Unharmed(c)' => History!Unharmed(c)
    BY DEF History!Unharmed
  <1>8. ASSUME History!Unharmed(c), anchor[c].same
        PROVE  (anchor[c].seq > 0 /\ Waits(rows[c])' /\ Fetches(c)') \/ Rooted(rows[c], anchor[c], Changing)'
    <2>1. \/ anchor[c].seq > 0 /\ Waits(rows[c]) /\ Fetches(c)
          \/ Rooted(rows[c], anchor[c], Changing)
      BY <1>1, <1>8 DEF ClientOK
    <2>2. CASE anchor[c].seq > 0 /\ Waits(rows[c]) /\ Fetches(c)
      <3>1. Waits(rows'[c]) \/ Rooted(rows'[c], anchor[c], Changing)
        BY <1>2, <1>8, <2>2
      <3> QED
        BY <1>4, <1>5, <2>2, <3>1
    <2>3. CASE Rooted(rows[c], anchor[c], Changing)
      <3>1. anchor[c].seq >= 0
        BY <1>6
      <3> QED
        BY <1>2, <1>4, <1>8, <2>3, <3>1
    <2> QED
      BY <2>1, <2>2, <2>3
  <1> QED
    BY <1>2, <1>3, <1>7, <1>8 DEF ClientOK

\* an answer leaves nothing out before a record it brings
LEMMA BatchIsPrefix ==
    ASSUME HistoryTypes, NEW c \in Client
    PROVE  /\ History!Batch(c) \in SUBSET log /\ History!Batch(c) \in SUBSET (1..Top)
           /\ \A k \in History!Batch(c) : \A n \in log : fetching[c] <= n /\ n < k => n \in History!Batch(c)
  <1> DEFINE F == {n \in log : fetching[c] <= n /\ n <= History!Horizon(c)}
             B == History!Batch(c)
             Before(n) == {m \in F : m < n}
  <1>1. B = {n \in F : Cardinality(Before(n)) < MaxReturned}
    BY RecordsAreCounted DEF History!Batch
  <1>2. Top \in Nat /\ log \in SUBSET (1..Top) /\ IsFiniteSet(1..Top) /\ MaxReturned \in Nat
        /\ told[c] \in SUBSET (1..Top)
    <2>1. Top \in Nat /\ log \in SUBSET (1..Top) /\ MaxReturned \in Nat /\ told[c] \in SUBSET (1..Top)
      BY HistoryAssumption, ClientTypes DEF HistoryTypes
    <2> QED
      BY <2>1, FS_Interval
  <1>3. History!Horizon(c) \in Int
    <2>1. CASE told[c] = {}
      BY <1>2, <2>1 DEF History!Horizon, Top, History!Top
    <2>2. CASE told[c] # {}
      <3>1. told[c] \in SUBSET Nat
        BY <1>2
      <3>2. History!Min(told[c]) \in told[c]
        BY <2>2, <3>1, LeastFacts
      <3>3. History!Horizon(c) = History!Min(told[c]) - 1
        BY <2>2 DEF History!Horizon
      <3> QED
        BY <3>1, <3>2, <3>3
    <2> QED
      BY <2>1, <2>2
  <1> HIDE DEF B
  <1>4. F \in SUBSET (1..Top) /\ IsFiniteSet(F)
    <2>1. F \subseteq 1..Top
      BY <1>2
    <2> HIDE DEF F
    <2> QED
      BY <1>2, <2>1, FS_Subset
  <1>5. ASSUME NEW k \in B, NEW n \in log, fetching[c] <= n, n < k PROVE n \in B
    <2>1. k \in F /\ n \in F
      BY <1>1, <1>2, <1>3, <1>5
    <2> HIDE DEF F
    <2>2. Before(n) \subseteq Before(k)
      <3>1. \A m \in F : m \in Nat
        BY <1>4
      <3>2. n \in Nat /\ k \in Nat
        BY <2>1, <3>1
      <3> QED
        BY <1>5, <3>1, <3>2
    <2>3. Before(k) \subseteq F
      OBVIOUS
    <2>4. Cardinality(Before(k)) < MaxReturned
      BY <1>1
    <2> DEFINE X == Before(n)
               Y == Before(k)
    <2>5. X \subseteq Y /\ Y \subseteq F
      BY <2>2, <2>3
    <2> HIDE DEF X, Y, Before
    <2>6. IsFiniteSet(Y)
      BY <1>4, <2>5, FS_Subset
    <2>7. IsFiniteSet(X) /\ Cardinality(X) <= Cardinality(Y)
      BY <2>5, <2>6, FS_Subset
    <2>8. Cardinality(X) \in Nat /\ Cardinality(Y) \in Nat
      BY <2>6, <2>7, FS_CardinalityType
    <2>9. Cardinality(Before(n)) < MaxReturned
      BY <1>2, <2>4, <2>7, <2>8 DEF X, Y
    <2> QED
      BY <1>1, <2>1, <2>9
  <1>6. B \subseteq F
    BY <1>1
  <1> QED
    BY <1>2, <1>5, <1>6 DEF B

LEMMA FetchStep ==
    ASSUME HistoryInv, NEW c \in Client, History!FetchAnswered(c)
    PROVE  HistoryInv'
  <1> DEFINE B == History!Batch(c)
             k == fetching'[c]
  <1>1. HistoryTypes /\ ObjectsLinked /\ OnServer /\ Backbone /\ DataKept /\ ClientOK(c) /\ AnchorOK(c)
    BY DEF HistoryInv, ClientOK
  <1>2. /\ fetching[c] # -1 /\ History!HandleRecords(c, B)
        /\ UNCHANGED <<block, log, released, anchor, up, told, breaks, lost>>
    BY DEF History!FetchAnswered, History!Idle
  <1>3. \E more : fetching' = [fetching EXCEPT ![c] = IF more /\ Newest(B) # 0 THEN Newest(B) ELSE -1]
    <2> DEFINE more == Newest(B) # 0 /\ Newest(B) < History!Horizon(c) /\ History!Progressed(fetching[c], Newest(B))
    <2>1. fetching' = [fetching EXCEPT ![c] = IF more THEN Newest(B) ELSE -1]
      BY DEF History!FetchAnswered, History!Idle, Newest
    <2> QED
      BY <2>1
  <1>4. /\ B \in SUBSET log /\ B \in SUBSET (1..Top)
        /\ \A j \in B : \A n \in log : fetching[c] <= n /\ n < j => n \in B
    BY <1>1, BatchIsPrefix
  <1>5. Top \in Nat /\ fetching[c] \in -1..Top /\ MaxLog \in Nat /\ Top <= MaxLog
    BY <1>1, ClientTypes
  <1> HIDE DEF B
  <1>6. Newest(B) \in 0..Top /\ (Newest(B) # 0 => Newest(B) \in B)
    BY <1>4, <1>5, NewestFacts
  <1>7. /\ k \in -1..Top /\ (k # -1 => k \in B)
        /\ fetching' \in [Client -> -1..Top] /\ \A d \in Client : d # c => fetching'[d] = fetching[d]
    <2>1. PICK more : fetching' = [fetching EXCEPT ![c] = IF more /\ Newest(B) # 0 THEN Newest(B) ELSE -1]
      BY <1>3
    <2>2. CASE more /\ Newest(B) # 0
      <3>1. fetching' = [fetching EXCEPT ![c] = Newest(B)]
        BY <2>1, <2>2
      <3> QED
        BY <1>1, <1>6, <2>2, <3>1 DEF HistoryTypes
    <2>3. CASE ~(more /\ Newest(B) # 0)
      <3>1. fetching' = [fetching EXCEPT ![c] = -1]
        BY <2>1, <2>3
      <3>2. -1 \in -1..Top
        BY <1>5
      <3> QED
        BY <1>1, <3>1, <3>2 DEF HistoryTypes
    <2> QED
      BY <2>2, <2>3
  <1> HIDE DEF k
  <1>8. c \in up
    BY <1>1, <1>2 DEF ClientOK
  <1>9. TakenIn(c, B)
    BY <1>2, <1>4, <1>8, RecordsTaken
  <1>10. /\ rows' \in [Client -> RowStates] /\ bad' \subseteq Client
         /\ \A d \in Client : d # c => rows'[d] = rows[d] /\ (d \in bad' <=> d \in bad)
         /\ \A m \in 1..MaxLog : rows'[c][m] = "none" <=> (rows[c][m] = "none" /\ m \notin B)
    BY <1>9 DEF TakenIn
  <1>11. Top' = Top
    BY <1>2 DEF Top
  <1>12. HistoryTypes'
    BY <1>1, <1>2, <1>7, <1>10, <1>11 DEF HistoryTypes
  <1>13. Backbone' /\ ObjectsLinked' /\ OnServer' /\ DataKept'
    BY <1>1, <1>2, RecordsFrame
  <1>14. \A n \in log : n \in 1..Top /\ n \in 1..MaxLog /\ (fetching[c] <= n \/ n < fetching[c])
    <2>1. log \subseteq 1..Top
      BY <1>1 DEF HistoryTypes
    <2> QED
      BY <1>5, <2>1
  <1>15. Fetches(c) => Fetches(c)'
    <2> SUFFICES ASSUME Fetches(c) PROVE Fetches(c)'
      OBVIOUS
    <2>1. ASSUME k # -1, NEW n \in log, n < k PROVE rows'[c][n] # "none"
      <3>1. n \in B \/ rows[c][n] # "none"
        BY <1>2, <1>4, <1>7, <1>14, <2>1 DEF Fetches
      <3> QED
        BY <1>10, <1>14, <2>1, <3>1
    <2> QED
      BY <1>2, <2>1 DEF Fetches, k
  <1>16. Fetches(c) /\ anchor[c].seq \in B =>
               \A m \in Changing : m < anchor[c].seq => rows[c][m] # "none" \/ m \in B
    <2> SUFFICES ASSUME Fetches(c), anchor[c].seq \in B, NEW m \in Changing, m < anchor[c].seq
                 PROVE  rows[c][m] # "none" \/ m \in B
      OBVIOUS
    <2>1. m \in log
      BY <1>1 DEF OnServer
    <2> QED
      BY <1>2, <1>4, <1>14, <2>1 DEF Fetches
  <1>17. ClientOK(c)'
    BY <1>2, <1>4, <1>8, <1>9, <1>15, <1>16, TakenClient
  <1>18. \A d \in Client : ClientOK(d)'
    <2>1. \A d \in Client : d # c => /\ rows'[d] = rows[d] /\ anchor'[d] = anchor[d]
                                     /\ fetching'[d] = fetching[d] /\ told'[d] = told[d]
                                     /\ d \in up' <=> d \in up
                                     /\ d \in bad' <=> d \in bad
      BY <1>2, <1>7, <1>10
    <2> QED
      BY <1>2, <1>17, <2>1, ClientsOK
  <1> QED
    BY <1>12, <1>13, <1>18 DEF HistoryInv, Client, History!Client

LEMMA NotifiedStep ==
    ASSUME HistoryInv, NEW c \in Client, History!Notified(c)
    PROVE  HistoryInv'
  <1> DEFINE k == History!Min(told[c])
             B == {k}
  <1>1. HistoryTypes /\ ObjectsLinked /\ OnServer /\ Backbone /\ DataKept /\ ClientOK(c) /\ AnchorOK(c)
    BY DEF HistoryInv, ClientOK
  <1>2. /\ told[c] # {} /\ History!HandleRecords(c, B)
        /\ told' = [told EXCEPT ![c] = told[c] \ {k}]
        /\ UNCHANGED <<block, log, released, anchor, up, fetching, breaks, lost>>
    BY DEF History!Notified
  <1>3. told[c] \in SUBSET (1..Top) /\ told[c] \in SUBSET Nat /\ MaxLog \in Nat /\ Top <= MaxLog /\ Top \in Nat
    <2>1. told[c] \in SUBSET (1..Top) /\ MaxLog \in Nat /\ Top <= MaxLog /\ Top \in Nat
      BY <1>1, ClientTypes
    <2> QED
      BY <2>1
  <1>4. k \in told[c] /\ B \in SUBSET (1..Top)
    BY <1>2, <1>3, LeastFacts
  <1> HIDE DEF k
  <1>5. c \in up
    BY <1>1, <1>2 DEF ClientOK
  <1>6. TakenIn(c, B)
    BY <1>2, <1>4, <1>5, RecordsTaken
  <1>7. /\ rows' \in [Client -> RowStates] /\ bad' \subseteq Client
        /\ \A d \in Client : d # c => rows'[d] = rows[d] /\ (d \in bad' <=> d \in bad)
        /\ \A m \in 1..MaxLog : rows'[c][m] = "none" => rows[c][m] = "none"
    BY <1>6 DEF TakenIn
  <1>8. Top' = Top
    BY <1>2 DEF Top
  <1>9. /\ told' \in [Client -> SUBSET (1..Top)] /\ told'[c] \subseteq told[c]
        /\ \A d \in Client : d # c => told'[d] = told[d]
    BY <1>1, <1>2, <1>3 DEF HistoryTypes
  <1>10. HistoryTypes'
    BY <1>1, <1>2, <1>7, <1>8, <1>9 DEF HistoryTypes
  <1>11. Backbone' /\ ObjectsLinked' /\ OnServer' /\ DataKept'
    BY <1>1, <1>2, RecordsFrame
  <1>12. Fetches(c) => Fetches(c)'
    <2>1. \A n \in log : n \in 1..MaxLog
      BY <1>1, <1>3 DEF HistoryTypes
    <2> QED
      BY <1>2, <1>7, <1>9, <2>1 DEF Fetches
  <1>13. Fetches(c) => anchor[c].seq \notin B
    <2> SUFFICES ASSUME Fetches(c), anchor[c].seq = k PROVE FALSE
      OBVIOUS
    <2>1. k > k /\ k \in Nat
      BY <1>3, <1>4 DEF Fetches
    <2> QED
      BY <2>1
  <1>14. ClientOK(c)'
    BY <1>2, <1>4, <1>5, <1>6, <1>12, <1>13, TakenClient
  <1>15. \A d \in Client : ClientOK(d)'
    <2>1. \A d \in Client : d # c => /\ rows'[d] = rows[d] /\ anchor'[d] = anchor[d]
                                     /\ fetching'[d] = fetching[d] /\ told'[d] = told[d]
                                     /\ d \in up' <=> d \in up
                                     /\ d \in bad' <=> d \in bad
      BY <1>2, <1>7, <1>9
    <2> QED
      BY <1>2, <1>14, <2>1, ClientsOK
  <1> QED
    BY <1>10, <1>11, <1>15 DEF HistoryInv, Client, History!Client

LEMMA PruneStep ==
    ASSUME HistoryInv, NEW c \in Client, NEW a, History!PruneHistory(c, a)
    PROVE  HistoryInv'
  <1> DEFINE H == HeldIn(rows[c])
             kept == History!RetainedTags(H, a)
             s == rows'[c]
             new == [seq |-> a, same |-> TRUE]
  <1>1. HistoryTypes /\ ObjectsLinked /\ OnServer /\ Backbone /\ DataKept /\ ClientOK(c) /\ AnchorOK(c)
    BY DEF HistoryInv, ClientOK
  <1>2. History!InSync(c) = H /\ H \in SUBSET (1..Top)
    BY <1>1, InSyncIsHeld
  <1>3. /\ a \in H /\ History!IsSegment(a) /\ a > anchor[c].seq
        /\ rows' = [rows EXCEPT ![c] = History!RowsRemoved(rows[c], a, kept)]
        /\ anchor' = [anchor EXCEPT ![c] = new]
        /\ UNCHANGED <<block, log, released, bad, up, told, fetching, breaks, lost>>
    BY <1>2 DEF History!PruneHistory
  <1>4. /\ Top \in Nat /\ MaxLog \in Nat /\ Top <= MaxLog /\ rows[c] \in RowStates
        /\ anchor[c].seq \in -1..Top /\ anchor[c].same \in BOOLEAN
    BY <1>1, ClientTypes
  <1>5. a \in 1..Top /\ a \in 1..MaxLog /\ a \in Nat
    BY <1>2, <1>3, <1>4
  <1>6. anchor[c].same /\ c \notin bad /\ anchor[c].seq \in 0..Top
    <2>1. anchor[c].same
      BY <1>1, <1>3 DEF AnchorOK
    <2>2. rows[c][a] = "in_sync"
      BY <1>3 DEF HeldIn
    <2>3. anchor[c].seq # -1
      BY <1>1, <1>5, <2>2 DEF AnchorOK
    <2>4. c \notin bad
      BY <1>1, <2>1 DEF AnchorOK
    <2> QED
      BY <1>4, <2>1, <2>3, <2>4
  <1>7. \A n \in 1..MaxLog : rows[c][n] = "in_sync" <=> n \in H
    BY DEF HeldIn
  <1>8. /\ s \in RowStates /\ rows' \in [Client -> RowStates] /\ \A d \in Client : d # c => rows'[d] = rows[d]
        /\ \A n \in 1..MaxLog : s[n] = IF n < a /\ n \notin kept /\ rows[c][n] # "invalid" THEN "none" ELSE rows[c][n]
    <2> HIDE DEF kept
    <2>1. DOMAIN rows[c] = 1..MaxLog
      BY <1>4 DEF RowStates
    <2>2. s = History!RowsRemoved(rows[c], a, kept)
      BY <1>1, <1>3 DEF HistoryTypes
    <2>3. \A n \in 1..MaxLog : s[n] = IF n < a /\ n \notin kept /\ rows[c][n] # "invalid" THEN "none" ELSE rows[c][n]
      BY <2>1, <2>2 DEF History!RowsRemoved
    <2>4. s \in RowStates
      BY <1>4, <2>1, <2>2 DEF History!RowsRemoved, RowStates, State
    <2>5. rows' \in [Client -> RowStates] /\ \A d \in Client : d # c => rows'[d] = rows[d]
      BY <1>1, <1>3, <2>2, <2>4 DEF HistoryTypes
    <2> QED
      BY <2>3, <2>4, <2>5
  <1>9. /\ anchor'[c] = new /\ anchor' \in [Client -> [seq : -1..Top, same : BOOLEAN]]
        /\ \A d \in Client : d # c => anchor'[d] = anchor[d]
    <2>1. new \in [seq : -1..Top, same : BOOLEAN]
      BY <1>5
    <2> QED
      BY <1>1, <1>3, <2>1 DEF HistoryTypes
  <1>10. Top' = Top /\ Changing' = Changing
    BY <1>3 DEF Top, Changing, History!ObjectsOf
  <1>11. HistoryTypes'
    BY <1>1, <1>3, <1>8, <1>9, <1>10 DEF HistoryTypes
  <1>12. Backbone' /\ ObjectsLinked' /\ OnServer' /\ DataKept'
    BY <1>1, <1>3, RecordsFrame
  <1> HIDE DEF s
  <1>13. AnchorOK(c)'
    <2>1. \A n \in 1..MaxLog : n > Top => s[n] = "none"
      BY <1>1, <1>8 DEF AnchorOK
    <2>2. anchor'[c].seq = a /\ anchor'[c].same = TRUE /\ c \notin bad' /\ rows'[c] = s
      BY <1>3, <1>6, <1>9 DEF s
    <2>3. History!IsSegment(a)'
      BY <1>3 DEF History!IsSegment
    <2> QED
      BY <1>5, <1>10, <2>1, <2>2, <2>3 DEF AnchorOK
  <1>14. ASSUME History!Unharmed(c) PROVE Rooted(s, new, Changing)
    <2>1. Rooted(rows[c], anchor[c], Changing)
      BY <1>3, <1>14, UnharmedCases
    <2>2. /\ \A n \in H : \A m \in Root(anchor[c])..n : rows[c][m] = "in_sync"
          /\ \A n \in 1..MaxLog : n <= anchor[c].seq => rows[c][n] # "pending_sync"
      BY <2>1 DEF Rooted
    <2>3. Root(anchor[c]) \in Nat /\ Root(anchor[c]) <= a /\ Root(anchor[c]) >= 1 /\ Root(anchor[c]) <= anchor[c].seq + 1
      BY <1>3, <1>5, <1>6 DEF Root
    <2>4. s[a] = "in_sync"
      BY <1>3, <1>5, <1>7, <1>8
    <2>5. ASSUME NEW n \in HeldIn(s), NEW m \in a..n PROVE s[m] = "in_sync"
      <3>1. n \in 1..MaxLog /\ m \in 1..MaxLog /\ m >= a /\ n >= a /\ m <= n /\ s[n] = "in_sync"
        BY <1>4, <1>5 DEF HeldIn
      <3>2. n \in H
        BY <1>5, <1>7, <1>8, <3>1
      <3>3. m \in Root(anchor[c])..n
        <4>1. m \in Nat /\ n \in Nat
          BY <1>4, <3>1
        <4> QED
          BY <1>5, <2>3, <3>1, <4>1
      <3> QED
        BY <1>5, <1>8, <2>2, <3>1, <3>2, <3>3
    <2>6. ASSUME NEW n \in Changing, n < a PROVE s[n] = "in_sync"
      <3> DEFINE k == Newest(H)
      <3>1. \A o : /\ {m \in H : o \in History!ObjectsOf(m)} = History!Versions(o, k)
                   /\ History!ObjectVersions(H, o) = History!Versions(o, k)
        <4>1. anchor[c].seq # -1
          BY <1>6
        <4> QED
          BY <1>1, <1>2, <2>1, <4>1, RootedVersions
      <3>2. k \in 0..Top /\ a <= k
        <4> HIDE DEF H
        <4> QED
          BY <1>2, <1>3, <1>4, NewestFacts
      <3>3. PICK o : o \in History!ObjectsOf(n) /\ n \in 1..Top
        BY DEF Changing
      <3>4. o \in Object
        BY <1>1, <3>3 DEF ObjectsLinked
      <3> HIDE DEF k, H
      <3>5. n \in History!Versions(o, k)
        <4>1. n \in 1..k
          BY <1>5, <2>6, <3>2, <3>3
        <4> QED
          BY <3>3, <4>1 DEF History!Versions
      <3>6. n \in H /\ n \in History!ObjectVersions(H, o)
        BY <3>1, <3>5
      <3>7. n \in kept
        BY <2>6, <3>4, <3>6 DEF History!RetainedTags
      <3> QED
        BY <1>4, <1>7, <1>8, <3>3, <3>6, <3>7
    <2>7. ASSUME NEW n \in 1..MaxLog, n <= a PROVE s[n] # "pending_sync"
      <3>1. rows[c][n] # "pending_sync"
        <4>1. CASE n <= anchor[c].seq
          BY <2>2, <4>1
        <4>2. CASE ~(n <= anchor[c].seq)
          <5>1. n \in Root(anchor[c])..a
            BY <1>5, <1>6, <2>3, <2>7, <4>2
          <5>2. rows[c][n] = "in_sync"
            BY <1>3, <2>2, <5>1
          <5> QED
            BY <5>2
        <4> QED
          BY <4>1, <4>2
      <3> HIDE DEF kept
      <3> QED
        BY <1>8, <3>1
    <2>8. Root(new) = a /\ new.seq = a
      BY <1>5 DEF Root
    <2> QED
      BY <2>4, <2>5, <2>6, <2>7, <2>8 DEF Rooted
  <1>15. ClientOK(c)'
    <2>1. History!Unharmed(c)' => History!Unharmed(c)
      BY <1>3, <1>6 DEF History!Unharmed, History!Outside
    <2>2. Rooted(s, new, Changing) => Rooted(rows[c], anchor[c], Changing)'
      BY <1>9, <1>10 DEF Rooted, HeldIn, Root, s
    <2>3. (c \notin up => fetching[c] = -1 /\ told[c] = {})'
      BY <1>1, <1>3 DEF ClientOK
    <2> QED
      BY <1>13, <1>14, <2>1, <2>2, <2>3 DEF ClientOK
  <1>16. \A d \in Client : ClientOK(d)'
    <2>1. \A d \in Client : d # c => /\ rows'[d] = rows[d] /\ anchor'[d] = anchor[d]
                                     /\ fetching'[d] = fetching[d] /\ told'[d] = told[d]
                                     /\ d \in up' <=> d \in up
                                     /\ d \in bad' <=> d \in bad
      BY <1>3, <1>8, <1>9
    <2> QED
      BY <1>3, <1>15, <2>1, ClientsOK
  <1> QED
    BY <1>11, <1>12, <1>16 DEF HistoryInv, Client, History!Client

LEMMA JoinStep ==
    ASSUME HistoryInv, NEW c \in Client, NEW a, NEW same \in BOOLEAN, History!Join(c, a, same)
    PROVE  HistoryInv'
  <1> DEFINE new == [seq |-> a, same |-> same]
  <1>1. HistoryTypes /\ ObjectsLinked /\ OnServer /\ Backbone /\ DataKept /\ ClientOK(c) /\ AnchorOK(c)
    BY DEF HistoryInv, ClientOK
  <1>2. /\ anchor[c] = [seq |-> -1, same |-> TRUE] /\ a \in log /\ (a = 1 \/ History!IsSegment(a))
        /\ anchor' = [anchor EXCEPT ![c] = new]
        /\ UNCHANGED <<block, log, released, rows, bad, up, told, fetching, breaks, lost>>
    BY DEF History!Join, History!Outside
  <1>3. a \in 1..Top /\ Top \in Nat
    <2>1. Top \in Nat /\ log \subseteq 1..Top
      BY <1>1, ClientTypes DEF HistoryTypes
    <2> QED
      BY <1>2, <2>1
  <1>4. anchor[c].seq = -1 /\ anchor[c].same
    BY <1>2
  <1>5. c \notin up /\ c \notin bad /\ \A n \in 1..MaxLog : rows[c][n] = "none"
    BY <1>1, <1>4 DEF AnchorOK
  <1>6. fetching[c] = -1 /\ told[c] = {}
    BY <1>1, <1>5 DEF ClientOK
  <1>7. /\ anchor'[c] = new /\ anchor' \in [Client -> [seq : -1..Top, same : BOOLEAN]]
        /\ \A d \in Client : d # c => anchor'[d] = anchor[d]
    <2>1. new \in [seq : -1..Top, same : BOOLEAN]
      BY <1>3
    <2> QED
      BY <1>1, <1>2, <2>1 DEF HistoryTypes
  <1>8. Top' = Top
    BY <1>2 DEF Top
  <1>9. HistoryTypes'
    BY <1>1, <1>2, <1>7, <1>8 DEF HistoryTypes
  <1>10. Backbone' /\ ObjectsLinked' /\ OnServer' /\ DataKept'
    BY <1>1, <1>2, RecordsFrame
  <1>11. ClientOK(c)'
    <2>1. anchor'[c].seq = a /\ anchor'[c].seq > 0
      BY <1>3, <1>7
    <2>2. AnchorOK(c)'
      <3>1. a > 1 => History!IsSegment(a)'
        BY <1>2, <1>3 DEF History!IsSegment
      <3> QED
        BY <1>2, <1>3, <1>5, <2>1, <3>1 DEF AnchorOK, HeldIn
    <2>3. Waits(rows[c])' /\ Fetches(c)'
      BY <1>2, <1>5, <1>6 DEF Waits, Fetches
    <2> QED
      BY <1>2, <1>6, <2>1, <2>2, <2>3 DEF ClientOK
  <1>12. \A d \in Client : ClientOK(d)'
    <2>1. \A d \in Client : d # c => /\ rows'[d] = rows[d] /\ anchor'[d] = anchor[d]
                                     /\ fetching'[d] = fetching[d] /\ told'[d] = told[d]
                                     /\ d \in up' <=> d \in up
                                     /\ d \in bad' <=> d \in bad
      BY <1>2, <1>7
    <2> QED
      BY <1>2, <1>11, <2>1, ClientsOK
  <1> QED
    BY <1>9, <1>10, <1>12 DEF HistoryInv, Client, History!Client

LEMMA LoseStep ==
    ASSUME HistoryInv, NEW c \in Client, NEW n, History!LoseRow(c, n)
    PROVE  HistoryInv'
  <1>1. HistoryTypes /\ ObjectsLinked /\ OnServer /\ Backbone /\ DataKept /\ ClientOK(c) /\ AnchorOK(c)
    BY DEF HistoryInv, ClientOK
  <1>2. /\ n \in History!InSync(c)
        /\ rows' = [rows EXCEPT ![c] = [rows[c] EXCEPT ![n] = "none"]]
        /\ lost' = lost \cup {<<c, n>>}
        /\ UNCHANGED <<block, log, released, anchor, bad, up, told, fetching, breaks>>
    BY DEF History!LoseRow
  <1>3. n \in 1..MaxLog /\ rows[c] \in RowStates
    <2>1. n \in HeldIn(rows[c])
      BY <1>1, <1>2, InSyncIsHeld
    <2> QED
      BY <1>1, <2>1, ClientTypes DEF HeldIn
  <1>4. /\ rows' \in [Client -> RowStates] /\ \A d \in Client : d # c => rows'[d] = rows[d]
        /\ \A m \in 1..MaxLog : rows'[c][m] = IF m = n THEN "none" ELSE rows[c][m]
    <2>1. rows'[c] = [rows[c] EXCEPT ![n] = "none"]
      BY <1>1, <1>2 DEF HistoryTypes
    <2>2. \A m \in 1..MaxLog : rows'[c][m] = IF m = n THEN "none" ELSE rows[c][m]
      BY <1>3, <2>1 DEF RowStates
    <2>3. rows'[c] \in RowStates
      BY <1>3, <2>1 DEF RowStates, State
    <2> QED
      BY <1>1, <1>2, <2>1, <2>2, <2>3 DEF HistoryTypes
  <1>5. Top' = Top
    BY <1>2 DEF Top
  <1>6. HistoryTypes'
    <2>1. IsFiniteSet(lost')
      BY <1>1, <1>2, FS_AddElement DEF HistoryTypes
    <2>2. lost' \subseteq Client \X (1..MaxLog)
      BY <1>1, <1>2, <1>3 DEF HistoryTypes
    <2> QED
      BY <1>1, <1>2, <1>4, <1>5, <2>1, <2>2 DEF HistoryTypes
  <1>7. Backbone' /\ ObjectsLinked' /\ OnServer' /\ DataKept'
    BY <1>1, <1>2, RecordsFrame
  <1>8. ClientOK(c)'
    <2>1. ~History!Unharmed(c)'
      BY <1>2, <1>3 DEF History!Unharmed
    <2>2. HeldIn(rows[c]) = {} => HeldIn(rows[c])' = {}
      BY <1>4 DEF HeldIn
    <2>3. AnchorOK(c)'
      BY <1>1, <1>2, <1>4, <1>5, <2>2 DEF AnchorOK, History!IsSegment
    <2>4. (c \notin up => fetching[c] = -1 /\ told[c] = {})'
      BY <1>1, <1>2 DEF ClientOK
    <2> QED
      BY <2>1, <2>3, <2>4 DEF ClientOK
  <1>9. \A d \in Client : ClientOK(d)'
    <2>1. \A d \in Client : d # c => /\ rows'[d] = rows[d] /\ anchor'[d] = anchor[d]
                                     /\ fetching'[d] = fetching[d] /\ told'[d] = told[d]
                                     /\ d \in up' <=> d \in up
                                     /\ d \in bad' <=> d \in bad
      BY <1>2, <1>4
    <2> QED
      BY <1>2, <1>8, <2>1, ClientsOK
  <1> QED
    BY <1>6, <1>7, <1>9 DEF HistoryInv, Client, History!Client

-----------------------------------------------------------------------------
(* Committing *)

\* a record more, and the records before it
LEMMA RecordAdded ==
    ASSUME HistoryTypes, NEW r, block' = Append(block, r)
    PROVE  /\ \E S : block' \in Seq(S)
           /\ Top' = Top + 1 /\ block'[Top + 1] = r
           /\ \A n \in 1..Top : block'[n] = block[n]
  <1>1. PICK S : block \in Seq(S)
    BY DEF HistoryTypes
  <1>2. block \in Seq(S \cup {r}) /\ r \in S \cup {r}
    BY <1>1
  <1>3. block' \in Seq(S \cup {r})
    BY <1>2
  <1>4. Len(Append(block, r)) = Len(block) + 1
    BY <1>2
  <1>5. Append(block, r)[Len(block) + 1] = r
    BY <1>2
  <1>6. \A n \in 1..Len(block) : Append(block, r)[n] = block[n]
    BY <1>2
  <1> QED
    BY <1>3, <1>4, <1>5, <1>6 DEF Top

\* a commit within the bound
LEMMA RoomLeft ==
    ASSUME HistoryTypes, History!Top + History!Troubles < MaxLog
    PROVE  Top + 1 \in 1..MaxLog /\ Top \in Nat /\ MaxLog \in Nat /\ Top >= 1
  <1>1. Top \in 1..MaxLog /\ MaxLog \in Nat /\ breaks \in Nat /\ IsFiniteSet(lost)
    BY HistoryAssumption DEF HistoryTypes
  <1>2. Cardinality(lost) \in Nat
    BY <1>1, FS_CardinalityType
  <1>3. History!Troubles = breaks + Cardinality(lost)
    BY RecordsAreCounted DEF History!Troubles
  <1>4. History!Top = Top
    BY DEF History!Top, Top
  <1> QED
    BY <1>1, <1>2, <1>3, <1>4

\* what a commit does to the records
Adds(r) ==
    /\ Top' = Top + 1 /\ block'[Top + 1] = r
    /\ \A n \in 1..Top : block'[n] = block[n]

LEMMA AddedRecords ==
    ASSUME Top \in Nat, NEW r, Adds(r), NEW t \in Nat, t = Top + 1
    PROVE  /\ \A n \in 1..Top : /\ History!ObjectsOf(n)' = History!ObjectsOf(n)
                                /\ History!IsSegment(n)' <=> History!IsSegment(n)
           /\ History!ObjectsOf(t)' = DOMAIN r.prev
           /\ History!IsSegment(t)' <=> r.end # 0
           /\ Changing' = Changing \cup {n \in {t} : DOMAIN r.prev # {}}
           /\ \A k \in 0..Top : \A o : History!Versions(o, k)' = History!Versions(o, k)
           /\ \A o : History!Versions(o, t)' = History!Versions(o, Top) \cup {n \in {t} : o \in DOMAIN r.prev}
           /\ 1..t = 1..Top \cup {t} /\ t \notin 1..Top
  <1>1. Top' = t /\ block'[t] = r /\ \A n \in 1..Top : block'[n] = block[n]
    BY DEF Adds
  <1>2. 1..t = 1..Top \cup {t} /\ t \notin 1..Top
    OBVIOUS
  <1>3. \A n \in 1..Top : /\ History!ObjectsOf(n)' = History!ObjectsOf(n)
                          /\ History!IsSegment(n)' <=> History!IsSegment(n)
    BY <1>1 DEF History!ObjectsOf, History!IsSegment
  <1>4. History!ObjectsOf(t)' = DOMAIN r.prev /\ (History!IsSegment(t)' <=> r.end # 0)
    BY <1>1 DEF History!IsSegment, History!ObjectsOf
  <1>5. ASSUME NEW k \in 0..Top, NEW o PROVE History!Versions(o, k)' = History!Versions(o, k)
    <2>1. 1..k \subseteq 1..Top
      OBVIOUS
    <2>2. History!Versions(o, k)' = {n \in 1..k : o \in History!ObjectsOf(n)'}
      BY DEF History!Versions
    <2> QED
      BY <1>3, <2>1, <2>2 DEF History!Versions
  <1>6. ASSUME NEW o
        PROVE  History!Versions(o, t)' = History!Versions(o, Top) \cup {n \in {t} : o \in DOMAIN r.prev}
    <2>1. History!Versions(o, t)' = {n \in 1..t : o \in History!ObjectsOf(n)'}
      BY DEF History!Versions
    <2> QED
      BY <1>2, <1>3, <1>4, <2>1 DEF History!Versions
  <1>7. Changing' = Changing \cup {n \in {t} : DOMAIN r.prev # {}}
    <2>1. Changing' = {n \in 1..t : History!ObjectsOf(n)' # {}}
      BY <1>1 DEF Changing
    <2> QED
      BY <1>2, <1>3, <1>4, <2>1 DEF Changing
  <1> QED
    BY <1>2, <1>3, <1>4, <1>5, <1>6, <1>7

\* a record the rules of the server let through
SegmentFits(r, t) ==
    /\ r.end = t /\ r.back = Newest(Segments) /\ r.start = NextStart /\ r.tags = NextStart..Top
    /\ DOMAIN r.prev = {}
ChangeFits(r, t) ==
    /\ r.end = 0 /\ r.start = 0 /\ r.back = 0
    /\ \A o \in DOMAIN r.prev :
          /\ o \in Object
          /\ r.prev[o] = Newest(History!Versions(o, Top))
          /\ r.data[o] \in 1..t
          /\ r.data[o] = t \/ (r.prev[o] # 0 /\ r.data[o] = block[r.prev[o]].data[o])

LEMMA BackboneGrows ==
    ASSUME HistoryTypes, Backbone, NEW r, Adds(r), NEW t \in Nat, t = Top + 1,
           SegmentFits(r, t) \/ ChangeFits(r, t)
    PROVE  Backbone'
  <1>1. /\ Top \in Nat /\ Top >= 1 /\ Newest(Segments) \in 0..Top
        /\ Newest(Segments) # 0 => Newest(Segments) \in Segments
        /\ \A n \in 1..Top : History!IsSegment(n) => n <= Newest(Segments)
    BY SegmentsFacts
  <1>2. /\ \A n \in 1..Top : /\ History!ObjectsOf(n)' = History!ObjectsOf(n)
                             /\ History!IsSegment(n)' <=> History!IsSegment(n)
        /\ History!ObjectsOf(t)' = DOMAIN r.prev
        /\ History!IsSegment(t)' <=> r.end # 0
        /\ 1..t = 1..Top \cup {t}
    BY <1>1, AddedRecords
  <1>3. Top' = t /\ block'[t] = r /\ \A n \in 1..Top : block'[n] = block[n]
    BY DEF Adds
  <1>4. ASSUME NEW n \in 1..Top, History!IsSegment(n) PROVE SegmentAt(n)'
    <2>1. SegmentAt(n)
      BY <1>4 DEF Backbone
    <2>2. block'[n] = block[n] /\ History!ObjectsOf(n)' = History!ObjectsOf(n)
      BY <1>2, <1>3
    <2>3. block[n].back \in 0..(n - 1) /\ n \in 1..Top
      BY <2>1 DEF SegmentAt
    <2>4. /\ block[n].back # 0 => History!IsSegment(block[n].back)
          /\ \A m \in (block[n].back + 1)..(n - 1) : ~History!IsSegment(m)
      BY <2>1 DEF SegmentAt
    <2> DEFINE b == block[n].back
    <2>5. b \in Nat /\ (b # 0 => b \in 1..Top) /\ \A m \in (b + 1)..(n - 1) : m \in 1..Top
      BY <1>1, <2>3
    <2> HIDE DEF b
    <2>6. \E k : k = b
      OBVIOUS
    <2>7. PICK k : k = b
      BY <2>6
    <2>8. k # 0 => History!IsSegment(k)'
      BY <1>2, <2>4, <2>5, <2>7 DEF b
    <2>9. \A m \in (k + 1)..(n - 1) : ~History!IsSegment(m)'
      BY <1>2, <2>4, <2>5, <2>7 DEF b
    <2>10. block'[n].back = k
      BY <2>2, <2>7 DEF b
    <2>11. block'[n].back # 0 => History!IsSegment(block[n].back)'
      BY <2>8, <2>10 DEF History!IsSegment
    <2>12. \A m \in (block'[n].back + 1)..(n - 1) : ~History!IsSegment(m)'
      BY <2>9, <2>10
    <2>13. /\ n >= 2 /\ block'[n].end = n /\ History!ObjectsOf(n)' = {}
           /\ block'[n].back \in 0..(n - 1)
           /\ block'[n].back = 0 => block'[n].start = 1
           /\ block'[n].back # 0 => block'[n].start = block'[n].back
           /\ block'[n].tags = block'[n].start..(n - 1)
      BY <2>1, <2>2 DEF SegmentAt
    <2> QED
      BY <2>11, <2>12, <2>13 DEF SegmentAt
  <1>5. ASSUME r.end # 0 PROVE SegmentAt(t)'
    <2>1. SegmentFits(r, t)
      BY <1>5 DEF ChangeFits
    <2>2. /\ r.end = t /\ r.back = Newest(Segments) /\ r.start = NextStart /\ r.tags = NextStart..Top
          /\ DOMAIN r.prev = {}
      BY <2>1 DEF SegmentFits
    <2> DEFINE g == r.back
    <2>3. g \in 0..Top /\ t - 1 = Top /\ t >= 2 /\ (g = 0 => r.start = 1) /\ (g # 0 => r.start = g)
      BY <1>1, <2>2 DEF NextStart
    <2>4. g # 0 => History!IsSegment(g) /\ g \in 1..Top
      BY <1>1, <2>2 DEF Segments
    <2>5. \A m \in (g + 1)..Top : m \in 1..Top /\ ~History!IsSegment(m)
      BY <1>1, <2>2, <2>3
    <2> HIDE DEF g
    <2>6. PICK k : k = g
      OBVIOUS
    <2>7. k # 0 => History!IsSegment(k)'
      BY <1>2, <2>4, <2>6
    <2>8. \A m \in (k + 1)..Top : ~History!IsSegment(m)'
      BY <1>2, <2>5, <2>6
    <2>9. block'[t].back = k
      BY <1>3, <2>6 DEF g
    <2>10. block'[t].back # 0 => History!IsSegment(block[t].back)'
      BY <2>7, <2>9 DEF History!IsSegment
    <2>11. \A m \in (block'[t].back + 1)..(t - 1) : ~History!IsSegment(m)'
      BY <2>3, <2>8, <2>9
    <2>12. History!ObjectsOf(t)' = {}
      BY <1>2, <2>2
    <2>13. /\ block'[t].end = t /\ block'[t].back \in 0..(t - 1)
           /\ block'[t].back = 0 => block'[t].start = 1
           /\ block'[t].back # 0 => block'[t].start = block'[t].back
           /\ block'[t].tags = block'[t].start..(t - 1)
      BY <1>3, <2>2, <2>3 DEF g
    <2> QED
      BY <2>3, <2>10, <2>11, <2>12, <2>13 DEF SegmentAt
  <1>6. ASSUME r.end = 0 PROVE r.start = 0 /\ r.back = 0
    <2>1. t # 0
      BY <1>1
    <2> QED
      BY <1>6, <2>1 DEF SegmentFits, ChangeFits
  <1>7. ASSUME NEW n \in 1..t
        PROVE  IF History!IsSegment(n)' THEN SegmentAt(n)' ELSE block'[n].start = 0 /\ block'[n].back = 0
    <2>1. CASE n \in 1..Top
      <3>1. ~History!IsSegment(n) => block[n].start = 0 /\ block[n].back = 0
        BY <2>1 DEF Backbone
      <3> QED
        BY <1>2, <1>3, <1>4, <2>1, <3>1
    <2>2. CASE n = t
      <3>1. History!IsSegment(n)' <=> r.end # 0
        BY <1>2, <2>2
      <3>2. r.end # 0 => SegmentAt(n)'
        BY <1>5, <2>2
      <3> QED
        BY <1>3, <1>6, <2>2, <3>1, <3>2
    <2> QED
      BY <1>2, <2>1, <2>2
  <1> QED
    BY <1>3, <1>7 DEF Backbone

LEMMA ObjectsGrow ==
    ASSUME HistoryTypes, ObjectsLinked, NEW r, Adds(r), NEW t \in Nat, t = Top + 1,
           SegmentFits(r, t) \/ ChangeFits(r, t)
    PROVE  ObjectsLinked'
  <1>1. Top \in Nat /\ Top >= 1
    BY HistoryAssumption DEF HistoryTypes
  <1>2. /\ \A n \in 1..Top : History!ObjectsOf(n)' = History!ObjectsOf(n)
        /\ History!ObjectsOf(t)' = DOMAIN r.prev
        /\ \A k \in 0..Top : \A o : History!Versions(o, k)' = History!Versions(o, k)
        /\ 1..t = 1..Top \cup {t}
    BY <1>1, AddedRecords
  <1>3. Top' = t /\ block'[t] = r /\ \A n \in 1..Top : block'[n] = block[n]
    BY DEF Adds
  <1>5. ASSUME NEW n \in 1..t, NEW o \in History!ObjectsOf(n)'
        PROVE  /\ o \in Object
               /\ block'[n].prev[o] = Newest(History!Versions(o, n - 1))'
               /\ block'[n].data[o] \in 1..n
    <2>1. n - 1 \in 0..Top
      BY <1>1
    <2>2. Newest(History!Versions(o, n - 1))' = Newest(History!Versions(o, n - 1))
      <3>1. History!Versions(o, n - 1)' = History!Versions(o, n - 1)
        BY <1>2, <2>1
      <3> QED
        BY <3>1
    <2>3. CASE n \in 1..Top
      <3>1. o \in History!ObjectsOf(n)
        BY <1>2, <2>3
      <3> QED
        BY <1>3, <2>2, <2>3, <3>1 DEF ObjectsLinked
    <2>4. CASE n = t
      <3>1. o \in DOMAIN r.prev
        BY <1>2, <2>4
      <3>2. ChangeFits(r, t)
        BY <3>1 DEF SegmentFits
      <3>3. n - 1 = Top
        BY <1>1, <2>4
      <3> QED
        BY <1>3, <2>2, <2>4, <3>1, <3>2, <3>3 DEF ChangeFits
    <2> QED
      BY <1>2, <2>3, <2>4
  <1> QED
    BY <1>3, <1>5 DEF ObjectsLinked

LEMMA ServerGrows ==
    ASSUME HistoryTypes, OnServer, NEW r, Adds(r), NEW t \in Nat, t = Top + 1, log' = log \cup {t}
    PROVE  OnServer'
  <1>1. Top \in Nat
    BY HistoryAssumption DEF HistoryTypes
  <1>2. /\ \A n \in 1..Top : History!IsSegment(n)' <=> History!IsSegment(n)
        /\ Changing' = Changing \cup {n \in {t} : DOMAIN r.prev # {}}
        /\ 1..t = 1..Top \cup {t}
    BY <1>1, AddedRecords
  <1>3. Top' = t
    BY DEF Adds
  <1>4. Changing' \subseteq log'
    BY <1>2 DEF OnServer
  <1>5. ASSUME NEW n \in 1..t, \A m \in (n + 1)..t : ~History!IsSegment(m)' PROVE n \in log'
    <2>1. CASE n = t
      BY <2>1
    <2>2. CASE n \in 1..Top
      <3>1. \A m \in (n + 1)..Top : m \in 1..Top /\ m \in (n + 1)..t
        BY <1>1, <2>2
      <3>2. \A m \in (n + 1)..Top : ~History!IsSegment(m)
        BY <1>2, <1>5, <3>1
      <3> QED
        BY <2>2, <3>2 DEF OnServer
    <2> QED
      BY <1>2, <2>1, <2>2
  <1> QED
    BY <1>3, <1>4, <1>5 DEF OnServer

LEMMA DataGrows ==
    ASSUME HistoryTypes, ObjectsLinked, DataKept, NEW r, Adds(r), NEW t \in Nat, t = Top + 1, released' = released,
           SegmentFits(r, t) \/ ChangeFits(r, t)
    PROVE  DataKept'
  <1>1. Top \in Nat /\ Top >= 1 /\ KeptVersions \in Nat /\ Top \in 0..Top
    BY HistoryAssumption DEF HistoryTypes
  <1>2. /\ \A o : History!Versions(o, t)' = History!Versions(o, Top) \cup {n \in {t} : o \in DOMAIN r.prev}
        /\ 1..t = 1..Top \cup {t} /\ t \notin 1..Top
    BY <1>1, AddedRecords
  <1>3. Top' = t /\ block'[t] = r /\ \A n \in 1..Top : block'[n] = block[n]
    BY DEF Adds
  <1>4. SUFFICES ASSUME NEW o \in Object, NEW n \in History!Versions(o, t)',
                        Cardinality({m \in History!Versions(o, t)' : m >= n}) <= KeptVersions
                 PROVE  <<block'[n].data[o], o>> \notin released
    <2>1. \A o : History!Versions(o, Top)' = History!Versions(o, t)'
      BY <1>3
    <2> QED
      BY <1>3, <2>1, Zenon DEF DataKept
  <1> DEFINE V == History!Versions(o, Top)
             W == History!Versions(o, t)'
             Since(S, k) == {m \in S : m >= k}
  <1>5. V \in SUBSET (1..Top) /\ W = V \cup {k \in {t} : o \in DOMAIN r.prev} /\ W \in SUBSET (1..t)
    BY <1>1, <1>2, VersionsFacts
  <1>6. \A k \in V : Cardinality(Since(V, k)) <= KeptVersions => <<block[k].data[o], o>> \notin released
    BY Zenon DEF DataKept
  <1>7. IsFiniteSet(1..t)
    BY FS_Interval
  <1> HIDE DEF V, W
  <1>8. IsFiniteSet(W)
    BY <1>5, <1>7, FS_Subset
  <1>9. CASE n \in V
    <2> DEFINE X == Since(V, n)
               Y == Since(W, n)
    <2>1. X \subseteq Y /\ Y \subseteq W
      BY <1>5
    <2>2. Cardinality(Y) <= KeptVersions
      BY <1>4 DEF W
    <2> HIDE DEF X, Y
    <2>3. IsFiniteSet(Y)
      BY <1>8, <2>1, FS_Subset
    <2>4. IsFiniteSet(X) /\ Cardinality(X) <= Cardinality(Y)
      BY <2>1, <2>3, FS_Subset
    <2>5. Cardinality(X) \in Nat /\ Cardinality(Y) \in Nat
      BY <2>3, <2>4, FS_CardinalityType
    <2>6. Cardinality(X) <= KeptVersions
      BY <1>1, <2>2, <2>4, <2>5
    <2>7. block'[n] = block[n]
      BY <1>3, <1>5, <1>9
    <2> QED
      BY <1>6, <1>9, <2>6, <2>7 DEF X
  <1>10. CASE n \notin V
    <2>1. n = t /\ o \in DOMAIN r.prev
      BY <1>4, <1>5, <1>10 DEF W
    <2>2. ChangeFits(r, t)
      BY <2>1 DEF SegmentFits
    <2>3. /\ r.prev[o] = Newest(V)
          /\ r.data[o] = t \/ (r.prev[o] # 0 /\ r.data[o] = block[r.prev[o]].data[o])
      BY <2>1, <2>2 DEF ChangeFits, V
    <2>4. block'[n].data[o] = r.data[o]
      BY <1>3, <2>1
    <2>5. CASE r.data[o] = t
      <3>1. released \subseteq (1..Top) \X Object
        BY DEF HistoryTypes
      <3>2. <<t, o>> \notin released
        BY <1>2, <3>1
      <3> QED
        BY <2>4, <2>5, <3>2
    <2>6. CASE r.prev[o] # 0 /\ r.data[o] = block[r.prev[o]].data[o]
      <3> DEFINE p == Newest(V)
      <3>1. p \in V /\ \A m \in V : m <= p
        BY <1>1, <1>5, <2>3, <2>6, NewestFacts
      <3> HIDE DEF p
      <3>2. Since(V, p) = {p}
        <4>1. \A m \in V : m \in Nat
          BY <1>5
        <4> QED
          BY <3>1, <4>1
      <3>3. Since(W, n) = {t}
        <4>1. W = V \cup {t} /\ \A m \in V : m \in Nat /\ ~(m >= t)
          BY <1>1, <1>5, <2>1
        <4> QED
          BY <2>1, <4>1
      <3>4. Cardinality({t}) = 1 /\ Cardinality({p}) = 1
        BY FS_Singleton
      <3>5. Cardinality(Since(V, p)) <= KeptVersions
        <4>1. Cardinality(Since(W, n)) <= KeptVersions
          BY <1>4 DEF W
        <4> HIDE DEF Since
        <4> QED
          BY <3>2, <3>3, <3>4, <4>1
      <3>6. <<block[p].data[o], o>> \notin released
        BY <1>6, <3>1, <3>5
      <3> QED
        BY <2>3, <2>4, <2>6, <3>6 DEF p
    <2> QED
      BY <2>3, <2>5, <2>6
  <1> QED
    BY <1>9, <1>10

\* the clients after a commit: the committer has the record, the others that are connected are told
LEMMA ClientsGrow ==
    ASSUME HistoryInv, NEW c \in Client, History!AtHead(c), NEW r, Adds(r), NEW t \in Nat, t = Top + 1, t \in 1..MaxLog,
           rows' = [rows EXCEPT ![c] = [rows[c] EXCEPT ![t] = "in_sync"]],
           told' = [d \in Client |-> IF d \in up \ {c} THEN told[d] \cup {t} ELSE told[d]],
           log' = log \cup {t}, UNCHANGED <<anchor, bad, up, fetching, lost>>
    PROVE  /\ rows' \in [Client -> RowStates] /\ told' \in [Client -> SUBSET (1..t)]
           /\ \A d \in Client : ClientOK(d)'
  <1>1. HistoryTypes /\ \A d \in Client : ClientOK(d) /\ AnchorOK(d)
    BY DEF HistoryInv, ClientOK
  <1>2. Top \in Nat /\ MaxLog \in Nat /\ Top <= MaxLog /\ Top >= 1 /\ Top \in 1..MaxLog
    <2>1. Top \in 1..MaxLog /\ MaxLog \in Nat
      BY <1>1, HistoryAssumption DEF HistoryTypes
    <2> QED
      BY <2>1
  <1>3. /\ \A n \in 1..Top : History!IsSegment(n)' <=> History!IsSegment(n)
        /\ Changing' = Changing \cup {n \in {t} : DOMAIN r.prev # {}}
        /\ 1..t = 1..Top \cup {t} /\ t \notin 1..Top
    BY <1>2, AddedRecords
  <1>4. Top' = t
    BY DEF Adds
  <1>5. /\ rows' \in [Client -> RowStates] /\ \A d \in Client : d # c => rows'[d] = rows[d]
        /\ \A m \in 1..MaxLog : rows'[c][m] = IF m = t THEN "in_sync" ELSE rows[c][m]
    <2>1. rows[c] \in RowStates
      BY <1>1, ClientTypes
    <2>2. rows'[c] = [rows[c] EXCEPT ![t] = "in_sync"]
      BY <1>1 DEF HistoryTypes
    <2>3. \A m \in 1..MaxLog : rows'[c][m] = IF m = t THEN "in_sync" ELSE rows[c][m]
      BY <2>1, <2>2 DEF RowStates
    <2>4. rows'[c] \in RowStates
      BY <2>1, <2>2 DEF RowStates, State
    <2> QED
      BY <1>1, <2>2, <2>3, <2>4 DEF HistoryTypes
  <1>6. told' \in [Client -> SUBSET (1..t)]
    <2>1. \A d \in Client : told[d] \in SUBSET (1..Top)
      BY <1>1, ClientTypes
    <2>2. \A d \in Client : told[d] \subseteq 1..t /\ {t} \subseteq 1..t
      BY <1>3, <2>1
    <2> QED
      BY <2>2
  <1>7. ASSUME NEW d \in Client
        PROVE  /\ anchor'[d] = anchor[d] /\ anchor[d].seq \in -1..Top /\ anchor[d].seq < t
               /\ anchor[d].seq > 1 => History!IsSegment(anchor[d].seq)'
               /\ \A n \in Changing' : n < anchor[d].seq => n \in Changing
    <2>1. anchor[d].seq \in -1..Top /\ anchor'[d] = anchor[d]
      BY <1>1, ClientTypes
    <2>2. anchor[d].seq < t
      BY <1>2, <2>1
    <2>3. PICK k : k = anchor[d].seq
      OBVIOUS
    <2>4. k > 1 => History!IsSegment(k)'
      <3>1. k > 1 => k \in 1..Top /\ History!IsSegment(k)
        BY <1>1, <1>2, <2>1, <2>3 DEF AnchorOK
      <3> QED
        BY <1>3, <3>1
    <2>5. anchor[d].seq > 1 => History!IsSegment(anchor[d].seq)'
      BY <2>1, <2>3, <2>4 DEF History!IsSegment
    <2>6. \A n \in Changing' : n < anchor[d].seq => n \in Changing
      <3>1. ~(t < anchor[d].seq)
        BY <1>2, <2>1
      <3> QED
        BY <1>3, <3>1
    <2> QED
      BY <2>1, <2>2, <2>5, <2>6
  <1>8. ASSUME NEW d \in Client, d # c PROVE ClientOK(d)'
    <2>1. rows'[d] = rows[d] /\ fetching'[d] = fetching[d] /\ (d \in up' <=> d \in up) /\ (d \in bad' <=> d \in bad)
      BY <1>5, <1>8
    <2>2. ClientOK(d) /\ AnchorOK(d)
      BY <1>1
    <2>3. told'[d] = IF d \in up THEN told[d] \cup {t} ELSE told[d]
      BY <1>8
    <2>4. AnchorOK(d)'
      <3>1. \A n \in 1..MaxLog : n > t => rows'[d][n] = "none"
        BY <1>2, <2>1, <2>2 DEF AnchorOK
      <3>2. HeldIn(rows[d])' = HeldIn(rows[d])
        BY <2>1 DEF HeldIn
      <3>3. /\ anchor[d].seq = -1 => /\ anchor[d] = [seq |-> -1, same |-> TRUE] /\ d \notin up
                                     /\ \A n \in 1..MaxLog : rows[d][n] = "none"
            /\ anchor[d].seq = 0 => anchor[d].same
            /\ d \in bad => ~anchor[d].same
            /\ ~anchor[d].same => HeldIn(rows[d]) = {}
        BY <2>2 DEF AnchorOK
      <3> QED
        BY <1>4, <1>7, <2>1, <3>1, <3>2, <3>3 DEF AnchorOK
    <2>5. (d \notin up => fetching[d] = -1 /\ told[d] = {})'
      BY <2>1, <2>2, <2>3 DEF ClientOK
    <2>6. Waits(rows[d]) => Waits(rows[d])'
      BY <2>1 DEF Waits
    <2>7. Fetches(d) => Fetches(d)'
      <3>1. fetching[d] \in -1..Top
        BY <1>1, ClientTypes
      <3>2. ~(t < fetching[d])
        BY <1>2, <3>1
      <3> QED
        BY <1>7, <2>1, <2>3, <3>2 DEF Fetches
    <2>8. Rooted(rows[d], anchor[d], Changing) => Rooted(rows[d], anchor[d], Changing)'
      BY <1>7, <2>1 DEF Rooted, HeldIn, Root
    <2>9. History!Unharmed(d)' <=> History!Unharmed(d)
      BY <1>7 DEF History!Unharmed
    <2>10. History!Unharmed(d) /\ anchor[d].same =>
          \/ anchor[d].seq > 0 /\ Waits(rows[d]) /\ Fetches(d)
          \/ Rooted(rows[d], anchor[d], Changing)
      BY <2>2 DEF ClientOK
    <2>11. anchor'[d].same = anchor[d].same /\ anchor'[d].seq = anchor[d].seq
      BY <1>7
    <2> QED
      BY <2>4, <2>5, <2>6, <2>7, <2>8, <2>9, <2>10, <2>11 DEF ClientOK
  <1>9. ClientOK(c)'
    <2> DEFINE H == HeldIn(rows[c])
    <2>1. ClientOK(c) /\ AnchorOK(c)
      BY <1>1
    <2>2. c \in up /\ c \notin bad /\ H \in SUBSET (1..Top) /\ Newest(H) = Top
      <3>1. History!InSync(c) = H /\ H \in SUBSET (1..Top)
        BY <1>1, InSyncIsHeld
      <3> QED
        BY <3>1 DEF History!AtHead, Newest, Top, History!Top
    <2>3. Top \in H
      <3> HIDE DEF H
      <3> QED
        BY <1>2, <2>2, NewestFacts
    <2>4. rows[c][Top] = "in_sync"
      BY <2>3 DEF HeldIn
    <2>5. anchor[c].same /\ anchor[c].seq # -1
      <3>1. "in_sync" # "none"
        OBVIOUS
      <3> QED
        BY <1>2, <2>1, <2>3, <2>4, <3>1 DEF AnchorOK
    <2>6. AnchorOK(c)'
      <3>1. \A n \in 1..MaxLog : n > t => rows'[c][n] = "none"
        BY <1>2, <1>5, <2>1 DEF AnchorOK
      <3>2. anchor'[c].same /\ anchor'[c].seq # -1 /\ c \notin bad'
        BY <1>7, <2>2, <2>5
      <3> QED
        BY <1>4, <1>7, <3>1, <3>2 DEF AnchorOK
    <2>7. ASSUME History!Unharmed(c) PROVE Rooted(rows[c], anchor[c], Changing)'
      <3> DEFINE a == anchor[c]
      <3>1. Rooted(rows[c], a, Changing) /\ a.seq \in 0..Top
        BY <2>3, <2>7, UnharmedCases
      <3>2. /\ a.seq > 0 => rows[c][a.seq] = "in_sync"
            /\ \A n \in H : \A m \in Root(a)..n : rows[c][m] = "in_sync"
            /\ \A n \in Changing : n < a.seq => rows[c][n] = "in_sync"
            /\ \A n \in 1..MaxLog : n <= a.seq => rows[c][n] # "pending_sync"
        BY <3>1 DEF Rooted
      <3>3. \A m \in Root(a)..Top : rows[c][m] = "in_sync"
        BY <2>3, <3>2
      <3>4. Root(a) \in 1..t
        BY <1>2, <3>1 DEF Root
      <3>5. ASSUME NEW n \in HeldIn(rows'[c]), NEW m \in Root(a)..n PROVE rows'[c][m] = "in_sync"
        <4>1. n \in 1..MaxLog /\ rows'[c][n] = "in_sync"
          BY DEF HeldIn
        <4>2. m \in 1..MaxLog /\ m <= n /\ m \in Nat /\ n \in Nat
          BY <1>2, <3>4, <4>1
        <4>3. n = t \/ n \in H
          BY <1>5, <4>1 DEF HeldIn
        <4>4. CASE m = t
          BY <1>5, <4>2, <4>4
        <4>5. CASE m # t
          <5>1. rows[c][m] = "in_sync"
            <6>1. CASE n \in H
              BY <3>2, <6>1
            <6>2. CASE n = t
              <7>1. m \in Root(a)..Top
                BY <1>2, <3>4, <4>2, <4>5, <6>2
              <7> QED
                BY <3>3, <7>1
            <6> QED
              BY <4>3, <6>1, <6>2
          <5> QED
            BY <1>5, <4>2, <4>5, <5>1
        <4> QED
          BY <4>4, <4>5
      <3>6. a.seq > 0 => rows'[c][a.seq] = "in_sync"
        BY <1>2, <1>5, <3>1, <3>2
      <3>7. ASSUME NEW n \in Changing', n < a.seq PROVE rows'[c][n] = "in_sync"
        <4>1. n \in Changing
          BY <1>7, <3>7
        <4>2. n \in 1..Top
          BY <4>1 DEF Changing
        <4>3. n \in 1..MaxLog /\ n # t
          BY <1>2, <4>2
        <4> QED
          BY <1>5, <3>2, <3>7, <4>1, <4>3
      <3>8. \A n \in 1..MaxLog : n <= a.seq => rows'[c][n] # "pending_sync"
        BY <1>5, <3>2
      <3>9. Rooted(rows'[c], a, Changing')
        BY <3>5, <3>6, <3>7, <3>8 DEF Rooted
      <3> QED
        BY <1>7, <3>9
    <2>8. History!Unharmed(c)' <=> History!Unharmed(c)
      BY <1>7 DEF History!Unharmed
    <2>9. c \in up'
      BY <2>2
    <2> QED
      BY <2>6, <2>7, <2>8, <2>9 DEF ClientOK
  <1> QED
    BY <1>5, <1>6, <1>8, <1>9

LEMMA CommittedStep ==
    ASSUME HistoryInv, NEW c \in Client, History!AtHead(c), History!Top + History!Troubles < MaxLog,
           NEW r, History!Committed(c, r), SegmentFits(r, Top + 1) \/ ChangeFits(r, Top + 1)
    PROVE  HistoryInv'
  <1>1. HistoryTypes /\ ObjectsLinked /\ OnServer /\ Backbone /\ DataKept
    BY DEF HistoryInv
  <1>2. Top + 1 \in 1..MaxLog /\ Top \in Nat /\ MaxLog \in Nat /\ Top >= 1
    BY <1>1, RoomLeft
  <1>3. PICK t \in Nat : t = Top + 1
    BY <1>2
  <1>4. /\ block' = Append(block, r) /\ log' = log \cup {t}
        /\ rows' = [rows EXCEPT ![c] = [rows[c] EXCEPT ![t] = "in_sync"]]
        /\ told' = [d \in Client |-> IF d \in up \ {c} THEN told[d] \cup {t} ELSE told[d]]
        /\ UNCHANGED <<released, anchor, bad, up, fetching, breaks, lost>>
    BY <1>3 DEF History!Committed, Client, Top, History!Top
  <1>5. (\E S : block' \in Seq(S)) /\ Adds(r)
    BY <1>1, <1>4, RecordAdded DEF Adds
  <1>6. Top' = t
    BY <1>3, <1>5 DEF Adds
  <1>7. SegmentFits(r, t) \/ ChangeFits(r, t)
    BY <1>3
  <1>8. t \in 1..MaxLog
    BY <1>2, <1>3
  <1>9. /\ rows' \in [Client -> RowStates] /\ told' \in [Client -> SUBSET (1..t)]
        /\ \A d \in Client : ClientOK(d)'
    BY <1>3, <1>4, <1>5, <1>8, ClientsGrow
  <1>10. HistoryTypes'
    <2>1. 1..Top \subseteq 1..t /\ t \in 1..t /\ -1..Top \subseteq -1..t
      BY <1>2, <1>3
    <2>2. log' \subseteq 1..t /\ t \in log' /\ released' \subseteq (1..t) \X Object
      BY <1>1, <1>4, <2>1 DEF HistoryTypes
    <2>3. anchor' \in [Client -> [seq : -1..t, same : BOOLEAN]] /\ fetching' \in [Client -> -1..t]
      BY <1>1, <1>4, <2>1 DEF HistoryTypes
    <2>4. bad' \subseteq Client /\ up' \subseteq Client /\ breaks' \in Nat /\ IsFiniteSet(lost') /\ lost' \subseteq Client \X (1..MaxLog)
      BY <1>1, <1>4 DEF HistoryTypes
    <2> QED
      BY <1>5, <1>6, <1>8, <1>9, <2>2, <2>3, <2>4 DEF HistoryTypes
  <1>11. Backbone'
    BY <1>1, <1>3, <1>5, <1>7, BackboneGrows
  <1>12. ObjectsLinked'
    BY <1>1, <1>3, <1>5, <1>7, ObjectsGrow
  <1>13. OnServer'
    BY <1>1, <1>3, <1>4, <1>5, ServerGrows
  <1>14. DataKept'
    BY <1>1, <1>3, <1>4, <1>5, <1>7, DataGrows
  <1> QED
    BY <1>9, <1>10, <1>11, <1>12, <1>13, <1>14 DEF HistoryInv, Client, History!Client

LEMMA SegmentStep ==
    ASSUME HistoryInv, NEW c \in Client, History!SegmentEnd(c)
    PROVE  HistoryInv'
  <1> DEFINE r == History!MakeSegmentData(c)
  <1>1. HistoryTypes /\ OnServer /\ Backbone
    BY DEF HistoryInv
  <1>2. /\ History!AtHead(c) /\ History!Top + History!Troubles < MaxLog
        /\ History!CheckRulesSegment(r) /\ History!Committed(c, r)
    BY DEF History!SegmentEnd
  <1>3. DOMAIN r.prev = {}
    BY DEF History!MakeSegmentData, History!SegmentRecord, History!NoObjects
  <1> HIDE DEF r
  <1>4. log \in SUBSET (1..Top) /\ NextStart..Top \subseteq log
    BY <1>1, ServerSeesTheEnd
  <1>5. /\ History!NewestSegment(log) = Newest(Segments)
        /\ (IF Newest(Segments) = 0 THEN 1 ELSE block[Newest(Segments)].end) = NextStart
        /\ History!TagsInRange(log, NextStart, Top) = NextStart..Top
    BY <1>1, <1>4, SeesTheEnd
  <1>6. r.end = Top + 1
    BY <1>2 DEF History!CheckRulesSegment, Top, History!Top
  <1>7. r.back = Newest(Segments) /\ r.start = NextStart
    BY <1>2, <1>5 DEF History!CheckRulesSegment, History!CheckSegmentBackbone
  <1>8. r.tags = NextStart..Top
    <2>1. r.tags = History!TagsInRange(log, r.start, r.end - 1)
      BY <1>2 DEF History!CheckRulesSegment
    <2>2. r.end - 1 = Top
      BY <1>1, <1>6, SegmentsFacts
    <2> QED
      BY <1>5, <1>7, <2>1, <2>2
  <1>9. SegmentFits(r, Top + 1)
    BY <1>3, <1>6, <1>7, <1>8 DEF SegmentFits
  <1> QED
    BY <1>2, <1>9, CommittedStep

LEMMA ChangeStep ==
    ASSUME HistoryInv, NEW c \in Client, NEW changed \in SUBSET Object, NEW renamed,
           History!CommitChange(c, changed, renamed)
    PROVE  HistoryInv'
  <1> DEFINE H == HeldIn(rows[c])
             prev == [o \in changed |-> History!ObjectHead(H, o)]
             data == [o \in changed |-> IF o \in renamed /\ prev[o] # 0 THEN block[prev[o]].data[o] ELSE Top + 1]
             r == History!ChangeRecord(prev, data)
  <1>1. HistoryTypes /\ OnServer /\ Backbone /\ ObjectsLinked /\ AnchorOK(c)
    BY DEF HistoryInv, ClientOK
  <1>2. History!InSync(c) = H /\ H \in SUBSET (1..Top)
    BY <1>1, InSyncIsHeld
  <1>3. /\ History!AtHead(c) /\ History!Top + History!Troubles < MaxLog
        /\ History!CheckRulesData(r) /\ History!Committed(c, r)
    BY <1>2 DEF History!CommitChange, Top, History!Top
  <1>4. r.prev = prev /\ r.data = data /\ r.end = 0 /\ r.start = 0 /\ r.back = 0
    BY DEF History!ChangeRecord
  <1> HIDE DEF r, H
  <1>5. Top \in Nat
    BY <1>1, ClientTypes
  <1>6. ASSUME NEW o \in changed
        PROVE  /\ o \in Object
               /\ r.prev[o] = Newest(History!Versions(o, Top))
               /\ r.data[o] \in 1..(Top + 1)
               /\ r.data[o] = Top + 1 \/ (r.prev[o] # 0 /\ r.data[o] = block[r.prev[o]].data[o])
    <2>1. r.prev[o] = History!ObjectHead(log, o)
      BY <1>3, <1>4 DEF History!CheckRulesData
    <2>2. {n \in log : o \in History!ObjectsOf(n)} = History!Versions(o, Top)
      <3>1. log \subseteq 1..Top /\ Changing \subseteq log
        BY <1>1 DEF HistoryTypes, OnServer
      <3> QED
        BY <3>1 DEF History!Versions, Changing
    <2>3. r.prev[o] = Newest(History!Versions(o, Top))
      BY <2>1, <2>2 DEF History!ObjectHead, Newest
    <2> DEFINE p == r.prev[o]
    <2>4. r.data[o] = IF o \in renamed /\ p # 0 THEN block[p].data[o] ELSE Top + 1
      BY <1>4
    <2>5. p # 0 => block[p].data[o] \in 1..(Top + 1)
      <3> SUFFICES ASSUME p # 0 PROVE block[p].data[o] \in 1..(Top + 1)
        OBVIOUS
      <3>1. Top \in 0..Top
        BY <1>5
      <3>2. History!Versions(o, Top) \in SUBSET (1..Top)
        BY <1>5, <3>1, VersionsFacts
      <3>3. p \in History!Versions(o, Top)
        BY <1>5, <2>3, <3>2, NewestFacts
      <3>4. p \in 1..Top /\ o \in History!ObjectsOf(p)
        BY <3>3 DEF History!Versions
      <3>5. block[p].data[o] \in 1..p
        BY <1>1, <3>4 DEF ObjectsLinked
      <3> QED
        BY <1>5, <3>4, <3>5
    <2> HIDE DEF p
    <2>6. r.data[o] \in 1..(Top + 1) /\ (r.data[o] = Top + 1 \/ (p # 0 /\ r.data[o] = block[p].data[o]))
      BY <1>5, <2>4, <2>5
    <2> QED
      BY <2>3, <2>6 DEF p
  <1>7. DOMAIN r.prev = changed
    BY <1>4
  <1>8. ChangeFits(r, Top + 1)
    BY <1>4, <1>6, <1>7 DEF ChangeFits
  <1> QED
    BY <1>3, <1>8, CommittedStep

-----------------------------------------------------------------------------
(* Every step *)

LEMMA HistoryAside == ASSUME HistoryInv, UNCHANGED historyVars PROVE HistoryInv'
  <1>1. /\ UNCHANGED <<block, log, released, rows, anchor, bad, up, told, fetching>> /\ UNCHANGED <<breaks, lost>>
    BY DEF historyVars
  <1>2. HistoryTypes /\ ObjectsLinked /\ OnServer /\ Backbone /\ DataKept
    BY DEF HistoryInv
  <1>3. Backbone' /\ ObjectsLinked' /\ OnServer' /\ DataKept'
    BY <1>1, <1>2, RecordsFrame
  <1>4. HistoryTypes'
    BY <1>1, <1>2 DEF HistoryTypes, Top
  <1>5. ASSUME NEW c \in Client PROVE ClientOK(c)'
    <2>1. ClientOK(c)
      BY DEF HistoryInv
    <2> QED
      BY <1>1, <2>1, ClientFrame
  <1> QED
    BY <1>3, <1>4, <1>5 DEF HistoryInv, Client, History!Client

LEMMA HistoryStep == HistoryInv /\ [History!Next]_historyVars => HistoryInv'
  <1> SUFFICES ASSUME HistoryInv, [History!Next]_historyVars PROVE HistoryInv'
    OBVIOUS
  <1>1. ASSUME NEW a \in log, History!CutHistory(a) PROVE HistoryInv'
    BY <1>1, CutStep
  <1>2. ASSUME NEW c \in Client, History!Connect(c) \/ History!Disconnect(c) \/ History!FetchAnswered(c) \/ History!Notified(c)
        PROVE  HistoryInv'
    BY <1>2, ConnectStep, DisconnectStep, FetchStep, NotifiedStep
  <1>3. ASSUME NEW c \in Client, History!SegmentEnd(c) PROVE HistoryInv'
    BY <1>3, SegmentStep
  <1>4. ASSUME NEW c \in Client, NEW ch \in Changes, History!CommitChange(c, ch.changed, ch.renamed) PROVE HistoryInv'
    <2>1. ch.changed \in SUBSET Object
      BY HistoryAssumption
    <2> QED
      BY <1>4, <2>1, ChangeStep
  <1>5. ASSUME NEW c \in Client, NEW a \in History!InSync(c), History!PruneHistory(c, a) PROVE HistoryInv'
    BY <1>5, PruneStep
  <1>6. ASSUME NEW c \in Client, NEW a \in log, NEW same \in BOOLEAN, History!Join(c, a, same) PROVE HistoryInv'
    BY <1>6, JoinStep
  <1>7. ASSUME NEW c \in Client, NEW n \in History!InSync(c), History!LoseRow(c, n) PROVE HistoryInv'
    BY <1>7, LoseStep
  <1>8. ASSUME UNCHANGED historyVars PROVE HistoryInv'
    BY <1>8, HistoryAside
  <1> QED
    BY <1>1, <1>2, <1>3, <1>4, <1>5, <1>6, <1>7, <1>8 DEF History!Next, Client
=============================================================================
