------------------------ MODULE ChatMembershipProofs ------------------------
(***************************************************************************)
(* Proofs about the users' side: the members a storage's user changes fold *)
(* to (UserMerge), for any number of changes, any causal tree over them    *)
(* and any order they arrive in, a chat application's connection           *)
(* (ChatConnection), for any chats, servers and bounds, and the requests   *)
(* of other users (Requests), for any packets and keys.                    *)
(***************************************************************************)
EXTENDS Users, DivergenceProofs, SequenceTheorems

-----------------------------------------------------------------------------
(* The membership merge *)

\* the places of the records of a map up to n that no full change after them voids
Unvoided(r, map, n) ==
    {m \in 1..n : /\ order[r][m] \in map
                  /\ \A k \in (m + 1)..n : order[r][k] \in map => change[order[r][k]] \notin Merge!Full}

\* what the rounds over the places W of a map are known to have: the removals, and a member only
\* by a change that gives access and saw them
Told(r, map, f, W) ==
    /\ f \in [member : Merge!Tag \cup {Merge!NoTag}, removals : SUBSET Merge!Tag]
    /\ f.removals = {order[r][m] : m \in {k \in W : change[order[r][k]] \in Merge!Removal}}
    /\ f.member # Merge!NoTag =>
          \E m \in W : /\ f.member = order[r][m]
                       /\ change[order[r][m]] \in Merge!Access
                       /\ \A x \in f.removals : Merge!Saw(map, x, parentOf[f.member])

\* the effective changes of a map, and the ones that stand after all their authors knew of
EffectiveOf(r, map) ==
    {n \in Unvoided(r, map, Tags) :
        /\ change[order[r][n]] \in Merge!Access
        /\ \A m \in Unvoided(r, map, Tags) :
              change[order[r][m]] \in Merge!Removal => order[r][m] \in Merge!Past(order[r][n])}
InTurnOf(r, map, n) ==
    \A x \in Merge!Past(order[r][n]) : x \in map /\ \E m \in 1..(n - 1) : order[r][m] = x
Right(r, map, t) ==
    /\ t # Merge!NoTag => \E n \in EffectiveOf(r, map) : t = order[r][n]
    /\ (\E n \in EffectiveOf(r, map) : InTurnOf(r, map, n)) => t # Merge!NoTag

MergeTypes ==
    /\ parentOf \in [Merge!Tag -> Merge!Tag \cup {Merge!NoTag}]
    /\ change \in [Merge!Tag -> Kinds]
    /\ order \in [Replica -> Merge!Numberings]
    /\ arrived \in [Replica -> SUBSET Merge!Tag] /\ folded \in [Replica -> SUBSET Merge!Tag]
    /\ member \in [Replica -> Merge!Tag \cup {Merge!NoTag}]
MergeInv == MergeTypes /\ \A r \in Replica : Right(r, folded[r], member[r])

\* No tag is the number that stands for none.
LEMMA TagsAreSome == Tags \in Nat /\ \A t \in Merge!Tag : t # Merge!NoTag
  BY MergeAssumption DEF Merge!Tag, Merge!NoTag

\* A walk up the tree goes from each record in the map to its parent.
LEMMA WalkUnfolds ==
    ASSUME NEW parents, NEW map, NEW from
    PROVE  /\ Merge!Walk(parents, map, from)[0] = from
           /\ \A n \in 1..Tags : Merge!Walk(parents, map, from)[n] =
                  IF Merge!Walk(parents, map, from)[n - 1] \in map
                  THEN parents[Merge!Walk(parents, map, from)[n - 1]] ELSE Merge!NoTag
  <1> DEFINE Step(x) == IF x \in map THEN parents[x] ELSE Merge!NoTag
             Good(k) == \E f : f = [n \in 0..k |-> IF n = 0 THEN from ELSE Step(f[n - 1])]
             S == {k \in 0..Tags : Good(k)}
             w == Merge!Walk(parents, map, from)
  <1>1. w = CHOOSE f : f = [n \in 0..Tags |-> IF n = 0 THEN from ELSE Step(f[n - 1])]
    BY DEF Merge!Walk
  <1>a. Tags \in Nat
    BY TagsAreSome
  <1> HIDE DEF Step, w
  <1>2. 0 \in S
    <2> DEFINE f == [n \in 0..0 |-> from]
    <2>1. f = [n \in 0..0 |-> IF n = 0 THEN from ELSE Step(f[n - 1])]
      OBVIOUS
    <2>2. 0 \in 0..Tags
      BY <1>a
    <2> HIDE DEF f
    <2> QED
      BY <2>1, <2>2
  <1>3. ASSUME NEW k \in 0..Tags, k \in S, k < Tags PROVE k + 1 \in S
    <2>1. PICK f : f = [n \in 0..k |-> IF n = 0 THEN from ELSE Step(f[n - 1])]
      BY <1>3
    <2> DEFINE g == [n \in 0..(k + 1) |-> IF n = k + 1 THEN Step(f[k]) ELSE f[n]]
    <2>2. ASSUME NEW n \in 0..(k + 1) PROVE g[n] = IF n = 0 THEN from ELSE Step(g[n - 1])
      <3>1. CASE n = k + 1
        BY <1>a, <3>1
      <3>2. CASE n # k + 1
        <4>1. n \in 0..k /\ g[n] = f[n]
          BY <1>a, <3>2
        <4>2. f[n] = IF n = 0 THEN from ELSE Step(f[n - 1])
          BY <2>1, <4>1
        <4>3. n # 0 => g[n - 1] = f[n - 1]
          BY <4>1
        <4> QED
          BY <4>1, <4>2, <4>3
      <3> QED
        BY <3>1, <3>2
    <2>3. g = [n \in 0..(k + 1) |-> IF n = 0 THEN from ELSE Step(g[n - 1])]
      BY <2>2
    <2>4. k + 1 \in 0..Tags
      BY <1>3, <1>a
    <2> HIDE DEF g
    <2> QED
      BY <2>3, <2>4
  <1>4. Tags \in S
    <2> HIDE DEF S
    <2>1. \A k \in 0..Tags : k \in S
      BY <1>2, <1>3, <1>a, UpTo
    <2> QED
      BY <2>1, <1>a
  <1>5. w = [n \in 0..Tags |-> IF n = 0 THEN from ELSE Step(w[n - 1])]
    BY <1>1, <1>4
  <1>6. w[0] = from
    BY <1>5, <1>a
  <1>7. \A n \in 1..Tags : w[n] = Step(w[n - 1])
    BY <1>5, <1>a
  <1> QED
    BY <1>6, <1>7 DEF w, Step

\* What a walk over a part of the tree finds is in the past.
LEMMA SawIsTrue ==
    ASSUME NEW map \in SUBSET Merge!Tag, NEW from, NEW x \in Merge!Tag, Merge!Saw(map, x, from)
    PROVE  Merge!Saw(Merge!Tag, x, from)
  <1> DEFINE v == Merge!Walk(parentOf, map, from)
             w == Merge!Walk(parentOf, Merge!Tag, from)
             S == {n \in 0..Tags : v[n] \in {Merge!NoTag, w[n]}}
  <1>1. Tags \in Nat /\ Merge!NoTag \notin Merge!Tag /\ x # Merge!NoTag
    BY TagsAreSome
  <1>2. /\ v[0] = from /\ \A n \in 1..Tags : v[n] = IF v[n - 1] \in map THEN parentOf[v[n - 1]] ELSE Merge!NoTag
        /\ w[0] = from /\ \A n \in 1..Tags : w[n] = IF w[n - 1] \in Merge!Tag THEN parentOf[w[n - 1]] ELSE Merge!NoTag
    BY WalkUnfolds
  <1> HIDE DEF v, w
  <1>3. 0 \in S
    BY <1>1, <1>2
  <1>4. ASSUME NEW n \in 0..Tags, n \in S, n < Tags PROVE n + 1 \in S
    <2>1. n + 1 \in 1..Tags /\ n + 1 \in 0..Tags /\ (n + 1) - 1 = n
      BY <1>1, <1>4
    <2>2. v[n + 1] = IF v[n] \in map THEN parentOf[v[n]] ELSE Merge!NoTag
      BY <1>2, <2>1
    <2>3. w[n + 1] = IF w[n] \in Merge!Tag THEN parentOf[w[n]] ELSE Merge!NoTag
      BY <1>2, <2>1
    <2> QED
      BY <1>1, <1>4, <2>1, <2>2, <2>3
  <1>5. \A n \in 0..Tags : n \in S
    <2> HIDE DEF S
    <2> QED
      BY <1>1, <1>3, <1>4, UpTo
  <1>6. PICK n \in 0..Tags : v[n] = x
    BY DEF Merge!Saw, v
  <1>7. w[n] = x
    BY <1>1, <1>5, <1>6
  <1> QED
    BY <1>7 DEF Merge!Saw, w

\* A walk over a map with the whole past in it finds all of the past.
LEMMA PastIsSeen ==
    ASSUME NEW map \in SUBSET Merge!Tag, NEW from, NEW x \in Merge!Tag, Merge!Saw(Merge!Tag, x, from),
           \A y \in Merge!Tag : Merge!Saw(Merge!Tag, y, from) => y \in map
    PROVE  Merge!Saw(map, x, from)
  <1> DEFINE v == Merge!Walk(parentOf, map, from)
             w == Merge!Walk(parentOf, Merge!Tag, from)
             S == {n \in 0..Tags : v[n] = w[n]}
  <1>1. Tags \in Nat /\ Merge!NoTag \notin Merge!Tag
    BY TagsAreSome
  <1>2. /\ v[0] = from /\ \A n \in 1..Tags : v[n] = IF v[n - 1] \in map THEN parentOf[v[n - 1]] ELSE Merge!NoTag
        /\ w[0] = from /\ \A n \in 1..Tags : w[n] = IF w[n - 1] \in Merge!Tag THEN parentOf[w[n - 1]] ELSE Merge!NoTag
    BY WalkUnfolds
  <1>a. \A n \in 0..Tags : w[n] \in Merge!Tag => w[n] \in map
    BY DEF Merge!Saw
  <1>b. PICK n \in 0..Tags : w[n] = x
    BY DEF Merge!Saw
  <1>c. \A k \in 0..Tags : v[k] = x => Merge!Saw(map, x, from)
    BY DEF Merge!Saw
  <1> HIDE DEF v, w
  <1>3. 0 \in S
    BY <1>1, <1>2
  <1>4. ASSUME NEW k \in 0..Tags, k \in S, k < Tags PROVE k + 1 \in S
    <2>1. k + 1 \in 1..Tags /\ k + 1 \in 0..Tags /\ (k + 1) - 1 = k
      BY <1>1, <1>4
    <2>2. v[k + 1] = IF v[k] \in map THEN parentOf[v[k]] ELSE Merge!NoTag
      BY <1>2, <2>1
    <2>3. w[k + 1] = IF w[k] \in Merge!Tag THEN parentOf[w[k]] ELSE Merge!NoTag
      BY <1>2, <2>1
    <2>4. w[k] \in map <=> w[k] \in Merge!Tag
      BY <1>a
    <2> QED
      BY <1>4, <2>1, <2>2, <2>3, <2>4
  <1>5. \A k \in 0..Tags : k \in S
    <2> HIDE DEF S
    <2> QED
      BY <1>1, <1>3, <1>4, UpTo
  <1> QED
    BY <1>5, <1>b, <1>c

\* The rounds of the fold, one for each record of the map.
LEMMA RoundsUnfold ==
    ASSUME NEW r, NEW map
    PROVE  /\ Merge!Rounds(r, map)[0] = Merge!Empty
           /\ \A n \in 1..Tags : Merge!Rounds(r, map)[n] =
                  IF order[r][n] \in map THEN Merge!Round(map, Merge!Rounds(r, map)[n - 1], order[r][n])
                  ELSE Merge!Rounds(r, map)[n - 1]
  <1> DEFINE Step(x, n) == IF order[r][n] \in map THEN Merge!Round(map, x, order[r][n]) ELSE x
             Good(k) == \E f : f = [n \in 0..k |-> IF n = 0 THEN Merge!Empty ELSE Step(f[n - 1], n)]
             S == {k \in 0..Tags : Good(k)}
             w == Merge!Rounds(r, map)
  <1>1. w = CHOOSE f : f = [n \in 0..Tags |-> IF n = 0 THEN Merge!Empty ELSE Step(f[n - 1], n)]
    BY DEF Merge!Rounds
  <1>a. Tags \in Nat
    BY TagsAreSome
  <1> HIDE DEF Step, w
  <1>2. 0 \in S
    <2> DEFINE f == [n \in 0..0 |-> Merge!Empty]
    <2>1. f = [n \in 0..0 |-> IF n = 0 THEN Merge!Empty ELSE Step(f[n - 1], n)]
      OBVIOUS
    <2>2. 0 \in 0..Tags
      BY <1>a
    <2> HIDE DEF f
    <2> QED
      BY <2>1, <2>2
  <1>3. ASSUME NEW k \in 0..Tags, k \in S, k < Tags PROVE k + 1 \in S
    <2>1. PICK f : f = [n \in 0..k |-> IF n = 0 THEN Merge!Empty ELSE Step(f[n - 1], n)]
      BY <1>3
    <2> DEFINE g == [n \in 0..(k + 1) |-> IF n = k + 1 THEN Step(f[k], n) ELSE f[n]]
    <2>2. ASSUME NEW n \in 0..(k + 1) PROVE g[n] = IF n = 0 THEN Merge!Empty ELSE Step(g[n - 1], n)
      <3>1. CASE n = k + 1
        BY <1>a, <3>1
      <3>2. CASE n # k + 1
        <4>1. n \in 0..k /\ g[n] = f[n]
          BY <1>a, <3>2
        <4>2. f[n] = IF n = 0 THEN Merge!Empty ELSE Step(f[n - 1], n)
          BY <2>1, <4>1
        <4>3. n # 0 => g[n - 1] = f[n - 1]
          BY <4>1
        <4> QED
          BY <4>1, <4>2, <4>3
      <3> QED
        BY <3>1, <3>2
    <2>3. g = [n \in 0..(k + 1) |-> IF n = 0 THEN Merge!Empty ELSE Step(g[n - 1], n)]
      BY <2>2
    <2>4. k + 1 \in 0..Tags
      BY <1>3, <1>a
    <2> HIDE DEF g
    <2> QED
      BY <2>3, <2>4
  <1>4. Tags \in S
    <2> HIDE DEF S
    <2>1. \A k \in 0..Tags : k \in S
      BY <1>2, <1>3, <1>a, UpTo
    <2> QED
      BY <2>1, <1>a
  <1>5. w = [n \in 0..Tags |-> IF n = 0 THEN Merge!Empty ELSE Step(w[n - 1], n)]
    BY <1>1, <1>4
  <1>6. w[0] = Merge!Empty
    BY <1>5, <1>a
  <1>7. \A n \in 1..Tags : w[n] = Step(w[n - 1], n)
    BY <1>5, <1>a
  <1> QED
    BY <1>6, <1>7 DEF w, Step

\* How the window moves on with a record.
LEMMA WindowMoves ==
    ASSUME NEW r, NEW map, NEW n \in Nat
    PROVE  Unvoided(r, map, n + 1) =
               IF order[r][n + 1] \notin map THEN Unvoided(r, map, n)
               ELSE (IF change[order[r][n + 1]] \in Merge!Full THEN {} ELSE Unvoided(r, map, n)) \cup {n + 1}
  <1> DEFINE Voids(k) == order[r][k] \in map /\ change[order[r][k]] \in Merge!Full
  <1>1. \A m \in 1..(n + 1) : m \in 1..n \/ m = n + 1
    OBVIOUS
  <1>2. \A m \in 1..n : /\ m \in 1..(n + 1) /\ n + 1 \in (m + 1)..(n + 1)
                        /\ \A k \in (m + 1)..(n + 1) : k \in (m + 1)..n \/ k = n + 1
                        /\ \A k \in (m + 1)..n : k \in (m + 1)..(n + 1)
    OBVIOUS
  <1>3. n + 1 \in 1..(n + 1) /\ \A k \in ((n + 1) + 1)..(n + 1) : FALSE
    OBVIOUS
  <1>4. \A k : Unvoided(r, map, k) = {m \in 1..k : order[r][m] \in map /\ \A x \in (m + 1)..k : ~Voids(x)}
    BY Zenon DEF Unvoided
  <1> HIDE DEF Voids
  <1>5. ASSUME NEW m \in 1..n
        PROVE  m \in Unvoided(r, map, n + 1) <=> m \in Unvoided(r, map, n) /\ ~Voids(n + 1)
    <2>1. m \in Unvoided(r, map, n + 1) <=> order[r][m] \in map /\ \A x \in (m + 1)..(n + 1) : ~Voids(x)
      BY <1>2, <1>4
    <2>2. m \in Unvoided(r, map, n) <=> order[r][m] \in map /\ \A x \in (m + 1)..n : ~Voids(x)
      BY <1>4
    <2>3. (\A x \in (m + 1)..(n + 1) : ~Voids(x)) <=> (\A x \in (m + 1)..n : ~Voids(x)) /\ ~Voids(n + 1)
      BY <1>2, Zenon
    <2> QED
      BY <2>1, <2>2, <2>3, Zenon
  <1>6. n + 1 \in Unvoided(r, map, n + 1) <=> order[r][n + 1] \in map
    BY <1>3, <1>4, Zenon
  <1>7. n + 1 \notin Unvoided(r, map, n) /\ Unvoided(r, map, n) \subseteq 1..n /\ Unvoided(r, map, n + 1) \subseteq 1..(n + 1)
    BY DEF Unvoided
  <1>8. CASE order[r][n + 1] \notin map
    BY <1>1, <1>5, <1>6, <1>7, <1>8 DEF Voids
  <1>9. CASE order[r][n + 1] \in map /\ change[order[r][n + 1]] \in Merge!Full
    BY <1>1, <1>5, <1>6, <1>7, <1>9 DEF Voids
  <1>10. CASE order[r][n + 1] \in map /\ change[order[r][n + 1]] \notin Merge!Full
    BY <1>1, <1>5, <1>6, <1>7, <1>10 DEF Voids
  <1> QED
    BY <1>8, <1>9, <1>10

\* A fold of nothing.
LEMMA EmptyTold == ASSUME NEW r, NEW map PROVE Told(r, map, Merge!Empty, {})
  BY DEF Told, Merge!Empty

\* One round, for a record of the map at place n.
LEMMA RoundTells ==
    ASSUME MergeTypes, NEW r \in Replica, NEW map \in SUBSET Merge!Tag, NEW f, NEW W \in SUBSET Merge!Place,
           Told(r, map, f, W), NEW n \in Merge!Place
    PROVE  Told(r, map, Merge!Round(map, f, order[r][n]),
                (IF change[order[r][n]] \in Merge!Full THEN {} ELSE W) \cup {n})
  <1> DEFINE t == order[r][n]
             start == IF change[t] \in Merge!Full THEN Merge!Empty ELSE f
             V == IF change[t] \in Merge!Full THEN {} ELSE W
             g == Merge!Round(map, f, t)
  <1>1. t \in Merge!Tag /\ t # Merge!NoTag /\ (\A m \in Merge!Place : order[r][m] \in Merge!Tag) /\ V \subseteq Merge!Place
    BY TagsAreSome DEF MergeTypes, Merge!Numberings
  <1>2. Told(r, map, start, V)
    BY EmptyTold
  <1>3. g = IF change[t] \in Merge!Removal THEN Merge!ApplyRemoval(map, start, t)
            ELSE IF change[t] \in Merge!Access THEN Merge!ApplyUpdate(map, start, t) ELSE start
    BY DEF Merge!Round
  <1>4. change[t] \in Merge!Access => change[t] \notin Merge!Removal
    BY DEF Merge!Access, Merge!Removal
  <1> HIDE DEF t, start, V, g
  <1>5. start \in [member : Merge!Tag \cup {Merge!NoTag}, removals : SUBSET Merge!Tag]
    BY <1>2 DEF Told
  <1>6. CASE change[t] \in Merge!Removal
    <2>1. /\ g \in [member : Merge!Tag \cup {Merge!NoTag}, removals : SUBSET Merge!Tag]
          /\ g.removals = start.removals \cup {t}
          /\ g.member = IF start.member # Merge!NoTag /\ ~Merge!Saw(map, t, parentOf[start.member])
                        THEN Merge!NoTag ELSE start.member
      BY <1>1, <1>3, <1>5, <1>6 DEF Merge!ApplyRemoval
    <2>2. g.removals = {order[r][m] : m \in {k \in V \cup {n} : change[order[r][k]] \in Merge!Removal}}
      BY <1>2, <1>6, <2>1 DEF Told, t
    <2>3. ASSUME g.member # Merge!NoTag
          PROVE  \E m \in V \cup {n} : /\ g.member = order[r][m]
                                       /\ change[order[r][m]] \in Merge!Access
                                       /\ \A x \in g.removals : Merge!Saw(map, x, parentOf[g.member])
      <3>1. g.member = start.member /\ start.member # Merge!NoTag /\ Merge!Saw(map, t, parentOf[start.member])
        BY <2>1, <2>3
      <3> QED
        BY <1>2, <2>1, <3>1 DEF Told
    <2> QED
      BY <2>1, <2>2, <2>3 DEF Told, t, V, g
  <1>7. CASE change[t] \in Merge!Access
    <2>1. {k \in V \cup {n} : change[order[r][k]] \in Merge!Removal} = {k \in V : change[order[r][k]] \in Merge!Removal}
      BY <1>4, <1>7 DEF t
    <2>2. g = Merge!ApplyUpdate(map, start, t)
      BY <1>3, <1>4, <1>7
    <2>3. CASE ~Merge!Defeated(map, start, t) /\ Merge!Wins(map, start, t)
      <3>1. /\ g \in [member : Merge!Tag \cup {Merge!NoTag}, removals : SUBSET Merge!Tag]
            /\ g.removals = start.removals /\ g.member = t
        BY <1>1, <1>5, <2>2, <2>3 DEF Merge!ApplyUpdate
      <3>2. \A x \in g.removals : Merge!Saw(map, x, parentOf[t])
        BY <2>3, <3>1 DEF Merge!Defeated
      <3>3. g.removals = {order[r][m] : m \in {k \in V \cup {n} : change[order[r][k]] \in Merge!Removal}}
        BY <1>2, <2>1, <3>1 DEF Told
      <3> QED
        BY <1>7, <3>1, <3>2, <3>3 DEF Told, t, V, g
    <2>4. CASE ~(~Merge!Defeated(map, start, t) /\ Merge!Wins(map, start, t))
      <3>1. g = start
        BY <2>2, <2>4 DEF Merge!ApplyUpdate
      <3>2. Told(r, map, start, V \cup {n})
        BY <1>2, <2>1 DEF Told
      <3> QED
        BY <3>1, <3>2 DEF t, V, g
    <2> QED
      BY <2>3, <2>4
  <1>8. CASE change[t] \notin Merge!Removal \cup Merge!Access
    <2>1. {k \in V \cup {n} : change[order[r][k]] \in Merge!Removal} = {k \in V : change[order[r][k]] \in Merge!Removal}
      BY <1>8 DEF t
    <2>2. g = start
      BY <1>3, <1>8
    <2>3. Told(r, map, start, V \cup {n})
      BY <1>2, <2>1 DEF Told
    <2> QED
      BY <2>2, <2>3 DEF t, V, g
  <1> QED
    BY <1>6, <1>7, <1>8

\* After each round.
LEMMA RoundsTell ==
    ASSUME MergeTypes, NEW r \in Replica, NEW map \in SUBSET Merge!Tag
    PROVE  \A n \in 0..Tags : Told(r, map, Merge!Rounds(r, map)[n], Unvoided(r, map, n))
  <1> DEFINE w == Merge!Rounds(r, map)
             S == {n \in 0..Tags : Told(r, map, w[n], Unvoided(r, map, n))}
  <1>1. Tags \in Nat
    BY TagsAreSome
  <1>2. /\ w[0] = Merge!Empty
        /\ \A n \in 1..Tags : w[n] = IF order[r][n] \in map THEN Merge!Round(map, w[n - 1], order[r][n]) ELSE w[n - 1]
    BY RoundsUnfold
  <1> HIDE DEF w
  <1>3. 0 \in S
    <2>1. Unvoided(r, map, 0) = {}
      BY DEF Unvoided
    <2> QED
      BY <1>1, <1>2, <2>1, EmptyTold
  <1>4. ASSUME NEW n \in 0..Tags, n \in S, n < Tags PROVE n + 1 \in S
    <2>1. n + 1 \in 1..Tags /\ n + 1 \in 0..Tags /\ (n + 1) - 1 = n /\ n \in Nat /\ n + 1 \in Merge!Place
      BY <1>1, <1>4 DEF Merge!Place
    <2>2. w[n + 1] = IF order[r][n + 1] \in map THEN Merge!Round(map, w[n], order[r][n + 1]) ELSE w[n]
      BY <1>2, <2>1
    <2>3. Told(r, map, w[n], Unvoided(r, map, n))
      BY <1>4
    <2>4. Unvoided(r, map, n) \in SUBSET Merge!Place
      BY <1>1, <1>4 DEF Unvoided, Merge!Place
    <2>5. Told(r, map, w[n + 1], Unvoided(r, map, n + 1))
      <3>1. CASE order[r][n + 1] \in map
        <4>1. Told(r, map, Merge!Round(map, w[n], order[r][n + 1]),
                   (IF change[order[r][n + 1]] \in Merge!Full THEN {} ELSE Unvoided(r, map, n)) \cup {n + 1})
          BY <2>1, <2>3, <2>4, RoundTells
        <4> QED
          BY <2>1, <2>2, <3>1, <4>1, WindowMoves
      <3>2. CASE order[r][n + 1] \notin map
        BY <2>1, <2>2, <2>3, <3>2, WindowMoves
      <3> QED
        BY <3>1, <3>2
    <2> QED
      BY <2>1, <2>5
  <1>5. \A n \in 0..Tags : n \in S
    <2> HIDE DEF S
    <2> QED
      BY <1>1, <1>3, <1>4, UpTo
  <1> QED
    BY <1>5 DEF w

\* A change that is effective and stands after all its author knew of leaves the user a member,
\* by itself or by another.
LEMMA ReinvitationStays ==
    ASSUME MergeTypes, NEW r \in Replica, NEW map \in SUBSET Merge!Tag,
           NEW n \in EffectiveOf(r, map), InTurnOf(r, map, n)
    PROVE  Merge!Fold(r, map).member # Merge!NoTag
  <1> DEFINE w == Merge!Rounds(r, map)
             W == Unvoided(r, map, Tags)
             e == order[r][n]
             S == {k \in 0..Tags : k >= n => w[k].member # Merge!NoTag}
  <1>1. Tags \in Nat
    BY TagsAreSome
  <1>2. /\ w[0] = Merge!Empty
        /\ \A k \in 1..Tags : w[k] = IF order[r][k] \in map THEN Merge!Round(map, w[k - 1], order[r][k]) ELSE w[k - 1]
    BY RoundsUnfold
  <1>3. \A k \in 0..Tags : Told(r, map, w[k], Unvoided(r, map, k))
    BY RoundsTell
  <1>4. /\ n \in 1..Tags /\ n \in Nat /\ e \in map /\ change[e] \in Merge!Access
        /\ \A k \in (n + 1)..Tags : order[r][k] \in map => change[order[r][k]] \notin Merge!Full
        /\ \A m \in W : change[order[r][m]] \in Merge!Removal => order[r][m] \in Merge!Past(e)
    BY <1>1 DEF EffectiveOf, Unvoided
  <1>5. \A x \in Merge!Past(e) : x \in Merge!Tag /\ x \in map /\ \E m \in 1..(n - 1) : order[r][m] = x
    BY DEF InTurnOf, Merge!Past
  <1>6. \A k, m \in 1..Tags : order[r][k] \in Merge!Tag /\ (order[r][k] = order[r][m] => k = m)
    BY DEF MergeTypes, Merge!Numberings, Merge!Place
  <1>7. \A x \in Merge!Past(e) : Merge!Saw(map, x, parentOf[e])
    <2>1. \A y \in Merge!Tag : Merge!Saw(Merge!Tag, y, parentOf[e]) => y \in map
      BY <1>5 DEF Merge!Past
    <2> QED
      BY <2>1, PastIsSeen DEF Merge!Past
  <1> HIDE DEF w, e
  <1>8. 0 \in S
    BY <1>1, <1>4
  <1>9. ASSUME NEW k \in 0..Tags, k \in S, k < Tags PROVE k + 1 \in S
    <2> SUFFICES ASSUME k + 1 >= n PROVE w[k + 1].member # Merge!NoTag
      BY <1>1, <1>9
    <2> DEFINE t == order[r][k + 1]
    <2>1. k + 1 \in 1..Tags /\ (k + 1) - 1 = k /\ k \in Nat
      BY <1>1, <1>9
    <2>2. w[k + 1] = IF t \in map THEN Merge!Round(map, w[k], t) ELSE w[k]
      BY <1>2, <2>1
    <2>3. w[k] \in [member : Merge!Tag \cup {Merge!NoTag}, removals : SUBSET Merge!Tag]
      BY <1>3 DEF Told
    <2>4. t \in Merge!Tag /\ t # Merge!NoTag
      BY <1>6, <2>1, TagsAreSome
    <2>5. CASE k + 1 = n
      <3> DEFINE start == IF change[e] \in Merge!Full THEN Merge!Empty ELSE w[k]
      <3>1. t = e /\ change[e] \notin Merge!Removal
        BY <1>4, <2>5 DEF e, Merge!Access, Merge!Removal
      <3>2. w[k + 1] = Merge!ApplyUpdate(map, start, e)
        BY <1>4, <2>2, <3>1 DEF Merge!Round
      <3>3. \A x \in start.removals : x \in Merge!Past(e)
        <4>1. CASE change[e] \in Merge!Full
          BY <4>1 DEF Merge!Empty
        <4>2. CASE change[e] \notin Merge!Full
          <5> SUFFICES ASSUME NEW x \in w[k].removals PROVE x \in Merge!Past(e)
            BY <4>2
          <5>1. PICK m \in Unvoided(r, map, k) : order[r][m] = x /\ change[order[r][m]] \in Merge!Removal
            BY <1>3 DEF Told
          <5>2. m \in 1..k /\ order[r][m] \in map
                /\ \A i \in (m + 1)..k : order[r][i] \in map => change[order[r][i]] \notin Merge!Full
            BY <5>1 DEF Unvoided
          <5>3. m \in 1..Tags /\ \A i \in (m + 1)..Tags : i \in (m + 1)..k \/ i = n \/ i \in (n + 1)..Tags
            BY <1>1, <1>4, <2>1, <2>5, <5>2
          <5>4. m \in W
            BY <1>4, <4>2, <5>2, <5>3 DEF Unvoided, e
          <5> QED
            BY <1>4, <5>1, <5>4
        <4> QED
          BY <4>1, <4>2
      <3>4. ~Merge!Defeated(map, start, e)
        BY <1>7, <3>3 DEF Merge!Defeated
      <3>5. start \in [member : Merge!Tag \cup {Merge!NoTag}, removals : SUBSET Merge!Tag]
        BY <2>3 DEF Merge!Empty
      <3>6. start.member = Merge!NoTag => Merge!Wins(map, start, e)
        BY DEF Merge!Wins
      <3> HIDE DEF start
      <3>7. w[k + 1] = [start EXCEPT !.member = e] \/ (w[k + 1] = start /\ start.member # Merge!NoTag)
        BY <3>2, <3>4, <3>6 DEF Merge!ApplyUpdate
      <3>8. e # Merge!NoTag
        BY <2>4, <3>1
      <3> QED
        BY <3>5, <3>7, <3>8
    <2>6. CASE k + 1 # n
      <3>1. k >= n /\ k + 1 \in (n + 1)..Tags /\ w[k].member # Merge!NoTag
        BY <1>1, <1>4, <1>9, <2>1, <2>6
      <3>2. CASE t \notin map
        BY <2>2, <3>1, <3>2
      <3>3. CASE t \in map
        <4>1. change[t] \notin Merge!Full
          BY <1>4, <3>1, <3>3
        <4>2. k + 1 \in W
          <5>1. \A i \in ((k + 1) + 1)..Tags : i \in (n + 1)..Tags
            BY <1>1, <1>4, <2>1, <3>1
          <5> QED
            BY <1>4, <2>1, <3>3, <5>1 DEF Unvoided
        <4>3. change[t] \notin Merge!Removal
          <5>1. SUFFICES ASSUME t \in Merge!Past(e) PROVE FALSE
            BY <1>4, <4>2
          <5>2. PICK m \in 1..(n - 1) : order[r][m] = t
            BY <1>5, <5>1
          <5>3. m \in 1..Tags /\ m # k + 1
            BY <1>1, <1>4, <2>1, <3>1
          <5> QED
            BY <1>6, <2>1, <5>2, <5>3
        <4>4. w[k + 1] = IF change[t] \in Merge!Access THEN Merge!ApplyUpdate(map, w[k], t) ELSE w[k]
          BY <2>2, <3>3, <4>1, <4>3 DEF Merge!Round
        <4> HIDE DEF t
        <4>5. w[k + 1] = w[k] \/ w[k + 1] = [w[k] EXCEPT !.member = t]
          BY <4>4 DEF Merge!ApplyUpdate
        <4> QED
          BY <2>3, <2>4, <3>1, <4>5
      <3> QED
        BY <3>2, <3>3
    <2> QED
      BY <2>5, <2>6
  <1>10. \A k \in 0..Tags : k \in S
    <2> HIDE DEF S
    <2> QED
      BY <1>1, <1>8, <1>9, UpTo
  <1>11. Tags \in 0..Tags /\ Tags >= n
    BY <1>1, <1>4
  <1> QED
    BY <1>10, <1>11 DEF Merge!Fold, w

\* What a fold over a map gives.
LEMMA FoldIsRight ==
    ASSUME MergeTypes, NEW r \in Replica, NEW map \in SUBSET Merge!Tag
    PROVE  /\ Merge!Fold(r, map).member \in Merge!Tag \cup {Merge!NoTag}
           /\ Right(r, map, Merge!Fold(r, map).member)
  <1> DEFINE f == Merge!Fold(r, map)
             W == Unvoided(r, map, Tags)
  <1>1. Tags \in 0..Tags /\ f = Merge!Rounds(r, map)[Tags]
    BY TagsAreSome DEF Merge!Fold
  <1>2. Told(r, map, f, W)
    BY <1>1, RoundsTell
  <1>3. f \in [member : Merge!Tag \cup {Merge!NoTag}, removals : SUBSET Merge!Tag]
    BY <1>2 DEF Told
  <1>4. (\E n \in EffectiveOf(r, map) : InTurnOf(r, map, n)) => f.member # Merge!NoTag
    BY ReinvitationStays
  <1>5. ASSUME f.member # Merge!NoTag PROVE \E n \in EffectiveOf(r, map) : f.member = order[r][n]
    <2> HIDE DEF f
    <2>1. PICK n \in W : /\ f.member = order[r][n]
                         /\ change[order[r][n]] \in Merge!Access
                         /\ \A x \in f.removals : Merge!Saw(map, x, parentOf[f.member])
      BY <1>2, <1>5 DEF Told
    <2>2. \A m \in W : change[order[r][m]] \in Merge!Removal => order[r][m] \in f.removals
      BY <1>2 DEF Told
    <2>3. \A x \in f.removals : x \in Merge!Past(order[r][n])
      BY <1>3, <2>1, SawIsTrue DEF Merge!Past
    <2>4. n \in EffectiveOf(r, map)
      BY <2>1, <2>2, <2>3 DEF EffectiveOf
    <2> QED
      BY <2>1, <2>4
  <1> QED
    BY <1>3, <1>4, <1>5 DEF Right

\* Before any change.
LEMMA MergeInitially == Merge!Init => MergeInv
  <1> SUFFICES ASSUME Merge!Init PROVE MergeInv
    OBVIOUS
  <1>1. \A r \in Replica : folded[r] = {} /\ member[r] = Merge!NoTag
    BY DEF Merge!Init
  <1>2. \A r \in Replica : Unvoided(r, folded[r], Tags) = {}
    BY <1>1 DEF Unvoided
  <1>3. \A r \in Replica : Right(r, folded[r], member[r])
    BY <1>1, <1>2 DEF Right, EffectiveOf
  <1> QED
    BY <1>3 DEF MergeInv, MergeTypes, Merge!Init

\* What a fold was right about stays right while no record changes.
LEMMA RightStays ==
    ASSUME UNCHANGED <<parentOf, change, order>>
    PROVE  \A r, map, t : Right(r, map, t) <=> Right(r, map, t)'
  BY DEF Right, EffectiveOf, InTurnOf, Unvoided, Merge!Past, Merge!Saw

\* A replica takes a record in (on_user_changed, recompute_members).
LEMMA MergeStep == MergeInv /\ [Merge!Next]_mergeVars => MergeInv'
  <1> SUFFICES ASSUME MergeInv, [Merge!Next]_mergeVars PROVE MergeInv'
    OBVIOUS
  <1>1. CASE UNCHANGED mergeVars
    BY <1>1, RightStays DEF MergeInv, MergeTypes, mergeVars
  <1>2. ASSUME NEW r \in Replica, NEW t \in Merge!Tag, Merge!OnUserChanged(r, t) PROVE MergeInv'
    <2> DEFINE A == arrived[r] \cup {t}
               m == Merge!Fold(r, A).member
    <2>1. MergeTypes /\ A \in SUBSET Merge!Tag
      BY DEF MergeInv, MergeTypes
    <2>2. /\ UNCHANGED <<parentOf, change, order>>
          /\ arrived' = [arrived EXCEPT ![r] = A]
      BY <1>2 DEF Merge!OnUserChanged, Merge!Arrive
    <2>3. arrived'[r] = A
      BY <2>1, <2>2 DEF MergeTypes
    <2>4. folded' = [folded EXCEPT ![r] = A] /\ member' = [member EXCEPT ![r] = m]
      BY <1>2, <2>3 DEF Merge!OnUserChanged
    <2>5. m \in Merge!Tag \cup {Merge!NoTag} /\ Right(r, A, m)
      BY <2>1, FoldIsRight
    <2> HIDE DEF A, m
    <2>6. MergeTypes'
      BY <2>1, <2>2, <2>4, <2>5 DEF MergeTypes
    <2>7. ASSUME NEW q \in Replica PROVE Right(q, folded'[q], member'[q])
      BY <2>1, <2>4, <2>5 DEF MergeInv, MergeTypes
    <2> QED
      BY <2>2, <2>6, <2>7, RightStays DEF MergeInv
  <1>3. ASSUME NEW r \in Replica, NEW t \in Merge!Tag, Merge!OnOtherSpecial(r, t) PROVE MergeInv'
    <2>1. UNCHANGED <<parentOf, change, order, folded, member>> /\ arrived' = [arrived EXCEPT ![r] = @ \cup {t}]
      BY <1>3 DEF Merge!OnOtherSpecial, Merge!Arrive
    <2>2. MergeTypes'
      BY <2>1 DEF MergeInv, MergeTypes
    <2> QED
      BY <2>1, <2>2, RightStays DEF MergeInv
  <1> QED
    BY <1>1, <1>2, <1>3 DEF Merge!Next

\* A removal is never undone by a change whose author did not know of it, and a re-invitation that
\* stands after what its author knew of makes the user a member.
LEMMA MergeImplied == MergeInv => Merge!TypeOK /\ Merge!MemberIfEffective
  <1> SUFFICES ASSUME MergeInv PROVE Merge!TypeOK /\ Merge!MemberIfEffective
    OBVIOUS
  <1>1. \A r \in Replica : Unvoided(r, folded[r], Tags) = Merge!Since(r)
    BY DEF Unvoided, Merge!Since, Merge!Place
  <1>2. \A r \in Replica : EffectiveOf(r, folded[r]) = Merge!Effective(r)
    BY <1>1 DEF EffectiveOf, Merge!Effective
  <1>3. \A r \in Replica : \A n : InTurnOf(r, folded[r], n) <=> Merge!InTurn(r, n)
    BY DEF InTurnOf, Merge!InTurn
  <1>4. Merge!TypeOK
    BY DEF MergeInv, MergeTypes, Merge!TypeOK
  <1>5. Merge!MemberIfEffective
    BY <1>2, <1>3 DEF MergeInv, Right, Merge!MemberIfEffective
  <1> QED
    BY <1>4, <1>5

-----------------------------------------------------------------------------
(* The connection of a chat application *)

Event == [is : {"connect", "disconnect", "timer"}] \cup [is : {"created"}, chat : Chat, ok : BOOLEAN]
Creation(i) == i \in 1..Len(events) /\ events[i].is = "created"

ChatTypes == Chats!TypeOK /\ events \in Seq(Event)

\* the servers never lose a storage, and the list names none they do not have
StoragesKnown ==
    /\ Invited \subseteq storages /\ listed \subseteq storages
    /\ \A c \in Chat : creating[c] = "made" => c \in storages
    /\ \A i \in 1..Len(events) : Creation(i) /\ events[i].ok => events[i].chat \in storages

\* a chat has one creation under way at most, as a call or as its answer's event, and until that
\* is handled it is open and not attached
CreationsApart ==
    /\ \A c \in Chat : creating[c] # "no" => c \in opened \ attached
    /\ \A i \in 1..Len(events) :
          Creation(i) => events[i].chat \in opened \ attached /\ creating[events[i].chat] = "no"
    /\ \A i, j \in 1..Len(events) : Creation(i) /\ Creation(j) /\ events[i].chat = events[j].chat => i = j

ChatInv == ChatTypes /\ Chats!AttachedAreTold /\ StoragesKnown /\ CreationsApart

\* An event put behind the others.
LEMMA EventAppended ==
    ASSUME events \in Seq(Event), NEW e \in Event, events' = Append(events, e)
    PROVE  /\ events' \in Seq(Event)
           /\ Len(events) \in Nat /\ Len(events') = Len(events) + 1
           /\ \A i \in 1..Len(events') :
                \/ i \in 1..Len(events) /\ events'[i] = events[i]
                \/ i = Len(events) + 1 /\ events'[i] = e
  <1>1. /\ Append(events, e) \in Seq(Event) /\ Len(Append(events, e)) = Len(events) + 1
        /\ \A i \in 1..Len(events) : Append(events, e)[i] = events[i]
        /\ Append(events, e)[Len(events) + 1] = e
    BY AppendProperties
  <1>2. Len(events) \in Nat
    BY LenProperties
  <1> QED
    BY <1>1, <1>2

\* The first event is taken.
LEMMA EventTaken ==
    ASSUME events \in Seq(Event), events # <<>>, events' = Tail(events)
    PROVE  /\ events' \in Seq(Event) /\ Head(events) = events[1] /\ Head(events) \in Event
           /\ Len(events) \in Nat /\ 1 \in 1..Len(events) /\ Len(events') = Len(events) - 1
           /\ \A i \in 1..Len(events') : i + 1 \in 1..Len(events) /\ events'[i] = events[i + 1]
  <1>1. /\ Head(events) \in Event /\ Tail(events) \in Seq(Event) /\ Len(Tail(events)) = Len(events) - 1
        /\ \A i \in 1..Len(Tail(events)) : Tail(events)[i] = events[i + 1]
    BY HeadTailProperties
  <1>2. Len(events) \in Nat \ {0} /\ Head(events) = events[1]
    BY EmptySeq
  <1> QED
    BY <1>1, <1>2

\* A step that leaves the chats alone and emits nothing, or an event that is not a creation's;
\* with the session the calls on their way may go.
LEMMA ChatsAside ==
    ASSUME ChatInv, UNCHANGED <<opened, attached, listed, storages>>,
           creating' = creating \/ creating' = [c \in Chat |-> "no"],
           \/ events' = events
           \/ \E e \in {"connect", "disconnect", "timer"} : events' = Append(events, [is |-> e])
    PROVE  events' \in Seq(Event) /\ StoragesKnown' /\ CreationsApart'
  <1>1. events \in Seq(Event) /\ creating \in [Chat -> {"no", "asked", "made", "refused"}]
    BY DEF ChatInv, ChatTypes, Chats!TypeOK
  <1>2. events' \in Seq(Event) /\ \A i \in 1..Len(events') : Creation(i)' => Creation(i) /\ events'[i] = events[i]
    <2>1. CASE events' = events
      BY <1>1, <2>1 DEF Creation
    <2>2. ASSUME NEW k \in {"connect", "disconnect", "timer"}, events' = Append(events, [is |-> k])
          PROVE  events' \in Seq(Event) /\ \A i \in 1..Len(events') : Creation(i)' => Creation(i) /\ events'[i] = events[i]
      <3>1. [is |-> k] \in Event
        BY DEF Event
      <3> QED
        BY <1>1, <2>2, <3>1, EventAppended DEF Creation
    <2> QED
      BY <2>1, <2>2
  <1>3. \A c \in Chat : creating'[c] = creating[c] \/ creating'[c] = "no"
    OBVIOUS
  <1>4. \A i \in 1..Len(events) : Creation(i) => events[i].chat \in Chat
    BY <1>1 DEF Creation, Event
  <1>5. StoragesKnown'
    BY <1>2, <1>3 DEF ChatInv, StoragesKnown, Creation
  <1>6. CreationsApart'
    <2>1. \A c \in Chat : creating'[c] # "no" => c \in opened' \ attached'
      BY <1>3 DEF ChatInv, CreationsApart
    <2>2. \A i \in 1..Len(events') :
             Creation(i)' => events'[i].chat \in opened' \ attached' /\ creating'[events'[i].chat] = "no"
      BY <1>2, <1>3, <1>4 DEF ChatInv, CreationsApart, Creation
    <2>3. \A i, j \in 1..Len(events') : Creation(i)' /\ Creation(j)' /\ events'[i].chat = events'[j].chat => i = j
      BY <1>2 DEF ChatInv, CreationsApart, Creation
    <2> QED
      BY <2>1, <2>2, <2>3 DEF CreationsApart, Creation
  <1> QED
    BY <1>2, <1>5, <1>6

\* Before the first call.
LEMMA ChatInitially == Chats!Init => ChatInv
  <1> SUFFICES ASSUME Chats!Init PROVE ChatInv
    OBVIOUS
  <1> USE DEF Chats!Init
  <1>1. events \in Seq(Event) /\ Len(events) = 0
    BY EmptySeq
  <1>2. Chats!TypeOK
    BY ChatAssumption DEF Chats!TypeOK, Chats!Endpoint
  <1>3. Chats!AttachedAreTold
    BY DEF Chats!AttachedAreTold
  <1>4. StoragesKnown /\ CreationsApart
    BY <1>1 DEF StoragesKnown, CreationsApart, Creation
  <1> QED
    BY <1>1, <1>2, <1>3, <1>4 DEF ChatInv, ChatTypes

\* The steps of the network connection.
LEMMA NetSteps ==
    ASSUME ChatInv, Chats!NetStep \/ Chats!Lose
    PROVE  ChatInv'
  <1> USE DEF Chats!storageVars, Chats!loopVars
  <1>1. Chats!TypeOK /\ Chats!AttachedAreTold
    BY DEF ChatInv, ChatTypes
  <1>2. CASE Chats!OnConnected
    <2>1. Chats!TypeOK'
      BY <1>1, <1>2 DEF Chats!TypeOK, Chats!OnConnected
    <2>2. Chats!AttachedAreTold'
      BY <1>1, <1>2 DEF Chats!TypeOK, Chats!AttachedAreTold, Chats!Up, Chats!OnConnected
    <2> QED
      BY <1>2, <2>1, <2>2, ChatsAside DEF ChatInv, ChatTypes, Chats!OnConnected
  <1>3. CASE Chats!HelloDone
    <2>1. Chats!TypeOK'
      BY <1>1, <1>3 DEF Chats!TypeOK, Chats!HelloDone
    <2>2. Chats!AttachedAreTold'
      BY <1>1, <1>3 DEF Chats!TypeOK, Chats!AttachedAreTold, Chats!Up, Chats!HelloDone
    <2> QED
      BY <1>3, <2>1, <2>2, ChatsAside DEF ChatInv, ChatTypes, Chats!HelloDone
  <1>4. CASE Chats!TellComms
    <2>1. Chats!TypeOK'
      BY <1>1, <1>4 DEF Chats!TypeOK, Chats!TellComms
    <2>2. Chats!AttachedAreTold'
      BY <1>1, <1>4 DEF Chats!TypeOK, Chats!AttachedAreTold, Chats!Up, Chats!TellComms
    <2> QED
      BY <1>4, <2>1, <2>2, ChatsAside DEF ChatInv, ChatTypes, Chats!TellComms
  <1>5. CASE Chats!AttemptFails
    <2>1. Chats!TypeOK'
      BY <1>1, <1>5 DEF Chats!TypeOK, Chats!AttemptFails, Chats!OnDisconnected
    <2>2. Chats!AttachedAreTold'
      BY <1>1, <1>5 DEF Chats!TypeOK, Chats!AttachedAreTold, Chats!Up, Chats!AttemptFails, Chats!OnDisconnected
    <2> QED
      BY <1>5, <2>1, <2>2, ChatsAside DEF ChatInv, ChatTypes, Chats!AttemptFails, Chats!OnDisconnected
  <1>6. CASE Chats!Lose
    <2>1. Chats!TypeOK'
      BY <1>1, <1>6 DEF Chats!TypeOK, Chats!Lose, Chats!OnDisconnected
    <2>2. Chats!AttachedAreTold'
      BY <1>1, <1>6 DEF Chats!TypeOK, Chats!AttachedAreTold, Chats!Up, Chats!Lose, Chats!OnDisconnected
    <2> QED
      BY <1>6, <2>1, <2>2, ChatsAside DEF ChatInv, ChatTypes, Chats!Lose, Chats!OnDisconnected
  <1> QED
    BY <1>2, <1>3, <1>4, <1>5, <1>6 DEF Chats!NetStep

\* The rotation stays among the servers.
LEMMA RotationStays == \A x \in Chats!Endpoint : Chats!Rotate(x) \in Chats!Endpoint
  BY ChatAssumption DEF Chats!Endpoint, Chats!Rotate

\* The delay stays within its bound.
LEMMA DelayBounded ==
    ASSUME delay \in 0..ShortDelays, timer \in {"none", "short", "long", "fired"},
           NEW want \in BOOLEAN, Chats!SetTimer(want)
    PROVE  delay' \in 0..ShortDelays /\ timer' \in {"none", "short", "long", "fired"}
  BY ChatAssumption DEF Chats!SetTimer

\* The application's calls, and the reconnect timer.
LEMMA CallSteps ==
    ASSUME ChatInv,
           \/ Chats!Connect \/ Chats!Disconnect \/ Chats!Restart \/ Chats!TimerFires
           \/ \E w \in Waiter : Chats!WhenConnected(w)
    PROVE  ChatInv'
  <1> USE DEF Chats!storageVars
  <1>1. Chats!TypeOK /\ Chats!AttachedAreTold
    BY DEF ChatInv, ChatTypes
  <1>2. CASE Chats!Connect
    <2>1. Chats!TypeOK'
      BY ZenonT(60), <1>1, <1>2 DEF Chats!TypeOK, Chats!Connect, Chats!StartAttempt
    <2>2. Chats!AttachedAreTold'
      <3>1. net' = net \/ net' = [net EXCEPT !.state = "connecting", !.server = next]
        BY <1>2 DEF Chats!Connect, Chats!StartAttempt
      <3>2. UNCHANGED <<attached, informed>>
        BY <1>2 DEF Chats!Connect
      <3>3. CASE net' = net
        BY <1>1, <3>2, <3>3 DEF Chats!AttachedAreTold, Chats!Up
      <3>4. CASE net' = [net EXCEPT !.state = "connecting", !.server = next]
        <4>1. net'.state = "connecting"
          BY <1>1, <3>4 DEF Chats!TypeOK
        <4> QED
          BY <4>1 DEF Chats!AttachedAreTold, Chats!Up
      <3> QED
        BY <3>1, <3>3, <3>4
    <2> QED
      BY <1>2, <2>1, <2>2, ChatsAside DEF ChatInv, ChatTypes, Chats!Connect
  <1>3. CASE Chats!Disconnect
    <2>1. Chats!TypeOK'
      BY <1>1, <1>3 DEF Chats!TypeOK, Chats!Disconnect, Chats!OnDisconnected
    <2>2. Chats!AttachedAreTold'
      BY <1>1, <1>3 DEF Chats!TypeOK, Chats!AttachedAreTold, Chats!Up, Chats!Disconnect, Chats!OnDisconnected
    <2> QED
      BY <1>3, <2>1, <2>2, ChatsAside DEF ChatInv, ChatTypes, Chats!Disconnect, Chats!OnDisconnected
  <1>4. CASE Chats!Restart
    <2> USE <1>4 DEF Chats!Restart
    <2>1. Chats!TypeOK'
      BY <1>1, ChatAssumption DEF Chats!TypeOK, Chats!Endpoint
    <2>2. Chats!AttachedAreTold'
      BY DEF Chats!AttachedAreTold
    <2>3. events' \in Seq(Event) /\ Len(events') = 0
      BY EmptySeq
    <2>4. StoragesKnown' /\ CreationsApart'
      BY <2>3 DEF ChatInv, StoragesKnown, CreationsApart, Creation
    <2> QED
      BY <2>1, <2>2, <2>3, <2>4 DEF ChatInv, ChatTypes
  <1>5. CASE Chats!TimerFires
    <2>1. Chats!TypeOK'
      BY <1>1, <1>5 DEF Chats!TypeOK, Chats!TimerFires
    <2>2. Chats!AttachedAreTold'
      BY <1>1, <1>5 DEF Chats!AttachedAreTold, Chats!Up, Chats!TimerFires
    <2> QED
      BY <1>5, <2>1, <2>2, ChatsAside DEF ChatInv, ChatTypes, Chats!TimerFires
  <1>6. ASSUME NEW w \in Waiter, Chats!WhenConnected(w) PROVE ChatInv'
    <2>1. Chats!TypeOK'
      BY <1>1, <1>6 DEF Chats!TypeOK, Chats!WhenConnected
    <2>2. Chats!AttachedAreTold'
      BY <1>1, <1>6 DEF Chats!AttachedAreTold, Chats!Up, Chats!WhenConnected
    <2> QED
      BY <1>6, <2>1, <2>2, ChatsAside DEF ChatInv, ChatTypes, Chats!WhenConnected
  <1> QED
    BY <1>2, <1>3, <1>4, <1>5, <1>6

\* Chats are created and joined.
LEMMA ChatSteps ==
    ASSUME ChatInv, NEW c \in Chat,
           \/ Chats!CreateChat(c) \/ Chats!CreateReply(c) \/ Chats!Join(c)
           \/ \E ok \in BOOLEAN : Chats!ServeCreate(c, ok)
    PROVE  ChatInv'
  <1> USE DEF Chats!loopVars
  <1>1. Chats!TypeOK /\ Chats!AttachedAreTold /\ events \in Seq(Event)
    BY DEF ChatInv, ChatTypes
  <1>2. \A i \in 1..Len(events) : Creation(i) => events[i].chat \in Chat /\ events[i].chat \in opened \ attached
    BY <1>1 DEF ChatInv, CreationsApart, Creation, Event
  <1>3. CASE Chats!CreateChat(c)
    <2> USE <1>3 DEF Chats!CreateChat, Chats!RecordChat
    <2>1. Chats!TypeOK' /\ Chats!AttachedAreTold'
      BY <1>1 DEF Chats!TypeOK, Chats!AttachedAreTold, Chats!Up
    <2>2. \A d \in Chat : creating'[d] = IF d = c THEN "asked" ELSE creating[d]
      BY <1>1 DEF Chats!TypeOK
    <2>3. StoragesKnown'
      BY <2>2 DEF ChatInv, StoragesKnown, Creation
    <2>4. CreationsApart'
      BY <1>1, <1>2, <2>2 DEF ChatInv, Chats!TypeOK, CreationsApart, Creation
    <2> QED
      BY <1>1, <2>1, <2>3, <2>4 DEF ChatInv, ChatTypes
  <1>4. ASSUME NEW ok \in BOOLEAN, Chats!ServeCreate(c, ok) PROVE ChatInv'
    <2> USE <1>4 DEF Chats!ServeCreate
    <2>1. Chats!TypeOK' /\ Chats!AttachedAreTold'
      BY <1>1 DEF Chats!TypeOK, Chats!AttachedAreTold, Chats!Up
    <2>2. \A d \in Chat : creating'[d] = IF d = c THEN (IF ok THEN "made" ELSE "refused") ELSE creating[d]
      BY <1>1 DEF Chats!TypeOK
    <2>3. StoragesKnown'
      BY <2>2 DEF ChatInv, StoragesKnown, Creation
    <2>4. CreationsApart'
      BY <1>2, <2>2 DEF ChatInv, CreationsApart, Creation
    <2> QED
      BY <1>1, <2>1, <2>3, <2>4 DEF ChatInv, ChatTypes
  <1>5. CASE Chats!CreateReply(c)
    <2> USE <1>5 DEF Chats!CreateReply
    <2> DEFINE e == [is |-> "created", chat |-> c, ok |-> creating[c] = "made"]
    <2>1. Chats!TypeOK' /\ Chats!AttachedAreTold'
      BY <1>1 DEF Chats!TypeOK, Chats!AttachedAreTold, Chats!Up
    <2>2. \A d \in Chat : creating'[d] = IF d = c THEN "no" ELSE creating[d]
      BY <1>1 DEF Chats!TypeOK
    <2>3. e \in Event /\ e.chat = c /\ (e.ok <=> creating[c] = "made") /\ events' = Append(events, e)
      BY DEF Event
    <2> HIDE DEF e
    <2>4. /\ events' \in Seq(Event) /\ Len(events) \in Nat
          /\ \A i \in 1..Len(events') :
               \/ i \in 1..Len(events) /\ events'[i] = events[i]
               \/ i = Len(events) + 1 /\ events'[i] = e
      BY <1>1, <2>3, EventAppended
    <2>5. c \in opened \ attached /\ \A i \in 1..Len(events) : Creation(i) => events[i].chat # c
      BY DEF ChatInv, CreationsApart
    <2>6. StoragesKnown'
      BY <2>2, <2>3, <2>4 DEF ChatInv, StoragesKnown, Creation
    <2>7. CreationsApart'
      <3>1. \A d \in Chat : creating'[d] # "no" => d \in opened' \ attached'
        BY <2>2 DEF ChatInv, CreationsApart
      <3>2. \A i \in 1..Len(events') :
               Creation(i)' => events'[i].chat \in opened' \ attached' /\ creating'[events'[i].chat] = "no"
        BY <1>2, <2>2, <2>3, <2>4, <2>5 DEF ChatInv, CreationsApart, Creation
      <3>3. \A i, j \in 1..Len(events') : Creation(i)' /\ Creation(j)' /\ events'[i].chat = events'[j].chat => i = j
        BY <2>3, <2>4, <2>5 DEF ChatInv, CreationsApart, Creation
      <3> QED
        BY <3>1, <3>2, <3>3 DEF CreationsApart, Creation
    <2> QED
      BY <2>1, <2>4, <2>6, <2>7 DEF ChatInv, ChatTypes
  <1>6. CASE Chats!Join(c)
    <2> USE <1>6 DEF Chats!Join, Chats!RecordChat, Chats!Attach
    <2>1. Chats!TypeOK'
      BY <1>1 DEF Chats!TypeOK
    <2>2. Chats!AttachedAreTold'
      BY <1>1 DEF Chats!AttachedAreTold, Chats!Up
    <2>3. StoragesKnown'
      BY DEF ChatInv, StoragesKnown, Creation
    <2>4. CreationsApart'
      BY <1>2 DEF ChatInv, CreationsApart, Creation
    <2> QED
      BY <1>1, <2>1, <2>2, <2>3, <2>4 DEF ChatInv, ChatTypes
  <1> QED
    BY <1>3, <1>4, <1>5, <1>6

\* The next event of the loop.
LEMMA EventStep ==
    ASSUME ChatInv, Chats!OnEvent
    PROVE  ChatInv'
  <1> DEFINE e == Head(events)
  <1>1. Chats!TypeOK /\ Chats!AttachedAreTold /\ events \in Seq(Event)
    BY DEF ChatInv, ChatTypes
  <1>2. /\ events' \in Seq(Event) /\ e = events[1] /\ e \in Event
        /\ Len(events) \in Nat /\ 1 \in 1..Len(events)
        /\ \A i \in 1..Len(events') : i + 1 \in 1..Len(events) /\ events'[i] = events[i + 1]
    BY <1>1, EventTaken DEF Chats!OnEvent
  <1>3. UNCHANGED <<creating, storages>>
    BY DEF Chats!OnEvent
  <1>4. \A i \in 1..Len(events') : Creation(i)' => Creation(i + 1) /\ events'[i] = events[i + 1]
    BY <1>2 DEF Creation
  <1>5. ASSUME UNCHANGED <<opened, attached, listed>> PROVE StoragesKnown' /\ CreationsApart'
    <2>1. StoragesKnown'
      BY <1>2, <1>3, <1>4, <1>5 DEF ChatInv, StoragesKnown, Creation
    <2>2. CreationsApart'
      <3>1. \A c \in Chat : creating'[c] # "no" => c \in opened' \ attached'
        BY <1>3, <1>5 DEF ChatInv, CreationsApart
      <3>2. \A i \in 1..Len(events') :
               Creation(i)' => events'[i].chat \in opened' \ attached' /\ creating'[events'[i].chat] = "no"
        BY <1>2, <1>3, <1>4, <1>5 DEF ChatInv, CreationsApart
      <3>3. ASSUME NEW i \in 1..Len(events'), NEW j \in 1..Len(events'), Creation(i)', Creation(j)',
                   events'[i].chat = events'[j].chat
            PROVE  i = j
        <4>1. i + 1 = j + 1
          BY <1>2, <1>4, <3>3 DEF ChatInv, CreationsApart
        <4> QED
          BY <4>1
      <3> QED
        BY <3>1, <3>2, <3>3 DEF CreationsApart, Creation
    <2> QED
      BY <2>1, <2>2
  <1>6. CASE e.is = "connect" /\ pending' = FALSE /\ waiting' = {} /\ delay' = 0
             /\ UNCHANGED <<net, stopped, timer, next, last, informed, opened, attached, listed>>
    <2>1. Chats!TypeOK' /\ Chats!AttachedAreTold'
      BY <1>1, <1>3, <1>6, ChatAssumption DEF Chats!TypeOK, Chats!AttachedAreTold, Chats!Up
    <2> QED
      BY <1>2, <1>5, <1>6, <2>1 DEF ChatInv, ChatTypes
  <1>7. CASE e.is = "disconnect" /\ Chats!Disconnected
             /\ UNCHANGED <<net, stopped, last, informed, opened, attached, listed>>
    <2>1. delay' \in 0..ShortDelays /\ timer' \in {"none", "short", "long", "fired"} /\ next' \in Chats!Endpoint
      BY <1>1, <1>7, RotationStays, DelayBounded DEF Chats!TypeOK, Chats!Disconnected
    <2>2. Chats!TypeOK' /\ Chats!AttachedAreTold'
      BY <1>1, <1>3, <1>7, <2>1 DEF Chats!TypeOK, Chats!AttachedAreTold, Chats!Up, Chats!Disconnected
    <2> QED
      BY <1>2, <1>5, <1>7, <2>2 DEF ChatInv, ChatTypes
  <1>8. CASE e.is = "timer" /\ Chats!OnTimer /\ UNCHANGED <<stopped, waiting, informed, opened, attached, listed>>
    <2>1. delay' \in 0..ShortDelays /\ timer' \in {"none", "short", "long", "fired"} /\ next' \in Chats!Endpoint
      BY <1>1, <1>8, RotationStays, DelayBounded DEF Chats!TypeOK, Chats!OnTimer
    <2>2. last' \in Chats!Endpoint /\ (net' = net \/ net' = [net EXCEPT !.state = "connecting", !.server = next])
      BY <1>1, <1>8 DEF Chats!TypeOK, Chats!OnTimer, Chats!StartAttempt
    <2>3. Chats!TypeOK' /\ Chats!AttachedAreTold'
      BY <1>1, <1>3, <1>8, <2>1, <2>2 DEF Chats!TypeOK, Chats!AttachedAreTold, Chats!Up
    <2> QED
      BY <1>2, <1>5, <1>8, <2>3 DEF ChatInv, ChatTypes
  <1>9. ASSUME e.is = "created", NEW works \in BOOLEAN, Chats!OnCreateStorage(e.chat, e.ok /\ works),
               UNCHANGED <<net, Chats!loopVars>>
        PROVE  ChatInv'
    <2>1. e.chat \in Chat /\ e.ok \in BOOLEAN /\ Creation(1)
      BY <1>2, <1>9 DEF Event, Creation
    <2>2. /\ e.chat \in opened \ attached /\ creating[e.chat] = "no"
          /\ e.ok => e.chat \in storages
          /\ \A i \in 1..Len(events') : Creation(i)' => events'[i].chat # e.chat
      BY <1>2, <1>4, <2>1 DEF ChatInv, CreationsApart, StoragesKnown
    <2>3. \A c \in Chat : creating[c] # "no" => c # e.chat
      BY <2>2
    <2>4. CASE e.ok /\ works
      <3>1. UNCHANGED opened /\ Chats!Attach(e.chat) /\ listed' = listed \cup {e.chat}
        BY <1>9, <2>2, <2>4 DEF Chats!OnCreateStorage, Chats!RecordChat
      <3>2. Chats!TypeOK' /\ Chats!AttachedAreTold'
        BY <1>1, <1>3, <1>9, <2>2, <3>1 DEF Chats!TypeOK, Chats!AttachedAreTold, Chats!Up, Chats!Attach, Chats!loopVars
      <3>3. StoragesKnown'
        BY <1>2, <1>3, <1>4, <2>2, <2>4, <3>1 DEF ChatInv, StoragesKnown, Creation
      <3>4. CreationsApart'
        BY <1>2, <1>3, <1>4, <2>2, <2>3, <3>1 DEF ChatInv, CreationsApart, Creation, Chats!Attach
      <3> QED
        BY <1>2, <3>2, <3>3, <3>4 DEF ChatInv, ChatTypes
    <2>5. CASE ~(e.ok /\ works)
      <3>1. opened' = opened \ {e.chat} /\ UNCHANGED <<attached, informed, listed>>
        BY <1>9, <2>5 DEF Chats!OnCreateStorage
      <3>2. Chats!TypeOK' /\ Chats!AttachedAreTold'
        BY <1>1, <1>3, <1>9, <2>2, <3>1 DEF Chats!TypeOK, Chats!AttachedAreTold, Chats!Up, Chats!loopVars
      <3>3. StoragesKnown'
        BY <1>2, <1>3, <1>4, <3>1 DEF ChatInv, StoragesKnown, Creation
      <3>4. CreationsApart'
        BY SMTT(30), <1>2, <1>3, <1>4, <2>2, <2>3, <3>1 DEF ChatInv, CreationsApart, Creation
      <3> QED
        BY <1>2, <3>2, <3>3, <3>4 DEF ChatInv, ChatTypes
    <2> QED
      BY <2>4, <2>5
  <1> QED
    BY <1>6, <1>7, <1>8, <1>9 DEF Chats!OnEvent

\* Every step of the chats keeps the invariant, and so does a step of another part.
LEMMA ChatStep == ChatInv /\ [Chats!Next]_chatVars => ChatInv'
  <1> SUFFICES ASSUME ChatInv, [Chats!Next]_chatVars PROVE ChatInv'
    OBVIOUS
  <1>1. CASE Chats!Next
    BY <1>1, NetSteps, CallSteps, ChatSteps, EventStep DEF Chats!Next
  <1>2. CASE UNCHANGED chatVars
    <2>1. Chats!TypeOK' /\ Chats!AttachedAreTold'
      BY <1>2 DEF ChatInv, ChatTypes, Chats!TypeOK, Chats!AttachedAreTold, Chats!Up, chatVars
    <2> QED
      BY <1>2, <2>1, ChatsAside DEF ChatInv, ChatTypes, chatVars
  <1> QED
    BY <1>1, <1>2

\* A storage attached to a session that is up was told so, and the list names no chat that is not there.
LEMMA ChatImplied == ChatInv => Chats!TypeOK /\ Chats!AttachedAreTold /\ Chats!ListedChatsExist
  BY DEF ChatInv, ChatTypes, StoragesKnown, Chats!ListedChatsExist

-----------------------------------------------------------------------------
(* Requests between users *)

Request == [of : Packet, state : Requested!State]
KeyQuery == [row : Nat, of : Packet]
Lookup == [of : Packet, live : BOOLEAN]
QueryResult == [row : Nat, outcome : Registered \cup {"none", "error"}]

\* rows are added and their states change; what they are of stays
TableKept ==
    /\ requests' \in Seq(Request)
    /\ Len(requests) \in Nat /\ Len(requests') \in Nat /\ Len(requests) <= Len(requests')
    /\ \A i \in 1..Len(requests) : requests'[i].of = requests[i].of

\* the queries that wait, each about a row of the table
QueriesKept ==
    /\ queries' \in Seq(KeyQuery)
    /\ \A i \in DOMAIN queries' :
          queries'[i].row \in 1..Len(requests') /\ queries'[i].of = requests'[queries'[i].row].of
    /\ lookups' \in Seq(Lookup)
    /\ DOMAIN session' = {"state", "server"} /\ session'.state \in {"closed", "connecting", "connected"}

ResultsKept == results' \in Seq(QueryResult) /\ \A i \in DOMAIN results' : results'[i].row \in 1..Len(requests')

RowsKept == evaluating' \subseteq 1..Len(requests') /\ evaluated' \subseteq 1..Len(requests')

RequestInv == Requested!TypeOK /\ Requested!OnlyAuthentic

LEMMA RequestFacts ==
    ASSUME RequestInv
    PROVE  /\ requests \in Seq(Request) /\ queries \in Seq(KeyQuery) /\ results \in Seq(QueryResult)
           /\ lookups \in Seq(Lookup) /\ Len(requests) \in Nat /\ DOMAIN requests = 1..Len(requests)
           /\ \A i \in 1..Len(requests) : requests[i] \in Request
           /\ evaluating \subseteq 1..Len(requests) /\ evaluated \subseteq 1..Len(requests) /\ keys \subseteq Registered
           /\ \A i \in DOMAIN queries : queries[i].row \in 1..Len(requests) /\ queries[i].of = requests[queries[i].row].of
           /\ \A i \in DOMAIN results : results[i].row \in 1..Len(requests)
           /\ DOMAIN session = {"state", "server"} /\ session.state \in {"closed", "connecting", "connected"}
  <1>1. requests \in Seq(Request)
    BY DEF RequestInv, Requested!TypeOK, Request
  <1>2. Len(requests) \in Nat /\ DOMAIN requests = 1..Len(requests) /\ \A i \in 1..Len(requests) : requests[i] \in Request
    BY <1>1, LenProperties, ElementOfSeq
  <1> QED
    BY <1>1, <1>2 DEF RequestInv, Requested!TypeOK, KeyQuery, QueryResult, Lookup, Requested!Row

\* the invariant from its parts
LEMMA RequestParts ==
    ASSUME TableKept, QueriesKept, ResultsKept, RowsKept, inbox' \subseteq Packet, keys' \subseteq Registered,
           handling' \in Packet \cup {Requested!Nobody}, Requested!OnlyAuthentic'
    PROVE  RequestInv'
  BY DEF TableKept, QueriesKept, ResultsKept, RowsKept, RequestInv, Requested!TypeOK, Requested!Row, Request, KeyQuery,
         QueryResult, Lookup

LEMMA TableSame == ASSUME RequestInv, requests' = requests PROVE TableKept
  BY RequestFacts DEF TableKept

LEMMA QueriesSame ==
    ASSUME RequestInv, TableKept, UNCHANGED <<queries, lookups, session>> PROVE QueriesKept
  BY RequestFacts DEF TableKept, QueriesKept

LEMMA ResultsSame == ASSUME RequestInv, TableKept, results' = results PROVE ResultsKept
  BY RequestFacts DEF TableKept, ResultsKept

LEMMA RowsSame == ASSUME RequestInv, TableKept, UNCHANGED <<evaluating, evaluated>> PROVE RowsKept
  BY RequestFacts DEF TableKept, RowsKept

LEMMA RequestAside == ASSUME RequestInv, UNCHANGED requestVars PROVE RequestInv'
  <1>1. TableKept /\ QueriesKept /\ ResultsKept /\ RowsKept
    BY TableSame, QueriesSame, ResultsSame, RowsSame DEF requestVars
  <1>2. Requested!OnlyAuthentic'
    BY DEF RequestInv, Requested!OnlyAuthentic, Requested!Row, requestVars
  <1> QED
    BY <1>1, <1>2, RequestParts DEF requestVars, RequestInv, Requested!TypeOK

LEMMA LostCalls ==
    ASSUME NEW c \in Seq(Lookup) PROVE Requested!Lost(c) \in Seq(Lookup)
  <1>1. Len(c) \in Nat /\ DOMAIN c = 1..Len(c) /\ \A i \in 1..Len(c) : c[i] \in Lookup
    BY LenProperties, ElementOfSeq
  <1>2. \A i \in 1..Len(c) : [c[i] EXCEPT !.live = FALSE] \in Lookup
    BY <1>1 DEF Lookup
  <1>3. Requested!Lost(c) \in [1..Len(c) -> Lookup]
    BY <1>1, <1>2 DEF Requested!Lost
  <1> QED
    BY <1>1, <1>3

\* What next_locked leaves of the queries that are to be asked.
LEMMA NextLockedKeeps ==
    ASSUME RequestInv, TableKept, NEW q \in Seq(KeyQuery), NEW server, NEW c \in Seq(Lookup),
           \A i \in DOMAIN q : q[i].row \in 1..Len(requests') /\ q[i].of = requests'[q[i].row].of,
           Requested!NextLocked(q, server, c)
    PROVE  QueriesKept
  <1>1. queries' = q
    BY DEF Requested!NextLocked
  <1>2. Requested!Lost(c) \in Seq(Lookup)
    BY LostCalls
  <1>3. DOMAIN Requested!Closed = {"state", "server"} /\ Requested!Closed.state = "closed"
    BY DEF Requested!Closed
  <1>4. CASE q = <<>>
    BY <1>1, <1>2, <1>3, <1>4 DEF Requested!NextLocked, QueriesKept
  <1>5. CASE q # <<>>
    <2>1. Head(q) \in KeyQuery
      BY <1>5, HeadTailProperties
    <2>2. PICK l : l = [of |-> Head(q).of, live |-> session.state = "connected"]
      OBVIOUS
    <2>3. l \in Lookup
      BY <2>1, <2>2 DEF Lookup, KeyQuery
    <2>4. Append(c, l) \in Seq(Lookup)
      BY <2>3, AppendProperties
    <2>5. CASE Home[Head(q).of] = server
      <3>1. lookups' = Append(c, l) /\ session' = session
        BY <1>5, <2>2, <2>5 DEF Requested!NextLocked, Requested!StartNext
      <3> QED
        BY <1>1, <2>4, <3>1, RequestFacts DEF QueriesKept
    <2>6. CASE Home[Head(q).of] # server
      <3>1. lookups' = Requested!Lost(c) /\ session' = [state |-> "connecting", server |-> Home[Head(q).of]]
        BY <1>5, <2>6 DEF Requested!NextLocked
      <3>2. DOMAIN session' = {"state", "server"} /\ session'.state = "connecting"
        BY <3>1
      <3> QED
        BY <1>1, <1>2, <3>1, <3>2 DEF QueriesKept
    <2> QED
      BY <2>5, <2>6
  <1> QED
    BY <1>4, <1>5

\* a query of a row of the table is put behind the others
LEMMA QueryKeeps ==
    ASSUME RequestInv, TableKept, NEW r \in 1..Len(requests'), NEW s \in Packet, s = requests'[r].of,
           Requested!Query(r, s)
    PROVE  QueriesKept
  <1>1. PICK e : e = [row |-> r, of |-> s]
    OBVIOUS
  <1>2. PICK q : q = Append(queries, e)
    OBVIOUS
  <1>3. queries \in Seq(KeyQuery) /\ Len(queries) \in Nat /\ DOMAIN queries = 1..Len(queries)
    BY RequestFacts, LenProperties
  <1>4. e \in KeyQuery /\ e.row = r /\ e.of = s
    BY <1>1 DEF KeyQuery, TableKept
  <1>5. /\ q \in Seq(KeyQuery) /\ DOMAIN q = 1..(Len(queries) + 1)
        /\ \A i \in 1..Len(queries) : q[i] = queries[i]
        /\ q[Len(queries) + 1] = e
    <2>1. /\ q \in Seq(KeyQuery) /\ Len(q) = Len(queries) + 1
          /\ \A i \in 1..Len(queries) : q[i] = queries[i]
          /\ q[Len(queries) + 1] = e
      BY <1>2, <1>3, <1>4, AppendProperties
    <2>2. DOMAIN q = 1..Len(q)
      BY <2>1, LenProperties
    <2> QED
      BY <2>1, <2>2
  <1>6. \A i \in DOMAIN q : q[i].row \in 1..Len(requests') /\ q[i].of = requests'[q[i].row].of
    <2>1. \A i \in 1..Len(queries) : queries[i].row \in 1..Len(requests') /\ queries[i].of = requests'[queries[i].row].of
      <3>1. \A i \in 1..Len(queries) : queries[i].row \in 1..Len(requests) /\ queries[i].of = requests[queries[i].row].of
        BY <1>3, RequestFacts
      <3>2. \A n \in 1..Len(requests) : n \in 1..Len(requests') /\ requests'[n].of = requests[n].of
        BY DEF TableKept
      <3> QED
        BY <3>1, <3>2
    <2>2. \A i \in DOMAIN q : i \in 1..Len(queries) \/ i = Len(queries) + 1
      BY <1>3, <1>5
    <2> QED
      BY <1>4, <1>5, <2>1, <2>2
  <1>7. CASE progress = Requested!Nobody
    <2>1. Requested!NextLocked(q, Requested!Nobody, lookups)
      BY <1>1, <1>2, <1>7 DEF Requested!Query
    <2> QED
      BY <1>5, <1>6, <2>1, NextLockedKeeps, RequestFacts
  <1>8. CASE progress # Requested!Nobody
    <2>1. queries' = q /\ UNCHANGED <<session, lookups>>
      BY <1>1, <1>2, <1>8 DEF Requested!Query
    <2> QED
      BY <1>5, <1>6, <2>1, RequestFacts DEF QueriesKept
  <1> QED
    BY <1>7, <1>8

\* the row of an answer that is not there any more stays as it is, and what it is of stays
LEMMA StateChanged ==
    ASSUME RequestInv, NEW r \in 1..Len(requests), NEW st \in Requested!State,
           \/ requests' = requests
           \/ requests' = [requests EXCEPT ![r].state = st],
           st = "succeeded" => requests[r].of \in Registered \ Forged
    PROVE  TableKept /\ Requested!OnlyAuthentic'
  <1>1. /\ requests \in Seq(Request) /\ Len(requests) \in Nat /\ DOMAIN requests = 1..Len(requests)
        /\ \A i \in 1..Len(requests) : requests[i] \in Request
    BY RequestFacts
  <1>2. CASE requests' = requests
    <2>1. Requested!OnlyAuthentic'
      BY <1>2 DEF RequestInv, Requested!OnlyAuthentic, Requested!Row
    <2> QED
      BY <1>2, <2>1, TableSame
  <1>3. CASE requests' = [requests EXCEPT ![r].state = st]
    <2>1. PICK n : n = [requests[r] EXCEPT !.state = st]
      OBVIOUS
    <2>2. n \in Request /\ n.of = requests[r].of /\ n.state = st
      BY <1>1, <2>1 DEF Request
    <2>3. requests' = [requests EXCEPT ![r] = n]
      BY <1>3, <2>1
    <2>4. requests' \in Seq(Request) /\ Len(requests') = Len(requests)
      BY <1>1, <2>2, <2>3, ExceptSeq
    <2>5. requests'[r] = n /\ \A i \in 1..Len(requests) : i # r => requests'[i] = requests[i]
      BY <1>1, <2>3
    <2>6. TableKept
      BY <1>1, <2>2, <2>4, <2>5 DEF TableKept
    <2>7. \A i \in 1..Len(requests) : requests[i].state = "succeeded" => requests[i].of \in Registered \ Forged
      BY DEF RequestInv, Requested!OnlyAuthentic, Requested!Row
    <2>8. Requested!OnlyAuthentic'
      BY <2>2, <2>4, <2>5, <2>7 DEF Requested!OnlyAuthentic, Requested!Row
    <2> QED
      BY <2>6, <2>8
  <1> QED
    BY <1>2, <1>3

\* A request is verified with the keys that are known, or its sender's key is asked for.
LEMMA VerifyKeeps ==
    ASSUME RequestInv, NEW r \in 1..Len(requests), NEW k \in SUBSET Registered, Requested!DoVerifyData(r, k)
    PROVE  TableKept /\ QueriesKept /\ Requested!OnlyAuthentic' /\ evaluated' \subseteq 1..Len(requests')
  <1>1. evaluated' = evaluated \cup {r} /\ requests[r].of \in Packet
    BY RequestFacts DEF Requested!DoVerifyData, Request
  <1>2. CASE requests[r].of \in k
    <2>1. PICK st : st = IF requests[r].of \in Forged THEN "failed" ELSE "succeeded"
      OBVIOUS
    <2>2. /\ requests' = requests \/ requests' = [requests EXCEPT ![r].state = st]
          /\ UNCHANGED <<queries, lookups, session>>
      BY <1>2, <2>1 DEF Requested!DoVerifyData, Requested!ChangeState, Requested!queryVars
    <2>3. st \in Requested!State /\ (st = "succeeded" => requests[r].of \in Registered \ Forged)
      BY <1>2, <2>1 DEF Requested!State
    <2>4. TableKept /\ Requested!OnlyAuthentic'
      BY <2>2, <2>3, StateChanged
    <2> QED
      BY <1>1, <2>2, <2>4, QueriesSame, RequestFacts DEF TableKept
  <1>3. CASE requests[r].of \notin k
    <2>1. requests' = requests /\ Requested!Query(r, requests[r].of)
      BY <1>3 DEF Requested!DoVerifyData
    <2>2. TableKept
      BY <2>1, TableSame
    <2>3. QueriesKept
      BY <1>1, <2>1, <2>2, QueryKeeps
    <2>4. Requested!OnlyAuthentic'
      BY <2>1 DEF RequestInv, Requested!OnlyAuthentic, Requested!Row
    <2> QED
      BY <1>1, <2>1, <2>2, <2>3, <2>4, RequestFacts
  <1> QED
    BY <1>2, <1>3

\* The oldest query gets the outcome; the queries behind it stay.
LEMMA EmitKeeps ==
    ASSUME RequestInv, TableKept, NEW o \in Registered \cup {"none", "error"}, Requested!EmitResult(o)
    PROVE  /\ ResultsKept /\ Requested!Rest \in Seq(KeyQuery)
           /\ \A i \in DOMAIN Requested!Rest :
                 /\ Requested!Rest[i].row \in 1..Len(requests')
                 /\ Requested!Rest[i].of = requests'[Requested!Rest[i].row].of
  <1>1. /\ queries \in Seq(KeyQuery) /\ results \in Seq(QueryResult) /\ Len(queries) \in Nat /\ Len(results) \in Nat
        /\ DOMAIN queries = 1..Len(queries) /\ DOMAIN results = 1..Len(results)
    BY RequestFacts, LenProperties
  <1>2. \A n \in 1..Len(requests) : n \in 1..Len(requests') /\ requests'[n].of = requests[n].of
    BY DEF TableKept
  <1>3. \A i \in 1..Len(queries) : /\ queries[i].row \in 1..Len(requests')
                                   /\ queries[i].of = requests'[queries[i].row].of
    BY <1>1, <1>2, RequestFacts
  <1>4. \A i \in 1..Len(results) : results[i].row \in 1..Len(requests')
    BY <1>1, <1>2, RequestFacts
  <1>5. CASE queries = <<>>
    <2>1. Requested!Rest = <<>> /\ results' = results
      BY <1>5 DEF Requested!Rest, Requested!EmitResult
    <2> QED
      BY <1>1, <1>4, <2>1, EmptySeq DEF ResultsKept
  <1>6. CASE queries # <<>>
    <2>1. PICK e : e = [row |-> Head(queries).row, outcome |-> o]
      OBVIOUS
    <2>2. /\ Head(queries) \in KeyQuery /\ Tail(queries) \in Seq(KeyQuery) /\ Len(Tail(queries)) = Len(queries) - 1
          /\ \A i \in 1..Len(Tail(queries)) : Tail(queries)[i] = queries[i + 1]
      BY <1>1, <1>6, HeadTailProperties
    <2>3. Head(queries) = queries[1] /\ 1 \in 1..Len(queries)
      BY <1>1, <1>6, EmptySeq
    <2>4. e \in QueryResult /\ e.row \in 1..Len(requests')
      BY <2>1, <2>2, <2>3, <1>3 DEF QueryResult, KeyQuery
    <2>5. results' = Append(results, e) /\ Requested!Rest = Tail(queries)
      BY <1>6, <2>1 DEF Requested!EmitResult, Requested!Rest
    <2>6. /\ results' \in Seq(QueryResult) /\ Len(results') = Len(results) + 1
          /\ \A i \in 1..Len(results) : results'[i] = results[i]
          /\ results'[Len(results) + 1] = e
      BY <1>1, <2>4, <2>5, AppendProperties
    <2>7. DOMAIN results' = 1..(Len(results) + 1)
      BY <2>6, LenProperties
    <2>8. ResultsKept
      <3>1. \A i \in DOMAIN results' : i \in 1..Len(results) \/ i = Len(results) + 1
        BY <1>1, <2>7
      <3> QED
        BY <1>4, <2>4, <2>6, <3>1 DEF ResultsKept
    <2>9. PICK q : q = Tail(queries)
      OBVIOUS
    <2>10. DOMAIN q = 1..(Len(queries) - 1) /\ \A i \in 1..(Len(queries) - 1) : q[i] = queries[i + 1]
      BY <1>1, <2>2, <2>9, LenProperties
    <2>11. \A i \in DOMAIN q : i + 1 \in 1..Len(queries) /\ q[i] = queries[i + 1]
      BY <1>1, <2>10
    <2>12. \A i \in DOMAIN q : q[i].row \in 1..Len(requests') /\ q[i].of = requests'[q[i].row].of
      BY <1>3, <2>11
    <2> QED
      BY <2>2, <2>5, <2>8, <2>9, <2>12
  <1> QED
    BY <1>5, <1>6

LEMMA AuthenticSame == ASSUME RequestInv, requests' = requests PROVE Requested!OnlyAuthentic'
  BY DEF RequestInv, Requested!OnlyAuthentic, Requested!Row

LEMMA SmallTypes ==
    ASSUME RequestInv
    PROVE  inbox \subseteq Packet /\ keys \subseteq Registered /\ handling \in Packet \cup {Requested!Nobody}
  BY DEF RequestInv, Requested!TypeOK

LEMMA OneRemoved ==
    ASSUME NEW c \in Seq(Lookup), NEW i \in DOMAIN c PROVE Requested!RemoveAt(c, i) \in Seq(Lookup)
  <1>1. Len(c) \in Nat /\ i \in 1..Len(c)
    BY LenProperties
  <1>2. SubSeq(c, 1, i - 1) \in Seq(Lookup) /\ SubSeq(c, i + 1, Len(c)) \in Seq(Lookup)
    <2>1. 1 \in 1..(Len(c) + 1) /\ i - 1 \in 0..Len(c) /\ i + 1 \in 1..(Len(c) + 1) /\ Len(c) \in i..Len(c)
      BY <1>1
    <2>2. i - 1 \in (1 - 1)..Len(c) /\ Len(c) \in ((i + 1) - 1)..Len(c)
      BY <1>1
    <2>3. SubSeq(c, 1, i - 1) \in Seq(Lookup)
      BY <2>1, <2>2, SubSeqProperties
    <2>4. SubSeq(c, i + 1, Len(c)) \in Seq(Lookup)
      BY <2>1, <2>2, SubSeqProperties
    <2> QED
      BY <2>3, <2>4
  <1> QED
    BY <1>2, ConcatProperties DEF Requested!RemoveAt

LEMMA LookupStep ==
    ASSUME RequestInv, NEW i \in DOMAIN lookups, Requested!LookupEnds(i) PROVE RequestInv'
  <1>1. lookups \in Seq(Lookup)
    BY RequestFacts
  <1>2. PICK o \in Registered \cup {"none", "error"} : Requested!RunQuery(i, o)
    BY DEF Requested!LookupEnds
  <1>3. Requested!EmitResult(o) /\ Requested!NextLocked(Requested!Rest, progress, Requested!RemoveAt(lookups, i))
        /\ UNCHANGED <<inbox, handling, requests, keys, evaluating, evaluated>>
    BY <1>2 DEF Requested!RunQuery
  <1>4. TableKept /\ Requested!OnlyAuthentic'
    BY <1>3, TableSame, AuthenticSame
  <1>5. Requested!RemoveAt(lookups, i) \in Seq(Lookup)
    BY <1>1, OneRemoved
  <1>6. PICK q : q = Requested!Rest
    OBVIOUS
  <1>7. PICK c : c = Requested!RemoveAt(lookups, i)
    OBVIOUS
  <1>8. /\ ResultsKept /\ q \in Seq(KeyQuery)
        /\ \A j \in DOMAIN q : q[j].row \in 1..Len(requests') /\ q[j].of = requests'[q[j].row].of
    BY <1>3, <1>4, <1>6, EmitKeeps
  <1>9. QueriesKept
    BY <1>3, <1>4, <1>5, <1>6, <1>7, <1>8, NextLockedKeeps
  <1> QED
    BY <1>3, <1>4, <1>8, <1>9, RowsSame, SmallTypes, RequestParts

LEMMA RequestConnectStep == ASSUME RequestInv, Requested!OnConnect PROVE RequestInv'
  <1>1. UNCHANGED <<inbox, handling, requests, keys, evaluating, evaluated, results>>
    BY DEF Requested!OnConnect
  <1>2. TableKept /\ Requested!OnlyAuthentic'
    BY <1>1, TableSame, AuthenticSame
  <1>3. lookups \in Seq(Lookup) /\ queries \in Seq(KeyQuery)
    BY RequestFacts
  <1>4. QueriesKept
    <2>1. CASE queries = <<>>
      <3>1. Requested!NextLocked(<<>>, progress, lookups)
        BY <2>1 DEF Requested!OnConnect
      <3>2. <<>> \in Seq(KeyQuery) /\ DOMAIN <<>> = {}
        OBVIOUS
      <3> QED
        BY <1>2, <1>3, <3>1, <3>2, NextLockedKeeps
    <2>2. CASE queries # <<>>
      <3>1. PICK l : l = [of |-> Head(queries).of, live |-> session.state = "connected"]
        OBVIOUS
      <3>2. lookups' = Append(lookups, l) /\ UNCHANGED <<queries, session>>
        BY <2>2, <3>1 DEF Requested!OnConnect, Requested!StartNext
      <3>3. Head(queries) \in KeyQuery
        BY <1>3, <2>2, HeadTailProperties
      <3>4. l \in Lookup
        BY <3>1, <3>3 DEF Lookup, KeyQuery
      <3>5. lookups' \in Seq(Lookup)
        BY <1>3, <3>2, <3>4, AppendProperties
      <3> QED
        BY <1>1, <3>2, <3>5, RequestFacts DEF QueriesKept
    <2> QED
      BY <2>1, <2>2
  <1> QED
    BY <1>1, <1>2, <1>4, ResultsSame, RowsSame, SmallTypes, RequestParts

LEMMA RequestDisconnectStep == ASSUME RequestInv, Requested!OnDisconnect PROVE RequestInv'
  <1>1. /\ UNCHANGED <<inbox, handling, requests, keys, evaluating, evaluated>>
        /\ Requested!EmitResult("error") /\ Requested!NextLocked(Requested!Rest, Requested!Nobody, lookups)
    BY DEF Requested!OnDisconnect
  <1>2. TableKept /\ Requested!OnlyAuthentic' /\ lookups \in Seq(Lookup)
    BY <1>1, TableSame, AuthenticSame, RequestFacts
  <1>3. PICK q : q = Requested!Rest
    OBVIOUS
  <1>4. /\ ResultsKept /\ q \in Seq(KeyQuery)
        /\ \A j \in DOMAIN q : q[j].row \in 1..Len(requests') /\ q[j].of = requests'[q[j].row].of
    BY <1>1, <1>2, <1>3, EmitKeeps
  <1>5. QueriesKept
    BY <1>1, <1>2, <1>3, <1>4, NextLockedKeeps
  <1> QED
    BY <1>1, <1>2, <1>4, <1>5, RowsSame, SmallTypes, RequestParts

LEMMA SessionStep == ASSUME RequestInv, Requested!AttemptEnds \/ Requested!LoseSession PROVE RequestInv'
  <1>1. UNCHANGED <<inbox, handling, requests, keys, evaluating, evaluated, results, queries>>
    BY DEF Requested!AttemptEnds, Requested!LoseSession
  <1>2. TableKept /\ Requested!OnlyAuthentic'
    BY <1>1, TableSame, AuthenticSame
  <1>3. lookups' = lookups \/ lookups' = Requested!Lost(lookups)
    BY DEF Requested!AttemptEnds, Requested!LoseSession
  <1>4. lookups' \in Seq(Lookup)
    BY <1>3, LostCalls, RequestFacts
  <1>5. DOMAIN session' = {"state", "server"} /\ session'.state \in {"connected", "closed"}
    <2>1. PICK st \in {"connected", "closed"} : session' = [session EXCEPT !.state = st]
      BY DEF Requested!AttemptEnds, Requested!LoseSession
    <2>2. DOMAIN session = {"state", "server"}
      BY RequestFacts
    <2> QED
      BY <2>1, <2>2
  <1>6. QueriesKept
    BY <1>1, <1>4, <1>5, RequestFacts DEF QueriesKept
  <1> QED
    BY <1>1, <1>2, <1>6, ResultsSame, RowsSame, SmallTypes, RequestParts

LEMMA PacketStep == ASSUME RequestInv, NEW p \in Packet, Requested!OnPacket(p) PROVE RequestInv'
  <1>1. UNCHANGED <<inbox, keys, evaluating, results>> /\ handling' = p
    BY DEF Requested!OnPacket
  <1>2. /\ requests \in Seq(Request) /\ Len(requests) \in Nat /\ DOMAIN requests = 1..Len(requests)
        /\ evaluated \subseteq 1..Len(requests)
    BY RequestFacts
  <1>3. CASE p \in Unreadable \cup banned
    <2>1. UNCHANGED <<requests, evaluated, queries, session, lookups>>
      BY <1>3 DEF Requested!OnPacket, Requested!queryVars
    <2>2. TableKept /\ Requested!OnlyAuthentic'
      BY <2>1, TableSame, AuthenticSame
    <2> QED
      BY <1>1, <2>1, <2>2, QueriesSame, ResultsSame, RowsSame, SmallTypes, RequestParts
  <1>4. CASE p \notin Unreadable \cup banned
    <2>1. PICK r : r = Len(requests) + 1
      OBVIOUS
    <2>2. PICK st : st = IF p \notin keys THEN "waiting" ELSE IF p \in Forged THEN "failed" ELSE "succeeded"
      OBVIOUS
    <2>3. PICK n : n = [of |-> p, state |-> st]
      OBVIOUS
    <2>4. /\ requests' = Append(requests, n) /\ evaluated' = evaluated \cup {r}
          /\ IF p \in keys THEN UNCHANGED <<queries, session, lookups>> ELSE Requested!Query(r, p)
      BY <1>4, <2>1, <2>2, <2>3 DEF Requested!OnPacket, Requested!queryVars
    <2>5. n \in Request /\ n.of = p /\ n.state = st
      BY <2>2, <2>3 DEF Request, Requested!State
    <2>6. /\ requests' \in Seq(Request) /\ Len(requests') = Len(requests) + 1
          /\ \A i \in 1..Len(requests) : requests'[i] = requests[i]
          /\ requests'[Len(requests) + 1] = n
      BY <1>2, <2>4, <2>5, AppendProperties
    <2>7. TableKept
      BY <1>2, <2>6 DEF TableKept
    <2>8. Requested!OnlyAuthentic'
      <3>1. \A i \in 1..Len(requests') : i \in 1..Len(requests) \/ i = Len(requests) + 1
        BY <1>2, <2>6
      <3>2. \A i \in 1..Len(requests) : requests[i].state = "succeeded" => requests[i].of \in Registered \ Forged
        BY DEF RequestInv, Requested!OnlyAuthentic, Requested!Row
      <3>3. st = "succeeded" => p \in Registered \ Forged
        BY <2>2, SmallTypes
      <3> QED
        BY <2>5, <2>6, <3>1, <3>2, <3>3 DEF Requested!OnlyAuthentic, Requested!Row
    <2>9. QueriesKept
      <3>1. CASE p \in keys
        BY <2>4, <2>7, <3>1, QueriesSame
      <3>2. CASE p \notin keys
        <4>1. r \in 1..Len(requests') /\ p = requests'[r].of
          BY <1>2, <2>1, <2>5, <2>6
        <4>2. Requested!Query(r, p)
          BY <2>4, <3>2
        <4> QED
          BY <2>7, <4>1, <4>2, QueryKeeps
      <3> QED
        BY <3>1, <3>2
    <2>10. RowsKept
      <3>1. evaluating \subseteq 1..Len(requests)
        BY RequestFacts
      <3>2. \A i \in 1..Len(requests) : i \in 1..Len(requests')
        BY <1>2, <2>6
      <3>3. r \in 1..Len(requests')
        BY <1>2, <2>1, <2>6
      <3> QED
        BY <1>1, <1>2, <2>4, <3>1, <3>2, <3>3 DEF RowsKept
    <2> QED
      BY <1>1, <2>7, <2>8, <2>9, <2>10, ResultsSame, SmallTypes, RequestParts
  <1> QED
    BY <1>3, <1>4

LEMMA SeenStep == ASSUME RequestInv, Requested!MarkSeen PROVE RequestInv'
  <1>1. /\ UNCHANGED <<requests, keys, evaluating, evaluated, results, queries, session, lookups>>
        /\ inbox' = inbox \ {handling} /\ handling' = Requested!Nobody
    BY DEF Requested!MarkSeen, Requested!queryVars
  <1>2. TableKept /\ Requested!OnlyAuthentic'
    BY <1>1, TableSame, AuthenticSame
  <1>3. inbox' \subseteq Packet /\ keys' \subseteq Registered
    BY <1>1, SmallTypes
  <1> QED
    BY <1>1, <1>2, <1>3, QueriesSame, ResultsSame, RowsSame, RequestParts

LEMMA QueryEventStep == ASSUME RequestInv, Requested!OnQueryEvent PROVE RequestInv'
  <1>1. /\ UNCHANGED <<inbox, handling, evaluating>> /\ results # <<>> /\ results' = Tail(results)
    BY DEF Requested!OnQueryEvent
  <1>2. /\ results \in Seq(QueryResult) /\ Len(results) \in Nat /\ DOMAIN results = 1..Len(results)
        /\ \A i \in 1..Len(results) : results[i].row \in 1..Len(requests)
    BY RequestFacts, LenProperties
  <1>3. PICK r : r = Head(results)
    OBVIOUS
  <1>4. /\ r \in QueryResult /\ Tail(results) \in Seq(QueryResult) /\ Len(Tail(results)) = Len(results) - 1
        /\ \A i \in 1..Len(Tail(results)) : Tail(results)[i] = results[i + 1]
    BY <1>1, <1>2, <1>3, HeadTailProperties
  <1>5. r = results[1] /\ 1 \in 1..Len(results)
    BY <1>1, <1>2, <1>3, EmptySeq
  <1>6. r.row \in 1..Len(requests)
    BY <1>2, <1>5
  <1>7. \/ /\ r.outcome = "error" /\ Requested!ChangeState(r.row, "query_failed")
           /\ UNCHANGED <<keys, evaluated, queries, session, lookups>>
        \/ /\ r.outcome = "none" /\ Requested!ChangeState(r.row, "no_key")
           /\ UNCHANGED <<keys, evaluated, queries, session, lookups>>
        \/ /\ r.outcome \in Packet /\ keys' = keys \cup {r.outcome} /\ Requested!DoVerifyData(r.row, keys')
    BY <1>3 DEF Requested!OnQueryEvent, Requested!queryVars
  <1>8. TableKept /\ QueriesKept /\ Requested!OnlyAuthentic' /\ evaluated' \subseteq 1..Len(requests') /\ keys' \subseteq Registered
    <2>1. ASSUME NEW st \in {"query_failed", "no_key"}, Requested!ChangeState(r.row, st),
                 UNCHANGED <<keys, evaluated, queries, session, lookups>>
          PROVE  TableKept /\ QueriesKept /\ Requested!OnlyAuthentic' /\ evaluated' \subseteq 1..Len(requests') /\ keys' \subseteq Registered
      <3>1. requests' = requests \/ requests' = [requests EXCEPT ![r.row].state = st]
        BY <2>1 DEF Requested!ChangeState
      <3>2. st \in Requested!State /\ st # "succeeded"
        BY DEF Requested!State
      <3>3. TableKept /\ Requested!OnlyAuthentic'
        BY <1>6, <3>1, <3>2, StateChanged
      <3>4. \A i \in 1..Len(requests) : i \in 1..Len(requests')
        BY <3>3 DEF TableKept
      <3> QED
        BY <2>1, <3>3, <3>4, QueriesSame, RequestFacts
    <2>2. CASE r.outcome \in Packet /\ keys' = keys \cup {r.outcome} /\ Requested!DoVerifyData(r.row, keys')
      <3>1. r.outcome \in Registered
        BY <1>4, <2>2, RequestsAssumption DEF QueryResult
      <3>2. keys' \in SUBSET Registered
        BY <2>2, <3>1, SmallTypes
      <3>3. PICK k : k = keys'
        OBVIOUS
      <3>4. k \in SUBSET Registered /\ Requested!DoVerifyData(r.row, k)
        BY <2>2, <3>2, <3>3
      <3> QED
        BY <1>6, <3>2, <3>4, VerifyKeeps
    <2> QED
      BY <1>7, <2>1, <2>2
  <1>9. ResultsKept
    <2>1. PICK s : s = Tail(results)
      OBVIOUS
    <2>2. s \in Seq(QueryResult) /\ DOMAIN s = 1..(Len(results) - 1) /\ \A i \in 1..(Len(results) - 1) : s[i] = results[i + 1]
      BY <1>2, <1>4, <2>1, LenProperties
    <2>3. \A i \in DOMAIN s : i + 1 \in 1..Len(results) /\ s[i] = results[i + 1]
      BY <1>2, <2>2
    <2>4. \A n \in 1..Len(requests) : n \in 1..Len(requests')
      BY <1>8 DEF TableKept
    <2>5. \A i \in DOMAIN s : s[i].row \in 1..Len(requests')
      BY <1>2, <2>3, <2>4
    <2> QED
      BY <1>1, <2>1, <2>2, <2>5 DEF ResultsKept
  <1>10. RowsKept
    <2>1. \A n \in 1..Len(requests) : n \in 1..Len(requests')
      BY <1>8 DEF TableKept
    <2> QED
      BY <1>1, <1>8, <2>1, RequestFacts DEF RowsKept
  <1> QED
    BY <1>1, <1>8, <1>9, <1>10, SmallTypes, RequestParts

\* a row is looked at again
LEMMA EvaluateStep ==
    ASSUME RequestInv, NEW r \in 1..Len(requests), Requested!DoVerifyData(r, keys), evaluating' \subseteq evaluating,
           UNCHANGED <<inbox, handling, keys, results>>
    PROVE  RequestInv'
  <1>1. TableKept /\ QueriesKept /\ Requested!OnlyAuthentic' /\ evaluated' \subseteq 1..Len(requests')
    BY VerifyKeeps, SmallTypes
  <1>2. \A n \in 1..Len(requests) : n \in 1..Len(requests')
    BY <1>1 DEF TableKept
  <1>3. RowsKept
    BY <1>1, <1>2, RequestFacts DEF RowsKept
  <1> QED
    BY <1>1, <1>3, ResultsSame, SmallTypes, RequestParts

LEMMA PendingStep == ASSUME RequestInv, Requested!EmitPendingRequests PROVE RequestInv'
  <1>1. /\ UNCHANGED <<inbox, handling, requests, keys, queries, session, lookups, results, evaluated>>
        /\ evaluating' \subseteq 1..Len(requests)
    BY DEF Requested!EmitPendingRequests, Requested!queryVars, Requested!Row
  <1>2. TableKept /\ Requested!OnlyAuthentic'
    BY <1>1, TableSame, AuthenticSame
  <1>3. RowsKept
    BY <1>1, RequestFacts DEF RowsKept
  <1> QED
    BY <1>1, <1>2, <1>3, QueriesSame, ResultsSame, SmallTypes, RequestParts

\* what the user decides about a request
LEMMA UserStep ==
    ASSUME RequestInv, NEW r \in 1..Len(requests),
           \/ Requested!EvaluatePending(r) \/ Requested!TryEvaluateRequest(r)
           \/ Requested!BanSender(r) \/ Requested!AcceptContactRequest(r) \/ Requested!Refuse(r)
    PROVE  RequestInv'
  <1>1. CASE Requested!EvaluatePending(r) \/ Requested!TryEvaluateRequest(r)
    <2>1. /\ Requested!DoVerifyData(r, keys) /\ evaluating' \subseteq evaluating
          /\ UNCHANGED <<inbox, handling, keys, results>>
      BY <1>1 DEF Requested!EvaluatePending, Requested!TryEvaluateRequest
    <2> QED
      BY <2>1, EvaluateStep
  <1>2. CASE Requested!BanSender(r) \/ Requested!AcceptContactRequest(r) \/ Requested!Refuse(r)
    <2>1. /\ requests' = [requests EXCEPT ![r].state = "removed"]
          /\ UNCHANGED <<inbox, handling, keys, evaluating, queries, session, lookups, results, evaluated>>
      BY <1>2 DEF Requested!BanSender, Requested!AcceptContactRequest, Requested!Refuse, Requested!RemoveRequest, Requested!queryVars
    <2>2. "removed" \in Requested!State
      BY DEF Requested!State
    <2>3. TableKept /\ Requested!OnlyAuthentic'
      BY <2>1, <2>2, StateChanged
    <2> QED
      BY <2>1, <2>3, QueriesSame, ResultsSame, RowsSame, SmallTypes, RequestParts
  <1> QED
    BY <1>1, <1>2

LEMMA RequestRestartStep == ASSUME RequestInv, Requested!Restart PROVE RequestInv'
  <1>1. /\ UNCHANGED <<inbox, requests, keys>> /\ handling' = Requested!Nobody /\ evaluating' = {} /\ evaluated' = {}
        /\ queries' = <<>> /\ session' = Requested!Closed /\ lookups' = <<>> /\ results' = <<>>
    BY DEF Requested!Restart
  <1>2. TableKept /\ Requested!OnlyAuthentic'
    BY <1>1, TableSame, AuthenticSame
  <1>3. QueriesKept
    BY <1>1 DEF QueriesKept, Requested!Closed
  <1>4. ResultsKept /\ RowsKept
    BY <1>1 DEF ResultsKept, RowsKept
  <1> QED
    BY <1>1, <1>2, <1>3, <1>4, SmallTypes, RequestParts

LEMMA RequestStep == RequestInv /\ [Requested!Next]_requestVars => RequestInv'
  <1> SUFFICES ASSUME RequestInv, [Requested!Next]_requestVars PROVE RequestInv'
    OBVIOUS
  <1>1. ASSUME Requested!ClientStep \/ Requested!LoseSession PROVE RequestInv'
    BY <1>1, RequestConnectStep, RequestDisconnectStep, SessionStep, LookupStep DEF Requested!ClientStep
  <1>2. ASSUME Requested!LoopStep \/ Requested!EmitPendingRequests \/ Requested!Restart PROVE RequestInv'
    BY <1>2, SeenStep, QueryEventStep, PendingStep, RequestRestartStep DEF Requested!LoopStep
  <1>3. ASSUME NEW p \in Packet, Requested!OnPacket(p) PROVE RequestInv'
    BY <1>3, PacketStep
  <1>4. ASSUME NEW r \in Requested!Row,
               \/ Requested!EvaluatePending(r) \/ Requested!TryEvaluateRequest(r)
               \/ Requested!BanSender(r) \/ Requested!AcceptContactRequest(r) \/ Requested!Refuse(r)
        PROVE  RequestInv'
    BY <1>4, UserStep DEF Requested!Row
  <1>5. ASSUME UNCHANGED requestVars PROVE RequestInv'
    BY <1>5, RequestAside
  <1> QED
    BY <1>1, <1>2, <1>3, <1>4, <1>5 DEF Requested!Next

LEMMA RequestInitially == Requested!Init => RequestInv
  <1> SUFFICES ASSUME Requested!Init PROVE RequestInv
    OBVIOUS
  <1>1. requests = <<>> /\ Len(requests) = 0 /\ 1..Len(requests) = {}
    BY DEF Requested!Init
  <1>2. Requested!OnlyAuthentic
    BY <1>1 DEF Requested!OnlyAuthentic, Requested!Row
  <1>3. Requested!TypeOK
    BY <1>1 DEF Requested!Init, Requested!TypeOK, Requested!Row, Requested!Closed
  <1> QED
    BY <1>2, <1>3 DEF RequestInv

=============================================================================
