--------------------------- MODULE TransferProofs ---------------------------
(***************************************************************************)
(* Proofs about the transfers of record data: the queue with its window,   *)
(* rounds, retries and sessions (TransferQueue), for any data, threads,    *)
(* chunks, pieces and limits, and the channel under it with its tickets,   *)
(* attempts and shared connections (DataChannel), for any openings,        *)
(* servers and grants.                                                     *)
(***************************************************************************)
EXTENDS Transfers, DivergenceProofs, SequenceTheorems

-----------------------------------------------------------------------------
(* Pieces *)

Piece == Queue!Piece
Before(p, q) == Queue!Before(p, q)

\* The counts TransferQueue takes are those of the standard library.
LEMMA CallsAreCounted == \A S : Queue!Cardinality(S) = Cardinality(S)
  BY DEF Queue!Cardinality, Cardinality

LEMMA PieceFacts ==
    /\ IsFiniteSet(Piece)
    /\ \A p \in Piece : p = <<p[1], p[2]>> /\ p[1] \in 1..Chunks /\ p[2] \in 1..Pieces /\ p[1] \in Nat /\ p[2] \in Nat
  <1>1. Chunks \in Nat /\ Pieces \in Nat
    BY TransferAssumption
  <1>2. IsFiniteSet(1..Chunks) /\ IsFiniteSet(1..Pieces)
    BY <1>1, FS_Interval
  <1>3. IsFiniteSet(Piece)
    BY <1>2, FS_Product DEF Piece, Queue!Piece
  <1> QED
    BY <1>1, <1>3 DEF Piece, Queue!Piece

\* The pieces are in one order.
LEMMA BeforeOrders ==
    ASSUME NEW p \in Piece, NEW q \in Piece
    PROVE  /\ ~Before(p, p)
           /\ Before(p, q) => ~Before(q, p)
           /\ p = q \/ Before(p, q) \/ Before(q, p)
           /\ \A r \in Piece : Before(p, q) /\ Before(q, r) => Before(p, r)
  BY PieceFacts DEF Before, Queue!Before

\* One of a set of pieces is the last.
LEMMA LastPiece ==
    ASSUME NEW T \in SUBSET Piece, T # {}
    PROVE  \E p \in T : \A q \in T : q = p \/ Before(q, p)
  <1> DEFINE C == {p[1] : p \in T}
  <1>1. C \in SUBSET Nat /\ C # {} /\ C \subseteq 1..Chunks
    BY PieceFacts
  <1>2. IsFiniteSet(C)
    <2>1. IsFiniteSet(1..Chunks)
      BY TransferAssumption, FS_Interval
    <2> QED
      BY <1>1, <2>1, FS_Subset
  <1> HIDE DEF C
  <1>3. PICK k \in C : \A n \in C : n <= k
    BY <1>1, <1>2, BoundsExist
  <1> DEFINE D == {p[2] : p \in {r \in T : r[1] = k}}
  <1>4. D \in SUBSET Nat /\ D # {} /\ D \subseteq 1..Pieces
    BY <1>3, PieceFacts DEF C
  <1>5. IsFiniteSet(D)
    <2>1. IsFiniteSet(1..Pieces)
      BY TransferAssumption, FS_Interval
    <2> HIDE DEF D
    <2> QED
      BY <1>4, <2>1, FS_Subset
  <1> HIDE DEF D
  <1>6. PICK m \in D : \A n \in D : n <= m
    BY <1>4, <1>5, BoundsExist
  <1>7. PICK p \in T : p[1] = k /\ p[2] = m
    BY <1>6 DEF D
  <1>8. ASSUME NEW q \in T PROVE q = p \/ Before(q, p)
    <2>1. q[1] \in C /\ (q[1] = k => q[2] \in D)
      BY DEF C, D
    <2>2. q[1] <= k /\ (q[1] = k => q[2] <= m)
      BY <2>1, <1>3, <1>6
    <2> QED
      BY <2>2, <1>7, PieceFacts DEF Before, Queue!Before
  <1> QED
    BY <1>7, <1>8

\* There are at most n pieces with fewer than n others before them.
LEMMA FirstPieces ==
    ASSUME NEW S \in SUBSET Piece, NEW n \in Nat,
           NEW T, T = {p \in S : Cardinality({q \in S : Before(q, p)}) < n}
    PROVE  IsFiniteSet(T) /\ Cardinality(T) \in Nat /\ Cardinality(T) <= n
  <1>1. IsFiniteSet(T) /\ Cardinality(T) \in Nat /\ T \in SUBSET Piece
    <2>1. T \in SUBSET Piece
      OBVIOUS
    <2> QED
      BY <2>1, PieceFacts, FS_Subset, FS_CardinalityType
  <1>2. CASE T = {}
    <2>1. Cardinality(T) = 0
      BY <1>2, FS_EmptySet
    <2> QED
      BY <1>1, <2>1
  <1>3. CASE T # {}
    <2>1. PICK p \in T : \A q \in T : q = p \/ Before(q, p)
      BY <1>1, <1>3, LastPiece
    <2> DEFINE U == {q \in S : Before(q, p)}
    <2>2. T \ {p} \subseteq U /\ Cardinality(U) < n /\ U \in SUBSET Piece
      BY <2>1
    <2> HIDE DEF U
    <2>3. IsFiniteSet(U) /\ Cardinality(U) \in Nat
      BY <2>2, PieceFacts, FS_Subset, FS_CardinalityType
    <2>4. Cardinality(T \ {p}) <= Cardinality(U) /\ Cardinality(T \ {p}) = Cardinality(T) - 1
      BY <2>1, <2>2, <2>3, <1>1, FS_Subset, FS_RemoveElement
    <2> QED
      BY <1>1, <2>2, <2>3, <2>4
  <1> QED
    BY <1>1, <1>2, <1>3
-----------------------------------------------------------------------------
(* The inductive invariant of the transfers *)

Transfer == Queue!Transfer
ChannelCall == Queue!ChannelCall
DoneNote == Queue!DoneNote

PiecesIn(C) == {c.piece : c \in C}
PieceCalls(C) == {c \in C : c.kind = "piece"}

\* What is left of a download, out or to be asked for, is the rest of a chunk from the piece after
\* the last received on, and whole chunks.
InOrder(rest, received) ==
    /\ \A p \in rest : p[2] < Pieces => <<p[1], p[2] + 1>> \in rest
    /\ \A p \in rest : p[2] # 1 => <<p[1], p[2] - 1>> \in rest \/ \A q \in rest : ~Before(q, p)
    /\ \A p \in rest : (\A q \in rest : ~Before(q, p)) => p[2] = received + 1

\* A transfer t of direction way with the calls C in the channel and the calls R still to be made
\* by a round: they are of this transfer and are what it counts, and pieces go out in order.
Own(t, C, R) ==
    /\ t \in Transfer /\ C \in SUBSET ChannelCall /\ R \in SUBSET ChannelCall
    /\ C \cap R = {} /\ IsFiniteSet(C \cup R)
    /\ \A c \in C \cup R : c.turn = t.turn
    /\ \A b, c \in C \cup R : b.piece = c.piece => b = c
    /\ t.outstanding = Cardinality(PieceCalls(C \cup R))
Stage(t, C, R) ==
    IF t.opened THEN \A c \in C \cup R : c.kind = "piece" /\ c.piece \in Piece
    ELSE /\ t.cursor = {} /\ t.failure = "none" /\ t.received = 0
         /\ \E c \in C \cup R : C \cup R = {c} /\ c.kind = "open"
Ordered(way, t, C, R) ==
    t.opened =>
        /\ \A p \in PiecesIn(C), q \in PiecesIn(R) : Before(p, q)
        /\ \A p \in PiecesIn(C \cup R), q \in t.cursor : Before(p, q)
        /\ way = "down" /\ t.failure = "none" => InOrder(PiecesIn(C \cup R) \cup t.cursor, t.received)
Sound(way, t, C, R) == Own(t, C, R) /\ Stage(t, C, R) /\ Ordered(way, t, C, R) /\ t.failure # "misplaced"

\* the calls of this session for a data: in the channel, and in the actions of a round
InChannel(d) == {c \in calls : c.d = d /\ c.gen = gen}
InRound(d) == {c \in UNION {acts[t].calls : t \in Thread} : c.d = d /\ c.gen = gen}

\* one thread runs rounds, and only it has actions left
OneRunner ==
    /\ \A t \in Thread : task[t] # "idle" => pump.running
    /\ \A t, u \in Thread : task[t] # "idle" /\ task[u] # "idle" => t = u
    /\ \A t \in Thread : task[t] = "idle" => acts[t] = Queue!NoActions
    /\ \A t \in Thread : task[t] \in {"done_up", "done_down"} => acts[t].calls = {} /\ acts[t].dones # <<>>

\* a data waits once, and does not wait while it is on its way
Waiting ==
    /\ \A i, j \in 1..Len(queue) : queue[i] = queue[j] => i = j
    /\ \A i \in 1..Len(queue) : queue[i] \notin DOMAIN active
    /\ IsFiniteSet(DOMAIN active)

\* no call is of a later session, and those of this one are for data on their way
Sessions ==
    \A c \in calls \cup UNION {acts[t].calls : t \in Thread} :
        c.gen <= gen /\ (c.gen = gen => c.d \in DOMAIN active)

\* the sessions are counted by the losses of the record connection
Counted ==
    /\ IsFiniteSet(asked) /\ Cardinality(asked) + linkLosses <= MaxLoad
    /\ gen + (IF link \in {"cancel", "reset"} THEN 1 ELSE 0) <= linkLosses
    /\ rgen + (IF link = "cancel" THEN 1 ELSE 0) <= linkLosses

Flow == Sessions /\ \A d \in DOMAIN active : Sound(dir, active[d], InChannel(d), InRound(d))

TransferInv == Queue!TypeOK /\ OneRunner /\ Waiting /\ Counted /\ Flow
-----------------------------------------------------------------------------
(* What answers and rounds do to a transfer *)

\* what an answer leaves: a transfer that is over has nothing out
Settled(way, t, C, R) ==
    t \in Transfer /\ IF Queue!Done(t) THEN C \cup R = {} ELSE Sound(way, t, C, R)

\* the first piece of what is left is the next of its chunk, and without it the rest is in order
LEMMA InOrderTake ==
    ASSUME NEW S \in SUBSET Piece, NEW r \in 0..Pieces, InOrder(S, r),
           NEW p \in S, \A q \in S : ~Before(q, p)
    PROVE  p[2] = r + 1 /\ InOrder(S \ {p}, IF p[2] = Pieces THEN 0 ELSE p[2])
  <1> DEFINE T == S \ {p}
             n == IF p[2] = Pieces THEN 0 ELSE p[2]
  <1>1. p[2] = r + 1
    BY DEF InOrder
  <1>2. p \in Piece /\ \A q \in S : q \in Piece
    OBVIOUS
  <1>3. \A q \in T : Before(p, q)
    BY <1>2, BeforeOrders
  <1>4. ASSUME NEW q \in T, q[2] < Pieces PROVE <<q[1], q[2] + 1>> \in T
    <2>1. <<q[1], q[2] + 1>> \in S
      BY <1>4 DEF InOrder
    <2>2. p # <<q[1], q[2] + 1>>
      BY <1>2, <1>3, PieceFacts DEF Before, Queue!Before
    <2> QED
      BY <2>1, <2>2
  <1>5. ASSUME NEW q \in T, q[2] # 1 PROVE <<q[1], q[2] - 1>> \in S
    BY <1>3, <1>5 DEF InOrder
  <1>6. ASSUME NEW q \in T, q[1] = p[1], q[2] = p[2] + 1 PROVE \A u \in T : ~Before(u, q)
    BY <1>2, <1>3, <1>6, PieceFacts DEF Before, Queue!Before
  <1>7. ASSUME NEW q \in T, q[2] # 1 PROVE <<q[1], q[2] - 1>> \in T \/ \A u \in T : ~Before(u, q)
    <2>1. CASE <<q[1], q[2] - 1>> = p
      <3>1. q[1] = p[1] /\ q[2] = p[2] + 1
        BY <2>1, <1>2, PieceFacts
      <3> QED
        BY <3>1, <1>6
    <2> QED
      BY <2>1, <1>5, <1>7
  <1>8. ASSUME NEW q \in T, \A u \in T : ~Before(u, q) PROVE q[2] = n + 1
    <2>0. Pieces \in Nat /\ p[2] \in 1..Pieces /\ q[2] \in 1..Pieces /\ q[1] \in Nat /\ p[1] \in Nat
      BY <1>2, PieceFacts, TransferAssumption
    <2>1. CASE p[2] = Pieces
      <3>1. q[2] # 1 => <<q[1], q[2] - 1>> \in S
        BY <1>5
      <3>2. q[2] # 1 => <<q[1], q[2] - 1>> # p
        BY <2>0, <2>1
      <3>3. q[2] # 1 => Before(<<q[1], q[2] - 1>>, q)
        BY <2>0 DEF Before, Queue!Before
      <3> QED
        BY <3>1, <3>2, <3>3, <1>8, <2>1
    <2>2. CASE p[2] # Pieces
      <3> DEFINE u == <<p[1], p[2] + 1>>
      <3>1. u \in S
        BY <2>0, <2>2 DEF InOrder
      <3>2. u # p /\ u \in T
        BY <3>1, <2>0
      <3>3. ~Before(u, q) /\ Before(p, q)
        BY <3>2, <1>3, <1>8
      <3> QED
        BY <3>3, <2>0, <2>2 DEF Before, Queue!Before
    <2> QED
      BY <2>1, <2>2
  <1> HIDE DEF T, n
  <1>9. InOrder(T, n)
    BY <1>4, <1>7, <1>8 DEF InOrder
  <1> QED
    BY <1>1, <1>9 DEF T, n

\* A transfer that is over has nothing out.
LEMMA OverIsQuiet ==
    ASSUME NEW way, NEW t, NEW C, NEW R, Sound(way, t, C, R), Queue!Done(t)
    PROVE  C \cup R = {}
  <1>1. t.opened
    BY DEF Sound, Stage, Queue!Done
  <1>2. PieceCalls(C \cup R) = C \cup R
    BY <1>1 DEF Sound, Stage, PieceCalls
  <1>3. Cardinality(C \cup R) = 0 /\ IsFiniteSet(C \cup R)
    BY <1>2 DEF Sound, Own, Queue!Done
  <1> QED
    BY <1>3, FS_EmptySet

LEMMA SoundIsSettled ==
    ASSUME NEW way, NEW t, NEW C, NEW R, Sound(way, t, C, R)
    PROVE  Settled(way, t, C, R)
  BY OverIsQuiet DEF Settled, Sound, Own

\* The actions of a round are run.
LEMMA PostedIsSound ==
    ASSUME NEW way, NEW t, NEW C, NEW R, Sound(way, t, C, R)
    PROVE  Sound(way, t, C \cup R, {})
  <1>1. (C \cup R) \cup {} = C \cup R /\ (C \cup R) \cap {} = {} /\ PiecesIn({}) = {}
    BY DEF PiecesIn
  <1>2. Own(t, C \cup R, {})
    BY <1>1 DEF Sound, Own
  <1>3. Stage(t, C \cup R, {})
    BY <1>1 DEF Sound, Stage
  <1>4. Ordered(way, t, C \cup R, {})
    BY <1>1 DEF Sound, Ordered
  <1> QED
    BY <1>2, <1>3, <1>4 DEF Sound

\* Taking an answered call away leaves the others as they were.
Remaining(t, C, R, c) ==
    LET B == C \ {c}
    IN  /\ B \cup R = (C \cup R) \ {c} /\ B \cap R = {} /\ IsFiniteSet(B \cup R)
        /\ B \in SUBSET ChannelCall /\ R \in SUBSET ChannelCall
        /\ \A b \in B \cup R : b.turn = t.turn
        /\ \A a, b \in B \cup R : a.piece = b.piece => a = b
        /\ Cardinality(PieceCalls(B \cup R)) = t.outstanding - IF c.kind = "piece" THEN 1 ELSE 0
        /\ c.kind = "piece" => t.outstanding > 0
LEMMA AnsweredOwn ==
    ASSUME NEW t, NEW C, NEW R, Own(t, C, R), NEW c \in C
    PROVE  Remaining(t, C, R, c)
  <1>1. (C \ {c}) \cup R = (C \cup R) \ {c} /\ (C \ {c}) \cap R = {}
    BY DEF Own
  <1>2. IsFiniteSet(C \cup R) /\ IsFiniteSet((C \ {c}) \cup R)
    <2>1. IsFiniteSet(C \cup R)
      BY DEF Own
    <2>2. IsFiniteSet((C \cup R) \ {c})
      BY <2>1, FS_RemoveElement
    <2> QED
      BY <1>1, <2>1, <2>2
  <1>3. PieceCalls((C \ {c}) \cup R) = PieceCalls(C \cup R) \ {c}
    BY <1>1 DEF PieceCalls
  <1>4. IsFiniteSet(PieceCalls(C \cup R))
    <2>1. PieceCalls(C \cup R) \in SUBSET (C \cup R)
      BY DEF PieceCalls
    <2> QED
      BY <2>1, <1>2, FS_Subset
  <1>5. c \in PieceCalls(C \cup R) <=> c.kind = "piece"
    BY DEF PieceCalls
  <1> DEFINE P == PieceCalls(C \cup R)
  <1> HIDE DEF P
  <1>6. /\ Cardinality(P \ {c}) = IF c \in P THEN Cardinality(P) - 1 ELSE Cardinality(P)
        /\ IsFiniteSet(P \ {c})
    BY <1>4, FS_RemoveElement DEF P
  <1>7. Cardinality(P) \in Nat /\ Cardinality(P \ {c}) \in Nat
    BY <1>4, <1>6, FS_CardinalityType DEF P
  <1>8. t.outstanding = Cardinality(P)
    BY DEF Own, P
  <1>9. /\ Cardinality(P \ {c}) = t.outstanding - IF c.kind = "piece" THEN 1 ELSE 0
        /\ c.kind = "piece" => t.outstanding > 0
    BY <1>5, <1>6, <1>7, <1>8 DEF P
  <1> QED
    BY <1>1, <1>2, <1>3, <1>9 DEF Own, P, Remaining

\* the fields of a transfer
LEMMA TransferFacts ==
    ASSUME NEW t \in Transfer
    PROVE  /\ t.cursor \in SUBSET Piece /\ t.failure \in Queue!Failure \cup {"none"}
           /\ t.outstanding \in 0..Window /\ t.outstanding \in Nat /\ t.opened \in BOOLEAN
           /\ t.incomplete \in BOOLEAN /\ t.received \in 0..Pieces /\ t.turn \in {0, 1}
  BY TransferAssumption DEF Transfer, Queue!Transfer, Piece

LEMMA PiecesOfFacts ==
    ASSUME NEW chunks \in SUBSET (1..Chunks)
    PROVE  Queue!PiecesOf(chunks) \in SUBSET Piece /\ InOrder(Queue!PiecesOf(chunks), 0)
  <1> DEFINE S == Queue!PiecesOf(chunks)
  <1>1. \A p : p \in S <=> p \in Piece /\ p[1] \in chunks
    BY DEF Queue!PiecesOf, Piece, Queue!Piece
  <1>2. \A p \in S : p = <<p[1], p[2]>> /\ p[1] \in chunks /\ p[2] \in 1..Pieces /\ p[1] \in Nat
    BY <1>1, PieceFacts
  <1>3. \A k \in chunks, i \in 1..Pieces : <<k, i>> \in S
    BY DEF Queue!PiecesOf
  <1> HIDE DEF S
  <1>4. \A p \in S : p[2] < Pieces => <<p[1], p[2] + 1>> \in S
    BY <1>2, <1>3, TransferAssumption
  <1>5. \A p \in S : p[2] # 1 => <<p[1], p[2] - 1>> \in S
    BY <1>2, <1>3, TransferAssumption
  <1>6. ASSUME NEW p \in S, \A q \in S : ~Before(q, p) PROVE p[2] = 0 + 1
    <2>1. p[2] # 1 => Before(<<p[1], p[2] - 1>>, p)
      BY <1>2, TransferAssumption DEF Before, Queue!Before
    <2> QED
      BY <2>1, <1>5, <1>6
  <1>7. InOrder(S, 0)
    BY <1>4, <1>5, <1>6 DEF InOrder
  <1> QED
    BY <1>1, <1>7 DEF S

\* The holder took the opening.
LEMMA OpenedIsSettled ==
    ASSUME NEW way, NEW t, NEW C, NEW R, Sound(way, t, C, R), NEW c \in C, c.kind = "open",
           NEW chunks \in SUBSET (1..Chunks), NEW incomplete \in BOOLEAN,
           NEW u, u = [t EXCEPT !.opened = TRUE, !.cursor = Queue!PiecesOf(chunks), !.incomplete = incomplete]
    PROVE  Settled(way, u, C \ {c}, R)
  <1> USE DEF Sound
  <1>1. t \in Transfer /\ Own(t, C, R)
    BY DEF Own
  <1>2. ~t.opened
    BY DEF Stage
  <1>3. C \cup R = {c} /\ t.failure = "none" /\ t.received = 0
    BY <1>2 DEF Stage
  <1>4. (C \ {c}) \cup R = {} /\ C \ {c} = {} /\ R = {}
    BY <1>1, <1>3 DEF Own
  <1>5. /\ u \in Transfer /\ u.opened /\ u.cursor = Queue!PiecesOf(chunks) /\ u.failure = "none"
        /\ u.received = 0 /\ u.outstanding = t.outstanding
    BY <1>1, <1>3, PiecesOfFacts DEF Transfer, Queue!Transfer, Piece
  <1> DEFINE B == C \ {c}
  <1>6. Own(u, B, R)
    <2>1. Remaining(t, C, R, c)
      BY <1>1, AnsweredOwn
    <2>2. u.turn = t.turn /\ t.outstanding \in Nat
      BY <1>1, TransferFacts DEF Transfer, Queue!Transfer
    <2> QED
      BY <2>1, <2>2, <1>5 DEF Own, Remaining
  <1>7. Stage(u, B, R)
    BY <1>4, <1>5 DEF Stage
  <1>8. Ordered(way, u, B, R)
    <2>1. PiecesIn(B) = {} /\ PiecesIn(R) = {} /\ PiecesIn(B \cup R) = {}
      BY <1>4 DEF PiecesIn
    <2>2. PiecesIn(B \cup R) \cup u.cursor = Queue!PiecesOf(chunks)
      BY <2>1, <1>5
    <2> QED
      BY <2>1, <2>2, <1>5, PiecesOfFacts DEF Ordered
  <1>9. Sound(way, u, B, R)
    BY <1>5, <1>6, <1>7, <1>8
  <1> HIDE DEF Sound
  <1> QED
    BY <1>9, SoundIsSettled

\* A piece is answered in its turn: it is the next of its chunk, or the transfer has failed already.
LEMMA PieceIsSettled ==
    ASSUME NEW way, NEW t, NEW C, NEW R, Sound(way, t, C, R), NEW c \in C, c.kind = "piece",
           \A b \in C : b.kind = "piece" => ~Before(b.piece, c.piece),
           NEW u, u = [t EXCEPT !.outstanding = @ - 1],
           NEW v, v = IF t.failure # "none" \/ way = "up" THEN u
                      ELSE IF c.piece[2] = t.received + 1
                      THEN [u EXCEPT !.received = IF c.piece[2] = Pieces THEN 0 ELSE c.piece[2]]
                      ELSE [u EXCEPT !.failure = "misplaced"],
           way \in {"up", "down"}
    PROVE  Settled(way, v, C \ {c}, R)
  <1> USE DEF Sound
  <1> DEFINE B == C \ {c}
             W == PiecesIn(C \cup R)
             S == W \cup t.cursor
  <1>1. t \in Transfer /\ Own(t, C, R) /\ t.failure # "misplaced"
    BY DEF Own
  <1>2. t.opened /\ \A b \in C \cup R : b.kind = "piece" /\ b.piece \in Piece
    BY DEF Stage
  <1>3. W \in SUBSET Piece /\ t.cursor \in SUBSET Piece /\ S \in SUBSET Piece /\ c.piece \in W /\ c.piece \in S
    BY <1>1, <1>2, TransferFacts DEF PiecesIn
  <1>4. PiecesIn(B \cup R) = W \ {c.piece}
    BY <1>1 DEF PiecesIn, Own
  <1>5. \A q \in S : ~Before(q, c.piece)
    <2>1. \A q \in PiecesIn(C) : ~Before(q, c.piece)
      BY <1>2 DEF PiecesIn
    <2>2. \A q \in PiecesIn(R) \cup t.cursor : Before(c.piece, q)
      BY <1>2 DEF Ordered, PiecesIn
    <2>3. \A q \in PiecesIn(R) \cup t.cursor : ~Before(q, c.piece)
      BY <2>2, <1>3, BeforeOrders DEF PiecesIn
    <2> QED
      BY <2>1, <2>3 DEF PiecesIn
  <1>6. c.piece \notin t.cursor
    BY <1>2, <1>3, BeforeOrders DEF Ordered
  <1>7. PiecesIn(B \cup R) \cup t.cursor = S \ {c.piece}
    BY <1>4, <1>6
  <1>8. /\ t.outstanding - 1 \in 0..Window /\ Cardinality(PieceCalls(B \cup R)) = t.outstanding - 1
        /\ Remaining(t, C, R, c)
    <2>1. Remaining(t, C, R, c)
      BY <1>1, AnsweredOwn
    <2>2. t.outstanding \in 0..Window /\ Window \in Nat
      BY <1>1, TransferFacts, TransferAssumption
    <2> QED
      BY <2>1, <2>2 DEF Remaining
  <1>9. u \in Transfer /\ u.outstanding = t.outstanding - 1 /\ u.cursor = t.cursor /\ u.opened = t.opened
        /\ u.failure = t.failure /\ u.received = t.received /\ u.turn = t.turn
    BY <1>1, <1>8 DEF Transfer, Queue!Transfer
  <1>10. way = "down" /\ t.failure = "none" =>
            c.piece[2] = t.received + 1 /\ InOrder(S \ {c.piece}, IF c.piece[2] = Pieces THEN 0 ELSE c.piece[2])
    <2> SUFFICES ASSUME way = "down", t.failure = "none"
                 PROVE  c.piece[2] = t.received + 1 /\ InOrder(S \ {c.piece}, IF c.piece[2] = Pieces THEN 0 ELSE c.piece[2])
      OBVIOUS
    <2>1. InOrder(S, t.received) /\ t.received \in 0..Pieces
      BY <1>1, <1>2, TransferFacts DEF Ordered
    <2> HIDE DEF S
    <2> QED
      BY <2>1, <1>3, <1>5, InOrderTake
  <1> HIDE DEF B, W, S
  <1>11. /\ v \in Transfer /\ v.outstanding = t.outstanding - 1 /\ v.cursor = t.cursor /\ v.opened
         /\ v.failure = t.failure /\ v.turn = t.turn
         /\ way = "down" /\ t.failure = "none" => v.received = IF c.piece[2] = Pieces THEN 0 ELSE c.piece[2]
    <2>1. CASE t.failure # "none" \/ way = "up"
      BY <2>1, <1>9, <1>2
    <2>2. CASE ~(t.failure # "none" \/ way = "up")
      <3>1. way = "down" /\ t.failure = "none" /\ c.piece[2] = t.received + 1
        BY <2>2, <1>10
      <3>2. v = [u EXCEPT !.received = IF c.piece[2] = Pieces THEN 0 ELSE c.piece[2]]
        BY <3>1
      <3>3. c.piece[2] \in 1..Pieces /\ Pieces \in Nat
        BY <1>2, PieceFacts, TransferAssumption
      <3>4. (IF c.piece[2] = Pieces THEN 0 ELSE c.piece[2]) \in 0..Pieces
        BY <3>3
      <3> QED
        BY <3>2, <3>4, <1>9, <1>2 DEF Transfer, Queue!Transfer
    <2> QED
      BY <2>1, <2>2
  <1>12. Own(v, B, R)
    BY <1>8, <1>11 DEF Own, B, Remaining
  <1>13. Stage(v, B, R)
    BY <1>2, <1>11 DEF Stage, B
  <1>14. Ordered(way, v, B, R)
    <2>1. PiecesIn(B) \subseteq PiecesIn(C) /\ PiecesIn(B \cup R) \subseteq W
      BY DEF PiecesIn, B, W
    <2>2. /\ \A p \in PiecesIn(C), q \in PiecesIn(R) : Before(p, q)
          /\ \A p \in W, q \in t.cursor : Before(p, q)
      BY <1>2 DEF Ordered, W
    <2>3. way = "down" /\ v.failure = "none" => InOrder(PiecesIn(B \cup R) \cup v.cursor, v.received)
      BY <1>7, <1>10, <1>11
    <2> QED
      BY <2>1, <2>2, <2>3, <1>11 DEF Ordered
  <1>15. Sound(way, v, B, R)
    BY <1>1, <1>11, <1>12, <1>13, <1>14
  <1> HIDE DEF Sound
  <1> QED
    BY <1>15, SoundIsSettled DEF B

\* An opening or a piece failed.
LEMMA FailedIsSettled ==
    ASSUME NEW way, NEW t, NEW C, NEW R, Sound(way, t, C, R), NEW c \in C, NEW err \in {"retryable", "final"},
           NEW u, u = [t EXCEPT !.outstanding = IF c.kind = "piece" THEN @ - 1 ELSE @,
                                !.failure = IF @ = "none" THEN err ELSE @]
    PROVE  Settled(way, u, C \ {c}, R)
  <1> USE DEF Sound
  <1> DEFINE B == C \ {c}
  <1>1. t \in Transfer /\ Own(t, C, R) /\ t.failure # "misplaced" /\ c \in ChannelCall
    BY DEF Own
  <1>2. Remaining(t, C, R, c)
    BY <1>1, AnsweredOwn
  <1>3. c.kind = "piece" => t.outstanding > 0
    BY <1>2 DEF Remaining
  <1>4. /\ u \in Transfer /\ u.outstanding = t.outstanding - IF c.kind = "piece" THEN 1 ELSE 0
        /\ u.cursor = t.cursor /\ u.opened = t.opened /\ u.received = t.received /\ u.turn = t.turn
        /\ u.failure \notin {"none", "misplaced"}
    <2>1. t.outstanding \in 0..Window /\ t.failure \in Queue!Failure \cup {"none"} /\ Window \in Nat
      BY <1>1, TransferFacts, TransferAssumption
    <2>2. (IF t.failure = "none" THEN err ELSE t.failure) \in Queue!Failure \cup {"none"}
      BY <2>1 DEF Queue!Failure
    <2>3. (IF c.kind = "piece" THEN t.outstanding - 1 ELSE t.outstanding) \in 0..Window
      BY <2>1, <1>3
    <2>4. u = [t EXCEPT !.outstanding = IF c.kind = "piece" THEN t.outstanding - 1 ELSE t.outstanding,
                        !.failure = IF t.failure = "none" THEN err ELSE t.failure]
      OBVIOUS
    <2>5. u \in Transfer
      BY <1>1, <2>2, <2>3, <2>4 DEF Transfer, Queue!Transfer
    <2>6. /\ u.outstanding = IF c.kind = "piece" THEN t.outstanding - 1 ELSE t.outstanding
          /\ u.failure = IF t.failure = "none" THEN err ELSE t.failure
          /\ u.cursor = t.cursor /\ u.opened = t.opened /\ u.received = t.received /\ u.turn = t.turn
      BY <1>1, <2>4 DEF Transfer, Queue!Transfer
    <2> QED
      BY <1>1, <2>1, <2>5, <2>6
  <1> HIDE DEF B
  <1>5. CASE t.opened
    <2>1. \A b \in C \cup R : b.kind = "piece" /\ b.piece \in Piece
      BY <1>5 DEF Stage
    <2>2. Own(u, B, R)
      BY <1>2, <1>4 DEF Own, B, Remaining
    <2>3. Stage(u, B, R)
      BY <1>4, <1>5, <2>1 DEF Stage, B
    <2>4. Ordered(way, u, B, R)
      <3>1. PiecesIn(B) \subseteq PiecesIn(C) /\ PiecesIn(B \cup R) \subseteq PiecesIn(C \cup R)
        BY DEF PiecesIn, B
      <3> QED
        BY <3>1, <1>4, <1>5 DEF Ordered
    <2>5. Sound(way, u, B, R)
      BY <1>4, <2>2, <2>3, <2>4
    <2> HIDE DEF Sound
    <2> QED
      BY <2>5, SoundIsSettled DEF B
  <1>6. CASE ~t.opened
    <2>1. C \cup R = {c} /\ c.kind = "open"
      BY <1>6 DEF Stage
    <2>2. B \cup R = {} /\ PieceCalls(C \cup R) = {}
      BY <1>1, <2>1 DEF Own, B, PieceCalls
    <2>3. u.outstanding = 0
      BY <1>1, <1>4, <2>1, <2>2, FS_EmptySet DEF Own
    <2>4. Queue!Done(u)
      BY <2>3, <1>4 DEF Queue!Done
    <2> QED
      BY <1>4, <2>2, <2>4 DEF Settled, B
  <1> QED
    BY <1>5, <1>6

\* A transfer as it begins.
LEMMA NewIsSound ==
    ASSUME NEW way, NEW n \in {0, 1}, NEW c \in ChannelCall, c.kind = "open", c.turn = n
    PROVE  Sound(way, Queue!NewTransfer(n), {}, {c})
  <1> DEFINE t == Queue!NewTransfer(n)
  <1>1. /\ t \in Transfer /\ ~t.opened /\ t.cursor = {} /\ t.failure = "none" /\ t.received = 0
        /\ t.outstanding = 0 /\ t.turn = n
    BY TransferAssumption DEF Queue!NewTransfer, Transfer, Queue!Transfer
  <1> HIDE DEF t
  <1>2. {} \cup {c} = {c} /\ PieceCalls({c}) = {}
    BY DEF PieceCalls
  <1>3. IsFiniteSet({c}) /\ Cardinality({}) = 0
    BY FS_Singleton, FS_EmptySet
  <1>4. Own(t, {}, {c})
    BY <1>1, <1>2, <1>3 DEF Own
  <1>5. Stage(t, {}, {c}) /\ Ordered(way, t, {}, {c})
    BY <1>1, <1>2 DEF Stage, Ordered
  <1> QED
    BY <1>1, <1>4, <1>5 DEF Sound, t

\* The pieces that a round sends are the first of those still to move, and fit the window.
LEMMA SendableFacts ==
    ASSUME NEW t \in Transfer
    PROVE  /\ Queue!Sendable(t) \in SUBSET t.cursor
           /\ IsFiniteSet(Queue!Sendable(t))
           /\ Cardinality(Queue!Sendable(t)) <= Window - t.outstanding
           /\ \A p \in Queue!Sendable(t), q \in t.cursor : Before(q, p) => q \in Queue!Sendable(t)
           /\ Queue!Sendable(t) # {} => t.opened /\ t.failure = "none"
  <1> DEFINE n == Window - t.outstanding
             earlier(p) == {q \in t.cursor : Before(q, p)}
             T == {p \in t.cursor : Cardinality(earlier(p)) < n}
  <1>1. n \in Nat /\ t.cursor \in SUBSET Piece /\ t.outstanding \in Nat
    BY TransferFacts, TransferAssumption
  <1>2. IsFiniteSet(T) /\ Cardinality(T) \in Nat /\ Cardinality(T) <= n
    <2> HIDE DEF n
    <2> QED
      BY <1>1, FirstPieces
  <1>3. Queue!Sendable(t) = IF t.opened /\ t.failure = "none" THEN T ELSE {}
    BY CallsAreCounted DEF Queue!Sendable, Before
  <1>4. ASSUME NEW p \in T, NEW q \in t.cursor, Before(q, p) PROVE q \in T
    <2>1. earlier(q) \subseteq earlier(p)
      BY <1>1, <1>4, BeforeOrders
    <2>2. earlier(p) \in SUBSET Piece
      BY <1>1
    <2> HIDE DEF earlier
    <2>3. IsFiniteSet(earlier(p)) /\ IsFiniteSet(earlier(q))
      BY <2>1, <2>2, PieceFacts, FS_Subset
    <2>4. Cardinality(earlier(q)) <= Cardinality(earlier(p))
      BY <2>1, <2>3, FS_Subset
    <2>5. Cardinality(earlier(q)) \in Nat /\ Cardinality(earlier(p)) \in Nat
      BY <2>3, FS_CardinalityType
    <2> HIDE DEF n
    <2> QED
      BY <2>4, <2>5, <1>1, <1>4
  <1>5. IsFiniteSet({}) /\ Cardinality({}) = 0
    BY FS_EmptySet
  <1>6. T \in SUBSET t.cursor
    OBVIOUS
  <1> HIDE DEF T, n
  <1>7. CASE t.opened /\ t.failure = "none"
    <2>1. Queue!Sendable(t) = T
      BY <1>3, <1>7
    <2> QED
      BY <2>1, <1>2, <1>4, <1>6, <1>7 DEF n
  <1>8. CASE ~(t.opened /\ t.failure = "none")
    <2>1. Queue!Sendable(t) = {}
      BY <1>3, <1>8
    <2>2. 0 <= Window - t.outstanding
      BY <1>1 DEF n
    <2> QED
      BY <2>1, <2>2, <1>5
  <1> QED
    BY <1>7, <1>8

LEMMA SentFacts ==
    ASSUME NEW t \in Transfer, NEW stuck, NEW S, S = Queue!Sent(t, stuck)
    PROVE  /\ S \in SUBSET t.cursor /\ S \in SUBSET Piece
           /\ IsFiniteSet(S) /\ Cardinality(S) \in Nat /\ t.outstanding + Cardinality(S) \in 0..Window
           /\ \A p \in S, q \in t.cursor \ S : Before(p, q)
           /\ S # {} \/ S # Queue!Sendable(t) => t.opened /\ t.failure = "none"
  <1> DEFINE T == Queue!Sendable(t)
  <1>0. S = {p \in T : ~\E q \in T : q[2] = 1 /\ q[1] \in stuck /\ (q = p \/ Before(q, p))}
    BY DEF Queue!Sent, Before
  <1>1. /\ T \in SUBSET t.cursor /\ IsFiniteSet(T)
        /\ Cardinality(T) <= Window - t.outstanding
        /\ \A p \in T, q \in t.cursor : Before(q, p) => q \in T
        /\ T # {} => t.opened /\ t.failure = "none"
    BY SendableFacts
  <1> HIDE DEF T
  <1>2. S \in SUBSET T /\ S \in SUBSET t.cursor /\ t.cursor \in SUBSET Piece
    BY <1>0, <1>1, TransferFacts
  <1>3. IsFiniteSet(S) /\ Cardinality(S) <= Cardinality(T)
    BY <1>1, <1>2, FS_Subset
  <1>4. Cardinality(S) \in Nat /\ Cardinality(T) \in Nat
    BY <1>1, <1>3, FS_CardinalityType
  <1>5. t.outstanding + Cardinality(S) \in 0..Window
    <2>1. t.outstanding \in Nat /\ Window \in Nat
      BY TransferFacts, TransferAssumption
    <2> QED
      BY <2>1, <1>1, <1>3, <1>4
  <1>6. ASSUME NEW p \in S, NEW q \in t.cursor \ S PROVE Before(p, q)
    <2>1. p \in Piece /\ q \in Piece /\ p # q
      BY <1>2
    <2>2. ~Before(q, p)
      <3> SUFFICES ASSUME Before(q, p) PROVE FALSE
        OBVIOUS
      <3>1. q \in T
        BY <1>1, <1>2
      <3>2. PICK r \in T : r[2] = 1 /\ r[1] \in stuck /\ (r = q \/ Before(r, q))
        BY <1>0, <3>1
      <3>3. r \in Piece
        BY <1>1, <1>2
      <3>4. Before(r, p)
        BY <3>2, <3>3, <2>1, BeforeOrders
      <3> QED
        BY <3>2, <3>4, <1>0
    <2> QED
      BY <2>1, <2>2, BeforeOrders
  <1>7. S # {} \/ S # T => T # {}
    BY <1>2
  <1> QED
    BY <1>1, <1>2, <1>3, <1>4, <1>5, <1>6, <1>7 DEF T

\* the calls for the pieces P of a transfer
CallsFor(P, d, g, n) == {[kind |-> "piece", d |-> d, piece |-> p, gen |-> g, turn |-> n] : p \in P}

LEMMA CallsForFacts ==
    ASSUME NEW P \in SUBSET Piece, IsFiniteSet(P), NEW d \in Data, NEW g \in 0..MaxLoad, NEW n \in {0, 1},
           NEW N, N = CallsFor(P, d, g, n)
    PROVE  /\ N \in SUBSET ChannelCall
           /\ \A c \in N : c.kind = "piece" /\ c.d = d /\ c.gen = g /\ c.turn = n /\ c.piece \in P
           /\ \A b, c \in N : b.piece = c.piece => b = c
           /\ PiecesIn(N) = P
           /\ IsFiniteSet(N) /\ Cardinality(N) = Cardinality(P)
  <1> DEFINE f == [p \in P |-> [kind |-> "piece", d |-> d, piece |-> p, gen |-> g, turn |-> n]]
  <1>1. \A c \in N : c \in ChannelCall
    BY DEF CallsFor, ChannelCall, Queue!ChannelCall, Piece
  <1>2. /\ \A c \in N : c.kind = "piece" /\ c.d = d /\ c.gen = g /\ c.turn = n /\ c.piece \in P
        /\ \A b, c \in N : b.piece = c.piece => b = c
    BY DEF CallsFor
  <1>3. \A p \in P : f[p] \in N /\ f[p].piece = p
    BY DEF CallsFor
  <1>4. \A c \in N : \E p \in P : c = f[p]
    BY DEF CallsFor
  <1>5. f \in [P -> N] /\ DOMAIN f = P
    BY <1>3
  <1> HIDE DEF f
  <1>6. PiecesIn(N) = P
    BY <1>2, <1>3 DEF PiecesIn
  <1>7. f \in Bijection(P, N)
    <2>1. \A p, q \in P : f[p] = f[q] => p = q
      BY <1>3
    <2> QED
      BY <2>1, <1>4, <1>5 DEF Bijection, Injection, Surjection, IsInjective
  <1>8. IsFiniteSet(N) /\ Cardinality(N) = Cardinality(P)
    BY <1>7, FS_Bijection DEF ExistsBijection
  <1> QED
    BY <1>1, <1>2, <1>6, <1>8

\* A round fills the window of a transfer none of whose calls wait for a round.
LEMMA FilledIsSound ==
    ASSUME NEW way, NEW t, NEW C, Sound(way, t, C, {}), NEW stuck, NEW d \in Data, NEW g \in 0..MaxLoad,
           NEW u, u = Queue!Filled(t, stuck),
           NEW N, N = CallsFor(Queue!Sent(t, stuck), d, g, t.turn)
    PROVE  Sound(way, u, C, N) /\ u.turn = t.turn
  <1> USE DEF Sound
  <1> DEFINE S == Queue!Sent(t, stuck)
  <1>1. t \in Transfer /\ Own(t, C, {}) /\ t.failure # "misplaced"
    BY DEF Own
  <1>2. /\ S \in SUBSET t.cursor /\ S \in SUBSET Piece
        /\ IsFiniteSet(S) /\ Cardinality(S) \in Nat /\ t.outstanding + Cardinality(S) \in 0..Window
        /\ \A p \in S, q \in t.cursor \ S : Before(p, q)
        /\ S # {} \/ S # Queue!Sendable(t) => t.opened /\ t.failure = "none"
    BY <1>1, SentFacts
  <1>3. /\ N \in SUBSET ChannelCall
        /\ \A c \in N : c.kind = "piece" /\ c.turn = t.turn /\ c.piece \in S
        /\ \A b, c \in N : b.piece = c.piece => b = c
        /\ PiecesIn(N) = S
        /\ IsFiniteSet(N) /\ Cardinality(N) = Cardinality(S)
    <2>1. t.turn \in {0, 1}
      BY <1>1, TransferFacts
    <2> QED
      BY <1>2, <2>1, CallsForFacts
  <1>4. u = [t EXCEPT !.cursor = t.cursor \ S, !.outstanding = t.outstanding + Cardinality(S),
                      !.failure = IF S # Queue!Sendable(t) THEN "retryable" ELSE t.failure]
    BY CallsAreCounted DEF Queue!Filled
  <1> HIDE DEF S
  <1>5. /\ u.cursor = t.cursor \ S /\ u.outstanding = t.outstanding + Cardinality(S)
        /\ u.failure = IF S # Queue!Sendable(t) THEN "retryable" ELSE t.failure
        /\ u.opened = t.opened /\ u.received = t.received /\ u.turn = t.turn
    BY <1>1, <1>4 DEF Transfer, Queue!Transfer
  <1>6. u \in Transfer
    <2>1. (IF S # Queue!Sendable(t) THEN "retryable" ELSE t.failure) \in Queue!Failure \cup {"none"}
      BY <1>1, TransferFacts DEF Queue!Failure
    <2>2. t.cursor \ S \in SUBSET Piece
      BY <1>1, TransferFacts
    <2> QED
      BY <1>1, <1>2, <1>4, <2>1, <2>2 DEF Transfer, Queue!Transfer, Piece
  <1>7. C \cup {} = C /\ C \in SUBSET ChannelCall /\ IsFiniteSet(C)
    BY <1>1 DEF Own
  <1>8. CASE S = {}
    <2>1. N = {}
      BY <1>3, <1>8
    <2>2. u.cursor = t.cursor /\ u.outstanding = t.outstanding
      BY <1>1, <1>5, <1>8, FS_EmptySet, TransferFacts
    <2>3. u.failure = t.failure \/ (t.opened /\ u.failure = "retryable")
      BY <1>2, <1>5
    <2>4. Own(u, C, N)
      BY <1>1, <1>5, <1>6, <2>1, <2>2 DEF Own
    <2>5. Stage(u, C, N)
      BY <1>5, <2>1, <2>2, <2>3 DEF Stage
    <2>6. Ordered(way, u, C, N)
      BY <1>5, <2>1, <2>2, <2>3 DEF Ordered
    <2> QED
      BY <1>1, <1>5, <2>3, <2>4, <2>5, <2>6
  <1>9. CASE S # {}
    <2>1. t.opened /\ t.failure = "none" /\ u.opened
      BY <1>2, <1>5, <1>9
    <2>2. /\ \A c \in C : c.kind = "piece" /\ c.piece \in Piece
          /\ \A p \in PiecesIn(C), q \in t.cursor : Before(p, q)
      BY <1>7, <2>1 DEF Stage, Ordered
    <2>3. \A b \in C, c \in N : Before(b.piece, c.piece) /\ b.piece # c.piece
      <3>1. \A b \in C, c \in N : Before(b.piece, c.piece)
        BY <1>2, <1>3, <2>2 DEF PiecesIn
      <3> QED
        BY <3>1, <2>2, <1>2, <1>3, BeforeOrders
    <2>4. C \cap N = {}
      BY <2>3
    <2>5. PieceCalls(C \cup N) = C \cup N /\ PieceCalls(C) = C
      BY <1>3, <2>2 DEF PieceCalls
    <2>6. Cardinality(C \cup N) = Cardinality(C) + Cardinality(N) /\ IsFiniteSet(C \cup N)
      <3>1. Cardinality(C \cap N) = 0 /\ Cardinality(C) \in Nat /\ Cardinality(N) \in Nat
        BY <2>4, <1>3, <1>7, FS_EmptySet, FS_CardinalityType
      <3> QED
        BY <3>1, <1>3, <1>7, FS_Union
    <2>7. u.outstanding = Cardinality(PieceCalls(C \cup N))
      <3>1. t.outstanding = Cardinality(C)
        BY <1>1, <1>7, <2>5 DEF Own
      <3> QED
        BY <3>1, <2>5, <2>6, <1>3, <1>5
    <2>8. Own(u, C, N)
      <3>1. \A c \in C \cup N : c.turn = u.turn
        BY <1>1, <1>3, <1>5 DEF Own
      <3>2. \A b, c \in C \cup N : b.piece = c.piece => b = c
        BY <1>1, <1>3, <2>3 DEF Own
      <3> QED
        BY <3>1, <3>2, <1>3, <1>6, <1>7, <2>4, <2>6, <2>7 DEF Own
    <2>9. Stage(u, C, N)
      BY <1>2, <1>3, <2>1, <2>2 DEF Stage
    <2>10. Ordered(way, u, C, N)
      <3>1. PiecesIn(C \cup N) = PiecesIn(C) \cup S
        BY <1>3 DEF PiecesIn
      <3>2. \A p \in PiecesIn(C), q \in PiecesIn(N) : Before(p, q)
        BY <1>2, <1>3, <2>2
      <3>3. \A p \in PiecesIn(C \cup N), q \in u.cursor : Before(p, q)
        BY <3>1, <1>2, <1>5, <2>2
      <3>4. PiecesIn(C \cup N) \cup u.cursor = PiecesIn(C \cup {}) \cup t.cursor
        BY <3>1, <1>2, <1>5, <1>7
      <3>5. way = "down" => InOrder(PiecesIn(C \cup {}) \cup t.cursor, t.received)
        BY <2>1 DEF Ordered
      <3> QED
        BY <3>2, <3>3, <3>4, <3>5, <1>5, <2>1 DEF Ordered
    <2> QED
      BY <1>1, <1>5, <2>8, <2>9, <2>10
  <1> QED
    BY <1>8, <1>9

-----------------------------------------------------------------------------
(* The steps of the transfers *)

InRounds == UNION {acts[t].calls : t \in Thread}

\* the parts of the invariant a step leaves alone with the variables they are about
LEMMA RunnerAside == ASSUME OneRunner, UNCHANGED <<task, acts, pump>> PROVE OneRunner'
  BY DEF OneRunner
LEMMA WaitingAside == ASSUME Waiting, UNCHANGED <<queue, active>> PROVE Waiting'
  BY DEF Waiting
LEMMA CountedAside == ASSUME Counted, UNCHANGED <<asked, linkLosses, gen, link, rgen>> PROVE Counted'
  BY DEF Counted
LEMMA FlowAside ==
    ASSUME Flow, calls' = calls, InRounds' = InRounds, UNCHANGED <<active, gen, dir>>
    PROVE  Flow'
  <1>1. \A d : InChannel(d)' = InChannel(d) /\ InRound(d)' = InRound(d)
    BY DEF InChannel, InRound, InRounds
  <1> QED
    BY <1>1 DEF Flow, Sessions, InRounds
LEMMA RoundsAside == ASSUME acts' = acts PROVE InRounds' = InRounds
  BY DEF InRounds

LEMMA NumbersTyped ==
    ASSUME Queue!TypeOK
    PROVE  /\ gen \in Nat /\ rgen \in Nat /\ linkLosses \in Nat /\ fails \in Nat
           /\ MaxLoad \in Nat /\ MaxFails \in Nat
  BY TransferAssumption DEF Queue!TypeOK

LEMMA AskedCounts ==
    ASSUME Counted
    PROVE  Cardinality(asked) \in Nat
  BY FS_CardinalityType DEF Counted

\* Everything of the queue but its variables of the owner, the retries and the link.
queueOnly == <<dir, queue, active, notes, gen, pump, task, acts, calls, turn>>

LEMMA QueueOnlyKept ==
    ASSUME TransferInv, UNCHANGED queueOnly
    PROVE  OneRunner' /\ Waiting' /\ Flow'
  BY RunnerAside, WaitingAside, FlowAside, RoundsAside DEF TransferInv, queueOnly

LEMMA ExpireKeeps == ASSUME TransferInv, NEW w \in timers, Queue!Expire(w) PROVE TransferInv'
  <1> USE DEF Queue!Expire, Queue!queueVars, Queue!pumpVars
  <1>1. UNCHANGED queueOnly
    BY DEF queueOnly
  <1>2. Counted'
    BY CountedAside DEF TransferInv
  <1>3. timers' \subseteq Queue!Timer
    BY DEF TransferInv, Queue!TypeOK, Queue!Timer
  <1>4. Queue!TypeOK'
    BY <1>3 DEF TransferInv, Queue!TypeOK, Queue!Active
  <1> QED
    BY <1>1, <1>2, <1>4, QueueOnlyKept DEF TransferInv

LEMMA FireKeeps == ASSUME TransferInv, NEW w \in timers, Queue!Fire(w) PROVE TransferInv'
  <1> USE DEF Queue!Fire, Queue!queueVars, Queue!pumpVars
  <1>1. UNCHANGED queueOnly
    BY DEF queueOnly
  <1>2. Counted'
    BY CountedAside DEF TransferInv
  <1>3. w.d \in Data /\ timers' \subseteq Queue!Timer
    BY DEF TransferInv, Queue!TypeOK, Queue!Timer
  <1>4. Queue!TypeOK'
    BY <1>3 DEF TransferInv, Queue!TypeOK, Queue!Active
  <1> QED
    BY <1>1, <1>2, <1>4, QueueOnlyKept DEF TransferInv

LEMMA DisconnectKeeps == ASSUME TransferInv, Queue!Disconnect PROVE TransferInv'
  <1> USE DEF Queue!Disconnect, Queue!queueVars, Queue!pumpVars, Queue!retryVars
  <1>1. UNCHANGED queueOnly
    BY DEF queueOnly
  <1>2. Cardinality(asked) \in Nat /\ linkLosses \in Nat /\ gen \in Nat /\ rgen \in Nat /\ MaxLoad \in Nat
    BY NumbersTyped, AskedCounts DEF TransferInv
  <1>3. Cardinality(asked) + linkLosses < MaxLoad
    BY CallsAreCounted
  <1>4. Counted'
    BY <1>2, <1>3 DEF TransferInv, Counted
  <1>5. linkLosses' \in 0..MaxLoad
    BY <1>2, <1>3
  <1>6. Queue!TypeOK'
    BY <1>5 DEF TransferInv, Queue!TypeOK, Queue!Active
  <1> QED
    BY <1>1, <1>4, <1>6, QueueOnlyKept DEF TransferInv

LEMMA CancelRetriesKeeps == ASSUME TransferInv, Queue!CancelRetries PROVE TransferInv'
  <1> USE DEF Queue!CancelRetries, Queue!queueVars, Queue!pumpVars
  <1>1. UNCHANGED queueOnly
    BY DEF queueOnly
  <1>2. Cardinality(asked) \in Nat /\ linkLosses \in Nat /\ gen \in Nat /\ rgen \in Nat /\ MaxLoad \in Nat
    BY NumbersTyped, AskedCounts DEF TransferInv
  <1>3. Counted'
    BY <1>2 DEF TransferInv, Counted
  <1>4. rgen' \in 0..MaxLoad
    BY <1>2, <1>3 DEF Counted
  <1>5. Queue!TypeOK'
    BY <1>4 DEF TransferInv, Queue!TypeOK, Queue!Active
  <1> QED
    BY <1>1, <1>3, <1>5, QueueOnlyKept DEF TransferInv

LEMMA ClearRunningKeeps == ASSUME TransferInv, Queue!ClearRunning PROVE TransferInv'
  <1> USE DEF Queue!ClearRunning, Queue!queueVars, Queue!pumpVars, Queue!retryVars
  <1>1. UNCHANGED queueOnly
    BY DEF queueOnly
  <1>2. Counted'
    BY DEF TransferInv, Counted
  <1>3. Queue!TypeOK'
    BY DEF TransferInv, Queue!TypeOK, Queue!Active
  <1> QED
    BY <1>1, <1>2, <1>3, QueueOnlyKept DEF TransferInv

LEMMA ReconnectKeeps == ASSUME TransferInv, Queue!Reconnect PROVE TransferInv'
  <1> USE DEF Queue!Reconnect, Queue!queueVars, Queue!pumpVars, Queue!retryVars
  <1>1. UNCHANGED queueOnly
    BY DEF queueOnly
  <1>2. Counted'
    BY DEF TransferInv, Counted
  <1>3. Queue!TypeOK'
    BY DEF TransferInv, Queue!TypeOK, Queue!Active
  <1> QED
    BY <1>1, <1>2, <1>3, QueueOnlyKept DEF TransferInv

LEMMA ResetKeeps == ASSUME TransferInv, Queue!Reset PROVE TransferInv'
  <1> USE DEF Queue!Reset, Queue!Forget, Queue!pumpVars, Queue!retryVars
  <1>1. Cardinality(asked) \in Nat /\ linkLosses \in Nat /\ gen \in Nat /\ rgen \in Nat /\ MaxLoad \in Nat
    BY NumbersTyped, AskedCounts DEF TransferInv
  <1>2. Counted'
    BY <1>1 DEF TransferInv, Counted
  <1>3. gen' \in 0..MaxLoad
    BY <1>1, <1>2 DEF Counted
  <1>4. DOMAIN active' = {} /\ active' = [d \in {} |-> <<>>]
    BY DEF Queue!NoTransfers
  <1>5. IsFiniteSet({}) /\ Cardinality({}) = 0 /\ 0 <= MaxDatas
    BY FS_EmptySet, TransferAssumption
  <1>6. Queue!TypeOK'
    <2>1. Queue!Active' = {} /\ active' \in [Queue!Active' -> Queue!Transfer]
      BY <1>4 DEF Queue!Active
    <2>2. Queue!Cardinality(Queue!Active') <= MaxDatas
      BY <2>1, <1>5, CallsAreCounted
    <2>3. queue' \in Seq(Data) /\ notes' \in Seq(Queue!DoneNote)
      BY EmptySeq
    <2> QED
      BY <2>1, <2>2, <2>3, <1>3 DEF TransferInv, Queue!TypeOK
  <1>7. OneRunner'
    BY RunnerAside DEF TransferInv
  <1>8. Waiting'
    BY <1>4, <1>5, EmptySeq DEF Waiting
  <1>9. Flow'
    <2>1. \A c \in calls \cup InRounds : c.gen <= gen
      BY DEF TransferInv, Flow, Sessions, InRounds
    <2>2. \A c \in calls \cup InRounds : c.gen \in Nat
      BY TransferAssumption DEF TransferInv, Queue!TypeOK, Queue!ChannelCall, InRounds
    <2>3. \A c \in calls \cup InRounds : c.gen <= gen' /\ c.gen # gen'
      BY <2>1, <2>2, <1>1
    <2>4. calls' = calls /\ InRounds' = InRounds
      BY RoundsAside
    <2> QED
      BY <2>3, <2>4, <1>4 DEF Flow, Sessions, InRounds
  <1> QED
    BY <1>2, <1>6, <1>7, <1>8, <1>9 DEF TransferInv

\* A data is put into the queue unless it is there or on its way.
LEMMA EnqueueKeeps ==
    ASSUME TransferInv, NEW d \in Data, Queue!Enqueue(d), active' = active
    PROVE  Waiting' /\ queue' \in Seq(Data) /\ posted' \in BOOLEAN
  <1>1. queue \in Seq(Data) /\ posted \in BOOLEAN /\ Waiting
    BY DEF TransferInv, Queue!TypeOK
  <1>2. CASE d \in Queue!Active \/ \E i \in DOMAIN queue : queue[i] = d
    <2>1. queue' = queue /\ posted' = posted
      BY <1>2 DEF Queue!Enqueue
    <2> QED
      BY <1>1, <2>1, WaitingAside
  <1>3. CASE ~(d \in Queue!Active \/ \E i \in DOMAIN queue : queue[i] = d)
    <2>1. queue' = Append(queue, d) /\ posted' = TRUE
      BY <1>3 DEF Queue!Enqueue
    <2>2. Append(queue, d) \in Seq(Data) /\ Len(Append(queue, d)) = Len(queue) + 1 /\ Len(queue) \in Nat
      BY <1>1, AppendProperties, LenProperties
    <2>3. /\ \A i \in 1..Len(queue) : Append(queue, d)[i] = queue[i]
          /\ Append(queue, d)[Len(queue) + 1] = d
      BY <1>1, AppendProperties
    <2>4. d \notin DOMAIN active /\ \A i \in 1..Len(queue) : queue[i] # d
      BY <1>1, <1>3, LenProperties DEF Queue!Active
    <2>5. Waiting'
      <3>1. \A i, j \in 1..(Len(queue) + 1) : queue'[i] = queue'[j] => i = j
        BY <1>1, <2>1, <2>2, <2>3, <2>4 DEF Waiting
      <3>2. \A i \in 1..(Len(queue) + 1) : queue'[i] \notin DOMAIN active
        BY <1>1, <2>1, <2>2, <2>3, <2>4 DEF Waiting
      <3> QED
        BY <3>1, <3>2, <1>1, <2>1, <2>2 DEF Waiting
    <2> QED
      BY <2>1, <2>2, <2>5
  <1> QED
    BY <1>2, <1>3

LEMMA RetryKeeps == ASSUME TransferInv, NEW d \in Data, Queue!Retry(d) PROVE TransferInv'
  <1> USE DEF Queue!Retry
  <1>1. Waiting' /\ queue' \in Seq(Data) /\ posted' \in BOOLEAN
    BY EnqueueKeeps
  <1>2. Counted' /\ OneRunner' /\ Flow'
    BY CountedAside, RunnerAside, FlowAside, RoundsAside DEF TransferInv
  <1>3. Queue!TypeOK'
    BY <1>1 DEF TransferInv, Queue!TypeOK, Queue!Active
  <1> QED
    BY <1>1, <1>2, <1>3 DEF TransferInv

LEMMA AskKeeps == ASSUME TransferInv, NEW d \in Data, Queue!Ask(d) PROVE TransferInv'
  <1> USE DEF Queue!Ask, Queue!retryVars
  <1>1. Waiting' /\ queue' \in Seq(Data) /\ posted' \in BOOLEAN
    BY EnqueueKeeps
  <1>2. OneRunner' /\ Flow'
    BY RunnerAside, FlowAside, RoundsAside DEF TransferInv
  <1>3. IsFiniteSet(asked \cup {d})
    BY FS_AddElement DEF TransferInv, Counted
  <1>4. Counted'
    BY <1>3, CallsAreCounted DEF TransferInv, Counted
  <1>5. Queue!TypeOK'
    BY <1>1 DEF TransferInv, Queue!TypeOK, Queue!Active
  <1> QED
    BY <1>1, <1>2, <1>4, <1>5 DEF TransferInv

\* Only the runner has actions left.
LEMMA RoundsOfRunner ==
    ASSUME OneRunner, NEW t \in Thread, task[t] # "idle"
    PROVE  InRounds = acts[t].calls
  <1>1. \A u \in Thread : u # t => acts[u].calls = {}
    BY DEF OneRunner, Queue!NoActions
  <1> QED
    BY <1>1 DEF InRounds

LEMMA RunCallsKeeps == ASSUME TransferInv, NEW t \in Thread, Queue!RunCalls(t) PROVE TransferInv'
  <1> USE DEF Queue!RunCalls, Queue!queueVars, Queue!retryVars
  <1>1. /\ acts \in [Thread -> [calls : SUBSET Queue!ChannelCall, dones : Seq(Queue!DoneNote)]]
        /\ calls \subseteq Queue!ChannelCall
    BY DEF TransferInv, Queue!TypeOK
  <1>2. /\ acts' \in [Thread -> [calls : SUBSET Queue!ChannelCall, dones : Seq(Queue!DoneNote)]]
        /\ calls' \subseteq Queue!ChannelCall
    BY <1>1
  <1>3. /\ acts'[t].calls = {} /\ acts'[t].dones = acts[t].dones
        /\ \A u \in Thread : u # t => acts'[u] = acts[u]
    BY <1>1
  <1>4. OneRunner'
    BY <1>1, <1>3 DEF TransferInv, OneRunner
  <1>5. InRounds = acts[t].calls
    BY RoundsOfRunner DEF TransferInv
  <1>6. InRounds' = {} /\ calls' = calls \cup InRounds
    <2>1. \A u \in Thread : acts'[u].calls = {}
      BY <1>3 DEF TransferInv, OneRunner, Queue!NoActions
    <2> QED
      BY <2>1, <1>5 DEF InRounds
  <1>7. Flow'
    <2>1. \A d : InChannel(d)' = InChannel(d) \cup InRound(d) /\ InRound(d)' = {}
      BY <1>6 DEF InChannel, InRound, InRounds
    <2>2. \A d \in DOMAIN active : Sound(dir, active[d], InChannel(d) \cup InRound(d), {})
      BY PostedIsSound DEF TransferInv, Flow
    <2>3. Sessions'
      BY <1>6 DEF TransferInv, Flow, Sessions, InRounds
    <2> QED
      BY <2>1, <2>2, <2>3 DEF Flow
  <1>8. Waiting' /\ Counted'
    BY WaitingAside, CountedAside DEF TransferInv
  <1>9. Queue!TypeOK'
    BY <1>2 DEF TransferInv, Queue!TypeOK, Queue!Active
  <1> QED
    BY <1>4, <1>7, <1>8, <1>9 DEF TransferInv

LEMMA RunDoneKeeps == ASSUME TransferInv, NEW t \in Thread, Queue!RunDone(t) PROVE TransferInv'
  <1> USE DEF Queue!RunDone, Queue!queueVars, Queue!retryVars
  <1>1. task \in [Thread -> {"idle", "run", "done_up", "done_down"}]
    BY DEF TransferInv, Queue!TypeOK
  <1>2. task' \in [Thread -> {"idle", "run", "done_up", "done_down"}]
    BY <1>1
  <1>3. task'[t] \in {"done_up", "done_down"} /\ \A u \in Thread : u # t => task'[u] = task[u]
    BY <1>1
  <1>4. OneRunner'
    BY <1>1, <1>3 DEF TransferInv, OneRunner
  <1>5. Waiting' /\ Counted' /\ Flow'
    BY WaitingAside, CountedAside, FlowAside, RoundsAside DEF TransferInv
  <1>6. Queue!TypeOK'
    BY <1>2 DEF TransferInv, Queue!TypeOK, Queue!Active
  <1> QED
    BY <1>4, <1>5, <1>6 DEF TransferInv

LEMMA FinishDoneKeeps == ASSUME TransferInv, NEW t \in Thread, Queue!FinishDone(t) PROVE TransferInv'
  <1> USE DEF Queue!FinishDone, Queue!queueVars
  <1>1. /\ acts \in [Thread -> [calls : SUBSET Queue!ChannelCall, dones : Seq(Queue!DoneNote)]]
        /\ task \in [Thread -> {"idle", "run", "done_up", "done_down"}]
        /\ timers \subseteq Queue!Timer /\ waits \subseteq Data /\ running \subseteq Data /\ rgen \in 0..MaxLoad
    BY DEF TransferInv, Queue!TypeOK
  <1>2. acts[t].dones \in Seq(Queue!DoneNote) /\ acts[t].dones # <<>>
    BY <1>1 DEF TransferInv, OneRunner
  <1>3. Head(acts[t].dones) \in Queue!DoneNote /\ Tail(acts[t].dones) \in Seq(Queue!DoneNote)
    BY <1>2, HeadTailProperties
  <1>4. /\ acts' \in [Thread -> [calls : SUBSET Queue!ChannelCall, dones : Seq(Queue!DoneNote)]]
        /\ task' \in [Thread -> {"idle", "run", "done_up", "done_down"}]
    BY <1>1, <1>3
  <1>5. /\ acts'[t].calls = acts[t].calls /\ task'[t] = "run"
        /\ \A u \in Thread : u # t => acts'[u] = acts[u] /\ task'[u] = task[u]
    BY <1>1
  <1>6. OneRunner'
    BY <1>1, <1>5 DEF TransferInv, OneRunner
  <1>7. InRounds' = InRounds
    BY <1>5 DEF InRounds
  <1>8. Waiting' /\ Counted' /\ Flow'
    BY <1>7, WaitingAside, CountedAside, FlowAside DEF TransferInv
  <1>9. timers' \subseteq Queue!Timer /\ waits' \subseteq Data /\ running' \subseteq Data
    <2>1. Head(acts[t].dones).d \in Data
      BY <1>3 DEF Queue!DoneNote
    <2>2. CASE Queue!Schedule(Head(acts[t].dones).d) /\ UNCHANGED running
      <3>1. [d |-> Head(acts[t].dones).d, gen |-> rgen, expired |-> FALSE] \in Queue!Timer
        BY <1>1, <2>1 DEF Queue!Timer
      <3> HIDE DEF Queue!FinishDone
      <3> QED
        BY <1>1, <2>1, <2>2, <3>1 DEF Queue!Schedule
    <2>3. CASE Queue!ForgetWait(Head(acts[t].dones).d) /\ running' = running \ {Head(acts[t].dones).d}
      BY <1>1, <2>1, <2>3 DEF Queue!ForgetWait
    <2>4. \/ Queue!Schedule(Head(acts[t].dones).d) /\ UNCHANGED running
          \/ Queue!ForgetWait(Head(acts[t].dones).d) /\ running' = running \ {Head(acts[t].dones).d}
      BY Zenon
    <2> QED
      BY <2>2, <2>3, <2>4
  <1>10. Queue!TypeOK'
    BY <1>4, <1>9 DEF TransferInv, Queue!TypeOK, Queue!Active
  <1> QED
    BY <1>6, <1>8, <1>10 DEF TransferInv

\* An answer takes its call out of the channel.
LEMMA AnsweredCalls ==
    ASSUME TransferInv, NEW c \in calls, calls' = calls \ {c}, UNCHANGED <<dir, gen, acts>>
    PROVE  /\ \A d : d # c.d \/ c.gen # gen => InChannel(d)' = InChannel(d)
           /\ c.gen = gen => InChannel(c.d)' = InChannel(c.d) \ {c}
           /\ \A d : InRound(d)' = InRound(d)
           /\ c.gen = gen => c \in InChannel(c.d)
           /\ calls' \subseteq Queue!ChannelCall /\ c \in Queue!ChannelCall /\ InRounds' = InRounds
  <1>1. calls \subseteq Queue!ChannelCall
    BY DEF TransferInv, Queue!TypeOK
  <1>2. /\ \A d : d # c.d \/ c.gen # gen => InChannel(d)' = InChannel(d)
        /\ c.gen = gen => InChannel(c.d)' = InChannel(c.d) \ {c}
        /\ c.gen = gen => c \in InChannel(c.d)
    BY DEF InChannel
  <1>3. InRounds' = InRounds /\ \A d : InRound(d)' = InRound(d)
    BY DEF InRound, InRounds
  <1> QED
    BY <1>1, <1>2, <1>3

LEMMA LateKeeps == ASSUME TransferInv, NEW c \in calls, Queue!Late(c) PROVE TransferInv'
  <1> USE DEF Queue!Late, Queue!Answered, Queue!retryVars
  <1>1. calls' = calls \ {c} /\ UNCHANGED <<dir, gen, acts, active>>
    OBVIOUS
  <1>2. c.gen # gen
    BY DEF TransferInv, Flow, Sessions, Queue!Expected, Queue!Active
  <1>3. /\ \A d : InChannel(d)' = InChannel(d) /\ InRound(d)' = InRound(d)
        /\ calls' \subseteq Queue!ChannelCall /\ InRounds' = InRounds
    BY <1>1, <1>2, AnsweredCalls
  <1>4. Flow'
    BY <1>1, <1>3 DEF TransferInv, Flow, Sessions, InRounds
  <1>5. OneRunner' /\ Waiting' /\ Counted'
    BY RunnerAside, WaitingAside, CountedAside DEF TransferInv
  <1>6. Queue!TypeOK'
    BY <1>3 DEF TransferInv, Queue!TypeOK, Queue!Active
  <1> QED
    BY <1>4, <1>5, <1>6 DEF TransferInv

\* An answer that is expected leaves its transfer in order, or ends it.
LEMMA SettleKeeps ==
    ASSUME TransferInv, NEW c \in calls, Queue!Answered(c), Queue!Expected(c),
           NEW u, Settled(dir, u, InChannel(c.d) \ {c}, InRound(c.d)), Queue!Settle(c.d, u),
           fails' \in 0..MaxFails
    PROVE  TransferInv'
  <1> USE DEF Queue!Answered, Queue!retryVars
  <1> DEFINE x == c.d
  <1>1. calls' = calls \ {c} /\ UNCHANGED <<dir, gen, acts, queue>> /\ c.gen = gen /\ x \in DOMAIN active
    BY DEF Queue!Expected, Queue!Active
  <1>2. /\ \A d : d # x => InChannel(d)' = InChannel(d)
        /\ InChannel(x)' = InChannel(x) \ {c}
        /\ \A d : InRound(d)' = InRound(d)
        /\ calls' \subseteq Queue!ChannelCall /\ c \in Queue!ChannelCall /\ InRounds' = InRounds
    BY <1>1, AnsweredCalls
  <1>3. /\ active \in [DOMAIN active -> Queue!Transfer] /\ DOMAIN active \subseteq Data
        /\ Cardinality(DOMAIN active) <= MaxDatas /\ IsFiniteSet(DOMAIN active)
        /\ notes \in Seq(Queue!DoneNote)
    BY CallsAreCounted DEF TransferInv, Waiting, Queue!TypeOK, Queue!Active
  <1>4. x \in Data /\ u \in Queue!Transfer
    BY <1>1, <1>3 DEF Settled, Transfer
  <1>5. OneRunner' /\ Counted'
    BY RunnerAside, CountedAside DEF TransferInv
  <1>6. \A b \in calls' \cup InRounds' : (b \in calls /\ b # c) \/ b \in InRounds
    BY <1>1, <1>2
  <1> HIDE DEF x
  <1>7. CASE Queue!Done(u)
    <2>1. active' = [d \in DOMAIN active \ {x} |-> active[d]] /\ notes' = Append(notes, Queue!Note(x, Queue!Outcome(u)))
      BY <1>7 DEF Queue!Settle, Queue!Without, Queue!Active, x
    <2>2. DOMAIN active' = DOMAIN active \ {x} /\ \A d \in DOMAIN active' : active'[d] = active[d]
      BY <2>1
    <2>3. /\ IsFiniteSet(DOMAIN active') /\ Cardinality(DOMAIN active') <= MaxDatas
          /\ active' \in [DOMAIN active' -> Queue!Transfer] /\ DOMAIN active' \subseteq Data
      <3>1. IsFiniteSet(DOMAIN active \ {x}) /\ Cardinality(DOMAIN active \ {x}) <= Cardinality(DOMAIN active)
        BY <1>3, FS_Subset
      <3>2. Cardinality(DOMAIN active \ {x}) \in Nat /\ Cardinality(DOMAIN active) \in Nat /\ MaxDatas \in Nat
        BY <3>1, <1>3, FS_CardinalityType, TransferAssumption
      <3>3. Cardinality(DOMAIN active \ {x}) <= MaxDatas
        BY <3>1, <3>2, <1>3
      <3> QED
        BY <3>1, <3>3, <2>1, <2>2, <1>3
    <2>4. notes' \in Seq(Queue!DoneNote)
      <3>1. Queue!Outcome(u) \in Queue!Failure \cup {"none"}
        BY <1>4, TransferFacts DEF Queue!Outcome, Transfer, Queue!Failure
      <3>2. Queue!Note(x, Queue!Outcome(u)) \in Queue!DoneNote
        BY <3>1, <1>4 DEF Queue!Note, Queue!DoneNote
      <3> QED
        BY <3>2, <2>1, <1>3, AppendProperties
    <2>5. Waiting'
      BY <2>2, <2>3, <1>1 DEF TransferInv, Waiting
    <2>6. Flow'
      <3>1. InChannel(x)' \cup InRound(x)' = {}
        BY <1>2, <1>7 DEF Settled, x
      <3>2. \A b \in calls' \cup InRounds' : b.gen <= gen /\ (b.gen = gen => b.d \in DOMAIN active)
        BY <1>6, <1>1 DEF TransferInv, Flow, Sessions, InRounds
      <3>3. \A b \in calls' \cup InRounds' : b.gen = gen => b.d # x
        BY <3>1, <1>1, <1>2 DEF InChannel, InRound, InRounds
      <3>4. Sessions'
        BY <3>2, <3>3, <2>2, <1>1 DEF Sessions, InRounds
      <3>5. \A d \in DOMAIN active' : Sound(dir, active'[d], InChannel(d)', InRound(d)')
        BY <2>2, <1>2 DEF TransferInv, Flow
      <3> QED
        BY <3>4, <3>5, <1>1 DEF Flow
    <2>7. Queue!TypeOK'
      BY <1>2, <2>3, <2>4, CallsAreCounted DEF TransferInv, Queue!TypeOK, Queue!Active
    <2> QED
      BY <1>5, <2>5, <2>6, <2>7 DEF TransferInv
  <1>8. CASE ~Queue!Done(u)
    <2>1. active' = [active EXCEPT ![x] = u] /\ notes' = notes
      BY <1>8 DEF Queue!Settle, x
    <2>2. DOMAIN active' = DOMAIN active /\ active'[x] = u /\ \A d \in DOMAIN active : d # x => active'[d] = active[d]
      BY <2>1, <1>1, <1>3 DEF x
    <2>3. active' \in [DOMAIN active' -> Queue!Transfer]
      BY <2>1, <2>2, <1>3, <1>4
    <2>4. Waiting'
      BY <2>2, <1>1 DEF TransferInv, Waiting
    <2>5. Flow'
      <3>1. Sessions'
        BY <1>1, <1>2, <2>2 DEF TransferInv, Flow, Sessions, InRounds
      <3>2. Sound(dir, u, InChannel(x)', InRound(x)')
        BY <1>2, <1>8 DEF Settled, x
      <3>3. \A d \in DOMAIN active : d # x => Sound(dir, active'[d], InChannel(d)', InRound(d)')
        BY <2>2, <1>2 DEF TransferInv, Flow
      <3> QED
        BY <3>1, <3>2, <3>3, <2>2, <1>1 DEF Flow
    <2>6. Queue!TypeOK'
      BY <1>2, <2>1, <2>2, <2>3 DEF TransferInv, Queue!TypeOK, Queue!Active
    <2> QED
      BY <1>5, <2>4, <2>5, <2>6 DEF TransferInv
  <1> QED
    BY <1>7, <1>8

\* what an expected answer finds
LEMMA ExpectedIsSound ==
    ASSUME TransferInv, NEW c \in calls, Queue!Expected(c)
    PROVE  /\ Sound(dir, active[c.d], InChannel(c.d), InRound(c.d)) /\ c \in InChannel(c.d)
           /\ fails \in 0..MaxFails /\ dir \in {"up", "down"}
  <1>1. c.d \in DOMAIN active /\ c.gen = gen
    BY DEF Queue!Expected, Queue!Active
  <1>2. Sound(dir, active[c.d], InChannel(c.d), InRound(c.d))
    BY <1>1 DEF TransferInv, Flow
  <1>3. c \in InChannel(c.d)
    BY <1>1 DEF InChannel
  <1> QED
    BY <1>2, <1>3 DEF TransferInv, Queue!TypeOK

LEMMA OpenedKeeps == ASSUME TransferInv, NEW c \in calls, Queue!Opened(c) PROVE TransferInv'
  <1>1. PICK chunks \in SUBSET (1..Chunks), incomplete \in (IF dir = "down" THEN BOOLEAN ELSE {FALSE}) :
            Queue!Settle(c.d, [active[c.d] EXCEPT !.opened = TRUE, !.cursor = Queue!PiecesOf(chunks),
                                                  !.incomplete = incomplete])
    BY DEF Queue!Opened
  <1>2. Queue!Answered(c) /\ Queue!Expected(c) /\ c.kind = "open" /\ fails' = fails
    BY DEF Queue!Opened
  <1>3. incomplete \in BOOLEAN
    OBVIOUS
  <1>4. PICK u : u = [active[c.d] EXCEPT !.opened = TRUE, !.cursor = Queue!PiecesOf(chunks), !.incomplete = incomplete]
    OBVIOUS
  <1>5. Settled(dir, u, InChannel(c.d) \ {c}, InRound(c.d))
    BY <1>2, <1>3, <1>4, ExpectedIsSound, OpenedIsSettled
  <1> QED
    BY <1>1, <1>2, <1>4, <1>5, ExpectedIsSound, SettleKeeps

LEMMA PieceAnsweredKeeps == ASSUME TransferInv, NEW c \in calls, Queue!PieceAnswered(c) PROVE TransferInv'
  <1> DEFINE t == active[c.d]
  <1>1. Queue!Answered(c) /\ Queue!Expected(c) /\ c.kind = "piece" /\ fails' = fails
    BY DEF Queue!PieceAnswered
  <1>2. PICK u : u = [t EXCEPT !.outstanding = @ - 1]
    OBVIOUS
  <1>3. Sound(dir, t, InChannel(c.d), InRound(c.d)) /\ c \in InChannel(c.d) /\ dir \in {"up", "down"} /\ fails \in 0..MaxFails
    BY <1>1, ExpectedIsSound
  <1>4. t \in Transfer /\ u.failure = t.failure /\ u.received = t.received
    BY <1>2, <1>3 DEF Sound, Own, Transfer, Queue!Transfer
  <1>5. PICK v : v = IF t.failure # "none" \/ dir = "up" THEN u
                     ELSE IF c.piece[2] = t.received + 1
                     THEN [u EXCEPT !.received = IF c.piece[2] = Pieces THEN 0 ELSE c.piece[2]]
                     ELSE [u EXCEPT !.failure = "misplaced"]
    OBVIOUS
  <1>6. v = IF u.failure = "none" THEN Queue!TakePiece(u, c.piece) ELSE u
    BY <1>4, <1>5 DEF Queue!TakePiece
  <1>7. \A b \in InChannel(c.d) : b.kind = "piece" => ~Before(b.piece, c.piece)
    <2>1. \A b \in InChannel(c.d) : b \in calls /\ b.d = c.d /\ b.gen = c.gen /\ b.turn = c.turn
      BY <1>1, <1>3 DEF InChannel, Queue!Expected, Sound, Own
    <2> QED
      BY <2>1, <1>1 DEF Queue!Answered, Queue!InTurn, Before
  <1>8. Settled(dir, v, InChannel(c.d) \ {c}, InRound(c.d))
    BY <1>1, <1>2, <1>3, <1>5, <1>7, PieceIsSettled
  <1>9. Queue!Settle(c.d, v)
    BY <1>2, <1>6 DEF Queue!PieceAnswered
  <1> QED
    BY <1>1, <1>3, <1>8, <1>9, SettleKeeps

LEMMA FailedKeeps == ASSUME TransferInv, NEW c \in calls, Queue!Failed(c) PROVE TransferInv'
  <1>1. Queue!Answered(c) /\ Queue!Expected(c)
    BY DEF Queue!Failed
  <1>2. fails' \in 0..MaxFails
    BY <1>1, ExpectedIsSound, TransferAssumption DEF Queue!Failed
  <1>3. PICK err \in {"retryable", "final"} :
            Queue!Settle(c.d, [active[c.d] EXCEPT !.outstanding = IF c.kind = "piece" THEN @ - 1 ELSE @,
                                                  !.failure = IF @ = "none" THEN err ELSE @])
    BY DEF Queue!Failed
  <1>4. PICK u : u = [active[c.d] EXCEPT !.outstanding = IF c.kind = "piece" THEN @ - 1 ELSE @,
                                         !.failure = IF @ = "none" THEN err ELSE @]
    OBVIOUS
  <1>5. Settled(dir, u, InChannel(c.d) \ {c}, InRound(c.d))
    BY <1>1, <1>4, ExpectedIsSound, FailedIsSettled
  <1> QED
    BY <1>1, <1>2, <1>3, <1>4, <1>5, SettleKeeps

-----------------------------------------------------------------------------
(* A round of the queue *)

Started(n, out) == {queue[i] : i \in 1..n} \ out
Begun(S) == [d \in DOMAIN active \cup S |-> IF d \in S THEN Queue!NewTransfer(1 - turn[d]) ELSE active[d]]
StopAt(stuck, d) == IF d \in DOMAIN active THEN stuck[d] ELSE {}
Refilled(S, stuck) == [d \in DOMAIN Begun(S) |-> Queue!Filled(Begun(S)[d], StopAt(stuck, d))]
Over(S, stuck) == {d \in DOMAIN Begun(S) : Queue!Done(Refilled(S, stuck)[d])}
Opens(S) == {Queue!Call("open", d, Queue!NoPiece, 1 - turn[d]) : d \in S}
Sends(S, stuck) ==
    UNION {{Queue!Call("piece", d, p, Begun(S)[d].turn) : p \in Queue!Sent(Begun(S)[d], StopAt(stuck, d))} :
           d \in DOMAIN Begun(S)}

\* what a round makes of the data S it starts
RoundLeaves(t, n, out, stuck, S) ==
    /\ fails' = fails + Cardinality(out) + Cardinality({d \in DOMAIN active : stuck[d] # {}})
    /\ fails' <= MaxFails
    /\ queue' = SubSeq(queue, n + 1, Len(queue))
    /\ active' = [d \in DOMAIN Begun(S) \ Over(S, stuck) |-> Refilled(S, stuck)[d]]
    /\ turn' = [d \in Data |-> IF d \in S THEN 1 - turn[d] ELSE turn[d]]
    /\ \E refused \in Queue!SetToSeqs({Queue!Note(d, "final") : d \in out}),
          ends \in Queue!SetToSeqs({Queue!Note(d, Queue!Outcome(Refilled(S, stuck)[d])) : d \in Over(S, stuck)}) :
          acts' = [acts EXCEPT ![t] = [calls |-> Opens(S) \cup Sends(S, stuck),
                                       dones |-> notes \o refused \o ends]]
    /\ notes' = <<>>

LEMMA RoundDetails ==
    ASSUME NEW t \in Thread, NEW n, NEW out, NEW stuck, Queue!Round(t, n, out, stuck)
    PROVE  RoundLeaves(t, n, out, stuck, Started(n, out))
  <1> DEFINE S == Started(n, out)
  <1> USE DEF Queue!Round, Started, Queue!Active
  <1>1. /\ fails' = fails + Queue!Cardinality(out) + Queue!Cardinality({d \in DOMAIN active : stuck[d] # {}})
        /\ fails' <= MaxFails
        /\ queue' = SubSeq(queue, n + 1, Len(queue))
        /\ turn' = [d \in Data |-> IF d \in S THEN 1 - turn[d] ELSE turn[d]]
        /\ notes' = <<>>
    BY Zenon
  <1>2. active' = [d \in DOMAIN Begun(S) \ Over(S, stuck) |-> Refilled(S, stuck)[d]]
    BY Zenon DEF Begun, StopAt, Refilled, Over
  <1>3. \E refused \in Queue!SetToSeqs({Queue!Note(d, "final") : d \in out}),
           ends \in Queue!SetToSeqs({Queue!Note(d, Queue!Outcome(Refilled(S, stuck)[d])) : d \in Over(S, stuck)}) :
           acts' = [acts EXCEPT ![t] = [calls |-> Opens(S) \cup Sends(S, stuck),
                                        dones |-> notes \o refused \o ends]]
    BY Zenon DEF Begun, StopAt, Refilled, Over, Opens, Sends
  <1> HIDE DEF Queue!Round
  <1> QED
    BY <1>1, <1>2, <1>3, CallsAreCounted DEF RoundLeaves

\* Data are started that were waiting, as many as there is room for.
LEMMA StartedFacts ==
    ASSUME TransferInv, NEW n \in 0..Len(queue), NEW out, Queue!Taken(n, out)
    PROVE  /\ Started(n, out) \in SUBSET Data /\ Started(n, out) \cap DOMAIN active = {}
           /\ IsFiniteSet(DOMAIN active \cup Started(n, out))
           /\ Cardinality(DOMAIN active \cup Started(n, out)) <= MaxDatas
           /\ \A i \in (n + 1)..Len(queue) : queue[i] \notin Started(n, out)
  <1> DEFINE I(k) == {i \in 1..k : queue[i] \notin out}
             S == Started(n, out)
             A == DOMAIN active
  <1>1. /\ queue \in Seq(Data) /\ Len(queue) \in Nat /\ n \in Nat
        /\ \A i \in 1..Len(queue) : queue[i] \in Data
    BY LenProperties, ElementOfSeq DEF TransferInv, Queue!TypeOK
  <1>2. /\ IsFiniteSet(A) /\ Cardinality(A) \in Nat /\ Cardinality(A) <= MaxDatas /\ MaxDatas \in Nat
    BY CallsAreCounted, FS_CardinalityType, TransferAssumption DEF TransferInv, Waiting, Queue!TypeOK, Queue!Active
  <1>3. S \in SUBSET Data /\ S \cap A = {} /\ \A i \in (n + 1)..Len(queue) : queue[i] \notin S
    BY <1>1 DEF TransferInv, Waiting, Started
  <1>4. \A k \in Nat : IsFiniteSet(I(k)) /\ Cardinality(I(k)) \in Nat
    <2> SUFFICES ASSUME NEW k \in Nat PROVE IsFiniteSet(I(k)) /\ Cardinality(I(k)) \in Nat
      OBVIOUS
    <2>1. IsFiniteSet(1..k) /\ I(k) \in SUBSET (1..k)
      BY FS_Interval
    <2> HIDE DEF I
    <2> QED
      BY <2>1, FS_Subset, FS_CardinalityType
  <1>5. IsFiniteSet(S) /\ Cardinality(S) \in Nat /\ Cardinality(S) <= Cardinality(I(n))
    <2> DEFINE f == [i \in I(n) |-> queue[i]]
    <2>1. f \in Surjection(I(n), S)
      BY DEF Surjection, Started
    <2> HIDE DEF f, S, I
    <2> QED
      BY <2>1, <1>1, <1>4, FS_Surjection, FS_CardinalityType
  <1>6. Cardinality(A) + Cardinality(S) <= MaxDatas
    <2>1. CASE n = 0
      <3>1. I(n) = {}
        BY <2>1
      <3>2. Cardinality(I(n)) = 0
        BY <3>1, FS_EmptySet
      <3> HIDE DEF I, S, A
      <3> QED
        BY <3>2, <1>2, <1>5
    <2>2. CASE n # 0
      <3>1. Queue!Cardinality(A) + Queue!Cardinality(I(n - 1)) < MaxDatas
        BY <2>2 DEF Queue!Taken, Queue!Room, Queue!Active
      <3>2. Cardinality(A) + Cardinality(I(n - 1)) < MaxDatas
        BY <3>1, CallsAreCounted
      <3>3. I(n) \subseteq I(n - 1) \cup {n} /\ n - 1 \in Nat
        BY <1>1, <2>2
      <3> HIDE DEF I, S, A
      <3>4. Cardinality(I(n)) <= Cardinality(I(n - 1) \cup {n})
        BY <3>3, <1>4, FS_AddElement, FS_Subset
      <3>5. Cardinality(I(n - 1) \cup {n}) <= Cardinality(I(n - 1)) + 1
        <4>1. IsFiniteSet(I(n - 1)) /\ Cardinality(I(n - 1)) \in Nat
          BY <3>3, <1>4
        <4>2. Cardinality(I(n - 1) \cup {n}) = IF n \in I(n - 1) THEN Cardinality(I(n - 1)) ELSE Cardinality(I(n - 1)) + 1
          BY <4>1, FS_AddElement
        <4> QED
          BY <4>1, <4>2
      <3>6. Cardinality(I(n - 1) \cup {n}) \in Nat
        BY <3>3, <1>4, FS_AddElement, FS_CardinalityType
      <3> QED
        BY <3>2, <3>3, <3>4, <3>5, <3>6, <1>1, <1>2, <1>4, <1>5
    <2> QED
      BY <2>1, <2>2
  <1> HIDE DEF S, A, I
  <1>7. IsFiniteSet(A \cup S) /\ Cardinality(A \cup S) <= MaxDatas
    <2>1. IsFiniteSet(A \cap S) /\ Cardinality(A \cap S) = 0
      BY <1>3, FS_EmptySet
    <2>2. IsFiniteSet(A \cup S) /\ Cardinality(A \cup S) = Cardinality(A) + Cardinality(S) - Cardinality(A \cap S)
      BY <1>2, <1>5, FS_Union
    <2> QED
      BY <2>1, <2>2, <1>2, <1>5, <1>6
  <1> QED
    BY <1>3, <1>7 DEF S, A

RoundOf(S, stuck, d) == {c \in Opens(S) \cup Sends(S, stuck) : c.d = d}

\* the calls a round makes for a data that is on its way, and for one that is started
LEMMA RoundOfActive ==
    ASSUME NEW S, S \cap DOMAIN active = {}, NEW stuck, NEW d \in DOMAIN active
    PROVE  /\ RoundOf(S, stuck, d) = CallsFor(Queue!Sent(active[d], stuck[d]), d, gen, active[d].turn)
           /\ Refilled(S, stuck)[d] = Queue!Filled(active[d], stuck[d])
  <1>1. d \notin S /\ Begun(S)[d] = active[d] /\ DOMAIN Begun(S) = DOMAIN active \cup S /\ StopAt(stuck, d) = stuck[d]
    BY DEF Begun, StopAt
  <1>2. Refilled(S, stuck)[d] = Queue!Filled(active[d], stuck[d])
    BY <1>1 DEF Refilled
  <1>3. \A c \in Opens(S) : c.d # d
    BY <1>1 DEF Opens, Queue!Call
  <1>4. \A c : c \in Sends(S, stuck) /\ c.d = d <=>
                 \E p \in Queue!Sent(Begun(S)[d], StopAt(stuck, d)) : c = Queue!Call("piece", d, p, Begun(S)[d].turn)
    BY <1>1 DEF Sends, Queue!Call
  <1>5. RoundOf(S, stuck, d) = {Queue!Call("piece", d, p, active[d].turn) : p \in Queue!Sent(active[d], stuck[d])}
    BY <1>1, <1>3, <1>4 DEF RoundOf
  <1> QED
    BY <1>2, <1>5 DEF CallsFor, Queue!Call

LEMMA RoundOfStarted ==
    ASSUME NEW S, S \cap DOMAIN active = {}, NEW stuck, NEW d \in S, turn[d] \in {0, 1}
    PROVE  /\ RoundOf(S, stuck, d) = {Queue!Call("open", d, Queue!NoPiece, 1 - turn[d])}
           /\ Refilled(S, stuck)[d] = Queue!NewTransfer(1 - turn[d])
  <1> DEFINE t == Queue!NewTransfer(1 - turn[d])
  <1>1. d \notin DOMAIN active /\ Begun(S)[d] = t /\ d \in DOMAIN Begun(S) /\ StopAt(stuck, d) = {}
    BY DEF Begun, StopAt
  <1>2. ~t.opened /\ t.cursor = {} /\ t.outstanding = 0 /\ t.failure = "none"
    BY DEF Queue!NewTransfer
  <1>3. Queue!Sendable(t) = {}
    BY <1>2 DEF Queue!Sendable
  <1>4. Queue!Sent(t, {}) = {}
    BY <1>3 DEF Queue!Sent
  <1>5. Queue!Cardinality({}) = 0
    BY FS_EmptySet, CallsAreCounted
  <1>6. Queue!Filled(t, {}) = t
    <2>1. Queue!Filled(t, {}) = [t EXCEPT !.cursor = t.cursor \ {}, !.outstanding = t.outstanding + 0,
                                          !.failure = t.failure]
      <3> HIDE DEF t
      <3>1. Queue!Filled(t, {}) = [t EXCEPT !.cursor = @ \ {}, !.outstanding = @ + Queue!Cardinality({}),
                                            !.failure = IF {} # {} THEN "retryable" ELSE @]
        BY <1>3, <1>4, Zenon DEF Queue!Filled
      <3> QED
        BY <3>1, <1>5
    <2>2. t.cursor \ {} = {} /\ t.outstanding + 0 = 0
      BY <1>2
    <2> QED
      BY <2>1, <2>2, <1>2 DEF Queue!NewTransfer
  <1> HIDE DEF t
  <1>7. Refilled(S, stuck)[d] = t
    BY <1>1, <1>6 DEF Refilled
  <1>8. \A c \in Sends(S, stuck) : c.d # d
    BY <1>1, <1>4 DEF Sends, Queue!Call
  <1>9. \A c : c \in Opens(S) /\ c.d = d <=> c = Queue!Call("open", d, Queue!NoPiece, 1 - turn[d])
    BY DEF Opens, Queue!Call
  <1> QED
    BY <1>7, <1>8, <1>9 DEF RoundOf, t

\* A listing of a finite set of notes is a sequence of notes.
LEMMA ListedNotes ==
    ASSUME NEW D, IsFiniteSet(D), NEW f, DOMAIN f = D, \A d \in D : f[d] \in Queue!DoneNote,
           NEW s \in Queue!SetToSeqs({f[d] : d \in D})
    PROVE  s \in Seq(Queue!DoneNote)
  <1> DEFINE T == {f[d] : d \in D}
  <1>1. IsFiniteSet(T)
    BY ImageFinite
  <1>2. T \in SUBSET Queue!DoneNote
    OBVIOUS
  <1>3. s \in [1..Cardinality(T) -> T]
    BY CallsAreCounted DEF Queue!SetToSeqs
  <1> HIDE DEF T
  <1>4. Cardinality(T) \in Nat
    BY <1>1, FS_CardinalityType
  <1>5. s \in Seq(T)
    BY <1>3, <1>4
  <1> QED
    BY <1>2, <1>3, <1>4

\* the data on their way after a round
Kept(S, stuck) == DOMAIN Begun(S) \ Over(S, stuck)

\* What a round leaves, when no action of another one is left.
LEMMA RoundIsSound ==
    ASSUME TransferInv, InRounds = {}, NEW S \in SUBSET Data, S \cap DOMAIN active = {}, NEW stuck,
           NEW d \in DOMAIN active \cup S
    PROVE  /\ Sound(dir, Refilled(S, stuck)[d], InChannel(d), RoundOf(S, stuck, d))
           /\ RoundOf(S, stuck, d) \in SUBSET ChannelCall
           /\ \A c \in RoundOf(S, stuck, d) : c.gen = gen /\ c.d = d
  <1>1. gen \in 0..MaxLoad /\ turn \in [Data -> {0, 1}] /\ DOMAIN active \subseteq Data
    BY DEF TransferInv, Queue!TypeOK, Queue!Active
  <1>2. d \in Data
    BY <1>1
  <1>3. CASE d \in DOMAIN active
    <2>1. /\ RoundOf(S, stuck, d) = CallsFor(Queue!Sent(active[d], stuck[d]), d, gen, active[d].turn)
          /\ Refilled(S, stuck)[d] = Queue!Filled(active[d], stuck[d])
      BY <1>3, RoundOfActive
    <2>2. Sound(dir, active[d], InChannel(d), {})
      BY <1>3 DEF TransferInv, Flow, InRound, InRounds
    <2>3. Sound(dir, Refilled(S, stuck)[d], InChannel(d), RoundOf(S, stuck, d))
      BY <1>1, <1>2, <2>1, <2>2, FilledIsSound
    <2>4. \A c \in RoundOf(S, stuck, d) : c.gen = gen /\ c.d = d
      BY <2>1 DEF CallsFor
    <2> QED
      BY <2>3, <2>4 DEF Sound, Own
  <1>4. CASE d \in S
    <2> DEFINE c == Queue!Call("open", d, Queue!NoPiece, 1 - turn[d])
    <2>1. turn[d] \in {0, 1} /\ 1 - turn[d] \in {0, 1}
      BY <1>1, <1>2
    <2>2. RoundOf(S, stuck, d) = {c} /\ Refilled(S, stuck)[d] = Queue!NewTransfer(1 - turn[d])
      BY <1>4, <2>1, RoundOfStarted
    <2>3. c \in ChannelCall /\ c.kind = "open" /\ c.turn = 1 - turn[d] /\ c.gen = gen /\ c.d = d
      BY <1>1, <1>2, <2>1 DEF Queue!Call, ChannelCall, Queue!ChannelCall
    <2>4. InChannel(d) = {}
      BY <1>4 DEF TransferInv, Flow, Sessions, InChannel
    <2> HIDE DEF c
    <2>5. Sound(dir, Queue!NewTransfer(1 - turn[d]), {}, {c})
      BY <2>1, <2>3, NewIsSound
    <2> QED
      BY <2>2, <2>3, <2>4, <2>5
  <1> QED
    BY <1>3, <1>4

\* every call of a round is one for a data that is on its way after it was begun
LEMMA RoundCallsFacts ==
    ASSUME NEW S, NEW stuck, NEW c \in Opens(S) \cup Sends(S, stuck)
    PROVE  c.d \in DOMAIN active \cup S /\ c \in RoundOf(S, stuck, c.d)
  <1>1. DOMAIN Begun(S) = DOMAIN active \cup S
    BY DEF Begun
  <1>2. c.d \in DOMAIN active \cup S
    BY <1>1 DEF Opens, Sends, Queue!Call
  <1> QED
    BY <1>2 DEF RoundOf

LEMMA CollectKeeps ==
    ASSUME TransferInv, NEW t \in Thread, InRounds = {}, Queue!Collect(t), pump' \in [running : BOOLEAN, again : BOOLEAN],
           posted' \in BOOLEAN
    PROVE  /\ Flow' /\ Waiting' /\ Counted' /\ Queue!TypeOK'
           /\ task' = [task EXCEPT ![t] = "run"] /\ \A u \in Thread : u # t => acts'[u] = acts[u]
  <1>1. PICK n \in 0..Len(queue), out \in SUBSET Queue!Range(queue), stuck \in [DOMAIN active -> SUBSET (1..Chunks)] :
            Queue!Taken(n, out) /\ Queue!Round(t, n, out, stuck)
    BY DEF Queue!Collect, Queue!Active
  <1>2. /\ task' = [task EXCEPT ![t] = "run"]
        /\ UNCHANGED <<dir, link, running, gen, calls, waits, timers, rgen, retrying, asked, linkLosses>>
    BY DEF Queue!Collect, Queue!retryVars
  <1>3. PICK S : S = Started(n, out)
    OBVIOUS
  <1>30. RoundLeaves(t, n, out, stuck, S)
    BY <1>1, <1>3, RoundDetails
  <1>4. /\ fails' = fails + Cardinality(out) + Cardinality({d \in DOMAIN active : stuck[d] # {}})
        /\ fails' <= MaxFails
        /\ queue' = SubSeq(queue, n + 1, Len(queue))
        /\ active' = [d \in Kept(S, stuck) |-> Refilled(S, stuck)[d]]
        /\ turn' = [d \in Data |-> IF d \in S THEN 1 - turn[d] ELSE turn[d]]
        /\ notes' = <<>>
    BY <1>30 DEF Kept, RoundLeaves
  <1>5. PICK refused \in Queue!SetToSeqs({Queue!Note(d, "final") : d \in out}),
             ends \in Queue!SetToSeqs({Queue!Note(d, Queue!Outcome(Refilled(S, stuck)[d])) : d \in Over(S, stuck)}) :
             acts' = [acts EXCEPT ![t] = [calls |-> Opens(S) \cup Sends(S, stuck), dones |-> notes \o refused \o ends]]
    BY <1>30 DEF RoundLeaves
  <1>6. /\ S \in SUBSET Data /\ S \cap DOMAIN active = {}
        /\ IsFiniteSet(DOMAIN active \cup S) /\ Cardinality(DOMAIN active \cup S) <= MaxDatas
        /\ \A i \in (n + 1)..Len(queue) : queue[i] \notin S
    BY <1>1, <1>3, StartedFacts
  <1>7. DOMAIN active' = Kept(S, stuck) /\ Kept(S, stuck) \subseteq DOMAIN active \cup S
        /\ \A d \in DOMAIN active' : active'[d] = Refilled(S, stuck)[d] /\ ~Queue!Done(Refilled(S, stuck)[d])
    BY <1>4 DEF Kept, Begun, Over
  <1>8. \A d \in DOMAIN active \cup S :
            /\ Sound(dir, Refilled(S, stuck)[d], InChannel(d), RoundOf(S, stuck, d))
            /\ RoundOf(S, stuck, d) \in SUBSET ChannelCall
            /\ \A c \in RoundOf(S, stuck, d) : c.gen = gen /\ c.d = d
    BY <1>6, RoundIsSound
  <1>9. /\ acts \in [Thread -> [calls : SUBSET Queue!ChannelCall, dones : Seq(Queue!DoneNote)]]
        /\ task \in [Thread -> {"idle", "run", "done_up", "done_down"}]
        /\ queue \in Seq(Data) /\ notes \in Seq(Queue!DoneNote) /\ turn \in [Data -> {0, 1}]
        /\ DOMAIN active \subseteq Data
    BY DEF TransferInv, Queue!TypeOK, Queue!Active
  <1>10. /\ acts'[t].calls = Opens(S) \cup Sends(S, stuck)
         /\ \A u \in Thread : u # t => acts'[u] = acts[u]
    BY <1>5, <1>9
  <1>11. InRounds' = Opens(S) \cup Sends(S, stuck)
    <2>1. \A u \in Thread : u # t => acts'[u].calls = {}
      BY <1>10 DEF InRounds
    <2> QED
      BY <2>1, <1>10 DEF InRounds
  <1>12. \A d : InChannel(d)' = InChannel(d) /\ InRound(d)' = {c \in RoundOf(S, stuck, d) : c.gen = gen}
    BY <1>2, <1>11 DEF InChannel, InRound, InRounds, RoundOf
  <1>13. \A d \in DOMAIN active \cup S : InRound(d)' = RoundOf(S, stuck, d)
    BY <1>8, <1>12
  <1>14. Flow'
    <2>1. \A c \in calls \cup InRounds' : c.gen <= gen /\ (c.gen = gen => c.d \in DOMAIN active \cup S)
      <3>1. \A c \in calls : c.gen <= gen /\ (c.gen = gen => c.d \in DOMAIN active)
        BY DEF TransferInv, Flow, Sessions
      <3>2. \A c \in InRounds' : c.gen = gen /\ c.d \in DOMAIN active \cup S
        <4>1. \A c \in Opens(S) \cup Sends(S, stuck) : c.d \in DOMAIN active \cup S /\ c \in RoundOf(S, stuck, c.d)
          BY RoundCallsFacts
        <4> QED
          BY <4>1, <1>8, <1>11
      <3>3. gen \in Nat
        BY NumbersTyped DEF TransferInv
      <3> QED
        BY <3>1, <3>2, <3>3
    <2>2. \A d \in DOMAIN active \cup S : Queue!Done(Refilled(S, stuck)[d]) => InChannel(d)' \cup InRound(d)' = {}
      BY <1>8, <1>12, <1>13, OverIsQuiet
    <2>3. \A c \in calls \cup InRounds' : c.gen = gen => c \in InChannel(c.d)' \cup InRound(c.d)'
      BY <1>2 DEF InChannel, InRound, InRounds
    <2>4. \A d \in DOMAIN active \cup S : ~Queue!Done(Refilled(S, stuck)[d]) => d \in DOMAIN active'
      BY <1>7 DEF Kept, Begun, Over
    <2>5. Sessions'
      <3>1. \A c \in calls \cup InRounds' : c.gen = gen => c.d \in DOMAIN active'
        BY <2>1, <2>2, <2>3, <2>4
      <3> QED
        BY <3>1, <2>1, <1>2 DEF Sessions, InRounds
    <2>6. \A d \in DOMAIN active' : Sound(dir, active'[d], InChannel(d)', InRound(d)')
      BY <1>7, <1>8, <1>12, <1>13
    <2> QED
      BY <2>5, <2>6, <1>2 DEF Flow
  <1>15. IsFiniteSet(DOMAIN active') /\ Cardinality(DOMAIN active') <= MaxDatas /\ DOMAIN active' \subseteq Data
    <2>1. IsFiniteSet(DOMAIN active') /\ Cardinality(DOMAIN active') <= Cardinality(DOMAIN active \cup S)
      BY <1>6, <1>7, FS_Subset
    <2>2. Cardinality(DOMAIN active') \in Nat /\ Cardinality(DOMAIN active \cup S) \in Nat /\ MaxDatas \in Nat
      BY <2>1, <1>6, FS_CardinalityType, TransferAssumption
    <2>3. Cardinality(DOMAIN active') <= MaxDatas
      BY <2>1, <2>2, <1>6
    <2> QED
      BY <2>1, <2>3, <1>6, <1>7, <1>9
  <1>16. queue' \in Seq(Data) /\ Waiting'
    <2>1. Len(queue) \in Nat /\ n \in Nat /\ n <= Len(queue)
      BY <1>9, LenProperties
    <2>2. /\ queue' \in Seq(Data) /\ Len(queue') = Len(queue) - n
          /\ \A i \in 1..(Len(queue) - n) : queue'[i] = queue[n + i]
      <3>1. n + 1 \in 1..(Len(queue) + 1) /\ Len(queue) \in n..Len(queue) /\ Len(queue) - (n + 1) + 1 = Len(queue) - n
        BY <2>1
      <3>2. \A i \in 1..(Len(queue) - n) : (n + 1) + i - 1 = n + i
        BY <2>1
      <3> QED
        <4>1. /\ SubSeq(queue, n + 1, Len(queue)) \in Seq(Data)
              /\ Len(SubSeq(queue, n + 1, Len(queue))) =
                    IF n + 1 <= Len(queue) THEN Len(queue) - (n + 1) + 1 ELSE 0
              /\ \A i \in 1..(Len(queue) - (n + 1) + 1) :
                    SubSeq(queue, n + 1, Len(queue))[i] = queue[(n + 1) + i - 1]
          BY <1>9, <3>1, SubSeqProperties
        <4>2. PICK q : q = SubSeq(queue, n + 1, Len(queue))
          OBVIOUS
        <4>3. q \in Seq(Data) /\ queue' = q
          BY <4>1, <4>2, <1>4
        <4>4. Len(q) = Len(queue) - n
          BY <4>1, <4>2, <2>1
        <4>5. \A i \in 1..(Len(queue) - n) : q[i] = queue[n + i]
          BY <4>1, <4>2, <3>1, <3>2
        <4> QED
          BY <4>3, <4>4, <4>5
    <2>3. \A i \in 1..(Len(queue) - n) : n + i \in 1..Len(queue) /\ n + i \in (n + 1)..Len(queue)
      BY <2>1
    <2>4. ASSUME NEW i \in 1..Len(queue'), NEW j \in 1..Len(queue'), queue'[i] = queue'[j] PROVE i = j
      <3>1. queue[n + i] = queue[n + j] /\ n + i \in 1..Len(queue) /\ n + j \in 1..Len(queue)
        BY <2>2, <2>3, <2>4
      <3>2. n + i = n + j
        BY <3>1 DEF TransferInv, Waiting
      <3> QED
        BY <2>1, <2>2, <3>2
    <2>5. \A i \in 1..Len(queue') : queue'[i] \notin DOMAIN active \cup S
      BY <2>2, <2>3, <1>6 DEF TransferInv, Waiting
    <2> QED
      BY <2>2, <2>4, <2>5, <1>7, <1>15 DEF Waiting
  <1>17. active' \in [DOMAIN active' -> Queue!Transfer]
    BY <1>4, <1>7, <1>8 DEF Sound, Own, Transfer
  <1>18. turn' \in [Data -> {0, 1}] /\ notes' \in Seq(Queue!DoneNote)
    <2>1. \A d \in Data : turn[d] \in {0, 1} /\ 1 - turn[d] \in {0, 1}
      BY <1>9
    <2> QED
      BY <2>1, <1>4, EmptySeq
  <1>19. IsFiniteSet(out) /\ out \subseteq Data /\ fails' \in 0..MaxFails
    <2>1. Len(queue) \in Nat /\ DOMAIN queue = 1..Len(queue) /\ \A i \in 1..Len(queue) : queue[i] \in Data
      BY <1>9, LenProperties, ElementOfSeq
    <2>2. IsFiniteSet({queue[i] : i \in 1..Len(queue)})
      <3>1. IsFiniteSet(1..Len(queue))
        BY <2>1, FS_Interval
      <3> QED
        BY <2>1, <3>1, ImageFinite
    <2>3. out \subseteq {queue[i] : i \in 1..Len(queue)}
      BY <2>1 DEF Queue!Range
    <2>4. IsFiniteSet(out) /\ out \subseteq Data
      BY <2>1, <2>2, <2>3, FS_Subset
    <2> DEFINE T == {d \in DOMAIN active : stuck[d] # {}}
    <2>5. IsFiniteSet(T)
      <3>1. T \subseteq DOMAIN active \cup S
        OBVIOUS
      <3> QED
        BY <3>1, <1>6, FS_Subset
    <2> HIDE DEF T
    <2>6. Cardinality(out) \in Nat /\ Cardinality(T) \in Nat
      BY <2>4, <2>5, FS_CardinalityType
    <2>7. fails \in Nat /\ MaxFails \in Nat
      BY NumbersTyped DEF TransferInv
    <2>8. fails' = fails + Cardinality(out) + Cardinality(T) /\ fails' <= MaxFails
      BY <1>4 DEF T
    <2>9. fails' \in 0..MaxFails
      BY <2>6, <2>7, <2>8
    <2> QED
      BY <2>4, <2>9
  <1>20. refused \in Seq(Queue!DoneNote) /\ ends \in Seq(Queue!DoneNote)
    <2> DEFINE f == [d \in out |-> Queue!Note(d, "final")]
               g == [d \in Over(S, stuck) |-> Queue!Note(d, Queue!Outcome(Refilled(S, stuck)[d]))]
    <2>1. \A d \in out : f[d] \in Queue!DoneNote
      BY <1>19 DEF Queue!Note, Queue!DoneNote, Queue!Failure
    <2>2. Over(S, stuck) \subseteq DOMAIN active \cup S
      BY DEF Over, Begun
    <2>3. IsFiniteSet(Over(S, stuck)) /\ Over(S, stuck) \subseteq Data
      BY <2>2, <1>6, <1>9, FS_Subset
    <2>4. \A d \in Over(S, stuck) : g[d] \in Queue!DoneNote
      <3> SUFFICES ASSUME NEW d \in Over(S, stuck) PROVE g[d] \in Queue!DoneNote
        OBVIOUS
      <3>1. Refilled(S, stuck)[d] \in Transfer
        BY <1>8, <2>2 DEF Sound, Own
      <3>2. Queue!Outcome(Refilled(S, stuck)[d]) \in Queue!Failure \cup {"none"}
        BY <3>1, TransferFacts DEF Queue!Outcome, Queue!Failure
      <3> QED
        BY <3>2, <2>3 DEF Queue!Note, Queue!DoneNote
    <2>5. refused \in Queue!SetToSeqs({f[d] : d \in out}) /\ ends \in Queue!SetToSeqs({g[d] : d \in Over(S, stuck)})
      <3>1. {f[d] : d \in out} = {Queue!Note(d, "final") : d \in out}
        OBVIOUS
      <3>2. {g[d] : d \in Over(S, stuck)} = {Queue!Note(d, Queue!Outcome(Refilled(S, stuck)[d])) : d \in Over(S, stuck)}
        OBVIOUS
      <3> HIDE DEF f, g
      <3> QED
        BY <3>1, <3>2
    <2>6. DOMAIN f = out /\ DOMAIN g = Over(S, stuck)
      OBVIOUS
    <2> HIDE DEF f, g
    <2>7. refused \in Seq(Queue!DoneNote)
      BY <2>1, <2>5, <2>6, <1>19, ListedNotes
    <2>8. ends \in Seq(Queue!DoneNote)
      BY <2>3, <2>4, <2>5, <2>6, ListedNotes
    <2> QED
      BY <2>7, <2>8
  <1>21. acts' \in [Thread -> [calls : SUBSET Queue!ChannelCall, dones : Seq(Queue!DoneNote)]]
    <2>1. notes \o refused \o ends \in Seq(Queue!DoneNote)
      BY <1>9, <1>20, ConcatProperties
    <2>2. Opens(S) \cup Sends(S, stuck) \in SUBSET Queue!ChannelCall
      <3>1. ASSUME NEW c \in Opens(S) \cup Sends(S, stuck) PROVE c \in ChannelCall
        <4>1. c.d \in DOMAIN active \cup S /\ c \in RoundOf(S, stuck, c.d)
          BY RoundCallsFacts, ZenonT(30)
        <4>2. RoundOf(S, stuck, c.d) \in SUBSET ChannelCall
          BY <4>1, <1>8
        <4> QED
          BY <4>1, <4>2
      <3> QED
        BY <3>1, Zenon DEF ChannelCall
    <2> QED
      BY <2>1, <2>2, <1>5, <1>9
  <1>22. Counted'
    BY <1>2, CountedAside DEF TransferInv
  <1>23. task' \in [Thread -> {"idle", "run", "done_up", "done_down"}]
    BY <1>2, <1>9
  <1>24. Queue!TypeOK'
    BY <1>2, <1>15, <1>16, <1>17, <1>18, <1>19, <1>21, <1>23, CallsAreCounted DEF TransferInv, Queue!TypeOK, Queue!Active
  <1> QED
    BY <1>2, <1>10, <1>14, <1>16, <1>22, <1>24

LEMMA EnterKeeps == ASSUME TransferInv, NEW t \in Thread, Queue!Enter(t) PROVE TransferInv'
  <1>1. pump \in [running : BOOLEAN, again : BOOLEAN] /\ task \in [Thread -> {"idle", "run", "done_up", "done_down"}]
    BY DEF TransferInv, Queue!TypeOK
  <1>2. posted' = FALSE /\ task[t] = "idle"
    BY DEF Queue!Enter
  <1>3. CASE pump.running
    <2>1. pump' = [pump EXCEPT !.again = TRUE]
      BY <1>3 DEF Queue!Enter
    <2>2. UNCHANGED <<dir, link, running, queue, active, notes, gen, task, acts, calls, waits, timers, rgen,
                      retrying, turn, asked, fails, linkLosses>>
      BY <1>3 DEF Queue!Enter, Queue!queueVars, Queue!retryVars
    <2>3. pump' \in [running : BOOLEAN, again : BOOLEAN] /\ pump'.running = pump.running
      BY <1>1, <2>1
    <2>4. OneRunner'
      BY <2>2, <2>3 DEF TransferInv, OneRunner
    <2>5. Waiting' /\ Counted' /\ Flow'
      BY <2>2, WaitingAside, CountedAside, FlowAside, RoundsAside DEF TransferInv
    <2>6. Queue!TypeOK'
      BY <1>2, <2>2, <2>3 DEF TransferInv, Queue!TypeOK, Queue!Active
    <2> QED
      BY <2>4, <2>5, <2>6 DEF TransferInv
  <1>4. CASE ~pump.running
    <2>1. pump' = [pump EXCEPT !.running = TRUE] /\ Queue!Collect(t)
      BY <1>4 DEF Queue!Enter
    <2>2. \A u \in Thread : task[u] = "idle" /\ acts[u] = Queue!NoActions
      BY <1>4 DEF TransferInv, OneRunner
    <2>3. InRounds = {}
      BY <2>2 DEF InRounds, Queue!NoActions
    <2>4. pump' \in [running : BOOLEAN, again : BOOLEAN] /\ pump'.running
      BY <1>1, <2>1
    <2>5. /\ Flow' /\ Waiting' /\ Counted' /\ Queue!TypeOK'
          /\ task' = [task EXCEPT ![t] = "run"] /\ \A u \in Thread : u # t => acts'[u] = acts[u]
      BY <1>2, <2>1, <2>3, <2>4, CollectKeeps
    <2>6. OneRunner'
      BY <1>1, <2>2, <2>4, <2>5 DEF OneRunner
    <2> QED
      BY <2>5, <2>6 DEF TransferInv
  <1> QED
    BY <1>3, <1>4

LEMMA AgainKeeps == ASSUME TransferInv, NEW t \in Thread, Queue!Again(t) PROVE TransferInv'
  <1>1. pump \in [running : BOOLEAN, again : BOOLEAN] /\ task \in [Thread -> {"idle", "run", "done_up", "done_down"}]
        /\ posted \in BOOLEAN
    BY DEF TransferInv, Queue!TypeOK
  <1>2. /\ task[t] = "run" /\ acts[t] = Queue!NoActions /\ posted' = posted
        /\ pump' = [running |-> pump.again, again |-> FALSE]
    BY DEF Queue!Again
  <1>3. pump' \in [running : BOOLEAN, again : BOOLEAN]
    BY <1>1, <1>2
  <1>4. \A u \in Thread : u # t => task[u] = "idle" /\ acts[u] = Queue!NoActions
    BY <1>2 DEF TransferInv, OneRunner
  <1>5. InRounds = {}
    BY <1>2, <1>4 DEF InRounds, Queue!NoActions
  <1>6. CASE pump.again
    <2>1. Queue!Collect(t) /\ pump'.running
      BY <1>2, <1>6 DEF Queue!Again
    <2>2. /\ Flow' /\ Waiting' /\ Counted' /\ Queue!TypeOK'
          /\ task' = [task EXCEPT ![t] = "run"] /\ \A u \in Thread : u # t => acts'[u] = acts[u]
      BY <1>1, <1>2, <1>3, <1>5, <2>1, CollectKeeps
    <2>3. OneRunner'
      BY <1>1, <1>4, <2>1, <2>2 DEF OneRunner
    <2> QED
      BY <2>2, <2>3 DEF TransferInv
  <1>7. CASE ~pump.again
    <2>1. /\ task' = [task EXCEPT ![t] = "idle"]
          /\ UNCHANGED <<dir, link, running, queue, active, notes, gen, acts, calls, waits, timers, rgen,
                         retrying, turn, asked, fails, linkLosses>>
      BY <1>7 DEF Queue!Again, Queue!queueVars, Queue!retryVars
    <2>2. \A u \in Thread : task'[u] = "idle" /\ acts'[u] = Queue!NoActions
      BY <1>1, <1>2, <1>4, <2>1
    <2>3. OneRunner'
      BY <2>2 DEF OneRunner
    <2>4. Waiting' /\ Counted' /\ Flow'
      BY <2>1, WaitingAside, CountedAside, FlowAside, RoundsAside DEF TransferInv
    <2>5. task' \in [Thread -> {"idle", "run", "done_up", "done_down"}]
      BY <1>1, <2>1
    <2>6. Queue!TypeOK'
      BY <1>2, <1>3, <2>1, <2>5 DEF TransferInv, Queue!TypeOK, Queue!Active
    <2> QED
      BY <2>3, <2>4, <2>6 DEF TransferInv
  <1> QED
    BY <1>6, <1>7

LEMMA TransferStart == Queue!Init => TransferInv
  <1> SUFFICES ASSUME Queue!Init PROVE TransferInv
    OBVIOUS
  <1> USE DEF Queue!Init
  <1>1. DOMAIN active = {} /\ active \in [DOMAIN active -> Queue!Transfer]
    BY DEF Queue!NoTransfers
  <1>2. IsFiniteSet({}) /\ Cardinality({}) = 0 /\ 0 <= MaxDatas /\ 0 \in 0..MaxLoad /\ 0 \in 0..MaxFails /\ 0 <= MaxLoad
    BY FS_EmptySet, TransferAssumption
  <1>3. Queue!NoActions \in [calls : SUBSET Queue!ChannelCall, dones : Seq(Queue!DoneNote)]
    BY EmptySeq DEF Queue!NoActions
  <1>4. queue \in Seq(Data) /\ notes \in Seq(Queue!DoneNote)
    BY EmptySeq
  <1>5. Queue!TypeOK
    BY <1>1, <1>2, <1>3, <1>4, CallsAreCounted DEF Queue!TypeOK, Queue!Active
  <1>6. OneRunner
    BY DEF OneRunner
  <1>7. Waiting
    BY <1>1, <1>2 DEF Waiting
  <1>8. Counted
    BY <1>2, TransferAssumption DEF Counted
  <1>9. Flow
    BY <1>1 DEF Flow, Sessions, Queue!NoActions
  <1> QED
    BY <1>5, <1>6, <1>7, <1>8, <1>9 DEF TransferInv

LEMMA TransferStep == ASSUME TransferInv, Queue!Next PROVE TransferInv'
  <1>1. ASSUME NEW t \in Thread, Queue!RunStep(t) PROVE TransferInv'
    BY <1>1, EnterKeeps, RunCallsKeeps, RunDoneKeeps, FinishDoneKeeps, AgainKeeps DEF Queue!RunStep
  <1>2. ASSUME NEW c \in calls, Queue!AnswerStep(c) PROVE TransferInv'
    BY <1>2, LateKeeps, OpenedKeeps, PieceAnsweredKeeps, FailedKeeps DEF Queue!AnswerStep
  <1>3. ASSUME NEW w \in timers, Queue!Expire(w) \/ Queue!Fire(w) PROVE TransferInv'
    BY <1>3, ExpireKeeps, FireKeeps
  <1>4. ASSUME NEW d \in Data, Queue!DataStep(d) PROVE TransferInv'
    BY <1>2, <1>3, <1>4, RetryKeeps DEF Queue!DataStep
  <1>5. ASSUME NEW d \in Data, Queue!Ask(d) PROVE TransferInv'
    BY <1>5, AskKeeps
  <1>6. CASE Queue!Disconnect \/ Queue!LinkStep
    BY <1>6, DisconnectKeeps, CancelRetriesKeeps, ResetKeeps, ClearRunningKeeps, ReconnectKeeps DEF Queue!LinkStep
  <1> QED
    BY <1>1, <1>4, <1>5, <1>6 DEF Queue!Next

LEMMA TransferAside == ASSUME TransferInv, UNCHANGED transferVars PROVE TransferInv'
  <1> USE DEF transferVars
  <1>1. UNCHANGED queueOnly /\ UNCHANGED <<asked, linkLosses, gen, link, rgen>>
    BY DEF queueOnly
  <1>2. OneRunner' /\ Waiting' /\ Flow' /\ Counted'
    BY <1>1, QueueOnlyKept, CountedAside DEF TransferInv
  <1>3. Queue!TypeOK'
    BY DEF TransferInv, Queue!TypeOK, Queue!Active
  <1> QED
    BY <1>2, <1>3 DEF TransferInv

\* What the invariant says of the transfers: an answer from the data channel that is not ignored is taken
\* for the transfer it belongs to, what a transfer counts as outstanding is on the way, and no piece is
\* taken out of its order.
LEMMA TransferSound == ASSUME TransferInv PROVE Queue!TypeOK /\ Queue!AnswersTheirOwn /\ Queue!ChunksInOrder
  <1>1. ASSUME NEW c \in calls, Queue!Expected(c) PROVE c.turn = active[c.d].turn
    BY <1>1, ExpectedIsSound DEF Sound, Own
  <1>2. ASSUME NEW d \in DOMAIN active PROVE active[d].outstanding = Queue!Cardinality(Queue!OnTheWay(d))
    <2>1. Queue!OnTheWay(d) = PieceCalls(InChannel(d) \cup InRound(d))
      BY DEF Queue!OnTheWay, PieceCalls, InChannel, InRound
    <2>2. active[d].outstanding = Cardinality(PieceCalls(InChannel(d) \cup InRound(d)))
      BY DEF TransferInv, Flow, Sound, Own
    <2> QED
      BY <2>1, <2>2, CallsAreCounted
  <1>3. Queue!AnswersTheirOwn
    BY <1>1, <1>2 DEF Queue!AnswersTheirOwn, Queue!Active
  <1>4. Queue!TypeOK /\ Queue!ChunksInOrder
    BY DEF TransferInv, Flow, Sound, Queue!ChunksInOrder, Queue!Active
  <1> QED
    BY <1>3, <1>4

-----------------------------------------------------------------------------
(* The data channel: every call is answered once *)

OpenCall(a) == <<a, "open">>
PieceCall(a) == <<a, "piece">>

\* where an opening is, and which connections were made for it
Placed(a) ==
    /\ OpenCall(a) \in made <=> att[a].phase # "idle"
    /\ times[OpenCall(a)] = IF att[a].phase = "over" THEN 1 ELSE 0
    /\ att[a].phase \in {"post", "out", "verdict"} => att[a].link \in DOMAIN links
    /\ att[a].phase \in {"idle", "ticket", "arrived"} => \A l \in DOMAIN links : l[1] # a
    /\ att[a].phase \in {"post", "out", "verdict"} => \A l \in DOMAIN links : l[1] = a => l[2] <= att[a].holder

\* its call is out exactly where it waits for the reply
OpenOut(a) ==
    /\ att[a].phase = "out" => links[att[a].link].phase # "dead" /\ OpenCall(a) \in links[att[a].link].calls
    /\ \A l \in DOMAIN links : OpenCall(a) \in links[l].calls => att[a].phase = "out" /\ att[a].link = l

\* a piece is out on one connection until it is answered
PieceOut(a) ==
    /\ PieceCall(a) \notin made => times[PieceCall(a)] = 0
    /\ \A l \in DOMAIN links : PieceCall(a) \in links[l].calls => PieceCall(a) \in made /\ times[PieceCall(a)] = 0
    /\ \A l, m \in DOMAIN links : PieceCall(a) \in links[l].calls /\ PieceCall(a) \in links[m].calls => l = m
    /\ PieceCall(a) \in made /\ times[PieceCall(a)] = 0 => \E l \in DOMAIN links : PieceCall(a) \in links[l].calls

ChannelTypes ==
    /\ recordLink \in {"up", "closing", "failing", "down"} /\ alive \in BOOLEAN
    /\ tickets \subseteq Opening
    /\ att \in [Opening -> Channel!Attempt]
    /\ links \in [DOMAIN links -> Channel!Link] /\ DOMAIN links \subseteq Opening \X Nat
    /\ slot \in [Server -> DOMAIN links \cup {Channel!NoLink}]
    /\ route \in [Opening -> DOMAIN links \cup {Channel!NoLink}]
    /\ made \subseteq Channel!Call /\ times \in [Channel!Call -> Nat]

DeadIsEmpty == \A l \in DOMAIN links : links[l].phase = "dead" => links[l].calls = {}

ChannelInv ==
    /\ ChannelTypes /\ DeadIsEmpty
    /\ \A a \in Opening : Placed(a) /\ OpenOut(a) /\ PieceOut(a)

\* the connections carry what they carried; new ones carry nothing
SameCalls ==
    /\ DOMAIN links \subseteq DOMAIN links'
    /\ \A l \in DOMAIN links :
          links'[l].calls = links[l].calls /\ (links'[l].phase = "dead" <=> links[l].phase = "dead")
    /\ \A l \in DOMAIN links' \ DOMAIN links : links'[l].calls = {} /\ links'[l].phase # "dead"

\* the answers of the pieces and the calls made for them are as they were
SamePiece(a) ==
    (PieceCall(a) \in made' <=> PieceCall(a) \in made) /\ times'[PieceCall(a)] = times[PieceCall(a)]

LEMMA SameDead == ASSUME ChannelInv, SameCalls PROVE DeadIsEmpty'
  BY DEF ChannelInv, DeadIsEmpty, SameCalls

LEMMA SameOpen ==
    ASSUME ChannelInv, SameCalls, NEW a \in Opening,
           att'[a].phase = "out" <=> att[a].phase = "out", att[a].phase = "out" => att'[a].link = att[a].link
    PROVE  OpenOut(a)'
  <1>1. OpenOut(a) /\ Placed(a)
    BY DEF ChannelInv
  <1>2. att'[a].phase = "out" => att[a].link \in DOMAIN links
    BY <1>1 DEF Placed
  <1> QED
    BY <1>1, <1>2 DEF OpenOut, SameCalls

LEMMA SamePieces ==
    ASSUME ChannelInv, SameCalls, NEW a \in Opening, SamePiece(a)
    PROVE  PieceOut(a)'
  <1>1. PieceOut(a)
    BY DEF ChannelInv
  <1>2. PieceCall(a) \notin made' => times'[PieceCall(a)] = 0
    BY <1>1 DEF PieceOut, SamePiece
  <1>3. \A l \in DOMAIN links' : PieceCall(a) \in links'[l].calls => l \in DOMAIN links /\ PieceCall(a) \in links[l].calls
    BY DEF SameCalls
  <1>4. \A l \in DOMAIN links : PieceCall(a) \in links[l].calls => l \in DOMAIN links' /\ PieceCall(a) \in links'[l].calls
    BY DEF SameCalls
  <1> QED
    BY <1>1, <1>2, <1>3, <1>4 DEF PieceOut, SamePiece

\* an attempt stays where it is
LEMMA SamePlace ==
    ASSUME ChannelInv, NEW a \in Opening, att'[a] = att[a],
           OpenCall(a) \in made' <=> OpenCall(a) \in made, times'[OpenCall(a)] = times[OpenCall(a)],
           DOMAIN links \subseteq DOMAIN links', \A l \in DOMAIN links' \ DOMAIN links : l[1] # a
    PROVE  Placed(a)'
  <1>1. Placed(a)
    BY DEF ChannelInv
  <1> QED
    BY <1>1 DEF Placed

\* a step that touches neither the calls nor the attempts
LEMMA ChannelAside ==
    ASSUME ChannelInv, UNCHANGED <<att, made, times>>, SameCalls, DOMAIN links' = DOMAIN links, ChannelTypes'
    PROVE  ChannelInv'
  <1>1. \A a \in Opening : Placed(a)'
    BY SamePlace
  <1>2. \A a \in Opening : OpenOut(a)' /\ PieceOut(a)'
    BY SameOpen, SamePieces DEF SamePiece
  <1> QED
    BY <1>1, <1>2, SameDead DEF ChannelInv

\* what the service the channel implements sees of a step
ServiceStep == Channel!Service!Next \/ UNCHANGED <<made, times>>

LEMMA RecordLostKeeps == ASSUME ChannelInv, Channel!RecordLost PROVE ChannelInv' /\ ServiceStep
  <1> USE DEF Channel!RecordLost, Channel!linkVars, Channel!callVars
  <1>1. ChannelTypes'
    BY DEF ChannelInv, ChannelTypes
  <1>2. SameCalls /\ DOMAIN links' = DOMAIN links
    BY DEF SameCalls
  <1> QED
    BY <1>1, <1>2, ChannelAside DEF ServiceStep

LEMMA RecordBackKeeps == ASSUME ChannelInv, Channel!RecordBack PROVE ChannelInv' /\ ServiceStep
  <1> USE DEF Channel!RecordBack, Channel!linkVars, Channel!callVars
  <1>1. ChannelTypes'
    BY DEF ChannelInv, ChannelTypes
  <1>2. SameCalls /\ DOMAIN links' = DOMAIN links
    BY DEF SameCalls
  <1> QED
    BY <1>1, <1>2, ChannelAside DEF ServiceStep

LEMMA CloseKeeps ==
    ASSUME ChannelInv, Channel!Close
    PROVE  /\ SameCalls /\ DOMAIN links' = DOMAIN links /\ links' \in [DOMAIN links' -> Channel!Link]
           /\ slot' \in [Server -> DOMAIN links' \cup {Channel!NoLink}]
           /\ route' \in [Opening -> DOMAIN links' \cup {Channel!NoLink}]
  <1> USE DEF Channel!Close
  <1>1. links \in [DOMAIN links -> Channel!Link]
    BY DEF ChannelInv, ChannelTypes
  <1>2. DOMAIN links' = DOMAIN links
    OBVIOUS
  <1>3. \A l \in DOMAIN links : links[l] \in Channel!Link
    BY <1>1
  <1>4. \A l \in DOMAIN links : links'[l] = links[l] \/ links'[l] = [links[l] EXCEPT !.closing = TRUE]
    OBVIOUS
  <1>5. \A l \in DOMAIN links : links'[l] \in Channel!Link /\ links'[l].calls = links[l].calls /\ links'[l].phase = links[l].phase
    BY <1>3, <1>4 DEF Channel!Link
  <1>6. links' \in [DOMAIN links' -> Channel!Link]
    BY <1>2, <1>5
  <1> QED
    BY <1>2, <1>5, <1>6 DEF SameCalls

LEMMA CloseChannelKeeps == ASSUME ChannelInv, Channel!CloseChannel PROVE ChannelInv' /\ ServiceStep
  <1> USE DEF Channel!CloseChannel, Channel!callVars
  <1>1. /\ SameCalls /\ DOMAIN links' = DOMAIN links /\ links' \in [DOMAIN links' -> Channel!Link]
        /\ slot' \in [Server -> DOMAIN links' \cup {Channel!NoLink}]
        /\ route' \in [Opening -> DOMAIN links' \cup {Channel!NoLink}]
    BY CloseKeeps
  <1>2. ChannelTypes'
    BY <1>1 DEF ChannelInv, ChannelTypes
  <1> QED
    BY <1>1, <1>2, ChannelAside DEF ServiceStep

LEMMA DestroyKeeps == ASSUME ChannelInv, Channel!Destroy PROVE ChannelInv' /\ ServiceStep
  <1> USE DEF Channel!Destroy, Channel!callVars
  <1>1. /\ SameCalls /\ DOMAIN links' = DOMAIN links /\ links' \in [DOMAIN links' -> Channel!Link]
        /\ slot' \in [Server -> DOMAIN links' \cup {Channel!NoLink}]
        /\ route' \in [Opening -> DOMAIN links' \cup {Channel!NoLink}]
    BY CloseKeeps
  <1>2. ChannelTypes'
    BY <1>1 DEF ChannelInv, ChannelTypes
  <1> QED
    BY <1>1, <1>2, ChannelAside DEF ServiceStep

LEMMA LinkReadyKeeps ==
    ASSUME ChannelInv, NEW l \in DOMAIN links, Channel!LinkReady(l) PROVE ChannelInv' /\ ServiceStep
  <1> USE DEF Channel!LinkReady, Channel!callVars, Channel!ticketVars
  <1>1. links \in [DOMAIN links -> Channel!Link]
    BY DEF ChannelInv, ChannelTypes
  <1>2. DOMAIN links' = DOMAIN links /\ links[l] \in Channel!Link
    BY <1>1
  <1>3. /\ links'[l] = [links[l] EXCEPT !.phase = "ready"]
        /\ \A m \in DOMAIN links : m # l => links'[m] = links[m]
    BY <1>1
  <1>4. links' \in [DOMAIN links' -> Channel!Link] /\ links'[l].calls = links[l].calls /\ links'[l].phase = "ready"
    BY <1>1, <1>2, <1>3 DEF Channel!Link
  <1>5. SameCalls
    BY <1>2, <1>3, <1>4 DEF SameCalls
  <1>6. ChannelTypes'
    BY <1>2, <1>4 DEF ChannelInv, ChannelTypes
  <1> QED
    BY <1>2, <1>5, <1>6, ChannelAside DEF ServiceStep

\* attempts whose ticket has come and that are being handled, or whose ticket has not come
LEMMA TicketsCome ==
    ASSUME ChannelInv, UNCHANGED <<links, made, times>>, ChannelTypes',
           \A a \in Opening : \/ att'[a] = att[a]
                              \/ att[a].phase = "ticket" /\ att'[a].phase = "arrived"
    PROVE  ChannelInv'
  <1>1. SameCalls
    BY DEF SameCalls
  <1>2. ASSUME NEW a \in Opening PROVE Placed(a)' /\ OpenOut(a)' /\ PieceOut(a)'
    <2>1. OpenOut(a)' /\ PieceOut(a)'
      BY <1>1, SameOpen, SamePieces DEF SamePiece
    <2>2. Placed(a)
      BY DEF ChannelInv
    <2>3. Placed(a)'
      BY <2>2 DEF Placed
    <2> QED
      BY <2>1, <2>3
  <1> QED
    BY <1>1, <1>2, SameDead DEF ChannelInv

LEMMA AttemptFacts ==
    ASSUME ChannelInv, NEW a \in Opening
    PROVE  /\ att[a] \in Channel!Attempt /\ att[a].grant \in Grants \cup {<<>>} /\ att[a].holder \in Nat
           /\ OpenCall(a) \in Channel!Call /\ PieceCall(a) \in Channel!Call /\ OpenCall(a) # PieceCall(a)
  BY DEF ChannelInv, ChannelTypes, Channel!Attempt, Channel!Call, OpenCall, PieceCall

LEMMA TicketAnsweredKeeps ==
    ASSUME ChannelInv, NEW a \in Opening, Channel!TicketAnswered(a) PROVE ChannelInv' /\ ServiceStep
  <1> USE DEF Channel!TicketAnswered, Channel!linkVars, Channel!callVars
  <1>1. att \in [Opening -> Channel!Attempt] /\ att[a] \in Channel!Attempt
    BY DEF ChannelInv, ChannelTypes
  <1>2. \/ att' = att
        \/ /\ att[a].phase = "ticket"
           /\ \E t \in Channel!Ticket : att' = [att EXCEPT ![a] = [att[a] EXCEPT !.phase = "arrived", !.grant = t.grant, !.verdict = t.verdict]]
    BY <1>1
  <1>3. \A t \in Channel!Ticket : [att[a] EXCEPT !.phase = "arrived", !.grant = t.grant, !.verdict = t.verdict] \in Channel!Attempt
    BY <1>1 DEF Channel!Attempt, Channel!Ticket, Channel!Verdict
  <1>4. \A t \in Channel!Ticket : [att[a] EXCEPT !.phase = "arrived", !.grant = t.grant, !.verdict = t.verdict].phase = "arrived"
    BY <1>1 DEF Channel!Attempt
  <1>5. /\ att' \in [Opening -> Channel!Attempt]
        /\ \A b \in Opening : att'[b] = att[b] \/ (att[b].phase = "ticket" /\ att'[b].phase = "arrived")
    <2>1. CASE att' = att
      BY <1>1, <2>1
    <2>2. CASE att' # att
      <3>1. att[a].phase = "ticket"
        BY <1>2, <2>2
      <3>2. PICK t \in Channel!Ticket : att' = [att EXCEPT ![a] = [att[a] EXCEPT !.phase = "arrived", !.grant = t.grant, !.verdict = t.verdict]]
        BY <1>2, <2>2
      <3>3. PICK n : n = [att[a] EXCEPT !.phase = "arrived", !.grant = t.grant, !.verdict = t.verdict]
        OBVIOUS
      <3>4. n \in Channel!Attempt /\ n.phase = "arrived" /\ att' = [att EXCEPT ![a] = n]
        BY <1>3, <1>4, <3>2, <3>3
      <3>5. att'[a] = n /\ \A b \in Opening : b # a => att'[b] = att[b]
        BY <1>1, <3>4
      <3> QED
        BY <1>1, <3>1, <3>4, <3>5
    <2> QED
      BY <2>1, <2>2
  <1>6. ChannelTypes'
    BY <1>5 DEF ChannelInv, ChannelTypes
  <1> QED
    BY <1>5, <1>6, TicketsCome DEF ServiceStep

LEMMA FailTicketsKeeps == ASSUME ChannelInv, Channel!FailTickets PROVE ChannelInv' /\ ServiceStep
  <1> USE DEF Channel!FailTickets, Channel!linkVars, Channel!callVars
  <1>1. att \in [Opening -> Channel!Attempt] /\ \A a \in Opening : att[a] \in Channel!Attempt
    BY DEF ChannelInv, ChannelTypes
  <1>2. \A a \in Opening : [att[a] EXCEPT !.phase = "arrived", !.verdict = "refused"] \in Channel!Attempt
                           /\ [att[a] EXCEPT !.phase = "arrived", !.verdict = "refused"].phase = "arrived"
    BY <1>1 DEF Channel!Attempt, Channel!Verdict
  <1>3. \A b \in Opening : \/ att'[b] = att[b]
                           \/ att[b].phase = "ticket" /\ att'[b] = [att[b] EXCEPT !.phase = "arrived", !.verdict = "refused"]
    OBVIOUS
  <1>30. \A b \in Opening : att'[b] = att[b] \/ (att[b].phase = "ticket" /\ att'[b].phase = "arrived")
    BY <1>2, <1>3
  <1>31. \A b \in Opening : att'[b] \in Channel!Attempt
    BY <1>1, <1>2, <1>3
  <1>32. att' \in [Opening -> Channel!Attempt]
    BY <1>31
  <1>4. ChannelTypes'
    BY <1>32 DEF ChannelInv, ChannelTypes
  <1> QED
    BY <1>30, <1>4, TicketsCome DEF ServiceStep

\* The callback of an opening that is under way is called: the first time.
LEMMA EndKeeps ==
    ASSUME ChannelInv, NEW a \in Opening, att[a].phase \notin {"idle", "over", "out"}, Channel!End(a),
           UNCHANGED <<links, made>>, slot' \in [Server -> DOMAIN links \cup {Channel!NoLink}],
           route' \in [Opening -> DOMAIN links \cup {Channel!NoLink}],
           UNCHANGED <<recordLink, alive, tickets>>
    PROVE  ChannelInv' /\ ServiceStep
  <1> USE DEF Channel!End
  <1>1. /\ att \in [Opening -> Channel!Attempt] /\ times \in [Channel!Call -> Nat] /\ Placed(a)
        /\ OpenCall(a) \in Channel!Call /\ PieceCall(a) \in Channel!Call /\ OpenCall(a) # PieceCall(a)
    BY AttemptFacts DEF ChannelInv, ChannelTypes
  <1>2. Channel!Over \in Channel!Attempt /\ Channel!Over.phase = "over"
    BY DEF Channel!Over, Channel!NewAttempt, Channel!Attempt, Channel!Verdict
  <1>3. /\ att' \in [Opening -> Channel!Attempt] /\ att'[a].phase = "over"
        /\ \A b \in Opening : b # a => att'[b] = att[b]
    BY <1>1, <1>2
  <1>4. times[OpenCall(a)] = 0 /\ OpenCall(a) \in made
    BY <1>1 DEF Placed
  <1>5. /\ times' \in [Channel!Call -> Nat] /\ times'[OpenCall(a)] = 1
        /\ \A c \in Channel!Call : c # OpenCall(a) => times'[c] = times[c]
    BY <1>1, <1>4 DEF OpenCall
  <1>6. ChannelTypes'
    BY <1>3, <1>5 DEF ChannelInv, ChannelTypes
  <1>7. SameCalls
    BY DEF SameCalls
  <1>8. ASSUME NEW b \in Opening PROVE OpenOut(b)' /\ PieceOut(b)' /\ Placed(b)'
    <2>0. OpenCall(b) \in Channel!Call /\ PieceCall(b) \in Channel!Call /\ PieceCall(b) # OpenCall(a)
          /\ (b # a => OpenCall(b) # OpenCall(a))
      BY AttemptFacts DEF OpenCall, PieceCall
    <2>1. SamePiece(b)
      BY <2>0, <1>5 DEF SamePiece
    <2>2. PieceOut(b)'
      BY <2>1, <1>7, SamePieces
    <2>3. OpenOut(b)'
      BY <1>3, <1>7, SameOpen
    <2>4. CASE b = a
      BY <2>2, <2>3, <2>4, <1>3, <1>4, <1>5 DEF Placed
    <2>5. CASE b # a
      <3>1. Placed(b)'
        BY <2>0, <2>5, <1>3, <1>5, SamePlace
      <3> QED
        BY <3>1, <2>2, <2>3
    <2> QED
      BY <2>4, <2>5
  <1>9. ChannelInv'
    BY <1>6, <1>7, <1>8, SameDead DEF ChannelInv
  <1>10. Channel!Service!Answer({OpenCall(a)})
    <2>1. times' = [c \in Channel!Call |-> IF c \in {OpenCall(a)} THEN 1 ELSE times[c]]
      BY <1>1, <1>5
    <2> QED
      BY <2>1, <1>4 DEF Channel!Service!Answer
  <1>11. ServiceStep
    <2>1. {OpenCall(a)} \in SUBSET Channel!Call
      BY <1>1
    <2> QED
      BY <2>1, <1>10 DEF ServiceStep, Channel!Service!Next
  <1> QED
    BY <1>9, <1>11

LEMMA WaitExpiresKeeps ==
    ASSUME ChannelInv, NEW a \in Opening, Channel!WaitExpires(a) PROVE ChannelInv' /\ ServiceStep
  <1>1. /\ att[a].phase \notin {"idle", "over", "out"} /\ Channel!End(a)
        /\ UNCHANGED <<links, made, slot, route, recordLink, alive, tickets>>
    BY DEF Channel!WaitExpires, Channel!linkVars, Channel!ticketVars
  <1>2. slot' \in [Server -> DOMAIN links \cup {Channel!NoLink}] /\ route' \in [Opening -> DOMAIN links \cup {Channel!NoLink}]
    BY <1>1 DEF ChannelInv, ChannelTypes
  <1> QED
    BY <1>1, <1>2, EndKeeps

\* The next holder is tried over a connection that is there, or over one that did not exist yet.
LEMMA TryHolderKeeps ==
    ASSUME ChannelInv, NEW a \in Opening, NEW t \in Channel!Attempt,
           \/ att[a].phase = "arrived" /\ t.holder = 1
           \/ att[a].phase = "verdict" /\ t.holder = att[a].holder + 1,
           Channel!TryHolder(a, t), UNCHANGED <<recordLink, alive, tickets, route, made>>
    PROVE  ChannelInv' /\ ServiceStep
  <1>1. /\ att \in [Opening -> Channel!Attempt] /\ slot \in [Server -> DOMAIN links \cup {Channel!NoLink}]
        /\ links \in [DOMAIN links -> Channel!Link] /\ DOMAIN links \subseteq Opening \X Nat
        /\ route \in [Opening -> DOMAIN links \cup {Channel!NoLink}] /\ Placed(a)
    BY DEF ChannelInv, ChannelTypes
  <1>2. CASE t.holder > Len(t.grant)
    <2>1. Channel!End(a) /\ UNCHANGED <<links, slot>>
      BY <1>2 DEF Channel!TryHolder
    <2>2. att[a].phase \notin {"idle", "over", "out"}
      OBVIOUS
    <2> QED
      BY <1>1, <2>1, <2>2, EndKeeps
  <1>3. CASE ~(t.holder > Len(t.grant))
    <2> DEFINE s == t.grant[t.holder]
               l == IF Channel!Reused(s) THEN slot[s] ELSE <<a, t.holder>>
    <2>1. /\ att' = [att EXCEPT ![a] = [t EXCEPT !.phase = "post", !.link = l]]
          /\ slot' = [slot EXCEPT ![s] = l] /\ times' = times
          /\ links' = IF Channel!Reused(s) THEN links
                      ELSE [x \in DOMAIN links \cup {l} |->
                              IF x = l THEN [server |-> s, phase |-> "connecting", closing |-> FALSE, calls |-> {}]
                              ELSE links[x]]
      BY <1>3 DEF Channel!TryHolder
    <2>2. t.holder \in Nat /\ t.holder >= 1 /\ t.grant \in Grants \cup {<<>>}
      <3>1. t.holder \in Nat /\ t.grant \in Grants \cup {<<>>} /\ att[a].holder \in Nat
        BY AttemptFacts DEF Channel!Attempt
      <3> QED
        BY <3>1
    <2>3. s \in Server
      <3>1. t.grant \in Seq(Server)
        BY <2>2, ChannelAssumption, EmptySeq
      <3>2. Len(t.grant) \in Nat /\ t.holder \in 1..Len(t.grant)
        BY <3>1, <2>2, <1>3, LenProperties
      <3> QED
        BY <3>1, <3>2, ElementOfSeq
    <2>4. Channel!Reused(s) => slot[s] \in DOMAIN links
      BY <2>3, <1>1 DEF Channel!Reused, Channel!Live
    <2>5. ~Channel!Reused(s) => <<a, t.holder>> \notin DOMAIN links
      <3>1. \A m \in DOMAIN links : m = <<a, t.holder>> => m[1] = a /\ m[2] = t.holder
        OBVIOUS
      <3>2. att[a].holder \in Nat
        BY AttemptFacts
      <3> QED
        BY <3>1, <3>2, <1>1 DEF Placed
    <2>6. l \in Opening \X Nat
      BY <1>1, <2>2, <2>4
    <2> DEFINE new == [server |-> s, phase |-> "connecting", closing |-> FALSE, calls |-> {}]
    <2>7. new \in Channel!Link /\ new.calls = {} /\ new.phase # "dead"
      BY <2>3 DEF Channel!Link
    <2> HIDE DEF s, l, new
    <2>8. /\ DOMAIN links' = DOMAIN links \cup {l}
          /\ \A x \in DOMAIN links : links'[x] = links[x]
          /\ \A x \in DOMAIN links' \ DOMAIN links : x = <<a, t.holder>> /\ links'[x] = new
      <3>1. CASE Channel!Reused(s)
        <4>1. l = slot[s] /\ links' = links
          BY <3>1, <2>1 DEF l
        <4> QED
          BY <4>1, <3>1, <2>4
      <3>2. CASE ~Channel!Reused(s)
        <4>1. l = <<a, t.holder>> /\ l \notin DOMAIN links
          BY <3>2, <2>5 DEF l
        <4>2. links' = [x \in DOMAIN links \cup {l} |-> IF x = l THEN new ELSE links[x]]
          BY <3>2, <2>1 DEF new
        <4> QED
          BY <4>1, <4>2
      <3> QED
        BY <3>1, <3>2
    <2>9. links' \in [DOMAIN links' -> Channel!Link] /\ DOMAIN links' \subseteq Opening \X Nat
      <3>1. \A x \in DOMAIN links' : links'[x] \in Channel!Link
        BY <1>1, <2>7, <2>8
      <3>2. links' = [x \in DOMAIN links' |-> links'[x]]
        BY <1>1, <2>1
      <3> QED
        BY <3>1, <3>2, <1>1, <2>6, <2>8
    <2>10. SameCalls
      BY <2>7, <2>8 DEF SameCalls
    <2>11. [t EXCEPT !.phase = "post", !.link = l] \in Channel!Attempt
      BY <2>6 DEF Channel!Attempt
    <2>12. /\ att' \in [Opening -> Channel!Attempt] /\ att'[a].phase = "post" /\ att'[a].link = l
           /\ att'[a].holder = t.holder /\ \A b \in Opening : b # a => att'[b] = att[b]
      BY <1>1, <2>1, <2>11 DEF Channel!Attempt
    <2>13. ChannelTypes'
      <3>1. slot' \in [Server -> DOMAIN links' \cup {Channel!NoLink}]
        BY <1>1, <2>1, <2>8
      <3>2. route' \in [Opening -> DOMAIN links' \cup {Channel!NoLink}]
        BY <1>1, <2>8
      <3> QED
        BY <3>1, <3>2, <2>1, <2>9, <2>12 DEF ChannelInv, ChannelTypes
    <2>14. ASSUME NEW b \in Opening PROVE OpenOut(b)' /\ PieceOut(b)' /\ Placed(b)'
      <3>1. OpenOut(b)' /\ PieceOut(b)'
        BY <2>1, <2>10, <2>12, SameOpen, SamePieces DEF SamePiece
      <3>2. CASE b = a
        <4>1. OpenCall(a) \in made' /\ times'[OpenCall(a)] = 0
          BY <1>1, <2>1 DEF Placed
        <4>2. ASSUME NEW m \in DOMAIN links', m[1] = a PROVE m[2] <= t.holder
          <5>1. CASE m \in DOMAIN links
            <6>1. att[a].holder \in Nat /\ m[2] \in Nat
              BY <1>1, <5>1, AttemptFacts
            <6>2. att[a].phase = "verdict" /\ m[2] <= att[a].holder
              BY <5>1, <4>2, <1>1 DEF Placed
            <6> QED
              BY <6>1, <6>2
          <5>2. CASE m \notin DOMAIN links
            <6>1. m[2] = t.holder
              BY <5>2, <2>8
            <6> QED
              BY <6>1, <2>2
          <5> QED
            BY <5>1, <5>2
        <4>3. att'[a].link \in DOMAIN links'
          BY <2>8, <2>12
        <4>4. Placed(a)'
          BY <4>1, <4>2, <4>3, <2>12 DEF Placed
        <4> QED
          BY <4>4, <3>1, <3>2
      <3>3. CASE b # a
        <4>1. \A x \in DOMAIN links' \ DOMAIN links : x[1] # b
          BY <2>8, <3>3
        <4>2. Placed(b)'
          BY <4>1, <3>3, <2>1, <2>8, <2>12, SamePlace
        <4> QED
          BY <4>2, <3>1
      <3> QED
        BY <3>2, <3>3
    <2>15. ChannelInv'
      BY <2>10, <2>13, <2>14, SameDead DEF ChannelInv
    <2> QED
      BY <2>1, <2>15 DEF ServiceStep
  <1> QED
    BY <1>2, <1>3

\* a step of one opening that has no call out, on the connections as they are
LEMMA OpeningMoves ==
    ASSUME ChannelInv, NEW a \in Opening, ChannelTypes', links' = links, Placed(a)',
           att[a].phase # "out", att'[a].phase # "out", \A b \in Opening : b # a => att'[b] = att[b],
           \A c \in Channel!Call : c # OpenCall(a) => (c \in made' <=> c \in made) /\ times'[c] = times[c]
    PROVE  ChannelInv'
  <1>1. SameCalls
    BY DEF SameCalls
  <1>2. ASSUME NEW b \in Opening PROVE OpenOut(b)' /\ PieceOut(b)' /\ Placed(b)'
    <2>0. OpenCall(b) \in Channel!Call /\ PieceCall(b) \in Channel!Call /\ PieceCall(b) # OpenCall(a)
          /\ (b # a => OpenCall(b) # OpenCall(a))
      BY AttemptFacts DEF OpenCall, PieceCall
    <2>1. SamePiece(b)
      BY <2>0 DEF SamePiece
    <2>2. PieceOut(b)'
      BY <2>1, <1>1, SamePieces
    <2>3. OpenOut(b)'
      BY <1>1, SameOpen
    <2>4. CASE b # a
      <3>1. Placed(b)'
        BY <2>0, <2>4, SamePlace
      <3> QED
        BY <3>1, <2>2, <2>3
    <2> QED
      BY <2>2, <2>3, <2>4
  <1> QED
    BY <1>1, <1>2, SameDead DEF ChannelInv

LEMMA OpenTransferKeeps ==
    ASSUME ChannelInv, NEW a \in Opening, Channel!OpenTransfer(a) PROVE ChannelInv' /\ ServiceStep
  <1>1. /\ att \in [Opening -> Channel!Attempt] /\ att[a] \in Channel!Attempt /\ Placed(a)
        /\ times \in [Channel!Call -> Nat] /\ made \subseteq Channel!Call /\ tickets \subseteq Opening
        /\ OpenCall(a) \in Channel!Call
    BY AttemptFacts DEF ChannelInv, ChannelTypes
  <1>2. /\ OpenCall(a) \notin made /\ made' = made \cup {OpenCall(a)}
        /\ Channel!AskTicket(a, [att[a] EXCEPT !.phase = "ticket"])
        /\ UNCHANGED <<alive, recordLink, links, slot, route>>
    BY DEF Channel!OpenTransfer, Channel!linkVars, OpenCall
  <1>3. att[a].phase = "idle" /\ times[OpenCall(a)] = 0 /\ \A l \in DOMAIN links : l[1] # a
    BY <1>1, <1>2 DEF Placed
  <1>4. \A c \in Channel!Call : c # OpenCall(a) => (c \in made' <=> c \in made)
    BY <1>2
  <1>5. OpenCall(a) \in made' /\ made' \subseteq Channel!Call
    BY <1>1, <1>2
  <1>6. CASE recordLink = "up"
    <2>1. /\ tickets' = tickets \cup {a} /\ att' = [att EXCEPT ![a] = [att[a] EXCEPT !.phase = "ticket"]]
          /\ times' = times
      BY <1>2, <1>6 DEF Channel!AskTicket
    <2>2. [att[a] EXCEPT !.phase = "ticket"] \in Channel!Attempt /\ [att[a] EXCEPT !.phase = "ticket"].phase = "ticket"
      BY <1>1 DEF Channel!Attempt
    <2>3. /\ att' \in [Opening -> Channel!Attempt] /\ att'[a].phase = "ticket"
          /\ \A b \in Opening : b # a => att'[b] = att[b]
      BY <1>1, <2>1, <2>2
    <2>4. ChannelTypes'
      BY <1>1, <1>2, <1>5, <2>1, <2>3 DEF ChannelInv, ChannelTypes
    <2>5. Placed(a)'
      BY <1>2, <1>3, <1>5, <2>1, <2>3 DEF Placed
    <2>6. ChannelInv'
      BY <1>2, <1>3, <1>4, <2>1, <2>3, <2>4, <2>5, OpeningMoves
    <2>7. Channel!Service!Make(OpenCall(a))
      BY <1>2, <2>1 DEF Channel!Service!Make
    <2>8. ServiceStep
      BY <1>1, <2>7 DEF ServiceStep, Channel!Service!Next
    <2> QED
      BY <2>6, <2>8
  <1>7. CASE recordLink # "up"
    <2>1. Channel!End(a) /\ tickets' = tickets
      BY <1>2, <1>7 DEF Channel!AskTicket
    <2>2. Channel!Over \in Channel!Attempt /\ Channel!Over.phase = "over"
      BY DEF Channel!Over, Channel!NewAttempt, Channel!Attempt, Channel!Verdict
    <2>3. /\ att' \in [Opening -> Channel!Attempt] /\ att'[a].phase = "over"
          /\ \A b \in Opening : b # a => att'[b] = att[b]
      BY <1>1, <2>1, <2>2 DEF Channel!End
    <2>4. times' = [times EXCEPT ![OpenCall(a)] = 1]
      BY <1>1, <1>3, <2>1 DEF Channel!End, OpenCall
    <2>5. /\ times' \in [Channel!Call -> Nat] /\ times'[OpenCall(a)] = 1
          /\ \A c \in Channel!Call : c # OpenCall(a) => times'[c] = times[c]
      BY <1>1, <2>4
    <2>6. ChannelTypes'
      BY <1>1, <1>2, <1>5, <2>1, <2>3, <2>5 DEF ChannelInv, ChannelTypes
    <2>7. Placed(a)'
      BY <1>5, <2>3, <2>5 DEF Placed
    <2>8. ChannelInv'
      BY <1>2, <1>3, <1>4, <2>3, <2>5, <2>6, <2>7, OpeningMoves
    <2>9. Channel!Service!Refuse(OpenCall(a))
      BY <1>2, <2>4 DEF Channel!Service!Refuse
    <2>10. ServiceStep
      BY <1>1, <2>9 DEF ServiceStep, Channel!Service!Next
    <2> QED
      BY <2>8, <2>10
  <1> QED
    BY <1>6, <1>7

LEMMA TakeTicketKeeps ==
    ASSUME ChannelInv, NEW a \in Opening, Channel!TakeTicket(a) PROVE ChannelInv' /\ ServiceStep
  <1> DEFINE t == [att[a] EXCEPT !.answered = TRUE, !.holder = 1]
  <1>1. /\ slot \in [Server -> DOMAIN links \cup {Channel!NoLink}]
        /\ route \in [Opening -> DOMAIN links \cup {Channel!NoLink}] /\ att[a] \in Channel!Attempt
    BY DEF ChannelInv, ChannelTypes
  <1>2. /\ att[a].phase = "arrived" /\ UNCHANGED <<alive, recordLink, tickets, route, made>>
        /\ (Channel!End(a) /\ UNCHANGED <<links, slot>>) \/ Channel!TryHolder(a, t)
    BY DEF Channel!TakeTicket, Channel!ticketVars
  <1>3. t \in Channel!Attempt /\ t.holder = 1
    BY <1>1 DEF Channel!Attempt
  <1> HIDE DEF t
  <1>4. CASE Channel!End(a) /\ UNCHANGED <<links, slot>>
    BY <1>1, <1>2, <1>4, EndKeeps
  <1>5. CASE Channel!TryHolder(a, t)
    BY <1>2, <1>3, <1>5, TryHolderKeeps
  <1> QED
    BY <1>2, <1>4, <1>5

LEMMA HandleVerdictKeeps ==
    ASSUME ChannelInv, NEW a \in Opening, Channel!HandleVerdict(a) PROVE ChannelInv' /\ ServiceStep
  <1> DEFINE t == [att[a] EXCEPT !.holder = @ + 1]
  <1>1. /\ slot \in [Server -> DOMAIN links \cup {Channel!NoLink}] /\ Placed(a)
        /\ route \in [Opening -> DOMAIN links \cup {Channel!NoLink}] /\ att[a] \in Channel!Attempt
    BY DEF ChannelInv, ChannelTypes
  <1>2. att[a].phase = "verdict" /\ UNCHANGED <<alive, recordLink, tickets, made>>
    BY DEF Channel!HandleVerdict, Channel!ticketVars
  <1>3. \/ Channel!End(a) /\ UNCHANGED <<links, slot>> /\ (route' = route \/ route' = [route EXCEPT ![a] = att[a].link])
        \/ Channel!TryHolder(a, t) /\ route' = route
    BY DEF Channel!HandleVerdict, Channel!linkVars
  <1>4. t \in Channel!Attempt /\ t.holder = att[a].holder + 1
    BY <1>1 DEF Channel!Attempt
  <1>5. att[a].link \in DOMAIN links
    BY <1>1, <1>2 DEF Placed
  <1> HIDE DEF t
  <1>6. CASE Channel!End(a) /\ UNCHANGED <<links, slot>> /\ (route' = route \/ route' = [route EXCEPT ![a] = att[a].link])
    <2>1. route' \in [Opening -> DOMAIN links \cup {Channel!NoLink}]
      BY <1>1, <1>5, <1>6
    <2> QED
      BY <1>1, <1>2, <1>6, <2>1, EndKeeps
  <1>7. CASE Channel!TryHolder(a, t) /\ route' = route
    BY <1>2, <1>4, <1>7, TryHolderKeeps
  <1> QED
    BY <1>3, <1>6, <1>7

LEMMA PostKeeps ==
    ASSUME ChannelInv, NEW a \in Opening, Channel!Post(a) PROVE ChannelInv' /\ ServiceStep
  <1>0. PICK l : l = att[a].link
    OBVIOUS
  <1>1. /\ att \in [Opening -> Channel!Attempt] /\ att[a] \in Channel!Attempt /\ Placed(a)
        /\ links \in [DOMAIN links -> Channel!Link] /\ OpenCall(a) \in Channel!Call
    BY AttemptFacts DEF ChannelInv, ChannelTypes
  <1>2. att[a].phase = "post" /\ UNCHANGED <<alive, recordLink, tickets, slot, route, made, times>>
    BY DEF Channel!Post, Channel!ticketVars, Channel!callVars
  <1>3. l \in DOMAIN links /\ links[l] \in Channel!Link
    BY <1>0, <1>1, <1>2 DEF Placed
  <1>4. CASE Channel!Live(l)
    <2>1. /\ links' = [links EXCEPT ![l] = [links[l] EXCEPT !.calls = @ \cup {OpenCall(a)}]]
          /\ att' = [att EXCEPT ![a] = [att[a] EXCEPT !.phase = "out"]]
      BY <1>0, <1>4 DEF Channel!Post, OpenCall
    <2>2. PICK n : n = [links[l] EXCEPT !.calls = @ \cup {OpenCall(a)}]
      OBVIOUS
    <2>3. n \in Channel!Link /\ n.calls = links[l].calls \cup {OpenCall(a)} /\ n.phase = links[l].phase /\ n.phase # "dead"
      BY <1>1, <1>3, <1>4, <2>2 DEF Channel!Link, Channel!Live
    <2>4. /\ links' \in [DOMAIN links' -> Channel!Link] /\ DOMAIN links' = DOMAIN links /\ links'[l] = n
          /\ \A m \in DOMAIN links : m # l => links'[m] = links[m]
      BY <1>1, <1>3, <2>1, <2>2, <2>3
    <2>5. PICK u : u = [att[a] EXCEPT !.phase = "out"]
      OBVIOUS
    <2>6. u \in Channel!Attempt /\ u.phase = "out" /\ u.link = l /\ u.holder = att[a].holder
      BY <1>0, <1>1, <2>5 DEF Channel!Attempt
    <2>7. att' \in [Opening -> Channel!Attempt] /\ att'[a] = u /\ \A b \in Opening : b # a => att'[b] = att[b]
      BY <1>1, <2>1, <2>5, <2>6
    <2>8. ChannelTypes'
      BY <1>2, <2>4, <2>7 DEF ChannelInv, ChannelTypes
    <2>9. DeadIsEmpty'
      BY <2>3, <2>4 DEF ChannelInv, DeadIsEmpty
    <2>10. ASSUME NEW b \in Opening PROVE OpenOut(b)' /\ PieceOut(b)' /\ Placed(b)'
      <3>1. OpenOut(b) /\ PieceOut(b) /\ Placed(b)
        BY DEF ChannelInv
      <3>2. PieceCall(b) # OpenCall(a) /\ (b # a => OpenCall(b) # OpenCall(a))
        BY DEF OpenCall, PieceCall
      <3>3. \A m \in DOMAIN links : PieceCall(b) \in links'[m].calls <=> PieceCall(b) \in links[m].calls
        BY <2>3, <2>4, <3>2
      <3>4. PieceOut(b)'
        BY <1>2, <2>4, <3>1, <3>3 DEF PieceOut
      <3>5. CASE b = a
        <4>1. Placed(a)'
          BY <1>1, <1>2, <1>3, <2>4, <2>6, <2>7 DEF Placed
        <4>2. \A m \in DOMAIN links : OpenCall(a) \notin links[m].calls
          BY <3>1, <3>5, <1>2 DEF OpenOut
        <4>3. OpenOut(a)'
          BY <4>2, <1>3, <2>3, <2>4, <2>6, <2>7 DEF OpenOut
        <4> QED
          BY <4>1, <4>3, <3>4, <3>5
      <3>6. CASE b # a
        <4>1. Placed(b)'
          BY <1>2, <2>4, <2>7, <3>1, <3>6 DEF Placed
        <4>2. \A m \in DOMAIN links : /\ OpenCall(b) \in links'[m].calls <=> OpenCall(b) \in links[m].calls
                                      /\ links'[m].phase = links[m].phase
          BY <2>3, <2>4, <3>2, <3>6
        <4>3. OpenOut(b)'
          <5>1. att[b].phase = "out" => att[b].link \in DOMAIN links
            BY <3>1 DEF Placed
          <5> QED
            BY <5>1, <4>2, <2>4, <2>7, <3>1, <3>6 DEF OpenOut
        <4> QED
          BY <4>1, <4>3, <3>4
      <3> QED
        BY <3>5, <3>6
    <2>11. ChannelInv'
      BY <2>8, <2>9, <2>10 DEF ChannelInv
    <2> QED
      BY <1>2, <2>11 DEF ServiceStep
  <1>5. CASE ~Channel!Live(l)
    <2>1. /\ links' = links
          /\ att' = [att EXCEPT ![a] = [att[a] EXCEPT !.phase = "verdict", !.verdict = "transport"]]
      BY <1>0, <1>5 DEF Channel!Post
    <2>2. PICK u : u = [att[a] EXCEPT !.phase = "verdict", !.verdict = "transport"]
      OBVIOUS
    <2>3. u \in Channel!Attempt /\ u.phase = "verdict" /\ u.link = att[a].link /\ u.holder = att[a].holder
      BY <1>1, <2>2 DEF Channel!Attempt, Channel!Verdict
    <2>4. att' \in [Opening -> Channel!Attempt] /\ att'[a] = u /\ \A b \in Opening : b # a => att'[b] = att[b]
      BY <1>1, <2>1, <2>2, <2>3
    <2>5. ChannelTypes'
      BY <1>2, <2>1, <2>4 DEF ChannelInv, ChannelTypes
    <2>6. Placed(a)'
      BY <1>1, <1>2, <2>1, <2>3, <2>4 DEF Placed
    <2>7. ChannelInv'
      BY <1>2, <2>1, <2>3, <2>4, <2>5, <2>6, OpeningMoves
    <2> QED
      BY <1>2, <2>7 DEF ServiceStep
  <1> QED
    BY <1>4, <1>5

LEMMA MovePieceKeeps ==
    ASSUME ChannelInv, NEW a \in Opening, Channel!MovePiece(a) PROVE ChannelInv' /\ ServiceStep
  <1>0. PICK l : l = route[a]
    OBVIOUS
  <1>1. /\ links \in [DOMAIN links -> Channel!Link] /\ PieceOut(a) /\ l \in DOMAIN links \cup {Channel!NoLink}
        /\ made \subseteq Channel!Call /\ times \in [Channel!Call -> Nat] /\ PieceCall(a) \in Channel!Call
    BY <1>0, AttemptFacts DEF ChannelInv, ChannelTypes
  <1>2. /\ PieceCall(a) \notin made /\ made' = made \cup {PieceCall(a)}
        /\ UNCHANGED <<alive, recordLink, tickets, att, slot, route>>
    BY DEF Channel!MovePiece, Channel!ticketVars, PieceCall
  <1>3. times[PieceCall(a)] = 0 /\ \A m \in DOMAIN links : PieceCall(a) \notin links[m].calls
    BY <1>1, <1>2 DEF PieceOut
  <1>4. made' \subseteq Channel!Call /\ PieceCall(a) \in made'
    BY <1>1, <1>2
  <1>5. ASSUME NEW b \in Opening
        PROVE  /\ OpenCall(b) \in Channel!Call /\ OpenCall(b) # PieceCall(a) /\ (OpenCall(b) \in made' <=> OpenCall(b) \in made)
               /\ PieceCall(b) \in Channel!Call
               /\ b # a => PieceCall(b) # PieceCall(a) /\ (PieceCall(b) \in made' <=> PieceCall(b) \in made)
    <2>1. OpenCall(b) # PieceCall(a) /\ (b # a => PieceCall(b) # PieceCall(a))
      BY DEF OpenCall, PieceCall
    <2> QED
      BY <2>1, <1>2, AttemptFacts
  <1>6. CASE Channel!Live(l)
    <2>1. /\ links' = [links EXCEPT ![l] = [links[l] EXCEPT !.calls = @ \cup {PieceCall(a)}]]
          /\ times' = times
      BY <1>0, <1>6 DEF Channel!MovePiece, PieceCall
    <2>2. PICK n : n = [links[l] EXCEPT !.calls = @ \cup {PieceCall(a)}]
      OBVIOUS
    <2>30. l \in DOMAIN links
      BY <1>1, <1>6 DEF Channel!Live
    <2>3. n \in Channel!Link /\ n.calls = links[l].calls \cup {PieceCall(a)} /\ n.phase = links[l].phase /\ n.phase # "dead"
      BY <1>1, <1>6, <2>2, <2>30 DEF Channel!Link, Channel!Live
    <2>4. /\ links' \in [DOMAIN links' -> Channel!Link] /\ DOMAIN links' = DOMAIN links /\ links'[l] = n
          /\ \A m \in DOMAIN links : m # l => links'[m] = links[m]
      BY <1>1, <2>1, <2>2, <2>3, <2>30
    <2>5. ChannelTypes'
      BY <1>2, <1>4, <2>1, <2>4 DEF ChannelInv, ChannelTypes
    <2>6. DeadIsEmpty'
      BY <2>3, <2>4 DEF ChannelInv, DeadIsEmpty
    <2>7. ASSUME NEW b \in Opening PROVE OpenOut(b)' /\ PieceOut(b)' /\ Placed(b)'
      <3>1. OpenOut(b) /\ PieceOut(b) /\ Placed(b)
        BY DEF ChannelInv
      <3>2. Placed(b)'
        BY <1>2, <1>5, <2>1, <2>4, <3>1 DEF Placed
      <3>3. \A m \in DOMAIN links : /\ OpenCall(b) \in links'[m].calls <=> OpenCall(b) \in links[m].calls
                                    /\ links'[m].phase = links[m].phase
        BY <2>3, <2>4, <1>5
      <3>4. att[b].phase = "out" => att[b].link \in DOMAIN links
        BY <3>1 DEF Placed
      <3>5. OpenOut(b)'
        BY <1>2, <2>4, <3>1, <3>3, <3>4 DEF OpenOut
      <3>6. CASE b = a
        <4>1. \A m \in DOMAIN links : PieceCall(a) \in links'[m].calls <=> m = l
          BY <1>3, <2>3, <2>4
        <4>2. PieceOut(a)'
          BY <4>1, <1>3, <1>4, <2>1, <2>30, <2>4 DEF PieceOut
        <4> QED
          BY <4>2, <3>2, <3>5, <3>6
      <3>7. CASE b # a
        <4>1. \A m \in DOMAIN links : PieceCall(b) \in links'[m].calls <=> PieceCall(b) \in links[m].calls
          BY <1>5, <2>3, <2>4, <3>7
        <4>2. PieceCall(b) \in made' <=> PieceCall(b) \in made
          BY <1>5, <3>7
        <4>3. PieceOut(b)'
          BY <4>1, <4>2, <2>1, <2>4, <3>1 DEF PieceOut
        <4> QED
          BY <4>3, <3>2, <3>5
      <3> QED
        BY <3>6, <3>7
    <2>8. ChannelInv'
      BY <2>5, <2>6, <2>7 DEF ChannelInv
    <2>9. Channel!Service!Make(PieceCall(a))
      BY <1>2, <2>1 DEF Channel!Service!Make
    <2>10. ServiceStep
      BY <1>1, <2>9 DEF ServiceStep, Channel!Service!Next
    <2> QED
      BY <2>8, <2>10
  <1>7. CASE ~Channel!Live(l)
    <2>1. links' = links /\ times' = [times EXCEPT ![PieceCall(a)] = 1]
      BY <1>0, <1>1, <1>3, <1>7 DEF Channel!MovePiece, PieceCall
    <2>2. /\ times' \in [Channel!Call -> Nat] /\ times'[PieceCall(a)] = 1
          /\ \A c \in Channel!Call : c # PieceCall(a) => times'[c] = times[c]
      BY <1>1, <2>1
    <2>3. ChannelTypes'
      BY <1>2, <1>4, <2>1, <2>2 DEF ChannelInv, ChannelTypes
    <2>4. SameCalls
      BY <2>1 DEF SameCalls
    <2>5. ASSUME NEW b \in Opening PROVE OpenOut(b)' /\ PieceOut(b)' /\ Placed(b)'
      <3>1. OpenOut(b)'
        BY <1>2, <2>4, SameOpen
      <3>2. Placed(b)'
        BY <1>2, <1>5, <2>1, <2>2, SamePlace
      <3>3. CASE b = a
        <4>1. PieceOut(a)'
          BY <1>3, <1>4, <2>1, <2>2 DEF PieceOut
        <4> QED
          BY <4>1, <3>1, <3>2, <3>3
      <3>4. CASE b # a
        <4>1. SamePiece(b)
          BY <1>5, <2>2, <3>4 DEF SamePiece
        <4> QED
          BY <4>1, <3>1, <3>2, <2>4, SamePieces
      <3> QED
        BY <3>3, <3>4
    <2>6. ChannelInv'
      BY <2>3, <2>4, <2>5, SameDead DEF ChannelInv
    <2>7. Channel!Service!Refuse(PieceCall(a))
      BY <1>2, <2>1 DEF Channel!Service!Refuse
    <2>8. ServiceStep
      BY <1>1, <2>7 DEF ServiceStep, Channel!Service!Next
    <2> QED
      BY <2>6, <2>8
  <1> QED
    BY <1>6, <1>7

\* Answers that come over a live connection: the openings go on, each piece gets its first answer.
LEMMA DeliverKeeps ==
    ASSUME ChannelInv, NEW l \in DOMAIN links, NEW C \in SUBSET links[l].calls, NEW v \in Channel!Verdict,
           NEW n \in Channel!Link, n.calls = links[l].calls \ C, n.phase = "dead" => n.calls = {},
           n.phase # "dead" => links[l].phase # "dead",
           links' = [links EXCEPT ![l] = n], Channel!Deliver(C, v),
           UNCHANGED <<recordLink, alive, tickets, slot, route, made>>
    PROVE  ChannelInv' /\ ServiceStep
  <1>1. /\ att \in [Opening -> Channel!Attempt] /\ links \in [DOMAIN links -> Channel!Link]
        /\ times \in [Channel!Call -> Nat] /\ made \subseteq Channel!Call /\ links[l].calls \subseteq Channel!Call
    BY DEF ChannelInv, ChannelTypes, Channel!Link
  <1>2. /\ links' \in [DOMAIN links' -> Channel!Link] /\ DOMAIN links' = DOMAIN links /\ links'[l] = n
        /\ \A m \in DOMAIN links : m # l => links'[m] = links[m]
    BY <1>1
  <1>3. \A m \in DOMAIN links : \A c : c \in links'[m].calls <=> c \in links[m].calls /\ ~(m = l /\ c \in C)
    BY <1>2
  <1>4. \A a \in Opening :
          /\ OpenCall(a) \notin C => att'[a] = att[a]
          /\ OpenCall(a) \in C => att'[a] = [att[a] EXCEPT !.phase = "verdict", !.verdict = v]
    BY DEF Channel!Deliver, OpenCall
  <1>5. \A a \in Opening :
          LET u == [att[a] EXCEPT !.phase = "verdict", !.verdict = v]
          IN  u \in Channel!Attempt /\ u.phase = "verdict" /\ u.link = att[a].link /\ u.holder = att[a].holder
    BY <1>1 DEF Channel!Attempt
  <1>6. att' \in [Opening -> Channel!Attempt]
    <2>1. \A a \in Opening : att'[a] \in Channel!Attempt
      BY <1>1, <1>4, <1>5
    <2>2. att' = [a \in Opening |-> att'[a]]
      BY DEF Channel!Deliver
    <2> QED
      BY <2>1, <2>2
  <1>7. \A c \in Channel!Call : times'[c] = IF c \in C /\ c[2] = "piece" THEN times[c] + 1 ELSE times[c]
    BY DEF Channel!Deliver
  <1>8. times' \in [Channel!Call -> Nat] /\ times' = [c \in Channel!Call |-> times'[c]]
    <2>1. \A c \in Channel!Call : times'[c] \in Nat
      BY <1>1, <1>7
    <2>2. times' = [c \in Channel!Call |-> times'[c]]
      BY DEF Channel!Deliver
    <2> QED
      BY <2>1, <2>2
  <1>9. ASSUME NEW a \in Opening
        PROVE  /\ times'[OpenCall(a)] = times[OpenCall(a)]
               /\ PieceCall(a) \notin C => times'[PieceCall(a)] = times[PieceCall(a)]
               /\ PieceCall(a) \in C => /\ times[PieceCall(a)] = 0 /\ PieceCall(a) \in made
                                        /\ times'[PieceCall(a)] = 1
    <2>1. /\ OpenCall(a) \in Channel!Call /\ PieceCall(a) \in Channel!Call /\ PieceOut(a)
          /\ OpenCall(a)[2] = "open" /\ PieceCall(a)[2] = "piece"
      BY AttemptFacts DEF ChannelInv, OpenCall, PieceCall
    <2>2. PieceCall(a) \in C => times[PieceCall(a)] = 0 /\ PieceCall(a) \in made
      BY <2>1 DEF PieceOut
    <2>3. OpenCall(a)[2] # "piece"
      BY <2>1
    <2>4. times'[OpenCall(a)] = times[OpenCall(a)] /\ (PieceCall(a) \notin C => times'[PieceCall(a)] = times[PieceCall(a)])
      BY <2>1, <2>3, <1>7
    <2>5. PieceCall(a) \in C => times'[PieceCall(a)] = times[PieceCall(a)] + 1
      BY <2>1, <1>7
    <2> QED
      BY <2>2, <2>4, <2>5
  <1>10. ChannelTypes'
    BY <1>1, <1>2, <1>6, <1>8 DEF ChannelInv, ChannelTypes
  <1>11. DeadIsEmpty'
    BY <1>2 DEF ChannelInv, DeadIsEmpty
  <1>12. ASSUME NEW a \in Opening PROVE OpenOut(a)' /\ PieceOut(a)' /\ Placed(a)'
    <2>1. OpenOut(a) /\ PieceOut(a) /\ Placed(a)
      BY DEF ChannelInv
    <2>2. OpenCall(a) \in C => att[a].phase = "out" /\ att[a].link = l
      BY <2>1 DEF OpenOut
    <2>3. \/ att'[a].phase = att[a].phase /\ att'[a].link = att[a].link /\ att'[a].holder = att[a].holder
          \/ /\ OpenCall(a) \in C /\ att[a].phase = "out" /\ att'[a].phase = "verdict"
             /\ att'[a].link = att[a].link /\ att'[a].holder = att[a].holder
      BY <1>4, <1>5, <2>2
    <2>4. Placed(a)'
      <3>1. OpenCall(a) \in made' <=> OpenCall(a) \in made
        OBVIOUS
      <3> QED
        BY <3>1, <1>2, <1>9, <2>1, <2>3 DEF Placed
    <2>5. OpenOut(a)'
      <3>1. CASE OpenCall(a) \in C
        <4>1. att'[a].phase = "verdict"
          BY <3>1, <1>4, <1>5
        <4>2. \A m \in DOMAIN links : OpenCall(a) \notin links'[m].calls
          BY <3>1, <2>1, <2>2, <1>3 DEF OpenOut
        <4> QED
          BY <4>1, <4>2, <1>2 DEF OpenOut
      <3>2. CASE OpenCall(a) \notin C
        <4>1. att'[a] = att[a]
          BY <3>2, <1>4
        <4>2. \A m \in DOMAIN links : OpenCall(a) \in links'[m].calls <=> OpenCall(a) \in links[m].calls
          BY <3>2, <1>3
        <4>3. att[a].phase = "out" => att[a].link \in DOMAIN links
          BY <2>1 DEF Placed
        <4>4. att[a].phase = "out" => OpenCall(a) \in links'[att[a].link].calls /\ links'[att[a].link].phase # "dead"
          BY <4>2, <4>3, <1>2, <1>11, <2>1 DEF OpenOut, DeadIsEmpty
        <4> QED
          BY <4>1, <4>2, <4>4, <1>2, <2>1 DEF OpenOut
      <3> QED
        BY <3>1, <3>2
    <2>6. PieceOut(a)'
      <3>1. CASE PieceCall(a) \in C
        <4>1. \A m \in DOMAIN links : PieceCall(a) \notin links'[m].calls
          BY <3>1, <2>1, <1>3 DEF PieceOut
        <4>2. PieceCall(a) \in made' /\ times'[PieceCall(a)] = 1
          BY <3>1, <1>9
        <4> QED
          BY <4>1, <4>2, <1>2 DEF PieceOut
      <3>2. CASE PieceCall(a) \notin C
        <4>1. \A m \in DOMAIN links : PieceCall(a) \in links'[m].calls <=> PieceCall(a) \in links[m].calls
          BY <3>2, <1>3
        <4>2. times'[PieceCall(a)] = times[PieceCall(a)] /\ (PieceCall(a) \in made' <=> PieceCall(a) \in made)
          BY <3>2, <1>9
        <4> QED
          BY <4>1, <4>2, <1>2, <2>1 DEF PieceOut
      <3> QED
        BY <3>1, <3>2
    <2> QED
      BY <2>4, <2>5, <2>6
  <1>13. ChannelInv'
    BY <1>10, <1>11, <1>12 DEF ChannelInv
  <1>14. Channel!Service!Answer({c \in C : c[2] = "piece"})
    <2>1. ASSUME NEW c \in C, c[2] = "piece" PROVE c \in made /\ times[c] = 0
      <3>1. c \in Opening \X {"open", "piece"}
        BY <1>1 DEF Channel!Call
      <3>2. c = PieceCall(c[1]) /\ c[1] \in Opening
        BY <3>1, <2>1 DEF PieceCall
      <3> QED
        BY <3>2, <1>9
    <2>2. \A c \in Channel!Call : times'[c] = IF c \in {e \in C : e[2] = "piece"} THEN 1 ELSE times[c]
      BY <2>1, <1>7
    <2>3. times' = [c \in Channel!Call |-> IF c \in {e \in C : e[2] = "piece"} THEN 1 ELSE times[c]]
      BY <2>2, <1>8
    <2> QED
      BY <2>1, <2>3 DEF Channel!Service!Answer
  <1>15. ServiceStep
    <2>1. {c \in C : c[2] = "piece"} \in SUBSET Channel!Call
      BY <1>1
    <2> QED
      BY <2>1, <1>14 DEF ServiceStep, Channel!Service!Next
  <1> QED
    BY <1>13, <1>15

LEMMA ReplyKeeps ==
    ASSUME ChannelInv, NEW l \in DOMAIN links, Channel!Reply(l) PROVE ChannelInv' /\ ServiceStep
  <1>1. PICK c \in links[l].calls, v \in {"ok", "refused", "next"} :
            links' = [links EXCEPT ![l] = [links[l] EXCEPT !.calls = @ \ {c}]] /\ Channel!Deliver({c}, v)
    BY DEF Channel!Reply
  <1>2. links[l].phase = "ready" /\ UNCHANGED <<recordLink, alive, tickets, slot, route, made>>
    BY DEF Channel!Reply, Channel!ticketVars
  <1>3. links[l] \in Channel!Link /\ v \in Channel!Verdict
    BY DEF ChannelInv, ChannelTypes, Channel!Verdict
  <1>4. PICK n : n = [links[l] EXCEPT !.calls = @ \ {c}]
    OBVIOUS
  <1>5. n \in Channel!Link /\ n.calls = links[l].calls \ {c} /\ n.phase = "ready"
    BY <1>2, <1>3, <1>4 DEF Channel!Link
  <1>6. {c} \in SUBSET links[l].calls
    OBVIOUS
  <1> QED
    BY <1>1, <1>2, <1>3, <1>4, <1>5, <1>6, DeliverKeeps

LEMMA FailAllKeeps ==
    ASSUME ChannelInv, NEW l \in DOMAIN links, Channel!FailAll(l) PROVE ChannelInv' /\ ServiceStep
  <1>1. PICK v : v = IF links[l].closing THEN "closed" ELSE "transport"
    OBVIOUS
  <1>2. v \in Channel!Verdict /\ links[l] \in Channel!Link /\ links[l].calls \in SUBSET links[l].calls
    BY <1>1 DEF ChannelInv, ChannelTypes, Channel!Verdict
  <1>3. PICK n : n = [links[l] EXCEPT !.phase = "dead", !.closing = FALSE, !.calls = {}]
    OBVIOUS
  <1>4. n \in Channel!Link /\ n.calls = links[l].calls \ links[l].calls /\ n.phase = "dead" /\ n.calls = {}
    BY <1>2, <1>3 DEF Channel!Link
  <1>5. /\ links' = [links EXCEPT ![l] = n] /\ Channel!Deliver(links[l].calls, v)
        /\ UNCHANGED <<recordLink, alive, tickets, slot, route, made>>
    BY <1>1, <1>3 DEF Channel!FailAll, Channel!ticketVars
  <1> QED
    BY <1>2, <1>4, <1>5, DeliverKeeps

LEMMA ChannelStart == ASSUME Channel!Init PROVE ChannelInv /\ Channel!Service!Init
  <1> USE DEF Channel!Init
  <1>1. Channel!NewAttempt \in Channel!Attempt /\ Channel!NewAttempt.phase = "idle"
    BY DEF Channel!NewAttempt, Channel!Attempt, Channel!Verdict
  <1>2. DOMAIN links = {} /\ links = [l \in {} |-> <<>>]
    OBVIOUS
  <1>3. ChannelTypes
    <2>1. links \in [DOMAIN links -> Channel!Link]
      BY <1>2
    <2>2. att \in [Opening -> Channel!Attempt] /\ times \in [Channel!Call -> Nat]
      BY <1>1
    <2> QED
      BY <1>2, <2>1, <2>2 DEF ChannelTypes
  <1>4. ASSUME NEW a \in Opening PROVE Placed(a) /\ OpenOut(a) /\ PieceOut(a)
    <2>1. OpenCall(a) \in Channel!Call /\ PieceCall(a) \in Channel!Call
      BY DEF OpenCall, PieceCall, Channel!Call
    <2>2. att[a].phase = "idle" /\ times[OpenCall(a)] = 0 /\ times[PieceCall(a)] = 0
      BY <1>1, <2>1
    <2> QED
      BY <1>2, <2>2 DEF Placed, OpenOut, PieceOut
  <1> QED
    BY <1>2, <1>3, <1>4 DEF ChannelInv, DeadIsEmpty, Channel!Service!Init

LEMMA ChannelStep == ASSUME ChannelInv, Channel!Next PROVE ChannelInv' /\ ServiceStep
  <1>1. ASSUME NEW a \in Opening,
               Channel!OpenTransfer(a) \/ Channel!TicketAnswered(a) \/ Channel!AttemptStep(a) \/ Channel!MovePiece(a)
        PROVE  ChannelInv' /\ ServiceStep
    BY <1>1, OpenTransferKeeps, TicketAnsweredKeeps, TakeTicketKeeps, PostKeeps, HandleVerdictKeeps,
       WaitExpiresKeeps, MovePieceKeeps DEF Channel!AttemptStep
  <1>2. ASSUME NEW l \in DOMAIN links, Channel!LinkReady(l) \/ Channel!Reply(l) \/ Channel!FailAll(l)
        PROVE  ChannelInv' /\ ServiceStep
    BY <1>2, LinkReadyKeeps, ReplyKeeps, FailAllKeeps
  <1>3. ASSUME Channel!RecordLost \/ Channel!LossStep \/ Channel!Destroy PROVE ChannelInv' /\ ServiceStep
    BY <1>3, RecordLostKeeps, CloseChannelKeeps, FailTicketsKeeps, RecordBackKeeps, DestroyKeeps DEF Channel!LossStep
  <1> QED
    BY <1>1, <1>2, <1>3 DEF Channel!Next

LEMMA ChannelUntouched == ASSUME ChannelInv, UNCHANGED channelVars PROVE ChannelInv' /\ UNCHANGED <<made, times>>
  <1>1. UNCHANGED <<recordLink, alive, tickets, att, links, slot, route, made, times>>
    BY DEF channelVars
  <1>2. SameCalls /\ DOMAIN links' = DOMAIN links
    BY <1>1 DEF SameCalls
  <1>3. ChannelTypes'
    BY <1>1 DEF ChannelInv, ChannelTypes
  <1> QED
    BY <1>1, <1>2, <1>3, ChannelAside

LEMMA ChannelTyped == ASSUME ChannelInv PROVE Channel!TypeOK
  <1>1. \A l \in DOMAIN links : l # Channel!NoLink
    <2> SUFFICES ASSUME NEW l \in DOMAIN links PROVE l # Channel!NoLink
      OBVIOUS
    <2>1. PICK a \in Opening, k \in Nat : l = <<a, k>>
      BY DEF ChannelInv, ChannelTypes
    <2> QED
      BY <2>1 DEF Channel!NoLink
  <1>2. ASSUME NEW a \in Opening, att[a].phase = "out"
        PROVE  Channel!Live(att[a].link) /\ <<a, "open">> \in links[att[a].link].calls
    BY <1>1, <1>2 DEF ChannelInv, Placed, OpenOut, OpenCall, Channel!Live
  <1>3. ASSUME NEW a \in Opening, <<a, "piece">> \in made, times[<<a, "piece">>] = 0
        PROVE  \E l \in DOMAIN links : Channel!Live(l) /\ <<a, "piece">> \in links[l].calls
    <2>1. PICK l \in DOMAIN links : PieceCall(a) \in links[l].calls
      BY <1>3 DEF ChannelInv, PieceOut, PieceCall
    <2>2. links[l].phase # "dead"
      BY <2>1 DEF ChannelInv, DeadIsEmpty
    <2> QED
      BY <1>1, <2>1, <2>2 DEF PieceCall, Channel!Live
  <1> QED
    BY <1>2, <1>3 DEF ChannelInv, ChannelTypes, Channel!TypeOK
=============================================================================
