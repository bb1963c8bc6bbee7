-------------------------- MODULE SyncEngineProofs --------------------------
(***************************************************************************)
(* Proofs about the sync engine (SyncEngine), for any clients, servers,    *)
(* operations, modes and bounds: the types of the state, that no operation *)
(* enters a chain twice, and, for clients that keep to their replica, that *)
(* what a client shows is what its replica's chain says.                   *)
(*                                                                         *)
(* A client confirms a pending row by the tag in the server's answer, so   *)
(* the argument rests on tags: the forms a client makes of an operation    *)
(* are numbered, and wherever a form of it may be - in a chain, a row, a   *)
(* request, or a commit left behind by a lost session - its author's row   *)
(* has counted it. So two forms with one tag are one form.                 *)
(*                                                                         *)
(* In strict mode every record of a chain also names the block before it,  *)
(* from which follow that clients show a prefix and never see a fork.      *)
(***************************************************************************)
EXTENDS SyncEngine, DivergenceProofs, SequenceTheorems

Of(s) == {s[i] : i \in DOMAIN s}

\* a client never connects to another replica than its own
HomesKept == \A c \in Client : Replicas[c] = {HomeOf(c)}

-----------------------------------------------------------------------------
(* Types *)

\* a session that is gone owes no answer
Owed == \A c \in Client : conn[c] = NoServer => answer[c] = <<>>
TypeInv == TypeOK /\ Owed

-----------------------------------------------------------------------------
(* Forms *)

RowForms(e) == {e.rows[i].form : i \in DOMAIN e.rows}
Commits(q) == {p.form : p \in {x \in Of(q) : x.type = "commit"}}
Left(q) == {p.form : p \in Of(q)}
AllForms ==
    {f \in Form : \/ \E s \in Server : f \in Of(log[s])
                  \/ \E c \in Client : f \in RowForms(eng[c]) \cup Commits(c2s[c]) \cup Left(late[c])}

\* a tag names one form
Consistent(A) == \A f, g \in A : f.tag = g.tag => f = g
\* c has counted the forms it made
Made(c, e, A) ==
    \A f \in A : f.tag[2] = c /\ OpIn(f) \notin {Root, First} =>
        \E i \in DOMAIN e.rows : OpIn(e.rows[i].form) = OpIn(f) /\ f.tag[3] <= e.rows[i].ver
\* what a form names as the newest special record is one
SpecialsTrue(A) == \A f \in A : f.special # NoTag => f.special[1] \in SpecialOps

-----------------------------------------------------------------------------
(* The engine of a client whose replica's chain is L *)

OpsApart(e) == \A i, j \in DOMAIN e.rows : OpIn(e.rows[i].form) = OpIn(e.rows[j].form) => i = j
OnChain(r, L) == r.id.seq \in DOMAIN L /\ r.form = L[r.id.seq] /\ r.id = IdOf(Block(L, r.id.seq))
Placed(e, L) == \A i \in RowsIn(e, {"in_sync", "pending_sync"}) : OnChain(e.rows[i], L)
OwnPending(e) == \A i \in RowsIn(e, {"pending_commit"}) : OpIn(e.rows[i].form) \notin {Root, First}
\* in strict mode nothing is shown after a gap
NoGap(e) ==
    Strict => \A i \in RowsIn(e, {"in_sync"}) : \A k \in 1..e.rows[i].id.seq : FindSeq(e, k) # {}
\* nobody gives up a record by itself
NotDropped(e) ==
    AskClients = {} => \A i \in RowsIn(e, {"invalid"}) : OpIn(e.rows[i].form) \in RefusedOps

EngineOK(c, e, L, A) ==
    /\ RowForms(e) \subseteq A
    /\ OpsApart(e) /\ Placed(e, L) /\ OwnPending(e) /\ NoGap(e) /\ NotDropped(e)
    /\ Made(c, e, A)

-----------------------------------------------------------------------------
(* The whole *)

BlocksIn(p) ==
    CASE p.type = "records" -> Of(p.blocks)
      [] p.type \in {"committed", "record"} -> {p.block}
      [] OTHER -> {}
FromChain(b, L) == b.seq \in DOMAIN L /\ b = Block(L, b.seq)
\* what the server says of its chain is so, and it calls invalid only what is
Truthful(p, L) ==
    /\ \A b \in BlocksIn(p) : FromChain(b, L)
    /\ p.type = "refused" /\ p.why = "invalid_record" => p.tag[1] \in RefusedOps

AtHome(c) ==
    /\ conn[c] \in {HomeOf(c), NoServer} /\ eng[c].owner \in {HomeOf(c), NoServer}
    /\ conn[c] = NoServer => s2c[c] = <<>>

\* in strict mode every record of a chain names the one before it
Linked(L) == Strict => \A n \in DOMAIN L : L[n].seen = IF n = 1 THEN NoBlock ELSE IdOf(Block(L, n - 1))

SyncInv ==
    /\ TypeInv /\ CommittedOnce
    /\ Consistent(AllForms) /\ SpecialsTrue(AllForms)
    /\ \A c \in Client :
          /\ AtHome(c)
          /\ EngineOK(c, eng[c], log[HomeOf(c)], AllForms)
          /\ \A p \in Of(s2c[c]) \cup Of(answer[c]) : Truthful(p, log[HomeOf(c)])

-----------------------------------------------------------------------------
(* Sequences, and the newest rows *)

LEMMA SeqFacts ==
    ASSUME NEW S, NEW s \in Seq(S)
    PROVE  Len(s) \in Nat /\ DOMAIN s = 1..Len(s) /\ s \in [1..Len(s) -> S] /\ Of(s) \subseteq S
  BY LenProperties DEF Of

LEMMA OfEmpty == Of(<<>>) = {}
  BY DEF Of

LEMMA OfAppend ==
    ASSUME NEW S, NEW s \in Seq(S), NEW e \in S
    PROVE  /\ Append(s, e) \in Seq(S) /\ Len(Append(s, e)) = Len(s) + 1
           /\ Of(Append(s, e)) = Of(s) \cup {e}
           /\ DOMAIN Append(s, e) = 1..(Len(s) + 1) /\ DOMAIN s = 1..Len(s) /\ Len(s) \in Nat
           /\ \A i \in 1..(Len(s) + 1) : Append(s, e)[i] = IF i = Len(s) + 1 THEN e ELSE s[i]
  <1>1. /\ Append(s, e) \in Seq(S) /\ Len(Append(s, e)) = Len(s) + 1
        /\ \A i \in 1..Len(s) : Append(s, e)[i] = s[i]
        /\ Append(s, e)[Len(s) + 1] = e
    BY AppendProperties
  <1>2. DOMAIN Append(s, e) = 1..(Len(s) + 1) /\ DOMAIN s = 1..Len(s) /\ Len(s) \in Nat
    BY <1>1, LenProperties
  <1>3. \A i \in 1..(Len(s) + 1) : Append(s, e)[i] = IF i = Len(s) + 1 THEN e ELSE s[i]
    BY <1>1, <1>2
  <1>4. Of(Append(s, e)) = Of(s) \cup {e}
    <2>1. Of(Append(s, e)) \subseteq Of(s) \cup {e}
      BY <1>2, <1>3 DEF Of
    <2>2. Of(s) \subseteq Of(Append(s, e))
      BY <1>1, <1>2 DEF Of
    <2>3. e \in Of(Append(s, e))
      BY <1>1, <1>2 DEF Of
    <2> QED
      BY <2>1, <2>2, <2>3
  <1> QED
    BY <1>1, <1>2, <1>3, <1>4

LEMMA OfJoin ==
    ASSUME NEW S, NEW s \in Seq(S), NEW t \in Seq(S)
    PROVE  s \o t \in Seq(S) /\ Of(s \o t) \subseteq Of(s) \cup Of(t)
  <1>1. s \o t \in Seq(S) /\ Len(s \o t) = Len(s) + Len(t)
    BY ConcatProperties
  <1>2. Len(s) \in Nat /\ Len(t) \in Nat /\ DOMAIN s = 1..Len(s) /\ DOMAIN t = 1..Len(t)
        /\ DOMAIN (s \o t) = 1..(Len(s) + Len(t))
    BY <1>1, LenProperties
  <1>3. ASSUME NEW i \in 1..(Len(s) + Len(t)) PROVE (s \o t)[i] \in Of(s) \cup Of(t)
    <2>1. CASE i <= Len(s)
      <3>1. (s \o t)[i] = s[i] /\ i \in DOMAIN s
        BY <1>2, <2>1, ConcatProperties
      <3> QED
        BY <3>1 DEF Of
    <2>2. CASE ~(i <= Len(s))
      <3>1. (s \o t)[i] = t[i - Len(s)] /\ i - Len(s) \in DOMAIN t
        BY <1>2, <2>2, ConcatProperties
      <3> QED
        BY <3>1 DEF Of
    <2> QED
      BY <2>1, <2>2
  <1> QED
    BY <1>1, <1>2, <1>3 DEF Of

LEMMA OfTail ==
    ASSUME NEW S, NEW s \in Seq(S), s # <<>>
    PROVE  /\ Head(s) \in S /\ Tail(s) \in Seq(S)
           /\ Head(s) \in Of(s) /\ Of(Tail(s)) \subseteq Of(s)
  <1>1. Len(s) \in Nat \ {0} /\ Head(s) = s[1] /\ DOMAIN s = 1..Len(s)
    BY EmptySeq, LenProperties
  <1>2. Head(s) \in S /\ Tail(s) \in Seq(S) /\ Len(Tail(s)) = Len(s) - 1
    BY HeadTailProperties
  <1>3. DOMAIN Tail(s) = 1..(Len(s) - 1)
    BY <1>2, LenProperties
  <1>4. ASSUME NEW i \in 1..(Len(s) - 1) PROVE Tail(s)[i] = s[i + 1] /\ i + 1 \in 1..Len(s)
    BY <1>1, <1>2, HeadTailProperties
  <1> QED
    BY <1>1, <1>2, <1>3, <1>4 DEF Of

\* one event put back in front
LEMMA OfReplaced ==
    ASSUME NEW S, NEW s \in Seq(S), s # <<>>, NEW e \in S
    PROVE  <<e>> \o Tail(s) \in Seq(S) /\ Of(<<e>> \o Tail(s)) \subseteq {e} \cup Of(s)
  <1>1. Tail(s) \in Seq(S) /\ Of(Tail(s)) \subseteq Of(s)
    BY OfTail
  <1>2. <<e>> \in Seq(S) /\ Of(<<e>>) = {e}
    BY DEF Of
  <1> QED
    BY <1>1, <1>2, OfJoin

\* The sequences of some rows are finitely many numbers.
LEMMA SeqsOfRows ==
    ASSUME NEW e, e.rows \in Seq(Row), NEW I, I \subseteq DOMAIN e.rows
    PROVE  {e.rows[i].id.seq : i \in I} \in SUBSET Nat /\ IsFiniteSet({e.rows[i].id.seq : i \in I})
           /\ IsFiniteSet(I) /\ I \in SUBSET Nat
  <1>1. DOMAIN e.rows = 1..Len(e.rows) /\ Len(e.rows) \in Nat /\ \A i \in DOMAIN e.rows : e.rows[i] \in Row
    BY SeqFacts
  <1>2. IsFiniteSet(I) /\ I \in SUBSET Nat
    <2>1. IsFiniteSet(1..Len(e.rows))
      BY <1>1, FS_Interval
    <2> QED
      BY <1>1, <2>1, FS_Subset
  <1> DEFINE f == [i \in I |-> e.rows[i].id.seq]
  <1>3. IsFiniteSet({f[i] : i \in I})
    BY <1>2, ImageFinite
  <1>4. {f[i] : i \in I} = {e.rows[i].id.seq : i \in I}
    OBVIOUS
  <1>5. {e.rows[i].id.seq : i \in I} \in SUBSET Nat
    BY <1>1 DEF Row, BlockId
  <1> QED
    BY <1>2, <1>3, <1>4, <1>5

LEMMA RowsInFacts ==
    ASSUME NEW e, e.rows \in Seq(Row), NEW states
    PROVE  RowsIn(e, states) \subseteq DOMAIN e.rows /\ \A i \in DOMAIN e.rows : e.rows[i] \in Row
  BY SeqFacts DEF RowsIn

\* LastBlock is the block of a row no other is after, if there is one.
LEMMA LastBlockFacts ==
    ASSUME NEW e, e.rows \in Seq(Row), NEW states
    PROVE  /\ LastBlock(e, states) \in BlockId
           /\ \/ RowsIn(e, states) = {} /\ LastBlock(e, states) = NoBlock
              \/ \E i \in RowsIn(e, states) :
                    /\ LastBlock(e, states) = e.rows[i].id
                    /\ \A j \in RowsIn(e, states) : e.rows[j].id.seq <= e.rows[i].id.seq
  <1> DEFINE held == RowsIn(e, states)
             seqs == {e.rows[i].id.seq : i \in held}
             top == Max(seqs)
             best == {i \in held : e.rows[i].id.seq = top}
  <1>1. held \subseteq DOMAIN e.rows /\ \A i \in DOMAIN e.rows : e.rows[i] \in Row
    BY RowsInFacts
  <1>2. CASE held = {}
    <2>1. LastBlock(e, states) = NoBlock
      BY <1>2 DEF LastBlock
    <2> QED
      BY <1>2, <2>1 DEF NoBlock, BlockId, Tag
  <1>3. CASE held # {}
    <2>1. seqs \in SUBSET Nat /\ IsFiniteSet(seqs)
      BY <1>1, SeqsOfRows
    <2>2. seqs # {}
      BY <1>3
    <2> HIDE DEF seqs
    <2>3. top \in seqs /\ \A n \in seqs : n <= top
      BY <2>1, <2>2, MaxFacts
    <2>4. best # {} /\ best \subseteq DOMAIN e.rows
      BY <1>1, <2>3 DEF seqs
    <2>5. best \in SUBSET Nat /\ IsFiniteSet(best)
      BY <2>4, SeqsOfRows
    <2> HIDE DEF best
    <2>6. Max(best) \in best
      BY <2>4, <2>5, MaxFacts
    <2>7. LastBlock(e, states) = e.rows[Max(best)].id
      BY <1>3 DEF LastBlock, best, seqs
    <2>8. Max(best) \in held /\ e.rows[Max(best)].id.seq = top
      BY <2>6 DEF best
    <2>9. \A j \in held : e.rows[j].id.seq <= top
      BY <2>3 DEF seqs
    <2>10. e.rows[Max(best)].id \in BlockId
      BY <1>1, <2>8 DEF Row
    <2> QED
      BY <2>7, <2>8, <2>9, <2>10
  <1> QED
    BY <1>2, <1>3

\* the newest of the rows J, 0 for none
NewestAt(e, J) ==
    LET seqs == {e.rows[i].id.seq : i \in J}
    IN  IF seqs = {} THEN 0 ELSE CHOOSE i \in FindSeq(e, Max(seqs)) : TRUE

LEMMA NewestAtFacts ==
    ASSUME NEW e, e.rows \in Seq(Row), NEW J, J \subseteq RowsIn(e, {"in_sync"})
    PROVE  \/ NewestAt(e, J) = 0
           \/ /\ NewestAt(e, J) \in RowsIn(e, {"in_sync"})
              /\ \E j \in J : e.rows[j].id.seq = e.rows[NewestAt(e, J)].id.seq
  <1> DEFINE seqs == {e.rows[i].id.seq : i \in J}
  <1>1. RowsIn(e, {"in_sync"}) \subseteq DOMAIN e.rows
    BY RowsInFacts
  <1>2. seqs \in SUBSET Nat /\ IsFiniteSet(seqs)
    BY <1>1, SeqsOfRows
  <1>3. CASE seqs = {}
    BY <1>3 DEF NewestAt
  <1>4. CASE seqs # {}
    <2> HIDE DEF seqs
    <2>1. Max(seqs) \in seqs
      BY <1>2, <1>4, MaxFacts
    <2>2. PICK j \in J : e.rows[j].id.seq = Max(seqs)
      BY <2>1 DEF seqs
    <2>3. j \in FindSeq(e, Max(seqs))
      BY <2>2 DEF FindSeq
    <2>4. NewestAt(e, J) = CHOOSE i \in FindSeq(e, Max(seqs)) : TRUE
      BY <1>4 DEF NewestAt, seqs
    <2>5. NewestAt(e, J) \in FindSeq(e, Max(seqs))
      BY <2>3, <2>4
    <2> QED
      BY <2>2, <2>5 DEF FindSeq
  <1> QED
    BY <1>3, <1>4

\* the rows LastSpecialTag and FindLast look at
Specials(e) == {j \in RowsIn(e, {"in_sync"}) : IsSpecial(e.rows[j].form)}
Changing(e, x) == {j \in RowsIn(e, {"in_sync"}) : About(e.rows[j].form, x)}

LEMMA NewestTags ==
    ASSUME NEW e, e.rows \in Seq(Row)
    PROVE  /\ LastSpecialTag(e) = TagOf(e, NewestAt(e, Specials(e))) /\ LastSpecialTag(e) \in Tag
           /\ \A x : FindLast(e, x) = TagOf(e, NewestAt(e, Changing(e, x))) /\ FindLast(e, x) \in Tag
  <1>1. LastSpecialTag(e) = TagOf(e, NewestAt(e, Specials(e)))
    BY DEF LastSpecialTag, NewestRow, NewestAt, Specials
  <1>2. ASSUME NEW x PROVE FindLast(e, x) = TagOf(e, NewestAt(e, Changing(e, x)))
    BY DEF FindLast, NewestRow, NewestAt, Changing
  <1>3. ASSUME NEW J, J \subseteq RowsIn(e, {"in_sync"}) PROVE TagOf(e, NewestAt(e, J)) \in Tag
    <2>1. NewestAt(e, J) = 0 \/ NewestAt(e, J) \in DOMAIN e.rows
      BY <1>3, NewestAtFacts, RowsInFacts
    <2>2. \A i \in DOMAIN e.rows : e.rows[i].form.tag \in Tag
      BY RowsInFacts DEF Row, Form, Tag
    <2> QED
      BY <2>1, <2>2 DEF TagOf, Tag
  <1> QED
    BY <1>1, <1>2, <1>3 DEF Specials, Changing

-----------------------------------------------------------------------------
(* What the engine's handlers do *)

Work == [e : Engine, out : Seq(Request), threw : BOOLEAN]

LEMMA EngineFields ==
    ASSUME NEW e \in Engine
    PROVE  /\ e.rows \in Seq(Row) /\ e.serverSeq \in Nat /\ e.pushing \in BOOLEAN
           /\ e.rejected \subseteq FormTag /\ e.fork \in BOOLEAN /\ e.owner \in Server \cup {NoServer}
           /\ DOMAIN e.rows = 1..Len(e.rows) /\ Len(e.rows) \in Nat
           /\ \A i \in DOMAIN e.rows : e.rows[i] \in Row
  <1>1. e.rows \in Seq(Row)
    BY DEF Engine
  <1>2. DOMAIN e.rows = 1..Len(e.rows) /\ Len(e.rows) \in Nat /\ \A i \in DOMAIN e.rows : e.rows[i] \in Row
    BY <1>1, SeqFacts
  <1> QED
    BY <1>1, <1>2 DEF Engine

LEMMA RowFields ==
    ASSUME NEW r \in Row
    PROVE  /\ r.form \in Form /\ r.st \in States /\ r.id \in BlockId /\ r.ver \in Nat
           /\ OpIn(r.form) \in Op /\ r.form.tag \in FormTag /\ r.form.prev \in Tag
           /\ r.form.seen \in BlockId /\ r.id.seq \in Nat
  BY DEF Row, Form, FormTag, OpIn, BlockId

LEMMA RebuiltFacts ==
    ASSUME NEW c \in Client, NEW e \in Engine, NEW r \in Row
    PROVE  LET n == Rebuilt(c, e, r)
           IN  /\ n \in Row /\ n.st = r.st /\ n.ver = r.ver + 1
               /\ n.form.tag = <<OpIn(r.form), c, r.ver + 1>> /\ OpIn(n.form) = OpIn(r.form)
               /\ n.form.special = LastSpecialTag(e)
  <1>1. e.rows \in Seq(Row)
    BY EngineFields
  <1>2. LastBlock(e, {"in_sync"}) \in BlockId /\ LastSpecialTag(e) \in Tag /\ \A x : FindLast(e, x) \in Tag
    BY <1>1, LastBlockFacts, NewestTags
  <1>3. OpIn(r.form) \in Op /\ r.form.prev \in Tag /\ r.st \in States /\ r.ver \in Nat
    BY RowFields
  <1> DEFINE f == [tag |-> <<OpIn(r.form), c, r.ver + 1>>,
              seen |-> LastBlock(e, {"in_sync"}), special |-> LastSpecialTag(e),
              prev |-> IF Conflicts(e, r.form) THEN FindLast(e, ObjectOf[OpIn(r.form)]) ELSE r.form.prev]
  <1>4. f.prev \in Tag
    BY <1>2, <1>3
  <1>5. f.tag \in FormTag
    BY <1>3 DEF FormTag
  <1>6. f \in Form /\ f.seen \in BlockId
    BY <1>2, <1>4, <1>5 DEF Form
  <1>7. Predicted(f) \in BlockId
    BY <1>5, <1>6 DEF Predicted, BlockId, Tag
  <1>8. Rebuilt(c, e, r) = [form |-> f, st |-> r.st, id |-> Predicted(f), ver |-> r.ver + 1]
    BY DEF Rebuilt
  <1>9. f.tag = <<OpIn(r.form), c, r.ver + 1>> /\ f.special = LastSpecialTag(e) /\ f.tag[1] = OpIn(r.form)
    OBVIOUS
  <1> HIDE DEF f
  <1>10. r.ver + 1 \in Nat
    BY <1>3
  <1>11. Rebuilt(c, e, r) \in Row
    BY <1>3, <1>6, <1>7, <1>8, <1>10 DEF Row
  <1> QED
    BY <1>8, <1>9, <1>11 DEF OpIn

LEMMA PreparedFacts ==
    ASSUME NEW c \in Client, NEW e \in Engine, NEW r \in Row
    PROVE  /\ Prepared(c, e, r) \in Row
           /\ \/ Prepared(c, e, r) = r
              \/ Prepared(c, e, r) = Rebuilt(c, e, r)
              \/ c \in AskClients /\ Prepared(c, e, r) = [r EXCEPT !.st = "invalid"]
  <1>1. \/ Prepared(c, e, r) = r
        \/ Prepared(c, e, r) = Rebuilt(c, e, r)
        \/ c \in AskClients /\ Prepared(c, e, r) = [r EXCEPT !.st = "invalid"]
    BY DEF Prepared
  <1>2. [r EXCEPT !.st = "invalid"] \in Row
    BY DEF Row, States
  <1> QED
    BY <1>1, <1>2, RebuiltFacts

\* try_commit_pending rebuilds or gives up pending rows and sends the form of a row.
LEMMA TryCommitFacts ==
    ASSUME NEW c \in Client, NEW w \in Work
    PROVE  LET v == TryCommitPending(c, w)
           IN  /\ v \in Work
               /\ v.e.serverSeq = w.e.serverSeq /\ v.e.rejected = w.e.rejected
               /\ v.e.fork = w.e.fork /\ v.e.owner = w.e.owner
               /\ DOMAIN v.e.rows = DOMAIN w.e.rows
               /\ \A i \in DOMAIN w.e.rows :
                     \/ v.e.rows[i] = w.e.rows[i]
                     \/ /\ w.e.rows[i].st = "pending_commit"
                        /\ \/ v.e.rows[i] = Rebuilt(c, w.e, w.e.rows[i])
                           \/ c \in AskClients /\ v.e.rows[i] = [w.e.rows[i] EXCEPT !.st = "invalid"]
               /\ \/ v.out = w.out
                  \/ \E f \in RowForms(v.e) : v.out = Append(w.out, [type |-> "commit", form |-> f])
  <1> DEFINE e == w.e
             rows == e.rows
             pending == RowsIn(e, {"pending_commit"})
             ready == {i \in pending : LET p == Prepared(c, e, rows[i])
                                       IN  p.st = "pending_commit" /\ p.form.tag \notin e.rejected}
             first == Min(ready \cup {Len(rows) + 1})
             made == [i \in DOMAIN rows |->
                         IF i \in pending /\ i <= first THEN Prepared(c, e, rows[i]) ELSE rows[i]]
             prepared == [w EXCEPT !.e.rows = made]
             v == TryCommitPending(c, w)
  <1>1. e \in Engine /\ w.out \in Seq(Request) /\ w.threw \in BOOLEAN
    BY DEF Work
  <1>2. rows \in Seq(Row) /\ DOMAIN rows = 1..Len(rows) /\ Len(rows) \in Nat /\ \A i \in DOMAIN rows : rows[i] \in Row
    BY <1>1, EngineFields
  <1>3. /\ e.serverSeq \in Nat /\ e.pushing \in BOOLEAN /\ e.rejected \subseteq FormTag /\ e.fork \in BOOLEAN
        /\ e.owner \in Server \cup {NoServer}
    BY <1>1, EngineFields
  <1>4. /\ DOMAIN made = DOMAIN rows
        /\ \A i \in DOMAIN rows :
              /\ made[i] \in Row
              /\ \/ made[i] = rows[i]
                 \/ /\ rows[i].st = "pending_commit"
                    /\ \/ made[i] = Rebuilt(c, e, rows[i])
                       \/ c \in AskClients /\ made[i] = [rows[i] EXCEPT !.st = "invalid"]
    <2>1. ASSUME NEW i \in DOMAIN rows
          PROVE  /\ made[i] \in Row
                 /\ \/ made[i] = rows[i]
                    \/ /\ rows[i].st = "pending_commit"
                       /\ \/ made[i] = Rebuilt(c, e, rows[i])
                          \/ c \in AskClients /\ made[i] = [rows[i] EXCEPT !.st = "invalid"]
      <3>1. CASE i \in pending /\ i <= first
        <4>1. made[i] = Prepared(c, e, rows[i]) /\ rows[i].st = "pending_commit" /\ rows[i] \in Row
          BY <1>2, <3>1 DEF RowsIn
        <4> QED
          BY <1>1, <4>1, PreparedFacts
      <3>2. CASE ~(i \in pending /\ i <= first)
        BY <1>2, <3>2
      <3> QED
        BY <3>1, <3>2
    <2> QED
      BY <2>1
  <1>5. made \in Seq(Row)
    <2>1. made \in [1..Len(rows) -> Row]
      BY <1>2, <1>4
    <2> QED
      BY <1>2, <2>1
  <1>6. ready # {} => first \in DOMAIN rows
    <2>1. ready \cup {Len(rows) + 1} \in SUBSET Nat /\ ready \subseteq DOMAIN rows
      BY <1>2 DEF RowsIn
    <2>2. first \in ready \cup {Len(rows) + 1} /\ \A n \in ready \cup {Len(rows) + 1} : first <= n
      BY <2>1, MinFacts
    <2> HIDE DEF first, ready
    <2> QED
      BY <1>2, <2>1, <2>2
  <1>7. /\ prepared.e = [e EXCEPT !.rows = made] /\ prepared.out = w.out /\ prepared.threw = w.threw
        /\ prepared = [e |-> [e EXCEPT !.rows = made], out |-> w.out, threw |-> w.threw]
    <2> HIDE DEF made
    <2>1. prepared = [w EXCEPT !.e = [w.e EXCEPT !.rows = made]]
      OBVIOUS
    <2>2. \A d : [w EXCEPT !.e = d] = [e |-> d, out |-> w.out, threw |-> w.threw]
      BY DEF Work
    <2>3. prepared = [e |-> [e EXCEPT !.rows = made], out |-> w.out, threw |-> w.threw]
      BY <2>1, <2>2
    <2> HIDE DEF prepared
    <2> QED
      BY <2>3
  <1> DEFINE pe == [e EXCEPT !.rows = made]
  <1>8. /\ pe \in Engine /\ pe.rows = made /\ pe.serverSeq = e.serverSeq /\ pe.rejected = e.rejected
        /\ pe.fork = e.fork /\ pe.owner = e.owner /\ pe.pushing = e.pushing
    <2> HIDE DEF made
    <2> QED
      BY <1>1, <1>5 DEF Engine
  <1>9. v = IF e.pushing \/ e.fork THEN w
            ELSE IF ready = {} THEN prepared
            ELSE CommitRecord(prepared, prepared.e.rows[first].form)
    BY DEF TryCommitPending
  <1>10. CASE e.pushing \/ e.fork
    <2>1. v = w
      BY <1>9, <1>10
    <2> QED
      BY <2>1
  <1>11. CASE ~(e.pushing \/ e.fork) /\ ready = {}
    <2>1. v = prepared
      BY <1>9, <1>11
    <2> HIDE DEF v, prepared, pe, made, ready
    <2>2. v.e = pe /\ v.out = w.out /\ v.threw = w.threw /\ v = [e |-> pe, out |-> w.out, threw |-> w.threw]
      BY <1>7, <2>1 DEF pe
    <2>3. v \in Work
      BY <1>1, <1>8, <2>2 DEF Work
    <2> QED
      BY <1>4, <1>8, <2>2, <2>3 DEF v
  <1>12. CASE ~(e.pushing \/ e.fork) /\ ready # {}
    <2> DEFINE f == made[first].form
               q == [pe EXCEPT !.pushing = TRUE]
               p == [type |-> "commit", form |-> f]
    <2>1. first \in DOMAIN rows
      BY <1>6, <1>12
    <2>2. f \in Form
      <3> HIDE DEF made, first
      <3> QED
        BY <1>4, <2>1, RowFields
    <2>3. v = CommitRecord(prepared, f) /\ ~prepared.e.fork
      <3>1. prepared.e.rows = made /\ prepared.e.fork = e.fork
        <4> HIDE DEF made, prepared
        <4> QED
          BY <1>7, <1>8 DEF pe
      <3> HIDE DEF made, first, ready, prepared
      <3> QED
        BY <1>9, <1>12, <3>1
    <2> HIDE DEF v, prepared, made, first
    <2>4. v = [e |-> q, out |-> Append(w.out, p), threw |-> w.threw]
      BY <1>1, <1>7, <1>8, <2>3 DEF CommitRecord, pe, Engine
    <2>5. /\ q \in Engine /\ q.rows = made /\ q.serverSeq = e.serverSeq /\ q.rejected = e.rejected
          /\ q.fork = e.fork /\ q.owner = e.owner
      <3> HIDE DEF pe
      <3> QED
        BY <1>8 DEF Engine
    <2>6. Append(w.out, p) \in Seq(Request)
      <3>1. p \in Request
        BY <2>2 DEF Request
      <3> QED
        BY <1>1, <3>1, OfAppend
    <2>7. v \in Work
      <3> HIDE DEF q, p
      <3> QED
        BY <1>1, <2>4, <2>5, <2>6 DEF Work
    <2>8. f \in RowForms(q)
      BY <1>4, <2>1, <2>5 DEF RowForms
    <2>9. v.e = q /\ v.out = Append(w.out, p)
      BY <2>4
    <2> HIDE DEF q, p, f
    <2> QED
      BY <1>4, <2>5, <2>7, <2>8, <2>9 DEF v, p
  <1> QED
    BY <1>10, <1>11, <1>12

\* an engine with other rows
LEMMA RowsChanged ==
    ASSUME NEW e \in Engine, NEW rows \in Seq(Row)
    PROVE  LET d == [e EXCEPT !.rows = rows]
           IN  /\ d \in Engine /\ d.rows = rows /\ d.owner = e.owner /\ d.fork = e.fork
               /\ d.serverSeq = e.serverSeq /\ d.rejected = e.rejected /\ d.pushing = e.pushing
  BY DEF Engine

LEMMA RowChanged ==
    ASSUME NEW e \in Engine, NEW i \in DOMAIN e.rows, NEW r \in Row
    PROVE  LET d == [e EXCEPT !.rows[i] = r]
           IN  /\ d \in Engine /\ d.owner = e.owner /\ d.fork = e.fork
               /\ DOMAIN d.rows = DOMAIN e.rows
               /\ \A j \in DOMAIN e.rows : d.rows[j] = IF j = i THEN r ELSE e.rows[j]
  <1> DEFINE rows == [e.rows EXCEPT ![i] = r]
  <1>1. e.rows \in Seq(Row) /\ DOMAIN e.rows = 1..Len(e.rows) /\ Len(e.rows) \in Nat
        /\ \A j \in DOMAIN e.rows : e.rows[j] \in Row
    BY EngineFields
  <1>2. DOMAIN rows = DOMAIN e.rows /\ \A j \in DOMAIN e.rows : rows[j] = IF j = i THEN r ELSE e.rows[j]
    BY <1>1
  <1>3. rows \in [1..Len(e.rows) -> Row]
    BY <1>1, SeqFacts
  <1>4. rows \in Seq(Row)
    BY <1>1, <1>3
  <1>5. [e EXCEPT !.rows[i] = r] = [e EXCEPT !.rows = rows]
    OBVIOUS
  <1> HIDE DEF rows
  <1> QED
    BY <1>2, <1>4, <1>5, RowsChanged

LEMMA BlockFields ==
    ASSUME NEW b \in ChainBlock
    PROVE  /\ b.form \in Form /\ b.seq \in Nat \ {0} /\ b.parent \in Tag /\ IdOf(b) \in BlockId
           /\ b.form.tag \in FormTag /\ OpIn(b.form) \in Op
           /\ IdOf(b).seq = b.seq /\ IdOf(b).tag = b.form.tag /\ IdOf(b).parent = b.parent
  <1>1. b.form \in Form /\ b.seq \in Nat \ {0} /\ b.parent \in Tag
    BY DEF ChainBlock
  <1>2. b.form.tag \in FormTag
    BY <1>1 DEF Form
  <1>3. OpIn(b.form) \in Op
    BY <1>2 DEF FormTag, OpIn
  <1>4. IdOf(b).seq = b.seq /\ IdOf(b).tag = b.form.tag /\ IdOf(b).parent = b.parent
    BY DEF IdOf
  <1>5. IdOf(b) \in BlockId
    BY <1>1, <1>2 DEF IdOf, BlockId, Tag
  <1> QED
    BY <1>1, <1>2, <1>3, <1>4, <1>5

LEMMA CheckBlockType ==
    ASSUME NEW e, NEW b
    PROVE  CheckBlock(e, b) \in {"in_sync", "pending_sync", "invalid"} /\ CheckBlock(e, b) \in States
  BY DEF CheckBlock, CheckStrict, CheckWeak, States

LEMMA UpdateCommitFacts ==
    ASSUME NEW e \in Engine, NEW i \in DOMAIN e.rows, NEW b \in ChainBlock
    PROVE  LET d == UpdateCommitState(e, i, b)
               st == CheckBlock(e, b)
               r == e.rows[i]
           IN  /\ d \in Engine /\ d.owner = e.owner /\ d.fork = e.fork
               /\ DOMAIN d.rows = DOMAIN e.rows
               /\ \A j \in DOMAIN e.rows \ {i} : d.rows[j] = e.rows[j]
               /\ \/ d.rows[i] = r
                  \/ r.st # "in_sync" /\ st = "invalid" /\ d.rows[i] = [r EXCEPT !.st = "invalid"]
                  \/ /\ r.st # "in_sync" /\ st # "invalid"
                     /\ d.rows[i] = [r EXCEPT !.st = st, !.id = IdOf(b)]
               /\ r.st = "in_sync" => d = e
  <1> DEFINE st == CheckBlock(e, b)
             r == e.rows[i]
             r1 == [r EXCEPT !.st = "invalid"]
             r2 == [r EXCEPT !.st = st, !.id = IdOf(b)]
             d == UpdateCommitState(e, i, b)
  <1>1. r \in Row /\ IdOf(b) \in BlockId /\ st \in States
    BY EngineFields, BlockFields, CheckBlockType
  <1> HIDE DEF st
  <1>2. r1 \in Row /\ r2 \in Row
    BY <1>1 DEF Row, States
  <1>3. d = IF r.st = "in_sync" THEN e ELSE IF st = "invalid" THEN [e EXCEPT !.rows[i] = r1]
            ELSE [e EXCEPT !.rows[i] = r2]
    <2>1. [e EXCEPT !.rows[i].st = "invalid"] = [e EXCEPT !.rows[i] = r1]
      OBVIOUS
    <2>2. [e EXCEPT !.rows[i].st = st, !.rows[i].id = IdOf(b)] = [e EXCEPT !.rows[i] = r2]
      BY EngineFields DEF Engine, Row
    <2> QED
      BY <2>1, <2>2 DEF UpdateCommitState, st
  <1> HIDE DEF r1, r2, d
  <1>4. CASE r.st = "in_sync"
    BY <1>3, <1>4 DEF d
  <1>5. CASE r.st # "in_sync" /\ st = "invalid"
    <2>1. d = [e EXCEPT !.rows[i] = r1]
      BY <1>3, <1>5
    <2>2. /\ d \in Engine /\ d.owner = e.owner /\ d.fork = e.fork
          /\ DOMAIN d.rows = DOMAIN e.rows
          /\ \A j \in DOMAIN e.rows : d.rows[j] = IF j = i THEN r1 ELSE e.rows[j]
      BY <1>2, <2>1, RowChanged
    <2> QED
      BY <1>5, <2>2 DEF r1, d, st
  <1>6. CASE r.st # "in_sync" /\ st # "invalid"
    <2>1. d = [e EXCEPT !.rows[i] = r2]
      BY <1>3, <1>6
    <2>2. /\ d \in Engine /\ d.owner = e.owner /\ d.fork = e.fork
          /\ DOMAIN d.rows = DOMAIN e.rows
          /\ \A j \in DOMAIN e.rows : d.rows[j] = IF j = i THEN r2 ELSE e.rows[j]
      BY <1>2, <2>1, RowChanged
    <2> QED
      BY <1>6, <2>2 DEF r2, d, st
  <1> QED
    BY <1>4, <1>5, <1>6

LEMMA AdoptFacts ==
    ASSUME NEW e \in Engine, NEW i \in DOMAIN e.rows, NEW b \in ChainBlock
    PROVE  LET d == AdoptCommitted(e, i, b)
               st == CheckBlock(e, b)
               r == e.rows[i]
           IN  /\ d \in Engine /\ d.owner = e.owner /\ d.fork = e.fork
               /\ DOMAIN d.rows = DOMAIN e.rows
               /\ \A j \in DOMAIN e.rows \ {i} : d.rows[j] = e.rows[j]
               /\ \/ d.rows[i] = r
                  \/ /\ st # "invalid"
                     /\ d.rows[i] = [r EXCEPT !.form = b.form, !.st = st, !.id = IdOf(b)]
  <1> DEFINE st == CheckBlock(e, b)
             r == e.rows[i]
             r2 == [r EXCEPT !.form = b.form, !.st = st, !.id = IdOf(b)]
             d == AdoptCommitted(e, i, b)
  <1>1. r \in Row /\ IdOf(b) \in BlockId /\ st \in States /\ b.form \in Form
    BY EngineFields, BlockFields, CheckBlockType
  <1> HIDE DEF st
  <1>2. r2 \in Row
    BY <1>1 DEF Row, States
  <1>3. d = IF st = "invalid" THEN e ELSE [e EXCEPT !.rows[i] = r2]
    <2>2. [e EXCEPT !.rows[i].form = b.form, !.rows[i].st = st, !.rows[i].id = IdOf(b)] = [e EXCEPT !.rows[i] = r2]
      BY EngineFields DEF Engine, Row
    <2> QED
      BY <2>2 DEF AdoptCommitted, st
  <1> HIDE DEF r2, d
  <1>4. CASE st = "invalid"
    BY <1>3, <1>4 DEF d
  <1>6. CASE st # "invalid"
    <2>1. d = [e EXCEPT !.rows[i] = r2]
      BY <1>3, <1>6
    <2>2. /\ d \in Engine /\ d.owner = e.owner /\ d.fork = e.fork
          /\ DOMAIN d.rows = DOMAIN e.rows
          /\ \A j \in DOMAIN e.rows : d.rows[j] = IF j = i THEN r2 ELSE e.rows[j]
      BY <1>2, <2>1, RowChanged
    <2> QED
      BY <1>6, <2>2 DEF r2, d, st
  <1> QED
    BY <1>4, <1>6

\* check_pending_records shows waiting rows.
LEMMA CheckPendingFacts ==
    ASSUME NEW e \in Engine, NEW id
    PROVE  LET d == CheckPendingRecords(e, id)
           IN  /\ d \in Engine /\ d.owner = e.owner /\ d.fork = e.fork /\ d.serverSeq = e.serverSeq
               /\ DOMAIN d.rows = DOMAIN e.rows
               /\ \A i \in DOMAIN e.rows :
                     \/ d.rows[i] = e.rows[i]
                     \/ e.rows[i].st = "pending_sync" /\ d.rows[i] = [e.rows[i] EXCEPT !.st = "in_sync"]
  <1> DEFINE waiting == RowsIn(e, {"pending_sync"})
             Follows(j) ==
               \/ e.rows[j].id.seq = id.seq + 1 /\ e.rows[j].id.parent = id.tag
               \/ \E h \in waiting : /\ e.rows[j].id.seq = e.rows[h].id.seq + 1
                                     /\ e.rows[j].id.parent = e.rows[h].form.tag
             linked == {i \in waiting : \A n \in (id.seq + 1)..e.rows[i].id.seq :
                      \E j \in waiting : e.rows[j].id.seq = n /\ Follows(j)}
             rows == [i \in DOMAIN e.rows |->
                        IF i \in linked THEN [e.rows[i] EXCEPT !.st = "in_sync"] ELSE e.rows[i]]
             d == CheckPendingRecords(e, id)
  <1>1. d = [e EXCEPT !.rows = rows]
    BY DEF CheckPendingRecords
  <1>2. \A i \in linked : i \in DOMAIN e.rows /\ e.rows[i].st = "pending_sync"
    BY DEF RowsIn
  <1>3. Len(e.rows) \in Nat /\ DOMAIN e.rows = 1..Len(e.rows) /\ \A i \in DOMAIN e.rows : e.rows[i] \in Row
    BY EngineFields
  <1> HIDE DEF linked
  <1>4. \A i \in DOMAIN e.rows : [e.rows[i] EXCEPT !.st = "in_sync"] \in Row
    BY <1>3 DEF Row, States
  <1>5. rows \in [1..Len(e.rows) -> Row]
    BY <1>3, <1>4
  <1>6. rows \in Seq(Row)
    BY <1>3, <1>5
  <1>7. /\ DOMAIN rows = DOMAIN e.rows
        /\ \A i \in DOMAIN e.rows :
              \/ rows[i] = e.rows[i]
              \/ e.rows[i].st = "pending_sync" /\ rows[i] = [e.rows[i] EXCEPT !.st = "in_sync"]
    BY <1>2
  <1> HIDE DEF rows, d
  <1>8. d \in Engine /\ d.owner = e.owner /\ d.fork = e.fork /\ d.serverSeq = e.serverSeq /\ d.rows = rows
    BY <1>1, <1>6, RowsChanged
  <1> QED
    BY <1>7, <1>8 DEF d

LEMMA WorkFields ==
    ASSUME NEW w \in Work
    PROVE  /\ w.e \in Engine /\ w.out \in Seq(Request) /\ w.threw \in BOOLEAN
           /\ \A d \in Engine :
                 LET v == [w EXCEPT !.e = d]
                 IN  v \in Work /\ v.e = d /\ v.out = w.out /\ v.threw = w.threw
  BY DEF Work

LEMMA RunningFacts ==
    ASSUME NEW e \in Engine
    PROVE  /\ Running(e) \in Work /\ Running(e).e = e /\ Running(e).out = <<>>
           /\ Running(e) = [e |-> e, out |-> <<>>, threw |-> FALSE]
           /\ \A d : [Running(e) EXCEPT !.e = d] = Running(d)
  <1>1. Running(e) = [e |-> e, out |-> <<>>, threw |-> FALSE]
    BY DEF Running
  <1>2. Running(e).e = e /\ Running(e).out = <<>> /\ Running(e).threw = FALSE
    BY <1>1
  <1>3. <<>> \in Seq(Request)
    OBVIOUS
  <1>4. Running(e) \in Work
    BY <1>1, <1>3 DEF Work
  <1>5. \A w \in Work : \A d : [w EXCEPT !.e = d] = [e |-> d, out |-> w.out, threw |-> w.threw]
    BY DEF Work
  <1>6. ASSUME NEW d PROVE [Running(e) EXCEPT !.e = d] = Running(d)
    <2>1. [Running(e) EXCEPT !.e = d] = [e |-> d, out |-> Running(e).out, threw |-> Running(e).threw]
      BY <1>4, <1>5
    <2>2. [e |-> d, out |-> Running(e).out, threw |-> Running(e).threw] = [e |-> d, out |-> <<>>, threw |-> FALSE]
      BY <1>2
    <2> QED
      BY <2>1, <2>2 DEF Running
  <1> QED
    BY <1>1, <1>2, <1>4, <1>6

LEMMA SawSeqFacts ==
    ASSUME NEW e \in Engine, NEW n \in Nat
    PROVE  LET d == SawSeq(e, n)
           IN  /\ d \in Engine /\ d.rows = e.rows /\ d.owner = e.owner /\ d.fork = e.fork
               /\ d.rejected = e.rejected
  <1>1. e.serverSeq \in Nat
    BY EngineFields
  <1>2. {e.serverSeq, n} \in SUBSET Nat /\ {e.serverSeq, n} # {} /\ IsFiniteSet({e.serverSeq, n})
    <2>1. IsFiniteSet({e.serverSeq}) /\ IsFiniteSet({n})
      BY FS_Singleton
    <2>2. {e.serverSeq} \cup {n} = {e.serverSeq, n}
      OBVIOUS
    <2> QED
      BY <1>1, <2>1, <2>2, FS_Union
  <1>3. Max({e.serverSeq, n}) \in Nat
    BY <1>2, MaxFacts
  <1>4. SawSeq(e, n) = [e EXCEPT !.serverSeq = Max({e.serverSeq, n})]
    BY DEF SawSeq
  <1> DEFINE m == Max({e.serverSeq, n})
  <1> HIDE DEF m
  <1>5. m \in Nat /\ SawSeq(e, n) = [e EXCEPT !.serverSeq = m]
    BY <1>3, <1>4 DEF m
  <1> QED
    BY <1>5 DEF Engine

LEMMA CursorType ==
    ASSUME NEW e \in Engine
    PROVE  FetchCursor(e) \in Nat
  <1> DEFINE received == {e.rows[i].id.seq : i \in RowsIn(e, {"in_sync", "pending_sync"})}
             reached == {q \in received : 1..q \subseteq received}
  <1>1. received \in SUBSET Nat /\ IsFiniteSet(received)
    <2>1. RowsIn(e, {"in_sync", "pending_sync"}) \subseteq DOMAIN e.rows /\ e.rows \in Seq(Row)
      BY EngineFields, RowsInFacts
    <2> QED
      BY <2>1, SeqsOfRows
  <1> HIDE DEF received
  <1>2. reached \in SUBSET Nat /\ IsFiniteSet(reached)
    BY <1>1, FS_Subset
  <1> HIDE DEF reached
  <1>3. Max({0} \cup reached) \in Nat
    BY <1>2, MaxWithZero
  <1> QED
    BY <1>3 DEF FetchCursor, reached, received

\* the engine after verify_block looked at the block, and after it stored the record
Looked(e, b) == SawSeq([e EXCEPT !.fork = @ \/ ForkSeen(e, b.form)], b.seq)
NewRow(e, b) == [form |-> b.form, st |-> CheckBlock(e, b), id |-> IdOf(b), ver |-> 0]
Taken(e, b) == [e EXCEPT !.rows = Append(@, NewRow(e, b))]

LEMMA LookedFacts ==
    ASSUME NEW e \in Engine, NEW b \in ChainBlock
    PROVE  /\ Looked(e, b) \in Engine /\ Looked(e, b).rows = e.rows /\ Looked(e, b).owner = e.owner
           /\ Looked(e, b).fork = (e.fork \/ ForkSeen(e, b.form))
           /\ Looked(e, b).rejected = e.rejected
  <1> DEFINE k == e.fork \/ ForkSeen(e, b.form)
             d == [e EXCEPT !.fork = k]
  <1>1. k \in BOOLEAN /\ b.seq \in Nat
    BY BlockFields
  <1>2. Looked(e, b) = SawSeq(d, b.seq)
    BY DEF Looked
  <1> HIDE DEF k
  <1>3. d \in Engine /\ d.rows = e.rows /\ d.owner = e.owner /\ d.fork = k /\ d.rejected = e.rejected
    BY <1>1 DEF Engine
  <1> HIDE DEF d
  <1>4. /\ SawSeq(d, b.seq) \in Engine /\ SawSeq(d, b.seq).rows = d.rows /\ SawSeq(d, b.seq).owner = d.owner
        /\ SawSeq(d, b.seq).fork = d.fork /\ SawSeq(d, b.seq).rejected = d.rejected
    BY <1>1, <1>3, SawSeqFacts
  <1> QED
    BY <1>2, <1>3, <1>4 DEF k

LEMMA TakenFacts ==
    ASSUME NEW e \in Engine, NEW b \in ChainBlock
    PROVE  LET d == Taken(e, b)
           IN  /\ d \in Engine /\ d.owner = e.owner /\ d.fork = e.fork
               /\ NewRow(e, b) \in Row
               /\ DOMAIN d.rows = 1..(Len(e.rows) + 1) /\ DOMAIN e.rows = 1..Len(e.rows) /\ Len(e.rows) \in Nat
               /\ \A i \in 1..(Len(e.rows) + 1) :
                     d.rows[i] = IF i = Len(e.rows) + 1 THEN NewRow(e, b) ELSE e.rows[i]
  <1>1. NewRow(e, b) \in Row
    BY BlockFields, CheckBlockType DEF NewRow, Row
  <1>2. e.rows \in Seq(Row)
    BY EngineFields
  <1>3. Append(e.rows, NewRow(e, b)) \in Seq(Row)
    BY <1>1, <1>2, OfAppend
  <1> DEFINE rows == Append(e.rows, NewRow(e, b))
  <1>4. /\ DOMAIN rows = 1..(Len(e.rows) + 1) /\ DOMAIN e.rows = 1..Len(e.rows) /\ Len(e.rows) \in Nat
        /\ \A i \in 1..(Len(e.rows) + 1) : rows[i] = IF i = Len(e.rows) + 1 THEN NewRow(e, b) ELSE e.rows[i]
    BY <1>1, <1>2, OfAppend
  <1>5. Taken(e, b) = [e EXCEPT !.rows = rows]
    BY DEF Taken
  <1> HIDE DEF rows
  <1>6. rows \in Seq(Row)
    BY <1>3 DEF rows
  <1> QED
    BY <1>1, <1>4, <1>5, <1>6, RowsChanged

LEMMA VerifyFacts ==
    ASSUME NEW c \in Client, NEW w \in Work, NEW b \in ChainBlock
    PROVE  LET e == Looked(w.e, b)
               created == Taken(e, b)
               linked == CheckPendingRecords(created, IdOf(b))
               v == VerifyBlock(c, w, b)
           IN  /\ v \in Work
               /\ \/ v = [w EXCEPT !.e = e, !.threw = TRUE] /\ v.e = e /\ v.out = w.out
                  \/ /\ FindOp(e, OpIn(b.form)) = {} /\ CheckBlock(e, b) # "in_sync"
                     /\ v = [w EXCEPT !.e = created]
                  \/ /\ FindOp(e, OpIn(b.form)) = {} /\ CheckBlock(e, b) = "in_sync"
                     /\ \/ v = [w EXCEPT !.e = linked]
                        \/ v = TryCommitPending(c, [w EXCEPT !.e = linked])
  <1> DEFINE e == Looked(w.e, b)
             created == Taken(e, b)
             linked == CheckPendingRecords(created, IdOf(b))
             v == VerifyBlock(c, w, b)
  <1>1. w.e \in Engine
    BY WorkFields
  <1>2. e \in Engine
    BY <1>1, LookedFacts
  <1>3. v = IF FindOp(e, OpIn(b.form)) # {} THEN [w EXCEPT !.e = e, !.threw = TRUE]
            ELSE IF CheckBlock(e, b) # "in_sync" THEN [w EXCEPT !.e = created]
            ELSE IF LastBlock(linked, {"in_sync"}).seq = linked.serverSeq
            THEN TryCommitPending(c, [w EXCEPT !.e = linked])
            ELSE [w EXCEPT !.e = linked]
    BY DEF VerifyBlock, Looked, Taken, NewRow
  <1> HIDE DEF e
  <1>4. created \in Engine
    BY <1>2, TakenFacts
  <1> HIDE DEF created
  <1>5. linked \in Engine
    BY <1>4, CheckPendingFacts
  <1> HIDE DEF linked, v
  <1>6. [w EXCEPT !.e = created] \in Work /\ [w EXCEPT !.e = linked] \in Work
    BY <1>4, <1>5, WorkFields
  <1>7. TryCommitPending(c, [w EXCEPT !.e = linked]) \in Work
    BY <1>6, TryCommitFacts
  <1>8. /\ [w EXCEPT !.e = e, !.threw = TRUE] \in Work /\ [w EXCEPT !.e = e, !.threw = TRUE].e = e
        /\ [w EXCEPT !.e = e, !.threw = TRUE].out = w.out
    BY <1>2 DEF Work
  <1>9. v \in Work
    BY <1>3, <1>6, <1>7, <1>8
  <1>10. \/ v = [w EXCEPT !.e = e, !.threw = TRUE] /\ v.e = e /\ v.out = w.out
         \/ /\ FindOp(e, OpIn(b.form)) = {} /\ CheckBlock(e, b) # "in_sync"
            /\ v = [w EXCEPT !.e = created]
         \/ /\ FindOp(e, OpIn(b.form)) = {} /\ CheckBlock(e, b) = "in_sync"
            /\ \/ v = [w EXCEPT !.e = linked]
               \/ v = TryCommitPending(c, [w EXCEPT !.e = linked])
    BY <1>3, <1>8
  <1> QED
    BY <1>9, <1>10 DEF e, created, linked, v

\* the rows a record from the server finds: by its tag, and the pending ones of its operation
Known(e, b) == FindTag(e, b.form.tag)
OwnOf(e, b) == {i \in FindOp(e, OpIn(b.form)) : e.rows[i].st = "pending_commit"}

Cleared(w) == [w EXCEPT !.e.rejected = {}]

LEMMA IncomingFacts ==
    ASSUME NEW c \in Client, NEW w \in Work, NEW b \in ChainBlock
    PROVE  LET v == HandleIncoming(c, w, b)
               cleared == Cleared(w)
           IN  /\ v \in Work
               /\ cleared \in Work /\ cleared.e.rows = w.e.rows /\ cleared.e.owner = w.e.owner
               /\ cleared.e.fork = w.e.fork /\ cleared.out = w.out
               /\ \/ v = w
                  \/ Known(w.e, b) = {} /\ OwnOf(w.e, b) = {} /\ v = VerifyBlock(c, cleared, b)
                  \/ /\ Known(w.e, b) = {}
                     /\ \E i \in OwnOf(w.e, b) :
                           v = [cleared EXCEPT !.e = AdoptCommitted(cleared.e, i, b)]
                  \/ /\ Known(w.e, b) # {} /\ OwnOf(w.e, b) # {}
                     /\ \E i \in Known(w.e, b) \cup OwnOf(w.e, b) :
                           LET d == UpdateCommitState(w.e, i, b)
                           IN  /\ v.e.rows = d.rows /\ v.e.owner = d.owner /\ v.e.fork = d.fork
                               /\ v.out = w.out
  <1> DEFINE known == Known(w.e, b)
             own == OwnOf(w.e, b)
             cleared == Cleared(w)
             i == CHOOSE j \in known \cup own : TRUE
             v == HandleIncoming(c, w, b)
             d == UpdateCommitState(w.e, i, b)
             e2 == [d EXCEPT !.rejected = @ \ {b.form.tag}]
  <1>1. v = IF known = {}
            THEN IF own # {} THEN [cleared EXCEPT !.e = AdoptCommitted(@, i, b)]
                 ELSE VerifyBlock(c, cleared, b)
            ELSE IF own # {} THEN [w EXCEPT !.e = e2] ELSE w
    BY DEF HandleIncoming, Known, OwnOf, Cleared
  <1>2. w.e \in Engine /\ w.e.rows \in Seq(Row)
    BY WorkFields, EngineFields
  <1>3. known \subseteq DOMAIN w.e.rows /\ own \subseteq DOMAIN w.e.rows
    BY DEF Known, OwnOf, FindTag, FindOp
  <1>4. known \cup own # {} => i \in known \cup own
    OBVIOUS
  <1>5. /\ cleared \in Work /\ cleared.e.rows = w.e.rows /\ cleared.e.owner = w.e.owner
        /\ cleared.e.fork = w.e.fork /\ cleared.out = w.out
    <2>1. cleared = [w EXCEPT !.e = [w.e EXCEPT !.rejected = {}]]
      BY DEF Cleared
    <2> DEFINE x == [w.e EXCEPT !.rejected = {}]
    <2>2. x \in Engine /\ x.rows = w.e.rows /\ x.owner = w.e.owner /\ x.fork = w.e.fork
      BY <1>2 DEF Engine
    <2>3. cleared = [w EXCEPT !.e = x]
      BY <2>1
    <2> HIDE DEF x, cleared
    <2> QED
      BY <2>2, <2>3, WorkFields
  <1> HIDE DEF cleared, i, v
  <1>6. CASE known = {} /\ own = {}
    <2>1. v = VerifyBlock(c, cleared, b)
      BY <1>1, <1>6
    <2>2. v \in Work
      BY <1>5, <2>1, VerifyFacts
    <2> QED
      BY <1>5, <1>6, <2>1, <2>2 DEF v, cleared
  <1>7. CASE known = {} /\ own # {}
    <2>1. v = [cleared EXCEPT !.e = AdoptCommitted(cleared.e, i, b)] /\ i \in own
      BY <1>1, <1>4, <1>7
    <2>2. AdoptCommitted(cleared.e, i, b) \in Engine
      BY <1>3, <1>5, <2>1, WorkFields, AdoptFacts
    <2>3. v \in Work
      BY <1>5, <2>1, <2>2, WorkFields
    <2> QED
      BY <1>5, <1>7, <2>1, <2>3 DEF v, cleared
  <1>8. CASE known # {} /\ own # {}
    <2>1. v = [w EXCEPT !.e = e2] /\ i \in known \cup own
      BY <1>1, <1>4, <1>8
    <2>2. d \in Engine
      BY <1>2, <1>3, <2>1, UpdateCommitFacts
    <2> HIDE DEF d
    <2>3. e2 \in Engine /\ e2.rows = d.rows /\ e2.owner = d.owner /\ e2.fork = d.fork
      BY <2>2 DEF Engine
    <2>4. v \in Work /\ v.e = e2 /\ v.out = w.out
      <3> HIDE DEF e2
      <3> QED
        BY <2>1, <2>3, WorkFields
    <2> QED
      BY <1>5, <1>8, <2>1, <2>3, <2>4 DEF v, cleared, d
  <1>9. CASE known # {} /\ own = {}
    <2>1. v = w
      BY <1>1, <1>9
    <2> QED
      BY <1>5, <2>1 DEF v, cleared
  <1> QED
    BY <1>6, <1>7, <1>8, <1>9

-----------------------------------------------------------------------------
(* Rows left after some are taken out *)

\* The k-th of finitely many places is one of them.
LEMMA PlaceExists ==
    ASSUME NEW n \in Nat, NEW I, I \subseteq 1..n, NEW k \in 1..Cardinality(I)
    PROVE  \E i \in I : Cardinality({j \in I : j <= i}) = k
  <1> DEFINE Upto(i) == {j \in I : j <= i}
             G == {i \in I : k <= Cardinality(Upto(i))}
  <1>1. IsFiniteSet(I) /\ I \in SUBSET Nat /\ Cardinality(I) \in Nat
    <2>1. IsFiniteSet(1..n)
      BY FS_Interval
    <2>2. IsFiniteSet(I)
      BY <2>1, FS_Subset
    <2>3. I \in SUBSET Nat
      OBVIOUS
    <2> QED
      BY <2>2, <2>3, FS_CardinalityType
  <1>2. ASSUME NEW T, T \subseteq I
        PROVE  IsFiniteSet(T) /\ Cardinality(T) \in Nat /\ (Cardinality(T) = 0 => T = {})
    BY <1>1, <1>2, FS_Subset, FS_CardinalityType, FS_EmptySet
  <1>3. I # {}
    BY FS_EmptySet
  <1>4. Max(I) \in I /\ \A j \in I : j <= Max(I)
    BY <1>1, <1>3, MaxFacts
  <1>5. Upto(Max(I)) = I
    BY <1>4
  <1>6. G \in SUBSET Nat /\ G # {}
    <2>1. k <= Cardinality(I)
      BY <1>1
    <2>2. Max(I) \in G
      <3> HIDE DEF Upto
      <3> QED
        BY <1>4, <1>5, <2>1
    <2> HIDE DEF Upto
    <2> QED
      BY <1>1, <2>2
  <1> DEFINE m == Min(G)
  <1>7. m \in G /\ \A j \in G : m <= j
    BY <1>6, MinFacts
  <1> HIDE DEF m
  <1>8. m \in I /\ m \in Nat /\ k <= Cardinality(Upto(m)) /\ Cardinality(Upto(m)) \in Nat
    BY <1>1, <1>2, <1>7
  <1>9. SUFFICES ASSUME k < Cardinality(Upto(m)) PROVE FALSE
    BY <1>1, <1>8
  <1> DEFINE T == Upto(m) \ {m}
  <1>10. Cardinality(T) = Cardinality(Upto(m)) - 1 /\ T \subseteq I
    <2>1. IsFiniteSet(Upto(m)) /\ m \in Upto(m)
      BY <1>2, <1>8
    <2> HIDE DEF Upto
    <2> QED
      BY <2>1, FS_RemoveElement DEF Upto
  <1>11. T # {} /\ IsFiniteSet(T) /\ T \in SUBSET Nat
    <2>1. Cardinality(T) # 0
      BY <1>1, <1>8, <1>9, <1>10
    <2> QED
      BY <1>1, <1>2, <1>10, <2>1, FS_EmptySet
  <1> DEFINE p == Max(T)
  <1> HIDE DEF T
  <1>12. p \in T /\ \A j \in T : j <= p
    BY <1>11, MaxFacts
  <1> HIDE DEF p
  <1>13. p \in I /\ p < m /\ p \in Nat
    BY <1>1, <1>8, <1>12 DEF T
  <1>14. Upto(p) = T
    <2>1. ASSUME NEW j \in I PROVE j <= p <=> j <= m /\ j # m
      BY <1>1, <1>8, <1>12, <1>13, <2>1 DEF T
    <2> QED
      BY <2>1 DEF T
  <1>15. p \in G
    BY <1>1, <1>8, <1>9, <1>10, <1>13, <1>14
  <1> QED
    BY <1>7, <1>8, <1>13, <1>15

LEMMA AtPlacesFacts ==
    ASSUME NEW S, NEW s \in Seq(S), NEW I, I \subseteq DOMAIN s
    PROVE  /\ AtPlaces(s, I) \in Seq(S)
           /\ \A k \in DOMAIN AtPlaces(s, I) : \E i \in I : AtPlaces(s, I)[k] = s[i]
  <1>1. Len(s) \in Nat /\ DOMAIN s = 1..Len(s) /\ \A i \in DOMAIN s : s[i] \in S
    BY SeqFacts
  <1>2. Cardinality(I) \in Nat
    <2>1. IsFiniteSet(1..Len(s))
      BY <1>1, FS_Interval
    <2> QED
      BY <1>1, <2>1, FS_Subset, FS_CardinalityType
  <1> DEFINE at(k) == CHOOSE i \in I : Cardinality({j \in I : j <= i}) = k
             t == AtPlaces(s, I)
  <1>3. ASSUME NEW k \in 1..Cardinality(I) PROVE at(k) \in I
    BY <1>1, PlaceExists
  <1>4. t = [k \in 1..Cardinality(I) |-> s[at(k)]]
    BY DEF AtPlaces
  <1> HIDE DEF at
  <1>5. t \in [1..Cardinality(I) -> S]
    BY <1>1, <1>3, <1>4
  <1>6. t \in Seq(S)
    BY <1>2, <1>5
  <1>7. \A k \in DOMAIN t : \E i \in I : t[k] = s[i]
    BY <1>3, <1>4
  <1> QED
    BY <1>6, <1>7

\* begin_replica_resync starts over with the new replica.
LEMMA ResyncType ==
    ASSUME NEW e \in Engine, NEW s \in Server \cup {NoServer}
    PROVE  BeginReplicaResync(e, s) \in Engine /\ BeginReplicaResync(e, s).fork = e.fork
  <1> DEFINE I == {i \in DOMAIN e.rows : e.rows[i].st # "pending_sync"}
             kept == AtPlaces(e.rows, I)
             rows == [i \in DOMAIN kept |->
                        IF kept[i].st = "in_sync" THEN [kept[i] EXCEPT !.st = "pending_commit"]
                        ELSE kept[i]]
  <1>1. kept \in Seq(Row)
    BY EngineFields, AtPlacesFacts
  <1>2. BeginReplicaResync(e, s) = [e EXCEPT !.owner = s, !.serverSeq = 0, !.rows = rows]
    BY DEF BeginReplicaResync
  <1> HIDE DEF kept
  <1>3. Len(kept) \in Nat /\ DOMAIN kept = 1..Len(kept) /\ \A i \in DOMAIN kept : kept[i] \in Row
    BY <1>1, SeqFacts
  <1>4. \A i \in DOMAIN kept : [kept[i] EXCEPT !.st = "pending_commit"] \in Row
    BY <1>3 DEF Row, States
  <1>5. rows \in [1..Len(kept) -> Row]
    BY <1>3, <1>4
  <1>6. rows \in Seq(Row)
    BY <1>3, <1>5
  <1> HIDE DEF rows
  <1> DEFINE moved == [[e EXCEPT !.owner = s] EXCEPT !.serverSeq = 0]
  <1>7. moved \in Engine /\ moved.fork = e.fork
    BY DEF Engine
  <1>8. [e EXCEPT !.owner = s, !.serverSeq = 0, !.rows = rows] = [moved EXCEPT !.rows = rows]
    OBVIOUS
  <1> HIDE DEF moved
  <1> QED
    BY <1>2, <1>6, <1>7, <1>8, RowsChanged

LEMMA CursorOwnerFacts ==
    ASSUME NEW e \in Engine, NEW s \in Server \cup {NoServer}
    PROVE  LET d == CheckCursorOwner(e, s)
           IN  /\ d \in Engine /\ d.fork = e.fork
               /\ \/ d.rows = e.rows /\ d.owner \in {e.owner, s}
                  \/ e.owner # NoServer /\ e.owner # s
  <1> DEFINE d == CheckCursorOwner(e, s)
  <1>1. CASE e.owner = NoServer
    <2>1. d = [e EXCEPT !.owner = s]
      BY <1>1 DEF CheckCursorOwner
    <2>2. d \in Engine /\ d.rows = e.rows /\ d.owner = s /\ d.fork = e.fork
      BY <2>1 DEF Engine
    <2> QED
      BY <2>2
  <1>2. CASE e.owner # NoServer /\ (e.owner = s \/ Strict)
    <2>1. d = e
      BY <1>2 DEF CheckCursorOwner
    <2> QED
      BY <2>1
  <1>3. CASE e.owner # NoServer /\ e.owner # s /\ ~Strict
    <2>1. d = BeginReplicaResync(e, s)
      BY <1>3 DEF CheckCursorOwner
    <2> QED
      BY <1>3, <2>1, ResyncType
  <1> QED
    BY <1>1, <1>2, <1>3

-----------------------------------------------------------------------------
(* The engine's events *)

\* what event p does to the rows of e before try_commit_pending comes to them
RowsBy(e, p, rows) ==
    \/ rows = e.rows
    \/ \E b \in BlocksIn(p), x \in Engine :
          /\ x.rows = e.rows /\ b \in ChainBlock
          /\ \/ /\ Known(e, b) # {}
                /\ \E i \in Known(e, b) \cup OwnOf(e, b) : rows = UpdateCommitState(x, i, b).rows
             \/ Known(e, b) = {} /\ \E i \in OwnOf(e, b) : rows = AdoptCommitted(x, i, b).rows
             \/ /\ FindOp(e, OpIn(b.form)) = {} /\ CheckBlock(x, b) # "in_sync"
                /\ rows = Taken(x, b).rows
             \/ /\ FindOp(e, OpIn(b.form)) = {} /\ CheckBlock(x, b) = "in_sync"
                /\ rows = CheckPendingRecords(Taken(x, b), IdOf(b)).rows
    \/ /\ p.type = "refused" /\ p.why = "invalid_record"
       /\ DOMAIN rows = DOMAIN e.rows
       /\ \A i \in DOMAIN e.rows :
             \/ rows[i] = e.rows[i]
             \/ /\ e.rows[i].form.tag = p.tag /\ e.rows[i].st = "pending_commit"
                /\ rows[i] = [e.rows[i] EXCEPT !.st = "invalid"]

\* which other parts of the engine an event changes
ForkBy(e, p, fork) == fork = e.fork \/ \E b \in BlocksIn(p) : fork = (e.fork \/ ForkSeen(e, b.form))

\* The work w of event p by the engine e: its own part, then perhaps try_commit_pending.
Handled(c, e, p, s, w) ==
    \E d \in Work :
        /\ w = d \/ w = TryCommitPending(c, d)
        /\ Commits(d.out) = {}
        /\ ForkBy(e, p, d.e.fork)
        /\ \/ RowsBy(e, p, d.e.rows) /\ d.e.owner \in {e.owner, s}
           \/ e.owner # NoServer /\ e.owner # s

LEMMA EventFields ==
    ASSUME NEW p \in Event
    PROVE  /\ p.type \in {"connected", "sequence", "records", "committed", "refused", "record"}
           /\ p.type = "sequence" => p.max \in Nat
           /\ p.type = "records" => /\ p.start \in Nat /\ p.blocks \in Seq(ChainBlock)
                                    /\ p.last \in Nat /\ p.max \in Nat /\ p.begun \in BOOLEAN
           /\ p.type \in {"committed", "record"} => p.block \in ChainBlock
           /\ p.type = "refused" => p.tag \in FormTag /\ p.why \in Refusals
  BY DEF Event

LEMMA StateFields ==
    ASSUME TypeInv, NEW c \in Client
    PROVE  /\ conn[c] \in Server \cup {NoServer} /\ eng[c] \in Engine
           /\ c2s[c] \in Seq(Request) /\ answer[c] \in Seq(Event) /\ s2c[c] \in Seq(Event)
           /\ late[c] \in Seq([server : Server, form : Form])
           /\ s2c[c] # <<>> => Head(s2c[c]) \in Event
  <1>1. s2c[c] \in Seq(Event)
    BY DEF TypeInv, TypeOK
  <1>2. s2c[c] # <<>> => Head(s2c[c]) \in Event
    BY <1>1, OfTail
  <1> QED
    BY <1>1, <1>2 DEF TypeInv, TypeOK

LEMMA NoCommits ==
    /\ Commits(<<>>) = {}
    /\ Commits(<<[type |-> "attach"]>>) = {} /\ <<[type |-> "attach"]>> \in Seq(Request)
    /\ \A n \in Nat : Commits(<<[type |-> "fetch", start |-> n]>>) = {}
                      /\ <<[type |-> "fetch", start |-> n]>> \in Seq(Request)
  <1>1. Commits(<<>>) = {}
    BY OfEmpty DEF Commits
  <1>2. Commits(<<[type |-> "attach"]>>) = {} /\ <<[type |-> "attach"]>> \in Seq(Request)
    BY DEF Commits, Of, Request
  <1>3. ASSUME NEW n \in Nat
        PROVE  Commits(<<[type |-> "fetch", start |-> n]>>) = {}
               /\ <<[type |-> "fetch", start |-> n]>> \in Seq(Request)
    BY DEF Commits, Of, Request
  <1> QED
    BY <1>1, <1>2, <1>3

LEMMA FetchFacts ==
    ASSUME NEW e \in Engine, NEW w, w = [e |-> e, out |-> <<>>, threw |-> FALSE], NEW n \in Nat
    PROVE  LET v == FetchFrom(w, n)
           IN  v \in Work /\ v.e = e /\ Commits(v.out) = {}
  <1> DEFINE p == [type |-> "fetch", start |-> n]
  <1>1. Append(<<>>, p) = <<p>> /\ w.out = <<>>
    OBVIOUS
  <1>2. <<p>> \in Seq(Request) /\ Commits(<<p>>) = {}
    BY NoCommits
  <1>3. FetchFrom(w, n) = [w EXCEPT !.out = Append(w.out, p)]
    BY DEF FetchFrom
  <1> HIDE DEF p
  <1> DEFINE o == <<p>>
  <1>4. FetchFrom(w, n) = [e |-> e, out |-> o, threw |-> FALSE]
    BY <1>1, <1>3
  <1>5. o \in Seq(Request) /\ Commits(o) = {}
    BY <1>2
  <1> HIDE DEF o
  <1> DEFINE v == [e |-> e, out |-> o, threw |-> FALSE]
  <1>6. v \in Work /\ v.e = e /\ v.out = o
    BY <1>5 DEF Work
  <1>7. FetchFrom(w, n) = v
    BY <1>4
  <1> HIDE DEF v
  <1> QED
    BY <1>5, <1>6, <1>7

LEMMA AnsweredFacts ==
    ASSUME TypeInv, NEW c \in Client
    PROVE  LET d == Answered(c)
           IN  /\ d \in Engine /\ d.rows = eng[c].rows /\ d.owner = eng[c].owner /\ d.fork = eng[c].fork
               /\ d.rejected = eng[c].rejected
  <1>1. eng[c] \in Engine
    BY StateFields
  <1> QED
    BY <1>1 DEF Answered, Engine

\* Marking changes only the marks.
LEMMA RejectedChanged ==
    ASSUME NEW e \in Engine, NEW R \in SUBSET FormTag
    PROVE  LET d == [e EXCEPT !.rejected = R]
           IN  d \in Engine /\ d.rows = e.rows /\ d.owner = e.owner /\ d.fork = e.fork /\ d.rejected = R
  BY DEF Engine

LEMMA MarkedFacts ==
    ASSUME NEW e \in Engine, NEW t \in FormTag
    PROVE  \E d \in Engine : /\ d.rows = e.rows /\ d.owner = e.owner /\ d.fork = e.fork
                             /\ MarkRejected(Running(e), t) = Running(d)
  <1> DEFINE d == [e EXCEPT !.rejected = @ \cup {t}]
  <1>1. e.rejected \cup {t} \in SUBSET FormTag
    BY EngineFields
  <1>2. d \in Engine /\ d.rows = e.rows /\ d.owner = e.owner /\ d.fork = e.fork
    BY <1>1, RejectedChanged
  <1>3. Running(e).e = e
    BY RunningFacts
  <1>4. [Running(e) EXCEPT !.e.rejected = @ \cup {t}] = Running(d)
    <2>1. [Running(e) EXCEPT !.e.rejected = @ \cup {t}]
              = [Running(e) EXCEPT !.e = [Running(e).e EXCEPT !.rejected = @ \cup {t}]]
      OBVIOUS
    <2>2. [Running(e).e EXCEPT !.rejected = @ \cup {t}] = d
      BY <1>3
    <2> HIDE DEF d
    <2>3. [Running(e) EXCEPT !.e = d] = Running(d)
      BY RunningFacts
    <2> QED
      BY <2>1, <2>2, <2>3
  <1>5. MarkRejected(Running(e), t) \in {Running(e), Running(d)}
    BY <1>3, <1>4 DEF MarkRejected
  <1> QED
    BY <1>2, <1>5

LEMMA ResolvedFacts ==
    ASSUME NEW e \in Engine
    PROVE  \E d \in Engine : /\ d.rows = e.rows /\ d.owner = e.owner /\ d.fork = e.fork
                             /\ ResolveDuplicates(Running(e)) = Running(d)
  <1> DEFINE R == {t \in e.rejected : \E i \in FindTag(e, t) : e.rows[i].st = "pending_commit"}
             d == [e EXCEPT !.rejected = R]
  <1>1. R \in SUBSET FormTag
    BY EngineFields
  <1>2. ResolveDuplicates(Running(e)) = [Running(e) EXCEPT !.e.rejected = R]
    BY DEF ResolveDuplicates, Running
  <1> HIDE DEF R
  <1>3. d \in Engine /\ d.rows = e.rows /\ d.owner = e.owner /\ d.fork = e.fork
    BY <1>1, RejectedChanged
  <1>4. [Running(e) EXCEPT !.e.rejected = R] = Running(d)
    <2>1. [Running(e) EXCEPT !.e.rejected = R] = [Running(e) EXCEPT !.e = [Running(e).e EXCEPT !.rejected = R]]
      OBVIOUS
    <2> QED
      BY <2>1, RunningFacts
  <1> QED
    BY <1>2, <1>3, <1>4

\* A work done without touching the rows, with or without try_commit_pending.
LEMMA HandledPlain ==
    ASSUME NEW c \in Client, NEW e \in Engine, NEW p, NEW s, NEW d \in Work, NEW w,
           w = d \/ w = TryCommitPending(c, d), Commits(d.out) = {},
           d.e.fork = e.fork, (d.e.owner \in {e.owner, s} /\ d.e.rows = e.rows) \/ e.owner \notin {NoServer, s}
    PROVE  w \in Work /\ Handled(c, e, p, s, w)
  <1>1. w \in Work
    BY TryCommitFacts
  <1>2. RowsBy(e, p, d.e.rows) \/ e.owner \notin {NoServer, s}
    BY DEF RowsBy
  <1>3. ForkBy(e, p, d.e.fork)
    BY DEF ForkBy
  <1> QED
    BY <1>1, <1>2, <1>3 DEF Handled

\* what an engine's event does to the state
EventDone(c) ==
    /\ s2c[c] # <<>>
    /\ \E w \in Work : Handled(c, eng[c], Head(s2c[c]), conn[c], w) /\ Engines(c, w)
    /\ \E q \in Seq(Event) :
          /\ s2c' = [s2c EXCEPT ![c] = q]
          /\ \A y \in Of(q) :
                \/ y \in Of(s2c[c])
                \/ /\ y.type = "records" /\ Head(s2c[c]).type = "records"
                   /\ Of(y.blocks) \subseteq Of(Head(s2c[c]).blocks)
    /\ UNCHANGED <<log, conn, listening, answer, late, faults>>

LEMMA TookFacts ==
    ASSUME TypeInv, NEW c \in Client, s2c[c] # <<>>, Took(c)
    PROVE  \E q \in Seq(Event) : s2c' = [s2c EXCEPT ![c] = q] /\ \A y \in Of(q) : y \in Of(s2c[c])
  <1>1. s2c[c] \in Seq(Event)
    BY StateFields
  <1>2. Tail(s2c[c]) \in Seq(Event) /\ Of(Tail(s2c[c])) \subseteq Of(s2c[c])
    BY <1>1, OfTail
  <1>3. s2c' = [s2c EXCEPT ![c] = Tail(s2c[c])]
    BY DEF Took
  <1> QED
    BY <1>2, <1>3

\* An event that is taken whole.
LEMMA Whole ==
    ASSUME TypeInv, NEW c \in Client, s2c[c] # <<>>, Took(c), NEW w \in Work,
           Handled(c, eng[c], Head(s2c[c]), conn[c], w), Engines(c, w),
           UNCHANGED <<log, conn, listening, answer, late, faults>>
    PROVE  EventDone(c)
  <1>1. \E q \in Seq(Event) : s2c' = [s2c EXCEPT ![c] = q] /\ \A y \in Of(q) : y \in Of(s2c[c])
    BY TookFacts
  <1> QED
    BY <1>1 DEF EventDone

LEMMA ConnectedDone ==
    ASSUME TypeInv, NEW c \in Client, OnConnected(c)
    PROVE  EventDone(c)
  <1> DEFINE e == [eng[c] EXCEPT !.pushing = FALSE, !.rejected = {}]
             o == <<[type |-> "attach"]>>
             w == [Running(e) EXCEPT !.out = o]
  <1>1. eng[c] \in Engine /\ s2c[c] # <<>>
    BY StateFields DEF OnConnected, EventIs
  <1>2. e \in Engine /\ e.rows = eng[c].rows /\ e.owner = eng[c].owner /\ e.fork = eng[c].fork
    BY <1>1 DEF Engine
  <1>3. Engines(c, w) /\ Took(c) /\ UNCHANGED <<log, conn, listening, answer, late, faults>>
    BY DEF OnConnected
  <1> HIDE DEF e
  <1>4. o \in Seq(Request) /\ Commits(o) = {}
    BY NoCommits
  <1> HIDE DEF o
  <1>5. w \in Work /\ w.e = e /\ w.out = o
    BY <1>2, <1>4, RunningFacts DEF Work
  <1> HIDE DEF w
  <1>6. Handled(c, eng[c], Head(s2c[c]), conn[c], w)
    BY <1>1, <1>2, <1>4, <1>5, HandledPlain
  <1> QED
    BY <1>1, <1>3, <1>5, <1>6, Whole

LEMMA SequenceDone ==
    ASSUME TypeInv, NEW c \in Client, OnSequence(c)
    PROVE  EventDone(c)
  <1> DEFINE p == Head(s2c[c])
             d == CheckCursorOwner(eng[c], conn[c])
             e == SawSeq(d, p.max)
             w == IF Behind(e) THEN FetchFrom(Running(e), FetchCursor(e)) ELSE TryCommitPending(c, Running(e))
  <1>1. eng[c] \in Engine /\ conn[c] \in Server \cup {NoServer} /\ s2c[c] # <<>> /\ p \in Event /\ p.type = "sequence"
    BY StateFields DEF OnSequence, EventIs
  <1>2. p.max \in Nat
    BY <1>1, EventFields
  <1>3. /\ d \in Engine /\ d.fork = eng[c].fork
        /\ \/ d.rows = eng[c].rows /\ d.owner \in {eng[c].owner, conn[c]}
           \/ eng[c].owner \notin {NoServer, conn[c]}
    BY <1>1, CursorOwnerFacts
  <1> HIDE DEF d
  <1>4. e \in Engine /\ e.rows = d.rows /\ e.owner = d.owner /\ e.fork = d.fork
    BY <1>2, <1>3, SawSeqFacts
  <1>5. Took(c) /\ UNCHANGED <<log, conn, listening, answer, late, faults>> /\ Engines(c, w)
    <2>1. Running(e).e = e
      BY <1>4, RunningFacts
    <2> QED
      BY <2>1 DEF OnSequence, d
  <1> HIDE DEF e, p
  <1>6. Running(e) \in Work /\ Running(e).e = e /\ Running(e).out = <<>> /\ FetchCursor(e) \in Nat
    BY <1>4, RunningFacts, CursorType
  <1>7. /\ FetchFrom(Running(e), FetchCursor(e)) \in Work /\ FetchFrom(Running(e), FetchCursor(e)).e = e
        /\ Commits(FetchFrom(Running(e), FetchCursor(e)).out) = {}
    BY <1>4, <1>6, RunningFacts, FetchFacts
  <1>8. w \in Work /\ Handled(c, eng[c], p, conn[c], w)
    <2>1. CASE Behind(e)
      BY <1>1, <1>3, <1>4, <1>7, <2>1, HandledPlain
    <2>2. CASE ~Behind(e)
      BY <1>1, <1>3, <1>4, <1>6, <2>2, NoCommits, HandledPlain
    <2> QED
      BY <2>1, <2>2
  <1> HIDE DEF w
  <1> QED
    BY <1>1, <1>5, <1>8, Whole DEF p

LEMMA RecordsEndDone ==
    ASSUME TypeInv, NEW c \in Client, OnRecordsEnd(c)
    PROVE  EventDone(c)
  <1> DEFINE p == Head(s2c[c])
             e == eng[c]
             cleared == [Running(e) EXCEPT !.e.rejected = {}]
             more == (p.begun /\ p.last < p.max) /\ (p.start = 0 \/ p.start < p.last)
             w == IF more THEN FetchFrom(Running(e), p.last) ELSE OnFetchComplete(c, Running(e))
  <1>1. e \in Engine /\ s2c[c] # <<>> /\ p \in Event /\ p.type = "records"
    BY StateFields DEF OnRecordsEnd, EventIs
  <1>2. p.last \in Nat
    BY <1>1, EventFields
  <1>3. Took(c) /\ UNCHANGED <<log, conn, listening, answer, late, faults>> /\ Engines(c, w)
    BY DEF OnRecordsEnd
  <1>4. Running(e) \in Work /\ Running(e).e = e /\ Running(e).out = <<>>
    BY <1>1, RunningFacts
  <1>5. \E d \in Engine : /\ d.rows = e.rows /\ d.owner = e.owner /\ d.fork = e.fork
                          /\ cleared = Running(d)
    <2> DEFINE d == [e EXCEPT !.rejected = {}]
    <2>1. d \in Engine /\ d.rows = e.rows /\ d.owner = e.owner /\ d.fork = e.fork
      BY <1>1, RejectedChanged
    <2>2. cleared = [Running(e) EXCEPT !.e = [Running(e).e EXCEPT !.rejected = {}]]
      OBVIOUS
    <2>3. cleared = Running(d)
      <3>1. [Running(e).e EXCEPT !.rejected = {}] = d
        BY <1>4
      <3>2. [Running(e) EXCEPT !.e = d] = Running(d)
        BY <1>1, RunningFacts
      <3> HIDE DEF cleared, d
      <3> QED
        BY <2>2, <3>1, <3>2
    <2> QED
      BY <2>1, <2>3
  <1>6. PICK d \in Engine : /\ d.rows = e.rows /\ d.owner = e.owner /\ d.fork = e.fork
                            /\ cleared = Running(d)
    BY <1>5
  <1>7. Running(d) \in Work /\ Running(d).e = d /\ Running(d).out = <<>>
    BY RunningFacts
  <1>8. OnFetchComplete(c, Running(e)) \in {Running(e), TryCommitPending(c, Running(d))}
    BY <1>6 DEF OnFetchComplete
  <1>9. /\ FetchFrom(Running(e), p.last) \in Work /\ FetchFrom(Running(e), p.last).e = e
        /\ Commits(FetchFrom(Running(e), p.last).out) = {}
    BY <1>1, <1>2, RunningFacts, FetchFacts
  <1> HIDE DEF p, e
  <1>10. w \in Work /\ Handled(c, e, p, conn[c], w)
    <2>1. CASE more
      <3>1. w = FetchFrom(Running(e), p.last)
        BY <2>1
      <3> HIDE DEF w
      <3> QED
        BY <1>1, <1>9, <3>1, HandledPlain
    <2>2. CASE ~more
      <3>1. w \in {Running(e), TryCommitPending(c, Running(d))}
        BY <1>8, <2>2
      <3> HIDE DEF w
      <3>2. CASE w = Running(e)
        BY <1>1, <1>4, <3>2, NoCommits, HandledPlain
      <3>3. CASE w = TryCommitPending(c, Running(d))
        BY <1>1, <1>6, <1>7, <3>3, NoCommits, HandledPlain
      <3> QED
        BY <3>1, <3>2, <3>3
    <2> QED
      BY <2>1, <2>2
  <1> HIDE DEF w
  <1> QED
    BY <1>1, <1>3, <1>10, Whole DEF p, e

LEMMA CommittedDone ==
    ASSUME TypeInv, NEW c \in Client, OnCommitted(c)
    PROVE  EventDone(c)
  <1> DEFINE p == Head(s2c[c])
             b == p.block
             x == Answered(c)
             held == FindTag(x, b.form.tag)
             i == CHOOSE j \in held : TRUE
             d == UpdateCommitState(x, i, b)
             w == IF held = {} THEN Running(x) ELSE TryCommitPending(c, [Running(x) EXCEPT !.e = d])
  <1>1. eng[c] \in Engine /\ s2c[c] # <<>> /\ p \in Event /\ p.type = "committed"
    BY StateFields DEF OnCommitted, EventIs
  <1>2. b \in ChainBlock /\ b \in BlocksIn(p)
    BY <1>1, EventFields DEF BlocksIn
  <1>3. x \in Engine /\ x.rows = eng[c].rows /\ x.owner = eng[c].owner /\ x.fork = eng[c].fork
    BY AnsweredFacts
  <1>4. Running(x) \in Work /\ Running(x).e = x /\ Running(x).out = <<>>
    BY <1>3, RunningFacts
  <1>5. Took(c) /\ UNCHANGED <<log, conn, listening, answer, late, faults>> /\ Engines(c, w)
    BY <1>4 DEF OnCommitted
  <1> HIDE DEF x, p, b
  <1>6. CASE held = {}
    <2>1. w = Running(x)
      BY <1>6
    <2> HIDE DEF w
    <2>2. Handled(c, eng[c], p, conn[c], w) /\ w \in Work
      BY <1>1, <1>3, <1>4, <2>1, NoCommits, HandledPlain
    <2> QED
      BY <1>1, <1>5, <2>2, Whole DEF p
  <1>7. CASE held # {}
    <2>1. w = TryCommitPending(c, [Running(x) EXCEPT !.e = d]) /\ i \in held
      BY <1>7
    <2> HIDE DEF w, i
    <2>2. i \in DOMAIN x.rows /\ i \in Known(eng[c], b)
      BY <1>3, <2>1 DEF FindTag, Known
    <2>3. d \in Engine /\ d.owner = x.owner /\ d.fork = x.fork
      BY <1>2, <1>3, <2>2, UpdateCommitFacts
    <2>4. RowsBy(eng[c], p, d.rows)
      BY <1>2, <1>3, <2>2 DEF RowsBy
    <2> HIDE DEF d
    <2>5. [Running(x) EXCEPT !.e = d] = Running(d) /\ Running(d) \in Work /\ Running(d).e = d /\ Running(d).out = <<>>
      BY <1>3, <2>3, RunningFacts
    <2>6. w \in Work
      BY <2>1, <2>5, TryCommitFacts
    <2>7. Handled(c, eng[c], p, conn[c], w)
      BY <1>3, <2>1, <2>3, <2>4, <2>5, NoCommits DEF Handled, ForkBy
    <2> QED
      BY <1>1, <1>5, <2>6, <2>7, Whole DEF p
  <1> QED
    BY <1>6, <1>7

LEMMA RefusedDone ==
    ASSUME TypeInv, NEW c \in Client, OnRefused(c)
    PROVE  EventDone(c)
  <1> DEFINE p == Head(s2c[c])
             x == Answered(c)
             r == Running(x)
             marked == MarkRejected(r, p.tag)
             held == {i \in FindTag(x, p.tag) : x.rows[i].st = "pending_commit"}
             rows == [i \in DOMAIN x.rows |-> IF i \in held THEN [x.rows[i] EXCEPT !.st = "invalid"] ELSE x.rows[i]]
             y == [x EXCEPT !.rows = rows]
             dropped == [r EXCEPT !.e.rows = rows]
             w == CASE p.why = "out_of_sync" ->
                         IF Behind(x) THEN FetchFrom(r, FetchCursor(x)) ELSE TryCommitPending(c, marked)
                    [] p.why = "already_committed" ->
                         IF Behind(x) THEN FetchFrom(marked, FetchCursor(x))
                         ELSE TryCommitPending(c, ResolveDuplicates(marked))
                    [] p.why = "invalid_record" -> TryCommitPending(c, dropped)
                    [] p.why = "syncing" -> TryCommitPending(c, marked)
  <1>1. eng[c] \in Engine /\ s2c[c] # <<>> /\ p \in Event /\ p.type = "refused"
    BY StateFields DEF OnRefused, EventIs
  <1>2. p.tag \in FormTag /\ p.why \in Refusals
    BY <1>1, EventFields
  <1>3. x \in Engine /\ x.rows = eng[c].rows /\ x.owner = eng[c].owner /\ x.fork = eng[c].fork
    BY AnsweredFacts
  <1>4. r \in Work /\ r.e = x /\ r.out = <<>> /\ FetchCursor(x) \in Nat
    BY <1>3, RunningFacts, CursorType
  <1>5. Took(c) /\ UNCHANGED <<log, conn, listening, answer, late, faults>> /\ Engines(c, w)
    BY <1>4 DEF OnRefused
  <1> HIDE DEF x, p
  <1>6. PICK m \in Engine : m.rows = x.rows /\ m.owner = x.owner /\ m.fork = x.fork /\ marked = Running(m)
    BY <1>2, <1>3, MarkedFacts
  <1>7. PICK n \in Engine : n.rows = m.rows /\ n.owner = m.owner /\ n.fork = m.fork
                            /\ ResolveDuplicates(Running(m)) = Running(n)
    BY ResolvedFacts
  <1>8. /\ Running(m) \in Work /\ Running(m).e = m /\ Running(m).out = <<>>
        /\ Running(n) \in Work /\ Running(n).e = n /\ Running(n).out = <<>>
    BY RunningFacts
  <1> HIDE DEF marked
  <1>9. ASSUME NEW v, v \in {TryCommitPending(c, Running(m)), TryCommitPending(c, Running(n)),
                             FetchFrom(r, FetchCursor(x)), FetchFrom(Running(m), FetchCursor(x))}
        PROVE  v \in Work /\ Handled(c, eng[c], p, conn[c], v)
    <2>1. CASE v = TryCommitPending(c, Running(m))
      BY <1>1, <1>3, <1>6, <1>8, <2>1, NoCommits, HandledPlain
    <2>2. CASE v = TryCommitPending(c, Running(n))
      BY <1>1, <1>3, <1>6, <1>7, <1>8, <2>2, NoCommits, HandledPlain
    <2>3. CASE v = FetchFrom(r, FetchCursor(x))
      <3>1. v \in Work /\ v.e = x /\ Commits(v.out) = {}
        <4>1. r = [e |-> x, out |-> <<>>, threw |-> FALSE]
          BY <1>3, RunningFacts
        <4> HIDE DEF r
        <4>2. \A k \in Nat : FetchFrom(r, k) \in Work /\ FetchFrom(r, k).e = x /\ Commits(FetchFrom(r, k).out) = {}
          BY ZenonT(60), <1>3, <4>1, FetchFacts
        <4> QED
          BY <1>4, <2>3, <4>2
      <3> QED
        BY <1>1, <1>3, <3>1, HandledPlain
    <2>4. CASE v = FetchFrom(Running(m), FetchCursor(x))
      <3>1. v \in Work /\ v.e = m /\ Commits(v.out) = {}
        BY <1>4, <2>4, RunningFacts, FetchFacts
      <3> QED
        BY <1>1, <1>3, <1>6, <3>1, HandledPlain
    <2> QED
      BY <1>9, <2>1, <2>2, <2>3, <2>4
  <1>10. CASE p.why # "invalid_record"
    <2>1. w \in {TryCommitPending(c, Running(m)), TryCommitPending(c, Running(n)),
                 FetchFrom(r, FetchCursor(x)), FetchFrom(Running(m), FetchCursor(x))}
      <3>1. p.why = "out_of_sync" \/ p.why = "already_committed" \/ p.why = "syncing"
        BY <1>2, <1>10 DEF Refusals
      <3> HIDE DEF r, dropped
      <3>2. CASE p.why = "out_of_sync"
        BY <1>6, <3>2
      <3>3. CASE p.why = "already_committed"
        BY <1>6, <1>7, <3>3
      <3>4. CASE p.why = "syncing"
        BY <1>6, <3>4
      <3> QED
        BY <3>1, <3>2, <3>3, <3>4
    <2> HIDE DEF w
    <2>2. w \in Work /\ Handled(c, eng[c], p, conn[c], w)
      BY <1>9, <2>1
    <2> QED
      BY <1>1, <1>5, <2>2, Whole DEF p
  <1>11. CASE p.why = "invalid_record"
    <2>1. w = TryCommitPending(c, dropped)
      <3> HIDE DEF r, dropped
      <3> QED
        BY <1>11
    <2>2. Len(x.rows) \in Nat /\ DOMAIN x.rows = 1..Len(x.rows) /\ \A i \in DOMAIN x.rows : x.rows[i] \in Row
      BY <1>3, EngineFields
    <2>3. \A i \in DOMAIN x.rows : [x.rows[i] EXCEPT !.st = "invalid"] \in Row
      BY <2>2 DEF Row, States
    <2>4. rows \in [1..Len(x.rows) -> Row]
      BY <2>2, <2>3
    <2>5. rows \in Seq(Row)
      BY <2>2, <2>4
    <2>6. RowsBy(eng[c], p, rows)
      BY <1>1, <1>3, <1>11 DEF RowsBy, FindTag
    <2> HIDE DEF rows, w
    <2>7. y \in Engine /\ y.rows = rows /\ y.owner = x.owner /\ y.fork = x.fork
      BY <1>3, <2>5, RowsChanged
    <2>8. dropped = Running(y)
      <3>1. dropped = [r EXCEPT !.e = [r.e EXCEPT !.rows = rows]]
        OBVIOUS
      <3>2. [r.e EXCEPT !.rows = rows] = y
        BY <1>4
      <3>3. [r EXCEPT !.e = y] = Running(y)
        BY <1>3, RunningFacts
      <3> HIDE DEF dropped, y, r
      <3> QED
        BY <3>1, <3>2, <3>3
    <2> HIDE DEF y, dropped
    <2>9. Running(y) \in Work /\ Running(y).e = y /\ Running(y).out = <<>>
      BY <2>7, RunningFacts
    <2>10. w \in Work
      BY <2>1, <2>8, <2>9, TryCommitFacts
    <2>11. Handled(c, eng[c], p, conn[c], w)
      BY <1>3, <2>1, <2>6, <2>7, <2>8, <2>9, NoCommits DEF Handled, ForkBy
    <2> QED
      BY <1>1, <1>5, <2>10, <2>11, Whole DEF p
  <1> QED
    BY <1>10, <1>11

LEMMA HandledBy ==
    ASSUME NEW c \in Client, NEW e \in Engine, NEW p, NEW s, NEW d \in Work, NEW w,
           w = d \/ w = TryCommitPending(c, d), Commits(d.out) = {},
           ForkBy(e, p, d.e.fork), RowsBy(e, p, d.e.rows), d.e.owner = e.owner
    PROVE  Handled(c, e, p, s, w)
  BY DEF Handled

LEMMA IncomingDone ==
    ASSUME NEW c \in Client, NEW e \in Engine, NEW b \in ChainBlock, NEW p, b \in BlocksIn(p), NEW s
    PROVE  LET w == HandleIncoming(c, Running(e), b)
           IN  w \in Work /\ Handled(c, e, p, s, w)
  <1> DEFINE r == Running(e)
             cleared == Cleared(r)
             x == cleared.e
             w == HandleIncoming(c, r, b)
  <1>1. r \in Work /\ r.e = e /\ Commits(r.out) = {}
    BY RunningFacts, NoCommits
  <1>2. /\ w \in Work /\ cleared \in Work /\ x.rows = r.e.rows /\ x.owner = r.e.owner
        /\ x.fork = r.e.fork /\ cleared.out = r.out
        /\ \/ w = r
           \/ Known(r.e, b) = {} /\ OwnOf(r.e, b) = {} /\ w = VerifyBlock(c, cleared, b)
           \/ /\ Known(r.e, b) = {}
              /\ \E i \in OwnOf(r.e, b) : w = [cleared EXCEPT !.e = AdoptCommitted(x, i, b)]
           \/ /\ Known(r.e, b) # {} /\ OwnOf(r.e, b) # {}
              /\ \E i \in Known(r.e, b) \cup OwnOf(r.e, b) :
                    LET d == UpdateCommitState(r.e, i, b)
                    IN  /\ w.e.rows = d.rows /\ w.e.owner = d.owner /\ w.e.fork = d.fork /\ w.out = r.out
    <2> HIDE DEF r
    <2> QED
      BY <1>1, IncomingFacts
  <1>3. x \in Engine
    <2> HIDE DEF r, cleared
    <2> QED
      BY <1>2, WorkFields
  <1>4. cleared.e = x
    OBVIOUS
  <1> SUFFICES Handled(c, e, p, s, w)
    BY <1>2
  <1> HIDE DEF r, cleared, x, w
  <1>5. x.rows = e.rows /\ x.owner = e.owner /\ x.fork = e.fork /\ cleared.out = r.out
    BY <1>1, <1>2
  <1>6. CASE w = r
    <2>1. ForkBy(e, p, w.e.fork) /\ RowsBy(e, p, w.e.rows)
      BY <1>1, <1>6 DEF ForkBy, RowsBy
    <2> QED
      BY <1>1, <1>2, <1>6, <2>1, HandledBy
  <1>7. CASE Known(e, b) # {} /\ \E i \in Known(e, b) \cup OwnOf(e, b) :
                LET d == UpdateCommitState(e, i, b)
                IN  w.e.rows = d.rows /\ w.e.owner = d.owner /\ w.e.fork = d.fork /\ w.out = r.out
    <2>1. PICK i \in Known(e, b) \cup OwnOf(e, b) :
                LET d == UpdateCommitState(e, i, b)
                IN  w.e.rows = d.rows /\ w.e.owner = d.owner /\ w.e.fork = d.fork /\ w.out = r.out
      BY <1>7
    <2>2. i \in DOMAIN e.rows
      BY DEF Known, OwnOf, FindTag, FindOp
    <2>3. UpdateCommitState(e, i, b).owner = e.owner /\ UpdateCommitState(e, i, b).fork = e.fork
      BY ZenonT(60), <2>2, UpdateCommitFacts
    <2>4. RowsBy(e, p, w.e.rows)
      BY <1>7, <2>1 DEF RowsBy
    <2>5. ForkBy(e, p, w.e.fork)
      BY <2>1, <2>3 DEF ForkBy
    <2> QED
      BY <1>1, <1>2, <2>1, <2>3, <2>4, <2>5, HandledBy
  <1>8. CASE Known(e, b) = {} /\ \E i \in OwnOf(e, b) : w = [cleared EXCEPT !.e = AdoptCommitted(x, i, b)]
    <2>1. PICK i \in OwnOf(e, b) : w = [cleared EXCEPT !.e = AdoptCommitted(x, i, b)]
      BY <1>8
    <2> DEFINE d == AdoptCommitted(x, i, b)
    <2>2. i \in DOMAIN x.rows
      BY <1>5 DEF OwnOf, FindOp
    <2>3. d \in Engine /\ d.owner = x.owner /\ d.fork = x.fork
      BY ZenonT(60), <1>3, <2>2, AdoptFacts
    <2>4. RowsBy(e, p, d.rows)
      BY <1>3, <1>5, <1>8 DEF RowsBy
    <2>5. w = [cleared EXCEPT !.e = d]
      BY <2>1
    <2> HIDE DEF d
    <2>6. w.e = d /\ w.out = r.out
      BY <1>2, <1>5, <2>3, <2>5, WorkFields
    <2>7. ForkBy(e, p, d.fork)
      BY <1>5, <2>3 DEF ForkBy
    <2> QED
      BY <1>1, <1>2, <1>5, <2>3, <2>4, <2>6, <2>7, HandledBy
  <1>9. CASE w = VerifyBlock(c, cleared, b)
    <2> DEFINE y == Looked(x, b)
               created == Taken(y, b)
               linked == CheckPendingRecords(created, IdOf(b))
    <2>1. /\ y \in Engine /\ y.rows = e.rows /\ y.owner = e.owner
          /\ y.fork = (e.fork \/ ForkSeen(e, b.form))
      <3>1. y \in Engine /\ y.rows = x.rows /\ y.owner = x.owner /\ y.fork = (x.fork \/ ForkSeen(x, b.form))
        BY <1>3, LookedFacts
      <3>2. ForkSeen(x, b.form) = ForkSeen(e, b.form)
        BY <1>5 DEF ForkSeen, FindSeq, RowsIn
      <3> HIDE DEF y
      <3> QED
        BY <1>5, <3>1, <3>2
    <2>2. \/ w.e = y /\ w.out = r.out
          \/ /\ FindOp(y, OpIn(b.form)) = {} /\ CheckBlock(y, b) # "in_sync"
             /\ w = [cleared EXCEPT !.e = created]
          \/ /\ FindOp(y, OpIn(b.form)) = {} /\ CheckBlock(y, b) = "in_sync"
             /\ \/ w = [cleared EXCEPT !.e = linked]
                \/ w = TryCommitPending(c, [cleared EXCEPT !.e = linked])
      <3>1. LET z == Looked(cleared.e, b)
                made == Taken(z, b)
                tied == CheckPendingRecords(made, IdOf(b))
                v == VerifyBlock(c, cleared, b)
            IN  /\ v \in Work
                /\ \/ v = [cleared EXCEPT !.e = z, !.threw = TRUE] /\ v.e = z /\ v.out = cleared.out
                   \/ /\ FindOp(z, OpIn(b.form)) = {} /\ CheckBlock(z, b) # "in_sync"
                      /\ v = [cleared EXCEPT !.e = made]
                   \/ /\ FindOp(z, OpIn(b.form)) = {} /\ CheckBlock(z, b) = "in_sync"
                      /\ \/ v = [cleared EXCEPT !.e = tied]
                         \/ v = TryCommitPending(c, [cleared EXCEPT !.e = tied])
        BY <1>2, VerifyFacts, Zenon
      <3> QED
        BY <1>4, <1>5, <1>9, <3>1
    <2> HIDE DEF y
    <2>3. created \in Engine /\ created.owner = y.owner /\ created.fork = y.fork
      BY <2>1, TakenFacts
    <2> HIDE DEF created
    <2>4. linked \in Engine /\ linked.owner = created.owner /\ linked.fork = created.fork
      BY <2>3, CheckPendingFacts
    <2>5. FindOp(e, OpIn(b.form)) = FindOp(y, OpIn(b.form))
      BY <2>1 DEF FindOp
    <2>6. FindOp(y, OpIn(b.form)) = {} /\ CheckBlock(y, b) # "in_sync" => RowsBy(e, p, created.rows)
      BY <2>1, <2>5 DEF RowsBy, created
    <2>7. FindOp(y, OpIn(b.form)) = {} /\ CheckBlock(y, b) = "in_sync" => RowsBy(e, p, linked.rows)
      BY <2>1, <2>5 DEF RowsBy, created
    <2>8. ForkBy(e, p, y.fork)
      BY <2>1 DEF ForkBy
    <2> HIDE DEF linked
    <2>9. CASE w.e = y /\ w.out = r.out
      <3>1. RowsBy(e, p, w.e.rows) /\ ForkBy(e, p, w.e.fork)
        BY <2>1, <2>8, <2>9 DEF RowsBy
      <3> QED
        BY <1>1, <1>2, <2>1, <2>9, <3>1, HandledBy
    <2>10. CASE /\ FindOp(y, OpIn(b.form)) = {} /\ CheckBlock(y, b) # "in_sync"
                /\ w = [cleared EXCEPT !.e = created]
      <3>1. w.e = created /\ w.out = r.out
        BY <1>2, <1>5, <2>3, <2>10, WorkFields
      <3>2. RowsBy(e, p, w.e.rows) /\ ForkBy(e, p, w.e.fork) /\ w.e.owner = e.owner
        BY <2>1, <2>3, <2>6, <2>8, <2>10, <3>1
      <3> QED
        BY <1>1, <1>2, <3>1, <3>2, HandledBy
    <2>11. CASE /\ FindOp(y, OpIn(b.form)) = {} /\ CheckBlock(y, b) = "in_sync"
                /\ \/ w = [cleared EXCEPT !.e = linked]
                   \/ w = TryCommitPending(c, [cleared EXCEPT !.e = linked])
      <3> DEFINE d == [cleared EXCEPT !.e = linked]
      <3>1. d \in Work /\ d.e = linked /\ d.out = r.out
        BY <1>2, <1>5, <2>4, WorkFields
      <3>2. w = d \/ w = TryCommitPending(c, d)
        BY <2>11
      <3> HIDE DEF d
      <3>3. RowsBy(e, p, d.e.rows) /\ ForkBy(e, p, d.e.fork) /\ d.e.owner = e.owner
        BY <2>1, <2>3, <2>4, <2>7, <2>8, <2>11, <3>1
      <3> QED
        BY <1>1, <3>1, <3>2, <3>3, HandledBy
    <2> QED
      BY <2>2, <2>9, <2>10, <2>11
  <1> QED
    BY <1>1, <1>2, <1>6, <1>7, <1>8, <1>9

LEMMA RecordDone ==
    ASSUME TypeInv, NEW c \in Client, OnRecord(c)
    PROVE  EventDone(c)
  <1> DEFINE p == Head(s2c[c])
             w == HandleIncoming(c, Running(eng[c]), p.block)
  <1>1. eng[c] \in Engine /\ s2c[c] # <<>> /\ p \in Event /\ p.type = "record"
    BY StateFields DEF OnRecord, EventIs
  <1>2. p.block \in ChainBlock /\ p.block \in BlocksIn(p)
    BY <1>1, EventFields DEF BlocksIn
  <1>3. w \in Work /\ Handled(c, eng[c], p, conn[c], w)
    BY <1>1, <1>2, IncomingDone
  <1>4. Took(c) /\ UNCHANGED <<log, conn, listening, answer, late, faults>> /\ Engines(c, w)
    BY DEF OnRecord
  <1> HIDE DEF w
  <1> QED
    BY <1>1, <1>3, <1>4, Whole

LEMMA RecordsBlockDone ==
    ASSUME TypeInv, NEW c \in Client, OnRecordsBlock(c)
    PROVE  EventDone(c)
  <1> DEFINE p == Head(s2c[c])
             b == Head(p.blocks)
             w == HandleIncoming(c, Running(eng[c]), b)
             left == [p EXCEPT !.blocks = Tail(@), !.begun = TRUE]
             q == IF w.threw THEN Tail(s2c[c]) ELSE <<left>> \o Tail(s2c[c])
  <1>1. eng[c] \in Engine /\ s2c[c] \in Seq(Event) /\ s2c[c] # <<>> /\ p \in Event /\ p.type = "records"
        /\ p.blocks # <<>>
    BY StateFields DEF OnRecordsBlock, EventIs
  <1>2. p.blocks \in Seq(ChainBlock) /\ p.start \in Nat /\ p.last \in Nat /\ p.max \in Nat
    BY <1>1, EventFields
  <1>3. b \in ChainBlock /\ b \in Of(p.blocks) /\ Tail(p.blocks) \in Seq(ChainBlock)
        /\ Of(Tail(p.blocks)) \subseteq Of(p.blocks)
    BY <1>1, <1>2, OfTail
  <1>4. b \in BlocksIn(p)
    BY <1>1, <1>3 DEF BlocksIn
  <1>5. w \in Work /\ Handled(c, eng[c], p, conn[c], w)
    BY <1>1, <1>3, <1>4, IncomingDone
  <1>6. UNCHANGED <<log, conn, listening, answer, late, faults>> /\ Engines(c, w)
    BY DEF OnRecordsBlock
  <1>7. s2c' = [s2c EXCEPT ![c] = q]
    BY DEF OnRecordsBlock
  <1> HIDE DEF w
  <1>8. left \in Event /\ left.type = "records" /\ left.blocks = Tail(p.blocks)
    <2> DEFINE bs == Tail(p.blocks)
    <2>1. bs \in Seq(ChainBlock)
      BY <1>3
    <2>2. p \in [type : {"records"}, start : Nat, blocks : Seq(ChainBlock), last : Nat, max : Nat, begun : BOOLEAN]
      BY <1>1 DEF Event
    <2>3. left = [p EXCEPT !.blocks = bs, !.begun = TRUE]
      OBVIOUS
    <2> HIDE DEF bs, p, left
    <2>4. left \in [type : {"records"}, start : Nat, blocks : Seq(ChainBlock), last : Nat, max : Nat, begun : BOOLEAN]
          /\ left.type = "records" /\ left.blocks = bs
      BY <2>1, <2>2, <2>3
    <2> QED
      BY <2>4 DEF Event, bs
  <1> HIDE DEF left, p
  <1>9. q \in Seq(Event) /\ Of(q) \subseteq Of(s2c[c]) \cup {left}
    BY <1>1, <1>8, OfTail, OfReplaced
  <1> HIDE DEF q
  <1>10. \A y \in Of(q) : \/ y \in Of(s2c[c])
                          \/ y.type = "records" /\ p.type = "records" /\ Of(y.blocks) \subseteq Of(p.blocks)
    BY <1>1, <1>3, <1>8, <1>9
  <1> QED
    BY <1>1, <1>5, <1>6, <1>7, <1>9, <1>10 DEF EventDone, p

LEMMA EventsDone ==
    ASSUME TypeInv, NEW c \in Client, Events(c)
    PROVE  EventDone(c)
  BY ConnectedDone, SequenceDone, RecordsBlockDone, RecordsEndDone, CommittedDone, RefusedDone, RecordDone
     DEF Events

-----------------------------------------------------------------------------
(* The state keeps its shape *)

LEMMA BlockType ==
    ASSUME NEW L \in Seq(Form), NEW n \in DOMAIN L
    PROVE  Block(L, n) \in ChainBlock /\ Block(L, n).seq = n /\ Block(L, n).form = L[n]
  <1>1. DOMAIN L = 1..Len(L) /\ Len(L) \in Nat /\ \A i \in DOMAIN L : L[i] \in Form
    BY SeqFacts
  <1>2. n # 1 => n - 1 \in DOMAIN L
    BY <1>1
  <1>3. \A i \in DOMAIN L : L[i].tag \in Tag
    BY <1>1 DEF Form, Tag
  <1> DEFINE t == IF n = 1 THEN NoTag ELSE L[n - 1].tag
  <1>4. t \in Tag
    BY <1>2, <1>3 DEF Tag
  <1>5. Block(L, n) = [form |-> L[n], seq |-> n, parent |-> t]
    BY DEF Block
  <1> HIDE DEF t
  <1>6. n \in Nat \ {0}
    BY <1>1
  <1> QED
    BY <1>1, <1>4, <1>5, <1>6 DEF ChainBlock

LEMMA EnginesType ==
    ASSUME TypeInv, NEW c \in Client, NEW w \in Work, Engines(c, w)
    PROVE  eng' \in [Client -> Engine] /\ c2s' \in [Client -> Seq(Request)]
  <1>1. w.e \in Engine /\ w.out \in Seq(Request)
    BY WorkFields
  <1>2. eng' = [eng EXCEPT ![c] = w.e] /\ eng \in [Client -> Engine]
    BY DEF Engines, TypeInv, TypeOK
  <1>3. c2s[c] \in Seq(Request)
    BY StateFields
  <1>4. c2s[c] \o w.out \in Seq(Request)
    BY <1>1, <1>3, OfJoin
  <1>5. c2s' = [c2s EXCEPT ![c] = IF conn[c] = NoServer THEN c2s[c] ELSE c2s[c] \o w.out]
        /\ c2s \in [Client -> Seq(Request)]
    BY DEF Engines, TypeInv, TypeOK
  <1> DEFINE q == IF conn[c] = NoServer THEN c2s[c] ELSE c2s[c] \o w.out
  <1>6. q \in Seq(Request) /\ c2s' = [c2s EXCEPT ![c] = q]
    BY <1>3, <1>4, <1>5
  <1> HIDE DEF q
  <1> QED
    BY <1>1, <1>2, <1>5, <1>6

LEMMA EventTypes ==
    ASSUME TypeInv, NEW c \in Client, EventDone(c)
    PROVE  TypeInv'
  <1>1. PICK w \in Work : Engines(c, w)
    BY DEF EventDone
  <1>2. eng' \in [Client -> Engine] /\ c2s' \in [Client -> Seq(Request)]
    BY <1>1, EnginesType
  <1>3. s2c' \in [Client -> Seq(Event)]
    BY DEF EventDone, TypeInv, TypeOK
  <1>4. UNCHANGED <<log, conn, listening, answer, late, faults>>
    BY DEF EventDone
  <1> QED
    BY <1>2, <1>3, <1>4 DEF TypeInv, TypeOK, Owed

LEMMA BaseBlockType ==
    ASSUME NEW e, e.rows \in Seq(Row)
    PROVE  BaseBlock(e) \in BlockId
  BY LastBlockFacts DEF BaseBlock

\* the row a new change is stored in
ChangeForm(c, e, op) ==
    [tag |-> <<op, c, 1>>, seen |-> BaseBlock(e), special |-> LastSpecialTag(e),
     prev |-> IF op \in SpecialOps THEN NoTag ELSE FindLast(e, ObjectOf[op])]
ChangeRow(c, e, op) ==
    LET f == ChangeForm(c, e, op) IN [form |-> f, st |-> "pending_commit", id |-> Predicted(f), ver |-> 1]

ChangeWork(c, e, op) ==
    LET r == ChangeRow(c, e, op) IN CommitRecord(Running([e EXCEPT !.rows = Append(@, r)]), r.form)

Changed(c, op, r, w) ==
    /\ FindOp(eng[c], op) = {} /\ op \notin {Root, First}
    /\ w \in Work /\ Engines(c, w)
    /\ UNCHANGED <<log, conn, listening, answer, s2c, late, faults>>
    /\ r \in Row /\ OpIn(r.form) = op /\ r.form.tag = <<op, c, 1>> /\ r.st = "pending_commit" /\ r.ver = 1
    /\ r.form.special = LastSpecialTag(eng[c])
    /\ w.e.rows = Append(eng[c].rows, r) /\ w.e.owner = eng[c].owner /\ w.e.fork = eng[c].fork
    /\ w.out = <<>> \/ w.out = <<[type |-> "commit", form |-> r.form]>>

LEMMA SyncChangeFacts ==
    ASSUME TypeInv, NEW c \in Client, NEW op \in Op, SyncChange(c, op)
    PROVE  Changed(c, op, ChangeRow(c, eng[c], op), ChangeWork(c, eng[c], op))
  <1> DEFINE e == eng[c]
             f == ChangeForm(c, e, op)
             r == ChangeRow(c, e, op)
             d == [e EXCEPT !.rows = Append(@, r)]
             w == CommitRecord(Running(d), r.form)
  <1>1. e \in Engine /\ e.rows \in Seq(Row)
    BY StateFields, EngineFields
  <1>2. r = [form |-> f, st |-> "pending_commit", id |-> Predicted(f), ver |-> 1] /\ r.form = f
    BY DEF ChangeRow
  <1>3. /\ FindOp(e, op) = {} /\ op \notin {Root, First} /\ AuthorOf[op] = c
        /\ UNCHANGED <<log, conn, listening, answer, s2c, late, faults>>
    BY DEF SyncChange
  <1>4. Engines(c, CommitRecord(Running(d), f))
    BY DEF SyncChange, ChangeRow, ChangeForm
  <1>5. Engines(c, w)
    BY <1>2, <1>4
  <1> HIDE DEF e
  <1>6. BaseBlock(e) \in BlockId /\ LastSpecialTag(e) \in Tag /\ \A x : FindLast(e, x) \in Tag
    BY <1>1, BaseBlockType, NewestTags
  <1>7. f \in Form /\ f.tag = <<op, c, 1>> /\ f.seen \in BlockId /\ f.special = LastSpecialTag(e)
    <2> DEFINE v == IF op \in SpecialOps THEN NoTag ELSE FindLast(e, ObjectOf[op])
    <2>1. v \in Tag
      BY <1>6 DEF Tag
    <2>2. f = [tag |-> <<op, c, 1>>, seen |-> BaseBlock(e), special |-> LastSpecialTag(e), prev |-> v]
      BY DEF ChangeForm
    <2> HIDE DEF v
    <2>3. <<op, c, 1>> \in FormTag
      BY DEF FormTag
    <2> QED
      BY <1>6, <2>1, <2>2, <2>3 DEF Form
  <1> HIDE DEF f
  <1>8. Predicted(f) \in BlockId
    <2>1. f.tag \in Tag /\ f.seen.seq \in Nat
      BY <1>7 DEF Form, Tag, BlockId
    <2> QED
      BY <2>1 DEF Predicted, BlockId, Tag
  <1>9. r \in Row /\ OpIn(r.form) = op /\ r.form.tag = <<op, c, 1>> /\ r.st = "pending_commit" /\ r.ver = 1
        /\ r.form.special = LastSpecialTag(e)
    BY <1>2, <1>7, <1>8 DEF Row, States, OpIn
  <1> HIDE DEF r
  <1>10. Append(e.rows, r) \in Seq(Row)
    BY <1>1, <1>9, OfAppend
  <1>11. d \in Engine /\ d.rows = Append(e.rows, r) /\ d.owner = e.owner /\ d.fork = e.fork
    <2> DEFINE rows == Append(e.rows, r)
    <2>1. d = [e EXCEPT !.rows = rows]
      OBVIOUS
    <2> HIDE DEF rows
    <2> QED
      BY <1>1, <1>10, <2>1, RowsChanged DEF rows
  <1> HIDE DEF d
  <1>12. Running(d) \in Work /\ Running(d).e = d /\ Running(d).out = <<>> /\ Running(d).threw = FALSE
    BY <1>11, RunningFacts
  <1>13. CASE d.fork
    <2>1. w = Running(d)
      BY <1>12, <1>13 DEF CommitRecord
    <2> HIDE DEF w
    <2> QED
      BY ZenonT(60), <1>3, <1>5, <1>9, <1>11, <1>12, <2>1 DEF w, d, r, e, ChangeWork, Changed
  <1>14. CASE ~d.fork
    <2> DEFINE p == [type |-> "commit", form |-> r.form]
               o == <<p>>
               x == [d EXCEPT !.pushing = TRUE]
               v == [e |-> x, out |-> o, threw |-> FALSE]
    <2>1. p \in Request
      BY <1>2, <1>7 DEF Request
    <2>2. o \in Seq(Request) /\ o = Append(<<>>, p)
      BY <2>1
    <2>3. x \in Engine /\ x.rows = d.rows /\ x.owner = d.owner /\ x.fork = d.fork
      BY <1>11 DEF Engine
    <2>4. w = v
      <3>1. Running(d) = [e |-> d, out |-> <<>>, threw |-> FALSE]
        BY <1>11, RunningFacts
      <3>2. ASSUME NEW o1, NEW t1, Running(d) = [e |-> d, out |-> o1, threw |-> t1]
            PROVE  w = [e |-> x, out |-> Append(o1, p), threw |-> t1]
        <4> DEFINE z == Running(d)
                   g == r.form
        <4>1. z = [e |-> d, out |-> o1, threw |-> t1]
          BY <3>2
        <4> HIDE DEF z, g
        <4>2. CommitRecord(z, g) = [e |-> [d EXCEPT !.pushing = TRUE],
                                    out |-> Append(o1, [type |-> "commit", form |-> g]), threw |-> t1]
          BY <1>14, <4>1 DEF CommitRecord
        <4> QED
          BY <4>2 DEF z, g
      <3>3. w = [e |-> x, out |-> Append(<<>>, p), threw |-> FALSE]
        BY <3>1, <3>2, Zenon
      <3> QED
        BY <2>2, <3>3
    <2> HIDE DEF x, w
    <2>5. o \in Seq(Request)
      BY <2>2
    <2> HIDE DEF o
    <2>6. v \in Work /\ v.e = x /\ v.out = o
      BY <2>3, <2>5 DEF Work
    <2> HIDE DEF v
    <2> QED
      BY <1>3, <1>5, <1>9, <1>11, <2>3, <2>4, <2>6 DEF w, d, r, e, o, ChangeWork, Changed
  <1> QED
    BY <1>13, <1>14

LEMMA SyncChangeTypes ==
    ASSUME TypeInv, NEW c \in Client, NEW op \in Op, SyncChange(c, op)
    PROVE  TypeInv'
  <1>1. PICK w \in Work : Engines(c, w)
    BY SyncChangeFacts DEF Changed
  <1>2. eng' \in [Client -> Engine] /\ c2s' \in [Client -> Seq(Request)]
    BY <1>1, EnginesType
  <1> QED
    BY <1>2 DEF SyncChange, TypeInv, TypeOK, Owed

LEMMA ConnectTypes ==
    ASSUME TypeInv, NEW c \in Client, NEW s \in Server, Connect(c, s)
    PROVE  TypeInv'
  <1>1. <<[type |-> "connected"]>> \in Seq(Event)
    BY DEF Event
  <1>2. s2c' \in [Client -> Seq(Event)]
    <2> DEFINE q == <<[type |-> "connected"]>>
    <2>1. s2c' = [s2c EXCEPT ![c] = q] /\ q \in Seq(Event)
      BY <1>1 DEF Connect
    <2> HIDE DEF q
    <2> QED
      BY <2>1 DEF TypeInv, TypeOK
  <1>3. conn' \in [Client -> Server \cup {NoServer}] /\ Owed'
    <2>1. conn' = [conn EXCEPT ![c] = s] /\ answer' = answer /\ conn[c] = NoServer
      BY DEF Connect
    <2> QED
      BY <2>1 DEF TypeInv, TypeOK, Owed
  <1> QED
    BY <1>2, <1>3 DEF Connect, TypeInv, TypeOK

\* the commits a lost session leaves behind
Behindhand(c) == AtPlaces(c2s[c], {i \in DOMAIN c2s[c] : c2s[c][i].type = "commit"})
LeftBy(c) == [i \in DOMAIN Behindhand(c) |-> [server |-> conn[c], form |-> Behindhand(c)[i].form]]

LEMMA LeftFacts ==
    ASSUME TypeInv, NEW c \in Client, conn[c] # NoServer
    PROVE  LeftBy(c) \in Seq([server : Server, form : Form]) /\ Left(LeftBy(c)) \subseteq Commits(c2s[c])
  <1> DEFINE I == {i \in DOMAIN c2s[c] : c2s[c][i].type = "commit"}
             b == Behindhand(c)
             S == [server : Server, form : Form]
             l == LeftBy(c)
  <1>1. c2s[c] \in Seq(Request) /\ conn[c] \in Server
    BY StateFields
  <1>2. b \in Seq(Request) /\ \A k \in DOMAIN b : \E i \in I : b[k] = c2s[c][i]
    <2>1. I \subseteq DOMAIN c2s[c] /\ b = AtPlaces(c2s[c], I)
      BY DEF Behindhand
    <2> HIDE DEF I, b
    <2> QED
      BY <1>1, <2>1, AtPlacesFacts
  <1>3. Len(b) \in Nat /\ DOMAIN b = 1..Len(b) /\ \A k \in DOMAIN b : b[k] \in Request
    BY <1>2, SeqFacts
  <1>4. ASSUME NEW k \in DOMAIN b PROVE b[k].form \in Form /\ b[k].form \in Commits(c2s[c])
    <2>1. PICK i \in I : b[k] = c2s[c][i]
      BY <1>2
    <2>2. b[k].type = "commit" /\ b[k] \in Of(c2s[c])
      BY <2>1 DEF Of
    <2>3. b[k].form \in Form
      BY <1>3, <2>2 DEF Request
    <2> QED
      BY <2>2, <2>3 DEF Commits
  <1>5. l = [k \in DOMAIN b |-> [server |-> conn[c], form |-> b[k].form]]
    BY DEF LeftBy
  <1> HIDE DEF b
  <1>6. l \in [1..Len(b) -> S]
    BY <1>1, <1>3, <1>4, <1>5
  <1>7. l \in Seq(S)
    <2> HIDE DEF l, S
    <2> QED
      BY <1>3, <1>6
  <1>8. Left(l) \subseteq Commits(c2s[c])
    <2>1. ASSUME NEW k \in DOMAIN l PROVE l[k].form \in Commits(c2s[c])
      BY <1>4, <1>5
    <2> QED
      BY <2>1 DEF Left, Of
  <1> QED
    BY <1>7, <1>8

LEMMA LostFacts ==
    ASSUME TypeInv, NEW c \in Client, Lost(c)
    PROVE  /\ conn' = [conn EXCEPT ![c] = NoServer] /\ listening' = [listening EXCEPT ![c] = FALSE]
           /\ c2s' = [c2s EXCEPT ![c] = <<>>] /\ answer' = [answer EXCEPT ![c] = <<>>]
           /\ s2c' = [s2c EXCEPT ![c] = <<>>] /\ log' = log /\ faults' \in 0..MaxFaults
           /\ late' = [late EXCEPT ![c] = late[c] \o LeftBy(c)]
           /\ LeftBy(c) \in Seq([server : Server, form : Form]) /\ Left(LeftBy(c)) \subseteq Commits(c2s[c])
  <1>1. conn[c] # NoServer
    BY DEF Lost
  <1>2. faults' \in 0..MaxFaults
    BY SyncAssumption DEF Lost, Fault, TypeInv, TypeOK
  <1>3. late' = [late EXCEPT ![c] = late[c] \o LeftBy(c)]
    BY DEF Lost, LeftBy, Behindhand
  <1> QED
    BY <1>1, <1>2, <1>3, LeftFacts DEF Lost

LEMMA LostTypes ==
    ASSUME TypeInv, NEW c \in Client, Lost(c), eng' \in [Client -> Engine]
    PROVE  TypeInv'
  <1> DEFINE S == [server : Server, form : Form]
             q == late[c] \o LeftBy(c)
  <1>1. q \in Seq(S)
    BY StateFields, LostFacts, OfJoin
  <1>2. late' = [late EXCEPT ![c] = q]
    BY LostFacts
  <1> HIDE DEF q
  <1>3. late' \in [Client -> Seq(S)]
    BY <1>1, <1>2 DEF TypeInv, TypeOK
  <1> DEFINE z == <<>>
  <1>4. z \in Seq(Request) /\ z \in Seq(Event)
    OBVIOUS
  <1>4a. /\ c2s' = [c2s EXCEPT ![c] = z] /\ answer' = [answer EXCEPT ![c] = z] /\ s2c' = [s2c EXCEPT ![c] = z]
         /\ conn' = [conn EXCEPT ![c] = NoServer]
    BY LostFacts
  <1> HIDE DEF z
  <1>5. c2s' \in [Client -> Seq(Request)] /\ answer' \in [Client -> Seq(Event)] /\ s2c' \in [Client -> Seq(Event)]
    BY <1>4, <1>4a DEF TypeInv, TypeOK
  <1>6. conn' \in [Client -> Server \cup {NoServer}] /\ listening' \in [Client -> BOOLEAN]
    BY LostFacts DEF TypeInv, TypeOK
  <1>7. Owed'
    <2>1. ASSUME NEW d \in Client, conn'[d] = NoServer PROVE answer'[d] = <<>>
      <3>1. CASE d = c
        BY <1>4a, <3>1 DEF TypeInv, TypeOK, z
      <3>2. CASE d # c
        <4>1. conn[d] = conn'[d] /\ answer'[d] = answer[d]
          BY <1>4a, <3>2 DEF TypeInv, TypeOK
        <4> QED
          BY <2>1, <4>1 DEF TypeInv, Owed
      <3> QED
        BY <3>1, <3>2
    <2> QED
      BY <2>1 DEF Owed
  <1> QED
    BY <1>3, <1>5, <1>6, <1>7, LostFacts DEF TypeInv, TypeOK

\* A lost connection or a restart keeps the record storage.
LEMMA LostEngines ==
    ASSUME TypeInv, NEW c \in Client, Disconnect(c) \/ Restart(c)
    PROVE  /\ Lost(c) /\ eng' \in [Client -> Engine]
           /\ \A d \in Client : /\ eng'[d].rows = eng[d].rows /\ eng'[d].owner = eng[d].owner
                                /\ eng'[d].fork = eng[d].fork \/ ~eng'[d].fork
  <1>1. eng \in [Client -> Engine] /\ eng[c] \in Engine
    BY DEF TypeInv, TypeOK
  <1>2. CASE Disconnect(c)
    <2> DEFINE x == [eng[c] EXCEPT !.pushing = FALSE]
    <2>1. x \in Engine /\ x.rows = eng[c].rows /\ x.owner = eng[c].owner /\ x.fork = eng[c].fork
      BY <1>1 DEF Engine
    <2>2. eng' = [eng EXCEPT ![c] = x] /\ Lost(c)
      BY <1>2 DEF Disconnect
    <2> HIDE DEF x
    <2> QED
      BY <1>1, <2>1, <2>2
  <1>3. CASE Restart(c)
    <2> DEFINE y == [[[eng[c] EXCEPT !.pushing = FALSE] EXCEPT !.rejected = {}] EXCEPT !.serverSeq = 0]
               x == [y EXCEPT !.fork = FALSE]
    <2>1. y \in Engine /\ y.rows = eng[c].rows /\ y.owner = eng[c].owner
      BY <1>1 DEF Engine
    <2>2. eng' = [eng EXCEPT ![c] = x] /\ Lost(c)
      BY <1>1, <1>3 DEF Restart, Engine
    <2> HIDE DEF y
    <2>3. x \in Engine /\ x.rows = y.rows /\ x.owner = y.owner /\ ~x.fork
      BY <2>1 DEF Engine
    <2> HIDE DEF x
    <2> QED
      BY <1>1, <2>1, <2>2, <2>3
  <1> QED
    BY <1>2, <1>3

LEMMA AskedFacts ==
    ASSUME TypeInv, NEW c \in Client, NEW t, Asks(c, t)
    PROVE  /\ conn[c] \in Server /\ log[conn[c]] \in Seq(Form) /\ c2s[c] # <<>> /\ c2s[c] \in Seq(Request)
           /\ Head(c2s[c]) \in Request /\ Head(c2s[c]) \in Of(c2s[c]) /\ Head(c2s[c]).type = t
           /\ Tail(c2s[c]) \in Seq(Request) /\ Of(Tail(c2s[c])) \subseteq Of(c2s[c])
           /\ answer[c] = <<>>
  <1>1. conn[c] \in Server /\ c2s[c] # <<>> /\ Head(c2s[c]).type = t /\ c2s[c] \in Seq(Request) /\ answer[c] = <<>>
    BY StateFields DEF Asks
  <1>2. log[conn[c]] \in Seq(Form)
    BY <1>1 DEF TypeInv, TypeOK
  <1> QED
    BY <1>1, <1>2, OfTail

LEMMA RequestFields ==
    ASSUME NEW p \in Request
    PROVE  /\ p.type = "fetch" => p.start \in Nat
           /\ p.type = "commit" => p.form \in Form /\ p.form.tag \in FormTag
  BY DEF Request, Form

LEMMA ServedTypes ==
    ASSUME TypeInv, NEW c \in Client, NEW t, Asks(c, t), NEW a \in Event, Served(c, a)
    PROVE  /\ c2s' \in [Client -> Seq(Request)] /\ answer' \in [Client -> Seq(Event)]
           /\ listening' \in [Client -> BOOLEAN]
           /\ c2s' = [c2s EXCEPT ![c] = Tail(c2s[c])] /\ answer' = [answer EXCEPT ![c] = <<a>>]
           /\ \A d \in Client : conn[d] = NoServer => answer'[d] = <<>>
           /\ Of(<<a>>) = {a}
  <1>1. conn[c] \in Server /\ Tail(c2s[c]) \in Seq(Request)
    BY AskedFacts
  <1>2. /\ c2s' = [c2s EXCEPT ![c] = Tail(c2s[c])] /\ answer' = [answer EXCEPT ![c] = <<a>>]
        /\ listening' = [listening EXCEPT ![c] = TRUE]
    BY DEF Served
  <1>3. <<a>> \in Seq(Event) /\ Of(<<a>>) = {a}
    BY DEF Of
  <1>4. c2s' \in [Client -> Seq(Request)] /\ answer' \in [Client -> Seq(Event)]
    <2> DEFINE q == Tail(c2s[c])
               z == <<a>>
    <2>1. c2s' = [c2s EXCEPT ![c] = q] /\ q \in Seq(Request) /\ answer' = [answer EXCEPT ![c] = z] /\ z \in Seq(Event)
      BY <1>1, <1>2, <1>3
    <2> HIDE DEF q, z
    <2> QED
      BY <2>1 DEF TypeInv, TypeOK
  <1>5. listening' \in [Client -> BOOLEAN]
    BY <1>2 DEF TypeInv, TypeOK
  <1>6. ASSUME NEW d \in Client, conn[d] = NoServer PROVE answer'[d] = <<>>
    <2>1. d # c
      BY <1>1, <1>6, SyncAssumption
    <2>2. answer'[d] = answer[d]
      BY <1>2, <2>1 DEF TypeInv, TypeOK
    <2> QED
      BY <1>6, <2>2 DEF TypeInv, Owed
  <1> QED
    BY <1>2, <1>3, <1>4, <1>5, <1>6

\* the notification of a record that enters the chain of s
Notice(s, f) == [type |-> "record", block |-> Block(Append(log[s], f), Len(log[s]) + 1)]

LEMMA EnterFacts ==
    ASSUME TypeInv, NEW s \in Server, NEW f \in Form, NEW listens, Enter(s, f, listens)
    PROVE  /\ log' \in [Server -> Seq(Form)] /\ log' = [log EXCEPT ![s] = Append(log[s], f)]
           /\ log'[s] = Append(log[s], f) /\ Notice(s, f) \in Event
           /\ s2c' \in [Client -> Seq(Event)]
           /\ \A d \in Client : /\ conn[d] # s => s2c'[d] = s2c[d]
                                /\ Of(s2c'[d]) \subseteq Of(s2c[d]) \cup {Notice(s, f)}
  <1> DEFINE L == Append(log[s], f)
             p == Notice(s, f)
  <1>1. log \in [Server -> Seq(Form)] /\ log[s] \in Seq(Form) /\ s2c \in [Client -> Seq(Event)]
    BY DEF TypeInv, TypeOK
  <1>2. L \in Seq(Form) /\ DOMAIN L = 1..(Len(log[s]) + 1) /\ Len(log[s]) \in Nat
    BY <1>1, OfAppend
  <1>3. Block(L, Len(log[s]) + 1) \in ChainBlock
    <2>1. Len(log[s]) + 1 \in DOMAIN L
      BY <1>2
    <2> HIDE DEF L
    <2> QED
      BY <1>2, <2>1, BlockType
  <1>4. p \in Event
    BY <1>3 DEF Notice, Event
  <1>5. /\ log' = [log EXCEPT ![s] = L]
        /\ s2c' = [d \in Client |-> IF conn[d] = s /\ listens[d] THEN Append(s2c[d], p) ELSE s2c[d]]
    BY DEF Enter, Notify, Notice
  <1>5a. log' \in [Server -> Seq(Form)] /\ log'[s] = L
    <2> HIDE DEF L
    <2> QED
      BY <1>1, <1>2, <1>5
  <1> HIDE DEF p
  <1>6. ASSUME NEW d \in Client
        PROVE  /\ s2c'[d] \in Seq(Event)
               /\ conn[d] # s => s2c'[d] = s2c[d]
               /\ Of(s2c'[d]) \subseteq Of(s2c[d]) \cup {p}
    <2>1. s2c[d] \in Seq(Event)
      BY <1>1
    <2>2. Append(s2c[d], p) \in Seq(Event) /\ Of(Append(s2c[d], p)) = Of(s2c[d]) \cup {p}
      BY <1>4, <2>1, OfAppend
    <2>3. s2c'[d] = IF conn[d] = s /\ listens[d] THEN Append(s2c[d], p) ELSE s2c[d]
      BY <1>5
    <2> QED
      BY <2>1, <2>2, <2>3
  <1>7. s2c' \in [Client -> Seq(Event)]
    <2>1. DOMAIN s2c' = Client /\ s2c' = [d \in Client |-> s2c'[d]]
      BY <1>5
    <2> QED
      BY <1>6, <2>1
  <1> QED
    BY <1>4, <1>5, <1>5a, <1>6, <1>7 DEF p

LEMMA ServeAttachTypes ==
    ASSUME TypeInv, NEW c \in Client, ServeAttach(c)
    PROVE  TypeInv'
  <1> DEFINE a == [type |-> "sequence", max |-> Len(log[conn[c]])]
  <1>1. Asks(c, "attach") /\ Served(c, a) /\ UNCHANGED <<log, conn, eng, s2c, late, faults>>
    BY DEF ServeAttach
  <1>2. Len(log[conn[c]]) \in Nat
    BY <1>1, AskedFacts, SeqFacts
  <1>3. a \in Event
    BY <1>2 DEF Event
  <1> HIDE DEF a
  <1> QED
    BY <1>1, <1>3, ServedTypes DEF TypeInv, TypeOK, Owed

\* the blocks a fetch from n on returns
FetchedFrom(L, n) == Max({1, n})
FetchedLast(L, n) == Min({Len(L), FetchedFrom(L, n) + MaxReturned - 1})
Fetched(L, n) == [i \in 1..(FetchedLast(L, n) - FetchedFrom(L, n) + 1) |-> Block(L, FetchedFrom(L, n) + i - 1)]

LEMMA FetchedFacts ==
    ASSUME NEW L \in Seq(Form), NEW n \in Nat
    PROVE  /\ Fetched(L, n) \in Seq(ChainBlock) /\ FetchedLast(L, n) \in Nat
           /\ \A b \in Of(Fetched(L, n)) : b.seq \in DOMAIN L /\ b = Block(L, b.seq)
  <1> DEFINE from == FetchedFrom(L, n)
             last == FetchedLast(L, n)
             k == last - from + 1
             bs == Fetched(L, n)
  <1>1. from \in Nat \ {0}
    <2>1. {1, n} \in SUBSET Nat /\ {1, n} # {} /\ IsFiniteSet({1, n})
      <3>1. IsFiniteSet({1}) /\ IsFiniteSet({n})
        BY FS_Singleton
      <3>2. IsFiniteSet({1} \cup {n})
        BY <3>1, FS_Union
      <3>3. {1} \cup {n} = {1, n}
        OBVIOUS
      <3>4. IsFiniteSet({1, n})
        BY <3>2, <3>3
      <3> QED
        BY <3>4
    <2>2. Max({1, n}) \in Nat /\ 1 <= Max({1, n})
      BY <2>1, MaxFacts
    <2> QED
      BY <2>2 DEF FetchedFrom
  <1> HIDE DEF from
  <1>2. Len(L) \in Nat /\ DOMAIN L = 1..Len(L)
    BY SeqFacts
  <1>3. last \in Nat /\ last <= Len(L)
    <2> DEFINE m == from + MaxReturned - 1
    <2>1. m \in Nat
      BY <1>1, SyncAssumption
    <2>2. last = Min({Len(L), m})
      BY DEF FetchedLast, from
    <2> HIDE DEF m, last
    <2>3. {Len(L), m} \in SUBSET Nat /\ {Len(L), m} # {}
      BY <1>2, <2>1
    <2> QED
      BY <2>2, <2>3, MinFacts
  <1>4. bs = [i \in 1..k |-> Block(L, from + i - 1)]
    BY DEF Fetched, from
  <1> HIDE DEF last
  <1>5. \A i \in 1..k : from + i - 1 \in DOMAIN L
    BY <1>1, <1>2, <1>3
  <1>6. \A i \in 1..k : Block(L, from + i - 1) \in ChainBlock /\ Block(L, from + i - 1).seq = from + i - 1
    BY <1>5, BlockType
  <1>7. bs \in [1..k -> ChainBlock]
    BY <1>4, <1>6
  <1>8. bs \in Seq(ChainBlock)
    <2>1. k \in Int
      BY <1>1, <1>3
    <2> HIDE DEF k, bs
    <2>2. CASE k >= 0
      BY <1>7, <2>1, <2>2
    <2>3. CASE ~(k >= 0)
      <3>1. 1..k = 1..0
        BY <2>1, <2>3
      <3>2. bs \in [1..0 -> ChainBlock]
        BY <1>7, <3>1
      <3> QED
        BY <3>2
    <2> QED
      BY <2>1, <2>2, <2>3
  <1>9. ASSUME NEW b \in Of(bs) PROVE b.seq \in DOMAIN L /\ b = Block(L, b.seq)
    <2>1. PICK i \in 1..k : b = bs[i]
      BY <1>4 DEF Of
    <2>2. b = Block(L, from + i - 1)
      BY <1>4, <2>1
    <2> QED
      BY <1>5, <1>6, <2>2
  <1> QED
    BY <1>3, <1>8, <1>9 DEF last

FetchAnswer(L, n) == [type |-> "records", start |-> n, last |-> FetchedLast(L, n), max |-> Len(L),
                      blocks |-> Fetched(L, n), begun |-> FALSE]

LEMMA ServeFetchFacts ==
    ASSUME TypeInv, NEW c \in Client, ServeFetch(c)
    PROVE  LET a == FetchAnswer(log[conn[c]], Head(c2s[c]).start)
           IN  /\ a \in Event /\ Served(c, a) /\ Asks(c, "fetch")
               /\ UNCHANGED <<log, conn, eng, s2c, late, faults>>
               /\ \A b \in BlocksIn(a) : b.seq \in DOMAIN log[conn[c]] /\ b = Block(log[conn[c]], b.seq)
               /\ a.type = "records"
  <1> DEFINE L == log[conn[c]]
             n == Head(c2s[c]).start
             a == FetchAnswer(L, n)
  <1>1. Asks(c, "fetch") /\ UNCHANGED <<log, conn, eng, s2c, late, faults>>
    BY DEF ServeFetch
  <1>2. Served(c, a)
    BY DEF ServeFetch, FetchAnswer, FetchedLast, Fetched, FetchedFrom
  <1>3. L \in Seq(Form) /\ n \in Nat
    BY <1>1, AskedFacts, RequestFields
  <1> HIDE DEF L, n
  <1>4. Len(L) \in Nat /\ FetchedLast(L, n) \in Nat /\ Fetched(L, n) \in Seq(ChainBlock)
    BY <1>3, SeqFacts, FetchedFacts
  <1>5. a \in Event /\ a.type = "records" /\ a.blocks = Fetched(L, n)
    BY <1>3, <1>4 DEF FetchAnswer, Event
  <1>6. \A b \in BlocksIn(a) : b.seq \in DOMAIN L /\ b = Block(L, b.seq)
    BY <1>3, <1>5, FetchedFacts DEF BlocksIn
  <1> QED
    BY <1>1, <1>2, <1>5, <1>6 DEF L, n

LEMMA ServeFetchTypes ==
    ASSUME TypeInv, NEW c \in Client, ServeFetch(c)
    PROVE  TypeInv'
  <1> DEFINE a == FetchAnswer(log[conn[c]], Head(c2s[c]).start)
  <1>1. a \in Event /\ Served(c, a) /\ Asks(c, "fetch") /\ UNCHANGED <<log, conn, eng, s2c, late, faults>>
    BY ServeFetchFacts
  <1> HIDE DEF a
  <1> QED
    BY <1>1, ServedTypes DEF TypeInv, TypeOK, Owed

LEMMA VerdictType ==
    ASSUME NEW L, NEW f
    PROVE  Evaluate(L, f) = "accepted" \/ Evaluate(L, f) \in Refusals
  <1>1. SpecialRule(L, f) \in {"accepted", "out_of_sync", "invalid_record"}
    BY DEF SpecialRule
  <1>2. HeadRule(L, f) \in {"accepted", "out_of_sync"}
    BY DEF HeadRule
  <1>3. SeenRule(L, f) \in {"accepted", "out_of_sync", "invalid_record"}
    BY <1>1, <1>2 DEF SeenRule
  <1>4. AddRule(L, f) \in {"accepted", "out_of_sync", "invalid_record"}
    BY <1>1, <1>2 DEF AddRule
  <1>5. Rules(L, f) \in {"accepted", "out_of_sync", "invalid_record"}
    BY <1>3, <1>4 DEF Rules
  <1> QED
    BY <1>5 DEF Evaluate, Refusals

\* what the server does with a commit and what it answers
LEMMA ServeCommitFacts ==
    ASSUME TypeInv, NEW c \in Client, ServeCommit(c)
    PROVE  LET s == conn[c]
               f == Head(c2s[c]).form
               verdict == Evaluate(log[s], f)
           IN  /\ Asks(c, "commit") /\ f \in Form /\ s \in Server /\ UNCHANGED <<conn, eng, late, faults>>
               /\ \/ /\ verdict = "accepted" /\ Enter(s, f, [listening EXCEPT ![c] = TRUE])
                     /\ LET a == [type |-> "committed", block |-> Block(Append(log[s], f), Len(log[s]) + 1)]
                        IN  a \in Event /\ Served(c, a) /\ BlocksIn(a) = {a.block} /\ a.type = "committed"
                  \/ /\ verdict # "accepted" /\ UNCHANGED <<log, s2c>>
                     /\ LET a == [type |-> "refused", tag |-> f.tag, why |-> verdict]
                        IN  a \in Event /\ Served(c, a) /\ BlocksIn(a) = {}
  <1> DEFINE s == conn[c]
             f == Head(c2s[c]).form
             verdict == Evaluate(log[s], f)
             L == Append(log[s], f)
             a == [type |-> "committed", block |-> Block(L, Len(log[s]) + 1)]
             z == [type |-> "refused", tag |-> f.tag, why |-> verdict]
  <1>1. Asks(c, "commit") /\ UNCHANGED <<conn, eng, late, faults>>
    BY DEF ServeCommit
  <1>2. f \in Form /\ f.tag \in FormTag /\ s \in Server /\ log[s] \in Seq(Form)
    BY <1>1, AskedFacts, RequestFields
  <1>3. CASE verdict = "accepted"
    <2>1. Enter(s, f, [listening EXCEPT ![c] = TRUE])
      BY <1>3 DEF ServeCommit
    <2>2. log'[s] = L
      BY <1>2, <2>1, EnterFacts
    <2>3. Served(c, [type |-> "committed", block |-> Block(log'[s], Len(log'[s]))])
      BY <1>3 DEF ServeCommit
    <2>4. L \in Seq(Form) /\ Len(L) = Len(log[s]) + 1 /\ Len(L) \in DOMAIN L
      BY <1>2, OfAppend
    <2> HIDE DEF f, s, L
    <2>5. Block(L, Len(log[s]) + 1) \in ChainBlock
      BY <2>4, BlockType
    <2>6. a \in Event /\ BlocksIn(a) = {a.block} /\ a.type = "committed"
      BY <2>5 DEF Event, BlocksIn
    <2>7. Served(c, a)
      BY <2>2, <2>3, <2>4
    <2> QED
      BY <1>1, <1>2, <1>3, <2>1, <2>6, <2>7 DEF f, s, L
  <1>4. CASE verdict # "accepted"
    <2>1. Served(c, z) /\ UNCHANGED <<log, s2c>>
      BY <1>4 DEF ServeCommit
    <2>2. verdict \in Refusals
      BY <1>4, VerdictType
    <2> HIDE DEF verdict
    <2>3. z \in Event /\ BlocksIn(z) = {}
      BY <1>2, <2>2 DEF Event, BlocksIn
    <2> QED
      BY <1>1, <1>2, <1>4, <2>1, <2>3 DEF verdict
  <1> QED
    BY <1>3, <1>4

LEMMA ServeCommitTypes ==
    ASSUME TypeInv, NEW c \in Client, ServeCommit(c)
    PROVE  TypeInv'
  <1> DEFINE s == conn[c]
             f == Head(c2s[c]).form
  <1>1. Asks(c, "commit") /\ f \in Form /\ s \in Server /\ UNCHANGED <<conn, eng, late, faults>>
    BY ServeCommitFacts
  <1>2. \E a \in Event : Served(c, a)
    BY ServeCommitFacts
  <1>3. Enter(s, f, [listening EXCEPT ![c] = TRUE]) \/ UNCHANGED <<log, s2c>>
    BY ServeCommitFacts
  <1> HIDE DEF f, s
  <1>4. log' \in [Server -> Seq(Form)] /\ s2c' \in [Client -> Seq(Event)]
    <2>1. CASE Enter(s, f, [listening EXCEPT ![c] = TRUE])
      BY <1>1, <2>1, EnterFacts
    <2>2. CASE UNCHANGED <<log, s2c>>
      BY <2>2 DEF TypeInv, TypeOK
    <2> QED
      BY <1>3, <2>1, <2>2
  <1> QED
    BY <1>1, <1>2, <1>4, ServedTypes DEF TypeInv, TypeOK, Owed

LEMMA ServeBusyFacts ==
    ASSUME TypeInv, NEW c \in Client, ServeBusy(c)
    PROVE  LET a == [type |-> "refused", tag |-> Head(c2s[c]).form.tag, why |-> "syncing"]
           IN  /\ a \in Event /\ Served(c, a) /\ Asks(c, "commit") /\ BlocksIn(a) = {} /\ a.why = "syncing"
               /\ UNCHANGED <<log, conn, eng, s2c, late>> /\ faults' \in 0..MaxFaults
  <1> DEFINE t == Head(c2s[c]).form.tag
             a == [type |-> "refused", tag |-> t, why |-> "syncing"]
  <1>1. Asks(c, "commit") /\ Served(c, a) /\ UNCHANGED <<log, conn, eng, s2c, late>>
    BY DEF ServeBusy
  <1>2. faults' \in 0..MaxFaults
    BY SyncAssumption DEF ServeBusy, Fault, TypeInv, TypeOK
  <1>3. t \in FormTag
    BY <1>1, AskedFacts, RequestFields
  <1> HIDE DEF t
  <1>4. a \in Event /\ BlocksIn(a) = {} /\ a.why = "syncing"
    BY <1>3 DEF Event, Refusals, BlocksIn
  <1> QED
    BY <1>1, <1>2, <1>4 DEF t

LEMMA ServeBusyTypes ==
    ASSUME TypeInv, NEW c \in Client, ServeBusy(c)
    PROVE  TypeInv'
  <1>1. PICK a \in Event : Served(c, a)
    BY ServeBusyFacts
  <1>2. Asks(c, "commit") /\ UNCHANGED <<log, conn, eng, s2c, late>> /\ faults' \in 0..MaxFaults
    BY ServeBusyFacts
  <1> QED
    BY <1>1, <1>2, ServedTypes DEF TypeInv, TypeOK, Owed

\* the event an answer becomes: only the sequence in it may be newer
LEMMA AnswerFacts ==
    ASSUME TypeInv, NEW c \in Client, Answer(c)
    PROVE  /\ answer[c] # <<>> /\ Head(answer[c]) \in Of(answer[c])
           /\ \E a \in Event :
                 /\ s2c' = [s2c EXCEPT ![c] = Append(s2c[c], a)]
                 /\ a.type = Head(answer[c]).type /\ BlocksIn(a) = BlocksIn(Head(answer[c]))
                 /\ a.type = "refused" => a = Head(answer[c])
           /\ answer' = [answer EXCEPT ![c] = <<>>]
           /\ UNCHANGED <<log, conn, listening, eng, c2s, late, faults>>
  <1> DEFINE h == Head(answer[c])
  <1>1. answer[c] # <<>> /\ answer[c] \in Seq(Event)
    BY StateFields DEF Answer
  <1>2. h \in Event /\ h \in Of(answer[c])
    BY <1>1, OfTail
  <1>3. conn[c] \in Server
    BY <1>1, StateFields DEF TypeInv, Owed
  <1>4. Len(log[conn[c]]) \in Nat
    BY <1>3, SeqFacts DEF TypeInv, TypeOK
  <1>5. CASE h.type \in {"sequence", "records"}
    <2>1. PICK n \in h.max..Len(log[conn[c]]) : s2c' = [s2c EXCEPT ![c] = Append(s2c[c], [h EXCEPT !.max = n])]
      BY <1>5 DEF Answer
    <2> DEFINE a == [h EXCEPT !.max = n]
    <2>2. h.max \in Nat
      BY <1>2, <1>5, EventFields
    <2>3. n \in Nat
      BY <1>4, <2>1, <2>2
    <2> HIDE DEF h
    <2>4. CASE h.type = "sequence"
      <3>1. h \in [type : {"sequence"}, max : Nat]
        BY <1>2, <2>4 DEF Event
      <3>2. a \in [type : {"sequence"}, max : Nat] /\ a.type = h.type
        BY <2>3, <3>1
      <3> HIDE DEF a
      <3>3. a \in Event /\ BlocksIn(a) = {} /\ BlocksIn(h) = {}
        BY <2>4, <3>2 DEF Event, BlocksIn
      <3>4. s2c' = [s2c EXCEPT ![c] = Append(s2c[c], a)]
        BY <2>1 DEF a
      <3> QED
        BY <1>1, <1>2, <2>4, <3>2, <3>3, <3>4 DEF Answer, h
    <2>5. CASE h.type = "records"
      <3> DEFINE R == [type : {"records"}, start : Nat, blocks : Seq(ChainBlock), last : Nat, max : Nat, begun : BOOLEAN]
      <3>1. h \in R
        BY <1>2, <2>5 DEF Event
      <3>2. a \in R /\ a.type = h.type /\ a.blocks = h.blocks
        BY <2>3, <3>1
      <3> HIDE DEF a
      <3>3. a \in Event /\ BlocksIn(a) = BlocksIn(h)
        BY <2>5, <3>2 DEF Event, BlocksIn
      <3>4. s2c' = [s2c EXCEPT ![c] = Append(s2c[c], a)]
        BY <2>1 DEF a
      <3> QED
        BY <1>1, <1>2, <2>5, <3>2, <3>3, <3>4 DEF Answer, h
    <2> QED
      BY <1>5, <2>4, <2>5
  <1>6. CASE h.type \notin {"sequence", "records"}
    <2>1. s2c' = [s2c EXCEPT ![c] = Append(s2c[c], h)]
      BY <1>6 DEF Answer
    <2> QED
      BY <1>1, <1>2, <2>1 DEF Answer
  <1> QED
    BY <1>5, <1>6

LEMMA AnswerTypes ==
    ASSUME TypeInv, NEW c \in Client, Answer(c)
    PROVE  TypeInv'
  <1>1. PICK a \in Event : s2c' = [s2c EXCEPT ![c] = Append(s2c[c], a)]
    BY AnswerFacts
  <1> DEFINE q == Append(s2c[c], a)
             z == <<>>
  <1>2. q \in Seq(Event) /\ z \in Seq(Event)
    BY StateFields, OfAppend
  <1>3. s2c' = [s2c EXCEPT ![c] = q] /\ answer' = [answer EXCEPT ![c] = z]
        /\ UNCHANGED <<log, conn, listening, eng, c2s, late, faults>>
    BY <1>1, AnswerFacts
  <1> HIDE DEF q, z
  <1>4. s2c' \in [Client -> Seq(Event)] /\ answer' \in [Client -> Seq(Event)]
    BY <1>2, <1>3 DEF TypeInv, TypeOK
  <1>5. Owed'
    <2>1. ASSUME NEW d \in Client, conn[d] = NoServer PROVE answer'[d] = <<>>
      <3>1. CASE d = c
        BY <1>3, <3>1 DEF z, TypeInv, TypeOK
      <3>2. CASE d # c
        BY <1>3, <2>1, <3>2 DEF TypeInv, TypeOK, Owed
      <3> QED
        BY <3>1, <3>2
    <2> QED
      BY <1>3, <2>1 DEF Owed
  <1> QED
    BY <1>3, <1>4, <1>5 DEF TypeInv, TypeOK

LEMMA ServeLateFacts ==
    ASSUME TypeInv, NEW c \in Client, ServeLate(c)
    PROVE  LET p == Head(late[c])
           IN  /\ p.server \in Server /\ p.form \in Form /\ p \in Of(late[c])
               /\ late' = [late EXCEPT ![c] = Tail(late[c])] /\ late' \in [Client -> Seq([server : Server, form : Form])]
               /\ Of(late'[c]) \subseteq Of(late[c]) /\ \A d \in Client \ {c} : late'[d] = late[d]
               /\ UNCHANGED <<conn, listening, eng, c2s, answer, faults>>
               /\ \/ Evaluate(log[p.server], p.form) = "accepted" /\ Enter(p.server, p.form, listening)
                  \/ UNCHANGED <<log, s2c>>
  <1> DEFINE S == [server : Server, form : Form]
             p == Head(late[c])
             q == Tail(late[c])
  <1>1. late[c] \in Seq(S) /\ late[c] # <<>> /\ late \in [Client -> Seq(S)]
    BY DEF ServeLate, TypeInv, TypeOK
  <1>2. p \in S /\ p \in Of(late[c]) /\ q \in Seq(S) /\ Of(q) \subseteq Of(late[c])
    BY <1>1, OfTail
  <1>3. late' = [late EXCEPT ![c] = q] /\ UNCHANGED <<conn, listening, eng, c2s, answer, faults>>
    BY DEF ServeLate
  <1>4. \/ Evaluate(log[p.server], p.form) = "accepted" /\ Enter(p.server, p.form, listening)
        \/ UNCHANGED <<log, s2c>>
    BY DEF ServeLate
  <1> HIDE DEF q, p
  <1>5. late' \in [Client -> Seq(S)] /\ late'[c] = q /\ \A d \in Client \ {c} : late'[d] = late[d]
    BY <1>1, <1>2, <1>3
  <1> QED
    BY <1>2, <1>3, <1>4, <1>5 DEF p, q

LEMMA ServeLateTypes ==
    ASSUME TypeInv, NEW c \in Client, ServeLate(c)
    PROVE  TypeInv'
  <1> DEFINE p == Head(late[c])
  <1>1. /\ p.server \in Server /\ p.form \in Form /\ late' \in [Client -> Seq([server : Server, form : Form])]
        /\ UNCHANGED <<conn, listening, eng, c2s, answer, faults>>
        /\ Enter(p.server, p.form, listening) \/ UNCHANGED <<log, s2c>>
    BY ServeLateFacts
  <1> HIDE DEF p
  <1>2. log' \in [Server -> Seq(Form)] /\ s2c' \in [Client -> Seq(Event)]
    <2>1. CASE Enter(p.server, p.form, listening)
      BY <1>1, <2>1, EnterFacts
    <2>2. CASE UNCHANGED <<log, s2c>>
      BY <2>2 DEF TypeInv, TypeOK
    <2> QED
      BY <1>1, <2>1, <2>2
  <1> QED
    BY <1>1, <1>2 DEF TypeInv, TypeOK, Owed

LEMMA DropLateFacts ==
    ASSUME TypeInv, NEW c \in Client, DropLate(c)
    PROVE  /\ late' \in [Client -> Seq([server : Server, form : Form])]
           /\ late'[c] = <<>> /\ \A d \in Client \ {c} : late'[d] = late[d]
           /\ UNCHANGED <<log, conn, listening, eng, c2s, answer, s2c, faults>>
  <1> DEFINE S == [server : Server, form : Form]
             z == <<>>
  <1>1. late' = [late EXCEPT ![c] = z] /\ z \in Seq(S) /\ late \in [Client -> Seq(S)]
        /\ UNCHANGED <<log, conn, listening, eng, c2s, answer, s2c, faults>>
    <2>1. \A T : z \in Seq(T)
      OBVIOUS
    <2>2. z \in Seq(S)
      BY <2>1
    <2>3. late \in [Client -> Seq(S)]
      BY DEF TypeInv, TypeOK
    <2> QED
      BY <2>2, <2>3 DEF DropLate
  <1> HIDE DEF z, S
  <1>2. late' \in [Client -> Seq(S)] /\ late'[c] = z /\ \A d \in Client \ {c} : late'[d] = late[d]
    BY <1>1
  <1> QED
    BY <1>1, <1>2 DEF z, S

\* What replication brings is the next record of the peer that is missing here.
LEMMA SpreadFacts ==
    ASSUME TypeInv, NEW s \in Server, NEW t \in Server, Spread(s, t)
    PROVE  \E i \in DOMAIN log[s] :
              /\ log[s][i] \in Form /\ \A j \in DOMAIN log[t] : OpIn(log[t][j]) # OpIn(log[s][i])
              /\ Enter(t, log[s][i], listening)
              /\ UNCHANGED <<conn, listening, eng, c2s, answer, late, faults>>
  <1>1. log[s] \in Seq(Form)
    BY DEF TypeInv, TypeOK
  <1>2. DOMAIN log[s] = 1..Len(log[s]) /\ \A i \in DOMAIN log[s] : log[s][i] \in Form
    BY <1>1, SeqFacts
  <1>3. Missing(s, t) # {} /\ Missing(s, t) \in SUBSET Nat
    <2>1. Missing(s, t) \subseteq DOMAIN log[s]
      BY DEF Missing
    <2> QED
      BY <1>2, <2>1 DEF Spread
  <1>4. Min(Missing(s, t)) \in Missing(s, t)
    BY <1>3, MinFacts
  <1> DEFINE i == Min(Missing(s, t))
  <1>5. Enter(t, log[s][i], listening) /\ UNCHANGED <<conn, listening, eng, c2s, answer, late, faults>>
    BY DEF Spread
  <1> HIDE DEF i
  <1>6. i \in DOMAIN log[s] /\ \A j \in DOMAIN log[t] : OpIn(log[t][j]) # OpIn(log[s][i])
    BY <1>4 DEF Missing, i
  <1> QED
    BY <1>2, <1>5, <1>6

LEMMA SpreadTypes ==
    ASSUME TypeInv, NEW s \in Server, NEW t \in Server, Spread(s, t)
    PROVE  TypeInv'
  <1>1. PICK i \in DOMAIN log[s] : log[s][i] \in Form /\ Enter(t, log[s][i], listening)
              /\ UNCHANGED <<conn, listening, eng, c2s, answer, late, faults>>
    BY SpreadFacts
  <1>2. log' \in [Server -> Seq(Form)] /\ s2c' \in [Client -> Seq(Event)]
    BY <1>1, EnterFacts
  <1> QED
    BY <1>1, <1>2 DEF TypeInv, TypeOK, Owed

LEMMA FoundedFacts ==
    /\ Founded \in Seq(Form) /\ Len(Founded) = 2 /\ DOMAIN Founded = {1, 2}
    /\ Founded[1] = RootForm /\ Founded[2] = FirstForm
    /\ OpIn(RootForm) = Root /\ OpIn(FirstForm) = First /\ Root # First
    /\ RootForm \in Form /\ FirstForm \in Form
    /\ FirstForm.seen = IdOf(Block(Founded, 1)) /\ FirstForm.special = RootForm.tag
  <1>1. RootForm \in Form /\ RootForm.tag = <<Root, AuthorOf[Root], 1>>
    BY SyncAssumption DEF RootForm, Form, FormTag, Tag, BlockId, NoBlock
  <1>2. HeadOf(<<RootForm>>) = [seq |-> 1, tag |-> RootForm.tag, parent |-> NoTag]
    BY DEF HeadOf, IdOf, Block
  <1>3. RootForm.tag \in Tag /\ NoTag \in Tag
    BY <1>1 DEF Form, Tag
  <1>4. HeadOf(<<RootForm>>) \in BlockId
    BY <1>2, <1>3 DEF BlockId
  <1>5. <<First, AuthorOf[First], 1>> \in FormTag
    BY SyncAssumption DEF FormTag
  <1>6. FirstForm \in Form /\ FirstForm.tag = <<First, AuthorOf[First], 1>> /\ FirstForm.special = RootForm.tag
        /\ FirstForm.seen = HeadOf(<<RootForm>>)
    BY <1>3, <1>4, <1>5 DEF FirstForm, Form
  <1>7. OpIn(RootForm) = Root /\ OpIn(FirstForm) = First /\ Root # First
    BY <1>1, <1>6, SyncAssumption DEF OpIn
  <1>8. Founded \in Seq(Form) /\ Len(Founded) = 2 /\ DOMAIN Founded = {1, 2}
        /\ Founded[1] = RootForm /\ Founded[2] = FirstForm
    BY <1>1, <1>6 DEF Founded
  <1>9. IdOf(Block(Founded, 1)) = [seq |-> 1, tag |-> RootForm.tag, parent |-> NoTag]
    BY <1>8 DEF IdOf, Block
  <1> QED
    BY <1>1, <1>2, <1>6, <1>7, <1>8, <1>9

LEMMA FoundedRowFacts ==
    /\ FoundedRows \in Seq(Row) /\ DOMAIN FoundedRows = {1, 2}
    /\ \A n \in {1, 2} : FoundedRows[n] = [form |-> Founded[n], st |-> "in_sync", ver |-> 1,
                                           id |-> IdOf(Block(Founded, n))]
  <1>1. DOMAIN FoundedRows = {1, 2} /\ \A n \in {1, 2} :
            FoundedRows[n] = [form |-> Founded[n], st |-> "in_sync", ver |-> 1, id |-> IdOf(Block(Founded, n))]
    BY FoundedFacts DEF FoundedRows
  <1>2. ASSUME NEW n \in {1, 2} PROVE FoundedRows[n] \in Row
    <2>1. Founded[n] \in Form /\ Block(Founded, n) \in ChainBlock
      BY FoundedFacts, BlockType
    <2>2. IdOf(Block(Founded, n)) \in BlockId
      BY <2>1, BlockFields
    <2> QED
      BY <1>1, <2>1, <2>2 DEF Row, States
  <1>3. FoundedRows \in [1..2 -> Row]
    <2>1. 1..2 = {1, 2}
      OBVIOUS
    <2>2. FoundedRows = [n \in {1, 2} |-> FoundedRows[n]]
      BY <1>1, FoundedFacts DEF FoundedRows
    <2> QED
      BY <1>2, <2>1, <2>2
  <1>4. FoundedRows \in Seq(Row)
    <2>1. PICK k \in Nat : k = 2
      OBVIOUS
    <2>2. FoundedRows \in [1..k -> Row]
      BY <1>3, <2>1
    <2> QED
      BY <2>2
  <1> QED
    BY <1>1, <1>4

LEMMA InitTypes ==
    ASSUME Init
    PROVE  TypeInv
  <1>1. \A c \in Client : HomeOf(c) \in Replicas[c] /\ HomeOf(c) \in Server
    BY SyncAssumption DEF HomeOf
  <1>2. \A c \in Client : eng[c] \in Engine
    <2>1. ASSUME NEW c \in Client PROVE eng[c] \in Engine
      <3> DEFINE rows == IF c \in Joined THEN FoundedRows ELSE <<>>
                 m == IF c \in Joined THEN Len(Founded) ELSE 0
                 o == IF c \in Joined THEN HomeOf(c) ELSE NoServer
      <3>1. rows \in Seq(Row)
        BY FoundedRowFacts
      <3>2. m \in Nat /\ o \in Server \cup {NoServer}
        BY <1>1, FoundedFacts
      <3>3. eng[c] = [rows |-> rows, serverSeq |-> m, owner |-> o, pushing |-> FALSE, rejected |-> {}, fork |-> FALSE]
        BY DEF Init
      <3> HIDE DEF rows, m, o
      <3> QED
        BY <3>1, <3>2, <3>3 DEF Engine
    <2> QED
      BY <2>1
  <1>3. eng \in [Client -> Engine]
    <2>1. eng = [c \in Client |-> eng[c]]
      BY DEF Init
    <2> QED
      BY <1>2, <2>1
  <1>4. log \in [Server -> Seq(Form)]
    BY FoundedFacts DEF Init
  <1>5. conn \in [Client -> Server \cup {NoServer}] /\ listening \in [Client -> BOOLEAN]
    BY <1>1 DEF Init
  <1>6. /\ c2s \in [Client -> Seq(Request)] /\ answer \in [Client -> Seq(Event)] /\ s2c \in [Client -> Seq(Event)]
        /\ late \in [Client -> Seq([server : Server, form : Form])] /\ Owed
    <2> DEFINE z == <<>>
    <2>1. \A S : z \in Seq(S)
      OBVIOUS
    <2>2. /\ c2s = [c \in Client |-> z] /\ answer = [c \in Client |-> z] /\ s2c = [c \in Client |-> z]
          /\ late = [c \in Client |-> z]
      BY DEF Init
    <2>3. Owed
      BY <2>2 DEF Owed
    <2> HIDE DEF z
    <2> QED
      BY <2>1, <2>2, <2>3
  <1>7. faults \in 0..MaxFaults
    BY SyncAssumption DEF Init
  <1> QED
    BY <1>3, <1>4, <1>5, <1>6, <1>7 DEF TypeInv, TypeOK

LEMMA StepTypes ==
    ASSUME TypeInv, [Next]_vars
    PROVE  TypeInv'
  <1>1. CASE UNCHANGED vars
    BY <1>1 DEF vars, TypeInv, TypeOK, Owed
  <1>2. ASSUME NEW c \in Client, \/ \E op \in Op : SyncChange(c, op)
                                 \/ \E s \in Server : Connect(c, s)
                                 \/ Disconnect(c) \/ Restart(c)
                                 \/ Events(c) \/ Serves(c) \/ ServeBusy(c)
                                 \/ ServeLate(c) \/ DropLate(c)
        PROVE  TypeInv'
    <2>1. ASSUME NEW op \in Op, SyncChange(c, op) PROVE TypeInv'
      BY <2>1, SyncChangeTypes
    <2>2. ASSUME NEW s \in Server, Connect(c, s) PROVE TypeInv'
      BY <2>2, ConnectTypes
    <2>3. CASE Disconnect(c) \/ Restart(c)
      BY <2>3, LostEngines, LostTypes
    <2>4. CASE Events(c)
      BY <2>4, EventsDone, EventTypes
    <2>5. CASE Serves(c)
      BY <2>5, ServeAttachTypes, ServeFetchTypes, ServeCommitTypes, AnswerTypes DEF Serves
    <2>6. CASE ServeBusy(c)
      BY <2>6, ServeBusyTypes
    <2>7. CASE ServeLate(c)
      BY <2>7, ServeLateTypes
    <2>8. CASE DropLate(c)
      BY <2>8, DropLateFacts DEF TypeInv, TypeOK, Owed
    <2> QED
      BY <1>2, <2>1, <2>2, <2>3, <2>4, <2>5, <2>6, <2>7, <2>8
  <1>3. ASSUME NEW s \in Server, NEW t \in Server, Spread(s, t) PROVE TypeInv'
    BY <1>3, SpreadTypes
  <1> QED
    BY <1>1, <1>2, <1>3 DEF Next

\* The state keeps its shape: every engine, queue, request and chain stays of its type,
\* through resync, rebuilding, and answers computed from any chain (SyncEngine.TypeOK).
THEOREM SyncTypes == Spec => []TypeOK
  <1>1. Init => TypeInv
    BY InitTypes
  <1>2. TypeInv /\ [Next]_vars => TypeInv'
    BY StepTypes
  <1>3. TypeInv => TypeOK
    BY DEF TypeInv
  <1> QED
    BY <1>1, <1>2, <1>3, PTL DEF Spec

-----------------------------------------------------------------------------
(* No operation enters a chain twice *)

Absent(L, f) == \A i \in DOMAIN L : OpIn(L[i]) # OpIn(f)

LEMMA AcceptedFacts ==
    ASSUME NEW L, NEW f, Evaluate(L, f) = "accepted"
    PROVE  Absent(L, f) /\ OpIn(f) \notin RefusedOps /\ Rules(L, f) = "accepted"
  BY DEF Evaluate, Absent

\* A chain changes only by a record whose operation it does not hold.
LEMMA LogStep ==
    ASSUME TypeInv, [Next]_vars
    PROVE  \/ log' = log
           \/ \E s \in Server, f \in Form : Absent(log[s], f) /\ log' = [log EXCEPT ![s] = Append(log[s], f)]
  <1>1. CASE UNCHANGED vars
    BY <1>1 DEF vars
  <1>2. ASSUME NEW c \in Client, \/ \E op \in Op : SyncChange(c, op)
                                 \/ \E s \in Server : Connect(c, s)
                                 \/ Disconnect(c) \/ Restart(c)
                                 \/ Events(c) \/ ServeAttach(c) \/ ServeFetch(c) \/ Answer(c) \/ ServeBusy(c)
                                 \/ DropLate(c)
        PROVE  log' = log
    BY <1>2 DEF SyncChange, Connect, Disconnect, Restart, Lost, Events, OnConnected, OnSequence, OnRecordsBlock,
                OnRecordsEnd, OnCommitted, OnRefused, OnRecord, ServeAttach, ServeFetch, Answer, ServeBusy, DropLate
  <1>3. ASSUME NEW c \in Client, ServeCommit(c)
        PROVE  \/ log' = log
               \/ \E s \in Server, f \in Form : Absent(log[s], f) /\ log' = [log EXCEPT ![s] = Append(log[s], f)]
    <2> DEFINE s == conn[c]
               f == Head(c2s[c]).form
    <2>0. s \in Server /\ f \in Form
      BY <1>3, ServeCommitFacts
    <2>1. \/ UNCHANGED <<log, s2c>>
          \/ Evaluate(log[s], f) = "accepted" /\ Enter(s, f, [listening EXCEPT ![c] = TRUE])
      BY <1>3, ServeCommitFacts
    <2> HIDE DEF s, f
    <2>2. CASE Evaluate(log[s], f) = "accepted" /\ Enter(s, f, [listening EXCEPT ![c] = TRUE])
      BY <2>0, <2>2, AcceptedFacts, EnterFacts
    <2> QED
      BY <2>1, <2>2
  <1>4. ASSUME NEW c \in Client, ServeLate(c)
        PROVE  \/ log' = log
               \/ \E s \in Server, f \in Form : Absent(log[s], f) /\ log' = [log EXCEPT ![s] = Append(log[s], f)]
    <2> DEFINE s == Head(late[c]).server
               f == Head(late[c]).form
    <2>0. s \in Server /\ f \in Form
      BY <1>4, ServeLateFacts
    <2>1. \/ UNCHANGED <<log, s2c>>
          \/ Evaluate(log[s], f) = "accepted" /\ Enter(s, f, listening)
      BY <1>4, ServeLateFacts
    <2> HIDE DEF s, f
    <2>2. CASE Evaluate(log[s], f) = "accepted" /\ Enter(s, f, listening)
      BY <2>0, <2>2, AcceptedFacts, EnterFacts
    <2> QED
      BY <2>1, <2>2
  <1>5. ASSUME NEW s \in Server, NEW t \in Server, Spread(s, t)
        PROVE  \E u \in Server, f \in Form : Absent(log[u], f) /\ log' = [log EXCEPT ![u] = Append(log[u], f)]
    <2>1. PICK i \in DOMAIN log[s] :
              /\ log[s][i] \in Form /\ \A j \in DOMAIN log[t] : OpIn(log[t][j]) # OpIn(log[s][i])
              /\ Enter(t, log[s][i], listening)
      BY <1>5, SpreadFacts
    <2>2. Absent(log[t], log[s][i])
      BY <2>1 DEF Absent
    <2> QED
      BY <2>1, <2>2, EnterFacts
  <1> QED
    BY <1>1, <1>2, <1>3, <1>4, <1>5 DEF Next, Serves

LEMMA OnceStep ==
    ASSUME TypeInv, CommittedOnce, [Next]_vars
    PROVE  CommittedOnce'
  <1>1. CASE log' = log
    BY <1>1 DEF CommittedOnce
  <1>2. ASSUME NEW s \in Server, NEW f \in Form, Absent(log[s], f), log' = [log EXCEPT ![s] = Append(log[s], f)]
        PROVE  CommittedOnce'
    <2> DEFINE L == log[s]
               M == Append(log[s], f)
    <2>1. L \in Seq(Form) /\ log \in [Server -> Seq(Form)]
      BY DEF TypeInv, TypeOK
    <2>2. /\ DOMAIN M = 1..(Len(L) + 1) /\ DOMAIN L = 1..Len(L) /\ Len(L) \in Nat
          /\ \A i \in 1..(Len(L) + 1) : M[i] = IF i = Len(L) + 1 THEN f ELSE L[i]
      BY <2>1, OfAppend
    <2>3. log' = [log EXCEPT ![s] = M]
      BY <1>2
    <2> HIDE DEF M
    <2>4. ASSUME NEW i \in DOMAIN M, NEW j \in DOMAIN M, OpIn(M[i]) = OpIn(M[j]) PROVE i = j
      <3>1. \A k \in DOMAIN L : OpIn(L[k]) # OpIn(f)
        BY <1>2 DEF Absent
      <3>2. \A k, l \in DOMAIN L : OpIn(L[k]) = OpIn(L[l]) => k = l
        BY DEF CommittedOnce
      <3>3. CASE i = Len(L) + 1 /\ j # Len(L) + 1
        BY <2>2, <2>4, <3>1, <3>3
      <3>4. CASE i # Len(L) + 1 /\ j = Len(L) + 1
        BY <2>2, <2>4, <3>1, <3>4
      <3>5. CASE i # Len(L) + 1 /\ j # Len(L) + 1
        BY <2>2, <2>4, <3>2, <3>5
      <3> QED
        BY <3>3, <3>4, <3>5
    <2>5. ASSUME NEW u \in Server, NEW i \in DOMAIN log'[u], NEW j \in DOMAIN log'[u],
                 OpIn(log'[u][i]) = OpIn(log'[u][j])
          PROVE  i = j
      <3>1. CASE u = s
        BY <2>1, <2>3, <2>4, <2>5, <3>1
      <3>2. CASE u # s
        <4>1. log'[u] = log[u]
          BY <2>1, <2>3, <3>2
        <4> QED
          BY <2>5, <4>1 DEF CommittedOnce
      <3> QED
        BY <3>1, <3>2
    <2> QED
      BY <2>5 DEF CommittedOnce
  <1> QED
    BY <1>1, <1>2, LogStep

LEMMA OnceInit ==
    ASSUME Init
    PROVE  CommittedOnce
  <1>1. ASSUME NEW s \in Server PROVE log[s] = Founded
    BY DEF Init
  <1>2. ASSUME NEW i \in DOMAIN Founded, NEW j \in DOMAIN Founded, OpIn(Founded[i]) = OpIn(Founded[j]) PROVE i = j
    BY <1>2, FoundedFacts
  <1> QED
    BY <1>1, <1>2 DEF CommittedOnce

\* However often a record is rebuilt and committed again after a lost answer, is handled for a
\* session that is gone, or reaches a replica by two ways, its operation enters a chain once
\* (SyncEngine.CommittedOnce; chain_sync::evaluate, apply_foreign).
THEOREM EachOperationOnce == Spec => []CommittedOnce
  <1>1. Init => TypeInv /\ CommittedOnce
    BY InitTypes, OnceInit
  <1>2. TypeInv /\ CommittedOnce /\ [Next]_vars => TypeInv' /\ CommittedOnce'
    BY StepTypes, OnceStep
  <1> QED
    BY <1>1, <1>2, PTL DEF Spec

-----------------------------------------------------------------------------
(* The engine of a client that keeps to its replica *)

Unique(L) == \A i, j \in DOMAIN L : OpIn(L[i]) = OpIn(L[j]) => i = j

\* the chain L and the forms A there are
Setting(L, A) == L \in Seq(Form) /\ Of(L) \subseteq A /\ A \subseteq Form /\ Consistent(A) /\ Unique(L)

\* A confirmed row of a block's place is the row of its record.
LEMMA PlaceFacts ==
    ASSUME NEW e \in Engine, NEW L, NEW A, Setting(L, A), Placed(e, L), NEW b, FromChain(b, L)
    PROVE  /\ b.form = L[b.seq] /\ b.form \in A /\ b.seq \in Nat \ {0} /\ IdOf(b) = IdOf(Block(L, b.seq))
           /\ b.parent = IF b.seq = 1 THEN NoTag ELSE L[b.seq - 1].tag
           /\ \A j \in RowsIn(e, {"in_sync", "pending_sync"}) : e.rows[j].id.seq = b.seq => e.rows[j].form = b.form
  <1>1. L \in Seq(Form) /\ DOMAIN L = 1..Len(L) /\ Len(L) \in Nat
    BY SeqFacts DEF Setting
  <1>2. b.seq \in DOMAIN L /\ b = Block(L, b.seq)
    BY DEF FromChain
  <1>3. b.form = L[b.seq] /\ b.parent = IF b.seq = 1 THEN NoTag ELSE L[b.seq - 1].tag
    BY <1>2 DEF Block
  <1>4. L[b.seq] \in A
    BY <1>2 DEF Setting, Of
  <1>5. \A j \in RowsIn(e, {"in_sync", "pending_sync"}) : e.rows[j].id.seq = b.seq => e.rows[j].form = b.form
    BY <1>3 DEF Placed, OnChain
  <1> QED
    BY <1>1, <1>2, <1>3, <1>4, <1>5

LEMMA InSyncRows ==
    ASSUME NEW e
    PROVE  /\ RowsIn(e, {"in_sync"}) \subseteq RowsIn(e, {"in_sync", "pending_sync"})
           /\ \A i : i \in RowsIn(e, {"in_sync"}) <=> i \in DOMAIN e.rows /\ e.rows[i].st = "in_sync"
           /\ \A n, i : i \in FindSeq(e, n) <=> /\ i \in DOMAIN e.rows /\ e.rows[i].st = "in_sync"
                                               /\ e.rows[i].id.seq = n
  BY DEF RowsIn, FindSeq

\* What check_chain_block says of a block of the replica's chain: it turns one down only if it
\* is shown already, and in strict mode shows one only after all before it.
LEMMA CheckedRight ==
    ASSUME NEW e \in Engine, NEW L, NEW A, Setting(L, A), Placed(e, L), NoGap(e),
           NEW b, FromChain(b, L)
    PROVE  /\ CheckBlock(e, b) = "invalid" =>
                  \E j \in DOMAIN e.rows : e.rows[j].st = "in_sync" /\ e.rows[j].form = b.form
           /\ CheckBlock(e, b) = "in_sync" /\ Strict => \A k \in 1..(b.seq - 1) : FindSeq(e, k) # {}
  <1> DEFINE last == LastBlock(e, {"in_sync"}).seq
             parent == {i \in RowsIn(e, {"in_sync"}) : e.rows[i].form.tag = b.parent}
             shown == \E j \in DOMAIN e.rows : e.rows[j].st = "in_sync" /\ e.rows[j].form = b.form
  <1>1. /\ b.form = L[b.seq] /\ b.form \in A /\ b.seq \in Nat \ {0}
        /\ b.parent = IF b.seq = 1 THEN NoTag ELSE L[b.seq - 1].tag
        /\ \A j \in RowsIn(e, {"in_sync"}) : e.rows[j].id.seq = b.seq => e.rows[j].form = b.form
    BY PlaceFacts, InSyncRows
  <1>2. FindSeq(e, b.seq) # {} => shown
    BY <1>1 DEF FindSeq, RowsIn
  <1>3. CASE ~Strict
    <2>1. CheckBlock(e, b) = IF FindSeq(e, b.seq) = {} THEN "in_sync" ELSE "invalid"
      BY <1>3 DEF CheckBlock, CheckWeak
    <2> QED
      BY <1>2, <1>3, <2>1
  <1>4. CASE Strict
    <2>1. CheckBlock(e, b) =
              IF b.seq <= last THEN "invalid"
              ELSE IF b.seq = 1 /\ b.parent = NoTag THEN "in_sync"
              ELSE IF parent # {}
              THEN IF \E i \in parent : e.rows[i].id.seq + 1 = b.seq THEN "in_sync" ELSE "invalid"
              ELSE IF last + 1 < b.seq THEN "pending_sync" ELSE "invalid"
      BY <1>4 DEF CheckBlock, CheckStrict
    <2>2. e.rows \in Seq(Row) /\ \A i \in DOMAIN e.rows : e.rows[i].id.seq \in Nat
      BY EngineFields, RowFields
    <2>3. \/ RowsIn(e, {"in_sync"}) = {} /\ LastBlock(e, {"in_sync"}) = NoBlock
          \/ \E i \in RowsIn(e, {"in_sync"}) :
                /\ LastBlock(e, {"in_sync"}) = e.rows[i].id
                /\ \A j \in RowsIn(e, {"in_sync"}) : e.rows[j].id.seq <= e.rows[i].id.seq
      BY <2>2, LastBlockFacts
    <2>4. last \in Nat /\ (last # 0 => \E i \in RowsIn(e, {"in_sync"}) : e.rows[i].id.seq = last)
      BY <2>2, <2>3, InSyncRows DEF NoBlock
    <2> HIDE DEF last, parent, shown
    <2>5. CASE b.seq <= last
      <3>1. PICK i \in RowsIn(e, {"in_sync"}) : e.rows[i].id.seq = last
        BY <1>1, <2>4, <2>5
      <3>2. b.seq \in 1..e.rows[i].id.seq
        BY <1>1, <2>4, <2>5, <3>1
      <3>3. FindSeq(e, b.seq) # {}
        BY <1>4, <3>2 DEF NoGap
      <3>4. CheckBlock(e, b) = "invalid"
        BY <2>1, <2>5
      <3> QED
        BY <1>2, <3>3, <3>4 DEF shown
    <2>6. CASE ~(b.seq <= last) /\ b.seq = 1
      <3>1. CheckBlock(e, b) = "in_sync"
        BY <1>1, <2>1, <2>6
      <3>2. 1..(b.seq - 1) = {}
        BY <2>6
      <3> QED
        BY <3>1, <3>2
    <2>7. CASE ~(b.seq <= last) /\ b.seq # 1
      <3>1. DOMAIN L = 1..Len(L) /\ Len(L) \in Nat /\ b.seq \in DOMAIN L
        BY SeqFacts DEF Setting, FromChain
      <3>2. b.seq - 1 \in DOMAIN L /\ b.parent = L[b.seq - 1].tag /\ L[b.seq - 1] \in A
        <4>1. b.seq - 1 \in DOMAIN L
          BY <1>1, <2>7, <3>1
        <4> QED
          BY <1>1, <2>7, <4>1 DEF Setting, Of
      <3>3. ASSUME NEW i \in parent
            PROVE  i \in RowsIn(e, {"in_sync"}) /\ e.rows[i].id.seq + 1 = b.seq
        <4>1. i \in RowsIn(e, {"in_sync"}) /\ e.rows[i].form.tag = L[b.seq - 1].tag
          BY <3>2 DEF parent
        <4>2. e.rows[i].id.seq \in DOMAIN L /\ e.rows[i].form = L[e.rows[i].id.seq]
          BY <4>1, InSyncRows DEF Placed, OnChain
        <4>3. L[e.rows[i].id.seq] \in A
          BY <4>2 DEF Setting, Of
        <4>4. L[e.rows[i].id.seq] = L[b.seq - 1]
          BY <3>2, <4>1, <4>2, <4>3 DEF Setting, Consistent
        <4>5. e.rows[i].id.seq = b.seq - 1
          BY <3>2, <4>2, <4>4 DEF Setting, Unique
        <4> QED
          BY <1>1, <4>1, <4>5
      <3>4. CASE parent # {}
        <4>1. PICK i \in parent : TRUE
          BY <3>4
        <4>2. CheckBlock(e, b) = "in_sync"
          BY <2>1, <2>7, <3>3, <3>4, <4>1
        <4>3. \A k \in 1..(b.seq - 1) : FindSeq(e, k) # {}
          <5>1. i \in RowsIn(e, {"in_sync"}) /\ e.rows[i].id.seq = b.seq - 1
            BY <1>1, <2>2, <3>3, <4>1, InSyncRows
          <5> QED
            BY <1>4, <5>1 DEF NoGap
        <4> QED
          BY <4>2, <4>3
      <3>5. CASE parent = {}
        <4>1. CheckBlock(e, b) = IF last + 1 < b.seq THEN "pending_sync" ELSE "invalid"
          BY <2>1, <2>7, <3>5
        <4>2. CASE ~(last + 1 < b.seq)
          <5>1. last = b.seq - 1 /\ last # 0
            BY <1>1, <2>4, <2>7, <4>2
          <5>2. PICK i \in RowsIn(e, {"in_sync"}) : e.rows[i].id.seq = last
            BY <2>4, <5>1
          <5>3. e.rows[i].form = L[b.seq - 1]
            BY <5>1, <5>2, InSyncRows DEF Placed, OnChain
          <5>4. i \in parent
            BY <3>2, <5>2, <5>3 DEF parent
          <5> QED
            BY <3>5, <5>4
        <4> QED
          BY <4>1, <4>2
      <3> QED
        BY <3>4, <3>5
    <2> QED
      BY <1>1, <2>4, <2>5, <2>6, <2>7
  <1> QED
    BY <1>3, <1>4

\* A row that may stand in the storage of a client whose replica's chain is L.
RowOK(r, L, A) ==
    /\ r.form \in A
    /\ r.st \in {"in_sync", "pending_sync"} => OnChain(r, L)
    /\ r.st = "pending_commit" => OpIn(r.form) \notin {Root, First}
    /\ r.st = "invalid" /\ AskClients = {} => OpIn(r.form) \in RefusedOps

LEMMA RowByRow ==
    ASSUME NEW c, NEW e, NEW L, NEW A
    PROVE  EngineOK(c, e, L, A) <=> /\ \A i \in DOMAIN e.rows : RowOK(e.rows[i], L, A)
                                    /\ OpsApart(e) /\ NoGap(e) /\ Made(c, e, A)
  <1>1. RowForms(e) \subseteq A <=> \A i \in DOMAIN e.rows : e.rows[i].form \in A
    BY DEF RowForms
  <1>2. Placed(e, L) <=> \A i \in DOMAIN e.rows : e.rows[i].st \in {"in_sync", "pending_sync"} => OnChain(e.rows[i], L)
    BY DEF Placed, RowsIn
  <1>3. OwnPending(e) <=> \A i \in DOMAIN e.rows : e.rows[i].st = "pending_commit" => OpIn(e.rows[i].form) \notin {Root, First}
    BY DEF OwnPending, RowsIn
  <1>4. NotDropped(e) <=> \A i \in DOMAIN e.rows :
                              e.rows[i].st = "invalid" /\ AskClients = {} => OpIn(e.rows[i].form) \in RefusedOps
    BY DEF NotDropped, RowsIn
  <1> QED
    BY <1>1, <1>2, <1>3, <1>4 DEF EngineOK, RowOK

LEMMA SameRows ==
    ASSUME NEW c, NEW e, NEW d, d.rows = e.rows, NEW L, NEW A, EngineOK(c, e, L, A)
    PROVE  EngineOK(c, d, L, A)
  <1>1. /\ RowForms(d) = RowForms(e) /\ \A S : RowsIn(d, S) = RowsIn(e, S)
        /\ \A n : FindSeq(d, n) = FindSeq(e, n)
    BY DEF RowForms, RowsIn, FindSeq
  <1> QED
    BY <1>1 DEF EngineOK, OpsApart, Placed, OwnPending, NoGap, NotDropped, Made

\* What is confirmed stays, and what gets confirmed comes after no gap.
LEMMA GapKept ==
    ASSUME NEW e \in Engine, NEW d \in Engine, NoGap(e),
           \A i \in DOMAIN e.rows : e.rows[i].st = "in_sync" =>
               i \in DOMAIN d.rows /\ d.rows[i].st = "in_sync" /\ d.rows[i].id = e.rows[i].id,
           \A i \in DOMAIN d.rows : d.rows[i].st = "in_sync" =>
               \/ i \in DOMAIN e.rows /\ e.rows[i].st = "in_sync"
               \/ Strict => \A k \in 1..(d.rows[i].id.seq - 1) : FindSeq(e, k) # {}
    PROVE  NoGap(d)
  <1> SUFFICES ASSUME Strict, NEW i \in RowsIn(d, {"in_sync"}), NEW k \in 1..d.rows[i].id.seq
               PROVE  FindSeq(d, k) # {}
    BY DEF NoGap
  <1>1. i \in DOMAIN d.rows /\ d.rows[i].st = "in_sync" /\ d.rows[i].id.seq \in Nat
    BY InSyncRows, EngineFields, RowFields
  <1>2. CASE k = d.rows[i].id.seq
    <2>1. i \in FindSeq(d, k)
      BY <1>1, <1>2, InSyncRows
    <2> QED
      BY <2>1
  <1>3. CASE k # d.rows[i].id.seq
    <2>1. k \in 1..(d.rows[i].id.seq - 1)
      BY <1>1, <1>3
    <2>2. FindSeq(e, k) # {}
      <3>1. CASE i \in DOMAIN e.rows /\ e.rows[i].st = "in_sync"
        <4>1. i \in RowsIn(e, {"in_sync"}) /\ d.rows[i].id = e.rows[i].id
          BY <3>1, InSyncRows
        <4> QED
          BY <4>1 DEF NoGap
      <3> QED
        BY <1>1, <2>1, <3>1
    <2>3. PICK j : j \in FindSeq(e, k)
      BY <2>2
    <2>4. j \in FindSeq(d, k)
      BY <2>3, InSyncRows
    <2> QED
      BY <2>4
  <1> QED
    BY <1>2, <1>3

\* check_pending_records confirms a row only together with all that wait before it.
LEMMA LinkedGapless ==
    ASSUME NEW e \in Engine, NoGap(e), NEW id, id.seq \in Nat,
           Strict => \A k \in 1..id.seq : FindSeq(e, k) # {}
    PROVE  NoGap(CheckPendingRecords(e, id))
  <1> DEFINE waiting == RowsIn(e, {"pending_sync"})
             Follows(j) ==
                 \/ e.rows[j].id.seq = id.seq + 1 /\ e.rows[j].id.parent = id.tag
                 \/ \E h \in waiting : /\ e.rows[j].id.seq = e.rows[h].id.seq + 1
                                       /\ e.rows[j].id.parent = e.rows[h].form.tag
             linked == {i \in waiting : \A n \in (id.seq + 1)..e.rows[i].id.seq :
                           \E j \in waiting : e.rows[j].id.seq = n /\ Follows(j)}
             d == CheckPendingRecords(e, id)
  <1>0. e.rows \in Seq(Row) /\ DOMAIN e.rows = 1..Len(e.rows) /\ Len(e.rows) \in Nat
        /\ \A i \in DOMAIN e.rows : e.rows[i] \in Row /\ e.rows[i].id.seq \in Nat
    BY EngineFields, RowFields
  <1>1. /\ DOMAIN d.rows = DOMAIN e.rows
        /\ \A i \in DOMAIN e.rows :
              d.rows[i] = IF i \in linked THEN [e.rows[i] EXCEPT !.st = "in_sync"] ELSE e.rows[i]
    BY DEF CheckPendingRecords, Engine
  <1>2. ASSUME NEW i \in DOMAIN e.rows
        PROVE  /\ d.rows[i].id = e.rows[i].id
               /\ e.rows[i].st = "in_sync" \/ i \in linked => d.rows[i].st = "in_sync"
               /\ d.rows[i].st = "in_sync" => e.rows[i].st = "in_sync" \/ i \in linked
    BY <1>0, <1>1, RowFields DEF Row
  <1>3. ASSUME NEW i \in linked, NEW n \in (id.seq + 1)..e.rows[i].id.seq
        PROVE  \E j \in linked : e.rows[j].id.seq = n
    <2>1. i \in waiting /\ i \in DOMAIN e.rows /\ e.rows[i].id.seq \in Nat
      BY <1>0 DEF RowsIn
    <2>2. \A m \in (id.seq + 1)..e.rows[i].id.seq : \E j \in waiting : e.rows[j].id.seq = m /\ Follows(j)
      BY <1>3
    <2> HIDE DEF Follows
    <2>3. PICK j \in waiting : e.rows[j].id.seq = n /\ Follows(j)
      BY <2>2
    <2>4. \A m \in (id.seq + 1)..e.rows[j].id.seq : m \in (id.seq + 1)..e.rows[i].id.seq
      BY <2>1, <2>3
    <2>5. j \in linked
      BY <2>2, <2>3, <2>4
    <2> QED
      BY <2>3, <2>5
  <1>4. linked \subseteq DOMAIN e.rows
    BY DEF RowsIn
  <1> HIDE DEF d, linked, waiting
  <1> SUFFICES ASSUME Strict, NEW i \in RowsIn(d, {"in_sync"}), NEW k \in 1..d.rows[i].id.seq
               PROVE  FindSeq(d, k) # {}
    BY DEF NoGap, d
  <1>5. i \in DOMAIN e.rows /\ d.rows[i].st = "in_sync"
    BY <1>1, InSyncRows
  <1>6. d.rows[i].id.seq = e.rows[i].id.seq /\ e.rows[i].id.seq \in Nat
    BY <1>0, <1>2, <1>5
  <1>7. (\E j : j \in FindSeq(e, k)) \/ (\E j \in linked : e.rows[j].id.seq = k)
    <2>1. CASE k \in 1..id.seq
      BY <2>1
    <2>2. CASE k \notin 1..id.seq /\ i \in linked
      <3>1. k \in (id.seq + 1)..e.rows[i].id.seq
        BY <1>6, <2>2
      <3> QED
        BY <1>3, <2>2, <3>1
    <2>3. CASE i \notin linked
      <3>1. i \in RowsIn(e, {"in_sync"})
        BY <1>2, <1>5, <2>3, InSyncRows
      <3> QED
        BY <1>6, <3>1 DEF NoGap
    <2> QED
      BY <2>1, <2>2, <2>3
  <1>8. ASSUME NEW j \in FindSeq(e, k) PROVE j \in FindSeq(d, k)
    BY <1>1, <1>2, InSyncRows
  <1>9. ASSUME NEW j \in linked, e.rows[j].id.seq = k PROVE j \in FindSeq(d, k)
    BY <1>1, <1>2, <1>4, <1>9, InSyncRows
  <1> QED
    BY <1>7, <1>8, <1>9

\* The operations and the counts of the rows are what sets a client's forms apart.
LEMMA CountsKept ==
    ASSUME NEW c, NEW A, NEW e \in Engine, NEW d \in Engine, DOMAIN d.rows = DOMAIN e.rows,
           \A i \in DOMAIN e.rows : /\ OpIn(d.rows[i].form) = OpIn(e.rows[i].form)
                                    /\ e.rows[i].ver <= d.rows[i].ver,
           A \subseteq Form, OpsApart(e), Made(c, e, A)
    PROVE  OpsApart(d) /\ Made(c, d, A)
  <1>1. OpsApart(d)
    BY DEF OpsApart
  <1>2. ASSUME NEW f \in A, f.tag[2] = c, OpIn(f) \notin {Root, First}
        PROVE  \E i \in DOMAIN d.rows : OpIn(d.rows[i].form) = OpIn(f) /\ f.tag[3] <= d.rows[i].ver
    <2>1. PICK i \in DOMAIN e.rows : OpIn(e.rows[i].form) = OpIn(f) /\ f.tag[3] <= e.rows[i].ver
      BY <1>2 DEF Made
    <2>2. e.rows[i].ver \in Nat /\ d.rows[i].ver \in Nat
      BY EngineFields, RowFields
    <2>3. f.tag[3] \in Nat
      BY DEF Form, FormTag
    <2>4. f.tag[3] <= d.rows[i].ver
      BY <2>1, <2>2, <2>3
    <2> QED
      BY <2>1, <2>4
  <1> QED
    BY <1>1, <1>2 DEF Made

LEMMA ConfirmedRow ==
    ASSUME NEW L, NEW A, Setting(L, A), NEW e \in Engine, Placed(e, L), NEW b \in ChainBlock, FromChain(b, L),
           NEW r, r.form = b.form, r.id = IdOf(b), r.st \in {"in_sync", "pending_sync"}
    PROVE  RowOK(r, L, A)
  <1>1. b.form = L[b.seq] /\ b.form \in A /\ IdOf(b) = IdOf(Block(L, b.seq)) /\ IdOf(b).seq = b.seq
    BY PlaceFacts, BlockFields
  <1>2. b.seq \in DOMAIN L
    BY DEF FromChain
  <1> QED
    BY <1>1, <1>2 DEF RowOK, OnChain

\* update_record_commit_state, with the block of the record it is about
LEMMA ToldKeeps ==
    ASSUME NEW c, NEW L, NEW A, Setting(L, A), NEW e \in Engine, EngineOK(c, e, L, A),
           NEW b \in ChainBlock, FromChain(b, L), NEW i \in DOMAIN e.rows, e.rows[i].form = b.form
    PROVE  EngineOK(c, UpdateCommitState(e, i, b), L, A)
  <1> DEFINE d == UpdateCommitState(e, i, b)
             r == e.rows[i]
             st == CheckBlock(e, b)
  <1>1. /\ d \in Engine /\ DOMAIN d.rows = DOMAIN e.rows
        /\ \A j \in DOMAIN e.rows \ {i} : d.rows[j] = e.rows[j]
        /\ \/ d.rows[i] = r
           \/ r.st # "in_sync" /\ st = "invalid" /\ d.rows[i] = [r EXCEPT !.st = "invalid"]
           \/ /\ r.st # "in_sync" /\ st # "invalid"
              /\ d.rows[i] = [r EXCEPT !.st = st, !.id = IdOf(b)]
    BY ZenonT(60), UpdateCommitFacts
  <1>2. /\ \A j \in DOMAIN e.rows : RowOK(e.rows[j], L, A)
        /\ OpsApart(e) /\ NoGap(e) /\ Made(c, e, A) /\ Placed(e, L)
    BY RowByRow DEF EngineOK
  <1>3. /\ st = "invalid" => \E j \in DOMAIN e.rows : e.rows[j].st = "in_sync" /\ e.rows[j].form = b.form
        /\ st = "in_sync" /\ Strict => \A k \in 1..(b.seq - 1) : FindSeq(e, k) # {}
    BY <1>2, CheckedRight
  <1>4. st \in {"in_sync", "pending_sync", "invalid"}
    BY CheckBlockType
  <1>5. r \in Row /\ IdOf(b).seq = b.seq
    BY EngineFields, BlockFields
  <1> HIDE DEF d, st
  <1>6. \/ d.rows[i] = r
        \/ /\ r.st # "in_sync" /\ st \in {"in_sync", "pending_sync"}
           /\ d.rows[i] = [r EXCEPT !.st = st, !.id = IdOf(b)]
    <2>1. st = "invalid" => r.st = "in_sync"
      BY <1>2, <1>3 DEF OpsApart
    <2> QED
      BY <1>1, <1>4, <2>1
  <1>7. /\ d.rows[i].form = r.form /\ d.rows[i].ver = r.ver
        /\ \/ d.rows[i] = r
           \/ r.st # "in_sync" /\ d.rows[i].st = st /\ d.rows[i].id = IdOf(b) /\ st \in {"in_sync", "pending_sync"}
    BY <1>5, <1>6 DEF Row
  <1>8. ASSUME NEW j \in DOMAIN d.rows PROVE RowOK(d.rows[j], L, A)
    <2>1. CASE j # i \/ d.rows[i] = r
      BY <1>1, <1>2, <2>1
    <2>2. CASE j = i /\ d.rows[i] # r
      BY <1>2, <1>7, <2>2, ConfirmedRow
    <2> QED
      BY <2>1, <2>2
  <1>9. NoGap(d)
    <2>1. ASSUME NEW j \in DOMAIN e.rows, e.rows[j].st = "in_sync" PROVE d.rows[j] = e.rows[j]
      BY <1>1, <1>7, <2>1
    <2>2. ASSUME NEW j \in DOMAIN d.rows, d.rows[j].st = "in_sync"
          PROVE  \/ j \in DOMAIN e.rows /\ e.rows[j].st = "in_sync"
                 \/ Strict => \A k \in 1..(d.rows[j].id.seq - 1) : FindSeq(e, k) # {}
      <3>1. CASE j # i \/ d.rows[i] = r
        BY <1>1, <2>2, <3>1
      <3>2. CASE j = i /\ d.rows[i] # r
        <4>1. st = "in_sync" /\ d.rows[j].id.seq = b.seq
          BY <1>5, <1>7, <2>2, <3>2
        <4> QED
          BY <1>3, <4>1
      <3> QED
        BY <3>1, <3>2
    <2> QED
      BY <1>1, <1>2, <2>1, <2>2, GapKept
  <1>10. OpsApart(d) /\ Made(c, d, A)
    <2>1. \A j \in DOMAIN e.rows : d.rows[j].form = e.rows[j].form /\ d.rows[j].ver = e.rows[j].ver
      BY <1>1, <1>7
    <2>2. \A j \in DOMAIN e.rows : e.rows[j].ver \in Nat
      BY EngineFields, RowFields
    <2>3. \A j \in DOMAIN e.rows : OpIn(d.rows[j].form) = OpIn(e.rows[j].form) /\ e.rows[j].ver <= d.rows[j].ver
      BY <2>1, <2>2
    <2> QED
      BY <1>1, <1>2, <2>3, CountsKept DEF Setting
  <1>11. EngineOK(c, d, L, A)
    BY <1>8, <1>9, <1>10, RowByRow
  <1> QED
    BY <1>11 DEF d

\* adopt_committed, with a form of the operation of the row
LEMMA AdoptKeeps ==
    ASSUME NEW c, NEW L, NEW A, Setting(L, A), NEW e \in Engine, EngineOK(c, e, L, A),
           NEW b \in ChainBlock, FromChain(b, L), NEW i \in OwnOf(e, b)
    PROVE  EngineOK(c, AdoptCommitted(e, i, b), L, A)
  <1> DEFINE d == AdoptCommitted(e, i, b)
             r == e.rows[i]
             st == CheckBlock(e, b)
  <1>0. i \in DOMAIN e.rows /\ r.st = "pending_commit" /\ OpIn(r.form) = OpIn(b.form)
    BY DEF OwnOf, FindOp
  <1>1. /\ d \in Engine /\ DOMAIN d.rows = DOMAIN e.rows
        /\ \A j \in DOMAIN e.rows \ {i} : d.rows[j] = e.rows[j]
        /\ \/ d.rows[i] = r
           \/ st # "invalid" /\ d.rows[i] = [r EXCEPT !.form = b.form, !.st = st, !.id = IdOf(b)]
    BY ZenonT(60), <1>0, AdoptFacts
  <1>2. /\ \A j \in DOMAIN e.rows : RowOK(e.rows[j], L, A)
        /\ OpsApart(e) /\ NoGap(e) /\ Made(c, e, A) /\ Placed(e, L)
    BY RowByRow DEF EngineOK
  <1>3. st = "in_sync" /\ Strict => \A k \in 1..(b.seq - 1) : FindSeq(e, k) # {}
    BY <1>2, CheckedRight
  <1>4. st \in {"in_sync", "pending_sync", "invalid"}
    BY CheckBlockType
  <1>5. r \in Row /\ IdOf(b).seq = b.seq
    BY <1>0, EngineFields, BlockFields
  <1> HIDE DEF d, st
  <1>7. /\ OpIn(d.rows[i].form) = OpIn(r.form) /\ d.rows[i].ver = r.ver
        /\ \/ d.rows[i] = r
           \/ /\ d.rows[i].st = st /\ d.rows[i].id = IdOf(b) /\ d.rows[i].form = b.form
              /\ st \in {"in_sync", "pending_sync"}
    BY <1>0, <1>1, <1>4, <1>5 DEF Row
  <1>8. ASSUME NEW j \in DOMAIN d.rows PROVE RowOK(d.rows[j], L, A)
    <2>1. CASE j # i \/ d.rows[i] = r
      BY <1>1, <1>2, <2>1
    <2>2. CASE j = i /\ d.rows[i] # r
      BY <1>2, <1>7, <2>2, ConfirmedRow
    <2> QED
      BY <2>1, <2>2
  <1>9. NoGap(d)
    <2>1. ASSUME NEW j \in DOMAIN e.rows, e.rows[j].st = "in_sync" PROVE d.rows[j] = e.rows[j]
      BY <1>0, <1>1, <2>1
    <2>2. ASSUME NEW j \in DOMAIN d.rows, d.rows[j].st = "in_sync"
          PROVE  \/ j \in DOMAIN e.rows /\ e.rows[j].st = "in_sync"
                 \/ Strict => \A k \in 1..(d.rows[j].id.seq - 1) : FindSeq(e, k) # {}
      <3>1. CASE j # i \/ d.rows[i] = r
        BY <1>1, <2>2, <3>1
      <3>2. CASE j = i /\ d.rows[i] # r
        <4>1. st = "in_sync" /\ d.rows[j].id.seq = b.seq
          BY <1>5, <1>7, <2>2, <3>2
        <4> QED
          BY <1>3, <4>1
      <3> QED
        BY <3>1, <3>2
    <2> QED
      BY <1>1, <1>2, <2>1, <2>2, GapKept
  <1>10. OpsApart(d) /\ Made(c, d, A)
    <2>1. \A j \in DOMAIN e.rows : OpIn(d.rows[j].form) = OpIn(e.rows[j].form) /\ d.rows[j].ver = e.rows[j].ver
      BY <1>1, <1>7
    <2>2. \A j \in DOMAIN e.rows : e.rows[j].ver \in Nat
      BY EngineFields, RowFields
    <2>3. \A j \in DOMAIN e.rows : OpIn(d.rows[j].form) = OpIn(e.rows[j].form) /\ e.rows[j].ver <= d.rows[j].ver
      BY <2>1, <2>2
    <2> QED
      BY <1>1, <1>2, <2>3, CountsKept DEF Setting
  <1>11. EngineOK(c, d, L, A)
    BY <1>8, <1>9, <1>10, RowByRow
  <1> QED
    BY <1>11 DEF d

\* handle_block_chain: the block of a record the storage does not have
LEMMA TakenKeeps ==
    ASSUME NEW c, NEW L, NEW A, Setting(L, A), NEW e \in Engine, EngineOK(c, e, L, A),
           NEW b \in ChainBlock, FromChain(b, L), FindOp(e, OpIn(b.form)) = {}
    PROVE  EngineOK(c, Taken(e, b), L, A)
  <1> DEFINE d == Taken(e, b)
             r == NewRow(e, b)
             n == Len(e.rows) + 1
  <1>1. /\ d \in Engine /\ r \in Row
        /\ DOMAIN d.rows = 1..n /\ DOMAIN e.rows = 1..Len(e.rows) /\ Len(e.rows) \in Nat
        /\ \A i \in 1..n : d.rows[i] = IF i = n THEN r ELSE e.rows[i]
    BY TakenFacts
  <1>2. /\ \A j \in DOMAIN e.rows : RowOK(e.rows[j], L, A)
        /\ OpsApart(e) /\ NoGap(e) /\ Made(c, e, A) /\ Placed(e, L)
    BY RowByRow DEF EngineOK
  <1>3. /\ r.form = b.form /\ r.st = CheckBlock(e, b) /\ r.id = IdOf(b) /\ r.id.seq = b.seq
    BY BlockFields DEF NewRow
  <1>4. \A j \in DOMAIN e.rows : OpIn(e.rows[j].form) # OpIn(b.form)
    BY DEF FindOp
  <1>5. r.st \in {"in_sync", "pending_sync"}
    <2>1. CheckBlock(e, b) # "invalid"
      BY <1>2, <1>4, CheckedRight
    <2> QED
      BY <1>3, <2>1, CheckBlockType
  <1>6. r.st = "in_sync" /\ Strict => \A k \in 1..(b.seq - 1) : FindSeq(e, k) # {}
    BY <1>2, <1>3, CheckedRight
  <1> HIDE DEF d, r
  <1>7. ASSUME NEW j \in DOMAIN d.rows PROVE RowOK(d.rows[j], L, A)
    <2>1. RowOK(r, L, A)
      BY <1>2, <1>3, <1>5, ConfirmedRow
    <2> QED
      BY <1>1, <1>2, <2>1
  <1>8. NoGap(d)
    <2>1. ASSUME NEW j \in DOMAIN e.rows PROVE j \in DOMAIN d.rows /\ d.rows[j] = e.rows[j]
      BY <1>1, <2>1
    <2>2. ASSUME NEW j \in DOMAIN d.rows, d.rows[j].st = "in_sync"
          PROVE  \/ j \in DOMAIN e.rows /\ e.rows[j].st = "in_sync"
                 \/ Strict => \A k \in 1..(d.rows[j].id.seq - 1) : FindSeq(e, k) # {}
      <3>1. CASE j = n
        <4>1. d.rows[j] = r
          BY <1>1, <3>1
        <4> QED
          BY <1>3, <1>6, <2>2, <4>1
      <3>2. CASE j # n
        <4>1. j \in DOMAIN e.rows /\ d.rows[j] = e.rows[j]
          BY <1>1, <3>2
        <4> QED
          BY <2>2, <4>1
      <3> QED
        BY <3>1, <3>2
    <2> QED
      BY <1>1, <1>2, <2>1, <2>2, GapKept
  <1>9. OpsApart(d)
    <2> SUFFICES ASSUME NEW i \in DOMAIN d.rows, NEW j \in DOMAIN d.rows, OpIn(d.rows[i].form) = OpIn(d.rows[j].form)
                 PROVE  i = j
      BY DEF OpsApart
    <2>1. CASE i = n /\ j # n
      BY <1>1, <1>3, <1>4, <2>1
    <2>2. CASE i # n /\ j = n
      BY <1>1, <1>3, <1>4, <2>2
    <2>3. CASE i # n /\ j # n
      BY <1>1, <1>2, <2>3 DEF OpsApart
    <2> QED
      BY <2>1, <2>2, <2>3
  <1>10. Made(c, d, A)
    <2>1. \A j \in DOMAIN e.rows : j \in DOMAIN d.rows /\ d.rows[j] = e.rows[j]
      BY <1>1
    <2> QED
      BY <1>2, <2>1 DEF Made
  <1>11. EngineOK(c, d, L, A)
    BY <1>7, <1>8, <1>9, <1>10, RowByRow
  <1> QED
    BY <1>11 DEF d

LEMMA LinkKeeps ==
    ASSUME NEW c, NEW L, NEW A, Setting(L, A), NEW e \in Engine, EngineOK(c, e, L, A),
           NEW b \in ChainBlock, FromChain(b, L), FindOp(e, OpIn(b.form)) = {}, CheckBlock(e, b) = "in_sync"
    PROVE  EngineOK(c, CheckPendingRecords(Taken(e, b), IdOf(b)), L, A)
  <1> DEFINE x == Taken(e, b)
             d == CheckPendingRecords(x, IdOf(b))
             n == Len(e.rows) + 1
  <1>1. x \in Engine /\ EngineOK(c, x, L, A)
    BY TakenFacts, TakenKeeps
  <1>2. /\ \A j \in DOMAIN x.rows : RowOK(x.rows[j], L, A)
        /\ OpsApart(x) /\ NoGap(x) /\ Made(c, x, A)
    BY <1>1, RowByRow
  <1>3. IdOf(b).seq = b.seq /\ b.seq \in Nat
    BY BlockFields
  <1>4. n \in DOMAIN x.rows /\ x.rows[n].st = "in_sync" /\ x.rows[n].id.seq = b.seq
    <2>1. x.rows[n] = NewRow(e, b) /\ n \in DOMAIN x.rows
      BY SMTT(30), TakenFacts
    <2> QED
      BY <1>3, <2>1 DEF NewRow
  <1>5. Strict => \A k \in 1..b.seq : FindSeq(x, k) # {}
    <2>1. n \in RowsIn(x, {"in_sync"})
      BY <1>4, InSyncRows
    <2> QED
      BY <1>2, <1>4, <2>1 DEF NoGap
  <1>6. /\ d \in Engine /\ DOMAIN d.rows = DOMAIN x.rows
        /\ \A i \in DOMAIN x.rows :
              \/ d.rows[i] = x.rows[i]
              \/ x.rows[i].st = "pending_sync" /\ d.rows[i] = [x.rows[i] EXCEPT !.st = "in_sync"]
    BY <1>1, CheckPendingFacts
  <1>7. NoGap(d)
    BY <1>1, <1>2, <1>3, <1>5, LinkedGapless
  <1>8. \A i \in DOMAIN x.rows : x.rows[i] \in Row /\ x.rows[i].ver \in Nat
    BY <1>1, EngineFields, RowFields
  <1> HIDE DEF d, x
  <1>9. ASSUME NEW i \in DOMAIN x.rows
        PROVE  /\ d.rows[i].form = x.rows[i].form /\ d.rows[i].ver = x.rows[i].ver /\ d.rows[i].id = x.rows[i].id
               /\ d.rows[i] = x.rows[i] \/ (x.rows[i].st = "pending_sync" /\ d.rows[i].st = "in_sync")
    <2>1. x.rows[i] \in Row
      BY <1>8
    <2> QED
      BY ZenonT(60), <1>6, <2>1 DEF Row
  <1>10. ASSUME NEW i \in DOMAIN d.rows PROVE RowOK(d.rows[i], L, A)
    <2>1. RowOK(x.rows[i], L, A) /\ i \in DOMAIN x.rows
      BY <1>2, <1>6
    <2>2. CASE x.rows[i].st = "pending_sync" /\ d.rows[i].st = "in_sync"
      BY <1>9, <2>1, <2>2 DEF RowOK, OnChain
    <2> QED
      BY <1>9, <2>1, <2>2
  <1>11. OpsApart(d) /\ Made(c, d, A)
    <2>1. \A i \in DOMAIN x.rows : OpIn(d.rows[i].form) = OpIn(x.rows[i].form) /\ x.rows[i].ver <= d.rows[i].ver
      BY <1>8, <1>9
    <2> QED
      BY <1>1, <1>2, <1>6, <2>1, CountsKept DEF Setting
  <1>12. EngineOK(c, d, L, A)
    BY <1>7, <1>10, <1>11, RowByRow
  <1> QED
    BY <1>12 DEF d, x

\* a refusal for good
DroppedBy(e, t, rows) ==
    /\ DOMAIN rows = DOMAIN e.rows
    /\ \A i \in DOMAIN e.rows :
          \/ rows[i] = e.rows[i]
          \/ /\ e.rows[i].form.tag = t /\ e.rows[i].st = "pending_commit"
             /\ rows[i] = [e.rows[i] EXCEPT !.st = "invalid"]

LEMMA DropKeeps ==
    ASSUME NEW c, NEW L, NEW A, Setting(L, A), NEW e \in Engine, EngineOK(c, e, L, A), NEW d \in Engine,
           NEW t, t[1] \in RefusedOps, DroppedBy(e, t, d.rows)
    PROVE  EngineOK(c, d, L, A)
  <1>1. /\ \A j \in DOMAIN e.rows : RowOK(e.rows[j], L, A)
        /\ OpsApart(e) /\ NoGap(e) /\ Made(c, e, A)
    BY RowByRow
  <1>2. \A i \in DOMAIN e.rows : e.rows[i] \in Row /\ e.rows[i].ver \in Nat
    BY EngineFields, RowFields
  <1>0. DOMAIN d.rows = DOMAIN e.rows
    BY DEF DroppedBy
  <1>3. ASSUME NEW i \in DOMAIN e.rows
        PROVE  /\ d.rows[i].form = e.rows[i].form /\ d.rows[i].ver = e.rows[i].ver
               /\ \/ d.rows[i] = e.rows[i]
                  \/ /\ OpIn(e.rows[i].form) \in RefusedOps /\ e.rows[i].st = "pending_commit"
                     /\ d.rows[i].st = "invalid"
    <2>1. e.rows[i] \in Row
      BY <1>2
    <2> QED
      BY <2>1 DEF Row, OpIn, DroppedBy
  <1>4. ASSUME NEW i \in DOMAIN d.rows PROVE RowOK(d.rows[i], L, A)
    <2>1. RowOK(e.rows[i], L, A)
      BY <1>0, <1>1
    <2> QED
      BY <1>0, <1>3, <2>1 DEF RowOK
  <1>5. NoGap(d)
    <2>1. ASSUME NEW i \in DOMAIN e.rows, e.rows[i].st = "in_sync" \/ d.rows[i].st = "in_sync"
          PROVE  d.rows[i] = e.rows[i]
      BY <1>3, <2>1
    <2> QED
      BY <1>0, <1>1, <2>1, GapKept
  <1>6. OpsApart(d) /\ Made(c, d, A)
    <2>1. \A i \in DOMAIN e.rows : OpIn(d.rows[i].form) = OpIn(e.rows[i].form) /\ e.rows[i].ver <= d.rows[i].ver
      BY <1>2, <1>3
    <2> QED
      BY <1>0, <1>1, <2>1, CountsKept DEF Setting
  <1> QED
    BY <1>4, <1>5, <1>6, RowByRow

\* An event of a truthful server, before anything is committed again.
LEMMA PlainKeeps ==
    ASSUME NEW c, NEW L, NEW A, Setting(L, A), NEW e \in Engine, EngineOK(c, e, L, A), NEW d \in Engine,
           NEW p, Truthful(p, L), RowsBy(e, p, d.rows)
    PROVE  EngineOK(c, d, L, A)
  <1>1. CASE d.rows = e.rows
    BY <1>1, SameRows
  <1>2. ASSUME NEW b \in BlocksIn(p), NEW x \in Engine, x.rows = e.rows, b \in ChainBlock,
               \/ /\ Known(e, b) # {}
                  /\ \E i \in Known(e, b) \cup OwnOf(e, b) : d.rows = UpdateCommitState(x, i, b).rows
               \/ Known(e, b) = {} /\ \E i \in OwnOf(e, b) : d.rows = AdoptCommitted(x, i, b).rows
               \/ /\ FindOp(e, OpIn(b.form)) = {} /\ CheckBlock(x, b) # "in_sync"
                  /\ d.rows = Taken(x, b).rows
               \/ /\ FindOp(e, OpIn(b.form)) = {} /\ CheckBlock(x, b) = "in_sync"
                  /\ d.rows = CheckPendingRecords(Taken(x, b), IdOf(b)).rows
        PROVE  EngineOK(c, d, L, A)
    <2>1. FromChain(b, L)
      BY DEF Truthful
    <2>2. EngineOK(c, x, L, A)
      BY <1>2, SameRows
    <2>3. Known(x, b) = Known(e, b) /\ OwnOf(x, b) = OwnOf(e, b) /\ FindOp(x, OpIn(b.form)) = FindOp(e, OpIn(b.form))
      BY <1>2 DEF Known, FindTag, OwnOf, FindOp
    <2>4. CASE Known(e, b) # {} /\ \E i \in Known(e, b) \cup OwnOf(e, b) : d.rows = UpdateCommitState(x, i, b).rows
      <3>1. PICK i \in Known(x, b) \cup OwnOf(x, b) : d.rows = UpdateCommitState(x, i, b).rows
        BY <2>3, <2>4
      <3>2. PICK k : k \in Known(x, b)
        BY <2>3, <2>4
      <3>3. k \in DOMAIN x.rows /\ x.rows[k].form.tag = b.form.tag
        BY <3>2 DEF Known, FindTag
      <3>4. i \in DOMAIN x.rows /\ OpIn(x.rows[i].form) = OpIn(b.form)
        BY <3>1 DEF Known, FindTag, OwnOf, FindOp, OpIn
      <3>5. i = k
        <4>1. OpIn(x.rows[k].form) = OpIn(b.form)
          BY <3>3 DEF OpIn
        <4> QED
          BY <2>2, <3>3, <3>4, <4>1 DEF EngineOK, OpsApart
      <3>6. x.rows[i].form = b.form
        <4>1. x.rows[i].form \in A
          BY <2>2, <3>4 DEF EngineOK, RowForms
        <4>2. Placed(x, L)
          BY <2>2 DEF EngineOK
        <4>3. b.form \in A
          BY <1>2, <2>1, <4>2, PlaceFacts
        <4> QED
          BY <3>3, <3>5, <4>1, <4>3 DEF Setting, Consistent
      <3>7. EngineOK(c, UpdateCommitState(x, i, b), L, A)
        BY <1>2, <2>1, <2>2, <3>4, <3>6, ToldKeeps
      <3> QED
        BY <3>1, <3>7, SameRows
    <2>5. ASSUME NEW i \in OwnOf(e, b), d.rows = AdoptCommitted(x, i, b).rows
          PROVE  EngineOK(c, d, L, A)
      <3>1. EngineOK(c, AdoptCommitted(x, i, b), L, A)
        BY <1>2, <2>1, <2>2, <2>3, AdoptKeeps
      <3> QED
        BY <2>5, <3>1, SameRows
    <2>6. CASE FindOp(e, OpIn(b.form)) = {} /\ d.rows = Taken(x, b).rows
      <3>1. EngineOK(c, Taken(x, b), L, A)
        BY <1>2, <2>1, <2>2, <2>3, <2>6, TakenKeeps
      <3> QED
        BY <2>6, <3>1, SameRows
    <2>7. CASE /\ FindOp(e, OpIn(b.form)) = {} /\ CheckBlock(x, b) = "in_sync"
               /\ d.rows = CheckPendingRecords(Taken(x, b), IdOf(b)).rows
      <3>1. EngineOK(c, CheckPendingRecords(Taken(x, b), IdOf(b)), L, A)
        BY <1>2, <2>1, <2>2, <2>3, <2>7, LinkKeeps
      <3> QED
        BY <2>7, <3>1, SameRows
    <2> QED
      BY <1>2, <2>4, <2>5, <2>6, <2>7
  <1>3. CASE /\ p.type = "refused" /\ p.why = "invalid_record"
             /\ DOMAIN d.rows = DOMAIN e.rows
             /\ \A i \in DOMAIN e.rows :
                   \/ d.rows[i] = e.rows[i]
                   \/ /\ e.rows[i].form.tag = p.tag /\ e.rows[i].st = "pending_commit"
                      /\ d.rows[i] = [e.rows[i] EXCEPT !.st = "invalid"]
    <2>1. p.tag[1] \in RefusedOps
      BY <1>3 DEF Truthful
    <2>2. DroppedBy(e, p.tag, d.rows)
      BY <1>3 DEF DroppedBy
    <2> QED
      BY <2>1, <2>2, DropKeeps
  <1> QED
    BY <1>1, <1>2, <1>3 DEF RowsBy

LEMMA SpecialNamed ==
    ASSUME NEW e \in Engine, NEW L, Placed(e, L), LastSpecialTag(e) # NoTag
    PROVE  LastSpecialTag(e)[1] \in SpecialOps
  <1> DEFINE n == NewestAt(e, Specials(e))
  <1>1. e.rows \in Seq(Row) /\ Specials(e) \subseteq RowsIn(e, {"in_sync"})
    BY EngineFields DEF Specials
  <1>2. LastSpecialTag(e) = TagOf(e, n)
    BY <1>1, NewestTags
  <1>3. n = 0 \/ (n \in RowsIn(e, {"in_sync"}) /\ \E j \in Specials(e) : e.rows[j].id.seq = e.rows[n].id.seq)
    BY <1>1, NewestAtFacts
  <1> HIDE DEF n
  <1>4. n # 0 /\ LastSpecialTag(e) = e.rows[n].form.tag
    BY <1>2 DEF TagOf
  <1>5. PICK j \in Specials(e) : n \in RowsIn(e, {"in_sync"}) /\ e.rows[j].id.seq = e.rows[n].id.seq
    BY <1>3, <1>4
  <1>6. j \in RowsIn(e, {"in_sync"}) /\ IsSpecial(e.rows[j].form)
    BY DEF Specials
  <1>7. e.rows[j].form = e.rows[n].form
    BY <1>5, <1>6, InSyncRows DEF Placed, OnChain
  <1> QED
    BY <1>4, <1>6, <1>7 DEF IsSpecial, OpIn

\* A form just made, of an operation a row of c stands for.
Newly(c, e, f) ==
    /\ f \in Form /\ f.tag[2] = c /\ f.special = LastSpecialTag(e)
    /\ OpIn(f) \notin {Root, First}
    /\ \A i \in DOMAIN e.rows : OpIn(e.rows[i].form) = OpIn(f) => e.rows[i].ver < f.tag[3]

\* Forms a client makes carry tags nothing else carries.
LEMMA NewForms ==
    ASSUME NEW c \in Client, NEW L, NEW A, Setting(L, A), SpecialsTrue(A), NEW e \in Engine, EngineOK(c, e, L, A),
           NEW N, \A f \in N : Newly(c, e, f), Consistent(N)
    PROVE  Setting(L, A \cup N) /\ SpecialsTrue(A \cup N)
  <1>1. ASSUME NEW f \in N, NEW g \in A, f.tag = g.tag PROVE FALSE
    <2>1. g.tag[2] = c /\ OpIn(g) \notin {Root, First} /\ OpIn(g) = OpIn(f)
      BY <1>1 DEF Newly, OpIn
    <2>2. PICK i \in DOMAIN e.rows : OpIn(e.rows[i].form) = OpIn(g) /\ g.tag[3] <= e.rows[i].ver
      BY <2>1 DEF EngineOK, Made
    <2>3. e.rows[i].ver < g.tag[3]
      BY <1>1, <2>1, <2>2 DEF Newly
    <2>4. e.rows[i].ver \in Nat /\ g.tag[3] \in Nat
      <3>1. g \in Form
        BY DEF Setting
      <3>2. g.tag[3] \in Nat
        BY <3>1 DEF Form, FormTag
      <3> QED
        BY <3>2, EngineFields, RowFields
    <2> QED
      BY <2>2, <2>3, <2>4
  <1>2. Consistent(A \cup N)
    <2> SUFFICES ASSUME NEW f \in A \cup N, NEW g \in A \cup N, f.tag = g.tag PROVE f = g
      BY DEF Consistent
    <2>1. CASE f \in A /\ g \in A
      BY <2>1 DEF Setting, Consistent
    <2>2. CASE f \in N /\ g \in N
      BY <2>2 DEF Consistent
    <2> QED
      BY <1>1, <2>1, <2>2
  <1>3. Setting(L, A \cup N)
    BY <1>2 DEF Setting, Newly
  <1>4. ASSUME NEW f \in N, f.special # NoTag PROVE f.special[1] \in SpecialOps
    BY <1>4, SpecialNamed DEF Newly, EngineOK
  <1> QED
    BY <1>3, <1>4 DEF SpecialsTrue

\* try_commit_pending rebuilds only what is pending, and counts the forms it makes.
LEMMA TryCommitKeeps ==
    ASSUME NEW c \in Client, NEW L, NEW A, Setting(L, A), SpecialsTrue(A),
           NEW w \in Work, EngineOK(c, w.e, L, A)
    PROVE  LET v == TryCommitPending(c, w)
               B == A \cup RowForms(v.e)
           IN  /\ Setting(L, B) /\ SpecialsTrue(B) /\ EngineOK(c, v.e, L, B)
               /\ \A f \in B \ A : f.tag[2] = c
  <1> DEFINE e == w.e
             d == TryCommitPending(c, w).e
             N == RowForms(d) \ A
             B == A \cup RowForms(d)
  <1>1. /\ e \in Engine /\ d \in Engine /\ DOMAIN d.rows = DOMAIN e.rows
        /\ \A i \in DOMAIN e.rows :
              \/ d.rows[i] = e.rows[i]
              \/ /\ e.rows[i].st = "pending_commit"
                 /\ \/ d.rows[i] = Rebuilt(c, e, e.rows[i])
                    \/ c \in AskClients /\ d.rows[i] = [e.rows[i] EXCEPT !.st = "invalid"]
    BY TryCommitFacts, WorkFields
  <1>2. /\ \A i \in DOMAIN e.rows : RowOK(e.rows[i], L, A)
        /\ OpsApart(e) /\ NoGap(e) /\ Made(c, e, A)
    BY RowByRow
  <1>3. \A i \in DOMAIN e.rows : e.rows[i] \in Row /\ e.rows[i].ver \in Nat /\ OpIn(e.rows[i].form) \in Op
    BY <1>1, EngineFields, RowFields
  <1> HIDE DEF d
  <1> DEFINE Remade(i) ==
                 /\ e.rows[i].st = "pending_commit" /\ d.rows[i].st = "pending_commit"
                 /\ d.rows[i].form.tag = <<OpIn(e.rows[i].form), c, e.rows[i].ver + 1>>
                 /\ d.rows[i].ver = e.rows[i].ver + 1 /\ d.rows[i].form.special = LastSpecialTag(e)
             Asked(i) ==
                 /\ e.rows[i].st = "pending_commit" /\ d.rows[i].st = "invalid" /\ c \in AskClients
                 /\ d.rows[i].form = e.rows[i].form /\ d.rows[i].ver = e.rows[i].ver
  <1>4. ASSUME NEW i \in DOMAIN e.rows
        PROVE  d.rows[i] = e.rows[i] \/ Remade(i) \/ Asked(i)
    <2>1. e.rows[i] \in Row
      BY <1>3
    <2>2. CASE e.rows[i].st = "pending_commit" /\ d.rows[i] = Rebuilt(c, e, e.rows[i])
      BY <1>1, <2>1, <2>2, RebuiltFacts
    <2>3. CASE e.rows[i].st = "pending_commit" /\ c \in AskClients /\ d.rows[i] = [e.rows[i] EXCEPT !.st = "invalid"]
      BY <2>1, <2>3 DEF Row
    <2> QED
      BY <1>1, <2>2, <2>3
  <1>5. ASSUME NEW i \in DOMAIN e.rows
        PROVE  OpIn(d.rows[i].form) = OpIn(e.rows[i].form) /\ e.rows[i].ver <= d.rows[i].ver
    BY <1>3, <1>4 DEF OpIn
  <1>6. ASSUME NEW f \in N
        PROVE  Newly(c, e, f) /\ \E i \in DOMAIN e.rows : Remade(i) /\ f = d.rows[i].form
    <2>1. PICK i \in DOMAIN e.rows : f = d.rows[i].form
      BY <1>1 DEF RowForms
    <2>2. e.rows[i].form \in A /\ (e.rows[i].st = "pending_commit" => OpIn(e.rows[i].form) \notin {Root, First})
      BY <1>2 DEF RowOK
    <2>3. Remade(i)
      BY <1>4, <2>1, <2>2
    <2>4. f \in Form
      BY <1>1, <2>1, EngineFields, RowFields
    <2>5. f.tag[2] = c /\ f.tag[3] = e.rows[i].ver + 1 /\ OpIn(f) = OpIn(e.rows[i].form) /\ f.special = LastSpecialTag(e)
      BY <2>1, <2>3 DEF OpIn
    <2>6. ASSUME NEW j \in DOMAIN e.rows, OpIn(e.rows[j].form) = OpIn(f) PROVE e.rows[j].ver < f.tag[3]
      <3>1. i = j
        BY <1>2, <2>5, <2>6 DEF OpsApart
      <3> QED
        BY <1>3, <2>5, <3>1
    <2> QED
      BY <2>1, <2>2, <2>3, <2>4, <2>5, <2>6 DEF Newly
  <1>7. Consistent(N)
    <2> SUFFICES ASSUME NEW f \in N, NEW g \in N, f.tag = g.tag PROVE f = g
      BY DEF Consistent
    <2>1. PICK i \in DOMAIN e.rows : f = d.rows[i].form
      BY <1>6
    <2>2. PICK j \in DOMAIN e.rows : g = d.rows[j].form
      BY <1>6
    <2>3. OpIn(e.rows[i].form) = OpIn(e.rows[j].form)
      <3>1. OpIn(f) = OpIn(g)
        BY DEF OpIn
      <3> QED
        BY <1>5, <2>1, <2>2, <3>1
    <2>4. i = j
      BY <1>2, <2>3 DEF OpsApart
    <2> QED
      BY <2>1, <2>2, <2>4
  <1>8. B = A \cup N
    OBVIOUS
  <1>9. Setting(L, B) /\ SpecialsTrue(B)
    <2> HIDE DEF N, B
    <2>1. Setting(L, A \cup N) /\ SpecialsTrue(A \cup N)
      BY <1>1, <1>6, <1>7, NewForms
    <2> QED
      BY <1>8, <2>1
  <1>10. \A f \in B \ A : f.tag[2] = c
    BY <1>6 DEF Newly
  <1>11. ASSUME NEW i \in DOMAIN d.rows PROVE RowOK(d.rows[i], L, B)
    <2>1. RowOK(e.rows[i], L, A) /\ d.rows[i].form \in B /\ i \in DOMAIN e.rows
      BY <1>1, <1>2 DEF RowForms
    <2>2. CASE Remade(i)
      BY <1>5, <2>1, <2>2 DEF RowOK
    <2>3. CASE Asked(i)
      BY <2>1, <2>3 DEF RowOK
    <2> QED
      BY <1>4, <2>1, <2>2, <2>3 DEF RowOK
  <1>12. NoGap(d)
    <2>1. ASSUME NEW i \in DOMAIN e.rows, e.rows[i].st = "in_sync" \/ d.rows[i].st = "in_sync"
          PROVE  d.rows[i] = e.rows[i]
      BY <1>4, <2>1
    <2> QED
      BY <1>1, <1>2, <2>1, GapKept
  <1>13. OpsApart(d) /\ Made(c, d, A)
    BY <1>1, <1>2, <1>5, CountsKept DEF Setting
  <1>14. Made(c, d, B)
    <2> SUFFICES ASSUME NEW f \in B, f.tag[2] = c /\ OpIn(f) \notin {Root, First}
                 PROVE  \E i \in DOMAIN d.rows : OpIn(d.rows[i].form) = OpIn(f) /\ f.tag[3] <= d.rows[i].ver
      BY DEF Made
    <2>1. CASE f \in A
      BY <1>13, <2>1 DEF Made
    <2>2. CASE f \in N
      <3>1. PICK i \in DOMAIN e.rows : Remade(i) /\ f = d.rows[i].form
        BY <1>6, <2>2
      <3>2. f.tag[3] = e.rows[i].ver + 1 /\ d.rows[i].ver = e.rows[i].ver + 1
        BY <3>1
      <3>3. f.tag[3] <= d.rows[i].ver
        BY <1>3, <3>2
      <3> QED
        BY <1>1, <3>1, <3>3
    <2> QED
      BY <2>1, <2>2
  <1>15. EngineOK(c, d, L, B)
    <2> HIDE DEF B
    <2> QED
      BY <1>11, <1>12, <1>13, <1>14, RowByRow
  <1> QED
    BY <1>9, <1>10, <1>15 DEF d

\* a record the application makes
LEMMA ChangeKeeps ==
    ASSUME NEW c \in Client, NEW L, NEW A, Setting(L, A), SpecialsTrue(A), NEW e \in Engine, EngineOK(c, e, L, A),
           NEW r \in Row, FindOp(e, OpIn(r.form)) = {}, OpIn(r.form) \notin {Root, First},
           r.form.tag[2] = c, r.form.tag[3] = 1, r.st = "pending_commit", r.ver = 1,
           r.form.special = LastSpecialTag(e), NEW d \in Engine, d.rows = Append(e.rows, r)
    PROVE  LET B == A \cup {r.form}
           IN  Setting(L, B) /\ SpecialsTrue(B) /\ EngineOK(c, d, L, B)
  <1> DEFINE N == {r.form}
             B == A \cup N
             n == Len(e.rows) + 1
  <1>1. /\ DOMAIN d.rows = 1..n /\ DOMAIN e.rows = 1..Len(e.rows) /\ Len(e.rows) \in Nat
        /\ \A i \in 1..n : d.rows[i] = IF i = n THEN r ELSE e.rows[i]
    BY EngineFields, OfAppend
  <1>2. \A i \in DOMAIN e.rows : OpIn(e.rows[i].form) # OpIn(r.form)
    BY DEF FindOp
  <1>3. \A f \in N : Newly(c, e, f)
    BY <1>2, RowFields DEF Newly
  <1>4. Consistent(N)
    BY DEF Consistent
  <1>5. Setting(L, B) /\ SpecialsTrue(B)
    <2> HIDE DEF N
    <2> QED
      BY <1>3, <1>4, NewForms
  <1>6. /\ \A i \in DOMAIN e.rows : RowOK(e.rows[i], L, A)
        /\ OpsApart(e) /\ NoGap(e) /\ Made(c, e, A)
    BY RowByRow
  <1>7. ASSUME NEW i \in DOMAIN d.rows PROVE RowOK(d.rows[i], L, B)
    <2>1. CASE i = n
      BY <1>1, <2>1 DEF RowOK
    <2>2. CASE i # n
      <3>1. d.rows[i] = e.rows[i] /\ RowOK(e.rows[i], L, A)
        BY <1>1, <1>6, <2>2
      <3> QED
        BY <3>1 DEF RowOK
    <2> QED
      BY <2>1, <2>2
  <1>8. \A i \in DOMAIN e.rows : i \in DOMAIN d.rows /\ d.rows[i] = e.rows[i]
    BY <1>1
  <1>9. NoGap(d)
    <2>1. ASSUME NEW i \in DOMAIN d.rows, d.rows[i].st = "in_sync" PROVE i \in DOMAIN e.rows /\ e.rows[i].st = "in_sync"
      BY <1>1, <2>1
    <2> QED
      BY <1>6, <1>8, <2>1, GapKept
  <1>10. OpsApart(d)
    <2> SUFFICES ASSUME NEW i \in DOMAIN d.rows, NEW j \in DOMAIN d.rows, OpIn(d.rows[i].form) = OpIn(d.rows[j].form)
                 PROVE  i = j
      BY DEF OpsApart
    <2>1. CASE i = n /\ j # n
      BY <1>1, <1>2, <2>1
    <2>2. CASE i # n /\ j = n
      BY <1>1, <1>2, <2>2
    <2>3. CASE i # n /\ j # n
      BY <1>1, <1>6, <2>3 DEF OpsApart
    <2> QED
      BY <2>1, <2>2, <2>3
  <1>11. Made(c, d, B)
    <2>1. Made(c, d, A)
      BY <1>6, <1>8 DEF Made
    <2>2. n \in DOMAIN d.rows /\ d.rows[n] = r /\ r.form.tag[3] <= r.ver
      BY <1>1
    <2> QED
      BY <2>1, <2>2 DEF Made
  <1>12. EngineOK(c, d, L, B)
    <2> HIDE DEF B
    <2> QED
      BY <1>7, <1>9, <1>10, <1>11, RowByRow
  <1> QED
    BY <1>5, <1>12

-----------------------------------------------------------------------------
(* The whole *)

Extends(L, M) == \A n \in DOMAIN L : n \in DOMAIN M /\ M[n] = L[n]

LEMMA BlockStays ==
    ASSUME NEW L \in Seq(Form), NEW M \in Seq(Form), Extends(L, M), NEW n \in DOMAIN L
    PROVE  n \in DOMAIN M /\ M[n] = L[n] /\ Block(M, n) = Block(L, n)
  <1>1. DOMAIN L = 1..Len(L) /\ Len(L) \in Nat
    BY SeqFacts
  <1>2. n = 1 \/ n - 1 \in DOMAIN L
    BY <1>1
  <1> QED
    BY <1>2 DEF Extends, Block

LEMMA GrowthKeeps ==
    ASSUME NEW L \in Seq(Form), NEW M \in Seq(Form), Extends(L, M)
    PROVE  /\ \A c, e, A : EngineOK(c, e, L, A) => EngineOK(c, e, M, A)
           /\ \A p : Truthful(p, L) => Truthful(p, M)
  <1>1. \A r : OnChain(r, L) => OnChain(r, M)
    BY BlockStays DEF OnChain
  <1>2. \A b : FromChain(b, L) => FromChain(b, M)
    BY BlockStays DEF FromChain
  <1> QED
    BY <1>1, <1>2 DEF EngineOK, Placed, Truthful

LEMMA HomeFacts ==
    ASSUME NEW c \in Client
    PROVE  HomeOf(c) \in Server /\ HomeOf(c) \in Replicas[c] /\ HomeOf(c) # NoServer
  BY SyncAssumption DEF HomeOf

LEMMA FormsHere ==
    ASSUME TypeInv
    PROVE  /\ AllForms \subseteq Form
           /\ \A s \in Server : Of(log[s]) \subseteq AllForms
           /\ \A c \in Client : /\ RowForms(eng[c]) \subseteq AllForms /\ Commits(c2s[c]) \subseteq AllForms
                                /\ Left(late[c]) \subseteq AllForms
  <1>1. \A s \in Server : Of(log[s]) \subseteq Form
    BY SeqFacts DEF TypeInv, TypeOK
  <1>2. ASSUME NEW c \in Client
        PROVE  RowForms(eng[c]) \subseteq Form /\ Commits(c2s[c]) \subseteq Form /\ Left(late[c]) \subseteq Form
    <2>1. /\ eng[c] \in Engine /\ Of(c2s[c]) \subseteq Request
          /\ Of(late[c]) \subseteq [server : Server, form : Form]
      BY StateFields, SeqFacts
    <2>2. RowForms(eng[c]) \subseteq Form
      BY <2>1, EngineFields, RowFields DEF RowForms
    <2>3. Commits(c2s[c]) \subseteq Form
      BY <2>1, RequestFields DEF Commits
    <2>4. Left(late[c]) \subseteq Form
      BY <2>1 DEF Left
    <2> QED
      BY <2>2, <2>3, <2>4
  <1> QED
    BY <1>1, <1>2 DEF AllForms

LEMMA FormsThere ==
    ASSUME TypeInv'
    PROVE  \A c \in Client : RowForms(eng'[c]) \subseteq AllForms'
  <1>1. ASSUME NEW c \in Client PROVE RowForms(eng'[c]) \subseteq Form
    <2>1. eng'[c] \in Engine
      BY DEF TypeInv, TypeOK
    <2> QED
      BY <2>1, EngineFields, RowFields DEF RowForms
  <1> QED
    BY <1>1 DEF AllForms

LEMMA HomeSetting ==
    ASSUME SyncInv, NEW c \in Client
    PROVE  Setting(log[HomeOf(c)], AllForms) /\ log[HomeOf(c)] \in Seq(Form)
  <1>1. HomeOf(c) \in Server
    BY HomeFacts
  <1>2. log[HomeOf(c)] \in Seq(Form) /\ Unique(log[HomeOf(c)])
    BY <1>1 DEF SyncInv, TypeInv, TypeOK, CommittedOnce, Unique
  <1> QED
    BY <1>1, <1>2, FormsHere DEF Setting, SyncInv

LEMMA FormsStep ==
    ASSUME NEW B, \A s \in Server : Of(log'[s]) \subseteq B,
           \A c \in Client : /\ RowForms(eng'[c]) \subseteq B /\ Commits(c2s'[c]) \subseteq B
                             /\ Left(late'[c]) \subseteq B
    PROVE  AllForms' \subseteq B
  BY DEF AllForms

\* fewer forms to be told apart
LEMMA Narrow ==
    ASSUME NEW c, NEW e, NEW L, NEW A, NEW B, EngineOK(c, e, L, A), B \subseteq A, RowForms(e) \subseteq B
    PROVE  EngineOK(c, e, L, B)
  BY DEF EngineOK, Made

\* A client whose storage a step leaves alone.
LEMMA ClientKept ==
    ASSUME SyncInv, TypeInv', NEW d \in Client, eng'[d].rows = eng[d].rows, NEW B, AllForms \subseteq B,
           AllForms' \subseteq B, \A f \in B \ AllForms : f.tag[2] # d, Extends(log[HomeOf(d)], log'[HomeOf(d)])
    PROVE  EngineOK(d, eng'[d], log'[HomeOf(d)], AllForms')
  <1> DEFINE L == log[HomeOf(d)]
             M == log'[HomeOf(d)]
  <1>1. EngineOK(d, eng[d], L, AllForms)
    BY DEF SyncInv
  <1>2. EngineOK(d, eng[d], L, B)
    BY <1>1 DEF EngineOK, Made
  <1>3. L \in Seq(Form) /\ M \in Seq(Form)
    BY HomeFacts DEF SyncInv, TypeInv, TypeOK
  <1>4. EngineOK(d, eng'[d], L, B)
    BY <1>2, SameRows
  <1>5. EngineOK(d, eng'[d], M, B)
    BY <1>3, <1>4, GrowthKeeps
  <1>6. RowForms(eng'[d]) \subseteq AllForms'
    BY FormsThere
  <1> QED
    BY <1>5, <1>6, Narrow

LEMMA Assemble ==
    ASSUME TypeInv', CommittedOnce', NEW B, Consistent(B), SpecialsTrue(B), AllForms' \subseteq B,
           \A d \in Client : /\ conn'[d] \in {HomeOf(d), NoServer} /\ eng'[d].owner \in {HomeOf(d), NoServer}
                             /\ conn'[d] = NoServer => s2c'[d] = <<>>,
           \A d \in Client : EngineOK(d, eng'[d], log'[HomeOf(d)], AllForms'),
           \A d \in Client : \A p \in Of(s2c'[d]) \cup Of(answer'[d]) : Truthful(p, log'[HomeOf(d)])
    PROVE  SyncInv'
  <1>1. Consistent(AllForms') /\ SpecialsTrue(AllForms')
    BY DEF Consistent, SpecialsTrue
  <1>2. \A d \in Client : AtHome(d)'
    BY DEF AtHome
  <1> QED
    BY <1>1, <1>2 DEF SyncInv

LEMMA CommitsJoined ==
    ASSUME NEW q \in Seq(Request), NEW o \in Seq(Request)
    PROVE  Commits(q \o o) \subseteq Commits(q) \cup Commits(o)
  <1>1. Of(q \o o) \subseteq Of(q) \cup Of(o)
    BY OfJoin
  <1> QED
    BY <1>1 DEF Commits

\* The engine of c is done with an event or a call, and has made the forms B has more.
LEMMA EngineStep ==
    ASSUME SyncInv, TypeInv', NEW c \in Client, NEW w \in Work, Engines(c, w),
           UNCHANGED <<log, conn, answer, late>>, NEW B,
           Setting(log[HomeOf(c)], B), SpecialsTrue(B), EngineOK(c, w.e, log[HomeOf(c)], B),
           AllForms \subseteq B, \A f \in B \ AllForms : f.tag[2] = c,
           Commits(w.out) \subseteq B, w.e.owner \in {HomeOf(c), NoServer},
           \A d \in Client : /\ conn[d] = NoServer => s2c'[d] = <<>>
                             /\ \A p \in Of(s2c'[d]) : Truthful(p, log[HomeOf(d)])
    PROVE  SyncInv'
  <1>0. TypeInv /\ CommittedOnce
    BY DEF SyncInv
  <1>1. /\ eng \in [Client -> Engine] /\ c2s \in [Client -> Seq(Request)]
        /\ \A d \in Client : c2s[d] \in Seq(Request)
    BY <1>0 DEF TypeInv, TypeOK
  <1>2. eng'[c] = w.e /\ \A d \in Client \ {c} : eng'[d] = eng[d]
    BY <1>1 DEF Engines
  <1>3. /\ \A d \in Client \ {c} : c2s'[d] = c2s[d]
        /\ c2s'[c] = c2s[c] \/ c2s'[c] = c2s[c] \o w.out
    BY <1>1 DEF Engines
  <1>4. w.out \in Seq(Request)
    BY WorkFields
  <1>5. ASSUME NEW d \in Client PROVE Commits(c2s'[d]) \subseteq B
    <2>1. Commits(c2s[d]) \subseteq B
      BY <1>0, FormsHere
    <2>2. CASE d = c /\ c2s'[c] = c2s[c] \o w.out
      <3>1. Commits(c2s[c] \o w.out) \subseteq Commits(c2s[c]) \cup Commits(w.out)
        BY <1>1, <1>4, CommitsJoined
      <3> QED
        BY <2>1, <2>2, <3>1
    <2> QED
      BY <1>3, <2>1, <2>2
  <1>6. ASSUME NEW d \in Client PROVE RowForms(eng'[d]) \subseteq B
    <2>1. RowForms(eng[d]) \subseteq B /\ RowForms(w.e) \subseteq B
      BY <1>0, FormsHere DEF EngineOK
    <2> QED
      BY <1>2, <2>1
  <1>7. AllForms' \subseteq B
    <2>1. \A s \in Server : Of(log'[s]) \subseteq B
      BY <1>0, FormsHere
    <2>2. \A d \in Client : Left(late'[d]) \subseteq B
      BY <1>0, FormsHere
    <2> QED
      BY <1>5, <1>6, <2>1, <2>2, FormsStep
  <1>8. ASSUME NEW d \in Client PROVE EngineOK(d, eng'[d], log'[HomeOf(d)], AllForms')
    <2>1. CASE d = c
      <3>1. EngineOK(c, eng'[c], log'[HomeOf(c)], B)
        BY <1>2
      <3> QED
        BY <1>7, <2>1, <3>1, FormsThere, Narrow
    <2>2. CASE d # c
      <3>1. Extends(log[HomeOf(d)], log'[HomeOf(d)])
        BY DEF Extends
      <3>2. eng'[d].rows = eng[d].rows
        BY <1>2, <2>2
      <3>3. \A f \in B \ AllForms : f.tag[2] # d
        BY <2>2
      <3> QED
        BY <1>7, <3>1, <3>2, <3>3, ClientKept
    <2> QED
      BY <2>1, <2>2
  <1>9. ASSUME NEW d \in Client
        PROVE  /\ conn'[d] \in {HomeOf(d), NoServer} /\ eng'[d].owner \in {HomeOf(d), NoServer}
               /\ conn'[d] = NoServer => s2c'[d] = <<>>
    <2>1. AtHome(d)
      BY DEF SyncInv
    <2> QED
      BY <1>2, <2>1 DEF AtHome
  <1>10. ASSUME NEW d \in Client, NEW p \in Of(s2c'[d]) \cup Of(answer'[d]) PROVE Truthful(p, log'[HomeOf(d)])
    BY DEF SyncInv
  <1>11. CommittedOnce'
    BY <1>0 DEF CommittedOnce
  <1>12. Consistent(B)
    BY DEF Setting
  <1> QED
    BY <1>7, <1>8, <1>9, <1>10, <1>11, <1>12, Assemble

LEMMA CommitsOfOne ==
    ASSUME NEW o \in Seq(Request), NEW f \in Form
    PROVE  Commits(Append(o, [type |-> "commit", form |-> f])) \subseteq Commits(o) \cup {f}
  <1> DEFINE q == [type |-> "commit", form |-> f]
  <1>1. q \in Request /\ q.form = f
    BY DEF Request
  <1> HIDE DEF q
  <1>2. Of(Append(o, q)) = Of(o) \cup {q}
    BY <1>1, OfAppend
  <1>3. Commits(Append(o, q)) \subseteq Commits(o) \cup {f}
    BY <1>1, <1>2 DEF Commits
  <1> QED
    BY <1>3 DEF q

LEMMA EventKeeps ==
    ASSUME SyncInv, TypeInv', NEW c \in Client, EventDone(c)
    PROVE  SyncInv'
  <1> DEFINE e == eng[c]
             p == Head(s2c[c])
             L == log[HomeOf(c)]
             A == AllForms
  <1>0. /\ TypeInv /\ s2c[c] \in Seq(Event) /\ s2c[c] # <<>> /\ e \in Engine /\ s2c \in [Client -> Seq(Event)]
        /\ Setting(L, A) /\ SpecialsTrue(A) /\ EngineOK(c, e, L, A)
    BY HomeSetting DEF SyncInv, EventDone, TypeInv, TypeOK
  <1>1. p \in Of(s2c[c]) /\ Truthful(p, L)
    <2>1. p \in Of(s2c[c])
      BY <1>0, OfTail
    <2> QED
      BY <2>1 DEF SyncInv
  <1>2. conn[c] = HomeOf(c) /\ e.owner \in {HomeOf(c), NoServer}
    BY <1>0 DEF SyncInv, AtHome
  <1>3. PICK w \in Work : Handled(c, e, p, conn[c], w) /\ Engines(c, w)
    BY DEF EventDone
  <1>4. PICK v \in Work : /\ w = v \/ w = TryCommitPending(c, v)
                          /\ Commits(v.out) = {}
                          /\ \/ RowsBy(e, p, v.e.rows) /\ v.e.owner \in {e.owner, conn[c]}
                             \/ e.owner # NoServer /\ e.owner # conn[c]
    BY <1>3 DEF Handled
  <1>5. RowsBy(e, p, v.e.rows) /\ v.e.owner \in {HomeOf(c), NoServer} /\ v.e \in Engine /\ v.out \in Seq(Request)
    BY <1>2, <1>4, WorkFields
  <1>6. EngineOK(c, v.e, L, A)
    BY <1>0, <1>1, <1>5, PlainKeeps
  <1>7. \E B : /\ Setting(L, B) /\ SpecialsTrue(B) /\ EngineOK(c, w.e, L, B)
               /\ A \subseteq B /\ \A f \in B \ A : f.tag[2] = c
               /\ Commits(w.out) \subseteq B /\ w.e.owner \in {HomeOf(c), NoServer}
    <2>1. CASE w = v
      BY <1>0, <1>4, <1>5, <1>6, <2>1
    <2>2. CASE w = TryCommitPending(c, v)
      <3> DEFINE B == A \cup RowForms(w.e)
      <3>1. /\ Setting(L, B) /\ SpecialsTrue(B) /\ EngineOK(c, w.e, L, B) /\ \A f \in B \ A : f.tag[2] = c
        BY <1>0, <1>6, <2>2, TryCommitKeeps
      <3>2. /\ w.e.owner = v.e.owner
            /\ \/ w.out = v.out
               \/ \E f \in RowForms(w.e) : w.out = Append(v.out, [type |-> "commit", form |-> f])
        <4>1. TryCommitPending(c, v).e.owner = v.e.owner
          BY TryCommitFacts
        <4>2. \/ TryCommitPending(c, v).out = v.out
              \/ \E f \in RowForms(TryCommitPending(c, v).e) :
                    TryCommitPending(c, v).out = Append(v.out, [type |-> "commit", form |-> f])
          BY TryCommitFacts
        <4> QED
          BY <2>2, <4>1, <4>2
      <3>3. Commits(w.out) \subseteq B
        <4>1. ASSUME NEW f \in RowForms(w.e), w.out = Append(v.out, [type |-> "commit", form |-> f])
              PROVE  Commits(w.out) \subseteq B
          <5>1. f \in B /\ f \in Form
            BY <3>1 DEF Setting
          <5> QED
            BY <1>4, <1>5, <4>1, <5>1, CommitsOfOne
        <4> QED
          BY <1>4, <3>2, <4>1
      <3> HIDE DEF B
      <3>4. A \subseteq B
        BY DEF B
      <3> QED
        BY <1>5, <3>1, <3>2, <3>3, <3>4
    <2> QED
      BY <1>4, <2>1, <2>2
  <1>8. PICK q \in Seq(Event) :
            /\ s2c' = [s2c EXCEPT ![c] = q]
            /\ \A y \in Of(q) :
                  \/ y \in Of(s2c[c])
                  \/ y.type = "records" /\ p.type = "records" /\ Of(y.blocks) \subseteq Of(p.blocks)
    BY DEF EventDone
  <1>9. ASSUME NEW d \in Client
        PROVE  /\ conn[d] = NoServer => s2c'[d] = <<>>
               /\ \A y \in Of(s2c'[d]) : Truthful(y, log[HomeOf(d)])
    <2>1. AtHome(d) /\ \A y \in Of(s2c[d]) : Truthful(y, log[HomeOf(d)])
      BY DEF SyncInv
    <2>2. CASE d # c
      BY <1>0, <1>8, <2>1, <2>2 DEF AtHome
    <2>3. CASE d = c
      <3>1. s2c'[c] = q /\ conn[c] # NoServer
        BY <1>0, <1>2, <1>8, HomeFacts
      <3>2. ASSUME NEW y \in Of(q) PROVE Truthful(y, L)
        <4>1. CASE y \in Of(s2c[c])
          BY <2>1, <2>3, <4>1
        <4>2. CASE y.type = "records" /\ p.type = "records" /\ Of(y.blocks) \subseteq Of(p.blocks)
          <5>1. BlocksIn(y) = Of(y.blocks) /\ BlocksIn(p) = Of(p.blocks)
            BY <4>2 DEF BlocksIn
          <5> QED
            BY <1>1, <4>2, <5>1 DEF Truthful
        <4> QED
          BY <1>8, <4>1, <4>2
      <3> QED
        BY <2>3, <3>1, <3>2
    <2> QED
      BY <2>2, <2>3
  <1>10. UNCHANGED <<log, conn, answer, late>>
    BY DEF EventDone
  <1> HIDE DEF e, p, L
  <1> QED
    BY <1>3, <1>7, <1>9, <1>10, EngineStep DEF L

LEMMA ChangeStep ==
    ASSUME SyncInv, TypeInv', NEW c \in Client, NEW op \in Op, SyncChange(c, op)
    PROVE  SyncInv'
  <1> DEFINE e == eng[c]
             r == ChangeRow(c, e, op)
             w == ChangeWork(c, e, op)
             L == log[HomeOf(c)]
             B == AllForms \cup {r.form}
  <1>0. TypeInv /\ e \in Engine /\ Setting(L, AllForms) /\ SpecialsTrue(AllForms) /\ EngineOK(c, e, L, AllForms)
    BY HomeSetting DEF SyncInv, TypeInv, TypeOK
  <1>1. Changed(c, op, r, w)
    BY <1>0, SyncChangeFacts
  <1> HIDE DEF w, r
  <1>2. /\ FindOp(e, op) = {} /\ op \notin {Root, First}
        /\ w \in Work /\ Engines(c, w)
        /\ UNCHANGED <<log, conn, listening, answer, s2c, late, faults>>
    BY <1>1 DEF Changed
  <1>3. /\ r \in Row /\ OpIn(r.form) = op /\ r.form.tag = <<op, c, 1>> /\ r.st = "pending_commit" /\ r.ver = 1
        /\ r.form.special = LastSpecialTag(e) /\ w.e.rows = Append(e.rows, r) /\ w.e.owner = e.owner
    BY <1>1 DEF Changed
  <1>4. w.out = <<>> \/ w.out = <<[type |-> "commit", form |-> r.form]>>
    BY <1>1 DEF Changed
  <1>5. Commits(w.out) \subseteq {r.form}
    <2>1. r.form \in Form /\ <<>> \in Seq(Request)
      BY <1>3, RowFields, EmptySeq
    <2>2. <<[type |-> "commit", form |-> r.form]>> = Append(<<>>, [type |-> "commit", form |-> r.form])
      OBVIOUS
    <2> QED
      BY <1>4, <2>1, <2>2, CommitsOfOne, NoCommits
  <1>6. w.e \in Engine /\ r.form.tag[2] = c /\ r.form.tag[3] = 1
    BY <1>2, <1>3, WorkFields
  <1>7. Setting(L, B) /\ SpecialsTrue(B) /\ EngineOK(c, w.e, L, B)
    BY ZenonT(60), <1>0, <1>2, <1>3, <1>6, ChangeKeeps
  <1>8. \A f \in B \ AllForms : f.tag[2] = c
    BY <1>6
  <1>9. w.e.owner \in {HomeOf(c), NoServer}
    BY <1>3 DEF SyncInv, AtHome
  <1>10. \A d \in Client : /\ conn[d] = NoServer => s2c'[d] = <<>>
                           /\ \A p \in Of(s2c'[d]) : Truthful(p, log[HomeOf(d)])
    BY <1>2 DEF SyncInv, AtHome
  <1>11. AllForms \subseteq B /\ Commits(w.out) \subseteq B
    BY <1>5
  <1> HIDE DEF B, L, e
  <1> QED
    BY <1>2, <1>7, <1>8, <1>9, <1>10, <1>11, EngineStep DEF L

\* A step that makes no new form and leaves the storages of the clients alone.
LEMMA ServerStep ==
    ASSUME SyncInv, TypeInv', CommittedOnce',
           \A d \in Client : eng'[d].rows = eng[d].rows /\ eng'[d].owner = eng[d].owner,
           \A s \in Server : Of(log'[s]) \subseteq AllForms /\ Extends(log[s], log'[s]),
           \A d \in Client : Commits(c2s'[d]) \subseteq AllForms /\ Left(late'[d]) \subseteq AllForms,
           \A d \in Client : conn'[d] \in {HomeOf(d), NoServer} /\ (conn'[d] = NoServer => s2c'[d] = <<>>),
           \A d \in Client : \A p \in Of(s2c'[d]) \cup Of(answer'[d]) :
               Truthful(p, log[HomeOf(d)]) \/ Truthful(p, log'[HomeOf(d)])
    PROVE  SyncInv'
  <1>0. TypeInv
    BY DEF SyncInv
  <1>1. AllForms' \subseteq AllForms
    <2>1. \A d \in Client : RowForms(eng'[d]) \subseteq AllForms
      BY <1>0, FormsHere DEF RowForms
    <2> QED
      BY <2>1, FormsStep
  <1>2. ASSUME NEW d \in Client PROVE EngineOK(d, eng'[d], log'[HomeOf(d)], AllForms')
    BY <1>1, HomeFacts, ClientKept
  <1>3. ASSUME NEW d \in Client
        PROVE  /\ conn'[d] \in {HomeOf(d), NoServer} /\ eng'[d].owner \in {HomeOf(d), NoServer}
               /\ conn'[d] = NoServer => s2c'[d] = <<>>
    BY DEF SyncInv, AtHome
  <1>4. ASSUME NEW d \in Client, NEW p \in Of(s2c'[d]) \cup Of(answer'[d]) PROVE Truthful(p, log'[HomeOf(d)])
    <2>1. /\ log[HomeOf(d)] \in Seq(Form) /\ log'[HomeOf(d)] \in Seq(Form)
          /\ Extends(log[HomeOf(d)], log'[HomeOf(d)])
      BY <1>0, HomeFacts DEF TypeInv, TypeOK
    <2> QED
      BY <2>1, GrowthKeeps
  <1>5. Consistent(AllForms) /\ SpecialsTrue(AllForms)
    BY DEF SyncInv
  <1> QED
    BY <1>1, <1>2, <1>3, <1>4, <1>5, Assemble

LEMMA ConnectStep ==
    ASSUME HomesKept, SyncInv, TypeInv', NEW c \in Client, NEW s \in Server, Connect(c, s)
    PROVE  SyncInv'
  <1>0. TypeInv /\ CommittedOnce
    BY DEF SyncInv
  <1>1. /\ conn' = [conn EXCEPT ![c] = s] /\ s2c' = [s2c EXCEPT ![c] = <<[type |-> "connected"]>>]
        /\ UNCHANGED <<log, listening, eng, c2s, answer, late, faults>> /\ s = HomeOf(c)
    BY DEF Connect, HomesKept
  <1>2. conn \in [Client -> Server \cup {NoServer}] /\ s2c \in [Client -> Seq(Event)]
    BY <1>0 DEF TypeInv, TypeOK
  <1>3. ASSUME NEW p \in Of(<<[type |-> "connected"]>>) PROVE Truthful(p, log[HomeOf(c)])
    <2>1. p.type = "connected"
      BY DEF Of
    <2>2. BlocksIn(p) = {}
      BY <2>1 DEF BlocksIn
    <2> QED
      BY <2>1, <2>2 DEF Truthful
  <1>4. ASSUME NEW d \in Client
        PROVE  /\ conn'[d] \in {HomeOf(d), NoServer} /\ (conn'[d] = NoServer => s2c'[d] = <<>>)
               /\ \A p \in Of(s2c'[d]) \cup Of(answer'[d]) : Truthful(p, log[HomeOf(d)])
    <2>1. AtHome(d) /\ \A p \in Of(s2c[d]) \cup Of(answer[d]) : Truthful(p, log[HomeOf(d)])
      BY DEF SyncInv
    <2>2. CASE d # c
      BY <1>1, <1>2, <2>1, <2>2 DEF AtHome
    <2>3. CASE d = c
      <3>1. conn'[c] = HomeOf(c) /\ s2c'[c] = <<[type |-> "connected"]>> /\ answer'[c] = answer[c]
        BY <1>1, <1>2
      <3> QED
        BY <1>3, <2>1, <2>3, <3>1, HomeFacts
    <2> QED
      BY <2>2, <2>3
  <1>5. \A t \in Server : Of(log'[t]) \subseteq AllForms /\ Extends(log[t], log'[t])
    BY <1>0, <1>1, FormsHere DEF Extends
  <1>6. \A d \in Client : Commits(c2s'[d]) \subseteq AllForms /\ Left(late'[d]) \subseteq AllForms
    BY <1>0, <1>1, FormsHere
  <1>7. CommittedOnce'
    BY <1>0, <1>1 DEF CommittedOnce
  <1> QED
    BY <1>1, <1>4, <1>5, <1>6, <1>7, ServerStep

LEMMA LostStep ==
    ASSUME SyncInv, TypeInv', NEW c \in Client, Disconnect(c) \/ Restart(c)
    PROVE  SyncInv'
  <1>0. TypeInv /\ CommittedOnce
    BY DEF SyncInv
  <1>1. /\ Lost(c)
        /\ \A d \in Client : eng'[d].rows = eng[d].rows /\ eng'[d].owner = eng[d].owner
    BY <1>0, LostEngines
  <1>2. /\ conn' = [conn EXCEPT ![c] = NoServer]
        /\ c2s' = [c2s EXCEPT ![c] = <<>>] /\ answer' = [answer EXCEPT ![c] = <<>>]
        /\ s2c' = [s2c EXCEPT ![c] = <<>>] /\ log' = log
        /\ late' = [late EXCEPT ![c] = late[c] \o LeftBy(c)]
        /\ LeftBy(c) \in Seq([server : Server, form : Form]) /\ Left(LeftBy(c)) \subseteq Commits(c2s[c])
    BY <1>0, <1>1, LostFacts
  <1>3. /\ conn \in [Client -> Server \cup {NoServer}] /\ s2c \in [Client -> Seq(Event)]
        /\ answer \in [Client -> Seq(Event)] /\ c2s \in [Client -> Seq(Request)]
        /\ late \in [Client -> Seq([server : Server, form : Form])]
    BY <1>0 DEF TypeInv, TypeOK
  <1>4. ASSUME NEW d \in Client
        PROVE  /\ conn'[d] \in {HomeOf(d), NoServer} /\ (conn'[d] = NoServer => s2c'[d] = <<>>)
               /\ \A p \in Of(s2c'[d]) \cup Of(answer'[d]) : Truthful(p, log[HomeOf(d)])
    <2>1. AtHome(d) /\ \A p \in Of(s2c[d]) \cup Of(answer[d]) : Truthful(p, log[HomeOf(d)])
      BY DEF SyncInv
    <2>2. CASE d # c
      BY <1>2, <1>3, <2>1, <2>2 DEF AtHome
    <2>3. CASE d = c
      <3>1. conn'[c] = NoServer /\ s2c'[c] = <<>> /\ answer'[c] = <<>>
        BY <1>2, <1>3
      <3> QED
        BY <2>3, <3>1, OfEmpty
    <2> QED
      BY <2>2, <2>3
  <1>5. \A t \in Server : Of(log'[t]) \subseteq AllForms /\ Extends(log[t], log'[t])
    BY <1>0, <1>2, FormsHere DEF Extends
  <1>6. ASSUME NEW d \in Client PROVE Commits(c2s'[d]) \subseteq AllForms /\ Left(late'[d]) \subseteq AllForms
    <2>1. Commits(c2s[d]) \subseteq AllForms /\ Left(late[d]) \subseteq AllForms /\ Commits(c2s[c]) \subseteq AllForms
      BY <1>0, FormsHere
    <2>2. CASE d # c
      BY <1>2, <1>3, <2>1, <2>2
    <2>3. CASE d = c
      <3>1. c2s'[c] = <<>> /\ late'[c] = late[c] \o LeftBy(c)
        BY <1>2, <1>3
      <3>2. Of(late[c] \o LeftBy(c)) \subseteq Of(late[c]) \cup Of(LeftBy(c))
        BY <1>2, <1>3, OfJoin
      <3>3. Left(late'[c]) \subseteq AllForms
        BY <1>2, <2>1, <2>3, <3>1, <3>2 DEF Left
      <3> QED
        BY <2>3, <3>1, <3>3, NoCommits
    <2> QED
      BY <2>2, <2>3
  <1>7. CommittedOnce'
    BY <1>0, <1>2 DEF CommittedOnce
  <1> QED
    BY <1>1, <1>4, <1>5, <1>6, <1>7, ServerStep

LEMMA InvalidOnlyRefused ==
    ASSUME NEW L \in Seq(Form), NEW f \in Form, f.special # NoTag => f.special[1] \in SpecialOps,
           Evaluate(L, f) = "invalid_record"
    PROVE  f.tag[1] \in RefusedOps
  <1> SUFFICES ASSUME OpIn(f) \notin RefusedOps PROVE FALSE
    BY DEF OpIn
  <1> DEFINE I == {i \in DOMAIN L : L[i].tag = f.special}
             referred == Position(L, f.special)
  <1>1. Rules(L, f) = "invalid_record"
    BY DEF Evaluate
  <1>2. SpecialRule(L, f) = "invalid_record"
    BY <1>1 DEF Rules, SeenRule, AddRule, HeadRule
  <1>3. referred # 0 /\ ~IsSpecial(L[referred])
    BY <1>2 DEF SpecialRule
  <1>4. DOMAIN L = 1..Len(L) /\ Len(L) \in Nat /\ L \in [1..Len(L) -> Form]
    BY SeqFacts
  <1>5. referred \in I
    <2>1. I \subseteq 1..Len(L)
      BY <1>4
    <2>2. IsFiniteSet(I) /\ I \in SUBSET Nat
      <3>1. IsFiniteSet(1..Len(L))
        BY <1>4, FS_Interval
      <3>2. IsFiniteSet(I)
        BY <2>1, <3>1, FS_Subset
      <3> QED
        BY <1>4, <3>2
    <2> HIDE DEF I
    <2>3. Max({0} \cup I) \in {0} \cup I
      BY <2>2, MaxWithZero
    <2>4. referred = Max({0} \cup I)
      BY DEF Position, I
    <2> QED
      BY <1>3, <2>3, <2>4
  <1>6. L[referred].tag = f.special /\ L[referred] \in Form
    BY <1>4, <1>5
  <1>7. L[referred].tag \in FormTag
    BY <1>6 DEF Form
  <1>8. f.special # NoTag
    BY <1>6, <1>7 DEF FormTag, NoTag
  <1> QED
    BY <1>3, <1>6, <1>8 DEF IsSpecial, OpIn

LEMMA GrownFacts ==
    ASSUME NEW L \in Seq(Form), NEW f \in Form
    PROVE  LET M == Append(L, f)
           IN  /\ Extends(L, M) /\ Of(M) = Of(L) \cup {f} /\ FromChain(Block(M, Len(L) + 1), M)
  <1> DEFINE M == Append(L, f)
             n == Len(L) + 1
  <1>1. /\ DOMAIN M = 1..n /\ DOMAIN L = 1..Len(L) /\ Len(L) \in Nat /\ Of(M) = Of(L) \cup {f}
        /\ \A i \in 1..n : M[i] = IF i = n THEN f ELSE L[i]
    BY OfAppend
  <1> HIDE DEF M
  <1>2. Extends(L, M)
    BY <1>1 DEF Extends
  <1>3. FromChain(Block(M, n), M)
    BY <1>1 DEF FromChain, Block
  <1> QED
    BY <1>1, <1>2, <1>3 DEF M

\* A record enters a chain and those who listen there hear of it.
LEMMA EnterStep ==
    ASSUME SyncInv, TypeInv', CommittedOnce', NEW s \in Server, NEW f \in AllForms, NEW listens, Enter(s, f, listens),
           conn' = conn, eng' = eng,
           \A d \in Client : Commits(c2s'[d]) \subseteq AllForms /\ Left(late'[d]) \subseteq AllForms,
           \A d \in Client : \A p \in Of(answer'[d]) :
               Truthful(p, log[HomeOf(d)]) \/ Truthful(p, log'[HomeOf(d)])
    PROVE  SyncInv'
  <1> DEFINE b == Block(Append(log[s], f), Len(log[s]) + 1)
  <1>0. TypeInv /\ f \in Form /\ log \in [Server -> Seq(Form)]
    BY FormsHere DEF SyncInv, TypeInv, TypeOK
  <1>1. /\ log' = [log EXCEPT ![s] = Append(log[s], f)] /\ log'[s] = Append(log[s], f)
        /\ \A d \in Client : /\ conn[d] # s => s2c'[d] = s2c[d]
                             /\ Of(s2c'[d]) \subseteq Of(s2c[d]) \cup {Notice(s, f)}
    BY <1>0, EnterFacts
  <1>2. Extends(log[s], log'[s]) /\ Of(log'[s]) = Of(log[s]) \cup {f} /\ FromChain(b, log'[s])
    BY <1>0, <1>1, GrownFacts
  <1>3. ASSUME NEW t \in Server PROVE Of(log'[t]) \subseteq AllForms /\ Extends(log[t], log'[t])
    <2>1. Of(log[t]) \subseteq AllForms
      BY <1>0, FormsHere
    <2>2. CASE t = s
      BY <1>2, <2>1, <2>2
    <2>3. CASE t # s
      <3>1. log'[t] = log[t]
        BY <1>0, <1>1, <2>3
      <3> QED
        BY <2>1, <3>1 DEF Extends
    <2> QED
      BY <2>2, <2>3
  <1>4. Truthful(Notice(s, f), log'[s])
    <2>1. Notice(s, f).type = "record" /\ BlocksIn(Notice(s, f)) = {b}
      BY DEF Notice, BlocksIn
    <2> QED
      BY <1>2, <2>1 DEF Truthful
  <1>5. ASSUME NEW d \in Client
        PROVE  /\ conn'[d] \in {HomeOf(d), NoServer} /\ (conn'[d] = NoServer => s2c'[d] = <<>>)
               /\ \A p \in Of(s2c'[d]) \cup Of(answer'[d]) :
                     Truthful(p, log[HomeOf(d)]) \/ Truthful(p, log'[HomeOf(d)])
    <2>1. AtHome(d) /\ \A p \in Of(s2c[d]) : Truthful(p, log[HomeOf(d)])
      BY DEF SyncInv
    <2>2. conn[d] = s => HomeOf(d) = s
      BY <2>1, SyncAssumption DEF AtHome
    <2>3. conn[d] = NoServer => s2c'[d] = <<>>
      BY <1>1, <2>1, SyncAssumption DEF AtHome
    <2>4. ASSUME NEW p \in Of(s2c'[d]) PROVE Truthful(p, log[HomeOf(d)]) \/ Truthful(p, log'[HomeOf(d)])
      <3>1. CASE conn[d] # s
        BY <1>1, <2>1, <3>1
      <3>2. CASE conn[d] = s
        BY <1>1, <1>4, <2>1, <2>2, <3>2
      <3> QED
        BY <3>1, <3>2
    <2> QED
      BY <2>1, <2>3, <2>4 DEF AtHome
  <1> HIDE DEF b
  <1> QED
    BY <1>3, <1>5, ServerStep

\* A session answers: the chain stays.
LEMMA AnswerStep ==
    ASSUME SyncInv, TypeInv', CommittedOnce', UNCHANGED <<log, conn, eng, late>>,
           \A d \in Client : Commits(c2s'[d]) \subseteq AllForms,
           \A d \in Client : conn[d] = NoServer => s2c'[d] = <<>>,
           \A d \in Client : \A p \in Of(s2c'[d]) \cup Of(answer'[d]) : Truthful(p, log[HomeOf(d)])
    PROVE  SyncInv'
  <1>0. TypeInv
    BY DEF SyncInv
  <1>1. \A t \in Server : Of(log'[t]) \subseteq AllForms /\ Extends(log[t], log'[t])
    BY <1>0, FormsHere DEF Extends
  <1>2. \A d \in Client : Left(late'[d]) \subseteq AllForms
    BY <1>0, FormsHere
  <1>3. \A d \in Client : conn'[d] \in {HomeOf(d), NoServer} /\ (conn'[d] = NoServer => s2c'[d] = <<>>)
    BY DEF SyncInv, AtHome
  <1> QED
    BY <1>1, <1>2, <1>3, ServerStep

\* what a session takes and what it owes then
LEMMA ServedParts ==
    ASSUME SyncInv, NEW c \in Client, NEW t, Asks(c, t), NEW a \in Event, Served(c, a)
    PROVE  /\ conn[c] = HomeOf(c)
           /\ \A d \in Client : Commits(c2s'[d]) \subseteq AllForms
           /\ \A d \in Client : \A p \in Of(answer'[d]) : (d = c /\ p = a) \/ Truthful(p, log[HomeOf(d)])
           /\ t = "commit" => Head(c2s[c]).form \in AllForms
  <1>0. TypeInv /\ c2s \in [Client -> Seq(Request)] /\ answer \in [Client -> Seq(Event)]
    BY DEF SyncInv, TypeInv, TypeOK
  <1>1. /\ conn[c] \in Server /\ Head(c2s[c]) \in Of(c2s[c]) /\ Head(c2s[c]).type = t
        /\ Of(Tail(c2s[c])) \subseteq Of(c2s[c])
    BY <1>0, AskedFacts
  <1>2. /\ c2s' = [c2s EXCEPT ![c] = Tail(c2s[c])] /\ answer' = [answer EXCEPT ![c] = <<a>>]
        /\ Of(<<a>>) = {a}
    BY <1>0, ServedTypes
  <1>3. conn[c] = HomeOf(c)
    BY <1>1, SyncAssumption DEF SyncInv, AtHome
  <1>4. ASSUME NEW d \in Client PROVE Commits(c2s'[d]) \subseteq AllForms
    <2>1. Commits(c2s[d]) \subseteq AllForms
      BY <1>0, FormsHere
    <2>2. CASE d = c
      <3>1. Of(c2s'[c]) \subseteq Of(c2s[c])
        BY <1>0, <1>1, <1>2
      <3>2. Commits(c2s'[c]) \subseteq Commits(c2s[c])
        BY <3>1 DEF Commits
      <3> QED
        BY <2>1, <2>2, <3>2
    <2>3. CASE d # c
      BY <1>0, <1>2, <2>1, <2>3
    <2> QED
      BY <2>2, <2>3
  <1>5. ASSUME NEW d \in Client, NEW p \in Of(answer'[d]) PROVE (d = c /\ p = a) \/ Truthful(p, log[HomeOf(d)])
    <2>1. CASE d = c
      <3>1. answer'[c] = <<a>>
        BY <1>0, <1>2
      <3> QED
        BY <1>2, <2>1, <3>1
    <2>2. CASE d # c
      <3>1. answer'[d] = answer[d]
        BY <1>0, <1>2, <2>2
      <3> QED
        BY <3>1 DEF SyncInv
    <2> QED
      BY <2>1, <2>2
  <1>6. t = "commit" => Head(c2s[c]).form \in AllForms
    <2>1. t = "commit" => Head(c2s[c]).form \in Commits(c2s[c])
      BY <1>1 DEF Commits
    <2> QED
      BY <1>0, <2>1, FormsHere
  <1> QED
    BY <1>3, <1>4, <1>5, <1>6

LEMMA ServeStep ==
    ASSUME SyncInv, TypeInv', CommittedOnce', NEW c \in Client, NEW t, Asks(c, t), NEW a \in Event, Served(c, a),
           UNCHANGED <<log, conn, eng, s2c, late>>, Truthful(a, log[conn[c]])
    PROVE  SyncInv'
  <1>1. /\ conn[c] = HomeOf(c)
        /\ \A d \in Client : Commits(c2s'[d]) \subseteq AllForms
        /\ \A d \in Client : \A p \in Of(answer'[d]) : (d = c /\ p = a) \/ Truthful(p, log[HomeOf(d)])
    BY ServedParts
  <1>2. \A d \in Client : /\ conn[d] = NoServer => s2c'[d] = <<>>
                          /\ \A p \in Of(s2c'[d]) : Truthful(p, log[HomeOf(d)])
    BY DEF SyncInv, AtHome
  <1> QED
    BY <1>1, <1>2, AnswerStep

LEMMA ServeAttachStep ==
    ASSUME SyncInv, TypeInv', CommittedOnce', NEW c \in Client, ServeAttach(c)
    PROVE  SyncInv'
  <1> DEFINE a == [type |-> "sequence", max |-> Len(log[conn[c]])]
  <1>1. Asks(c, "attach") /\ Served(c, a) /\ UNCHANGED <<log, conn, eng, s2c, late>>
    BY DEF ServeAttach
  <1>2. a \in Event
    <2>1. Len(log[conn[c]]) \in Nat
      BY <1>1, AskedFacts, LenProperties DEF SyncInv
    <2> QED
      BY <2>1 DEF Event
  <1>3. a.type = "sequence" /\ BlocksIn(a) = {}
    BY DEF BlocksIn
  <1> HIDE DEF a
  <1>4. Truthful(a, log[conn[c]])
    BY <1>3 DEF Truthful
  <1> QED
    BY <1>1, <1>2, <1>4, ServeStep

LEMMA ServeFetchStep ==
    ASSUME SyncInv, TypeInv', CommittedOnce', NEW c \in Client, ServeFetch(c)
    PROVE  SyncInv'
  <1> DEFINE a == FetchAnswer(log[conn[c]], Head(c2s[c]).start)
  <1>0. TypeInv
    BY DEF SyncInv
  <1>1. /\ a \in Event /\ Served(c, a) /\ Asks(c, "fetch")
        /\ UNCHANGED <<log, conn, eng, s2c, late>>
        /\ \A b \in BlocksIn(a) : b.seq \in DOMAIN log[conn[c]] /\ b = Block(log[conn[c]], b.seq)
        /\ a.type = "records"
    BY <1>0, ServeFetchFacts
  <1> HIDE DEF a
  <1>2. Truthful(a, log[conn[c]])
    BY <1>1 DEF Truthful, FromChain
  <1> QED
    BY <1>1, <1>2, ServeStep

LEMMA ServeBusyStep ==
    ASSUME SyncInv, TypeInv', CommittedOnce', NEW c \in Client, ServeBusy(c)
    PROVE  SyncInv'
  <1> DEFINE a == [type |-> "refused", tag |-> Head(c2s[c]).form.tag, why |-> "syncing"]
  <1>0. TypeInv
    BY DEF SyncInv
  <1>1. /\ a \in Event /\ Served(c, a) /\ Asks(c, "commit") /\ BlocksIn(a) = {} /\ a.why = "syncing"
        /\ UNCHANGED <<log, conn, eng, s2c, late>>
    BY <1>0, ServeBusyFacts
  <1> HIDE DEF a
  <1>2. Truthful(a, log[conn[c]])
    BY <1>1 DEF Truthful
  <1> QED
    BY <1>1, <1>2, ServeStep

LEMMA ServeCommitStep ==
    ASSUME SyncInv, TypeInv', CommittedOnce', NEW c \in Client, ServeCommit(c)
    PROVE  SyncInv'
  <1> DEFINE s == conn[c]
             f == Head(c2s[c]).form
             verdict == Evaluate(log[s], f)
             told == [type |-> "committed", block |-> Block(Append(log[s], f), Len(log[s]) + 1)]
             refused == [type |-> "refused", tag |-> f.tag, why |-> verdict]
  <1>0. TypeInv /\ SpecialsTrue(AllForms) /\ log \in [Server -> Seq(Form)]
    BY DEF SyncInv, TypeInv, TypeOK
  <1>1. Asks(c, "commit") /\ f \in Form /\ s \in Server /\ UNCHANGED <<conn, eng, late, faults>>
    BY <1>0, ServeCommitFacts
  <1>2. \/ /\ verdict = "accepted" /\ Enter(s, f, [listening EXCEPT ![c] = TRUE])
           /\ told \in Event /\ Served(c, told) /\ BlocksIn(told) = {told.block} /\ told.type = "committed"
        \/ /\ verdict # "accepted" /\ UNCHANGED <<log, s2c>>
           /\ refused \in Event /\ Served(c, refused) /\ BlocksIn(refused) = {}
    BY <1>0, ServeCommitFacts
  <1>3. told.block = Block(Append(log[s], f), Len(log[s]) + 1) /\ refused.tag = f.tag /\ refused.why = verdict
    OBVIOUS
  <1> HIDE DEF told, refused
  <1>4. CASE /\ Enter(s, f, [listening EXCEPT ![c] = TRUE])
             /\ told \in Event /\ Served(c, told) /\ BlocksIn(told) = {told.block} /\ told.type = "committed"
    <2>1. /\ s = HomeOf(c) /\ f \in AllForms
          /\ \A d \in Client : Commits(c2s'[d]) \subseteq AllForms
          /\ \A d \in Client : \A p \in Of(answer'[d]) : (d = c /\ p = told) \/ Truthful(p, log[HomeOf(d)])
      BY <1>1, <1>4, ServedParts
    <2>2. log'[s] = Append(log[s], f)
      BY <1>0, <1>1, <1>4, EnterFacts
    <2>3. FromChain(told.block, log'[s])
      BY <1>0, <1>1, <1>3, <2>2, GrownFacts
    <2>4. Truthful(told, log'[s])
      BY <1>4, <2>3 DEF Truthful
    <2>5. \A d \in Client : Left(late'[d]) \subseteq AllForms
      BY <1>0, <1>1, FormsHere
    <2> HIDE DEF f, s
    <2> QED
      BY <1>1, <1>4, <2>1, <2>4, <2>5, EnterStep
  <1>5. CASE /\ UNCHANGED <<log, s2c>>
             /\ refused \in Event /\ Served(c, refused) /\ BlocksIn(refused) = {}
    <2>1. f \in AllForms
      BY <1>1, <1>5, ServedParts
    <2>2. verdict = "invalid_record" => f.tag[1] \in RefusedOps
      BY <1>0, <1>1, <2>1, InvalidOnlyRefused DEF SpecialsTrue
    <2>3. Truthful(refused, log[s])
      BY <1>3, <1>5, <2>2 DEF Truthful
    <2> QED
      BY <1>1, <1>5, <2>3, ServeStep
  <1> QED
    BY <1>2, <1>4, <1>5

LEMMA QueueStep ==
    ASSUME SyncInv, TypeInv', CommittedOnce', NEW c \in Client, Answer(c)
    PROVE  SyncInv'
  <1>0. TypeInv /\ s2c \in [Client -> Seq(Event)] /\ answer \in [Client -> Seq(Event)]
    BY DEF SyncInv, TypeInv, TypeOK
  <1>1. /\ answer[c] # <<>> /\ Head(answer[c]) \in Of(answer[c])
        /\ answer' = [answer EXCEPT ![c] = <<>>]
        /\ UNCHANGED <<log, conn, listening, eng, c2s, late, faults>>
    BY <1>0, AnswerFacts
  <1>2. PICK a \in Event :
            /\ s2c' = [s2c EXCEPT ![c] = Append(s2c[c], a)]
            /\ a.type = Head(answer[c]).type /\ BlocksIn(a) = BlocksIn(Head(answer[c]))
            /\ a.type = "refused" => a = Head(answer[c])
    BY <1>0, AnswerFacts
  <1>3. Truthful(a, log[HomeOf(c)])
    <2>1. Truthful(Head(answer[c]), log[HomeOf(c)])
      BY <1>1 DEF SyncInv
    <2> QED
      BY <1>2, <2>1 DEF Truthful
  <1>4. conn[c] # NoServer
    BY <1>0, <1>1 DEF TypeInv, Owed
  <1>5. ASSUME NEW d \in Client
        PROVE  /\ conn[d] = NoServer => s2c'[d] = <<>>
               /\ \A p \in Of(s2c'[d]) \cup Of(answer'[d]) : Truthful(p, log[HomeOf(d)])
    <2>1. AtHome(d) /\ \A p \in Of(s2c[d]) \cup Of(answer[d]) : Truthful(p, log[HomeOf(d)])
      BY DEF SyncInv
    <2>2. CASE d # c
      BY <1>0, <1>1, <1>2, <2>1, <2>2 DEF AtHome
    <2>3. CASE d = c
      <3>1. answer'[c] = <<>> /\ s2c'[c] = Append(s2c[c], a)
        BY <1>0, <1>1, <1>2
      <3>2. Of(Append(s2c[c], a)) = Of(s2c[c]) \cup {a}
        BY <1>0, OfAppend
      <3> QED
        BY <1>3, <1>4, <2>1, <2>3, <3>1, <3>2, OfEmpty
    <2> QED
      BY <2>2, <2>3
  <1>6. \A d \in Client : Commits(c2s'[d]) \subseteq AllForms
    BY <1>0, <1>1, FormsHere
  <1> QED
    BY <1>1, <1>5, <1>6, AnswerStep

LEMMA LateStep ==
    ASSUME SyncInv, TypeInv', CommittedOnce', NEW c \in Client, ServeLate(c) \/ DropLate(c)
    PROVE  SyncInv'
  <1>0. TypeInv
    BY DEF SyncInv
  <1>1. \A d \in Client : Left(late[d]) \subseteq AllForms /\ Commits(c2s[d]) \subseteq AllForms
    BY <1>0, FormsHere
  <1>2. \A d \in Client : /\ conn[d] \in {HomeOf(d), NoServer} /\ (conn[d] = NoServer => s2c[d] = <<>>)
                          /\ \A p \in Of(s2c[d]) \cup Of(answer[d]) : Truthful(p, log[HomeOf(d)])
    BY DEF SyncInv, AtHome
  <1>3. \A t \in Server : Of(log[t]) \subseteq AllForms /\ Extends(log[t], log[t])
    BY <1>0, FormsHere DEF Extends
  <1>4. CASE ServeLate(c)
    <2> DEFINE p == Head(late[c])
    <2>1. /\ p.server \in Server /\ p.form \in Form /\ p \in Of(late[c])
          /\ Of(late'[c]) \subseteq Of(late[c]) /\ \A d \in Client \ {c} : late'[d] = late[d]
          /\ UNCHANGED <<conn, listening, eng, c2s, answer, faults>>
      BY <1>0, <1>4, ServeLateFacts
    <2>2. Enter(p.server, p.form, listening) \/ UNCHANGED <<log, s2c>>
      BY <1>0, <1>4, ServeLateFacts
    <2> HIDE DEF p
    <2>3. \A d \in Client : Commits(c2s'[d]) \subseteq AllForms /\ Left(late'[d]) \subseteq AllForms
      <3>1. Left(late'[c]) \subseteq Left(late[c])
        BY <2>1 DEF Left
      <3> QED
        BY <1>1, <2>1, <3>1
    <2>4. CASE Enter(p.server, p.form, listening)
      <3>1. p.form \in AllForms
        <4>1. p.form \in Left(late[c])
          BY <2>1 DEF Left
        <4> QED
          BY <1>1, <4>1
      <3> QED
        BY <1>2, <2>1, <2>3, <2>4, <3>1, EnterStep
    <2>5. CASE UNCHANGED <<log, s2c>>
      BY <1>2, <1>3, <2>1, <2>3, <2>5, ServerStep
    <2> QED
      BY <2>2, <2>4, <2>5
  <1>5. CASE DropLate(c)
    <2>1. /\ late'[c] = <<>> /\ \A d \in Client \ {c} : late'[d] = late[d]
          /\ UNCHANGED <<log, conn, listening, eng, c2s, answer, s2c, faults>>
      BY <1>0, <1>5, DropLateFacts
    <2>2. \A d \in Client : Commits(c2s'[d]) \subseteq AllForms /\ Left(late'[d]) \subseteq AllForms
      <3>1. Left(late'[c]) = {}
        BY <2>1, OfEmpty DEF Left
      <3> QED
        BY <1>1, <2>1, <3>1
    <2> QED
      BY <1>2, <1>3, <2>1, <2>2, ServerStep
  <1> QED
    BY <1>4, <1>5

LEMMA SpreadStep ==
    ASSUME SyncInv, TypeInv', CommittedOnce', NEW s \in Server, NEW t \in Server, Spread(s, t)
    PROVE  SyncInv'
  <1>0. TypeInv
    BY DEF SyncInv
  <1>1. PICK i \in DOMAIN log[s] : /\ Enter(t, log[s][i], listening)
                                   /\ UNCHANGED <<conn, listening, eng, c2s, answer, late, faults>>
    BY <1>0, SpreadFacts
  <1>2. log[s][i] \in AllForms
    <2>1. log[s][i] \in Of(log[s])
      BY DEF Of
    <2> QED
      BY <1>0, <2>1, FormsHere
  <1>3. \A d \in Client : Commits(c2s'[d]) \subseteq AllForms /\ Left(late'[d]) \subseteq AllForms
    BY <1>0, <1>1, FormsHere
  <1>4. \A d \in Client : \A p \in Of(answer'[d]) : Truthful(p, log[HomeOf(d)])
    BY <1>1 DEF SyncInv
  <1> QED
    BY <1>1, <1>2, <1>3, <1>4, EnterStep

LEMMA SyncStep ==
    ASSUME HomesKept, SyncInv, [Next]_vars
    PROVE  SyncInv'
  <1>0. TypeInv /\ CommittedOnce
    BY DEF SyncInv
  <1>1. TypeInv' /\ CommittedOnce'
    BY <1>0, StepTypes, OnceStep
  <1>2. CASE UNCHANGED vars
    BY <1>2 DEF vars, SyncInv, TypeInv, TypeOK, Owed, CommittedOnce, AllForms, AtHome
  <1>3. ASSUME NEW c \in Client, \/ \E op \in Op : SyncChange(c, op)
                                 \/ \E s \in Server : Connect(c, s)
                                 \/ Disconnect(c) \/ Restart(c)
                                 \/ Events(c) \/ Serves(c) \/ ServeBusy(c)
                                 \/ ServeLate(c) \/ DropLate(c)
        PROVE  SyncInv'
    <2>1. ASSUME NEW op \in Op, SyncChange(c, op) PROVE SyncInv'
      BY <1>1, <2>1, ChangeStep
    <2>2. ASSUME NEW s \in Server, Connect(c, s) PROVE SyncInv'
      BY <1>1, <2>2, ConnectStep
    <2>3. CASE Disconnect(c) \/ Restart(c)
      BY <1>1, <2>3, LostStep
    <2>4. CASE Events(c)
      BY <1>0, <1>1, <2>4, EventsDone, EventKeeps
    <2>5. CASE Serves(c)
      BY <1>1, <2>5, ServeAttachStep, ServeFetchStep, ServeCommitStep, QueueStep DEF Serves
    <2>6. CASE ServeBusy(c)
      BY <1>1, <2>6, ServeBusyStep
    <2>7. CASE ServeLate(c) \/ DropLate(c)
      BY <1>1, <2>7, LateStep
    <2> QED
      BY <1>3, <2>1, <2>2, <2>3, <2>4, <2>5, <2>6, <2>7
  <1>4. ASSUME NEW s \in Server, NEW t \in Server, Spread(s, t) PROVE SyncInv'
    BY <1>1, <1>4, SpreadStep
  <1> QED
    BY <1>2, <1>3, <1>4 DEF Next

\* The founding records, and a client that has them or nothing.
LEMMA FoundedEngine ==
    ASSUME NEW c, NEW e \in Engine, e.rows = FoundedRows \/ e.rows = <<>>
    PROVE  EngineOK(c, e, Founded, {RootForm, FirstForm})
  <1> DEFINE A == {RootForm, FirstForm}
  <1>1. /\ Founded \in Seq(Form) /\ DOMAIN Founded = {1, 2}
        /\ Founded[1] = RootForm /\ Founded[2] = FirstForm
        /\ OpIn(RootForm) = Root /\ OpIn(FirstForm) = First /\ Root # First
    BY FoundedFacts
  <1>2. Made(c, e, A)
    BY <1>1 DEF Made
  <1>3. CASE e.rows = <<>>
    <2>1. DOMAIN e.rows = {}
      BY <1>3
    <2>2. OpsApart(e) /\ NoGap(e)
      BY <2>1 DEF OpsApart, NoGap, RowsIn
    <2> QED
      BY <1>2, <2>1, <2>2, RowByRow
  <1>4. CASE e.rows = FoundedRows
    <2>1. DOMAIN e.rows = {1, 2}
      BY <1>4, FoundedRowFacts
    <2>2. ASSUME NEW n \in {1, 2}
          PROVE  /\ e.rows[n].form = Founded[n] /\ e.rows[n].st = "in_sync"
                 /\ e.rows[n].id = IdOf(Block(Founded, n)) /\ e.rows[n].id.seq = n
      <3>1. e.rows[n] = [form |-> Founded[n], st |-> "in_sync", ver |-> 1, id |-> IdOf(Block(Founded, n))]
        BY <1>4, FoundedRowFacts
      <3> QED
        BY <3>1 DEF IdOf, Block
    <2>3. ASSUME NEW n \in DOMAIN e.rows PROVE RowOK(e.rows[n], Founded, A)
      BY <1>1, <2>1, <2>2 DEF RowOK, OnChain
    <2>4. OpsApart(e)
      BY <1>1, <2>1, <2>2 DEF OpsApart
    <2>5. NoGap(e)
      <3>1. ASSUME NEW i \in {1, 2}, NEW k \in 1..e.rows[i].id.seq PROVE FindSeq(e, k) # {}
        <4>1. k \in {1, 2}
          BY <2>2
        <4>2. k \in FindSeq(e, k)
          BY <2>1, <2>2, <4>1, InSyncRows
        <4> QED
          BY <4>2
      <3> QED
        BY <2>1, <3>1 DEF NoGap, RowsIn
    <2> QED
      BY <1>2, <2>3, <2>4, <2>5, RowByRow
  <1> QED
    BY <1>3, <1>4

LEMMA SyncInit ==
    ASSUME Init
    PROVE  SyncInv
  <1> DEFINE A == {RootForm, FirstForm}
  <1>0. TypeInv /\ CommittedOnce
    BY InitTypes, OnceInit
  <1>1. \A s \in Server : log[s] = Founded
    BY DEF Init
  <1>2. ASSUME NEW c \in Client
        PROVE  /\ eng[c].rows = FoundedRows \/ eng[c].rows = <<>>
               /\ eng[c].owner \in {HomeOf(c), NoServer} /\ conn[c] \in {HomeOf(c), NoServer}
               /\ c2s[c] = <<>> /\ answer[c] = <<>> /\ s2c[c] = <<>> /\ late[c] = <<>> /\ eng[c] \in Engine
    <2>1. eng[c] = [rows |-> IF c \in Joined THEN FoundedRows ELSE <<>>,
                    serverSeq |-> IF c \in Joined THEN Len(Founded) ELSE 0,
                    owner |-> IF c \in Joined THEN HomeOf(c) ELSE NoServer,
                    pushing |-> FALSE, rejected |-> {}, fork |-> FALSE]
      BY DEF Init
    <2>2. eng[c].rows = IF c \in Joined THEN FoundedRows ELSE <<>>
      BY <2>1
    <2>3. eng[c].owner = IF c \in Joined THEN HomeOf(c) ELSE NoServer
      BY <2>1
    <2>4. /\ conn[c] \in {HomeOf(c), NoServer}
          /\ c2s[c] = <<>> /\ answer[c] = <<>> /\ s2c[c] = <<>> /\ late[c] = <<>>
      BY DEF Init
    <2>5. eng[c] \in Engine
      BY <1>0, StateFields
    <2> QED
      BY <2>2, <2>3, <2>4, <2>5
  <1>3. ASSUME NEW c \in Client PROVE EngineOK(c, eng[c], log[HomeOf(c)], A)
    <2>1. log[HomeOf(c)] = Founded
      BY <1>1, HomeFacts
    <2> QED
      BY <1>2, <2>1, FoundedEngine
  <1>4. Of(Founded) = A
    BY FoundedFacts DEF Of
  <1>5. AllForms \subseteq A
    <2>1. \A c \in Client : Commits(c2s[c]) = {} /\ Left(late[c]) = {}
      BY <1>2, NoCommits, OfEmpty DEF Left
    <2>2. \A c \in Client : RowForms(eng[c]) \subseteq A
      BY <1>3 DEF EngineOK
    <2> QED
      BY <1>1, <1>4, <2>1, <2>2 DEF AllForms
  <1>6. Consistent(A)
    <2>1. RootForm.tag # FirstForm.tag
      BY FoundedFacts DEF OpIn
    <2> QED
      BY <2>1 DEF Consistent
  <1>7. SpecialsTrue(A)
    <2>1. RootForm.special = NoTag /\ FirstForm.special = RootForm.tag /\ RootForm.tag[1] = Root
      BY FoundedFacts DEF RootForm, OpIn
    <2> QED
      BY <2>1, SyncAssumption DEF SpecialsTrue
  <1>8. Consistent(AllForms) /\ SpecialsTrue(AllForms)
    BY <1>5, <1>6, <1>7 DEF Consistent, SpecialsTrue
  <1>9. ASSUME NEW c \in Client PROVE EngineOK(c, eng[c], log[HomeOf(c)], AllForms)
    BY <1>0, <1>3, <1>5, FormsHere, Narrow
  <1>10. ASSUME NEW c \in Client PROVE AtHome(c)
    BY <1>2 DEF AtHome
  <1>11. ASSUME NEW c \in Client, NEW p \in Of(s2c[c]) \cup Of(answer[c]) PROVE Truthful(p, log[HomeOf(c)])
    BY <1>2, OfEmpty
  <1> QED
    BY <1>0, <1>8, <1>9, <1>10, <1>11 DEF SyncInv

LEMMA ConfirmedFollows ==
    ASSUME SyncInv
    PROVE  ConfirmedAsServed
  <1> SUFFICES ASSUME NEW c \in Client
               PROVE  \E s \in Replicas[c] :
                          /\ eng[c].owner \in {s, NoServer}
                          /\ \A i \in RowsIn(eng[c], {"in_sync"}) :
                                LET r == eng[c].rows[i]
                                IN  /\ r.id.seq \in DOMAIN log[s] /\ r.form = log[s][r.id.seq]
                                    /\ FindSeq(eng[c], r.id.seq) = {i}
    BY DEF ConfirmedAsServed
  <1> DEFINE e == eng[c]
             L == log[HomeOf(c)]
  <1>1. e.owner \in {HomeOf(c), NoServer} /\ OpsApart(e) /\ Placed(e, L)
    BY DEF SyncInv, AtHome, EngineOK
  <1> HIDE DEF e, L
  <1>2. ASSUME NEW i \in RowsIn(e, {"in_sync"})
        PROVE  /\ e.rows[i].id.seq \in DOMAIN L /\ e.rows[i].form = L[e.rows[i].id.seq]
               /\ FindSeq(e, e.rows[i].id.seq) = {i}
    <2>1. \A j \in RowsIn(e, {"in_sync"}) : e.rows[j].id.seq \in DOMAIN L /\ e.rows[j].form = L[e.rows[j].id.seq]
      BY <1>1, InSyncRows DEF Placed, OnChain
    <2>2. ASSUME NEW j \in FindSeq(e, e.rows[i].id.seq) PROVE j = i
      <3>1. j \in RowsIn(e, {"in_sync"}) /\ e.rows[j].id.seq = e.rows[i].id.seq
        BY InSyncRows
      <3>2. e.rows[j].form = e.rows[i].form
        BY <2>1, <3>1
      <3> QED
        BY <1>1, <3>1, <3>2, InSyncRows DEF OpsApart
    <2>3. i \in FindSeq(e, e.rows[i].id.seq)
      BY InSyncRows
    <2> QED
      BY <2>1, <2>2, <2>3
  <1> QED
    BY <1>1, <1>2, HomeFacts DEF e, L

\* A client that keeps to its replica shows as in sync the records of that replica's chain, each
\* at its place and none twice, in every mode and whatever is lost, late, repeated, rebuilt or
\* replicated meanwhile (SyncEngine.ConfirmedAsServed; check_chain_block, adopt_committed).
THEOREM ShownAsServed == HomesKept => (Spec => []ConfirmedAsServed)
  <1>1. HomesKept /\ Init => HomesKept /\ SyncInv
    BY SyncInit
  <1>2. HomesKept /\ SyncInv /\ [Next]_vars => HomesKept' /\ SyncInv'
    BY SyncStep DEF HomesKept
  <1>3. SyncInv => ConfirmedAsServed
    BY ConfirmedFollows
  <1> QED
    BY <1>1, <1>2, <1>3, PTL DEF Spec

LEMMA DroppedFollows ==
    ASSUME SyncInv, AskClients = {}
    PROVE  DroppedOnlyIfRefused
  <1>1. \A c \in Client : NotDropped(eng[c])
    BY DEF SyncInv, EngineOK
  <1> QED
    BY <1>1 DEF NotDropped, DroppedOnlyIfRefused

\* Where no client asks its user about conflicts, a record is given up only if the server
\* refused it for good: no answer that is late or lost, no rebuilding and no notification that
\* overtakes an answer makes a client set a good record invalid (SyncEngine.DroppedOnlyIfRefused).
THEOREM NothingGivenUp == HomesKept /\ AskClients = {} => (Spec => []DroppedOnlyIfRefused)
  <1> DEFINE Kept == HomesKept /\ AskClients = {}
  <1>1. Kept /\ Init => Kept /\ SyncInv
    BY SyncInit
  <1>2. Kept /\ SyncInv /\ [Next]_vars => Kept' /\ SyncInv'
    BY SyncStep DEF HomesKept
  <1>3. Kept /\ SyncInv => DroppedOnlyIfRefused
    BY DroppedFollows
  <1> HIDE DEF Kept
  <1>4. Kept => (Spec => []DroppedOnlyIfRefused)
    BY <1>1, <1>2, <1>3, PTL DEF Spec
  <1> QED
    BY <1>4 DEF Kept

-----------------------------------------------------------------------------
(* Strict mode: the one server's chain is a chain *)

\* what the strict rules accept saw the head of the chain
LEMMA HeadSeen ==
    ASSUME Strict, NEW L \in Seq(Form), NEW f \in Form, Evaluate(L, f) = "accepted", Linked(L)
    PROVE  Linked(Append(L, f))
  <1> DEFINE M == Append(L, f)
             n == Len(L) + 1
  <1>1. Rules(L, f) = "accepted"
    BY DEF Evaluate
  <1>2. f.seen = HeadOf(L)
    <2>1. HeadRule(L, f) = "accepted"
      BY <1>1 DEF Rules, SeenRule, AddRule, Strict
    <2> QED
      BY <2>1 DEF HeadRule
  <1>3. /\ DOMAIN M = 1..n /\ DOMAIN L = 1..Len(L) /\ Len(L) \in Nat /\ M \in Seq(Form)
        /\ \A i \in 1..n : M[i] = IF i = n THEN f ELSE L[i]
    BY OfAppend
  <1>4. Extends(L, M)
    BY GrownFacts
  <1> HIDE DEF M
  <1>5. ASSUME NEW i \in DOMAIN M PROVE M[i].seen = IF i = 1 THEN NoBlock ELSE IdOf(Block(M, i - 1))
    <2>1. i # 1 => i - 1 \in DOMAIN L
      BY <1>3
    <2>2. i # 1 => Block(M, i - 1) = Block(L, i - 1)
      BY <1>3, <1>4, <2>1, BlockStays
    <2>3. CASE i # n
      <3>1. i \in DOMAIN L /\ M[i] = L[i]
        BY <1>3, <2>3
      <3> QED
        BY <2>2, <3>1 DEF Linked
    <2>4. CASE i = n /\ L = <<>>
      <3>1. Len(L) = 0
        BY <2>4, EmptySeq
      <3> QED
        BY <1>2, <1>3, <2>4, <3>1 DEF HeadOf
    <2>5. CASE i = n /\ L # <<>>
      <3>1. Len(L) # 0
        BY <2>5, EmptySeq
      <3>2. M[i] = f /\ i # 1 /\ i - 1 = Len(L)
        BY <1>3, <2>5, <3>1
      <3>3. f.seen = IdOf(Block(L, Len(L)))
        BY <1>2, <2>5 DEF HeadOf
      <3> QED
        BY <2>2, <3>2, <3>3
    <2> QED
      BY <2>3, <2>4, <2>5
  <1>6. Linked(M)
    BY <1>5 DEF Linked
  <1> QED
    BY <1>6 DEF M

\* No block of a linked chain looks like a fork to a client whose rows are of that chain.
LEMMA NoForkSeen ==
    ASSUME NEW e \in Engine, NEW L \in Seq(Form), Placed(e, L), Linked(L), NEW b, FromChain(b, L)
    PROVE  ~ForkSeen(e, b.form)
  <1> SUFFICES ASSUME Strict, NEW i \in FindSeq(e, b.form.seen.seq), e.rows[i].id # b.form.seen
               PROVE  FALSE
    BY DEF ForkSeen
  <1>1. b.seq \in DOMAIN L /\ b.form = L[b.seq]
    BY DEF FromChain, Block
  <1>2. DOMAIN L = 1..Len(L) /\ Len(L) \in Nat
    BY SeqFacts
  <1>3. /\ i \in DOMAIN e.rows /\ e.rows[i].st = "in_sync" /\ e.rows[i].id.seq = b.form.seen.seq
    BY InSyncRows
  <1>4. e.rows[i].id.seq \in DOMAIN L /\ e.rows[i].id = IdOf(Block(L, e.rows[i].id.seq))
    BY <1>3, InSyncRows DEF Placed, OnChain
  <1>5. CASE b.seq = 1
    <2>1. b.form.seen = NoBlock
      BY <1>1, <1>5 DEF Linked
    <2> QED
      BY <1>2, <1>3, <1>4, <2>1 DEF NoBlock
  <1>6. CASE b.seq # 1
    <2>1. b.form.seen = IdOf(Block(L, b.seq - 1))
      BY <1>1, <1>6 DEF Linked
    <2>2. b.form.seen.seq = b.seq - 1
      BY <2>1 DEF IdOf, Block
    <2> QED
      BY <1>3, <1>4, <2>1, <2>2
  <1> QED
    BY <1>5, <1>6

\* a strict storage has one server
StrictIsLone == Strict => \E s \in Server : Server = {s}

TrustInv ==
    /\ StrictIsLone /\ TypeInv /\ HonestServerTrusted
    /\ Strict => HomesKept /\ SyncInv /\ \A s \in Server : Linked(log[s])

LEMMA LoneHomes ==
    ASSUME Strict, StrictIsLone
    PROVE  HomesKept
  <1> SUFFICES ASSUME NEW c \in Client PROVE Replicas[c] = {HomeOf(c)}
    BY DEF HomesKept
  <1>1. PICK s \in Server : Server = {s}
    BY DEF StrictIsLone
  <1>2. Replicas[c] # {} /\ Replicas[c] \subseteq {s}
    BY <1>1, SyncAssumption
  <1> QED
    BY <1>2, HomeFacts

LEMMA LinkStep ==
    ASSUME TypeInv, Strict, StrictIsLone, \A s \in Server : Linked(log[s]), [Next]_vars
    PROVE  \A s \in Server : Linked(log'[s])
  <1>0. log \in [Server -> Seq(Form)]
    BY DEF TypeInv, TypeOK
  <1>1. ASSUME log' = log PROVE \A s \in Server : Linked(log'[s])
    BY <1>1
  <1>2. ASSUME NEW s \in Server, NEW f \in Form, NEW listens, Evaluate(log[s], f) = "accepted", Enter(s, f, listens)
        PROVE  \A t \in Server : Linked(log'[t])
    <2>1. log' = [log EXCEPT ![s] = Append(log[s], f)]
      BY <1>2, EnterFacts
    <2>2. Linked(Append(log[s], f))
      BY <1>0, <1>2, HeadSeen
    <2> QED
      BY <1>0, <2>1, <2>2
  <1>3. CASE UNCHANGED vars
    BY <1>1, <1>3 DEF vars
  <1>4. ASSUME NEW c \in Client, \/ \E op \in Op : SyncChange(c, op)
                                 \/ \E s \in Server : Connect(c, s)
                                 \/ Disconnect(c) \/ Restart(c)
                                 \/ Events(c) \/ ServeAttach(c) \/ ServeFetch(c) \/ Answer(c) \/ ServeBusy(c)
                                 \/ DropLate(c)
        PROVE  log' = log
    BY <1>4 DEF SyncChange, Connect, Disconnect, Restart, Lost, Events, OnConnected, OnSequence, OnRecordsBlock,
                OnRecordsEnd, OnCommitted, OnRefused, OnRecord, ServeAttach, ServeFetch, Answer, ServeBusy, DropLate
  <1>5. ASSUME NEW c \in Client, ServeCommit(c) PROVE \A s \in Server : Linked(log'[s])
    <2> DEFINE s == conn[c]
               f == Head(c2s[c]).form
    <2>1. s \in Server /\ f \in Form
      BY <1>5, ServeCommitFacts
    <2>2. \/ UNCHANGED <<log, s2c>>
          \/ Evaluate(log[s], f) = "accepted" /\ Enter(s, f, [listening EXCEPT ![c] = TRUE])
      BY <1>5, ServeCommitFacts
    <2> HIDE DEF s, f
    <2> QED
      BY <1>1, <1>2, <2>1, <2>2
  <1>6. ASSUME NEW c \in Client, ServeLate(c) PROVE \A s \in Server : Linked(log'[s])
    <2> DEFINE s == Head(late[c]).server
               f == Head(late[c]).form
    <2>1. s \in Server /\ f \in Form
      BY <1>6, ServeLateFacts
    <2>2. \/ UNCHANGED <<log, s2c>>
          \/ Evaluate(log[s], f) = "accepted" /\ Enter(s, f, listening)
      BY <1>6, ServeLateFacts
    <2> HIDE DEF s, f
    <2> QED
      BY <1>1, <1>2, <2>1, <2>2
  <1>7. ASSUME NEW s \in Server, NEW t \in Server, Spread(s, t) PROVE FALSE
    <2>1. s = t
      BY DEF StrictIsLone
    <2> QED
      BY <1>7, <2>1, SpreadFacts
  <1> QED
    BY <1>1, <1>3, <1>4, <1>5, <1>6, <1>7 DEF Next, Serves

LEMMA TrustStep ==
    ASSUME TrustInv, [Next]_vars
    PROVE  HonestServerTrusted'
  <1>0. TypeInv /\ eng \in [Client -> Engine] /\ \A d \in Client : eng[d].fork = FALSE
    BY EngineFields DEF TrustInv, TypeInv, TypeOK, HonestServerTrusted
  <1> SUFFICES ASSUME NEW d \in Client PROVE ~eng'[d].fork
    BY DEF HonestServerTrusted
  <1>1. ASSUME eng' = eng PROVE ~eng'[d].fork
    BY <1>0, <1>1
  <1>2. ASSUME NEW c \in Client, NEW w \in Work, Engines(c, w), w.e.fork = FALSE PROVE ~eng'[d].fork
    <2>1. eng' = [eng EXCEPT ![c] = w.e]
      BY <1>2 DEF Engines
    <2> QED
      BY <1>0, <1>2, <2>1
  <1>3. ASSUME NEW c \in Client, Events(c) PROVE ~eng'[d].fork
    <2> DEFINE e == eng[c]
               p == Head(s2c[c])
    <2>1. s2c[c] # <<>> /\ \E w \in Work : Handled(c, e, p, conn[c], w) /\ Engines(c, w)
      BY <1>0, <1>3, EventsDone DEF EventDone
    <2>2. PICK w \in Work : Handled(c, e, p, conn[c], w) /\ Engines(c, w)
      BY <2>1
    <2>3. PICK v \in Work : (w = v \/ w = TryCommitPending(c, v)) /\ ForkBy(e, p, v.e.fork)
      BY <2>2 DEF Handled
    <2>4. w.e.fork = v.e.fork
      BY <2>3, TryCommitFacts
    <2>5. ASSUME NEW b \in BlocksIn(p) PROVE ~ForkSeen(e, b.form)
      <3>1. CASE ~Strict
        BY <3>1 DEF ForkSeen
      <3>2. CASE Strict
        <4> DEFINE L == log[HomeOf(c)]
        <4>1. SyncInv /\ Linked(L) /\ L \in Seq(Form)
          BY <1>0, <3>2, HomeFacts DEF TrustInv, TypeInv, TypeOK
        <4>2. p \in Of(s2c[c])
          BY <1>0, <2>1, OfTail DEF TypeInv, TypeOK
        <4>3. Truthful(p, L) /\ Placed(e, L) /\ e \in Engine
          BY <1>0, <4>1, <4>2 DEF SyncInv, EngineOK
        <4>4. FromChain(b, L)
          BY <4>3 DEF Truthful
        <4> HIDE DEF L
        <4> QED
          BY <4>1, <4>3, <4>4, NoForkSeen
      <3> QED
        BY <3>1, <3>2
    <2>6. v.e.fork = FALSE
      <3>1. e.fork = FALSE
        BY <1>0
      <3> QED
        BY <2>3, <2>5, <3>1 DEF ForkBy
    <2> QED
      BY <1>2, <2>2, <2>4, <2>6
  <1>4. ASSUME NEW c \in Client, NEW op \in Op, SyncChange(c, op) PROVE ~eng'[d].fork
    <2>1. PICK w \in Work : Engines(c, w) /\ w.e.fork = eng[c].fork
      BY <1>0, <1>4, SyncChangeFacts DEF Changed
    <2> QED
      BY <1>0, <1>2, <2>1
  <1>5. ASSUME NEW c \in Client, Disconnect(c) \/ Restart(c) PROVE ~eng'[d].fork
    BY <1>0, <1>5, LostEngines
  <1>6. ASSUME NEW c \in Client, \/ \E s \in Server : Connect(c, s)
                                 \/ Serves(c) \/ ServeBusy(c) \/ ServeLate(c) \/ DropLate(c)
        PROVE  eng' = eng
    BY <1>6 DEF Connect, Serves, ServeAttach, ServeFetch, ServeCommit, Answer, ServeBusy, ServeLate, DropLate
  <1>7. ASSUME NEW s \in Server, NEW t \in Server, Spread(s, t) PROVE eng' = eng
    BY <1>7 DEF Spread
  <1>8. CASE UNCHANGED vars
    BY <1>1, <1>8 DEF vars
  <1> QED
    BY <1>1, <1>3, <1>4, <1>5, <1>6, <1>7, <1>8 DEF Next

LEMMA TrustKept ==
    ASSUME TrustInv, [Next]_vars
    PROVE  TrustInv'
  <1>1. TypeInv' /\ HonestServerTrusted'
    BY StepTypes, TrustStep DEF TrustInv
  <1>2. ASSUME Strict PROVE SyncInv' /\ \A s \in Server : Linked(log'[s])
    BY <1>2, SyncStep, LinkStep DEF TrustInv
  <1>3. StrictIsLone /\ (Strict => HomesKept)
    BY DEF TrustInv
  <1>4. StrictIsLone' = StrictIsLone /\ HomesKept' = HomesKept /\ Strict' = Strict
    BY DEF StrictIsLone, HomesKept, Strict
  <1> QED
    BY <1>1, <1>2, <1>3, <1>4 DEF TrustInv

LEMMA TrustStart ==
    ASSUME StrictIsLone, Init
    PROVE  TrustInv
  <1>1. TypeInv /\ SyncInv
    BY InitTypes, SyncInit
  <1>2. HonestServerTrusted
    BY DEF HonestServerTrusted, Init
  <1>3. Linked(Founded)
    BY FoundedFacts DEF Linked, RootForm
  <1>4. \A s \in Server : Linked(log[s])
    BY <1>3 DEF Init
  <1> QED
    BY <1>1, <1>2, <1>4, LoneHomes DEF TrustInv

\* On an honest server no client ever stops committing for a fork that is not there: in strict
\* mode every record of the chain names the block before it, and that is the block every client
\* shows at that place (SyncEngine.HonestServerTrusted; check_fork).
THEOREM NoFalseFork == StrictIsLone => (Spec => []HonestServerTrusted)
  <1>1. StrictIsLone /\ Init => TrustInv
    BY TrustStart
  <1>2. TrustInv /\ [Next]_vars => TrustInv'
    BY TrustKept
  <1>3. TrustInv => HonestServerTrusted
    BY DEF TrustInv
  <1> QED
    BY <1>1, <1>2, <1>3, PTL DEF Spec

LEMMA PrefixFollows ==
    ASSUME TrustInv
    PROVE  ChainPrefix
  <1> SUFFICES ASSUME Strict, NEW c \in Client
               PROVE  LET n == LastBlock(eng[c], {"in_sync"}).seq
                      IN  /\ \A s \in Server : n <= Len(log[s])
                          /\ \A k \in 1..n : \E i \in FindSeq(eng[c], k) :
                                 \A s \in Server : eng[c].rows[i].id = IdOf(Block(log[s], k))
    BY DEF ChainPrefix
  <1> DEFINE e == eng[c]
             L == log[HomeOf(c)]
             n == LastBlock(e, {"in_sync"}).seq
  <1>1. SyncInv /\ \A s \in Server : s = HomeOf(c)
    BY HomeFacts DEF TrustInv, StrictIsLone
  <1>2. e \in Engine /\ Placed(e, L) /\ NoGap(e) /\ L \in Seq(Form) /\ e.rows \in Seq(Row)
    BY <1>1, HomeSetting, EngineFields DEF SyncInv, EngineOK, TypeInv, TypeOK
  <1>3. DOMAIN L = 1..Len(L) /\ Len(L) \in Nat
    BY <1>2, SeqFacts
  <1> HIDE DEF e, L
  <1>4. \/ LastBlock(e, {"in_sync"}) = NoBlock
        \/ \E i \in RowsIn(e, {"in_sync"}) : LastBlock(e, {"in_sync"}) = e.rows[i].id
    BY <1>2, LastBlockFacts
  <1>5. n = 0 \/ \E i \in RowsIn(e, {"in_sync"}) : n = e.rows[i].id.seq
    BY <1>4 DEF NoBlock
  <1> HIDE DEF n
  <1>6. \A i \in RowsIn(e, {"in_sync"}) : OnChain(e.rows[i], L)
    BY <1>2, InSyncRows DEF Placed
  <1>7. n <= Len(L)
    BY <1>3, <1>5, <1>6 DEF OnChain
  <1>8. ASSUME NEW k \in 1..n PROVE \E i \in FindSeq(e, k) : e.rows[i].id = IdOf(Block(L, k))
    <2>1. PICK j \in RowsIn(e, {"in_sync"}) : n = e.rows[j].id.seq
      BY <1>5
    <2>2. PICK i : i \in FindSeq(e, k)
      BY <1>2, <2>1 DEF NoGap
    <2>3. i \in RowsIn(e, {"in_sync"}) /\ e.rows[i].id.seq = k
      BY <2>2, InSyncRows
    <2> QED
      BY <1>6, <2>2, <2>3 DEF OnChain
  <1> QED
    BY <1>1, <1>7, <1>8 DEF n, e, L

\* In strict mode what a client shows as in sync is a prefix of the server's chain, block for
\* block, in whatever order notifications, answers and fetched records come
\* (SyncEngine.ChainPrefix; check_chain_block_strict, check_pending_records).
THEOREM ShowsAPrefix == StrictIsLone => (Spec => []ChainPrefix)
  <1>1. StrictIsLone /\ Init => TrustInv
    BY TrustStart
  <1>2. TrustInv /\ [Next]_vars => TrustInv'
    BY TrustKept
  <1>3. TrustInv => ChainPrefix
    BY PrefixFollows
  <1> QED
    BY <1>1, <1>2, <1>3, PTL DEF Spec
=============================================================================
