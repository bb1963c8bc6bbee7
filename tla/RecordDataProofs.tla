-------------------------- MODULE RecordDataProofs --------------------------
(***************************************************************************)
(* Proofs about where record data is held: by a client, its store and the  *)
(* engine's data sync over it (DataSync), for any number of chunks and any *)
(* bounds on faults, stops and requests; and by the data servers           *)
(* (DataCopies), for any servers, any finite set of data, any chunks,      *)
(* quota and bounds.                                                       *)
(*                                                                         *)
(* An operation of the client's store leaves a list of writes that is      *)
(* carried out one by one and may be cut short after any of them. So what  *)
(* holds of the row and the files has to hold of every write still to come *)
(* as well, and what an operation promises at its end has to hold of its   *)
(* last write.                                                             *)
(*                                                                         *)
(* The engine finds a row and writes to it in two steps, and the store     *)
(* works on in between. So the invariant also says what is due (OwedInv):  *)
(* while an upload is to be noted its data waits, alone and with all its   *)
(* files, unless a fault has come.                                         *)
(*                                                                         *)
(* What the record server lists of a data server was announced earlier,    *)
(* over a link that still carries older packets, while uploads, pulls,     *)
(* expiry and releases change the store. So the invariant speaks of the    *)
(* packets under way: nothing they say of a committed data has become      *)
(* untrue, and a release is under way only for a data the storage let go.  *)
(***************************************************************************)
EXTENDS Holdings, SequenceTheorems, FiniteSetTheorems, TLAPS

-----------------------------------------------------------------------------
(* The inductive invariant *)

Writes == [row : Sync!Row, disk : [Chunk -> Sync!File]]

\* what the database and the disk say now
Now == Sync!On(row, disk)
\* what they will say when the operation that has the mutex is done
Outcome == IF op = <<>> THEN Now ELSE op[Len(op)]

\* no file without a row that leads to it, and nothing said of a data without a row
Led(w) == ~w.row.known => w.disk = Sync!NoFiles /\ w.row.state = "deferred"
\* a data called in sync or waiting to be uploaded is complete
Claimed(w) == w.row.known /\ w.row.state \in {"in_sync", "upload_pending"} => w.row.have = Chunk
\* a data that waits to be uploaded has all its files, and its bitmap says so
CopyKept(w) == w.row.state = "upload_pending" => w.disk = Sync!AllFiles /\ w.row.have = Chunk
\* the bitmap has the chunk
Has(w, c) == w.row.known /\ c \in w.row.have

SyncTypes ==
    /\ row \in Sync!Row
    /\ disk \in [Chunk -> Sync!File]
    /\ op \in Seq(Writes)
    /\ incoming \subseteq Chunk
    /\ drops \in Nat
    /\ cache \in [chunk : Chunk \cup {Sync!NoChunk}, at : Nat, wants : Chunk \cup {Sync!NoChunk},
                  got : {"nothing", "good", "rotten"}]
    /\ faults \in Nat
    /\ torn \in BOOLEAN
    /\ record \in {"none", "pending", "confirmed", "cut"}
    /\ upload \in Sync!Transfer /\ download \in Sync!Transfer
    /\ planned \in BOOLEAN /\ overwritten \in BOOLEAN
    /\ due \in {"nothing", "in_sync", "download_pending", "pruned"}
    /\ held \subseteq Chunk
    /\ gone \in BOOLEAN

\* every file, now and after each write to come, belongs to a known data
AllLed == Led(Now) /\ \A i \in 1..Len(op) : Led(op[i])

\* unless a stop cut an operation short or an upload was noted too late, the operation under way
\* ends in a row that is true
EndsClaimed == ~torn /\ ~overwritten => Claimed(Outcome)

\* a chunk the handle holds, or has read and is about to hold, stays in the bitmap as long as no
\* chunk went since
Served(c) == (c = cache.chunk /\ c # Sync!NoChunk) \/ (c = cache.wants /\ cache.got # "nothing")
AllServed ==
    /\ cache.at <= drops
    /\ cache.at = drops => \A c \in Chunk \cup {Sync!NoChunk} :
                              Served(c) => Has(Now, c) /\ \A i \in 1..Len(op) : Has(op[i], c)

\* what waits to be uploaded keeps its files through every write
AllKept ==
    record \in {"pending", "confirmed"} /\ ~gone /\ faults = 0 =>
        CopyKept(Now) /\ \A i \in 1..Len(op) : CopyKept(op[i])

\* a transfer is answered "pruned" only by a storage that let the data go
PrunedIsGone == upload = "pruned" \/ download = "pruned" => gone

RowInv == SyncTypes /\ AllLed /\ EndsClaimed /\ AllServed /\ AllKept /\ PrunedIsGone

-----------------------------------------------------------------------------
(* Lists of writes *)

\* What a list of one, two or three writes is made of.
LEMMA OneWrite ==
    ASSUME NEW a \in Writes
    PROVE  /\ <<a>> \in Seq(Writes) /\ <<a>> # <<>> /\ Len(<<a>>) = 1
           /\ <<a>>[1] = a
           /\ \A i \in 1..Len(<<a>>) : <<a>>[i] = a
  OBVIOUS

\* Two writes.
LEMMA TwoWrites ==
    ASSUME NEW a \in Writes, NEW b \in Writes
    PROVE  /\ <<a, b>> \in Seq(Writes) /\ <<a, b>> # <<>> /\ Len(<<a, b>>) = 2
           /\ <<a, b>>[2] = b
           /\ \A i \in 1..Len(<<a, b>>) : <<a, b>>[i] \in {a, b}
  OBVIOUS

\* Three writes.
LEMMA ThreeWrites ==
    ASSUME NEW a \in Writes, NEW b \in Writes, NEW c \in Writes
    PROVE  /\ <<a, b, c>> \in Seq(Writes) /\ <<a, b, c>> # <<>> /\ Len(<<a, b, c>>) = 3
           /\ <<a, b, c>>[3] = c
           /\ \A i \in 1..Len(<<a, b, c>>) : <<a, b, c>>[i] \in {a, b, c}
  OBVIOUS

\* A third write put after two, or none.
LEMMA WriteAfterTwo ==
    ASSUME NEW a, NEW b, NEW c
    PROVE  <<a, b>> \o <<c>> = <<a, b, c>> /\ <<a, b>> \o <<>> = <<a, b>>
  <1> DEFINE S == {a, b, c}
             p == <<a, b>>
             q == <<c>>
             t == <<a, b, c>>
  <1>1. p \in Seq(S) /\ q \in Seq(S) /\ t \in Seq(S)
    OBVIOUS
  <1>2. Len(p) = 2 /\ Len(q) = 1 /\ Len(t) = 3 /\ p[1] = t[1] /\ p[2] = t[2] /\ q[1] = t[3]
    OBVIOUS
  <1> HIDE DEF S, p, q, t
  <1>3. /\ p \o q \in Seq(S) /\ Len(p \o q) = Len(p) + Len(q)
        /\ \A i \in 1..Len(p) + Len(q) : (p \o q)[i] = IF i <= Len(p) THEN p[i] ELSE q[i - Len(p)]
    BY <1>1, ConcatProperties, Zenon
  <1>4. Len(p \o q) = Len(t) /\ \A i \in 1..Len(p \o q) : (p \o q)[i] = t[i]
    <2>1. Len(p \o q) = 3
      BY <1>2, <1>3
    <2>2. ASSUME NEW i \in 1..3 PROVE (p \o q)[i] = t[i]
      <3>1. i = 1 \/ i = 2 \/ i = 3
        OBVIOUS
      <3>2. (p \o q)[1] = p[1] /\ (p \o q)[2] = p[2] /\ (p \o q)[3] = q[1]
        BY <1>2, <1>3
      <3> QED
        BY <1>2, <3>1, <3>2, Zenon
    <2> QED
      BY <1>2, <2>1, <2>2
  <1>5. p \o q = t
    BY <1>1, <1>3, <1>4, SeqEqual, Zenon
  <1>6. p \o <<>> = p
    BY <1>1, ConcatEmptySeq, Zenon
  <1> QED
    BY <1>5, <1>6, Zenon DEF p, q, t

\* What the list that follows the next write is made of.
LEMMA NextWrite ==
    ASSUME NEW ws \in Seq(Writes), ws # <<>>
    PROVE  /\ Head(ws) \in Writes /\ Head(ws) = ws[1] /\ 1 \in 1..Len(ws)
           /\ Tail(ws) \in Seq(Writes)
           /\ \A i \in 1..Len(Tail(ws)) : i + 1 \in 1..Len(ws) /\ Tail(ws)[i] = ws[i + 1]
           /\ Tail(ws) = <<>> => ws[Len(ws)] = ws[1]
           /\ Tail(ws) # <<>> => Tail(ws)[Len(Tail(ws))] = ws[Len(ws)]
  <1>1. Len(ws) \in Nat /\ Len(ws) >= 1 /\ Head(ws) = ws[1] /\ Head(ws) \in Writes
    OBVIOUS
  <1>2. Tail(ws) \in Seq(Writes) /\ Len(Tail(ws)) = Len(ws) - 1
    OBVIOUS
  <1>3. \A i \in 1..Len(Tail(ws)) : i + 1 \in 1..Len(ws) /\ Tail(ws)[i] = ws[i + 1]
    BY <1>1, <1>2
  <1>a. Tail(ws) = <<>> => Len(Tail(ws)) = 0
    BY EmptySeq, Zenon
  <1>4. Tail(ws) = <<>> => Len(ws) = 1
    BY <1>1, <1>2, <1>a
  <1>5. Tail(ws) # <<>> => Len(Tail(ws)) \in 1..Len(Tail(ws))
    BY <1>1, <1>2
  <1> QED
    BY <1>1, <1>2, <1>3, <1>4, <1>5

-----------------------------------------------------------------------------
(* The steps *)

\* The empty store has the invariant.
LEMMA RowInitially == Sync!Init => RowInv
  <1> SUFFICES ASSUME Sync!Init PROVE RowInv
    OBVIOUS
  <1> USE DEF Sync!Init, Sync!StoreInit
  <1>a. row \in Sync!Row /\ disk \in [Chunk -> Sync!File]
    BY DEF Sync!NoRow, Sync!Row, Sync!DataState, Sync!NoFiles, Sync!File
  <1>b. cache \in [chunk : Chunk \cup {Sync!NoChunk}, at : Nat, wants : Chunk \cup {Sync!NoChunk},
                   got : {"nothing", "good", "rotten"}]
    BY DEF Sync!NoCache, Sync!NoChunk
  <1>c. op \in Seq(Writes)
    BY EmptySeq, Zenon
  <1>1. SyncTypes
    BY <1>a, <1>b, <1>c DEF SyncTypes, Sync!Transfer, Sync!Answer
  <1>2. AllLed /\ EndsClaimed /\ AllServed /\ AllKept /\ PrunedIsGone
    BY DEF AllLed, EndsClaimed, AllServed, Served, AllKept, PrunedIsGone, Led, Claimed, CopyKept, Has, Now,
           Outcome, Sync!On, Sync!NoRow, Sync!NoCache, Sync!NoChunk
  <1> QED
    BY <1>1, <1>2 DEF RowInv

\* A write makes the first of the list what is there.
LEMMA WriteStep ==
    ASSUME RowInv, Sync!Write, UNCHANGED Sync!store
    PROVE  RowInv'
  <1> USE DEF Sync!Write, Sync!store, Sync!engineVars, Sync!serverVars, Sync!boundVars
  <1>1. SyncTypes
    BY DEF RowInv
  <1>2. /\ Head(op) \in Writes /\ Head(op) = op[1] /\ 1 \in 1..Len(op)
        /\ Tail(op) \in Seq(Writes)
        /\ \A i \in 1..Len(Tail(op)) : i + 1 \in 1..Len(op) /\ Tail(op)[i] = op[i + 1]
        /\ Tail(op) = <<>> => op[Len(op)] = op[1]
        /\ Tail(op) # <<>> => Tail(op)[Len(Tail(op))] = op[Len(op)]
    BY <1>1, NextWrite DEF SyncTypes
  <1>3. Now' = op[1] /\ Outcome' = Outcome
    BY <1>2 DEF Now, Outcome, Sync!On, Writes
  <1>4. SyncTypes'
    BY <1>1, <1>2 DEF SyncTypes, Writes
  <1>5. AllLed' /\ EndsClaimed' /\ AllServed' /\ AllKept' /\ PrunedIsGone'
    BY <1>2, <1>3 DEF RowInv, AllLed, EndsClaimed, AllServed, Served, AllKept, PrunedIsGone
  <1> QED
    BY <1>4, <1>5 DEF RowInv

-----------------------------------------------------------------------------
(* What a step may do to the store, and the invariant then *)

\* what the engine and the servers have, of their types, after a step
RestTyped ==
    /\ incoming \subseteq Chunk
    /\ faults \in Nat
    /\ record \in {"none", "pending", "confirmed", "cut"}
    /\ upload \in Sync!Transfer /\ download \in Sync!Transfer
    /\ planned \in BOOLEAN /\ overwritten \in BOOLEAN
    /\ due \in {"nothing", "in_sync", "download_pending", "pruned"}
    /\ held \subseteq Chunk
    /\ gone \in BOOLEAN

\* the record did not come to name a data that waits to be uploaded
Guarding == record \in {"pending", "confirmed"} /\ ~gone /\ faults = 0

\* A step that leaves the row, the files and the list of writes alone.
LEMMA StoreAside ==
    ASSUME RowInv, UNCHANGED <<row, disk, op, drops, cache, torn, overwritten>>,
           RestTyped', PrunedIsGone', Guarding' => Guarding
    PROVE  RowInv'
  <1>1. UNCHANGED <<Now, Outcome>>
    BY DEF Now, Outcome
  <1>2. SyncTypes' /\ AllLed' /\ EndsClaimed' /\ AllServed'
    BY <1>1 DEF RowInv, SyncTypes, RestTyped, AllLed, EndsClaimed, AllServed, Served
  <1>3. AllKept'
    BY <1>1 DEF RowInv, AllKept, Guarding
  <1> QED
    BY <1>2, <1>3 DEF RowInv

\* A step that sets the row while no operation is under way: nothing held is forgotten, and a
\* claim is made only of a data that had one.
LEMMA RowSet ==
    ASSUME RowInv, op = <<>>, UNCHANGED <<disk, op, drops, cache, torn>>,
           row' \in Sync!Row, row.known => row'.known /\ row'.have = row.have,
           overwritten => overwritten',
           row'.state \in {"in_sync", "upload_pending"} =>
               overwritten' \/ (row.known /\ row.state \in {"in_sync", "upload_pending"}),
           row'.state = "upload_pending" => row.known /\ row.state = "upload_pending" /\ (Guarding' => Guarding),
           row'.known \/ (~row.known /\ row'.state = row.state),
           RestTyped', PrunedIsGone'
    PROVE  RowInv'
  <1>1. Now.row = row /\ Now.disk = disk /\ Now'.row = row' /\ Now'.disk = disk /\ Outcome = Now /\ Outcome' = Now'
    BY DEF Now, Outcome, Sync!On
  <1>2. op' = <<>> /\ Len(op') = 0
    BY EmptySeq, Zenon
  <1>3. SyncTypes'
    BY DEF RowInv, SyncTypes, RestTyped
  <1>4. AllLed'
    BY <1>1, <1>2 DEF RowInv, AllLed, Led
  <1>5. EndsClaimed'
    BY <1>1 DEF RowInv, EndsClaimed, Claimed, SyncTypes, Sync!Row
  <1>6. AllServed'
    BY <1>1, <1>2 DEF RowInv, AllServed, Served, Has, SyncTypes
  <1>7. AllKept'
    BY <1>1, <1>2 DEF RowInv, AllKept, CopyKept, Guarding
  <1> QED
    BY <1>3, <1>4, <1>5, <1>6, <1>7 DEF RowInv

\* the data is not one that waits to be uploaded
Elsewhere(w) == w.row.state # "upload_pending"
\* the data waits to be uploaded and all of it is there
Awaits(w) == w.row.known /\ w.row.state = "upload_pending" /\ w.row.have = Chunk /\ w.disk = Sync!AllFiles
\* no file has other bytes
Unspoilt(w) == \A c \in Chunk : w.disk[c] # "rotten"

\* what an operation may write, given the row and the files it starts from
StoreSound(ws) == ws \in Seq(Writes) /\ \A i \in 1..Len(ws) : Led(ws[i])
EndsWell(ws) == ws = <<>> \/ (Claimed(Now) => Claimed(ws[Len(ws)]))
Keeps(ws) == CopyKept(Now) => \A i \in 1..Len(ws) : CopyKept(ws[i])
Grows(ws) == \A i \in 1..Len(ws) : \A c : Has(Now, c) => Has(ws[i], c)
Off(ws) == Elsewhere(Now) => \A i \in 1..Len(ws) : Elsewhere(ws[i])
KeepsWaiting(ws) == Awaits(Now) => \A i \in 1..Len(ws) : Awaits(ws[i])
Clean(ws) == Unspoilt(Now) => \A i \in 1..Len(ws) : Unspoilt(ws[i])

\* An operation takes the mutex: either chunks go, and it is counted, or the handle keeps no more
\* than it had and no write takes a chunk away.
LEMMA StoreBegun ==
    ASSUME RowInv, op = <<>>, UNCHANGED <<row, disk, torn, overwritten>>,
           StoreSound(op'), EndsWell(op'), Guarding' => (Guarding /\ Keeps(op')) \/ (row.state # "upload_pending" /\ Keeps(op')),
           cache'.at = cache.at,
           cache' \in [chunk : Chunk \cup {Sync!NoChunk}, at : Nat, wants : Chunk \cup {Sync!NoChunk},
                       got : {"nothing", "good", "rotten"}],
           \/ drops' = drops + 1
           \/ drops' = drops /\ Grows(op') /\ \A c : Served(c)' => Served(c),
           RestTyped', PrunedIsGone'
    PROVE  RowInv'
  <1>1. Now' = Now /\ Outcome = Now /\ Outcome' = (IF op' = <<>> THEN Now ELSE op'[Len(op')])
    BY DEF Now, Outcome
  <1>2. Now.row = row /\ Now.disk = disk
    BY DEF Now, Sync!On
  <1>3. SyncTypes'
    BY DEF RowInv, SyncTypes, RestTyped, StoreSound
  <1>4. AllLed'
    BY <1>1 DEF RowInv, AllLed, StoreSound
  <1>5. EndsClaimed'
    BY <1>1 DEF RowInv, EndsClaimed, EndsWell
  <1>6. AllServed'
    <2>1. CASE drops' = drops + 1
      BY <2>1 DEF RowInv, SyncTypes, AllServed
    <2>2. CASE drops' = drops /\ Grows(op') /\ \A c : Served(c)' => Served(c)
      <3>1. cache'.at <= drops'
        BY <2>2 DEF RowInv, AllServed
      <3>2. ASSUME cache'.at = drops', NEW c \in Chunk \cup {Sync!NoChunk}, Served(c)'
            PROVE  Has(Now, c)
        BY <2>2, <3>2 DEF RowInv, AllServed
      <3>3. ASSUME NEW c, Has(Now, c) PROVE \A i \in 1..Len(op') : Has(op'[i], c)
        BY <2>2, <3>3 DEF Grows
      <3> QED
        BY <1>1, <3>1, <3>2, <3>3 DEF AllServed, Has
    <2> QED
      BY <2>1, <2>2
  <1>7. AllKept'
    <2>1. SUFFICES ASSUME Guarding'
                   PROVE  CopyKept(Now) /\ \A i \in 1..Len(op') : CopyKept(op'[i])
      BY <1>1 DEF AllKept, Guarding, CopyKept
    <2>2. CopyKept(Now) /\ Keeps(op')
      BY <2>1, <1>2 DEF RowInv, AllKept, Guarding, CopyKept
    <2> QED
      BY <2>2 DEF Keeps
  <1> QED
    BY <1>3, <1>4, <1>5, <1>6, <1>7 DEF RowInv

-----------------------------------------------------------------------------
(* The lists of writes of the store's operations *)

\* register_held: the files come after the row and before what is claimed.
LEMMA RegisterHeldWrites ==
    ASSUME RowInv, op = <<>>, NEW state \in Sync!DataState, Sync!RegisterHeld(state)
    PROVE  /\ StoreSound(op') /\ EndsWell(op') /\ Grows(op') /\ Keeps(op') /\ Clean(op')
           /\ state # "upload_pending" => Off(op')
  <1> DEFINE r == [Sync!Ensured EXCEPT !.manifest = TRUE]
             s == [r EXCEPT !.have = Chunk, !.state = state]
             a == Sync!On(r, disk)
             b == Sync!On(r, Sync!AllFiles)
             c == Sync!On(s, Sync!AllFiles)
  <1>1. op' = <<a, b, c>>
    BY DEF Sync!RegisterHeld, Sync!Begin
  <1>2. row \in Sync!Row /\ disk \in [Chunk -> Sync!File] /\ Sync!AllFiles \in [Chunk -> Sync!File]
    BY DEF RowInv, SyncTypes, Sync!AllFiles, Sync!File
  <1>3. /\ r \in Sync!Row /\ r.known /\ (row.known => r.state = row.state)
        /\ (row.known => r.have = row.have) /\ (~row.known => r.state = "deferred")
    BY <1>2 DEF Sync!Ensured, Sync!Row, Sync!NoRow, Sync!DataState
  <1>4. s \in Sync!Row /\ s.known /\ s.state = state /\ s.have = Chunk
    BY <1>3 DEF Sync!Row
  <1> HIDE DEF r, s
  <1>5. a.row = r /\ a.disk = disk /\ b.row = r /\ b.disk = Sync!AllFiles /\ c.row = s /\ c.disk = Sync!AllFiles
    BY DEF Sync!On
  <1>6. a \in Writes /\ b \in Writes /\ c \in Writes
    BY <1>2, <1>3, <1>4 DEF Writes, Sync!On
  <1> HIDE DEF a, b, c
  <1>7. /\ op' \in Seq(Writes) /\ op' # <<>> /\ op'[Len(op')] = c
        /\ \A i \in 1..Len(op') : op'[i] \in {a, b, c}
    BY <1>1, <1>6, ThreeWrites
  <1>8. Led(a) /\ Led(b) /\ Led(c) /\ Claimed(c)
    BY <1>3, <1>4, <1>5 DEF Led, Claimed
  <1>9. StoreSound(op') /\ EndsWell(op')
    BY <1>7, <1>8 DEF StoreSound, EndsWell
  <1>10. Now.row = row /\ Now.disk = disk
    BY DEF Now, Sync!On
  <1>11. ASSUME NEW x, Has(Now, x) PROVE Has(a, x) /\ Has(b, x) /\ Has(c, x)
    BY <1>2, <1>3, <1>4, <1>5, <1>10, <1>11 DEF Has, Sync!Row
  <1>12. CopyKept(Now) => CopyKept(a) /\ CopyKept(b) /\ CopyKept(c)
    BY <1>3, <1>4, <1>5, <1>10 DEF CopyKept
  <1>13. Unspoilt(Now) => Unspoilt(a) /\ Unspoilt(b) /\ Unspoilt(c)
    BY <1>5, <1>10 DEF Unspoilt, Sync!AllFiles
  <1>14. state # "upload_pending" /\ Elsewhere(Now) => Elsewhere(a) /\ Elsewhere(b) /\ Elsewhere(c)
    BY <1>3, <1>4, <1>5, <1>10 DEF Elsewhere
  <1> QED
    BY <1>7, <1>9, <1>11, <1>12, <1>13, <1>14 DEF Grows, Keeps, Clean, Off

\* mark_held: the file before the bitmap, the state with the last chunk.
LEMMA MarkHeldWrites ==
    ASSUME RowInv, op = <<>>, row.known, NEW x \in Chunk, Sync!MarkHeld(x)
    PROVE  /\ StoreSound(op') /\ EndsWell(op') /\ Grows(op') /\ Keeps(op')
           /\ Clean(op') /\ Off(op') /\ KeepsWaiting(op')
  <1> DEFINE f == [disk EXCEPT ![x] = "good"]
             r == [row EXCEPT !.have = @ \cup {x}]
             s == [r EXCEPT !.state = "in_sync"]
             a == Sync!On(row, f)
             b == Sync!On(r, f)
             c == Sync!On(s, f)
  <1>1. op' = <<a, b>> \o (IF Sync!Complete(r) /\ r.state # "upload_pending" THEN <<c>> ELSE <<>>)
    BY DEF Sync!MarkHeld, Sync!Begin
  <1>2. row \in Sync!Row /\ disk \in [Chunk -> Sync!File]
    BY DEF RowInv, SyncTypes
  <1>3. r \in Sync!Row /\ r.known /\ r.state = row.state /\ r.have = row.have \cup {x}
    BY <1>2 DEF Sync!Row
  <1>4. s \in Sync!Row /\ s.known /\ s.state = "in_sync" /\ s.have = r.have
    BY <1>3 DEF Sync!Row, Sync!DataState
  <1>f. /\ f \in [Chunk -> Sync!File] /\ (disk = Sync!AllFiles => f = Sync!AllFiles)
        /\ \A y \in Chunk : disk[y] # "rotten" => f[y] # "rotten"
    BY <1>2 DEF Sync!File, Sync!AllFiles
  <1> HIDE DEF r, s, f
  <1>5. a.row = row /\ a.disk = f /\ b.row = r /\ b.disk = f /\ c.row = s /\ c.disk = f
    BY DEF Sync!On
  <1>6. a \in Writes /\ b \in Writes /\ c \in Writes
    BY <1>2, <1>3, <1>4, <1>f DEF Writes, Sync!On
  <1> HIDE DEF a, b, c
  <1>7. Led(a) /\ Led(b) /\ Led(c)
    BY <1>3, <1>4, <1>5 DEF Led
  <1>10. Now.row = row /\ Now.disk = disk
    BY DEF Now, Sync!On
  <1>11. ASSUME NEW y, Has(Now, y) PROVE Has(a, y) /\ Has(b, y) /\ Has(c, y)
    BY <1>2, <1>3, <1>4, <1>5, <1>10, <1>11 DEF Has, Sync!Row
  <1>12. CopyKept(Now) => CopyKept(a) /\ CopyKept(b) /\ CopyKept(c)
    BY <1>3, <1>4, <1>5, <1>f, <1>10 DEF CopyKept
  <1>15. Unspoilt(Now) => Unspoilt(a) /\ Unspoilt(b) /\ Unspoilt(c)
    BY <1>5, <1>f, <1>10 DEF Unspoilt
  <1>16. Elsewhere(Now) => Elsewhere(a) /\ Elsewhere(b) /\ Elsewhere(c)
    BY <1>3, <1>4, <1>5, <1>10 DEF Elsewhere
  <1>17. Awaits(Now) => Awaits(a) /\ Awaits(b) /\ r.state = "upload_pending"
    BY <1>3, <1>5, <1>f, <1>10 DEF Awaits
  <1>13. CASE Sync!Complete(r) /\ r.state # "upload_pending"
    <2>1. op' = <<a, b, c>>
      BY <1>1, <1>13, WriteAfterTwo, Zenon
    <2>2. /\ op' \in Seq(Writes) /\ op' # <<>> /\ op'[Len(op')] = c
          /\ \A i \in 1..Len(op') : op'[i] \in {a, b, c}
      BY <2>1, <1>6, ThreeWrites
    <2>3. Claimed(c)
      BY <1>4, <1>5, <1>13 DEF Claimed, Sync!Complete
    <2> QED
      BY <2>2, <2>3, <1>7, <1>11, <1>12, <1>13, <1>15, <1>16, <1>17 DEF StoreSound, EndsWell, Grows, Keeps,
         Clean, Off, KeepsWaiting
  <1>14. CASE ~(Sync!Complete(r) /\ r.state # "upload_pending")
    <2>1. op' = <<a, b>>
      BY <1>1, <1>14, WriteAfterTwo, Zenon
    <2>2. /\ op' \in Seq(Writes) /\ op' # <<>> /\ op'[Len(op')] = b
          /\ \A i \in 1..Len(op') : op'[i] \in {a, b}
      BY <2>1, <1>6, TwoWrites
    <2>3. Claimed(Now) => Claimed(b)
      BY <1>2, <1>3, <1>5, <1>10 DEF Claimed, Sync!Row
    <2> QED
      BY <2>2, <2>3, <1>7, <1>11, <1>12, <1>15, <1>16, <1>17 DEF StoreSound, EndsWell, Grows, Keeps, Clean, Off,
         KeepsWaiting
  <1> QED
    BY <1>13, <1>14

\* drop_chunk: a data that waits to be uploaded becomes invalid, another is to be fetched again.
LEMMA DropChunkWrites ==
    ASSUME RowInv, op = <<>>, row.known, NEW x, Sync!DropChunk(x)
    PROVE  StoreSound(op') /\ EndsWell(op') /\ Keeps(op') /\ Clean(op') /\ Off(op')
  <1> DEFINE i == [row EXCEPT !.state = "invalid"]
             z == Sync!On(i, disk)
             f == [disk EXCEPT ![x] = "none"]
             r == [row EXCEPT !.have = @ \ {x}]
             s == [r EXCEPT !.state = "download_pending"]
             a == Sync!On(row, f)
             b == Sync!On(r, f)
             c == Sync!On(s, f)
  <1>1. op' = IF row.state = "upload_pending" THEN <<z>> ELSE <<a, b, c>>
    BY DEF Sync!DropChunk, Sync!Begin
  <1>2. row \in Sync!Row /\ disk \in [Chunk -> Sync!File]
    BY DEF RowInv, SyncTypes
  <1>3. r \in Sync!Row /\ r.known /\ r.state = row.state
    BY <1>2 DEF Sync!Row
  <1>4. s \in Sync!Row /\ s.known /\ s.state = "download_pending"
    BY <1>3 DEF Sync!Row, Sync!DataState
  <1>i. i \in Sync!Row /\ i.known /\ i.state = "invalid"
    BY <1>2 DEF Sync!Row, Sync!DataState
  <1>f. f \in [Chunk -> Sync!File] /\ \A y \in Chunk : disk[y] # "rotten" => f[y] # "rotten"
    BY <1>2 DEF Sync!File
  <1> HIDE DEF r, s, f, i
  <1>5. /\ a.row = row /\ b.row = r /\ c.row = s /\ z.row = i
        /\ a.disk = f /\ b.disk = f /\ c.disk = f /\ z.disk = disk
        /\ a \in Writes /\ b \in Writes /\ c \in Writes /\ z \in Writes
    BY <1>2, <1>3, <1>4, <1>i, <1>f DEF Writes, Sync!On
  <1> HIDE DEF a, b, c, z
  <1>8. Now.row = row /\ Now.disk = disk
    BY DEF Now, Sync!On
  <1>9. Unspoilt(Now) => Unspoilt(a) /\ Unspoilt(b) /\ Unspoilt(c) /\ Unspoilt(z)
    BY <1>5, <1>f, <1>8 DEF Unspoilt
  <1>10. Elsewhere(Now) => Elsewhere(a) /\ Elsewhere(b) /\ Elsewhere(c) /\ Elsewhere(z)
    BY <1>3, <1>4, <1>i, <1>5, <1>8 DEF Elsewhere
  <1>6. CASE row.state = "upload_pending"
    <2>1. op' \in Seq(Writes) /\ op' # <<>> /\ op'[Len(op')] = z /\ \A j \in 1..Len(op') : op'[j] = z
      BY <1>1, <1>5, <1>6, OneWrite
    <2>2. Led(z) /\ Claimed(z) /\ CopyKept(z)
      BY <1>5, <1>i DEF Led, Claimed, CopyKept
    <2> QED
      BY <2>1, <2>2, <1>9, <1>10 DEF StoreSound, EndsWell, Keeps, Clean, Off
  <1>7. CASE row.state # "upload_pending"
    <2>1. /\ op' \in Seq(Writes) /\ op' # <<>> /\ op'[Len(op')] = c
          /\ \A j \in 1..Len(op') : op'[j] \in {a, b, c}
      BY <1>1, <1>5, <1>7, ThreeWrites
    <2>2. Led(a) /\ Led(b) /\ Led(c) /\ Claimed(c) /\ CopyKept(a) /\ CopyKept(b) /\ CopyKept(c)
      BY <1>3, <1>4, <1>5, <1>7 DEF Led, Claimed, CopyKept
    <2> QED
      BY <2>1, <2>2, <1>9, <1>10 DEF StoreSound, EndsWell, Keeps, Clean, Off
  <1> QED
    BY <1>6, <1>7

\* drop_chunks: whatever the point of a stop, a data without files claims nothing.
LEMMA DropChunksWrites ==
    ASSUME RowInv, op = <<>>, row.known, NEW state \in Sync!DataState \ {"in_sync", "upload_pending"},
           Sync!DropChunks(state)
    PROVE  /\ StoreSound(op') /\ EndsWell(op') /\ Clean(op') /\ Off(op')
           /\ row.state # "upload_pending" => Keeps(op')
  <1> DEFINE r == [row EXCEPT !.have = {}]
             s == [r EXCEPT !.state = state]
             a == Sync!On(row, Sync!NoFiles)
             b == Sync!On(r, Sync!NoFiles)
             c == Sync!On(s, Sync!NoFiles)
  <1>1. op' = <<a, b, c>>
    BY DEF Sync!DropChunks, Sync!Begin
  <1>2. row \in Sync!Row /\ Sync!NoFiles \in [Chunk -> Sync!File]
    BY DEF RowInv, SyncTypes, Sync!NoFiles, Sync!File
  <1>3. r \in Sync!Row /\ r.known /\ r.state = row.state
    BY <1>2 DEF Sync!Row
  <1>4. s \in Sync!Row /\ s.known /\ s.state = state
    BY <1>3 DEF Sync!Row
  <1> HIDE DEF r, s
  <1>5. /\ a.row = row /\ b.row = r /\ c.row = s
        /\ a.disk = Sync!NoFiles /\ b.disk = Sync!NoFiles /\ c.disk = Sync!NoFiles
        /\ a \in Writes /\ b \in Writes /\ c \in Writes
    BY <1>2, <1>3, <1>4 DEF Writes, Sync!On
  <1> HIDE DEF a, b, c
  <1>6. /\ op' \in Seq(Writes) /\ op' # <<>> /\ op'[Len(op')] = c
        /\ \A j \in 1..Len(op') : op'[j] \in {a, b, c}
    BY <1>1, <1>5, ThreeWrites
  <1>7. Led(a) /\ Led(b) /\ Led(c) /\ Claimed(c)
    BY <1>3, <1>4, <1>5 DEF Led, Claimed
  <1>8. row.state # "upload_pending" => CopyKept(a) /\ CopyKept(b) /\ CopyKept(c)
    BY <1>3, <1>4, <1>5 DEF CopyKept
  <1>9. Unspoilt(a) /\ Unspoilt(b) /\ Unspoilt(c)
    BY <1>5 DEF Unspoilt, Sync!NoFiles
  <1>10. Elsewhere(Now) => Elsewhere(a) /\ Elsewhere(b) /\ Elsewhere(c)
    BY <1>3, <1>4, <1>5 DEF Elsewhere, Now, Sync!On
  <1> QED
    BY <1>6, <1>7, <1>8, <1>9, <1>10 DEF StoreSound, EndsWell, Keeps, Clean, Off

\* remove: the files, then the row.
LEMMA RemoveWrites ==
    ASSUME RowInv, row.known, Sync!Remove
    PROVE  /\ StoreSound(op') /\ EndsWell(op') /\ Clean(op')
           /\ op' # <<>> /\ Elsewhere(op'[Len(op')])
  <1> DEFINE a == Sync!On(row, Sync!NoFiles)
             b == Sync!On(Sync!NoRow, Sync!NoFiles)
  <1>1. op' = <<a, b>>
    BY DEF Sync!Remove, Sync!Begin
  <1>2. row \in Sync!Row /\ Sync!NoFiles \in [Chunk -> Sync!File] /\ Sync!NoRow \in Sync!Row
    BY DEF RowInv, SyncTypes, Sync!NoFiles, Sync!File, Sync!NoRow, Sync!Row, Sync!DataState
  <1>3. /\ a.row = row /\ b.row = Sync!NoRow /\ a.disk = Sync!NoFiles /\ b.disk = Sync!NoFiles
        /\ a \in Writes /\ b \in Writes
    BY <1>2 DEF Writes, Sync!On
  <1> HIDE DEF a, b
  <1>4. op' \in Seq(Writes) /\ op' # <<>> /\ op'[Len(op')] = b /\ \A j \in 1..Len(op') : op'[j] \in {a, b}
    BY <1>1, <1>3, TwoWrites
  <1>5. Led(a) /\ Led(b) /\ Claimed(b)
    BY <1>3 DEF Led, Claimed, Sync!NoRow
  <1>6. Unspoilt(a) /\ Unspoilt(b) /\ Elsewhere(b)
    BY <1>3 DEF Unspoilt, Elsewhere, Sync!NoFiles, Sync!NoRow
  <1> QED
    BY <1>4, <1>5, <1>6 DEF StoreSound, EndsWell, Clean

\* chunk_failed: a data whose chunk is the manifest's and does not authenticate becomes invalid.
LEMMA InvalidWrites ==
    ASSUME RowInv, op = <<>>, row.known, op' = <<Sync!On([row EXCEPT !.state = "invalid"], disk)>>
    PROVE  StoreSound(op') /\ EndsWell(op') /\ Grows(op') /\ Keeps(op') /\ Clean(op') /\ Off(op')
  <1> DEFINE i == [row EXCEPT !.state = "invalid"]
             z == Sync!On(i, disk)
  <1>1. i \in Sync!Row /\ i.known /\ i.state = "invalid" /\ i.have = row.have
    BY DEF RowInv, SyncTypes, Sync!Row, Sync!DataState
  <1> HIDE DEF i
  <1>2. z.row = i /\ z.disk = disk /\ z \in Writes
    BY <1>1 DEF RowInv, SyncTypes, Writes, Sync!On
  <1>3. op' = <<z>>
    BY DEF i
  <1> HIDE DEF z
  <1>4. op' \in Seq(Writes) /\ op' # <<>> /\ op'[Len(op')] = z /\ \A j \in 1..Len(op') : op'[j] = z
    BY <1>2, <1>3, OneWrite
  <1>5. Led(z) /\ Claimed(z) /\ CopyKept(z)
    BY <1>1, <1>2 DEF Led, Claimed, CopyKept
  <1>6. ASSUME NEW x, Has(Now, x) PROVE Has(z, x)
    BY <1>1, <1>2, <1>6 DEF Has, Now, Sync!On
  <1>7. (Unspoilt(Now) => Unspoilt(z)) /\ Elsewhere(z)
    BY <1>1, <1>2 DEF Unspoilt, Elsewhere, Now, Sync!On
  <1> QED
    BY <1>4, <1>5, <1>6, <1>7 DEF StoreSound, EndsWell, Grows, Keeps, Clean, Off

-----------------------------------------------------------------------------
(* The actions *)

\* A staged chunk is adopted unless it is held or the data went (adopt_chunk).
LEMMA FinishChunkStep ==
    ASSUME RowInv, NEW c \in Chunk, Sync!FinishChunk(c), UNCHANGED Sync!store
    PROVE  RowInv'
  <1> USE DEF Sync!FinishChunk, Sync!Free, Sync!store, Sync!engineVars, Sync!serverVars, Sync!boundVars
  <1>1. RestTyped' /\ PrunedIsGone' /\ (Guarding' => Guarding)
    BY DEF RowInv, SyncTypes, RestTyped, PrunedIsGone, Guarding
  <1>2. CASE row.known /\ c \notin row.have
    <2>1. StoreSound(op') /\ EndsWell(op') /\ Grows(op') /\ Keeps(op')
      BY <1>2, MarkHeldWrites
    <2>2. \A x : Served(x)' => Served(x)
      BY DEF Served
    <2> QED
      BY <1>1, <2>1, <2>2, StoreBegun DEF RowInv, SyncTypes
  <1>3. CASE ~(row.known /\ c \notin row.have)
    BY <1>1, <1>3, StoreAside
  <1> QED
    BY <1>2, <1>3

\* A read begins: the cache is given up when chunks went since it was filled.
LEMMA HandleLoadStep ==
    ASSUME RowInv, NEW c \in Chunk, Sync!HandleLoad(c), UNCHANGED Sync!store
    PROVE  RowInv'
  <1> USE DEF Sync!HandleLoad, Sync!store, Sync!engineVars, Sync!serverVars, Sync!boundVars
  <1>1. UNCHANGED <<Now, Outcome>>
    BY DEF Now, Outcome
  <1>2. SyncTypes'
    BY DEF RowInv, SyncTypes, Sync!NoChunk
  <1>3. AllServed'
    <2>1. cache'.at = drops /\ cache'.got = "nothing" /\ cache'.chunk \in {cache.chunk, Sync!NoChunk}
      OBVIOUS
    <2>2. cache'.chunk # Sync!NoChunk => cache.at = drops
      OBVIOUS
    <2>3. ASSUME NEW x, Served(x)' PROVE Served(x) /\ cache.at = drops
      BY <2>1, <2>2, <2>3 DEF Served
    <2> QED
      BY <1>1, <2>1, <2>3 DEF RowInv, SyncTypes, AllServed
  <1>4. AllLed' /\ EndsClaimed' /\ AllKept' /\ PrunedIsGone'
    BY <1>1 DEF RowInv, AllLed, EndsClaimed, AllKept, PrunedIsGone
  <1> QED
    BY <1>2, <1>3, <1>4 DEF RowInv

\* The chunk is read under the store's mutex, or found lost and dropped.
LEMMA HandleReadStep ==
    ASSUME RowInv, Sync!HandleRead, UNCHANGED Sync!store
    PROVE  RowInv'
  <1> USE DEF Sync!HandleRead, Sync!rest, Sync!Free, Sync!store, Sync!engineVars, Sync!serverVars, Sync!boundVars
  <1>1. RestTyped' /\ PrunedIsGone' /\ (Guarding' => Guarding)
    BY DEF RowInv, SyncTypes, RestTyped, PrunedIsGone, Guarding
  <1>2. CASE Sync!Readable(cache.wants)
    <2>1. UNCHANGED <<Now, Outcome, op, drops>>
      BY <1>2 DEF Now, Outcome
    <2>2. cache' = [cache EXCEPT !.got = disk[cache.wants]] /\ Len(op) = 0
      BY <1>2, EmptySeq
    <2>3. disk[cache.wants] \in Sync!File \ {"none"}
      BY <1>2 DEF RowInv, SyncTypes, Sync!Readable, Sync!Row
    <2>4. SyncTypes'
      BY <2>1, <2>2, <2>3 DEF RowInv, SyncTypes, Sync!File
    <2>5. ASSUME NEW x, Served(x)' PROVE Served(x) \/ Has(Now, x)
      BY <1>2, <2>2, <2>5 DEF RowInv, SyncTypes, Served, Has, Now, Sync!On, Sync!Readable
    <2>6. AllServed'
      BY <2>1, <2>2, <2>5 DEF RowInv, SyncTypes, AllServed
    <2>7. AllLed' /\ EndsClaimed' /\ AllKept' /\ PrunedIsGone'
      BY <2>1 DEF RowInv, AllLed, EndsClaimed, AllKept, PrunedIsGone
    <2> QED
      BY <2>4, <2>6, <2>7 DEF RowInv
  <1>3. CASE ~Sync!Readable(cache.wants)
    <2>1. cache' = [cache EXCEPT !.wants = Sync!NoChunk]
      BY <1>3
    <2>2. /\ cache' \in [chunk : Chunk \cup {Sync!NoChunk}, at : Nat, wants : Chunk \cup {Sync!NoChunk},
                         got : {"nothing", "good", "rotten"}]
          /\ cache'.at = cache.at
          /\ \A x : Served(x)' => Served(x)
      BY <2>1 DEF RowInv, SyncTypes, Served
    <2>3. CASE row.known /\ cache.wants \in row.have
      <3>1. StoreSound(op') /\ EndsWell(op') /\ Keeps(op') /\ drops' = drops + 1
        BY <1>3, <2>3, DropChunkWrites DEF Sync!DropChunk
      <3> QED
        BY <1>1, <2>2, <3>1, StoreBegun
    <2>4. CASE ~(row.known /\ cache.wants \in row.have)
      <3>1. op' = <<>> /\ Len(op') = 0 /\ drops' = drops
        BY <1>3, <2>4, EmptySeq
      <3>2. StoreSound(op') /\ EndsWell(op') /\ Keeps(op') /\ Grows(op')
        BY <3>1 DEF RowInv, SyncTypes, StoreSound, EndsWell, Keeps, Grows
      <3> QED
        BY <1>1, <2>2, <3>1, <3>2, StoreBegun
    <2> QED
      BY <2>3, <2>4
  <1> QED
    BY <1>2, <1>3

\* What was read is kept; it is current only if no chunk went since the read began.
LEMMA HandleKeepStep ==
    ASSUME RowInv, Sync!HandleKeep, UNCHANGED Sync!store
    PROVE  RowInv'
  <1> USE DEF Sync!HandleKeep, Sync!store, Sync!engineVars, Sync!serverVars, Sync!boundVars
  <1>1. UNCHANGED <<Now, Outcome, op, drops>>
    BY DEF Now, Outcome
  <1>2. SyncTypes'
    BY DEF RowInv, SyncTypes
  <1>3. cache'.at = cache.at /\ \A x : Served(x)' => Served(x)
    BY DEF RowInv, SyncTypes, Served
  <1>4. AllServed'
    BY <1>1, <1>3 DEF RowInv, AllServed
  <1>5. AllLed' /\ EndsClaimed' /\ AllKept' /\ PrunedIsGone'
    BY <1>1 DEF RowInv, AllLed, EndsClaimed, AllKept, PrunedIsGone
  <1> QED
    BY <1>2, <1>4, <1>5 DEF RowInv

\* chunk_failed: the rotten chunk is dropped, or the data found invalid.
LEMMA ChunkFailedStep ==
    ASSUME RowInv, Sync!ChunkFailed, UNCHANGED Sync!store
    PROVE  RowInv'
  <1> USE DEF Sync!ChunkFailed, Sync!Free, Sync!store, Sync!engineVars, Sync!serverVars, Sync!boundVars
  <1>1. RestTyped' /\ PrunedIsGone' /\ (Guarding' => Guarding)
    BY DEF RowInv, SyncTypes, RestTyped, PrunedIsGone, Guarding
  <1>2. cache' = [cache EXCEPT !.wants = Sync!NoChunk, !.got = "nothing"]
    BY DEF Sync!Unread
  <1>3. /\ cache' \in [chunk : Chunk \cup {Sync!NoChunk}, at : Nat, wants : Chunk \cup {Sync!NoChunk},
                       got : {"nothing", "good", "rotten"}]
        /\ cache'.at = cache.at
        /\ \A x : Served(x)' => Served(x)
    BY <1>2 DEF RowInv, SyncTypes, Served
  <1>4. CASE row.known /\ row.manifest /\ cache.got = "rotten"
    <2>1. StoreSound(op') /\ EndsWell(op') /\ Keeps(op') /\ drops' = drops + 1
      BY <1>4, DropChunkWrites DEF Sync!DropChunk
    <2> QED
      BY <1>1, <1>3, <2>1, StoreBegun
  <1>5. CASE ~(row.known /\ row.manifest /\ cache.got = "rotten")
    <2>1. drops' = drops
      BY <1>5
    <2>2. StoreSound(op') /\ EndsWell(op') /\ Keeps(op') /\ Grows(op')
      <3>1. CASE row.known
        BY <1>5, <3>1, InvalidWrites DEF Sync!Begin
      <3>2. CASE ~row.known
        <4>1. op' = <<>> /\ Len(op') = 0
          BY <1>5, <3>2, EmptySeq DEF Sync!Begin
        <4> QED
          BY <4>1, EmptySeq DEF StoreSound, EndsWell, Keeps, Grows
      <3> QED
        BY <3>1, <3>2
    <2> QED
      BY <1>1, <1>3, <2>1, <2>2, StoreBegun
  <1> QED
    BY <1>4, <1>5

\* The disk loses or rots a chunk: a file that was there belongs to a known data.
LEMMA DiskFaultStep ==
    ASSUME RowInv, NEW c \in Chunk, Sync!DiskFault(c), UNCHANGED Sync!store
    PROVE  RowInv'
  <1> USE DEF Sync!DiskFault, Sync!Free, Sync!store, Sync!engineVars, Sync!serverVars, Sync!boundVars
  <1>1. op' = <<>> /\ Len(op') = 0 /\ Len(op) = 0
    BY EmptySeq
  <1>2. PICK f \in {"none", "rotten"} : disk' = [disk EXCEPT ![c] = f]
    OBVIOUS
  <1>3. SyncTypes'
    BY <1>2 DEF RowInv, SyncTypes, Sync!File
  <1>4. row.known
    BY DEF RowInv, AllLed, Led, Now, Sync!On, Sync!NoFiles
  <1>5. AllLed'
    BY <1>1, <1>4 DEF AllLed, Led, Now, Sync!On
  <1>6. EndsClaimed'
    BY DEF RowInv, EndsClaimed, Claimed, Outcome, Now, Sync!On
  <1>7. AllServed'
    BY <1>1 DEF RowInv, AllServed, Served, Has, Now, Sync!On
  <1>8. AllKept' /\ PrunedIsGone'
    BY DEF RowInv, SyncTypes, AllKept, PrunedIsGone
  <1> QED
    BY <1>3, <1>5, <1>6, <1>7, <1>8 DEF RowInv

\* The process stops between two writes and starts again.
LEMMA SyncRestartStep ==
    ASSUME RowInv, Sync!Restart
    PROVE  RowInv'
  <1> USE DEF Sync!Restart, Sync!Stop, Sync!boundVars
  <1>1. op' = <<>> /\ Len(op') = 0 /\ op' \in Seq(Writes) /\ UNCHANGED Now
    BY EmptySeq DEF Now
  <1>2. cache' = [chunk |-> 0, at |-> 0, wants |-> 0, got |-> "nothing"] /\ Sync!NoChunk = 0
    BY DEF Sync!NoCache, Sync!NoChunk
  <1>a. planned' \in BOOLEAN /\ overwritten' \in BOOLEAN /\ due' = "nothing"
    BY Zenon DEF RowInv, SyncTypes
  <1>b. torn' \in BOOLEAN
    OBVIOUS
  <1>3. SyncTypes'
    BY <1>1, <1>2, <1>a, <1>b DEF RowInv, SyncTypes, Sync!Transfer
  <1>4. AllLed' /\ PrunedIsGone'
    BY <1>1 DEF RowInv, AllLed, PrunedIsGone
  <1>5. EndsClaimed'
    BY <1>1 DEF RowInv, SyncTypes, EndsClaimed, Outcome
  <1>6. AllServed'
    BY <1>2 DEF AllServed, Served
  <1>7. AllKept'
    BY <1>1 DEF RowInv, AllKept
  <1> QED
    BY <1>3, <1>4, <1>5, <1>6, <1>7 DEF RowInv

\* The steps that leave the row, the files and the handle alone.
LEMMA AsideSteps ==
    ASSUME RowInv,
           \/ Sync!Connect \/ Sync!Disconnect \/ Sync!UploadAnswered \/ Sync!Announced
           \/ Sync!PlanAdoption \/ Sync!Fetch \/ Sync!EndDownload \/ Sync!EndUpload
           \/ Sync!ServerPrunes \/ Sync!Fail
           \/ \E c \in Chunk : Sync!MoveDown(c) \/ Sync!MoveUp(c) \/ Sync!OtherUploads(c)
    PROVE  RowInv'
  <1> USE DEF Sync!storeVars, Sync!engineVars, Sync!serverVars, Sync!boundVars
  <1>1. CASE Sync!Disconnect
    <2>1. RestTyped' /\ PrunedIsGone' /\ (Guarding' => Guarding)
      BY <1>1 DEF RowInv, SyncTypes, RestTyped, PrunedIsGone, Guarding, Sync!Disconnect, Sync!Offline, Sync!Transfer
    <2> QED
      BY <1>1, <2>1, StoreAside DEF Sync!Disconnect, Sync!Offline
  <1>2. CASE Sync!PlanAdoption
    <2>1. RestTyped' /\ PrunedIsGone' /\ (Guarding' => Guarding)
      BY <1>2 DEF RowInv, SyncTypes, RestTyped, PrunedIsGone, Guarding, Sync!PlanAdoption
    <2> QED
      BY <1>2, <2>1, StoreAside DEF Sync!PlanAdoption
  <1>3. CASE Sync!EndDownload
    <2>1. RestTyped' /\ PrunedIsGone' /\ (Guarding' => Guarding)
      BY <1>3 DEF RowInv, SyncTypes, RestTyped, PrunedIsGone, Guarding, Sync!EndDownload, Sync!Transfer, Sync!Answer
    <2> QED
      BY <1>3, <2>1, StoreAside DEF Sync!EndDownload
  <1>4. CASE Sync!EndUpload
    <2>1. RestTyped' /\ PrunedIsGone' /\ (Guarding' => Guarding)
      BY <1>4 DEF RowInv, SyncTypes, RestTyped, PrunedIsGone, Guarding, Sync!EndUpload, Sync!Transfer, Sync!Answer
    <2> QED
      BY <1>4, <2>1, StoreAside DEF Sync!EndUpload
  <1>5. CASE Sync!ServerPrunes
    <2>1. RestTyped' /\ PrunedIsGone' /\ (Guarding' => Guarding)
      BY <1>5 DEF RowInv, SyncTypes, RestTyped, PrunedIsGone, Guarding, Sync!ServerPrunes
    <2> QED
      BY <1>5, <2>1, StoreAside DEF Sync!ServerPrunes
  <1>6. CASE Sync!Fail
    <2>1. RestTyped' /\ PrunedIsGone' /\ (Guarding' => Guarding)
      BY <1>6 DEF RowInv, SyncTypes, RestTyped, PrunedIsGone, Guarding, Sync!Fail, Sync!Transfer, Sync!Answer
    <2> QED
      BY <1>6, <2>1, StoreAside DEF Sync!Fail
  <1>7. ASSUME NEW c \in Chunk, Sync!MoveDown(c) PROVE RowInv'
    <2>1. RestTyped' /\ PrunedIsGone' /\ (Guarding' => Guarding)
      BY <1>7 DEF RowInv, SyncTypes, RestTyped, PrunedIsGone, Guarding, Sync!MoveDown, Sync!ReceiveChunk
    <2> QED
      BY <1>7, <2>1, StoreAside DEF Sync!MoveDown, Sync!ReceiveChunk
  <1>8. ASSUME NEW c \in Chunk, Sync!MoveUp(c) PROVE RowInv'
    <2>1. RestTyped' /\ PrunedIsGone' /\ (Guarding' => Guarding)
      BY <1>8 DEF RowInv, SyncTypes, RestTyped, PrunedIsGone, Guarding, Sync!MoveUp
    <2> QED
      BY <1>8, <2>1, StoreAside DEF Sync!MoveUp
  <1>9. ASSUME NEW c \in Chunk, Sync!OtherUploads(c) PROVE RowInv'
    <2>1. RestTyped' /\ PrunedIsGone' /\ (Guarding' => Guarding)
      BY <1>9 DEF RowInv, SyncTypes, RestTyped, PrunedIsGone, Guarding, Sync!OtherUploads
    <2> QED
      BY <1>9, <2>1, StoreAside DEF Sync!OtherUploads
  <1>10. CASE Sync!Connect
    <2>1. RestTyped' /\ PrunedIsGone' /\ (Guarding' => Guarding)
      BY <1>10 DEF RowInv, SyncTypes, RestTyped, PrunedIsGone, Guarding, Sync!Connect, Sync!RequestTransfers,
                   Sync!RequestUploads, Sync!Want, Sync!RequestDownloads, Sync!Transfer, Sync!quiet
    <2> QED
      BY <1>10, <2>1, StoreAside DEF Sync!Connect, Sync!quiet
  <1>11. CASE Sync!UploadAnswered
    <2>1. RestTyped' /\ PrunedIsGone' /\ (Guarding' => Guarding)
      BY <1>11 DEF RowInv, SyncTypes, RestTyped, PrunedIsGone, Guarding, Sync!UploadAnswered, Sync!LetGo, Sync!Transfer
    <2> QED
      BY <1>11, <2>1, StoreAside DEF Sync!UploadAnswered
  <1>12. CASE Sync!Announced
    <2>1. RestTyped' /\ PrunedIsGone' /\ (Guarding' => Guarding)
      BY <1>12 DEF RowInv, SyncTypes, RestTyped, PrunedIsGone, Guarding, Sync!Announced, Sync!Want,
                   Sync!RequestDownloads, Sync!Transfer
    <2> QED
      BY <1>12, <2>1, StoreAside DEF Sync!Announced
  <1>13. CASE Sync!Fetch
    <2>1. RestTyped' /\ PrunedIsGone' /\ (Guarding' => Guarding)
      BY <1>13 DEF RowInv, SyncTypes, RestTyped, PrunedIsGone, Guarding, Sync!Fetch, Sync!Want,
                   Sync!RequestDownloads, Sync!Transfer
    <2> QED
      BY <1>13, <2>1, StoreAside DEF Sync!Fetch
  <1> QED
    BY <1>1, <1>2, <1>3, <1>4, <1>5, <1>6, <1>7, <1>8, <1>9, <1>10, <1>11, <1>12, <1>13

\* An upload that meets a lost chunk drops it; one that meets a bad chunk only ends.
LEMMA LoseUpStep ==
    ASSUME RowInv, NEW c \in Chunk, Sync!LoseUp(c)
    PROVE  RowInv'
  <1> USE DEF Sync!LoseUp, Sync!serverVars, Sync!boundVars, Sync!Free
  <1>1. CASE Sync!LostRead(c)
    <2>1. RestTyped' /\ PrunedIsGone' /\ (Guarding' => Guarding)
      BY <1>1 DEF RowInv, SyncTypes, RestTyped, PrunedIsGone, Guarding, Sync!LostRead, Sync!rest, Sync!Transfer, Sync!Answer
    <2>2. StoreSound(op') /\ EndsWell(op') /\ Keeps(op') /\ drops' = drops + 1
      BY <1>1, DropChunkWrites DEF Sync!LostRead, Sync!DropChunk
    <2> QED
      BY <1>1, <2>1, <2>2, StoreBegun DEF RowInv, SyncTypes, Sync!LostRead, Sync!rest
  <1>2. CASE UNCHANGED Sync!storeVars
    <2>1. RestTyped' /\ PrunedIsGone' /\ (Guarding' => Guarding)
      BY <1>2 DEF RowInv, SyncTypes, RestTyped, PrunedIsGone, Guarding, Sync!storeVars, Sync!Transfer, Sync!Answer
    <2> QED
      BY <1>2, <2>1, StoreAside DEF Sync!storeVars
  <1> QED
    BY <1>1, <1>2

\* The row as a step of the engine may set it: of another state, and no new claim.
Restated(r) ==
    /\ r \in Sync!Row /\ r.have = row.have /\ r.known = row.known
    /\ r.state = row.state \/ (row.known /\ r.state \notin {"in_sync", "upload_pending"})

\* A download opens: the row gets its manifest.
LEMMA OpenDownloadStep ==
    ASSUME RowInv, Sync!OpenDownload
    PROVE  RowInv'
  <1> USE DEF Sync!OpenDownload, Sync!Free, Sync!quiet, Sync!serverVars, Sync!boundVars
  <1>1. row \in Sync!Row
    BY DEF RowInv, SyncTypes
  <1>2. Restated(row')
    BY <1>1 DEF Sync!SetManifest, Restated, Sync!Row
  <1>3. RestTyped' /\ PrunedIsGone' /\ (Guarding' => Guarding)
    BY DEF RowInv, SyncTypes, RestTyped, PrunedIsGone, Guarding, Sync!Transfer, Sync!Answer
  <1>4. /\ row'.state \in {"in_sync", "upload_pending"} => row.known /\ row.state \in {"in_sync", "upload_pending"}
        /\ row'.known \/ (~row.known /\ row'.state = row.state)
    BY <1>1, <1>2 DEF Restated, RowInv, AllLed, Led, Now, Sync!On
  <1> QED
    BY <1>2, <1>3, <1>4, RowSet DEF Restated

\* on_download_answer: an answer settles the row and claims nothing.
LEMMA DownloadAnsweredStep ==
    ASSUME RowInv, Sync!DownloadAnswered
    PROVE  RowInv'
  <1> USE DEF Sync!DownloadAnswered, Sync!Free, Sync!quiet, Sync!serverVars, Sync!boundVars
  <1>1. RestTyped' /\ PrunedIsGone' /\ (Guarding' => Guarding)
    BY DEF RowInv, SyncTypes, RestTyped, PrunedIsGone, Guarding, Sync!Transfer, Sync!LetGo
  <1>2. row \in Sync!Row
    BY DEF RowInv, SyncTypes
  <1>3. CASE download \in {"not_held", "unknown"}
    <2>1. PICK state \in {"remote_not_complete", "deferred"} : row' = IF row.known THEN [row EXCEPT !.state = state] ELSE row
      BY <1>3 DEF Sync!Settle
    <2>2. Restated(row')
      BY <1>2, <2>1 DEF Restated, Sync!Row, Sync!DataState
    <2>3. /\ row'.state \in {"in_sync", "upload_pending"} => row.known /\ row.state \in {"in_sync", "upload_pending"}
          /\ row'.known \/ (~row.known /\ row'.state = row.state)
      BY <1>2, <2>2 DEF Restated, RowInv, AllLed, Led, Now, Sync!On
    <2> QED
      BY <1>1, <2>2, <2>3, RowSet DEF Restated
  <1>4. CASE download \notin {"not_held", "unknown"}
    BY <1>1, <1>4, StoreAside
  <1> QED
    BY <1>3, <1>4

\* What is due is written: an upload is noted, a data wanted, or one let go that does not wait.
LEMMA WriteDueStep ==
    ASSUME RowInv, Sync!WriteDue, due = "pruned" /\ Guarding => row.state # "upload_pending"
    PROVE  RowInv'
  <1> USE DEF Sync!WriteDue, Sync!Free, Sync!serverVars, Sync!boundVars
  <1>1. RestTyped' /\ PrunedIsGone' /\ (Guarding' => Guarding)
    <2>1. download' \in {download, "asked"}
      BY DEF Sync!RequestDownloads
    <2>2. overwritten' \in BOOLEAN
      BY DEF RowInv, SyncTypes
    <2> QED
      BY <2>1, <2>2 DEF RowInv, SyncTypes, RestTyped, PrunedIsGone, Guarding, Sync!Transfer
  <1>2. row \in Sync!Row /\ (~row.known => row.state = "deferred")
    BY DEF RowInv, SyncTypes, AllLed, Led, Now, Sync!On
  <1>3. CASE due \in {"in_sync", "download_pending"}
    <2>1. row' = (IF row.known THEN [row EXCEPT !.state = due] ELSE row) /\ op' = op /\ drops' = drops
      BY <1>3 DEF Sync!Settle
    <2>2. /\ row' \in Sync!Row /\ row'.have = row.have /\ row'.known = row.known
          /\ row'.state = IF row.known THEN due ELSE row.state
      BY <1>2, <1>3, <2>1 DEF Sync!Row, Sync!DataState
    <2>3. overwritten' = (overwritten \/ (due = "in_sync" /\ row.known /\ row.state # "upload_pending"))
      BY <1>3 DEF RowInv, SyncTypes
    <2> QED
      BY <1>1, <1>2, <1>3, <2>1, <2>2, <2>3, RowSet
  <1>4. CASE due = "pruned" /\ row.known
    <2>1. StoreSound(op') /\ EndsWell(op') /\ (row.state # "upload_pending" => Keeps(op')) /\ drops' = drops + 1
      BY <1>4, DropChunksWrites DEF Sync!DropChunks, Sync!DataState
    <2>2. cache' = cache /\ UNCHANGED <<row, disk, torn, overwritten>>
      BY <1>4
    <2>3. cache' \in [chunk : Chunk \cup {Sync!NoChunk}, at : Nat, wants : Chunk \cup {Sync!NoChunk},
                      got : {"nothing", "good", "rotten"}]
      BY <2>2 DEF RowInv, SyncTypes
    <2> QED
      BY <1>1, <1>4, <2>1, <2>2, <2>3, StoreBegun
  <1>5. CASE due = "pruned" /\ ~row.known
    BY <1>1, <1>5, StoreAside
  <1> QED
    BY <1>3, <1>4, <1>5

\* A data is created: its record begins to guard it with the operation that makes its files.
LEMMA CreateDataStep ==
    ASSUME RowInv, Sync!CreateData
    PROVE  RowInv'
  <1> USE DEF Sync!CreateData, Sync!FinishWriter, Sync!Free, Sync!rest, Sync!serverVars, Sync!boundVars
  <1>1. RestTyped' /\ PrunedIsGone'
    BY DEF RowInv, SyncTypes, RestTyped, PrunedIsGone
  <1>2. StoreSound(op') /\ EndsWell(op') /\ Grows(op') /\ Keeps(op')
    BY RegisterHeldWrites DEF Sync!DataState
  <1>3. row.state # "upload_pending" /\ cache' \in [chunk : Chunk \cup {Sync!NoChunk}, at : Nat,
                       wants : Chunk \cup {Sync!NoChunk}, got : {"nothing", "good", "rotten"}]
    BY DEF RowInv, SyncTypes, AllLed, Led, Now, Sync!On
  <1>4. \A x : Served(x)' => Served(x)
    BY DEF Served
  <1> QED
    BY <1>1, <1>2, <1>3, <1>4, StoreBegun

\* Content held under another id is adopted, whatever became of the row meanwhile.
LEMMA AdoptStep ==
    ASSUME RowInv, Sync!Adopt
    PROVE  RowInv'
  <1> USE DEF Sync!Adopt, Sync!AdoptContent, Sync!Free, Sync!rest, Sync!serverVars, Sync!boundVars
  <1>1. RestTyped' /\ PrunedIsGone' /\ (Guarding' => Guarding)
    BY DEF RowInv, SyncTypes, RestTyped, PrunedIsGone, Guarding
  <1>2. StoreSound(op') /\ EndsWell(op') /\ Grows(op') /\ Keeps(op')
    BY RegisterHeldWrites DEF Sync!DataState
  <1>3. cache' \in [chunk : Chunk \cup {Sync!NoChunk}, at : Nat, wants : Chunk \cup {Sync!NoChunk},
                    got : {"nothing", "good", "rotten"}]
    BY DEF RowInv, SyncTypes
  <1>4. \A x : Served(x)' => Served(x)
    BY DEF Served
  <1> QED
    BY <1>1, <1>2, <1>3, <1>4, StoreBegun

\* A record is confirmed: it names the data that waits, or makes an empty row.
LEMMA ConfirmStep ==
    ASSUME RowInv, Sync!Confirm
    PROVE  RowInv'
  <1> USE DEF Sync!Confirm, Sync!RequestTransfers, Sync!Free, Sync!quiet, Sync!serverVars, Sync!boundVars
  <1>1. RestTyped' /\ PrunedIsGone'
    BY DEF RowInv, SyncTypes, RestTyped, PrunedIsGone, Sync!RequestUploads, Sync!Want, Sync!RequestDownloads,
           Sync!Transfer
  <1>2. CASE record = "none"
    <2>1. ~row.known /\ row' = [Sync!NoRow EXCEPT !.known = TRUE]
      BY <1>2 DEF Sync!Ensured
    <2>2. row' \in Sync!Row /\ row'.known /\ row'.state = "deferred"
      BY <2>1 DEF Sync!Row, Sync!NoRow, Sync!DataState
    <2> QED
      BY <1>1, <2>1, <2>2, RowSet
  <1>3. CASE record # "none"
    <2>1. row' = row /\ (Guarding' => Guarding)
      BY <1>3 DEF Guarding
    <2> QED
      BY <1>1, <2>1, StoreAside
  <1> QED
    BY <1>2, <1>3

\* A cut of the history removes no data that waits to be uploaded under a record.
LEMMA CutHistoryStep ==
    ASSUME RowInv, Sync!CutHistory
    PROVE  RowInv'
  <1> USE DEF Sync!CutHistory, Sync!serverVars
  <1>1. CASE UNCHANGED <<Sync!storeVars, record>> /\ due' = "pruned"
    <2>1. RestTyped' /\ PrunedIsGone' /\ (Guarding' => Guarding)
      BY <1>1 DEF RowInv, SyncTypes, RestTyped, PrunedIsGone, Guarding, Sync!storeVars
    <2> QED
      BY <1>1, <2>1, StoreAside DEF Sync!storeVars
  <1>2. CASE Sync!Remove /\ record' \in {"cut", "none"} /\ UNCHANGED due
    <2>1. RestTyped' /\ PrunedIsGone' /\ ~Guarding'
      BY <1>2 DEF RowInv, SyncTypes, RestTyped, PrunedIsGone, Guarding, Sync!Remove, Sync!rest
    <2>2. StoreSound(op') /\ EndsWell(op') /\ drops' = drops + 1
      BY <1>2, RemoveWrites DEF Sync!Remove
    <2> QED
      BY <1>2, <2>1, <2>2, StoreBegun DEF RowInv, SyncTypes, Sync!Remove, Sync!Free, Sync!rest
  <1> QED
    BY <1>1, <1>2

\* The application evicts what does not wait to be uploaded.
LEMMA EvictDataStep ==
    ASSUME RowInv, Sync!EvictData
    PROVE  RowInv'
  <1> USE DEF Sync!EvictData, Sync!Evict, Sync!Evictable, Sync!Free, Sync!rest, Sync!engineVars, Sync!serverVars
  <1> DEFINE state == IF row.state \in {"in_sync", "removed"} THEN "removed" ELSE row.state
  <1>1. RestTyped' /\ PrunedIsGone' /\ (Guarding' => Guarding)
    BY DEF RowInv, SyncTypes, RestTyped, PrunedIsGone, Guarding
  <1>2. state \in Sync!DataState \ {"in_sync", "upload_pending"}
    BY DEF RowInv, SyncTypes, Sync!Row, Sync!DataState
  <1>3. Sync!DropChunks(state)
    OBVIOUS
  <1> HIDE DEF state
  <1>4. StoreSound(op') /\ EndsWell(op') /\ Keeps(op') /\ drops' = drops + 1
    BY <1>2, <1>3, DropChunksWrites DEF Sync!DropChunks
  <1>5. /\ cache' \in [chunk : Chunk \cup {Sync!NoChunk}, at : Nat, wants : Chunk \cup {Sync!NoChunk},
                       got : {"nothing", "good", "rotten"}]
        /\ cache'.at = cache.at
    BY DEF RowInv, SyncTypes
  <1> QED
    BY <1>1, <1>4, <1>5, StoreBegun

-----------------------------------------------------------------------------
(* What is uploaded waits until that is noted, unless the disk fails *)

\* something is under way that would take the copy of a data that waits
Barred == (planned \/ due = "pruned") /\ Guarding
\* the data goes up, arrived, or is about to be called in sync
GoesUp ==
    /\ faults = 0 /\ record = "confirmed"
    /\ upload = "ok" \/ (upload = "asked" /\ ~gone) \/ due = "in_sync"
Alone == download = "none" /\ ~planned /\ due \in {"nothing", "in_sync"}
\* the record was cut while the upload was asked for
Cutting == record = "cut" /\ upload # "none"

\* transfers and adoptions are of confirmed records, and what is uploaded is not asked for again
Sequenced ==
    /\ record \in {"none", "pending"} => upload = "none" /\ download = "none" /\ ~planned
    /\ ~online => download = "none"
    /\ due = "in_sync" => record = "confirmed" /\ upload = "none"
    /\ overwritten => faults > 0
\* without a fault of the disk no file has other bytes
NoRot == faults = 0 => cache.got # "rotten" /\ Unspoilt(Now) /\ \A i \in 1..Len(op) : Unspoilt(op[i])
\* nothing that would take the copy of a data is begun for one that waits
TakesOthers == Barred => Elsewhere(Now) /\ \A i \in 1..Len(op) : Elsewhere(op[i])
\* a data that goes up waits to the end, alone
StaysWaiting == GoesUp => Alone /\ Awaits(Now) /\ \A i \in 1..Len(op) : Awaits(op[i])
\* a data whose record was cut ends as one that does not wait
CutEnds == Cutting => Elsewhere(Outcome)

OwedInv == Sequenced /\ NoRot /\ TakesOthers /\ StaysWaiting /\ CutEnds

SyncInv == RowInv /\ OwedInv

\* It holds of the empty store.
LEMMA OwedInitially == Sync!Init => OwedInv
  <1> SUFFICES ASSUME Sync!Init PROVE OwedInv
    OBVIOUS
  <1> USE DEF Sync!Init, Sync!StoreInit
  <1>1. Len(op) = 0 /\ Outcome = Now /\ Now.row = Sync!NoRow /\ Now.disk = Sync!NoFiles
    BY EmptySeq DEF Outcome, Now, Sync!On
  <1>2. Sequenced /\ NoRot
    BY <1>1 DEF Sequenced, NoRot, Unspoilt, Sync!NoFiles, Sync!NoCache
  <1>3. TakesOthers /\ StaysWaiting /\ CutEnds
    BY DEF TakesOthers, Barred, StaysWaiting, GoesUp, CutEnds, Cutting
  <1> QED
    BY <1>2, <1>3 DEF OwedInv

\* A write of an operation keeps it.
LEMMA OwedWrite ==
    ASSUME RowInv, OwedInv, Sync!Write, UNCHANGED Sync!store
    PROVE  OwedInv'
  <1> USE DEF Sync!Write, Sync!store, Sync!engineVars, Sync!serverVars, Sync!boundVars
  <1>1. /\ Head(op) \in Writes /\ Head(op) = op[1] /\ 1 \in 1..Len(op)
        /\ \A i \in 1..Len(Tail(op)) : i + 1 \in 1..Len(op) /\ Tail(op)[i] = op[i + 1]
        /\ Tail(op) = <<>> => op[Len(op)] = op[1]
        /\ Tail(op) # <<>> => Tail(op)[Len(Tail(op))] = op[Len(op)]
    BY NextWrite DEF RowInv, SyncTypes
  <1>2. Now' = op[1] /\ Outcome' = Outcome
    BY <1>1 DEF Now, Outcome, Sync!On, Writes
  <1>3. Sequenced' /\ NoRot'
    BY <1>1, <1>2 DEF OwedInv, Sequenced, NoRot, Unspoilt
  <1>4. TakesOthers'
    BY <1>1, <1>2 DEF OwedInv, TakesOthers, Barred, Guarding, Elsewhere
  <1>5. StaysWaiting'
    BY <1>1, <1>2 DEF OwedInv, StaysWaiting, GoesUp, Alone, Awaits
  <1>6. CutEnds'
    BY <1>2 DEF OwedInv, CutEnds, Cutting, Elsewhere
  <1> QED
    BY <1>3, <1>4, <1>5, <1>6 DEF OwedInv

\* A step that leaves the row, the files and the list of writes alone.
LEMMA OwedAside ==
    ASSUME OwedInv, UNCHANGED <<row, disk, op>>, Sequenced',
           faults' = 0 => faults = 0 /\ cache'.got # "rotten",
           Barred' => Barred \/ (op = <<>> /\ Elsewhere(Now)),
           GoesUp' => Alone' /\ (GoesUp \/ (op = <<>> /\ Awaits(Now))),
           Cutting' => Cutting
    PROVE  OwedInv'
  <1>1. UNCHANGED <<Now, Outcome>> /\ (op = <<>> => Len(op) = 0)
    BY EmptySeq DEF Now, Outcome
  <1>2. NoRot'
    BY <1>1 DEF OwedInv, NoRot, Unspoilt
  <1>3. TakesOthers'
    BY <1>1 DEF OwedInv, TakesOthers, Elsewhere
  <1>4. StaysWaiting'
    BY <1>1 DEF OwedInv, StaysWaiting, Awaits
  <1>5. CutEnds'
    BY <1>1 DEF OwedInv, CutEnds, Elsewhere
  <1> QED
    BY <1>2, <1>3, <1>4, <1>5 DEF OwedInv

\* An operation takes the mutex.
LEMMA OwedBegun ==
    ASSUME OwedInv, op = <<>>, op' \in Seq(Writes), UNCHANGED <<row, disk>>, Sequenced',
           faults' = 0 => faults = 0 /\ cache'.got # "rotten" /\ Clean(op'),
           Barred' => Barred /\ Off(op'),
           GoesUp' => Alone' /\ GoesUp /\ KeepsWaiting(op'),
           Cutting' => (Cutting /\ Off(op')) \/ (op' # <<>> /\ Elsewhere(op'[Len(op')]))
    PROVE  OwedInv'
  <1>1. Now' = Now /\ Outcome = Now /\ Outcome' = (IF op' = <<>> THEN Now ELSE op'[Len(op')])
    BY DEF Now, Outcome
  <1>2. NoRot'
    BY <1>1 DEF OwedInv, NoRot, Unspoilt, Clean
  <1>3. TakesOthers'
    BY <1>1 DEF OwedInv, TakesOthers, Elsewhere, Off
  <1>4. StaysWaiting'
    BY <1>1 DEF OwedInv, StaysWaiting, Awaits, KeepsWaiting
  <1>5. CutEnds'
    <2>1. op' # <<>> => Len(op') \in 1..Len(op')
      OBVIOUS
    <2> QED
      BY <1>1, <2>1 DEF OwedInv, CutEnds, Elsewhere, Off
  <1> QED
    BY <1>2, <1>3, <1>4, <1>5 DEF OwedInv

\* The engine sets the row while no operation is under way, and the data does not go up.
LEMMA OwedRow ==
    ASSUME OwedInv, op = <<>>, UNCHANGED <<disk, op, cache>>, Sequenced', faults' = 0 => faults = 0,
           Barred' => row'.state # "upload_pending", ~GoesUp', Cutting' => row'.state # "upload_pending"
    PROVE  OwedInv'
  <1>1. op' = <<>> /\ Len(op') = 0 /\ Now'.row = row' /\ Now'.disk = disk /\ Now.disk = disk /\ Outcome' = Now'
    BY EmptySeq DEF Now, Outcome, Sync!On
  <1>2. NoRot'
    BY <1>1 DEF OwedInv, NoRot, Unspoilt
  <1>3. TakesOthers' /\ StaysWaiting' /\ CutEnds'
    BY <1>1 DEF TakesOthers, StaysWaiting, CutEnds, Elsewhere
  <1> QED
    BY <1>2, <1>3 DEF OwedInv

\* What goes up: its row waits, complete, with all its files, and nothing else is done to it.
LEMMA UpWaits ==
    ASSUME OwedInv, GoesUp
    PROVE  Alone /\ row.known /\ row.state = "upload_pending" /\ row.have = Chunk /\ disk = Sync!AllFiles
  BY DEF OwedInv, StaysWaiting, Awaits, Now, Sync!On

\* The steps of the transfers and the servers.
LEMMA OwedMoves ==
    ASSUME RowInv, OwedInv,
           \/ Sync!Disconnect \/ Sync!EndDownload \/ Sync!EndUpload \/ Sync!ServerPrunes \/ Sync!Fail
           \/ \E c \in Chunk : Sync!MoveDown(c) \/ Sync!MoveUp(c) \/ Sync!OtherUploads(c)
    PROVE  OwedInv'
  <1> USE DEF Sync!storeVars, Sync!engineVars, Sync!serverVars, Sync!boundVars, Sequenced, NoRot, Barred, Guarding, GoesUp,
              Alone, Cutting, OwedInv
  <1>0. GoesUp => Alone
    BY UpWaits
  <1>1. CASE Sync!Disconnect
    BY <1>1, OwedAside DEF Sync!Disconnect, Sync!Offline, Sync!Idle
  <1>2. CASE Sync!EndDownload
    BY <1>0, <1>2, OwedAside DEF Sync!EndDownload
  <1>3. CASE Sync!EndUpload
    BY <1>0, <1>3, OwedAside DEF Sync!EndUpload
  <1>4. CASE Sync!ServerPrunes
    BY <1>0, <1>4, OwedAside DEF Sync!ServerPrunes
  <1>5. CASE Sync!Fail
    <2>1. faults \in Nat /\ faults' = faults + 1
      BY <1>5 DEF Sync!Fail, RowInv, SyncTypes
    <2> QED
      BY <1>5, <2>1, OwedAside DEF Sync!Fail
  <1>6. ASSUME NEW c \in Chunk, Sync!MoveDown(c) PROVE OwedInv'
    BY <1>0, <1>6, OwedAside DEF Sync!MoveDown, Sync!ReceiveChunk
  <1>7. ASSUME NEW c \in Chunk, Sync!MoveUp(c) \/ Sync!OtherUploads(c) PROVE OwedInv'
    BY <1>0, <1>7, OwedAside DEF Sync!MoveUp, Sync!OtherUploads
  <1> QED
    BY <1>1, <1>2, <1>3, <1>4, <1>5, <1>6, <1>7

\* The engine finds a row: what it asks for or is about to write fits what it found.
LEMMA OwedFinds ==
    ASSUME RowInv, OwedInv,
           Sync!Connect \/ Sync!UploadAnswered \/ Sync!Announced \/ Sync!PlanAdoption \/ Sync!Fetch
    PROVE  OwedInv'
  <1> USE DEF Sync!Free, Sync!Idle, Sync!storeVars, Sync!serverVars, Sync!boundVars
  <1>0. GoesUp => Alone /\ row.known /\ row.state = "upload_pending" /\ row.have = Chunk
    BY UpWaits
  <1>a. Now.row = row /\ Now.disk = disk /\ (op = <<>> => Outcome = Now)
    BY DEF Now, Outcome, Sync!On
  <1>b. row.state = "upload_pending" /\ Guarding => row.have = Chunk /\ disk = Sync!AllFiles
    BY <1>a DEF RowInv, AllKept, CopyKept, Guarding
  <1>c. row.state = "upload_pending" /\ Guarding => ~planned
    BY <1>a DEF OwedInv, TakesOthers, Barred, Elsewhere, RowInv, SyncTypes
  <1>d. faults = 0 => cache.got # "rotten"
    BY DEF OwedInv, NoRot
  <1>1. CASE Sync!Connect
    <2> USE DEF Sync!Connect, Sync!RequestTransfers, Sync!quiet
    <2>1. UNCHANGED <<row, disk, op, cache, faults, gone, planned, overwritten, record>> /\ due = "nothing" /\ op = <<>>
      BY <1>1
    <2>2. upload' = upload \/ (upload' = "asked" /\ record = "confirmed" /\ row.known /\ row.state = "upload_pending")
      BY <1>1 DEF Sync!RequestUploads, Sync!OwedUpload
    <2>3. \/ due' = "download_pending" /\ download' = download /\ row.state = "deferred" /\ record = "confirmed"
          \/ due' = "nothing" /\ download' = download
          \/ due' = "nothing" /\ download' = "asked" /\ row.state = "download_pending" /\ record = "confirmed"
      BY <1>1 DEF Sync!Want, Sync!RequestDownloads, Sync!OwedDownload
    <2>4. download = "none" /\ online'
      BY <1>1 DEF OwedInv, Sequenced
    <2>5. Sequenced'
      BY <2>1, <2>2, <2>3, <2>4 DEF OwedInv, Sequenced
    <2>6. GoesUp' => Alone' /\ (GoesUp \/ Awaits(Now))
      BY <1>0, <1>a, <1>b, <1>c, <2>1, <2>2, <2>3, <2>4 DEF GoesUp, Alone, Awaits, Guarding
    <2>7. (Barred' => Barred) /\ (Cutting' => Cutting)
      BY <2>1, <2>2, <2>3 DEF Barred, Guarding, Cutting
    <2> QED
      BY <1>d, <2>1, <2>5, <2>6, <2>7, OwedAside
  <1>2. CASE Sync!UploadAnswered
    <2> USE DEF Sync!UploadAnswered
    <2>1. /\ UNCHANGED <<row, disk, op, cache, faults, gone, planned, overwritten, record, online, download>>
          /\ due = "nothing" /\ op = <<>> /\ upload' = "none"
      BY <1>2
    <2>2. \/ due' = "in_sync" /\ upload = "ok" /\ row.known /\ row.state = "upload_pending"
          \/ due' = "pruned" /\ upload = "pruned"
          \/ due' = "nothing"
      BY <1>2 DEF Sync!LetGo
    <2>3. due' = "in_sync" => record = "confirmed"
      BY <1>a, <2>1, <2>2 DEF OwedInv, Sequenced, CutEnds, Cutting, Elsewhere, RowInv, SyncTypes
    <2>4. Sequenced'
      BY <2>1, <2>2, <2>3 DEF OwedInv, Sequenced
    <2>5. GoesUp' => GoesUp /\ Alone'
      BY <1>0, <2>1, <2>2 DEF GoesUp, Alone
    <2>6. (Barred' => Barred) /\ (Cutting' => Cutting)
      BY <2>1, <2>2 DEF Barred, Guarding, Cutting, RowInv, PrunedIsGone
    <2> QED
      BY <1>d, <2>1, <2>4, <2>5, <2>6, OwedAside
  <1>3. CASE Sync!Announced \/ Sync!Fetch
    <2> USE DEF Sync!Announced, Sync!Fetch, Sync!Fetchable
    <2>1. /\ UNCHANGED <<row, disk, op, cache, faults, gone, planned, overwritten, record, online, upload>>
          /\ due = "nothing" /\ op = <<>>
      BY <1>3
    <2>2. \/ due' = "download_pending" /\ download' = download /\ row.state # "upload_pending"
          \/ due' = "nothing" /\ download' = download
          \/ due' = "nothing" /\ download' = "asked" /\ row.state = "download_pending" /\ record = "confirmed" /\ online
      BY <1>3 DEF Sync!Want, Sync!RequestDownloads, Sync!OwedDownload
    <2>3. Sequenced'
      BY <2>1, <2>2 DEF OwedInv, Sequenced
    <2>4. GoesUp' => GoesUp /\ Alone'
      BY <1>0, <2>1, <2>2 DEF GoesUp, Alone
    <2>5. (Barred' => Barred) /\ (Cutting' => Cutting)
      BY <2>1, <2>2 DEF Barred, Guarding, Cutting
    <2> QED
      BY <1>d, <2>1, <2>3, <2>4, <2>5, OwedAside
  <1>4. CASE Sync!PlanAdoption
    <2> USE DEF Sync!PlanAdoption, Sync!Complete
    <2>1. /\ UNCHANGED <<row, disk, op, cache, faults, gone, overwritten, record, online, upload, download, due>>
          /\ due = "nothing" /\ op = <<>> /\ record = "confirmed" /\ row.have # Chunk
      BY <1>4
    <2>2. Sequenced'
      BY <2>1 DEF OwedInv, Sequenced
    <2>3. ~GoesUp'
      BY <1>0, <2>1 DEF GoesUp
    <2>4. (Barred' => Elsewhere(Now)) /\ (Cutting' => Cutting)
      BY <1>a, <1>b, <2>1 DEF Barred, Guarding, Cutting, Elsewhere
    <2> QED
      BY <1>d, <2>1, <2>2, <2>3, <2>4, OwedAside
  <1> QED
    BY <1>1, <1>2, <1>3, <1>4

\* The engine sets the row: a record makes it, a download opens or is answered, what is due is written.
LEMMA OwedRows ==
    ASSUME RowInv, OwedInv, Sync!Confirm \/ Sync!OpenDownload \/ Sync!DownloadAnswered \/ Sync!WriteDue
    PROVE  OwedInv'
  <1> USE DEF Sync!Free, Sync!quiet, Sync!serverVars, Sync!boundVars
  <1>0. GoesUp => Alone /\ row.known /\ row.state = "upload_pending" /\ row.have = Chunk
    BY UpWaits
  <1>a. Now.row = row /\ Now.disk = disk /\ (op = <<>> => Outcome = Now)
    BY DEF Now, Outcome, Sync!On
  <1>b. row \in Sync!Row /\ (~row.known => row.state = "deferred")
    BY <1>a DEF RowInv, SyncTypes, AllLed, Led
  <1>c. faults = 0 => cache.got # "rotten" /\ Unspoilt(Now)
    BY DEF OwedInv, NoRot
  <1>d. Barred => row.state # "upload_pending"
    BY <1>a DEF OwedInv, TakesOthers, Elsewhere
  <1>e. Cutting /\ op = <<>> => row.state # "upload_pending"
    BY <1>a DEF OwedInv, CutEnds, Elsewhere
  <1>1. CASE Sync!Confirm
    <2> USE DEF Sync!Confirm, Sync!RequestTransfers, Sync!Idle
    <2>1. /\ UNCHANGED <<disk, op, cache, faults, gone, planned, overwritten>> /\ due = "nothing" /\ op = <<>>
          /\ record \in {"none", "pending"} /\ record' = "confirmed" /\ online'
      BY <1>1
    <2>2. upload = "none" /\ download = "none" /\ ~planned
      BY <2>1 DEF OwedInv, Sequenced
    <2>3. upload' = "none" \/ (upload' = "asked" /\ row'.known /\ row'.state = "upload_pending")
      BY <1>1, <2>2 DEF Sync!RequestUploads, Sync!OwedUpload
    <2>4. \/ due' = "download_pending" /\ download' = "none" /\ row'.state = "deferred"
          \/ due' = "nothing" /\ download' = "none"
          \/ due' = "nothing" /\ download' = "asked" /\ row'.state = "download_pending"
      BY <1>1, <2>2 DEF Sync!Want, Sync!RequestDownloads, Sync!OwedDownload
    <2>5. Sequenced' /\ ~Barred' /\ ~Cutting'
      BY <2>1, <2>2, <2>3, <2>4 DEF OwedInv, Sequenced, Barred, Cutting
    <2>6. CASE record = "none"
      <3>1. row' = [Sync!NoRow EXCEPT !.known = TRUE]
        BY <1>1, <2>6 DEF Sync!Ensured
      <3>2. row'.state = "deferred"
        BY <3>1 DEF Sync!NoRow
      <3>3. ~GoesUp'
        BY <3>2, <2>3, <2>4 DEF GoesUp
      <3> QED
        BY <2>1, <2>5, <3>3, OwedRow
    <2>7. CASE record = "pending"
      <3>1. row' = row
        BY <1>1, <2>7
      <3>2. GoesUp' => Awaits(Now) /\ Alone'
        BY <1>a, <2>1, <2>2, <2>3, <2>4, <2>7, <3>1 DEF GoesUp, Alone, Awaits, RowInv, AllKept, CopyKept
      <3> QED
        BY <1>c, <2>1, <2>5, <3>1, <3>2, OwedAside
    <2> QED
      BY <2>1, <2>6, <2>7
  <1>2. CASE Sync!OpenDownload
    <2> USE DEF Sync!OpenDownload
    <2>1. /\ UNCHANGED <<disk, op, cache, faults, gone, planned, overwritten, due, record, online, upload>> /\ op = <<>>
          /\ download = "asked"
      BY <1>2
    <2>2. row'.state = row.state
      BY <1>2, <1>b DEF Sync!SetManifest, Sync!Row
    <2>3. Sequenced'
      BY <2>1 DEF OwedInv, Sequenced
    <2>4. ~GoesUp'
      BY <1>0, <2>1 DEF GoesUp, Alone
    <2>5. (Barred' => Barred) /\ (Cutting' => Cutting)
      BY <2>1 DEF Barred, Guarding, Cutting
    <2> QED
      BY <1>d, <1>e, <2>1, <2>2, <2>3, <2>4, <2>5, OwedRow
  <1>3. CASE Sync!DownloadAnswered
    <2> USE DEF Sync!DownloadAnswered, Sync!Idle
    <2>1. /\ UNCHANGED <<disk, op, cache, faults, gone, planned, overwritten, record, online, upload>> /\ op = <<>>
          /\ download # "none" /\ download' = "none" /\ due = "nothing"
      BY <1>3 DEF Sync!Answer
    <2>2. row'.state = row.state \/ row'.state \in {"remote_not_complete", "deferred"}
      BY <1>3, <1>b DEF Sync!Settle, Sync!Row
    <2>3. due' = "nothing" \/ (due' = "pruned" /\ gone)
      BY <1>3 DEF Sync!LetGo, RowInv, PrunedIsGone
    <2>4. Sequenced'
      BY <2>1, <2>3 DEF OwedInv, Sequenced
    <2>5. ~GoesUp'
      BY <1>0, <2>1, <2>3 DEF GoesUp, Alone
    <2>6. (Barred' => Barred) /\ (Cutting' => Cutting)
      BY <2>1, <2>3 DEF Barred, Guarding, Cutting
    <2> QED
      BY <1>d, <1>e, <2>1, <2>2, <2>4, <2>5, <2>6, OwedRow
  <1>4. CASE Sync!WriteDue
    <2> USE DEF Sync!WriteDue, Sync!Idle
    <2>1. /\ UNCHANGED <<disk, cache, faults, gone, planned, record, online, upload>> /\ op = <<>>
          /\ due # "nothing" /\ due' = "nothing"
      BY <1>4
    <2>2. download' = download \/ (due = "download_pending" /\ download' = "asked" /\ record = "confirmed" /\ online)
      BY <1>4 DEF Sync!RequestDownloads, Sync!OwedDownload
    <2>3. overwritten' => overwritten \/ (due = "in_sync" /\ row.state # "upload_pending")
      BY <1>4
    <2>4. due = "in_sync" /\ faults = 0 => row.state = "upload_pending" /\ upload = "none"
      BY <1>0 DEF OwedInv, Sequenced, GoesUp
    <2>5. Sequenced'
      <3>1. overwritten' => faults > 0
        BY <2>3, <2>4 DEF OwedInv, Sequenced, RowInv, SyncTypes
      <3> QED
        BY <2>1, <2>2, <3>1 DEF OwedInv, Sequenced
    <2>6. ~GoesUp'
      BY <1>0, <2>1, <2>4 DEF GoesUp, Alone, OwedInv, Sequenced, RowInv, SyncTypes
    <2>7. (Barred' => Barred) /\ (Cutting' => Cutting)
      BY <2>1 DEF Barred, Guarding, Cutting
    <2>8. CASE due \in {"in_sync", "download_pending"}
      <3>1. row'.state = row.state \/ row'.state = due
        BY <1>4, <1>b, <2>8 DEF Sync!Settle, Sync!Row
      <3>2. op' = op
        BY <1>4, <2>8
      <3> QED
        BY <1>d, <1>e, <2>1, <2>5, <2>6, <2>7, <2>8, <3>1, <3>2, OwedRow
    <2>9. CASE due = "pruned" /\ row.known
      <3>1. op' \in Seq(Writes) /\ Clean(op') /\ Off(op') /\ row' = row
        BY <1>4, <2>9, DropChunksWrites DEF StoreSound, Sync!DataState
      <3> QED
        BY <1>c, <2>1, <2>5, <2>6, <2>7, <3>1, OwedBegun
    <2>10. CASE due = "pruned" /\ ~row.known
      <3>1. op' = op /\ row' = row
        BY <1>4, <2>10
      <3> QED
        BY <1>c, <2>1, <2>5, <2>6, <2>7, <3>1, OwedAside
    <2> QED
      BY <1>4, <2>8, <2>9, <2>10
  <1> QED
    BY <1>1, <1>2, <1>3, <1>4

\* Operations of the store that begin, from the engine and beside it: none of them takes what goes up.
LEMMA OwedBegins ==
    ASSUME RowInv, OwedInv, Sync!CreateData \/ Sync!Adopt \/ Sync!EvictData \/ Sync!CutHistory
    PROVE  OwedInv'
  <1> USE DEF Sync!Free, Sync!rest, Sync!engineVars, Sync!serverVars, Sync!boundVars
  <1>0. GoesUp => Alone /\ row.known /\ row.state = "upload_pending" /\ row.have = Chunk
    BY UpWaits
  <1>a. Now.row = row /\ Now.disk = disk /\ (op = <<>> => Outcome = Now)
    BY DEF Now, Outcome, Sync!On
  <1>c. faults = 0 => cache.got # "rotten" /\ Unspoilt(Now)
    BY DEF OwedInv, NoRot
  <1>1. CASE Sync!CreateData
    <2> USE DEF Sync!CreateData, Sync!FinishWriter, Sync!Idle
    <2>1. /\ UNCHANGED <<row, disk, cache, faults, gone, planned, overwritten, due, online, upload, download>>
          /\ op = <<>> /\ due = "nothing" /\ record = "none" /\ record' = "pending"
      BY <1>1
    <2>2. op' \in Seq(Writes) /\ Clean(op')
      BY <1>1, RegisterHeldWrites DEF StoreSound, Sync!DataState
    <2>3. Sequenced' /\ ~Barred' /\ ~GoesUp' /\ ~Cutting'
      BY <2>1 DEF OwedInv, Sequenced, Barred, GoesUp, Cutting
    <2> QED
      BY <1>c, <2>1, <2>2, <2>3, OwedBegun
  <1>2. CASE Sync!Adopt
    <2> USE DEF Sync!Adopt, Sync!AdoptContent
    <2>1. /\ UNCHANGED <<row, disk, cache, faults, gone, overwritten, due, record, online, upload, download>>
          /\ op = <<>> /\ planned /\ ~planned'
      BY <1>2
    <2>2. op' \in Seq(Writes) /\ Clean(op') /\ Off(op')
      BY <1>2, RegisterHeldWrites DEF StoreSound, Sync!DataState
    <2>3. Sequenced' /\ (Barred' => Barred) /\ ~GoesUp' /\ (Cutting' => Cutting)
      BY <1>0, <2>1 DEF OwedInv, Sequenced, Barred, Guarding, GoesUp, Alone, Cutting
    <2> QED
      BY <1>c, <2>1, <2>2, <2>3, OwedBegun
  <1>3. CASE Sync!EvictData
    <2> USE DEF Sync!EvictData, Sync!Evict, Sync!Evictable
    <2> DEFINE state == IF row.state \in {"in_sync", "removed"} THEN "removed" ELSE row.state
    <2>1. /\ UNCHANGED <<row, disk, faults, gone, planned, overwritten, due, record, online, upload, download>>
          /\ op = <<>> /\ row.known /\ row.state # "upload_pending" /\ cache'.got = cache.got
      BY <1>3 DEF RowInv, SyncTypes
    <2>2. state \in Sync!DataState \ {"in_sync", "upload_pending"} /\ Sync!DropChunks(state)
      BY <1>3 DEF RowInv, SyncTypes, Sync!Row, Sync!DataState
    <2> HIDE DEF state
    <2>3. op' \in Seq(Writes) /\ Clean(op') /\ Off(op')
      BY <2>1, <2>2, DropChunksWrites DEF StoreSound
    <2>4. Sequenced' /\ (Barred' => Barred) /\ ~GoesUp' /\ (Cutting' => Cutting)
      BY <1>0, <2>1 DEF OwedInv, Sequenced, Barred, Guarding, GoesUp, Cutting
    <2> QED
      BY <1>c, <2>1, <2>3, <2>4, OwedBegun
  <1>4. CASE Sync!CutHistory
    <2> USE DEF Sync!CutHistory, Sync!Idle
    <2>1. UNCHANGED <<row, disk, cache, faults, gone, planned, overwritten, online, upload, download>> /\ due = "nothing"
      BY <1>4 DEF Sync!storeVars, Sync!Remove
    <2>2. CASE UNCHANGED <<op, record>> /\ op = <<>> /\ due' = "pruned" /\ record = "confirmed" /\ row.state # "upload_pending"
      <3>1. Sequenced' /\ ~GoesUp' /\ ~Cutting' /\ Elsewhere(Now)
        BY <1>0, <1>a, <2>1, <2>2 DEF OwedInv, Sequenced, GoesUp, Cutting, Elsewhere
      <3> QED
        BY <1>c, <2>1, <2>2, <3>1, OwedAside
    <2>3. CASE Sync!Remove /\ record' \in {"cut", "none"} /\ UNCHANGED due /\ record \in {record', "confirmed"}
      <3>1. /\ op = <<>> /\ op' \in Seq(Writes) /\ Clean(op') /\ op' # <<>> /\ Elsewhere(op'[Len(op')])
        BY <2>3, RemoveWrites DEF Sync!Remove, StoreSound
      <3>2. record' = "none" => record = "none"
        BY <1>4, <2>3
      <3>3. Sequenced' /\ ~GoesUp' /\ ~Barred'
        BY <2>1, <2>3, <3>2 DEF OwedInv, Sequenced, GoesUp, Barred, Guarding
      <3> QED
        BY <1>c, <2>1, <2>3, <3>1, <3>3, OwedBegun
    <2> QED
      BY <1>4, <2>2, <2>3 DEF Sync!storeVars
  <1> QED
    BY <1>1, <1>2, <1>3, <1>4

\* A staged chunk is adopted, a handle reads, an upload reads: without a fault nothing is dropped of
\* what goes up.
LEMMA OwedReads ==
    ASSUME RowInv, OwedInv,
           \/ \E c \in Chunk : (Sync!FinishChunk(c) \/ Sync!HandleLoad(c)) /\ UNCHANGED Sync!store
           \/ (Sync!HandleRead \/ Sync!HandleKeep \/ Sync!ChunkFailed) /\ UNCHANGED Sync!store
           \/ \E c \in Chunk : Sync!LoseUp(c)
    PROVE  OwedInv'
  <1> USE DEF Sync!Free, Sync!rest, Sync!store, Sync!engineVars, Sync!serverVars, Sync!boundVars
  <1>0. GoesUp => Alone /\ row.known /\ row.state = "upload_pending" /\ row.have = Chunk /\ \A c \in Chunk : disk[c] = "good"
    BY UpWaits DEF Sync!AllFiles
  <1>a. Now.row = row /\ Now.disk = disk /\ row.have \subseteq Chunk /\ disk \in [Chunk -> Sync!File]
    BY DEF Now, Sync!On, RowInv, SyncTypes, Sync!Row
  <1>c. faults = 0 => cache.got # "rotten" /\ \A c \in Chunk : disk[c] # "rotten"
    BY <1>a DEF OwedInv, NoRot, Unspoilt
  <1>d. /\ faults \in Nat
        /\ cache \in [chunk : Chunk \cup {Sync!NoChunk}, at : Nat, wants : Chunk \cup {Sync!NoChunk},
                      got : {"nothing", "good", "rotten"}]
    BY DEF RowInv, SyncTypes
  <1>e. UNCHANGED Sync!store => (faults' \in {faults, faults + 1} => Sequenced') /\ (GoesUp => Alone')
    BY <1>0, <1>d DEF OwedInv, Sequenced, GoesUp, Alone
  <1>f. UNCHANGED <<Sync!store, faults>> => (Barred' => Barred) /\ (GoesUp' => GoesUp) /\ (Cutting' => Cutting)
    BY DEF Barred, Guarding, GoesUp, Cutting
  <1>1. ASSUME NEW c \in Chunk, Sync!FinishChunk(c), UNCHANGED Sync!store PROVE OwedInv'
    <2> USE DEF Sync!FinishChunk
    <2>1. UNCHANGED <<row, disk, cache, faults>> /\ op = <<>>
      BY <1>1
    <2>2. CASE row.known /\ c \notin row.have
      <3>1. op' \in Seq(Writes) /\ Clean(op') /\ Off(op') /\ KeepsWaiting(op')
        BY <1>1, <2>2, MarkHeldWrites DEF StoreSound
      <3> QED
        BY <1>0, <1>1, <1>c, <1>e, <1>f, <2>1, <3>1, OwedBegun
    <2>3. CASE ~(row.known /\ c \notin row.have)
      <3>1. op' = op
        BY <1>1, <2>3
      <3> QED
        BY <1>0, <1>1, <1>c, <1>e, <1>f, <2>1, <3>1, OwedAside
    <2> QED
      BY <2>2, <2>3
  <1>2. ASSUME NEW c \in Chunk, Sync!HandleLoad(c), UNCHANGED Sync!store PROVE OwedInv'
    <2>1. UNCHANGED <<row, disk, op, faults>> /\ cache'.got = "nothing"
      BY <1>2 DEF Sync!HandleLoad
    <2> QED
      BY <1>2, <1>e, <1>f, <2>1, OwedAside
  <1>3. CASE Sync!HandleRead /\ UNCHANGED Sync!store
    <2> USE DEF Sync!HandleRead
    <2>1. UNCHANGED <<row, disk, faults>> /\ op = <<>>
      BY <1>3
    <2>2. CASE Sync!Readable(cache.wants)
      <3>1. op' = op /\ cache.wants \in Chunk /\ cache'.got = disk[cache.wants]
        BY <1>3, <1>a, <1>d, <2>2 DEF Sync!Readable
      <3> QED
        BY <1>3, <1>c, <1>e, <1>f, <2>1, <3>1, OwedAside
    <2>3. CASE ~Sync!Readable(cache.wants) /\ row.known /\ cache.wants \in row.have
      <3>1. op' \in Seq(Writes) /\ Clean(op') /\ Off(op')
        BY <1>3, <2>3, DropChunkWrites DEF StoreSound
      <3>2. cache'.got = cache.got
        BY <1>3, <1>d, <2>3
      <3>3. ~GoesUp
        BY <1>0, <1>a, <2>3 DEF Sync!Readable
      <3> QED
        BY <1>3, <1>c, <1>e, <1>f, <2>1, <3>1, <3>2, <3>3, OwedBegun
    <2>4. CASE ~Sync!Readable(cache.wants) /\ ~(row.known /\ cache.wants \in row.have)
      <3>1. op' = op /\ cache'.got = cache.got
        BY <1>3, <1>d, <2>4
      <3> QED
        BY <1>3, <1>c, <1>e, <1>f, <2>1, <3>1, OwedAside
    <2> QED
      BY <2>2, <2>3, <2>4
  <1>4. CASE Sync!HandleKeep /\ UNCHANGED Sync!store
    <2>1. UNCHANGED <<row, disk, op, faults>> /\ cache'.got = "nothing"
      BY <1>4, <1>d DEF Sync!HandleKeep
    <2> QED
      BY <1>4, <1>e, <1>f, <2>1, OwedAside
  <1>5. CASE Sync!ChunkFailed /\ UNCHANGED Sync!store
    <2> USE DEF Sync!ChunkFailed, Sync!Unread
    <2>1. UNCHANGED <<row, disk>> /\ op = <<>> /\ (faults' = faults \/ faults' = faults + 1)
      BY <1>5
    <2>2. faults' # 0
      BY <1>5, <1>c, <1>d
    <2>3. op' \in Seq(Writes) /\ Off(op')
      <3>1. CASE row.known /\ row.manifest /\ cache.got = "rotten"
        BY <1>5, <3>1, DropChunkWrites DEF StoreSound
      <3>2. CASE row.known /\ ~(row.manifest /\ cache.got = "rotten")
        BY <1>5, <3>2, InvalidWrites DEF StoreSound, Sync!Begin
      <3>3. CASE ~row.known
        <4>1. op' = <<>> /\ Len(op') = 0
          BY <1>5, <3>3, EmptySeq DEF Sync!Begin
        <4> QED
          BY <4>1, EmptySeq DEF Off
      <3> QED
        BY <3>1, <3>2, <3>3
    <2>4. ~Barred' /\ ~GoesUp' /\ (Cutting' => Cutting)
      BY <1>5, <2>2 DEF Barred, Guarding, GoesUp, Cutting
    <2> QED
      BY <1>5, <1>e, <2>1, <2>2, <2>3, <2>4, OwedBegun
  <1>6. ASSUME NEW c \in Chunk, Sync!LoseUp(c) PROVE OwedInv'
    <2> USE DEF Sync!LoseUp
    <2>1. /\ UNCHANGED <<row, disk, cache, faults, gone, planned, overwritten, due, record, online, download>>
          /\ op = <<>> /\ upload = "asked" /\ upload' = "error"
      BY <1>6 DEF Sync!LostRead, Sync!storeVars
    <2>2. Sequenced' /\ (Barred' => Barred) /\ ~GoesUp' /\ (Cutting' => Cutting)
      BY <2>1 DEF OwedInv, Sequenced, Barred, Guarding, GoesUp, Cutting
    <2>3. CASE Sync!LostRead(c)
      <3>1. op' \in Seq(Writes) /\ Clean(op') /\ Off(op')
        BY <2>3, DropChunkWrites DEF Sync!LostRead, StoreSound
      <3> QED
        BY <1>c, <2>1, <2>2, <3>1, OwedBegun
    <2>4. CASE op' = op
      BY <1>c, <2>1, <2>2, <2>4, OwedAside
    <2> QED
      BY <1>6, <2>3, <2>4 DEF Sync!storeVars
  <1> QED
    BY <1>1, <1>2, <1>3, <1>4, <1>5, <1>6

\* The disk fails, or the process stops: nothing is under way afterwards, or a fault is counted.
LEMMA OwedFaults ==
    ASSUME RowInv, OwedInv, Sync!Restart \/ \E c \in Chunk : Sync!DiskFault(c) /\ UNCHANGED Sync!store
    PROVE  OwedInv'
  <1>1. CASE Sync!Restart
    <2>1. /\ UNCHANGED <<row, disk, faults, overwritten>> /\ op' = <<>> /\ cache'.got = "nothing"
          /\ upload' = "none" /\ download' = "none" /\ ~planned' /\ due' = "nothing"
      BY <1>1 DEF Sync!Restart, Sync!Stop, Sync!NoCache
    <2>2. Now' = Now /\ Len(op') = 0
      BY <2>1, EmptySeq DEF Now
    <2>3. Sequenced' /\ ~Barred' /\ ~GoesUp' /\ ~Cutting'
      BY <2>1 DEF OwedInv, Sequenced, Barred, GoesUp, Cutting
    <2>4. NoRot'
      BY <2>1, <2>2 DEF OwedInv, NoRot, Unspoilt
    <2> QED
      BY <2>3, <2>4 DEF OwedInv, TakesOthers, StaysWaiting, CutEnds
  <1>2. ASSUME NEW c \in Chunk, Sync!DiskFault(c), UNCHANGED Sync!store PROVE OwedInv'
    <2> USE DEF Sync!DiskFault, Sync!Free, Sync!store, Sync!engineVars, Sync!serverVars, Sync!boundVars
    <2>1. faults \in Nat /\ faults' = faults + 1
      BY <1>2 DEF RowInv, SyncTypes
    <2>2. faults' > 0 /\ faults' # 0
      BY <2>1
    <2>3. Sequenced' /\ NoRot' /\ ~Barred' /\ ~GoesUp' /\ (Cutting' => Cutting)
      BY <1>2, <2>2 DEF OwedInv, Sequenced, NoRot, Barred, Guarding, GoesUp, Cutting
    <2>4. Outcome'.row = Outcome.row
      BY <1>2 DEF Outcome, Now, Sync!On
    <2> QED
      BY <2>3, <2>4 DEF OwedInv, TakesOthers, StaysWaiting, CutEnds, Elsewhere
  <1> QED
    BY <1>1, <1>2

-----------------------------------------------------------------------------
(* The two parts of the invariant together *)

\* The empty store has the invariant.
LEMMA SyncInitially == Sync!Init => SyncInv
  BY RowInitially, OwedInitially DEF SyncInv

\* Every step of the data sync keeps the row and the files as they are claimed.
LEMMA RowStep == SyncInv /\ Sync!Next => RowInv'
  <1> SUFFICES ASSUME SyncInv, Sync!Next PROVE RowInv'
    OBVIOUS
  <1> RowInv /\ (due = "pruned" /\ Guarding => row.state # "upload_pending")
    BY DEF SyncInv, OwedInv, TakesOthers, Barred, Elsewhere, Now, Sync!On
  <1>1. CASE Sync!StoreStep
    BY <1>1, WriteStep, FinishChunkStep DEF Sync!StoreStep
  <1>2. CASE Sync!HandleStep
    BY <1>2, HandleLoadStep, HandleReadStep, HandleKeepStep, ChunkFailedStep DEF Sync!HandleStep
  <1>3. CASE Sync!TransferStep
    BY <1>3, OpenDownloadStep, AsideSteps, LoseUpStep DEF Sync!TransferStep
  <1>4. CASE Sync!EngineStep
    BY <1>4, AsideSteps, DownloadAnsweredStep, WriteDueStep DEF Sync!EngineStep
  <1>5. CASE \/ Sync!Connect \/ Sync!Disconnect \/ Sync!Restart \/ Sync!CreateData \/ Sync!Confirm \/ Sync!CutHistory
             \/ Sync!PlanAdoption \/ Sync!Adopt \/ Sync!Fetch \/ Sync!EvictData \/ Sync!ServerPrunes \/ Sync!Fail
    BY <1>5, AsideSteps, SyncRestartStep, CreateDataStep, ConfirmStep, CutHistoryStep, AdoptStep, EvictDataStep
  <1>6. CASE \E c \in Chunk : Sync!OtherUploads(c) \/ (Sync!DiskFault(c) /\ UNCHANGED Sync!store)
    BY <1>6, AsideSteps, DiskFaultStep
  <1> QED
    BY <1>1, <1>2, <1>3, <1>4, <1>5, <1>6 DEF Sync!Next

\* And what is owed.
LEMMA OwedStep == SyncInv /\ Sync!Next => OwedInv'
  <1> SUFFICES ASSUME SyncInv, Sync!Next PROVE OwedInv'
    OBVIOUS
  <1> RowInv /\ OwedInv
    BY DEF SyncInv
  <1>1. CASE Sync!StoreStep \/ Sync!HandleStep
    BY <1>1, OwedWrite, OwedReads DEF Sync!StoreStep, Sync!HandleStep
  <1>2. CASE Sync!TransferStep
    BY <1>2, OwedRows, OwedMoves, OwedReads DEF Sync!TransferStep
  <1>3. CASE Sync!EngineStep
    BY <1>3, OwedFinds, OwedRows DEF Sync!EngineStep
  <1>4. CASE \/ Sync!Connect \/ Sync!Disconnect \/ Sync!Restart \/ Sync!CreateData \/ Sync!Confirm \/ Sync!CutHistory
             \/ Sync!PlanAdoption \/ Sync!Adopt \/ Sync!Fetch \/ Sync!EvictData \/ Sync!ServerPrunes \/ Sync!Fail
    BY <1>4, OwedFinds, OwedMoves, OwedFaults, OwedBegins, OwedRows
  <1>5. CASE \E c \in Chunk : Sync!OtherUploads(c) \/ (Sync!DiskFault(c) /\ UNCHANGED Sync!store)
    BY <1>5, OwedMoves, OwedFaults
  <1> QED
    BY <1>1, <1>2, <1>3, <1>4, <1>5 DEF Sync!Next

\* Every step of the data sync keeps the invariant.
LEMMA SyncStep == SyncInv /\ Sync!Next => SyncInv'
  BY RowStep, OwedStep DEF SyncInv

\* So does a step of another part.
LEMMA SyncStutter == SyncInv /\ UNCHANGED syncVars => SyncInv'
  <1> SUFFICES ASSUME SyncInv, UNCHANGED syncVars PROVE SyncInv'
    OBVIOUS
  <1> USE DEF syncVars
  <1>1. RestTyped' /\ PrunedIsGone' /\ (Guarding' => Guarding)
    BY DEF SyncInv, RowInv, SyncTypes, RestTyped, PrunedIsGone, Guarding
  <1>2. RowInv'
    BY <1>1, StoreAside DEF SyncInv
  <1>3. /\ Sequenced' /\ (faults' = 0 => faults = 0 /\ cache'.got # "rotten") /\ (Barred' => Barred)
        /\ (GoesUp' => Alone' /\ GoesUp) /\ (Cutting' => Cutting)
    BY DEF SyncInv, OwedInv, Sequenced, NoRot, Barred, Guarding, StaysWaiting, GoesUp, Alone, Cutting
  <1>4. OwedInv'
    BY <1>3, OwedAside DEF SyncInv
  <1> QED
    BY <1>2, <1>4 DEF SyncInv

\* The invariant has what the runs check.
LEMMA SyncImplied == SyncInv => Sync!TypeOK /\ Sync!CacheIsHeld /\ Sync!FilesAsClaimed /\ Sync!OnlyCopyKept
  <1> SUFFICES ASSUME SyncInv PROVE Sync!TypeOK /\ Sync!CacheIsHeld /\ Sync!FilesAsClaimed /\ Sync!OnlyCopyKept
    OBVIOUS
  <1>1. Now.row = row /\ Now.disk = disk /\ (op = <<>> => Outcome = Now)
    BY DEF Now, Outcome, Sync!On
  <1>2. Sync!TypeOK
    BY DEF SyncInv, RowInv, SyncTypes, Sync!TypeOK, Sync!StoreTypeOK
  <1>3. Sync!CacheIsHeld
    BY <1>1 DEF SyncInv, RowInv, SyncTypes, AllServed, Served, Has, Sync!CacheIsHeld
  <1>4. Sync!FilesAsClaimed
    BY <1>1 DEF SyncInv, RowInv, OwedInv, Sequenced, AllLed, Led, EndsClaimed, Claimed, Sync!FilesAsClaimed, Sync!Free, Sync!Complete
  <1>5. Sync!OnlyCopyKept
    BY <1>1 DEF SyncInv, RowInv, AllKept, CopyKept, Sync!OnlyCopyKept, Sync!Free
  <1> QED
    BY <1>2, <1>3, <1>4, <1>5

-----------------------------------------------------------------------------
(* The inductive invariant *)

\* the packets of a queue
Of(s) == {s[i] : i \in 1..Len(s)}

Announcements == [kind : {"announce"}, begin : BOOLEAN, end : BOOLEAN, entries : SUBSET (Item \X {"full", "part"})]
RecordPacket == Announcements \cup [kind : {"ask"}, x : Item]
HolderPacket == [kind : {"replicate", "release"}, x : Item] \cup [kind : {"ticket"}, x : Item, from : SUBSET Holder]
Uploading == [at : {"idle"}] \cup [at : {"open", "news"}, x : Item] \cup [at : {"begun", "staged"}, x : Item, c : Slice]
             \cup [at : {"kept"}, x : Item, complete : BOOLEAN]

RecordTypes ==
    /\ standing \in [Item -> {"committed", "pruned"}]
    /\ toRelease \subseteq Item
    /\ table \in [Item -> [Holder -> {"none", "part", "full"}]]
    /\ plan \in [Copies!Strand -> [copies : SUBSET (Holder \X Item), stale : SUBSET Item]]
LinkTypes ==
    /\ wire \in [Holder -> {"down", "viewing", "up"}]
    /\ view \in [Holder -> Seq(Announcements)]
    /\ toRecord \in [Holder -> Seq(RecordPacket)]
    /\ toHolder \in [Holder -> Seq(HolderPacket)]
StoreTypes ==
    /\ known \in [Holder -> SUBSET Item]
    /\ have \in [Holder -> [Item -> SUBSET Slice]]
    /\ touched \in [Holder -> [Item -> {"none", "fresh", "old"}]]
    /\ usedUnits \in [Holder -> Nat]
    /\ inProgress \in [Holder -> Nat]

\* the data with an activity
Busy(d) == {x \in Item : touched[d][x] # "none"}

\* the counters are those of the tables, within the quota, and chunks have a row
Reserved(d) == usedUnits[d] = Cardinality(known[d]) /\ usedUnits[d] <= Quota
Accounted(d) == inProgress[d] = Cardinality(Busy(d))
ChunksHaveRow(d) == \A x \in Item : have[d][x] # {} => x \in known[d]
Counts(d) == Reserved(d) /\ Accounted(d) /\ ChunksHaveRow(d)

\* what packet p of d says is held is held, as far as it is committed
Honest(d, p) ==
    p.kind = "announce" =>
        \A x \in Item : <<x, "full">> \in p.entries /\ standing[x] = "committed" => Copies!Full(d, x)

\* only what the storage let go is to be released
LetGo ==
    /\ \A x \in toRelease : standing[x] = "pruned"
    /\ \A s \in Copies!Strand : \A x \in plan[s].stale : standing[x] = "pruned"
    /\ \A d \in Holder : \A p \in Of(toHolder[d]) : p.kind = "release" => standing[p.x] = "pruned"

\* a data the storage let go is still listed only where its release is to come
ToBeWithdrawn(x) == x \in toRelease \/ \E s \in Copies!Strand : x \in plan[s].stale
Listing ==
    \A x \in Item, d \in Holder :
        table[x][d] = "full" => IF standing[x] = "committed" THEN Copies!Full(d, x) ELSE ToBeWithdrawn(x)

Announcing == \A d \in Holder : \A p \in Of(toRecord[d]) \cup Of(view[d]) : Honest(d, p)

StoreInv == StoreTypes /\ client \in [Holder -> Uploading] /\ \A d \in Holder : Counts(d)
CopiesInv == RecordTypes /\ LinkTypes /\ StoreInv /\ LetGo /\ Listing /\ Announcing

-----------------------------------------------------------------------------
(* Sets and queues *)

\* The counts DataCopies takes are those of the standard library.
LEMMA HeldAreCounted == \A S : Copies!Cardinality(S) = Cardinality(S)
  BY DEF Copies!Cardinality, Cardinality

\* The data of a store are finitely many.
LEMMA ItemsFinite == ASSUME NEW S, S \subseteq Item PROVE IsFiniteSet(S) /\ Cardinality(S) \in Nat
  BY CopiesAssumption, FS_Subset, FS_CardinalityType

\* SetToSeq lists members of its set.
LEMMA ListOfSet ==
    ASSUME NEW S, S \subseteq Item
    PROVE  /\ Copies!SetToSeq(S) \in [1..Cardinality(S) -> S] /\ Cardinality(S) \in Nat
           /\ Copies!SetToSeq(S) \in Seq(S) /\ Len(Copies!SetToSeq(S)) = Cardinality(S)
  <1>1. IsFiniteSet(S) /\ Cardinality(S) \in Nat
    BY ItemsFinite
  <1>2. PICK f : f \in Bijection(1..Cardinality(S), S)
    BY <1>1, FS_CardinalityType DEF ExistsBijection
  <1>3. f \in [1..Cardinality(S) -> S] /\ Copies!IsInjective(f)
    BY <1>2 DEF Bijection, Injection, IsInjective, Copies!IsInjective
  <1>4. Copies!SetToSeq(S) \in [1..Cardinality(S) -> S]
    BY <1>3, HeldAreCounted DEF Copies!SetToSeq
  <1> QED
    BY <1>1, <1>4

\* The packets of a queue after one is put at its end, or the first is taken.
LEMMA QueueEmpty == Of(<<>>) = {}
  BY DEF Of
LEMMA QueueJoin ==
    ASSUME NEW S, NEW s \in Seq(S), NEW t \in Seq(S)
    PROVE  s \o t \in Seq(S) /\ Of(s \o t) \subseteq Of(s) \cup Of(t)
  <1> SUFFICES ASSUME NEW i \in 1..Len(s \o t) PROVE (s \o t)[i] \in Of(s) \cup Of(t)
    BY ConcatProperties DEF Of
  <1>1. i \in 1..(Len(s) + Len(t)) /\ Len(s) \in Nat /\ Len(t) \in Nat
    BY ConcatProperties, LenProperties
  <1>2. CASE i <= Len(s)
    <2>1. (s \o t)[i] = s[i] /\ i \in 1..Len(s)
      BY <1>1, <1>2, ConcatProperties
    <2> QED
      BY <2>1 DEF Of
  <1>3. CASE ~(i <= Len(s))
    <2>1. (s \o t)[i] = t[i - Len(s)] /\ i - Len(s) \in 1..Len(t)
      BY <1>1, <1>3, ConcatProperties
    <2> QED
      BY <2>1 DEF Of
  <1> QED
    BY <1>2, <1>3
LEMMA QueueAppend ==
    ASSUME NEW S, NEW s \in Seq(S), NEW e \in S
    PROVE  Append(s, e) \in Seq(S) /\ Of(Append(s, e)) \subseteq Of(s) \cup {e}
  <1> SUFFICES ASSUME NEW i \in 1..Len(Append(s, e)) PROVE Append(s, e)[i] \in Of(s) \cup {e}
    BY AppendProperties DEF Of
  <1>1. i \in 1..(Len(s) + 1) /\ Len(s) \in Nat
    BY AppendProperties, LenProperties
  <1>2. CASE i \in 1..Len(s)
    BY <1>2, AppendProperties DEF Of
  <1>3. CASE i = Len(s) + 1
    BY <1>3, AppendProperties
  <1> QED
    BY <1>1, <1>2, <1>3
LEMMA QueueTake ==
    ASSUME NEW S, NEW s \in Seq(S), s # <<>>
    PROVE  /\ Head(s) \in S /\ Tail(s) \in Seq(S)
           /\ Head(s) \in Of(s) /\ Of(Tail(s)) \subseteq Of(s)
  <1>1. Len(s) \in Nat \ {0} /\ Head(s) = s[1]
    BY EmptySeq
  <1>2. Head(s) \in S /\ Tail(s) \in Seq(S) /\ Len(Tail(s)) = Len(s) - 1
    BY HeadTailProperties
  <1>3. ASSUME NEW i \in 1..Len(Tail(s)) PROVE Tail(s)[i] = s[i + 1] /\ i + 1 \in 1..Len(s)
    BY <1>1, <1>2, HeadTailProperties
  <1> QED
    BY <1>1, <1>2, <1>3 DEF Of

-----------------------------------------------------------------------------
(* The store *)

\* touch_activity counts an upload once.
LEMMA TouchCounted ==
    ASSUME StoreTypes, \A e \in Holder : Accounted(e), NEW d \in Holder, NEW x \in Item, Copies!Touch(d, x)
    PROVE  /\ touched' \in [Holder -> [Item -> {"none", "fresh", "old"}]] /\ inProgress' \in [Holder -> Nat]
           /\ \A e \in Holder : Accounted(e)'
  <1> USE DEF Copies!Touch, StoreTypes
  <1>1. touched' \in [Holder -> [Item -> {"none", "fresh", "old"}]] /\ inProgress' \in [Holder -> Nat]
    OBVIOUS
  <1>2. ASSUME NEW e \in Holder PROVE Accounted(e)'
    <2>1. CASE e # d
      <3>1. Busy(e)' = Busy(e) /\ inProgress'[e] = inProgress[e]
        BY <2>1 DEF Busy
      <3> QED
        BY <3>1 DEF Accounted
    <2>2. CASE e = d
      <3>1. Busy(d)' = Busy(d) \cup {x} /\ (x \in Busy(d) <=> touched[d][x] # "none")
        BY DEF Busy
      <3>2. IsFiniteSet(Busy(d))
        BY ItemsFinite DEF Busy
      <3>3. Cardinality(Busy(d) \cup {x}) = IF x \in Busy(d) THEN Cardinality(Busy(d)) ELSE Cardinality(Busy(d)) + 1
        BY <3>2, FS_AddElement
      <3>4. inProgress'[d] = IF touched[d][x] = "none" THEN inProgress[d] + 1 ELSE inProgress[d]
        OBVIOUS
      <3> QED
        BY <2>2, <3>1, <3>3, <3>4 DEF Accounted
    <2> QED
      BY <2>1, <2>2
  <1> QED
    BY <1>1, <1>2

\* Forgetting data takes off the counter what had an activity, and no more.
LEMMA ForgetCounted ==
    ASSUME StoreTypes, \A e \in Holder : Accounted(e), NEW d \in Holder, NEW data \in SUBSET Item,
           Copies!Forget(d, data)
    PROVE  /\ touched' \in [Holder -> [Item -> {"none", "fresh", "old"}]] /\ inProgress' \in [Holder -> Nat]
           /\ \A e \in Holder : Accounted(e)'
  <1> USE DEF Copies!Forget, StoreTypes
  <1>1. touched' \in [Holder -> [Item -> {"none", "fresh", "old"}]]
    OBVIOUS
  <1> DEFINE off == {x \in data : touched[d][x] # "none"}
  <1>2. Busy(d)' = Busy(d) \ off /\ off \subseteq Busy(d) /\ Busy(d) \subseteq Item
    BY DEF Busy
  <1>3. inProgress'[d] = inProgress[d] - Cardinality(off)
    BY HeldAreCounted
  <1>4. Cardinality(Busy(d) \ off) = Cardinality(Busy(d)) - Cardinality(off) /\ Cardinality(Busy(d) \ off) \in Nat
    <2>1. IsFiniteSet(Busy(d)) /\ IsFiniteSet(Busy(d) \ off) /\ IsFiniteSet(off)
          /\ Cardinality(Busy(d) \ off) \in Nat
      BY <1>2, ItemsFinite
    <2>2. Cardinality(Busy(d) \ off) = Cardinality(Busy(d)) - Cardinality(Busy(d) \cap off) 
      BY <2>1, FS_Difference
    <2>3. Busy(d) \cap off = off
      BY <1>2
    <2> QED
      BY <2>1, <2>2, <2>3
  <1> HIDE DEF off
  <1>5. ASSUME NEW e \in Holder PROVE inProgress'[e] \in Nat /\ Accounted(e)'
    <2>1. CASE e # d
      <3>1. Busy(e)' = Busy(e) /\ inProgress'[e] = inProgress[e]
        BY <2>1 DEF Busy
      <3> QED
        BY <3>1 DEF Accounted
    <2>2. CASE e = d
      BY <2>2, <1>2, <1>3, <1>4 DEF Accounted
    <2> QED
      BY <2>1, <2>2
  <1>6. DOMAIN inProgress' = Holder /\ inProgress' = [e \in Holder |-> inProgress'[e]]
    OBVIOUS
  <1> QED
    BY <1>1, <1>5, <1>6

\* Dropping data gives back the reservation of every row that goes, and the chunks go with it.
LEMMA DropCounted ==
    ASSUME StoreTypes, \A e \in Holder : Reserved(e) /\ ChunksHaveRow(e), NEW d \in Holder,
           NEW data \in SUBSET Item, Copies!Drop(d, data)
    PROVE  /\ known' \in [Holder -> SUBSET Item] /\ have' \in [Holder -> [Item -> SUBSET Slice]]
           /\ usedUnits' \in [Holder -> Nat]
           /\ \A e \in Holder : Reserved(e)' /\ ChunksHaveRow(e)'
  <1> USE DEF Copies!Drop, StoreTypes
  <1>1. known' \in [Holder -> SUBSET Item] /\ have' \in [Holder -> [Item -> SUBSET Slice]]
    OBVIOUS
  <1>2. known'[d] = known[d] \ data
    OBVIOUS
  <1>3. usedUnits'[d] = usedUnits[d] - Cardinality(data \cap known[d])
    BY HeldAreCounted
  <1>4. Cardinality(known[d] \ data) = Cardinality(known[d]) - Cardinality(data \cap known[d])
    <2>1. IsFiniteSet(known[d])
      BY ItemsFinite
    <2>2. data \cap known[d] = known[d] \cap data
      OBVIOUS
    <2> QED
      BY ZenonT(60), <2>1, <2>2, FS_Difference
  <1>5. Cardinality(known[d] \ data) \in Nat /\ Cardinality(data \cap known[d]) \in Nat /\ Cardinality(known[d]) \in Nat
    BY ItemsFinite
  <1>6. ASSUME NEW e \in Holder PROVE usedUnits'[e] \in Nat /\ Reserved(e)'
    <2>1. CASE e # d
      BY <2>1 DEF Reserved
    <2>2. CASE e = d
      BY <2>2, <1>2, <1>3, <1>4, <1>5, CopiesAssumption DEF Reserved
    <2> QED
      BY <2>1, <2>2
  <1>7. ASSUME NEW e \in Holder PROVE ChunksHaveRow(e)'
    BY DEF ChunksHaveRow
  <1>8. DOMAIN usedUnits' = Holder /\ usedUnits' = [e \in Holder |-> usedUnits'[e]]
    OBVIOUS
  <1> QED
    BY <1>1, <1>6, <1>7, <1>8

\* An open that is not refused reserves once, within the quota.
LEMMA OpenedCounted ==
    ASSUME StoreTypes, \A e \in Holder : Counts(e), NEW d \in Holder, NEW x \in Item,
           Copies!Opened(d, x), ~Copies!Refused(d, x)
    PROVE  StoreTypes' /\ \A e \in Holder : Counts(e)'
  <1>1. have' = have /\ known' = [known EXCEPT ![d] = @ \cup {x}]
        /\ usedUnits' = [usedUnits EXCEPT ![d] = IF x \in known[d] THEN @ ELSE @ + 1]
    BY DEF Copies!Opened
  <1>2. known' \in [Holder -> SUBSET Item] /\ have' \in [Holder -> [Item -> SUBSET Slice]]
        /\ usedUnits' \in [Holder -> Nat]
    BY <1>1 DEF StoreTypes
  <1>3. /\ touched' \in [Holder -> [Item -> {"none", "fresh", "old"}]] /\ inProgress' \in [Holder -> Nat]
        /\ \A e \in Holder : Accounted(e)'
    <2>1. CASE Copies!Touch(d, x)
      BY <2>1, TouchCounted DEF Counts
    <2>2. CASE touched' = touched /\ inProgress' = inProgress
      BY <2>2 DEF Counts, Accounted, Busy, StoreTypes
    <2> QED
      BY <2>1, <2>2 DEF Copies!Opened
  <1>4. ASSUME NEW e \in Holder PROVE Reserved(e)'
    <2>1. CASE e # d
      BY <2>1, <1>1 DEF Reserved, Counts, StoreTypes
    <2>2. CASE e = d
      <3>1. known'[d] = known[d] \cup {x} /\ usedUnits'[d] = IF x \in known[d] THEN usedUnits[d] ELSE usedUnits[d] + 1
        BY <1>1 DEF StoreTypes
      <3>2. IsFiniteSet(known[d])
        BY ItemsFinite DEF StoreTypes
      <3>3. Cardinality(known[d] \cup {x}) = IF x \in known[d] THEN Cardinality(known[d]) ELSE Cardinality(known[d]) + 1
        BY <3>2, FS_AddElement
      <3>4. usedUnits[d] \in Nat /\ usedUnits[d] = Cardinality(known[d]) /\ usedUnits[d] <= Quota
            /\ (x \in known[d] \/ ~(usedUnits[d] + 1 > Quota))
        BY DEF StoreTypes, Counts, Reserved, Copies!Refused
      <3> QED
        BY <2>2, <3>1, <3>3, <3>4, CopiesAssumption DEF Reserved
    <2> QED
      BY <2>1, <2>2
  <1>5. ASSUME NEW e \in Holder PROVE ChunksHaveRow(e)'
    BY <1>1 DEF ChunksHaveRow, Counts, StoreTypes
  <1> QED
    BY <1>2, <1>3, <1>4, <1>5 DEF StoreTypes, Counts

-----------------------------------------------------------------------------
(* What a step leaves true *)

\* what is held of a committed data stays held
KeepsFull == \A d \in Holder, x \in Item : Copies!Full(d, x) /\ standing[x] = "committed" => Copies!Full(d, x)'

RecordAside == standing' = standing /\ toRelease' = toRelease /\ table' = table /\ plan' = plan
HolderAside == known' = known /\ have' = have /\ touched' = touched /\ usedUnits' = usedUnits /\ inProgress' = inProgress
LinkAside == wire' = wire /\ view' = view /\ toRecord' = toRecord /\ toHolder' = toHolder

\* what a step puts on the links: no release, and no announcement that is not true
NoNewRelease == \A d \in Holder : \A p \in Of(toHolder'[d]) : p \in Of(toHolder[d]) \/ p.kind # "release"
NewsHonest ==
    \A d \in Holder : \A p \in Of(toRecord'[d]) \cup Of(view'[d]) :
        p \in Of(toRecord[d]) \cup Of(view[d]) \/ Honest(d, p)'

\* A step beside the record server keeps the invariant when the store and the links stay in order.
LEMMA BesideTheRecord ==
    ASSUME CopiesInv, RecordAside, StoreInv', LinkTypes', KeepsFull, NoNewRelease, NewsHonest
    PROVE  CopiesInv'
  <1>1. RecordTypes'
    BY DEF CopiesInv, RecordTypes, RecordAside, Copies!Strand, Copies!Timer
  <1>2. LetGo'
    <2>1. (\A x \in toRelease' : standing'[x] = "pruned")
          /\ (\A s \in Copies!Strand' : \A x \in plan'[s].stale : standing'[x] = "pruned")
      BY DEF CopiesInv, LetGo, RecordAside, Copies!Strand, Copies!Timer
    <2>2. ASSUME NEW d \in Holder, NEW p \in Of(toHolder'[d]), p.kind = "release"
          PROVE  standing'[p.x] = "pruned"
      BY <2>2 DEF CopiesInv, LetGo, RecordAside, NoNewRelease
    <2> QED
      BY <2>1, <2>2 DEF LetGo, Of
  <1>3. Listing'
    <2> SUFFICES ASSUME NEW x \in Item, NEW d \in Holder, table'[x][d] = "full"
                 PROVE  IF standing'[x] = "committed" THEN Copies!Full(d, x)' ELSE ToBeWithdrawn(x)'
      BY DEF Listing, Copies!Full
    <2>1. IF standing[x] = "committed" THEN Copies!Full(d, x) ELSE ToBeWithdrawn(x)
      BY DEF CopiesInv, Listing, RecordAside
    <2>2. ToBeWithdrawn(x)' <=> ToBeWithdrawn(x)
      BY DEF ToBeWithdrawn, RecordAside, Copies!Strand, Copies!Timer
    <2> QED
      BY <2>1, <2>2 DEF KeepsFull, RecordAside
  <1>4. Announcing'
    <2> SUFFICES ASSUME NEW d \in Holder, NEW p \in Of(toRecord'[d]) \cup Of(view'[d]) PROVE Honest(d, p)'
      BY DEF Announcing, Of
    <2>1. CASE p \in Of(toRecord[d]) \cup Of(view[d])
      <3>1. Honest(d, p)
        BY <2>1 DEF CopiesInv, Announcing
      <3> QED
        BY <3>1 DEF Honest, KeepsFull, RecordAside
    <2> QED
      BY <2>1 DEF NewsHonest
  <1> QED
    BY <1>1, <1>2, <1>3, <1>4 DEF CopiesInv

LEMMA LinksInOrder == ASSUME CopiesInv, LinkAside PROVE LinkTypes' /\ NoNewRelease /\ NewsHonest
  BY DEF CopiesInv, LinkTypes, LinkAside, NoNewRelease, NewsHonest

LEMMA StoreInOrder ==
    ASSUME CopiesInv, HolderAside, client' \in [Holder -> Uploading]
    PROVE  StoreInv' /\ KeepsFull
  <1>1. StoreTypes' /\ \A d \in Holder : Counts(d)'
    BY DEF CopiesInv, StoreInv, HolderAside, StoreTypes, Counts, Reserved, Accounted, ChunksHaveRow, Busy
  <1>2. KeepsFull
    BY DEF KeepsFull, HolderAside, Copies!Full
  <1> QED
    BY <1>1, <1>2 DEF StoreInv

\* Dropping data nothing of which is both committed and complete.
LEMMA DropKeepsFull ==
    ASSUME StoreTypes, NEW d \in Holder, NEW data \in SUBSET Item, Copies!Drop(d, data),
           \A x \in data : standing[x] = "committed" => ~Copies!Full(d, x)
    PROVE  KeepsFull
  BY DEF KeepsFull, Copies!Full, Copies!Drop, StoreTypes

-----------------------------------------------------------------------------
(* The steps of uploads, expiry and pulls that use no link *)

\* Steps that work on the store alone.
LEMMA StoreStepKeeps ==
    ASSUME CopiesInv, RecordAside, LinkAside, StoreInv', KeepsFull PROVE CopiesInv'
  BY BesideTheRecord, LinksInOrder

LEMMA AgeKeeps ==
    ASSUME CopiesInv, NEW d \in Holder, NEW x \in Item, Copies!Age(d, x) PROVE CopiesInv'
  <1> USE DEF Copies!Age, Copies!recordVars
  <1>1. RecordAside /\ LinkAside /\ known' = known /\ have' = have /\ usedUnits' = usedUnits
        /\ inProgress' = inProgress /\ client' = client
    BY DEF RecordAside, LinkAside
  <1>2. StoreTypes /\ StoreTypes'
    BY <1>1 DEF CopiesInv, StoreInv, StoreTypes
  <1>3. \A e \in Holder : Busy(e)' = Busy(e)
    BY <1>2 DEF Busy, StoreTypes
  <1>4. \A e \in Holder : Counts(e)'
    BY <1>1, <1>3 DEF CopiesInv, StoreInv, Counts, Reserved, Accounted, ChunksHaveRow
  <1>5. KeepsFull
    BY <1>1 DEF KeepsFull, Copies!Full
  <1>6. StoreInv'
    BY <1>1, <1>2, <1>4 DEF CopiesInv, StoreInv
  <1> QED
    BY <1>1, <1>5, <1>6, StoreStepKeeps

LEMMA ExpireUploadsKeeps ==
    ASSUME CopiesInv, NEW d \in Holder, Copies!ExpireIncomplete(d) PROVE CopiesInv'
  <1> DEFINE old == Copies!Untouched(d)
             expired == {x \in Copies!Untouched(d) : ~Copies!Full(d, x)}
  <1>1. RecordAside /\ LinkAside /\ client' = client /\ Copies!Forget(d, old) /\ Copies!Drop(d, expired)
    BY DEF RecordAside, LinkAside, Copies!ExpireIncomplete, Copies!recordVars
  <1>2. old \in SUBSET Item /\ expired \in SUBSET Item /\ \A x \in expired : ~Copies!Full(d, x)
    BY DEF Copies!Untouched
  <1>3. StoreTypes /\ \A e \in Holder : Reserved(e) /\ Accounted(e) /\ ChunksHaveRow(e)
    BY DEF CopiesInv, StoreInv, Counts
  <1> HIDE DEF old, expired
  <1>4. StoreInv'
    BY <1>1, <1>2, <1>3, ForgetCounted, DropCounted DEF CopiesInv, StoreInv, Counts, StoreTypes
  <1>5. KeepsFull
    BY <1>1, <1>2, <1>3, DropKeepsFull
  <1> QED
    BY <1>1, <1>4, <1>5, StoreStepKeeps

LEMMA OpenKeepsFull ==
    ASSUME StoreTypes, NEW d \in Holder, NEW x \in Item, Copies!Opened(d, x) PROVE KeepsFull
  BY DEF KeepsFull, Copies!Full, Copies!Opened, StoreTypes

LEMMA OpenUploadKeeps ==
    ASSUME CopiesInv, NEW d \in Holder, NEW x \in Item, Copies!OpenUpload(d, x) PROVE CopiesInv'
  <1>1. RecordAside /\ LinkAside
    BY DEF RecordAside, LinkAside, Copies!OpenUpload, Copies!recordVars
  <1>2. CASE Copies!Refused(d, x)
    <2>1. HolderAside /\ client' = client
      BY <1>2 DEF HolderAside, Copies!OpenUpload, Copies!storeVars
    <2> QED
      BY <1>1, <2>1, StoreInOrder, StoreStepKeeps DEF CopiesInv, StoreInv
  <1>3. CASE ~Copies!Refused(d, x)
    <2>1. Copies!Opened(d, x) /\ client' = [client EXCEPT ![d] = [at |-> "open", x |-> x]]
      BY <1>3 DEF Copies!OpenUpload, Copies!Upload
    <2>2. StoreTypes /\ \A e \in Holder : Counts(e)
      BY DEF CopiesInv, StoreInv
    <2>3. client' \in [Holder -> Uploading]
      BY <2>1 DEF CopiesInv, StoreInv, Uploading
    <2>4. StoreInv' /\ KeepsFull
      BY <1>3, <2>1, <2>2, <2>3, OpenedCounted, OpenKeepsFull DEF StoreInv
    <2> QED
      BY <1>1, <2>4, StoreStepKeeps
  <1> QED
    BY <1>2, <1>3

LEMMA BeginChunkKeeps ==
    ASSUME CopiesInv, NEW d \in Holder, NEW c \in Slice, Copies!BeginChunk(d, c) PROVE CopiesInv'
  <1>1. RecordAside /\ LinkAside /\ HolderAside
    BY DEF RecordAside, LinkAside, HolderAside, Copies!BeginChunk, Copies!recordVars, Copies!storeVars
  <1>2. client[d] \in Uploading /\ client[d].at = "open"
    BY DEF CopiesInv, StoreInv, Copies!BeginChunk
  <1>3. client[d].x \in Item
    BY <1>2 DEF Uploading
  <1>4. client' = [client EXCEPT ![d] = [at |-> "begun", x |-> client[d].x, c |-> c]]
        \/ client' = [client EXCEPT ![d] = [at |-> "idle"]]
    BY DEF Copies!BeginChunk, Copies!Upload, Copies!NoUpload
  <1>5. client' \in [Holder -> Uploading]
    BY <1>3, <1>4 DEF CopiesInv, StoreInv, Uploading
  <1> QED
    BY <1>1, <1>5, StoreInOrder, StoreStepKeeps

LEMMA LeaveUploadKeeps ==
    ASSUME CopiesInv, NEW d \in Holder, Copies!LeaveUpload(d) PROVE CopiesInv'
  <1>1. RecordAside /\ LinkAside /\ HolderAside
    BY DEF RecordAside, LinkAside, HolderAside, Copies!LeaveUpload, Copies!recordVars, Copies!storeVars
  <1>2. client' \in [Holder -> Uploading]
    BY DEF CopiesInv, StoreInv, Uploading, Copies!LeaveUpload, Copies!Upload, Copies!NoUpload
  <1> QED
    BY <1>1, <1>2, StoreInOrder, StoreStepKeeps

\* Steps that touch or forget one data's activity and leave the rows alone.
LEMMA ActivityKeeps ==
    ASSUME CopiesInv, RecordAside, LinkAside, known' = known, have' = have, usedUnits' = usedUnits,
           client' \in [Holder -> Uploading], NEW d \in Holder, NEW x \in Item,
           Copies!Touch(d, x) \/ Copies!Forget(d, {x})
    PROVE  CopiesInv'
  <1>1. StoreTypes /\ \A e \in Holder : Accounted(e)
    BY DEF CopiesInv, StoreInv, Counts
  <1>2. {x} \in SUBSET Item
    OBVIOUS
  <1>3. /\ touched' \in [Holder -> [Item -> {"none", "fresh", "old"}]] /\ inProgress' \in [Holder -> Nat]
        /\ \A e \in Holder : Accounted(e)'
    BY <1>1, <1>2, TouchCounted, ForgetCounted
  <1>4. \A e \in Holder : Reserved(e)' /\ ChunksHaveRow(e)'
    BY DEF CopiesInv, StoreInv, Counts, Reserved, ChunksHaveRow
  <1>5. StoreInv'
    BY <1>1, <1>3, <1>4 DEF StoreInv, StoreTypes, Counts
  <1>6. KeepsFull
    BY DEF KeepsFull, Copies!Full
  <1> QED
    BY <1>5, <1>6, StoreStepKeeps

LEMMA StageChunkKeeps ==
    ASSUME CopiesInv, NEW d \in Holder, Copies!StageChunk(d) PROVE CopiesInv'
  <1>1. RecordAside /\ LinkAside /\ known' = known /\ have' = have /\ usedUnits' = usedUnits
        /\ Copies!Touch(d, client[d].x)
    BY DEF RecordAside, LinkAside, Copies!StageChunk, Copies!recordVars
  <1>2. client[d] \in Uploading /\ client[d].at = "begun"
    BY DEF CopiesInv, StoreInv, Copies!StageChunk
  <1>3. client[d].x \in Item /\ [client[d] EXCEPT !.at = "staged"] \in Uploading
    BY <1>2 DEF Uploading
  <1>4. client' \in [Holder -> Uploading]
    BY <1>3 DEF CopiesInv, StoreInv, Copies!StageChunk, Copies!Upload
  <1> QED
    BY <1>1, <1>3, <1>4, ActivityKeeps

LEMMA AccountChunkKeeps ==
    ASSUME CopiesInv, NEW d \in Holder, Copies!AccountChunk(d) PROVE CopiesInv'
  <1>1. RecordAside /\ LinkAside /\ known' = known /\ have' = have /\ usedUnits' = usedUnits
        /\ (Copies!Touch(d, client[d].x) \/ Copies!Forget(d, {client[d].x}))
    BY DEF RecordAside, LinkAside, Copies!AccountChunk, Copies!ChunkKept, Copies!recordVars
  <1>2. client[d] \in Uploading /\ client[d].at = "kept"
    BY DEF CopiesInv, StoreInv, Copies!AccountChunk
  <1>3. client[d].x \in Item
    BY <1>2 DEF Uploading
  <1>4. client' \in [Holder -> Uploading]
    BY <1>3 DEF CopiesInv, StoreInv, Copies!AccountChunk, Copies!Upload, Uploading
  <1> QED
    BY <1>1, <1>3, <1>4, ActivityKeeps

LEMMA AccountCopyKeeps ==
    ASSUME CopiesInv, NEW d \in Holder, NEW x \in Item, Copies!AccountCopy(d, x) PROVE CopiesInv'
  <1>1. RecordAside /\ LinkAside /\ known' = known /\ have' = have /\ usedUnits' = usedUnits
        /\ client' = client /\ (Copies!Touch(d, x) \/ Copies!Forget(d, {x}))
    BY DEF RecordAside, LinkAside, Copies!AccountCopy, Copies!ChunkKept, Copies!recordVars
  <1> QED
    BY <1>1, ActivityKeeps DEF CopiesInv, StoreInv

\* Steps that keep a further chunk of a row that is there.
LEMMA ChunkAddedKeeps ==
    ASSUME CopiesInv, RecordAside, LinkAside, known' = known, usedUnits' = usedUnits, touched' = touched,
           inProgress' = inProgress, client' \in [Holder -> Uploading],
           NEW d \in Holder, NEW x \in known[d], NEW c \in Slice,
           have' = [have EXCEPT ![d][x] = @ \cup {c}]
    PROVE  CopiesInv'
  <1>1. StoreTypes /\ x \in Item
    BY DEF CopiesInv, StoreInv, StoreTypes
  <1>2. StoreTypes'
    BY <1>1 DEF StoreTypes
  <1>3. \A e \in Holder : Busy(e)' = Busy(e)
    BY DEF Busy
  <1>4. \A e \in Holder : Reserved(e)' /\ Accounted(e)'
    BY <1>3 DEF CopiesInv, StoreInv, Counts, Reserved, Accounted
  <1>5. \A e \in Holder : ChunksHaveRow(e)'
    BY <1>1 DEF CopiesInv, StoreInv, Counts, ChunksHaveRow, StoreTypes
  <1>6. StoreInv'
    BY <1>2, <1>4, <1>5 DEF StoreInv, Counts
  <1>7. KeepsFull
    BY <1>1 DEF KeepsFull, Copies!Full, StoreTypes
  <1> QED
    BY <1>6, <1>7, StoreStepKeeps

LEMMA FinishChunkKeeps ==
    ASSUME CopiesInv, NEW d \in Holder, Copies!FinishChunk(d) PROVE CopiesInv'
  <1>1. RecordAside /\ LinkAside /\ known' = known /\ usedUnits' = usedUnits /\ touched' = touched
        /\ inProgress' = inProgress
    BY DEF RecordAside, LinkAside, Copies!FinishChunk, Copies!recordVars
  <1>2. client[d] \in Uploading /\ client[d].at = "staged"
    BY DEF CopiesInv, StoreInv, Copies!FinishChunk
  <1>3. client[d].x \in Item /\ client[d].c \in Slice
    BY <1>2 DEF Uploading
  <1>4. CASE client[d].x \in known[d]
    <2>1. have' = [have EXCEPT ![d][client[d].x] = @ \cup {client[d].c}]
      BY <1>3, <1>4 DEF CopiesInv, StoreInv, StoreTypes, Copies!FinishChunk
    <2>2. client' \in [Holder -> Uploading]
      <3> DEFINE whole == (have[d][client[d].x] \cup {client[d].c}) = Slice
      <3>1. whole \in BOOLEAN
        OBVIOUS
      <3>2. client' = [client EXCEPT ![d] = [at |-> "kept", x |-> client[d].x, complete |-> whole]]
        BY <1>4 DEF Copies!FinishChunk, Copies!Upload
      <3> HIDE DEF whole
      <3> QED
        BY <1>3, <3>1, <3>2 DEF CopiesInv, StoreInv, Uploading
    <2> QED
      BY <1>1, <1>3, <1>4, <2>1, <2>2, ChunkAddedKeeps
  <1>5. CASE client[d].x \notin known[d]
    <2>1. HolderAside
      BY <1>1, <1>5 DEF HolderAside, Copies!FinishChunk
    <2>2. client' \in [Holder -> Uploading]
      BY <1>5 DEF CopiesInv, StoreInv, Copies!FinishChunk, Copies!Upload, Copies!NoUpload, Uploading
    <2> QED
      BY <1>1, <2>1, <2>2, StoreInOrder, StoreStepKeeps
  <1> QED
    BY <1>4, <1>5

LEMMA FetchKeeps ==
    ASSUME CopiesInv, NEW d \in Holder, NEW x \in Item, Copies!Fetch(d, x) PROVE CopiesInv'
  <1>1. RecordAside /\ LinkAside /\ known' = known /\ usedUnits' = usedUnits /\ touched' = touched
        /\ inProgress' = inProgress /\ client' = client
    BY DEF RecordAside, LinkAside, Copies!Fetch, Copies!recordVars
  <1>2. client' \in [Holder -> Uploading]
    BY <1>1 DEF CopiesInv, StoreInv
  <1>3. CASE have' = have
    BY <1>1, <1>2, <1>3, StoreInOrder, StoreStepKeeps DEF HolderAside
  <1>4. CASE x \in known[d] /\ \E c \in Copies!Fetchable(d, x) : have' = [have EXCEPT ![d][x] = @ \cup {c}]
    <2>1. PICK c \in Slice : have' = [have EXCEPT ![d][x] = @ \cup {c}]
      BY <1>4 DEF Copies!Fetchable, Copies!Missed
    <2> QED
      BY <1>1, <1>2, <1>4, <2>1, ChunkAddedKeeps
  <1> QED
    BY <1>3, <1>4 DEF Copies!Fetch

LEMMA OnDoneKeeps ==
    ASSUME CopiesInv, NEW d \in Holder, NEW x \in Item, Copies!OnDone(d, x) PROVE CopiesInv'
  <1>1. RecordAside /\ LinkAside /\ HolderAside /\ client' = client
    BY DEF RecordAside, LinkAside, HolderAside, Copies!OnDone, Copies!recordVars, Copies!storeVars
  <1> QED
    BY <1>1, StoreInOrder, StoreStepKeeps DEF CopiesInv, StoreInv

-----------------------------------------------------------------------------
(* The steps of a data server on its link *)

\* the links of every other data server stay
OtherLinks(d) ==
    \A e \in Holder \ {d} : view'[e] = view[e] /\ toRecord'[e] = toRecord[e] /\ toHolder'[e] = toHolder[e]

\* The link of one data server is enough to look at.
LEMMA OneLink ==
    ASSUME CopiesInv, LinkTypes', NEW d \in Holder, OtherLinks(d),
           \A p \in Of(toHolder'[d]) : p \in Of(toHolder[d]) \/ p.kind # "release",
           \A p \in Of(toRecord'[d]) \cup Of(view'[d]) : p \in Of(toRecord[d]) \cup Of(view[d]) \/ Honest(d, p)'
    PROVE  NoNewRelease /\ NewsHonest
  BY DEF NoNewRelease, NewsHonest, OtherLinks

\* An announcement of a row says what the row says.
LEMMA NewsIsTrue ==
    ASSUME CopiesInv, KeepsFull, standing' = standing, NEW d \in Holder, NEW x \in Item
    PROVE  /\ Copies!News(d, x) \in Seq(RecordPacket)
           /\ \A p \in Of(Copies!News(d, x)) : Honest(d, p)'
  <1>0. PICK said \in {"full", "part"} : said = IF Copies!Full(d, x) THEN "full" ELSE "part"
    OBVIOUS
  <1> DEFINE a == [kind |-> "announce", begin |-> FALSE, end |-> FALSE, entries |-> {<<x, said>>}]
  <1>1. a \in RecordPacket
    BY DEF RecordPacket, Announcements
  <1>2. Honest(d, a)'
    <2> SUFFICES ASSUME NEW y \in Item, <<y, "full">> \in a.entries, standing'[y] = "committed"
                 PROVE  Copies!Full(d, y)'
      BY DEF Honest, Copies!Full
    <2>1. y = x /\ Copies!Full(d, x)
      BY <1>0
    <2> QED
      BY <2>1 DEF KeepsFull
  <1>3. Copies!News(d, x) = <<>> \/ Copies!News(d, x) = <<a>>
    BY <1>0 DEF Copies!News, Copies!Announcement
  <1> HIDE DEF a
  <1>4. Of(<<a>>) = {a} /\ <<a>> \in Seq(RecordPacket)
    BY <1>1 DEF Of
  <1> QED
    <2>1. <<>> \in Seq(RecordPacket)
      BY EmptySeq
    <2>2. CASE Copies!News(d, x) = <<>>
      BY <2>1, <2>2, QueueEmpty
    <2>3. CASE Copies!News(d, x) = <<a>>
      BY <2>3, <1>2, <1>4
    <2> QED
      BY <1>3, <2>2, <2>3

LEMMA AnnouncedInOrder ==
    ASSUME CopiesInv, KeepsFull, standing' = standing, wire' = wire, view' = view,
           NEW d \in Holder, NEW x \in Item, Copies!Announced(d, x)
    PROVE  /\ toRecord' \in [Holder -> Seq(RecordPacket)]
           /\ \A e \in Holder \ {d} : toRecord'[e] = toRecord[e]
           /\ \A p \in Of(toRecord'[d]) \cup Of(view'[d]) : p \in Of(toRecord[d]) \cup Of(view[d]) \/ Honest(d, p)'
  <1>1. toRecord[d] \in Seq(RecordPacket) /\ toRecord \in [Holder -> Seq(RecordPacket)]
    BY DEF CopiesInv, LinkTypes
  <1>2. /\ Copies!News(d, x) \in Seq(RecordPacket)
        /\ \A p \in Of(Copies!News(d, x)) : Honest(d, p)'
    BY NewsIsTrue
  <1>3. toRecord[d] \o Copies!News(d, x) \in Seq(RecordPacket)
        /\ Of(toRecord[d] \o Copies!News(d, x)) \subseteq Of(toRecord[d]) \cup Of(Copies!News(d, x))
    BY <1>1, <1>2, QueueJoin
  <1>4. toRecord' = [toRecord EXCEPT ![d] = IF wire[d] = "down" THEN toRecord[d] ELSE toRecord[d] \o Copies!News(d, x)]
    BY <1>1 DEF Copies!Announced
  <1> QED
    BY <1>1, <1>2, <1>3, <1>4

LEMMA AnnounceUploadKeeps ==
    ASSUME CopiesInv, NEW d \in Holder, Copies!AnnounceUpload(d) PROVE CopiesInv'
  <1>1. RecordAside /\ HolderAside /\ wire' = wire /\ view' = view /\ toHolder' = toHolder
        /\ Copies!Announced(d, client[d].x)
    BY DEF RecordAside, HolderAside, Copies!AnnounceUpload, Copies!recordVars, Copies!storeVars
  <1>2. client[d] \in Uploading /\ client[d].at = "news"
    BY DEF CopiesInv, StoreInv, Copies!AnnounceUpload
  <1>3. client[d].x \in Item
    BY <1>2 DEF Uploading
  <1>4. client' \in [Holder -> Uploading]
    BY DEF CopiesInv, StoreInv, Uploading, Copies!AnnounceUpload, Copies!Upload, Copies!NoUpload
  <1>5. StoreInv' /\ KeepsFull
    BY <1>1, <1>4, StoreInOrder
  <1>6. /\ toRecord' \in [Holder -> Seq(RecordPacket)]
        /\ \A e \in Holder \ {d} : toRecord'[e] = toRecord[e]
        /\ \A p \in Of(toRecord'[d]) \cup Of(view'[d]) : p \in Of(toRecord[d]) \cup Of(view[d]) \/ Honest(d, p)'
    BY <1>1, <1>3, <1>5, AnnouncedInOrder DEF RecordAside
  <1>7. LinkTypes' /\ OtherLinks(d)
    BY <1>1, <1>6 DEF CopiesInv, LinkTypes, OtherLinks
  <1>8. NoNewRelease /\ NewsHonest
    BY <1>1, <1>6, <1>7, OneLink
  <1> QED
    BY <1>1, <1>5, <1>7, <1>8, BesideTheRecord

LEMMA AnnounceCopyKeeps ==
    ASSUME CopiesInv, NEW d \in Holder, NEW x \in Item, Copies!AnnounceCopy(d, x) PROVE CopiesInv'
  <1>1. RecordAside /\ HolderAside /\ wire' = wire /\ view' = view /\ toHolder' = toHolder
        /\ Copies!Announced(d, x) /\ client' = client
    BY DEF RecordAside, HolderAside, Copies!AnnounceCopy, Copies!recordVars, Copies!storeVars
  <1>2. StoreInv' /\ KeepsFull
    BY <1>1, StoreInOrder DEF CopiesInv, StoreInv
  <1>3. /\ toRecord' \in [Holder -> Seq(RecordPacket)]
        /\ \A e \in Holder \ {d} : toRecord'[e] = toRecord[e]
        /\ \A p \in Of(toRecord'[d]) \cup Of(view'[d]) : p \in Of(toRecord[d]) \cup Of(view[d]) \/ Honest(d, p)'
    BY <1>1, <1>2, AnnouncedInOrder DEF RecordAside
  <1>4. LinkTypes' /\ OtherLinks(d)
    BY <1>1, <1>3 DEF CopiesInv, LinkTypes, OtherLinks
  <1>5. NoNewRelease /\ NewsHonest
    BY <1>1, <1>3, <1>4, OneLink
  <1> QED
    BY <1>1, <1>2, <1>4, <1>5, BesideTheRecord

\* The view of a link coming up names what the store holds then, and nothing else.
LEMMA ViewIsTrue ==
    ASSUME CopiesInv, NEW d \in Holder
    PROVE  Copies!View(d) \in Seq(Announcements) /\ \A p \in Of(Copies!View(d)) : Honest(d, p)
  <1> DEFINE full == {x \in Item : Copies!Full(d, x)}
             names == Copies!SetToSeq(full)
             n == IF names = <<>> THEN 1 ELSE Len(names)
             packet(i) == [kind |-> "announce", begin |-> (i = 1), end |-> (i = n),
                           entries |-> IF names = <<>> THEN {} ELSE {<<names[i], "full">>}]
  <1>1. names \in Seq(full)
    BY ListOfSet
  <1>2. n \in Nat \ {0}
    BY <1>1, EmptySeq
  <1>3. ASSUME NEW i \in 1..n, names # <<>> PROVE names[i] \in full
    BY <1>1, <1>3, ElementOfSeq
  <1>4. Copies!View(d) = [i \in 1..n |-> packet(i)]
    BY DEF Copies!View, Copies!Announcement
  <1> HIDE DEF n, names
  <1>5. ASSUME NEW i \in 1..n PROVE packet(i) \in Announcements /\ Honest(d, packet(i))
    <2>1. packet(i).entries \subseteq Item \X {"full", "part"}
      BY <1>3
    <2>2. packet(i).begin \in BOOLEAN /\ packet(i).end \in BOOLEAN
      OBVIOUS
    <2>3. packet(i) \in Announcements
      BY <2>1, <2>2 DEF Announcements
    <2>4. \A x \in Item : <<x, "full">> \in packet(i).entries => Copies!Full(d, x)
      BY <1>3
    <2> QED
      BY <2>3, <2>4 DEF Honest
  <1> HIDE DEF packet
  <1>6. Copies!View(d) \in Seq(Announcements)
    BY <1>2, <1>4, <1>5
  <1>7. Len(Copies!View(d)) = n /\ \A i \in 1..n : Copies!View(d)[i] = packet(i)
    BY <1>2, <1>4
  <1> QED
    BY <1>5, <1>6, <1>7 DEF Of

LEMMA ConnectKeeps ==
    ASSUME CopiesInv, NEW d \in Holder, Copies!Connect(d) PROVE CopiesInv'
  <1>1. RecordAside /\ HolderAside /\ client' = client /\ toRecord' = toRecord /\ toHolder' = toHolder
        /\ wire' = [wire EXCEPT ![d] = "viewing"] /\ view' = [view EXCEPT ![d] = Copies!View(d)]
    BY DEF RecordAside, HolderAside, Copies!Connect, Copies!recordVars, Copies!storeVars
  <1>2. StoreInv' /\ KeepsFull
    BY <1>1, StoreInOrder DEF CopiesInv, StoreInv
  <1>3. Copies!View(d) \in Seq(Announcements) /\ \A p \in Of(Copies!View(d)) : Honest(d, p)
    BY ViewIsTrue
  <1>4. LinkTypes' /\ OtherLinks(d) /\ view'[d] = Copies!View(d)
    BY <1>1, <1>3 DEF CopiesInv, LinkTypes, OtherLinks
  <1>5. \A p \in Of(view'[d]) : Honest(d, p)'
    BY <1>1, <1>2, <1>3, <1>4 DEF Honest, KeepsFull, RecordAside
  <1>6. NoNewRelease /\ NewsHonest
    BY <1>1, <1>4, <1>5, OneLink
  <1> QED
    BY <1>1, <1>2, <1>4, <1>6, BesideTheRecord

LEMMA SendViewKeeps ==
    ASSUME CopiesInv, NEW d \in Holder, Copies!SendView(d) PROVE CopiesInv'
  <1>1. RecordAside /\ HolderAside /\ client' = client /\ toHolder' = toHolder
        /\ wire' = [wire EXCEPT ![d] = "up"] /\ view' = [view EXCEPT ![d] = <<>>]
        /\ toRecord' = [toRecord EXCEPT ![d] = @ \o view[d]]
    BY DEF RecordAside, HolderAside, Copies!SendView, Copies!recordVars, Copies!storeVars
  <1>2. StoreInv' /\ KeepsFull
    BY <1>1, StoreInOrder DEF CopiesInv, StoreInv
  <1>3. toRecord[d] \in Seq(RecordPacket) /\ view[d] \in Seq(Announcements)
        /\ Announcements \subseteq RecordPacket
    BY DEF CopiesInv, LinkTypes, RecordPacket
  <1>4. view[d] \in Seq(RecordPacket)
    BY <1>3, SeqMonotonic
  <1>5. toRecord[d] \o view[d] \in Seq(RecordPacket)
        /\ Of(toRecord[d] \o view[d]) \subseteq Of(toRecord[d]) \cup Of(view[d])
    BY <1>3, <1>4, QueueJoin
  <1>6. <<>> \in Seq(Announcements)
    BY EmptySeq
  <1>7. toRecord'[d] = toRecord[d] \o view[d] /\ view'[d] = <<>>
    BY <1>1 DEF CopiesInv, LinkTypes
  <1>8. LinkTypes' /\ OtherLinks(d)
    BY <1>1, <1>5, <1>6 DEF CopiesInv, LinkTypes, OtherLinks
  <1>9. NoNewRelease /\ NewsHonest
    BY <1>1, <1>5, <1>7, <1>8, QueueEmpty, OneLink
  <1> QED
    BY <1>1, <1>2, <1>8, <1>9, BesideTheRecord

\* A link that goes takes its packets with it.
LEMMA LostInOrder ==
    ASSUME CopiesInv, NEW d \in Holder, Copies!LinkLost(d) PROVE LinkTypes' /\ NoNewRelease /\ NewsHonest
  <1>1. <<>> \in Seq(Announcements) /\ <<>> \in Seq(RecordPacket) /\ <<>> \in Seq(HolderPacket)
    BY EmptySeq
  <1>2. LinkTypes' /\ OtherLinks(d)
    BY <1>1 DEF CopiesInv, LinkTypes, OtherLinks, Copies!LinkLost
  <1>3. view'[d] = <<>> /\ toRecord'[d] = <<>> /\ toHolder'[d] = <<>>
    BY DEF CopiesInv, LinkTypes, Copies!LinkLost
  <1> QED
    BY <1>2, <1>3, QueueEmpty, OneLink

LEMMA CutKeeps ==
    ASSUME CopiesInv, NEW d \in Holder, Copies!Cut(d) PROVE CopiesInv'
  <1>1. RecordAside /\ HolderAside /\ client' = client /\ Copies!LinkLost(d)
    BY DEF RecordAside, HolderAside, Copies!Cut, Copies!recordVars, Copies!storeVars
  <1> QED
    BY <1>1, StoreInOrder, LostInOrder, BesideTheRecord DEF CopiesInv, StoreInv

LEMMA RestartKeeps ==
    ASSUME CopiesInv, NEW d \in Holder, Copies!Restart(d) PROVE CopiesInv'
  <1> DEFINE expired == {x \in Copies!Untouched(d) : ~Copies!Full(d, x)}
             fresh == {x \in Item : touched[d][x] = "fresh"}
  <1>1. RecordAside /\ Copies!LinkLost(d)
    BY DEF RecordAside, Copies!Restart, Copies!recordVars
  <1>2. /\ known' = [known EXCEPT ![d] = @ \ expired]
        /\ have' = [have EXCEPT ![d] = [x \in Item |-> IF x \in expired THEN {} ELSE @[x]]]
        /\ usedUnits' = [usedUnits EXCEPT ![d] = Cardinality(known[d] \ expired)]
        /\ touched' = [touched EXCEPT ![d] = [x \in Item |-> IF @[x] = "old" THEN "none" ELSE @[x]]]
        /\ inProgress' = [inProgress EXCEPT ![d] = Cardinality(fresh)]
        /\ client' = [client EXCEPT ![d] = [at |-> "idle"]]
    BY HeldAreCounted DEF Copies!Restart, Copies!Upload, Copies!NoUpload
  <1>3. expired \in SUBSET Item /\ fresh \in SUBSET Item /\ \A x \in expired : ~Copies!Full(d, x)
    BY DEF Copies!Untouched
  <1>4. StoreTypes /\ client \in [Holder -> Uploading]
    BY DEF CopiesInv, StoreInv
  <1>5. ASSUME NEW e \in Holder PROVE Busy(e)' = IF e = d THEN fresh ELSE Busy(e)
    BY <1>2, <1>4 DEF Busy, StoreTypes
  <1> HIDE DEF expired, fresh
  <1>6. Cardinality(known[d] \ expired) \in Nat /\ Cardinality(fresh) \in Nat
        /\ Cardinality(known[d] \ expired) <= Cardinality(known[d])
    <2>1. known[d] \subseteq Item /\ known[d] \ expired \in SUBSET known[d] /\ known[d] \ expired \subseteq Item
      BY <1>4 DEF StoreTypes
    <2>2. IsFiniteSet(known[d])
      BY <2>1, ItemsFinite
    <2>3. Cardinality(known[d] \ expired) <= Cardinality(known[d])
      BY <2>1, <2>2, FS_Subset
    <2> QED
      BY <2>1, <2>3, <1>3, ItemsFinite
  <1>7. StoreTypes'
    BY <1>2, <1>3, <1>4, <1>6 DEF StoreTypes
  <1>8. ASSUME NEW e \in Holder PROVE Counts(e)'
    <2>1. Counts(e)
      BY DEF CopiesInv, StoreInv
    <2>2. CASE e # d
      BY <1>2, <1>4, <1>5, <2>1, <2>2 DEF Counts, Reserved, Accounted, ChunksHaveRow, StoreTypes
    <2>3. CASE e = d
      <3>1. Reserved(d)'
        <4>1. usedUnits'[d] = Cardinality(known[d] \ expired) /\ known'[d] = known[d] \ expired
          BY <1>2, <1>4 DEF StoreTypes
        <4>2. Cardinality(known[d]) <= Quota /\ Cardinality(known[d]) \in Nat
          BY <2>1, <2>3, <1>4 DEF Counts, Reserved, StoreTypes
        <4> QED
          BY <4>1, <4>2, <1>6, CopiesAssumption DEF Reserved
      <3>2. Accounted(d)'
        BY <1>2, <1>4, <1>5 DEF Accounted, StoreTypes
      <3>3. ChunksHaveRow(d)'
        BY <1>2, <1>4, <2>1, <2>3 DEF Counts, ChunksHaveRow, StoreTypes
      <3> QED
        BY <2>3, <3>1, <3>2, <3>3 DEF Counts
    <2> QED
      BY <2>2, <2>3
  <1>9. client' \in [Holder -> Uploading]
    BY <1>2, <1>4 DEF Uploading
  <1>10. KeepsFull
    BY <1>2, <1>3, <1>4 DEF KeepsFull, Copies!Full, StoreTypes
  <1> QED
    BY <1>1, <1>7, <1>8, <1>9, <1>10, LostInOrder, BesideTheRecord DEF StoreInv

\* A packet taken from the link.
LEMMA TakenInOrder ==
    ASSUME CopiesInv, NEW d \in Holder, toHolder[d] # <<>>, Copies!Taken(d)
    PROVE  /\ Head(toHolder[d]) \in HolderPacket /\ Head(toHolder[d]) \in Of(toHolder[d])
           /\ toHolder' \in [Holder -> Seq(HolderPacket)]
           /\ \A e \in Holder \ {d} : toHolder'[e] = toHolder[e]
           /\ Of(toHolder'[d]) \subseteq Of(toHolder[d])
  <1>1. toHolder \in [Holder -> Seq(HolderPacket)] /\ toHolder[d] \in Seq(HolderPacket)
    BY DEF CopiesInv, LinkTypes
  <1>2. /\ Head(toHolder[d]) \in HolderPacket /\ Tail(toHolder[d]) \in Seq(HolderPacket)
        /\ Head(toHolder[d]) \in Of(toHolder[d]) /\ Of(Tail(toHolder[d])) \subseteq Of(toHolder[d])
    BY <1>1, QueueTake
  <1>3. toHolder' = [toHolder EXCEPT ![d] = Tail(toHolder[d])]
    BY <1>1 DEF Copies!Taken
  <1> QED
    BY <1>1, <1>2, <1>3

LEMMA ReleaseKeeps ==
    ASSUME CopiesInv, NEW d \in Holder, Copies!Release(d) PROVE CopiesInv'
  <1> DEFINE p == Head(toHolder[d])
  <1>1. RecordAside /\ wire' = wire /\ view' = view /\ toRecord' = toRecord /\ client' = client
        /\ toHolder[d] # <<>> /\ p.kind = "release" /\ Copies!Taken(d)
        /\ Copies!Forget(d, {p.x}) /\ Copies!Drop(d, {p.x})
    BY DEF RecordAside, Copies!Release, Copies!Received, Copies!recordVars
  <1>2. /\ p \in HolderPacket /\ p \in Of(toHolder[d])
        /\ toHolder' \in [Holder -> Seq(HolderPacket)]
        /\ \A e \in Holder \ {d} : toHolder'[e] = toHolder[e]
        /\ Of(toHolder'[d]) \subseteq Of(toHolder[d])
    BY <1>1, TakenInOrder
  <1> HIDE DEF p
  <1>3. p.x \in Item /\ {p.x} \in SUBSET Item /\ standing[p.x] = "pruned"
    <2>1. p.x \in Item
      BY <1>2 DEF HolderPacket
    <2> QED
      BY <1>1, <1>2, <2>1 DEF CopiesInv, LetGo
  <1>4. StoreTypes /\ \A e \in Holder : Reserved(e) /\ Accounted(e) /\ ChunksHaveRow(e)
    BY DEF CopiesInv, StoreInv, Counts
  <1>5. StoreInv'
    BY <1>1, <1>3, <1>4, ForgetCounted, DropCounted DEF CopiesInv, StoreInv, Counts, StoreTypes
  <1>6. KeepsFull
    BY <1>1, <1>3, <1>4, DropKeepsFull
  <1>7. LinkTypes' /\ OtherLinks(d)
    BY <1>1, <1>2 DEF CopiesInv, LinkTypes, OtherLinks
  <1>8. NoNewRelease /\ NewsHonest
    BY <1>1, <1>2, <1>7, OneLink
  <1> QED
    BY <1>1, <1>5, <1>6, <1>7, <1>8, BesideTheRecord

LEMMA ReplicateKeeps ==
    ASSUME CopiesInv, NEW d \in Holder, Copies!Replicate(d) PROVE CopiesInv'
  <1> DEFINE p == Head(toHolder[d])
  <1>1. RecordAside /\ wire' = wire /\ view' = view /\ client' = client
        /\ toHolder[d] # <<>> /\ p.kind = "replicate" /\ Copies!Taken(d)
    BY DEF RecordAside, Copies!Replicate, Copies!Received, Copies!recordVars
  <1>2. \/ HolderAside /\ toRecord' = toRecord
        \/ ~Copies!Refused(d, p.x) /\ Copies!Opened(d, p.x) /\ Copies!Announced(d, p.x)
        \/ ~Copies!Refused(d, p.x) /\ Copies!Opened(d, p.x) /\ toRecord' = toRecord
    BY DEF HolderAside, Copies!Replicate, Copies!storeVars
  <1>3. /\ p \in HolderPacket /\ p \in Of(toHolder[d])
        /\ toHolder' \in [Holder -> Seq(HolderPacket)]
        /\ \A e \in Holder \ {d} : toHolder'[e] = toHolder[e]
        /\ Of(toHolder'[d]) \subseteq Of(toHolder[d])
    BY <1>1, TakenInOrder
  <1> HIDE DEF p
  <1>4. p.x \in Item
    BY <1>3 DEF HolderPacket
  <1>5. StoreInv' /\ KeepsFull
    <2>1. CASE HolderAside
      BY <1>1, <2>1, StoreInOrder DEF CopiesInv, StoreInv
    <2>2. CASE ~Copies!Refused(d, p.x) /\ Copies!Opened(d, p.x)
      BY <1>1, <1>4, <2>2, OpenedCounted, OpenKeepsFull DEF CopiesInv, StoreInv
    <2> QED
      BY <1>2, <2>1, <2>2
  <1>6. /\ toRecord' \in [Holder -> Seq(RecordPacket)]
        /\ \A e \in Holder \ {d} : toRecord'[e] = toRecord[e]
        /\ \A q \in Of(toRecord'[d]) \cup Of(view'[d]) : q \in Of(toRecord[d]) \cup Of(view[d]) \/ Honest(d, q)'
    <2>1. CASE toRecord' = toRecord
      BY <1>1, <2>1 DEF CopiesInv, LinkTypes
    <2>2. CASE Copies!Announced(d, p.x)
      BY <1>1, <1>4, <1>5, <2>2, AnnouncedInOrder DEF RecordAside
    <2> QED
      BY <1>2, <2>1, <2>2
  <1>7. LinkTypes' /\ OtherLinks(d)
    BY <1>1, <1>3, <1>6 DEF CopiesInv, LinkTypes, OtherLinks
  <1>8. NoNewRelease /\ NewsHonest
    BY <1>3, <1>6, <1>7, OneLink
  <1> QED
    BY <1>1, <1>5, <1>7, <1>8, BesideTheRecord

LEMMA TicketKeeps ==
    ASSUME CopiesInv, NEW d \in Holder, Copies!Ticket(d) PROVE CopiesInv'
  <1>1. RecordAside /\ HolderAside /\ wire' = wire /\ view' = view /\ toRecord' = toRecord /\ client' = client
        /\ toHolder[d] # <<>> /\ Copies!Taken(d)
    BY DEF RecordAside, HolderAside, Copies!Ticket, Copies!Received, Copies!recordVars, Copies!storeVars
  <1>2. StoreInv' /\ KeepsFull
    BY <1>1, StoreInOrder DEF CopiesInv, StoreInv
  <1>3. /\ toHolder' \in [Holder -> Seq(HolderPacket)]
        /\ \A e \in Holder \ {d} : toHolder'[e] = toHolder[e]
        /\ Of(toHolder'[d]) \subseteq Of(toHolder[d])
    BY <1>1, TakenInOrder
  <1>4. LinkTypes' /\ OtherLinks(d)
    BY <1>1, <1>3 DEF CopiesInv, LinkTypes, OtherLinks
  <1>5. NoNewRelease /\ NewsHonest
    BY <1>1, <1>3, <1>4, OneLink
  <1> QED
    BY <1>1, <1>2, <1>4, <1>5, BesideTheRecord

LEMMA AskTicketKeeps ==
    ASSUME CopiesInv, NEW d \in Holder, NEW x \in Item, Copies!AskTicket(d, x) PROVE CopiesInv'
  <1> DEFINE ask == [kind |-> "ask", x |-> x]
  <1>1. RecordAside /\ HolderAside /\ wire' = wire /\ view' = view /\ toHolder' = toHolder /\ client' = client
        /\ (toRecord' = toRecord \/ toRecord' = [toRecord EXCEPT ![d] = Append(@, ask)])
    BY DEF RecordAside, HolderAside, Copies!AskTicket, Copies!recordVars, Copies!storeVars
  <1>2. StoreInv' /\ KeepsFull
    BY <1>1, StoreInOrder DEF CopiesInv, StoreInv
  <1>3. toRecord \in [Holder -> Seq(RecordPacket)] /\ ask \in RecordPacket /\ ask.kind = "ask"
    BY DEF CopiesInv, LinkTypes, RecordPacket
  <1> HIDE DEF ask
  <1>4. Append(toRecord[d], ask) \in Seq(RecordPacket)
        /\ Of(Append(toRecord[d], ask)) \subseteq Of(toRecord[d]) \cup {ask}
    BY <1>3, QueueAppend
  <1>5. Honest(d, ask)'
    BY <1>3 DEF Honest
  <1>6. /\ toRecord' \in [Holder -> Seq(RecordPacket)]
        /\ \A e \in Holder \ {d} : toRecord'[e] = toRecord[e]
        /\ Of(toRecord'[d]) \subseteq Of(toRecord[d]) \cup {ask}
    BY <1>1, <1>3, <1>4
  <1>7. LinkTypes' /\ OtherLinks(d)
    BY <1>1, <1>6 DEF CopiesInv, LinkTypes, OtherLinks
  <1>8. NoNewRelease /\ NewsHonest
    BY <1>1, <1>5, <1>6, <1>7, OneLink
  <1> QED
    BY <1>1, <1>2, <1>7, <1>8, BesideTheRecord

-----------------------------------------------------------------------------
(* The steps of the record server *)

\* The messages about some data name those data.
LEMMA ToldAbout ==
    ASSUME NEW kind \in {"replicate", "release"}, NEW data \in SUBSET Item
    PROVE  /\ Copies!Told(kind, data) \in Seq(HolderPacket)
           /\ \A p \in Of(Copies!Told(kind, data)) : p.kind = kind /\ p.x \in data
  <1> DEFINE n == Cardinality(data)
             list == Copies!SetToSeq(data)
  <1>1. n \in Nat /\ list \in [1..n -> data]
    BY ListOfSet
  <1>2. Copies!Told(kind, data) = [i \in 1..n |-> [kind |-> kind, x |-> list[i]]]
    BY HeldAreCounted DEF Copies!Told
  <1> HIDE DEF n, list
  <1>3. \A i \in 1..n : [kind |-> kind, x |-> list[i]] \in HolderPacket
    BY <1>1 DEF HolderPacket
  <1>4. Copies!Told(kind, data) \in Seq(HolderPacket) /\ Len(Copies!Told(kind, data)) = n
        /\ \A i \in 1..n : Copies!Told(kind, data)[i] = [kind |-> kind, x |-> list[i]]
    BY <1>1, <1>2, <1>3
  <1> QED
    BY <1>1, <1>4 DEF Of

LEMMA IssueTicketKeeps ==
    ASSUME CopiesInv, NEW d \in Holder, Copies!IssueReplicaTicket(d) PROVE CopiesInv'
  <1> DEFINE p == Head(toRecord[d])
  <1>1. RecordAside /\ HolderAside /\ wire' = wire /\ view' = view /\ client' = client
        /\ toRecord[d] # <<>> /\ p.kind = "ask"
        /\ toRecord' = [toRecord EXCEPT ![d] = Tail(@)]
    BY DEF RecordAside, HolderAside, Copies!IssueReplicaTicket, Copies!recordVars, Copies!storeVars
  <1>2. PICK from \in SUBSET Holder :
            toHolder' = [toHolder EXCEPT ![d] = Append(@, [kind |-> "ticket", x |-> p.x, from |-> from])]
    <2> DEFINE from == IF standing[p.x] = "committed" THEN {s \in Holder \ {d} : table[p.x][s] = "full"} ELSE {}
    <2>1. from \in SUBSET Holder
      OBVIOUS
    <2>2. toHolder' = [toHolder EXCEPT ![d] = Append(@, [kind |-> "ticket", x |-> p.x, from |-> from])]
      BY DEF Copies!IssueReplicaTicket
    <2> QED
      BY <2>1, <2>2
  <1>3. toRecord \in [Holder -> Seq(RecordPacket)] /\ toHolder \in [Holder -> Seq(HolderPacket)]
    BY DEF CopiesInv, LinkTypes
  <1>4. p \in RecordPacket /\ Tail(toRecord[d]) \in Seq(RecordPacket) /\ Of(Tail(toRecord[d])) \subseteq Of(toRecord[d])
    BY <1>1, <1>3, QueueTake
  <1>5. p.x \in Item
    BY <1>1, <1>4 DEF RecordPacket, Announcements
  <1> HIDE DEF p
  <1> DEFINE answer == [kind |-> "ticket", x |-> p.x, from |-> from]
  <1>6. answer \in HolderPacket /\ answer.kind # "release"
    BY <1>5 DEF HolderPacket
  <1>7. toHolder' = [toHolder EXCEPT ![d] = Append(toHolder[d], answer)]
    BY <1>2, <1>3
  <1> HIDE DEF answer
  <1>8. Append(toHolder[d], answer) \in Seq(HolderPacket)
        /\ Of(Append(toHolder[d], answer)) \subseteq Of(toHolder[d]) \cup {answer}
    BY <1>3, <1>6, QueueAppend
  <1>9. LinkTypes' /\ OtherLinks(d)
    BY <1>1, <1>3, <1>4, <1>7, <1>8 DEF CopiesInv, LinkTypes, OtherLinks
  <1>10. toHolder'[d] = Append(toHolder[d], answer) /\ toRecord'[d] = Tail(toRecord[d])
    BY <1>1, <1>3, <1>7
  <1>11. NoNewRelease /\ NewsHonest
    BY <1>1, <1>4, <1>6, <1>8, <1>9, <1>10, OneLink
  <1> QED
    BY <1>1, <1>9, <1>11, StoreInOrder, BesideTheRecord DEF CopiesInv, StoreInv

\* what a plan asks to release was let go
PlanInOrder(r) ==
    /\ r \in [copies : SUBSET (Holder \X Item), stale : SUBSET Item]
    /\ \A x \in r.stale : standing[x] = "pruned"

\* A step of the record server alone: nothing changes in the stores, what is announced stays.
LEMMA RecordStepKeeps ==
    ASSUME CopiesInv, HolderAside, client' = client, RecordTypes', LinkTypes', LetGo', Listing', view' = view,
           \A d \in Holder : Of(toRecord'[d]) \subseteq Of(toRecord[d]),
           \A x \in Item : standing'[x] = "committed" => standing[x] = "committed"
    PROVE  CopiesInv'
  <1>1. StoreInv' /\ KeepsFull
    BY StoreInOrder DEF CopiesInv, StoreInv
  <1>2. Announcing'
    <2> SUFFICES ASSUME NEW d \in Holder, NEW p \in Of(toRecord'[d]) \cup Of(view'[d]) PROVE Honest(d, p)'
      BY DEF Announcing, Of
    <2>1. Honest(d, p)
      BY DEF CopiesInv, Announcing
    <2> QED
      BY <1>1, <2>1 DEF Honest, KeepsFull
  <1> QED
    BY <1>1, <1>2 DEF CopiesInv

\* the entries of plans other than the ones a step clears or makes stay, and no data to be
\* withdrawn is overlooked
LEMMA ListingKept ==
    ASSUME CopiesInv, HolderAside, standing' = standing,
           \A x \in Item, d \in Holder :
               table'[x][d] = "full" =>
                   \/ table[x][d] = "full" /\ (ToBeWithdrawn(x) => ToBeWithdrawn(x)')
                   \/ standing[x] = "committed" /\ Copies!Full(d, x)
                   \/ standing[x] # "committed" /\ ToBeWithdrawn(x)'
    PROVE  Listing'
  <1> SUFFICES ASSUME NEW x \in Item, NEW d \in Holder, table'[x][d] = "full"
               PROVE  IF standing'[x] = "committed" THEN Copies!Full(d, x)' ELSE ToBeWithdrawn(x)'
    BY DEF Listing, Copies!Full
  <1>1. Copies!Full(d, x)' <=> Copies!Full(d, x)
    BY DEF HolderAside, Copies!Full
  <1> QED
    BY <1>1 DEF CopiesInv, Listing

LEMMA StrandIsConstant == Copies!Strand' = Copies!Strand
  BY DEF Copies!Strand, Copies!Timer

\* LetGo without new releases under way.
LEMMA LetGoKept ==
    ASSUME CopiesInv, standing' = standing, toRelease' = toRelease, toHolder' = toHolder,
           \A s \in Copies!Strand : \A x \in plan'[s].stale : standing[x] = "pruned"
    PROVE  LetGo'
  BY StrandIsConstant DEF CopiesInv, LetGo

LEMMA PlanOfInOrder ==
    ASSUME NEW t, NEW data \in SUBSET Item
    PROVE  /\ PlanInOrder(Copies!PlanOf(t, data))
           /\ \A x \in data : standing[x] = "pruned" /\ (\E d \in Holder : t[x][d] = "full")
                  => x \in Copies!PlanOf(t, data).stale
  BY DEF PlanInOrder, Copies!PlanOf

\* An announcement taken: what it lists is held, or its withdrawal is planned with it.
LEMMA DataAnnouncedKeeps ==
    ASSUME CopiesInv, NEW d \in Holder, Copies!DataAnnounced(d) PROVE CopiesInv'
  <1> DEFINE p == Head(toRecord[d])
             t == Copies!TableAfter(d, p)
             complete == {m[1] : m \in {e \in p.entries : e[2] = "full"}}
             data == IF p.end THEN Copies!KnownData(t) ELSE complete
             found == Copies!PlanOf(t, data)
  <1>1. HolderAside /\ client' = client /\ standing' = standing /\ toRelease' = toRelease /\ wire' = wire
        /\ view' = view /\ toHolder' = toHolder
        /\ toRecord[d] # <<>> /\ p.kind = "announce" /\ plan[d] = Copies!NoPlan
        /\ table' = t /\ plan' = [plan EXCEPT ![d] = found]
        /\ toRecord' = [toRecord EXCEPT ![d] = Tail(@)]
    BY DEF HolderAside, Copies!DataAnnounced, Copies!storeVars
  <1>2. RecordTypes /\ LinkTypes
    BY DEF CopiesInv
  <1>3. /\ p \in RecordPacket /\ p \in Of(toRecord[d])
        /\ Tail(toRecord[d]) \in Seq(RecordPacket) /\ Of(Tail(toRecord[d])) \subseteq Of(toRecord[d])
    BY <1>1, <1>2, QueueTake DEF LinkTypes
  <1>4. p.entries \subseteq Item \X {"full", "part"} /\ p.begin \in BOOLEAN /\ p.end \in BOOLEAN
    BY <1>1, <1>3 DEF RecordPacket, Announcements
  <1>5. Honest(d, p)
    BY <1>3 DEF CopiesInv, Announcing
  <1> HIDE DEF p
  <1>6. ASSUME NEW x \in Item, NEW e \in Holder
        PROVE  \/ t[x][e] = table[x][e]
               \/ t[x][e] = "none"
               \/ e = d /\ \E w \in {"full", "part"} : t[x][e] = w /\ <<x, w>> \in p.entries
    <2>1. CASE e = d /\ \E m \in p.entries : m[1] = x
      <3>1. PICK m \in p.entries : m[1] = x /\ t[x][e] = m[2]
        BY <2>1 DEF Copies!TableAfter
      <3>2. m = <<x, m[2]>> /\ m[2] \in {"full", "part"}
        BY <1>4, <3>1
      <3> QED
        BY <2>1, <3>1, <3>2
    <2>2. CASE ~(e = d /\ \E m \in p.entries : m[1] = x)
      BY <2>2 DEF Copies!TableAfter
    <2> QED
      BY <2>1, <2>2
  <1>7. t \in [Item -> [Holder -> {"none", "part", "full"}]]
    <2>1. ASSUME NEW x \in Item, NEW e \in Holder PROVE t[x][e] \in {"none", "part", "full"}
      <3>1. table[x][e] \in {"none", "part", "full"}
        BY <1>2 DEF RecordTypes
      <3> HIDE DEF t
      <3> QED
        BY <1>6, <3>1
    <2>2. t = [x \in Item |-> [e \in Holder |-> t[x][e]]]
      BY DEF Copies!TableAfter
    <2> QED
      BY <2>1, <2>2
  <1>8. data \in SUBSET Item /\ \A x \in Item : <<x, "full">> \in p.entries /\ t[x][d] = "full" => x \in data
    <2>1. complete \in SUBSET Item /\ \A x \in Item : <<x, "full">> \in p.entries => x \in complete
      BY <1>4
    <2>2. Copies!KnownData(t) \in SUBSET Item /\ \A x \in Item : t[x][d] = "full" => x \in Copies!KnownData(t)
      BY DEF Copies!KnownData
    <2> HIDE DEF complete, t
    <2> QED
      BY <2>1, <2>2
  <1> HIDE DEF t, data
  <1>9. PlanInOrder(found) /\ \A x \in data : standing[x] = "pruned" /\ t[x][d] = "full" => x \in found.stale
    BY <1>8, PlanOfInOrder
  <1> HIDE DEF found
  <1>10. d \in Copies!Strand /\ plan \in [Copies!Strand -> [copies : SUBSET (Holder \X Item), stale : SUBSET Item]]
    BY <1>2 DEF RecordTypes, Copies!Strand
  <1>11. RecordTypes'
    BY <1>1, <1>2, <1>7, <1>9, <1>10, StrandIsConstant DEF RecordTypes, PlanInOrder
  <1>12. LinkTypes'
    BY <1>1, <1>2, <1>3 DEF LinkTypes
  <1>13. \A s \in Copies!Strand : plan'[s] = IF s = d THEN found ELSE plan[s]
    BY <1>1, <1>10
  <1>14. LetGo'
    BY <1>1, <1>9, <1>13, LetGoKept DEF CopiesInv, LetGo, PlanInOrder
  <1>15. \A x \in Item : ToBeWithdrawn(x) => ToBeWithdrawn(x)'
    <2>1. plan[d].stale = {}
      BY <1>1 DEF Copies!NoPlan
    <2> QED
      BY <1>1, <1>13, <2>1, StrandIsConstant DEF ToBeWithdrawn
  <1>16. \A x \in found.stale : ToBeWithdrawn(x)'
    BY <1>10, <1>13, StrandIsConstant DEF ToBeWithdrawn
  <1>17. ASSUME NEW x \in Item, NEW e \in Holder, table'[x][e] = "full"
         PROVE  \/ table[x][e] = "full" /\ (ToBeWithdrawn(x) => ToBeWithdrawn(x)')
                \/ standing[x] = "committed" /\ Copies!Full(e, x)
                \/ standing[x] # "committed" /\ ToBeWithdrawn(x)'
    <2>1. CASE table[x][e] = "full"
      BY <1>15, <2>1
    <2>2. CASE e = d /\ <<x, "full">> \in p.entries /\ t[x][d] = "full"
      <3>1. standing[x] = "committed" => Copies!Full(d, x)
        BY <1>1, <1>5, <2>2 DEF Honest
      <3>2. standing[x] \in {"committed", "pruned"}
        BY <1>2 DEF RecordTypes
      <3>3. standing[x] = "pruned" => x \in found.stale
        BY <1>8, <1>9, <2>2
      <3> QED
        BY <1>16, <2>2, <3>1, <3>2, <3>3
    <2> QED
      BY <1>1, <1>6, <1>17, <2>1, <2>2
  <1>18. Listing'
    BY <1>1, <1>17, ListingKept
  <1>19. \A e \in Holder : Of(toRecord'[e]) \subseteq Of(toRecord[e])
    BY <1>1, <1>2, <1>3 DEF LinkTypes
  <1> QED
    BY <1>1, <1>11, <1>12, <1>14, <1>18, <1>19, RecordStepKeeps

LEMMA SweepKeeps ==
    ASSUME CopiesInv, Copies!SweepCopies PROVE CopiesInv'
  <1> DEFINE found == Copies!PlanOf(table, Copies!KnownData(table))
  <1>1. HolderAside /\ client' = client /\ standing' = standing /\ toRelease' = toRelease /\ LinkAside
        /\ table' = table /\ plan' = [plan EXCEPT ![Copies!Timer] = found] /\ Copies!Settled
    BY DEF HolderAside, LinkAside, Copies!SweepCopies, Copies!storeVars
  <1>2. RecordTypes /\ LinkTypes /\ Copies!KnownData(table) \in SUBSET Item
    BY DEF CopiesInv, Copies!KnownData
  <1>3. PlanInOrder(found)
    BY <1>2, PlanOfInOrder
  <1> HIDE DEF found
  <1>4. Copies!Timer \in Copies!Strand
        /\ plan \in [Copies!Strand -> [copies : SUBSET (Holder \X Item), stale : SUBSET Item]]
    BY <1>2 DEF RecordTypes, Copies!Strand
  <1>5. \A s \in Copies!Strand : plan'[s] = (IF s = Copies!Timer THEN found ELSE plan[s]) /\ plan[s].stale = {}
    BY <1>1, <1>4 DEF Copies!Settled, Copies!NoPlan
  <1>6. RecordTypes'
    BY <1>1, <1>2, <1>3, <1>4, StrandIsConstant DEF RecordTypes, PlanInOrder
  <1>7. LetGo'
    BY <1>1, <1>3, <1>5, LetGoKept DEF CopiesInv, LetGo, PlanInOrder, LinkAside
  <1>8. \A x \in Item : ToBeWithdrawn(x) => ToBeWithdrawn(x)'
    BY <1>1, <1>5, StrandIsConstant DEF ToBeWithdrawn
  <1>9. Listing'
    BY <1>1, <1>8, ListingKept
  <1>10. LinkTypes'
    BY <1>1, <1>2 DEF LinkTypes, LinkAside
  <1> QED
    BY <1>1, <1>6, <1>7, <1>9, <1>10, RecordStepKeeps DEF LinkAside

\* LetGo and Listing where data are forgotten and every link is told to release them.
LEMMA WithdrawnKept ==
    ASSUME CopiesInv, NEW data \in SUBSET Item, Copies!Forgotten(data), standing' = standing,
           \A x \in data : standing[x] = "pruned",
           toRelease' \subseteq toRelease, \A x \in Item : ToBeWithdrawn(x) => x \in data \/ ToBeWithdrawn(x)',
           HolderAside, \A s \in Copies!Strand : plan'[s].stale \subseteq plan[s].stale,
           \A d \in Holder : \A p \in Of(toHolder'[d]) :
               p \in Of(toHolder[d]) \/ p.kind # "release" \/ p.x \in data
    PROVE  /\ LetGo' /\ Listing'
           /\ table' \in [Item -> [Holder -> {"none", "part", "full"}]]
  <1>1. LetGo'
    BY StrandIsConstant DEF CopiesInv, LetGo
  <1>2. table \in [Item -> [Holder -> {"none", "part", "full"}]]
    BY DEF CopiesInv, RecordTypes
  <1>3. table' \in [Item -> [Holder -> {"none", "part", "full"}]]
    BY <1>2 DEF Copies!Forgotten
  <1>4. \A x \in Item, d \in Holder : table'[x][d] = "full" => table[x][d] = "full" /\ x \notin data
    BY <1>2 DEF Copies!Forgotten
  <1>5. Listing'
    BY <1>4, ListingKept
  <1> QED
    BY <1>1, <1>3, <1>5

LEMMA CarryOutKeeps ==
    ASSUME CopiesInv, NEW s \in Copies!Strand, Copies!CarryOut(s) PROVE CopiesInv'
  <1> DEFINE stale == plan[s].stale
             copies(d) == {x \in Item : <<d, x>> \in plan[s].copies}
  <1>1. HolderAside /\ client' = client /\ standing' = standing /\ toRelease' = toRelease
        /\ wire' = wire /\ view' = view /\ toRecord' = toRecord /\ Copies!Forgotten(stale)
        /\ plan' = [plan EXCEPT ![s] = Copies!NoPlan]
        /\ toHolder' = [d \in Holder |->
               IF wire[d] = "down" THEN toHolder[d]
               ELSE toHolder[d] \o Copies!Told("replicate", copies(d)) \o Copies!Told("release", stale)]
    BY DEF HolderAside, Copies!CarryOut, Copies!storeVars
  <1>2. plan \in [Copies!Strand -> [copies : SUBSET (Holder \X Item), stale : SUBSET Item]]
        /\ LinkTypes /\ RecordTypes
    BY DEF CopiesInv, RecordTypes
  <1>3. stale \in SUBSET Item /\ \A x \in stale : standing[x] = "pruned"
    BY <1>2 DEF CopiesInv, LetGo
  <1>4. ASSUME NEW d \in Holder
        PROVE  toHolder'[d] \in Seq(HolderPacket)
               /\ \A p \in Of(toHolder'[d]) : p \in Of(toHolder[d]) \/ p.kind # "release" \/ p.x \in stale
    <2> DEFINE a == Copies!Told("replicate", copies(d))
               b == Copies!Told("release", stale)
    <2>1. toHolder[d] \in Seq(HolderPacket) /\ copies(d) \in SUBSET Item
      BY <1>2 DEF LinkTypes
    <2>2. a \in Seq(HolderPacket) /\ (\A p \in Of(a) : p.kind = "replicate")
          /\ b \in Seq(HolderPacket) /\ (\A p \in Of(b) : p.x \in stale)
      BY <1>3, <2>1, ToldAbout
    <2>3. toHolder'[d] = toHolder[d] \/ toHolder'[d] = toHolder[d] \o a \o b
      BY <1>1
    <2> HIDE DEF a, b
    <2>4. toHolder[d] \o a \in Seq(HolderPacket) /\ Of(toHolder[d] \o a) \subseteq Of(toHolder[d]) \cup Of(a)
      BY <2>1, <2>2, QueueJoin
    <2>5. toHolder[d] \o a \o b \in Seq(HolderPacket)
          /\ Of(toHolder[d] \o a \o b) \subseteq Of(toHolder[d] \o a) \cup Of(b)
      BY <2>2, <2>4, QueueJoin
    <2> QED
      BY <2>1, <2>2, <2>3, <2>4, <2>5
  <1>5. \A r \in Copies!Strand : plan'[r] = IF r = s THEN Copies!NoPlan ELSE plan[r]
    BY <1>1, <1>2
  <1>6. \A r \in Copies!Strand : plan'[r].stale \subseteq plan[r].stale
    BY <1>5 DEF Copies!NoPlan
  <1>7. \A x \in Item : ToBeWithdrawn(x) => x \in stale \/ ToBeWithdrawn(x)'
    BY <1>1, <1>5, StrandIsConstant DEF ToBeWithdrawn
  <1>8. DOMAIN toHolder' = Holder /\ toHolder' = [d \in Holder |-> toHolder'[d]]
    BY <1>1
  <1> HIDE DEF stale
  <1>9. LetGo' /\ Listing' /\ table' \in [Item -> [Holder -> {"none", "part", "full"}]]
    BY <1>1, <1>3, <1>4, <1>6, <1>7, WithdrawnKept
  <1>10. RecordTypes'
    <2>1. Copies!NoPlan \in [copies : SUBSET (Holder \X Item), stale : SUBSET Item]
      BY DEF Copies!NoPlan
    <2>2. plan' \in [Copies!Strand -> [copies : SUBSET (Holder \X Item), stale : SUBSET Item]]
      BY <1>1, <1>2, <2>1
    <2> QED
      BY <1>1, <1>2, <1>9, <2>2, StrandIsConstant DEF RecordTypes
  <1>11. toHolder' \in [Holder -> Seq(HolderPacket)]
    BY <1>4, <1>8
  <1>12. LinkTypes'
    BY <1>1, <1>2, <1>11 DEF LinkTypes
  <1> QED
    BY <1>1, <1>9, <1>10, <1>12, RecordStepKeeps

LEMMA ReleaseDataKeeps ==
    ASSUME CopiesInv, NEW x \in Item, Copies!ReleaseData(x) PROVE CopiesInv'
  <1>1. HolderAside /\ client' = client /\ standing' = standing /\ plan' = plan
        /\ wire' = wire /\ view' = view /\ toRecord' = toRecord /\ Copies!Forgotten({x})
        /\ x \in toRelease /\ toRelease' = toRelease \ {x}
        /\ toHolder' = [d \in Holder |->
               IF wire[d] = "down" THEN toHolder[d] ELSE toHolder[d] \o Copies!Told("release", {x})]
    BY DEF HolderAside, Copies!ReleaseData, Copies!storeVars
  <1>2. LinkTypes /\ RecordTypes /\ {x} \in SUBSET Item /\ standing[x] = "pruned"
    BY <1>1 DEF CopiesInv, LetGo
  <1>3. ASSUME NEW d \in Holder
        PROVE  toHolder'[d] \in Seq(HolderPacket)
               /\ \A p \in Of(toHolder'[d]) : p \in Of(toHolder[d]) \/ p.kind # "release" \/ p.x \in {x}
    <2> DEFINE b == Copies!Told("release", {x})
    <2>1. toHolder[d] \in Seq(HolderPacket)
      BY <1>2 DEF LinkTypes
    <2>2. b \in Seq(HolderPacket) /\ (\A p \in Of(b) : p.x \in {x})
      BY <1>2, ToldAbout
    <2>3. toHolder'[d] = toHolder[d] \/ toHolder'[d] = toHolder[d] \o b
      BY <1>1
    <2> HIDE DEF b
    <2>4. toHolder[d] \o b \in Seq(HolderPacket) /\ Of(toHolder[d] \o b) \subseteq Of(toHolder[d]) \cup Of(b)
      BY <2>1, <2>2, QueueJoin
    <2> QED
      BY <2>1, <2>2, <2>3, <2>4
  <1>4. \A y \in Item : ToBeWithdrawn(y) => y \in {x} \/ ToBeWithdrawn(y)'
    BY <1>1, StrandIsConstant DEF ToBeWithdrawn
  <1>5. DOMAIN toHolder' = Holder /\ toHolder' = [d \in Holder |-> toHolder'[d]]
    BY <1>1
  <1>6. LetGo' /\ Listing' /\ table' \in [Item -> [Holder -> {"none", "part", "full"}]]
    BY <1>1, <1>2, <1>3, <1>4, WithdrawnKept
  <1>7. RecordTypes'
    BY <1>1, <1>2, <1>6, StrandIsConstant DEF RecordTypes
  <1>8. toHolder' \in [Holder -> Seq(HolderPacket)]
    BY <1>3, <1>5
  <1>9. LinkTypes'
    BY <1>1, <1>2, <1>8 DEF LinkTypes
  <1> QED
    BY <1>1, <1>6, <1>7, <1>9, RecordStepKeeps

LEMMA PruneKeeps ==
    ASSUME CopiesInv, NEW x \in Item, Copies!Prune(x) PROVE CopiesInv'
  <1>1. HolderAside /\ client' = client /\ LinkAside /\ table' = table /\ plan' = plan
        /\ standing' = [standing EXCEPT ![x] = "pruned"] /\ toRelease' = toRelease \cup {x}
    BY DEF HolderAside, LinkAside, Copies!Prune, Copies!storeVars
  <1>2. RecordTypes /\ LinkTypes /\ standing \in [Item -> {"committed", "pruned"}]
    BY DEF CopiesInv, RecordTypes
  <1>3. RecordTypes' /\ LinkTypes'
    BY <1>1, <1>2, StrandIsConstant DEF RecordTypes, LinkTypes, LinkAside
  <1>4. \A y : standing[y] = "pruned" /\ y \in Item => standing'[y] = "pruned"
    BY <1>1, <1>2
  <1>5. LetGo'
    <2>1. \A y \in toRelease' : standing'[y] = "pruned"
      BY <1>1, <1>2, <1>4 DEF CopiesInv, LetGo, RecordTypes
    <2>2. \A s \in Copies!Strand : \A y \in plan'[s].stale : standing'[y] = "pruned"
      BY <1>1, <1>2, <1>4 DEF CopiesInv, LetGo, RecordTypes
    <2>3. ASSUME NEW d \in Holder, NEW p \in Of(toHolder[d]), p.kind = "release" PROVE standing'[p.x] = "pruned"
      <3>1. p \in HolderPacket
        BY <1>2 DEF LinkTypes, Of
      <3>2. p.x \in Item
        BY <3>1 DEF HolderPacket
      <3> QED
        BY <1>4, <2>3, <3>2 DEF CopiesInv, LetGo
    <2> QED
      BY <1>1, <2>1, <2>2, <2>3, StrandIsConstant DEF LetGo, LinkAside
  <1>6. Listing'
    <2> SUFFICES ASSUME NEW y \in Item, NEW d \in Holder, table'[y][d] = "full"
                 PROVE  IF standing'[y] = "committed" THEN Copies!Full(d, y)' ELSE ToBeWithdrawn(y)'
      BY DEF Listing, Copies!Full
    <2>1. (Copies!Full(d, y)' <=> Copies!Full(d, y)) /\ (ToBeWithdrawn(y) => ToBeWithdrawn(y)') /\ ToBeWithdrawn(x)'
      BY <1>1, StrandIsConstant DEF HolderAside, Copies!Full, ToBeWithdrawn
    <2>2. standing'[y] = IF y = x THEN "pruned" ELSE standing[y]
      BY <1>1, <1>2
    <2>3. IF standing[y] = "committed" THEN Copies!Full(d, y) ELSE ToBeWithdrawn(y)
      BY <1>1 DEF CopiesInv, Listing
    <2> QED
      BY <2>1, <2>2, <2>3
  <1>7. \A y \in Item : standing'[y] = "committed" => standing[y] = "committed"
    BY <1>1, <1>2
  <1> QED
    BY <1>1, <1>3, <1>5, <1>6, <1>7, RecordStepKeeps DEF LinkAside

-----------------------------------------------------------------------------
(* The invariant, and what follows from it *)

LEMMA CopiesStart == Copies!Init => CopiesInv
  <1> SUFFICES ASSUME Copies!Init PROVE CopiesInv
    OBVIOUS
  <1> USE DEF Copies!Init
  <1>1. RecordTypes
    BY DEF RecordTypes, Copies!NoPlan
  <1>2. LinkTypes
    <2>1. <<>> \in Seq(Announcements) /\ <<>> \in Seq(RecordPacket) /\ <<>> \in Seq(HolderPacket)
      BY EmptySeq
    <2> QED
      BY <2>1 DEF LinkTypes
  <1>3. StoreTypes /\ client \in [Holder -> Uploading]
    BY DEF StoreTypes, Uploading, Copies!NoUpload
  <1>4. \A d \in Holder : Counts(d)
    <2>1. \A d \in Holder : Busy(d) = {}
      BY DEF Busy
    <2>2. \A d \in Holder : usedUnits[d] = 0 /\ known[d] = {} /\ inProgress[d] = 0
      OBVIOUS
    <2>3. Cardinality({}) = 0 /\ 0 <= Quota
      BY FS_EmptySet, CopiesAssumption
    <2>4. \A d \in Holder : ChunksHaveRow(d)
      BY DEF ChunksHaveRow
    <2> QED
      BY <2>1, <2>2, <2>3, <2>4 DEF Counts, Reserved, Accounted
  <1>5. LetGo /\ Listing /\ Announcing
    BY QueueEmpty DEF LetGo, Listing, Announcing, Copies!NoPlan
  <1> QED
    BY <1>1, <1>2, <1>3, <1>4, <1>5 DEF CopiesInv, StoreInv

LEMMA CopiesStep == ASSUME CopiesInv, Copies!Next PROVE CopiesInv'
  <1>1. ASSUME NEW x \in Item, Copies!Prune(x) PROVE CopiesInv'
    BY <1>1, PruneKeeps
  <1>2. CASE Copies!Housekeeping
    BY <1>2, SweepKeeps, CarryOutKeeps, ReleaseDataKeeps DEF Copies!Housekeeping, Copies!Strand
  <1>3. ASSUME NEW d \in Holder, Copies!RecordStep(d) \/ Copies!CarryOut(d) PROVE CopiesInv'
    BY <1>3, DataAnnouncedKeeps, IssueTicketKeeps, CarryOutKeeps DEF Copies!RecordStep, Copies!Strand
  <1>4. ASSUME NEW d \in Holder, Copies!LinkStep(d) PROVE CopiesInv'
    BY <1>4, ConnectKeeps, SendViewKeeps, ReleaseKeeps, ReplicateKeeps, TicketKeeps DEF Copies!LinkStep
  <1>5. ASSUME NEW d \in Holder, Copies!PullStep(d) PROVE CopiesInv'
    BY <1>5, AskTicketKeeps, FetchKeeps, OnDoneKeeps, AccountCopyKeeps, AnnounceCopyKeeps DEF Copies!PullStep
  <1>6. ASSUME NEW d \in Holder, Copies!UploadStep(d) PROVE CopiesInv'
    BY <1>6, StageChunkKeeps, FinishChunkKeeps, AccountChunkKeeps, AnnounceUploadKeeps DEF Copies!UploadStep
  <1>7. ASSUME NEW d \in Holder, Copies!ClientStep(d) PROVE CopiesInv'
    BY <1>7, OpenUploadKeeps, BeginChunkKeeps, LeaveUploadKeeps DEF Copies!ClientStep
  <1>8. ASSUME NEW d \in Holder, Copies!TimeStep(d) PROVE CopiesInv'
    BY <1>8, ExpireUploadsKeeps, AgeKeeps DEF Copies!TimeStep
  <1>9. ASSUME NEW d \in Holder, Copies!Cut(d) \/ Copies!Restart(d) PROVE CopiesInv'
    BY <1>9, CutKeeps, RestartKeeps
  <1> QED
    BY <1>1, <1>2, <1>3, <1>4, <1>5, <1>6, <1>7, <1>8, <1>9 DEF Copies!Next

LEMMA CopiesAsideKeep == ASSUME CopiesInv, UNCHANGED copiesVars PROVE CopiesInv'
  <1>1. RecordAside /\ LinkAside /\ HolderAside /\ client' = client
    BY DEF copiesVars, RecordAside, LinkAside, HolderAside
  <1> QED
    BY <1>1, StoreInOrder, StoreStepKeeps DEF CopiesInv, StoreInv

-----------------------------------------------------------------------------
(* What a data server remembers of its pulls *)

Ending == {"none", "done", "failed", "complete", "partial", "news"}
PullTypes == asker \in [Holder -> SUBSET Item] /\ wanted \in [Holder -> SUBSET Item] /\ ended \in [Holder -> [Item -> Ending]]

\* one end is written
LEMMA EndTyped ==
    ASSUME PullTypes, NEW d \in Holder, NEW x \in Item, NEW how \in Ending, ended' = [ended EXCEPT ![d][x] = how]
    PROVE  ended' \in [Holder -> [Item -> Ending]]
  BY DEF PullTypes

LEMMA PullEndsTyped ==
    ASSUME PullTypes, NEW d \in Holder, NEW x \in Item, NEW how \in {"done", "failed"}, Copies!PullEnds(d, x, how)
    PROVE  ended' \in [Holder -> [Item -> Ending]]
  BY EndTyped DEF Copies!PullEnds, Ending

\* the record of who asked, and the wish
LEMMA AskersTyped ==
    ASSUME PullTypes, NEW d \in Holder, NEW x \in Item, NEW f, f \in {asker, wanted}
    PROVE  /\ [f EXCEPT ![d] = @ \cup {x}] \in [Holder -> SUBSET Item]
           /\ [f EXCEPT ![d] = @ \ {x}] \in [Holder -> SUBSET Item]
           /\ [f EXCEPT ![d] = {}] \in [Holder -> SUBSET Item]
  <1>1. f \in [Holder -> SUBSET Item]
    BY DEF PullTypes
  <1> QED
    BY <1>1

\* the packet a data server takes names a data
LEMMA PacketNames ==
    ASSUME CopiesInv, NEW d \in Holder, NEW kind, Copies!Received(d, kind)
    PROVE  Head(toHolder[d]).x \in Item
  <1>1. toHolder[d] \in Seq(HolderPacket) /\ toHolder[d] # <<>>
    BY DEF CopiesInv, LinkTypes, Copies!Received
  <1>2. Head(toHolder[d]) \in HolderPacket
    BY <1>1, HeadTailProperties
  <1> QED
    BY <1>2 DEF HolderPacket

LEMMA TakenPullsTyped ==
    ASSUME CopiesInv, PullTypes, NEW d \in Holder, Copies!Release(d) \/ Copies!Replicate(d) \/ Copies!Ticket(d)
    PROVE  PullTypes'
  <1>1. CASE Copies!Release(d)
    <2>1. Head(toHolder[d]).x \in Item
      BY <1>1, PacketNames DEF Copies!Release
    <2> QED
      BY <1>1, <2>1, AskersTyped DEF Copies!Release, PullTypes
  <1>2. CASE Copies!Replicate(d)
    <2>1. PICK x \in Item : x = Head(toHolder[d]).x
      BY <1>2, PacketNames DEF Copies!Replicate
    <2>2. /\ asker' = [asker EXCEPT ![d] = @ \cup {x}] \/ asker' = [asker EXCEPT ![d] = @ \ {x}]
          /\ wanted' = wanted \/ wanted' = [wanted EXCEPT ![d] = @ \cup {x}]
          /\ ended' = ended
      BY <1>2, <2>1 DEF Copies!Replicate
    <2>3. asker' \in [Holder -> SUBSET Item]
      BY <2>2, AskersTyped
    <2>4. wanted' \in [Holder -> SUBSET Item]
      BY <2>2, AskersTyped, SMTT(30) DEF PullTypes
    <2> QED
      BY <2>2, <2>3, <2>4 DEF PullTypes
  <1>3. CASE Copies!Ticket(d)
    <2>1. PICK x \in Item : x = Head(toHolder[d]).x
      BY <1>3, PacketNames DEF Copies!Ticket
    <2>2. UNCHANGED <<asker, wanted>> /\ (ended' = ended \/ Copies!PullEnds(d, x, "failed"))
      BY <1>3, <2>1 DEF Copies!Ticket
    <2> QED
      BY <2>2, PullEndsTyped DEF PullTypes
  <1> QED
    BY <1>1, <1>2, <1>3

LEMMA PullStepsTyped ==
    ASSUME PullTypes, NEW d \in Holder, Copies!PullStep(d)
    PROVE  PullTypes'
  <1>1. PICK x \in Item : \/ Copies!AskTicket(d, x) \/ Copies!Fetch(d, x) \/ Copies!OnDone(d, x)
                          \/ Copies!AccountCopy(d, x) \/ Copies!AnnounceCopy(d, x)
    BY DEF Copies!PullStep
  <1>2. ended[d][x] \in Ending
    BY DEF PullTypes
  <1>3. CASE Copies!AskTicket(d, x)
    BY <1>3, PullEndsTyped DEF Copies!AskTicket, PullTypes
  <1>4. CASE Copies!Fetch(d, x)
    BY <1>4, PullEndsTyped DEF Copies!Fetch, PullTypes
  <1>5. CASE Copies!OnDone(d, x)
    <2>1. PICK how \in Ending : ended' = [ended EXCEPT ![d][x] = how]
      BY <1>5 DEF Copies!OnDone, Ending
    <2> QED
      BY <1>5, <2>1, EndTyped, AskersTyped DEF Copies!OnDone, PullTypes
  <1>6. CASE Copies!AccountCopy(d, x)
    <2>1. PICK how \in Ending : ended' = [ended EXCEPT ![d][x] = how]
      BY <1>6 DEF Copies!AccountCopy, Ending
    <2> QED
      BY <1>6, <2>1, EndTyped DEF Copies!AccountCopy, PullTypes
  <1>7. CASE Copies!AnnounceCopy(d, x)
    BY <1>7, EndTyped, AskersTyped DEF Copies!AnnounceCopy, PullTypes, Ending
  <1> QED
    BY <1>1, <1>3, <1>4, <1>5, <1>6, <1>7

LEMMA PullTypesStep == ASSUME CopiesInv, PullTypes, Copies!Next PROVE PullTypes'
  <1>1. ASSUME UNCHANGED Copies!pullVars PROVE PullTypes'
    BY <1>1 DEF PullTypes, Copies!pullVars
  <1>2. ASSUME NEW x \in Item, Copies!Prune(x) \/ Copies!ReleaseData(x) PROVE PullTypes'
    BY <1>1, <1>2 DEF Copies!Prune, Copies!ReleaseData
  <1>3. ASSUME NEW s, Copies!CarryOut(s) \/ Copies!SweepCopies PROVE PullTypes'
    BY <1>1, <1>3 DEF Copies!CarryOut, Copies!SweepCopies
  <1>4. ASSUME NEW d \in Holder, Copies!RecordStep(d) PROVE PullTypes'
    BY <1>1, <1>4 DEF Copies!RecordStep, Copies!DataAnnounced, Copies!IssueReplicaTicket
  <1>5. ASSUME NEW d \in Holder, Copies!LinkStep(d) PROVE PullTypes'
    BY <1>1, <1>5, TakenPullsTyped DEF Copies!LinkStep, Copies!Connect, Copies!SendView
  <1>6. ASSUME NEW d \in Holder, Copies!UploadStep(d) PROVE PullTypes'
    BY <1>1, <1>6 DEF Copies!UploadStep, Copies!StageChunk, Copies!FinishChunk, Copies!AccountChunk, Copies!AnnounceUpload
  <1>7. ASSUME NEW d \in Holder, Copies!ClientStep(d) PROVE PullTypes'
    BY <1>1, <1>7 DEF Copies!ClientStep, Copies!OpenUpload, Copies!BeginChunk, Copies!LeaveUpload
  <1>8. ASSUME NEW d \in Holder, Copies!TimeStep(d) PROVE PullTypes'
    BY <1>1, <1>8 DEF Copies!TimeStep, Copies!ExpireIncomplete, Copies!Age
  <1>9. ASSUME NEW d \in Holder, Copies!Cut(d) PROVE PullTypes'
    <2>1. \A x \in Item : (IF pull[d][x].at = "asking" THEN "failed" ELSE ended[d][x]) \in Ending
      BY DEF PullTypes, Ending
    <2> QED
      BY <1>9, <2>1 DEF Copies!Cut, PullTypes
  <1>10. ASSUME NEW d \in Holder, Copies!Restart(d) PROVE PullTypes'
    <2>1. asker' \in [Holder -> SUBSET Item] /\ wanted' \in [Holder -> SUBSET Item]
      BY <1>10 DEF Copies!Restart, PullTypes
    <2>2. ended' \in [Holder -> [Item -> Ending]]
      BY <1>10 DEF Copies!Restart, PullTypes, Ending
    <2> QED
      BY <2>1, <2>2 DEF PullTypes
  <1> QED
    BY <1>2, <1>3, <1>4, <1>5, <1>6, <1>7, <1>8, <1>9, <1>10, PullStepsTyped DEF Copies!Next, Copies!Housekeeping

LEMMA PullTypesStart == ASSUME Copies!Init PROVE PullTypes
  BY DEF Copies!Init, PullTypes, Ending

\* The counters are bounded by the data there are.
LEMMA CopiesTyped == ASSUME CopiesInv, PullTypes PROVE Copies!TypeOK
  <1>1. Copies!Cardinality(Item) = Cardinality(Item) /\ Cardinality(Item) \in Nat /\ IsFiniteSet(Item)
    BY HeldAreCounted, ItemsFinite, CopiesAssumption
  <1>2. ASSUME NEW d \in Holder PROVE usedUnits[d] \in 0..Cardinality(Item) /\ inProgress[d] \in 0..Cardinality(Item)
    <2>1. usedUnits[d] = Cardinality(known[d]) /\ inProgress[d] = Cardinality(Busy(d))
      BY DEF CopiesInv, StoreInv, Counts, Reserved, Accounted
    <2>2. known[d] \subseteq Item /\ Busy(d) \subseteq Item
      BY DEF CopiesInv, StoreInv, StoreTypes, Busy
    <2>3. /\ Cardinality(known[d]) \in Nat /\ Cardinality(known[d]) <= Cardinality(Item)
          /\ Cardinality(Busy(d)) \in Nat /\ Cardinality(Busy(d)) <= Cardinality(Item)
      BY <1>1, <2>2, FS_Subset, FS_CardinalityType
    <2> QED
      BY <1>1, <2>1, <2>3
  <1>3. usedUnits \in [Holder -> 0..Copies!Cardinality(Item)] /\ inProgress \in [Holder -> 0..Copies!Cardinality(Item)]
    BY <1>1, <1>2 DEF CopiesInv, StoreInv, StoreTypes
  <1> QED
    BY <1>3 DEF CopiesInv, RecordTypes, LinkTypes, StoreInv, StoreTypes, PullTypes, Ending, Copies!TypeOK

\* The invariant has what the runs check: the counters a data server refuses uploads by say what its
\* tables say, and the record server lists only servers that hold the data.
LEMMA CopiesImplied == CopiesInv => Copies!StoreCounts /\ Copies!ListedIsHeld
  <1> SUFFICES ASSUME CopiesInv PROVE Copies!StoreCounts /\ Copies!ListedIsHeld
    OBVIOUS
  <1>1. \A d \in Holder : Copies!Counted(d) = Cardinality(Busy(d))
    BY HeldAreCounted DEF Copies!Counted, Busy
  <1>2. \A d \in Holder : Reserved(d) /\ Accounted(d) /\ ChunksHaveRow(d)
    BY DEF CopiesInv, StoreInv, Counts
  <1>3. Copies!StoreCounts
    BY <1>1, <1>2, HeldAreCounted DEF Copies!StoreCounts, Reserved, Accounted, ChunksHaveRow
  <1>4. \A x \in Item : standing[x] \in {"committed", "pruned"}
    BY DEF CopiesInv, RecordTypes
  <1>5. Copies!ListedIsHeld
    BY <1>4 DEF CopiesInv, Listing, ToBeWithdrawn, Copies!ListedIsHeld
  <1> QED
    BY <1>3, <1>5
=============================================================================
