---------------------------- MODULE SyncEngine -----------------------------
(***************************************************************************)
(* The client's sync engine (spsync/engine/sync_engine.cpp) over its local *)
(* record storage, the client's comm layer, and the server session that    *)
(* answers it (spsync/server/server_lib/connection.cpp, storage.cpp), for  *)
(* one storage.  Clients commit records, are told of the others' records,  *)
(* lose their connection, restart, and in the weak modes hop to another    *)
(* replica; a refused record is rebuilt on the chain the client knows.     *)
(*                                                                         *)
(* Engine events run under the engine mutex, one at a time and in the      *)
(* order the comm layer queued them: s2c[c] is that queue.  The server     *)
(* handles one request of a session at a time and queues its answer after  *)
(* the storage mutex is released, so a notification can overtake it.       *)
(***************************************************************************)
EXTENDS ChainRules

CONSTANTS
    Server,       \* the replicas of the storage
    NoServer,
    AuthorOf,     \* the client that performs each operation
    Replicas,     \* the servers each client's connection owner may connect to
    Root,         \* the user change that founded the storage
    First,        \* the data change after it, by the same client
    Joined,       \* the clients that have synced and attached to a replica before
    AskClients,   \* the clients with conflict_policy::ask; the others rebase_on_top
    MaxReturned,  \* records in one answer to a fetch
    Faulty,       \* the clients faults happen to
    MaxFaults     \* lost connections, restarts and transient refusals

VARIABLES
    log,        \* each server's chain
    conn,       \* the server each client is connected to
    listening,  \* whether the client's session listens to the storage
    eng,        \* each client's engine and record storage
    c2s,        \* requests on the wire
    answer,     \* the answer a session has computed and not queued yet
    s2c,        \* the client's event queue
    late,       \* commits of lost sessions the server may still come to
    faults

vars == <<log, conn, listening, eng, c2s, answer, s2c, late, faults>>

\* The storage was founded by a user change and has a first record; every operation has its
\* client and every client a replica to connect to.
ASSUME SyncAssumption ==
    /\ Root \in Op \cap SpecialOps /\ First \in Op \ SpecialOps
    /\ \A op \in Op : AuthorOf[op] \in Client
    /\ \A c \in Client : Replicas[c] # {} /\ Replicas[c] \subseteq Server
    /\ NoServer \notin Server
    /\ MaxReturned \in Nat \ {0} /\ MaxFaults \in Nat

Strict == Mode = AllSeen
RootForm == [tag |-> <<Root, AuthorOf[Root], 1>>, seen |-> NoBlock, special |-> NoTag, prev |-> NoTag]
FirstForm == [tag |-> <<First, AuthorOf[First], 1>>, seen |-> HeadOf(<<RootForm>>),
              special |-> RootForm.tag, prev |-> NoTag]
Founded == <<RootForm, FirstForm>>

\* the elements of s at the places I, in their order
AtPlaces(s, I) == [k \in 1..Cardinality(I) |-> s[CHOOSE i \in I : Cardinality({j \in I : j <= i}) = k]]

-----------------------------------------------------------------------------
(* The record storage: rows [form, st, id, ver] in key order.  id is the   *)
(* block id of a confirmed row and the predicted one of a pending row, ver *)
(* the number of forms this client made of the operation.                  *)

States == {"pending_commit", "in_sync", "pending_sync", "invalid"}
Row == [form : Form, st : States, id : BlockId, ver : Nat]

RowsIn(e, states) == {i \in DOMAIN e.rows : e.rows[i].st \in states}
FindTag(e, tag) == {i \in DOMAIN e.rows : e.rows[i].form.tag = tag}
FindOp(e, op) == {i \in DOMAIN e.rows : OpIn(e.rows[i].form) = op}
FindSeq(e, n) == {i \in RowsIn(e, {"in_sync"}) : e.rows[i].id.seq = n}

\* last_block(allow_local): the row with the largest sequence, of equal ones the newest
LastBlock(e, states) ==
    LET held == RowsIn(e, states)
        top == Max({e.rows[i].id.seq : i \in held})
    IN  IF held = {} THEN NoBlock
        ELSE e.rows[Max({i \in held : e.rows[i].id.seq = top})].id

\* the newest confirmed row of a kind, 0 for none
NewestRow(e, Kind(_)) ==
    LET seqs == {e.rows[i].id.seq : i \in {j \in RowsIn(e, {"in_sync"}) : Kind(e.rows[j].form)}}
    IN  IF seqs = {} THEN 0 ELSE CHOOSE i \in FindSeq(e, Max(seqs)) : TRUE

TagOf(e, i) == IF i = 0 THEN NoTag ELSE e.rows[i].form.tag
LastSpecialTag(e) == TagOf(e, NewestRow(e, IsSpecial))
FindLast(e, x) == TagOf(e, NewestRow(e, LAMBDA f : About(f, x)))
LastAdd(e) == LET i == NewestRow(e, IsAdd) IN IF i = 0 THEN 0 ELSE e.rows[i].id.seq

\* chain_block's constructor: a client predicts the sequence after the block it saw
Predicted(f) == [seq |-> f.seen.seq + 1, tag |-> f.tag, parent |-> NoTag]

-----------------------------------------------------------------------------
(* The engine.  w = [e, out, threw]: the engine, the requests its event    *)
(* sends and whether the event was cut short by an exception.              *)

Running(e) == [e |-> e, out |-> <<>>, threw |-> FALSE]

\* Mutant of FetchCursor: one before the first gap, without asking whether there is one.
FetchCursorUnchecked(e) ==
    LET received == {e.rows[i].id.seq : i \in RowsIn(e, {"in_sync", "pending_sync"})}
        gaps == {n \in 1..Max({0} \cup received) : n \notin received}
    IN  IF gaps = {} THEN 0 - 1 ELSE Min(gaps) - 1

\* Mutant of FetchCursor: the highest sequence received.
FetchCursorHighest(e) ==
    Max({0} \cup {e.rows[i].id.seq : i \in RowsIn(e, {"in_sync", "pending_sync"})})

\* fetch_cursor: the record before the first gap
FetchCursor(e) ==
    LET received == {e.rows[i].id.seq : i \in RowsIn(e, {"in_sync", "pending_sync"})}
    IN  Max({0} \cup {q \in received : 1..q \subseteq received})

Behind(e) == FetchCursor(e) < e.serverSeq
FetchFrom(w, start) == [w EXCEPT !.out = Append(@, [type |-> "fetch", start |-> start])]

\* commit_record
CommitRecord(w, f) ==
    IF w.e.fork THEN w
    ELSE [w EXCEPT !.e.pushing = TRUE, !.out = Append(@, [type |-> "commit", form |-> f])]

\* find_oid_conflicts
Conflicts(e, f) ==
    /\ ~IsSpecial(f) /\ f.prev # NoTag
    /\ FindLast(e, ObjectOf[OpIn(f)]) \notin {NoTag, f.prev}

\* update_record
Rebuilt(c, e, r) ==
    LET f == [tag |-> <<OpIn(r.form), c, r.ver + 1>>,
              seen |-> LastBlock(e, {"in_sync"}), special |-> LastSpecialTag(e),
              prev |-> IF Conflicts(e, r.form) THEN FindLast(e, ObjectOf[OpIn(r.form)]) ELSE r.form.prev]
    IN  [form |-> f, st |-> r.st, id |-> Predicted(f), ver |-> r.ver + 1]

\* what try_commit_pending makes of a pending row: cancel_conflicting, rebase_if_needed,
\* update_pending_commit
Prepared(c, e, r) ==
    LET f == r.form
        clash == Conflicts(e, f)
        head == LastBlock(e, {"in_sync"})
        onHead == f.seen = head /\ f.special = LastSpecialTag(e)
        stale == NeedsRebase(f, head, LastSpecialTag(e), LastAdd(e))
    IN  IF clash /\ c \in AskClients THEN [r EXCEPT !.st = "invalid"]
        ELSE IF clash \/ (stale /\ ~onHead) THEN Rebuilt(c, e, r)
        ELSE r

\* Mutant of TryCommitPending: the rejection marks are not looked at.
TryCommitPendingRejected(c, w) ==
    LET e == w.e
        pending == RowsIn(e, {"pending_commit"})
        ready == {i \in pending : Prepared(c, e, e.rows[i]).st = "pending_commit"}
        first == Min(ready \cup {Len(e.rows) + 1})
        prepared == [w EXCEPT !.e.rows = [i \in DOMAIN @ |->
                         IF i \in pending /\ i <= first THEN Prepared(c, e, @[i]) ELSE @[i]]]
    IN  IF e.pushing \/ e.fork THEN w
        ELSE IF ready = {} THEN prepared
        ELSE CommitRecord(prepared, prepared.e.rows[first].form)

\* try_commit_pending: pending rows in key order until one can be committed
TryCommitPending(c, w) ==
    LET e == w.e
        pending == RowsIn(e, {"pending_commit"})
        ready == {i \in pending : LET p == Prepared(c, e, e.rows[i])
                                  IN  p.st = "pending_commit" /\ p.form.tag \notin e.rejected}
        first == Min(ready \cup {Len(e.rows) + 1})
        prepared == [w EXCEPT !.e.rows = [i \in DOMAIN @ |->
                         IF i \in pending /\ i <= first THEN Prepared(c, e, @[i]) ELSE @[i]]]
    IN  IF e.pushing \/ e.fork THEN w
        ELSE IF ready = {} THEN prepared
        ELSE CommitRecord(prepared, prepared.e.rows[first].form)

\* mark_rejected
MarkRejected(w, tag) ==
    IF FindTag(w.e, tag) = {} THEN w ELSE [w EXCEPT !.e.rejected = @ \cup {tag}]

\* resolve_rejected_duplicates; its search for a twin finds nothing, the op id of a row is unique
ResolveDuplicates(w) ==
    [w EXCEPT !.e.rejected =
        {t \in @ : \E i \in FindTag(w.e, t) : w.e.rows[i].st = "pending_commit"}]

\* update_server_seq
SawSeq(e, n) == [e EXCEPT !.serverSeq = Max({@, n})]

\* check_chain_block_weak
CheckWeak(e, b) == IF FindSeq(e, b.seq) = {} THEN "in_sync" ELSE "invalid"

\* Mutant of CheckStrict: a record after a gap does not wait.
CheckStrictSkipsGap(e, b) ==
    IF b.seq <= LastBlock(e, {"in_sync"}).seq THEN "invalid" ELSE "in_sync"

\* check_chain_block_strict
CheckStrict(e, b) ==
    LET last == LastBlock(e, {"in_sync"}).seq
        parent == {i \in RowsIn(e, {"in_sync"}) : e.rows[i].form.tag = b.parent}
    IN  IF b.seq <= last THEN "invalid"
        ELSE IF b.seq = 1 /\ b.parent = NoTag THEN "in_sync"
        ELSE IF parent # {}
        THEN IF \E i \in parent : e.rows[i].id.seq + 1 = b.seq THEN "in_sync" ELSE "invalid"
        ELSE IF last + 1 < b.seq THEN "pending_sync" ELSE "invalid"

CheckBlock(e, b) == IF Strict THEN CheckStrict(e, b) ELSE CheckWeak(e, b)

\* Mutant of UpdateCommitState: a record the notification confirmed is checked once more.
UpdateCommitStateTwice(e, i, b) ==
    LET st == CheckBlock(e, b)
    IN  IF st = "invalid" THEN [e EXCEPT !.rows[i].st = "invalid"]
        ELSE [e EXCEPT !.rows[i].st = st, !.rows[i].id = IdOf(b)]

\* update_record_commit_state
UpdateCommitState(e, i, b) ==
    LET st == CheckBlock(e, b)
    IN  IF e.rows[i].st = "in_sync" THEN e
        ELSE IF st = "invalid" THEN [e EXCEPT !.rows[i].st = "invalid"]
        ELSE [e EXCEPT !.rows[i].st = st, !.rows[i].id = IdOf(b)]

\* Mutant of AdoptCommitted: the row keeps the form it was rebuilt to.
AdoptCommittedOwnForm(e, i, b) ==
    LET st == CheckBlock(e, b)
    IN  IF st = "invalid" THEN e ELSE [e EXCEPT !.rows[i].st = st, !.rows[i].id = IdOf(b)]

\* adopt_committed
AdoptCommitted(e, i, b) ==
    LET st == CheckBlock(e, b)
    IN  IF st = "invalid" THEN e
        ELSE [e EXCEPT !.rows[i].form = b.form, !.rows[i].st = st, !.rows[i].id = IdOf(b)]

\* check_pending_records: the waiting rows that link up to block id, one after another
CheckPendingRecords(e, id) ==
    LET waiting == RowsIn(e, {"pending_sync"})
        Follows(j) ==
            \/ e.rows[j].id.seq = id.seq + 1 /\ e.rows[j].id.parent = id.tag
            \/ \E h \in waiting : /\ e.rows[j].id.seq = e.rows[h].id.seq + 1
                                  /\ e.rows[j].id.parent = e.rows[h].form.tag
        linked == {i \in waiting : \A n \in (id.seq + 1)..e.rows[i].id.seq :
                      \E j \in waiting : e.rows[j].id.seq = n /\ Follows(j)}
    IN  [e EXCEPT !.rows = [i \in DOMAIN @ |->
            IF i \in linked THEN [@[i] EXCEPT !.st = "in_sync"] ELSE @[i]]]

\* check_fork: the author saw another block than the one confirmed here
ForkSeen(e, f) ==
    Strict /\ \E i \in FindSeq(e, f.seen.seq) : e.rows[i].id # f.seen

\* verify_block and handle_block_chain; storing a second row of an op id throws
VerifyBlock(c, w, b) ==
    LET e == SawSeq([w.e EXCEPT !.fork = @ \/ ForkSeen(w.e, b.form)], b.seq)
        st == CheckBlock(e, b)
        row == [form |-> b.form, st |-> st, id |-> IdOf(b), ver |-> 0]
        created == [e EXCEPT !.rows = Append(@, row)]
        linked == CheckPendingRecords(created, IdOf(b))
    IN  IF FindOp(e, OpIn(b.form)) # {} THEN [w EXCEPT !.e = e, !.threw = TRUE]
        ELSE IF st # "in_sync" THEN [w EXCEPT !.e = created]
        ELSE IF LastBlock(linked, {"in_sync"}).seq = linked.serverSeq
        THEN TryCommitPending(c, [w EXCEPT !.e = linked])
        ELSE [w EXCEPT !.e = linked]

\* handle_incoming_record
HandleIncoming(c, w, b) ==
    LET known == FindTag(w.e, b.form.tag)
        own == {i \in FindOp(w.e, OpIn(b.form)) : w.e.rows[i].st = "pending_commit"}
        cleared == [w EXCEPT !.e.rejected = {}]
        i == CHOOSE j \in known \cup own : TRUE
        told == UpdateCommitState(w.e, i, b)
    IN  IF known = {}
        THEN IF own # {} THEN [cleared EXCEPT !.e = AdoptCommitted(@, i, b)]
             ELSE VerifyBlock(c, cleared, b)
        ELSE IF own # {}
        THEN [w EXCEPT !.e = [told EXCEPT !.rejected = @ \ {b.form.tag}]]
        ELSE w

\* begin_replica_resync
BeginReplicaResync(e, s) ==
    LET kept == AtPlaces(e.rows, {i \in DOMAIN e.rows : e.rows[i].st # "pending_sync"})
    IN  [e EXCEPT !.owner = s, !.serverSeq = 0,
                  !.rows = [i \in DOMAIN kept |->
                      IF kept[i].st = "in_sync" THEN [kept[i] EXCEPT !.st = "pending_commit"]
                      ELSE kept[i]]]

\* check_cursor_owner
CheckCursorOwner(e, s) ==
    IF e.owner = NoServer THEN [e EXCEPT !.owner = s]
    ELSE IF e.owner = s \/ Strict THEN e
    ELSE BeginReplicaResync(e, s)

\* on_fetch_complete
OnFetchComplete(c, w) ==
    IF w.e.rejected = {} THEN w ELSE TryCommitPending(c, [w EXCEPT !.e.rejected = {}])

\* base_block
BaseBlock(e) ==
    LET b == LastBlock(e, IF Strict THEN {"in_sync", "pending_commit"} ELSE {"in_sync"})
    IN  IF b = NoBlock THEN LastBlock(e, {"in_sync", "pending_commit"}) ELSE b

-----------------------------------------------------------------------------
(* The queues *)

ChainBlock == [form : Form, seq : Nat \ {0}, parent : Tag]
Request ==
    [type : {"attach"}]
    \cup [type : {"fetch"}, start : Nat]
    \cup [type : {"commit"}, form : Form]
Refusals == {"out_of_sync", "already_committed", "invalid_record", "syncing"}
Event ==
    [type : {"connected"}]
    \cup [type : {"sequence"}, max : Nat]
    \cup [type : {"records"}, start : Nat, blocks : Seq(ChainBlock), last : Nat, max : Nat, begun : BOOLEAN]
    \cup [type : {"committed"}, block : ChainBlock]
    \cup [type : {"refused"}, tag : FormTag, why : Refusals]
    \cup [type : {"record"}, block : ChainBlock]
Engine == [rows : Seq(Row), serverSeq : Nat, pushing : BOOLEAN, rejected : SUBSET FormTag,
           fork : BOOLEAN, owner : Server \cup {NoServer}]

\* The shape of the state.
TypeOK ==
    /\ log \in [Server -> Seq(Form)]
    /\ conn \in [Client -> Server \cup {NoServer}]
    /\ listening \in [Client -> BOOLEAN]
    /\ eng \in [Client -> Engine]
    /\ c2s \in [Client -> Seq(Request)]
    /\ answer \in [Client -> Seq(Event)]
    /\ s2c \in [Client -> Seq(Event)]
    /\ late \in [Client -> Seq([server : Server, form : Form])]
    /\ faults \in 0..MaxFaults

FoundedRows ==
    [n \in DOMAIN Founded |-> [form |-> Founded[n], st |-> "in_sync", ver |-> 1,
                               id |-> IdOf(Block(Founded, n))]]
HomeOf(c) == CHOOSE s \in Replicas[c] : TRUE

\* Every replica holds the founding records.  The clients were invited; those in Joined have
\* the records and a session, the others nothing yet.
Init ==
    /\ log = [s \in Server |-> Founded]
    /\ conn = [c \in Client |-> IF c \in Joined THEN HomeOf(c) ELSE NoServer]
    /\ listening = [c \in Client |-> c \in Joined]
    /\ eng = [c \in Client |->
           [rows |-> IF c \in Joined THEN FoundedRows ELSE <<>>,
            serverSeq |-> IF c \in Joined THEN Len(Founded) ELSE 0,
            owner |-> IF c \in Joined THEN HomeOf(c) ELSE NoServer,
            pushing |-> FALSE, rejected |-> {}, fork |-> FALSE]]
    /\ c2s = [c \in Client |-> <<>>]
    /\ answer = [c \in Client |-> <<>>]
    /\ s2c = [c \in Client |-> <<>>]
    /\ late = [c \in Client |-> <<>>]
    /\ faults = 0

EventIs(c, type) == s2c[c] # <<>> /\ Head(s2c[c]).type = type
\* the engine is in the middle of an answer to a fetch
Busy(c) == EventIs(c, "records") /\ Head(s2c[c]).begun

\* The engine of c is done with an event: its requests go out if there is a connection.
Engines(c, w) ==
    /\ eng' = [eng EXCEPT ![c] = w.e]
    /\ c2s' = [c2s EXCEPT ![c] = IF conn[c] = NoServer THEN @ ELSE @ \o w.out]

Took(c) == s2c' = [s2c EXCEPT ![c] = Tail(@)]

\* The answer to the newest commit clears pushing_pending_commit: answers come in order, so
\* it is the newest one when no other commit is under way.
NewestCommit(c) ==
    /\ \A i \in DOMAIN c2s[c] : c2s[c][i].type # "commit"
    /\ \A i \in DOMAIN answer[c] : answer[c][i].type \notin {"committed", "refused"}
    /\ \A i \in 2..Len(s2c[c]) : s2c[c][i].type \notin {"committed", "refused"}
Answered(c) == IF NewestCommit(c) THEN [eng[c] EXCEPT !.pushing = FALSE] ELSE eng[c]

-----------------------------------------------------------------------------
(* The application *)

\* create_object_change and sync_user_change: the record is stored, then committed
SyncChange(c, op) ==
    LET e == eng[c]
        f == [tag |-> <<op, c, 1>>, seen |-> BaseBlock(e), special |-> LastSpecialTag(e),
              prev |-> IF op \in SpecialOps THEN NoTag ELSE FindLast(e, ObjectOf[op])]
        row == [form |-> f, st |-> "pending_commit", id |-> Predicted(f), ver |-> 1]
    IN  /\ AuthorOf[op] = c /\ op \notin {Root, First} /\ FindOp(e, op) = {}
        /\ BaseBlock(e) # NoBlock /\ ~Busy(c)
        /\ Engines(c, CommitRecord(Running([e EXCEPT !.rows = Append(@, row)]), f))
        /\ UNCHANGED <<log, conn, listening, answer, s2c, late, faults>>

-----------------------------------------------------------------------------
(* The connection *)

Connect(c, s) ==
    /\ conn[c] = NoServer /\ s \in Replicas[c]
    /\ conn' = [conn EXCEPT ![c] = s]
    /\ s2c' = [s2c EXCEPT ![c] = <<[type |-> "connected"]>>]
    /\ UNCHANGED <<log, listening, eng, c2s, answer, late, faults>>

Fault(c) == c \in Faulty /\ faults < MaxFaults /\ faults' = faults + 1

\* what is left of a lost session: the server may still handle what it received
Lost(c) ==
    /\ conn[c] # NoServer /\ Fault(c)
    /\ conn' = [conn EXCEPT ![c] = NoServer]
    /\ listening' = [listening EXCEPT ![c] = FALSE]
    /\ c2s' = [c2s EXCEPT ![c] = <<>>]
    /\ answer' = [answer EXCEPT ![c] = <<>>]
    /\ s2c' = [s2c EXCEPT ![c] = <<>>]
    /\ LET commits == AtPlaces(c2s[c], {i \in DOMAIN c2s[c] : c2s[c][i].type = "commit"})
       IN  late' = [late EXCEPT ![c] =
               @ \o [i \in DOMAIN commits |-> [server |-> conn[c], form |-> commits[i].form]]]
    /\ UNCHANGED log

\* on_disconnected: no answer comes any more
Disconnect(c) ==
    /\ ~Busy(c) /\ Lost(c)
    /\ eng' = [eng EXCEPT ![c].pushing = FALSE]

\* the application dies: the record storage and the cursor owner are what it keeps
Restart(c) ==
    /\ Lost(c)
    /\ eng' = [eng EXCEPT ![c].pushing = FALSE, ![c].rejected = {}, ![c].fork = FALSE,
                          ![c].serverSeq = 0]

-----------------------------------------------------------------------------
(* The engine's events *)

\* on_connected
OnConnected(c) ==
    /\ EventIs(c, "connected") /\ Took(c)
    /\ Engines(c, [Running([eng[c] EXCEPT !.pushing = FALSE, !.rejected = {}])
                   EXCEPT !.out = <<[type |-> "attach"]>>])
    /\ UNCHANGED <<log, conn, listening, answer, late, faults>>

\* on_sequence_number_response
OnSequence(c) ==
    LET w == Running(SawSeq(CheckCursorOwner(eng[c], conn[c]), Head(s2c[c]).max))
    IN  /\ EventIs(c, "sequence") /\ Took(c)
        /\ Engines(c, IF Behind(w.e) THEN FetchFrom(w, FetchCursor(w.e))
                      ELSE TryCommitPending(c, w))
        /\ UNCHANGED <<log, conn, listening, answer, late, faults>>

\* on_record_response, one block: an exception ends the event and the rest is not looked at
OnRecordsBlock(c) ==
    LET p == Head(s2c[c])
        w == HandleIncoming(c, Running(eng[c]), Head(p.blocks))
    IN  /\ EventIs(c, "records") /\ p.blocks # <<>>
        /\ Engines(c, w)
        /\ s2c' = [s2c EXCEPT ![c] =
               IF w.threw THEN Tail(@)
               ELSE <<[p EXCEPT !.blocks = Tail(@), !.begun = TRUE]>> \o Tail(@)]
        /\ UNCHANGED <<log, conn, listening, answer, late, faults>>

\* on_record_response, after the last block: more is fetched if the answer got further
OnRecordsEnd(c) ==
    LET p == Head(s2c[c])
        more == p.begun /\ p.last < p.max
    IN  /\ EventIs(c, "records") /\ p.blocks = <<>> /\ Took(c)
        /\ Engines(c, IF more /\ (p.start = 0 \/ p.start < p.last)
                      THEN FetchFrom(Running(eng[c]), p.last)
                      ELSE OnFetchComplete(c, Running(eng[c])))
        /\ UNCHANGED <<log, conn, listening, answer, late, faults>>

\* on_commit_response, committed
OnCommitted(c) ==
    LET b == Head(s2c[c]).block
        w == Running(Answered(c))
        held == FindTag(w.e, b.form.tag)
    IN  /\ EventIs(c, "committed") /\ Took(c)
        /\ Engines(c, IF held = {} THEN w
                      ELSE TryCommitPending(c, [w EXCEPT !.e =
                               UpdateCommitState(@, CHOOSE i \in held : TRUE, b)]))
        /\ UNCHANGED <<log, conn, listening, answer, late, faults>>

\* on_commit_response, on_commit_rejected: by what the server said; a refusal carries no sequence
OnRefused(c) ==
    LET p == Head(s2c[c])
        w == Running(Answered(c))
        marked == MarkRejected(w, p.tag)
        held == {i \in FindTag(w.e, p.tag) : w.e.rows[i].st = "pending_commit"}
        dropped == [w EXCEPT !.e.rows = [i \in DOMAIN @ |->
                       IF i \in held THEN [@[i] EXCEPT !.st = "invalid"] ELSE @[i]]]
    IN  /\ EventIs(c, "refused") /\ Took(c)
        /\ Engines(c,
               CASE p.why = "out_of_sync" ->
                      IF Behind(w.e) THEN FetchFrom(w, FetchCursor(w.e))
                      ELSE TryCommitPending(c, marked)
                 [] p.why = "already_committed" ->
                      IF Behind(w.e) THEN FetchFrom(marked, FetchCursor(w.e))
                      ELSE TryCommitPending(c, ResolveDuplicates(marked))
                 [] p.why = "invalid_record" -> TryCommitPending(c, dropped)
                 [] p.why = "syncing" -> TryCommitPending(c, marked))
        /\ UNCHANGED <<log, conn, listening, answer, late, faults>>

\* on_record_received
OnRecord(c) ==
    /\ EventIs(c, "record") /\ Took(c)
    /\ Engines(c, HandleIncoming(c, Running(eng[c]), Head(s2c[c]).block))
    /\ UNCHANGED <<log, conn, listening, answer, late, faults>>

-----------------------------------------------------------------------------
(* The server's sessions *)

Asks(c, type) == conn[c] # NoServer /\ answer[c] = <<>> /\ c2s[c] # <<>> /\ Head(c2s[c]).type = type
Served(c, a) ==
    /\ c2s' = [c2s EXCEPT ![c] = Tail(@)]
    /\ answer' = [answer EXCEPT ![c] = <<a>>]
    /\ listening' = [listening EXCEPT ![c] = TRUE]

\* notify_listeners
Notify(s, b, listens) ==
    s2c' = [d \in Client |-> IF conn[d] = s /\ listens[d]
                             THEN Append(s2c[d], [type |-> "record", block |-> b]) ELSE s2c[d]]

\* storage::commit_block: the record enters the chain and the listeners hear of it
Enter(s, f, listens) ==
    /\ log' = [log EXCEPT ![s] = Append(@, f)]
    /\ Notify(s, Block(Append(log[s], f), Len(log[s]) + 1), listens)

\* request_sequence_number
ServeAttach(c) ==
    /\ Asks(c, "attach")
    /\ Served(c, [type |-> "sequence", max |-> Len(log[conn[c]])])
    /\ UNCHANGED <<log, conn, eng, s2c, late, faults>>

\* request_records: from the record the client holds on
ServeFetch(c) ==
    LET chain == log[conn[c]]
        start == Head(c2s[c]).start
        from == Max({1, start})
        last == Min({Len(chain), from + MaxReturned - 1})
    IN  /\ Asks(c, "fetch")
        /\ Served(c, [type |-> "records", start |-> start, last |-> last, max |-> Len(chain),
                      blocks |-> [i \in 1..(last - from + 1) |-> Block(chain, from + i - 1)],
                      begun |-> FALSE])
        /\ UNCHANGED <<log, conn, eng, s2c, late, faults>>

\* request_commit
ServeCommit(c) ==
    LET s == conn[c]
        f == Head(c2s[c]).form
        verdict == Evaluate(log[s], f)
    IN  /\ Asks(c, "commit")
        /\ IF verdict = "accepted"
           THEN /\ Enter(s, f, [listening EXCEPT ![c] = TRUE])
                /\ Served(c, [type |-> "committed", block |-> Block(log'[s], Len(log'[s]))])
           ELSE /\ Served(c, [type |-> "refused", tag |-> f.tag, why |-> verdict])
                /\ UNCHANGED <<log, s2c>>
        /\ UNCHANGED <<conn, eng, late, faults>>

\* request_commit refused for now: storage_syncing, unknown_signer
ServeBusy(c) ==
    /\ Asks(c, "commit") /\ Fault(c)
    /\ Served(c, [type |-> "refused", tag |-> Head(c2s[c]).form.tag, why |-> "syncing"])
    /\ UNCHANGED <<log, conn, eng, s2c, late>>

\* The answer is queued; the sequence in it was read some time since the request was taken.
Answer(c) ==
    /\ answer[c] # <<>>
    /\ LET a == Head(answer[c])
       IN  IF a.type \in {"sequence", "records"}
           THEN \E n \in a.max..Len(log[conn[c]]) :
                    s2c' = [s2c EXCEPT ![c] = Append(@, [a EXCEPT !.max = n])]
           ELSE s2c' = [s2c EXCEPT ![c] = Append(@, a)]
    /\ answer' = [answer EXCEPT ![c] = <<>>]
    /\ UNCHANGED <<log, conn, listening, eng, c2s, late, faults>>

\* a commit of a session that is gone: nobody waits for the answer
ServeLate(c) ==
    /\ late[c] # <<>>
    /\ LET p == Head(late[c])
       IN  IF Evaluate(log[p.server], p.form) = "accepted"
           THEN Enter(p.server, p.form, listening) ELSE UNCHANGED <<log, s2c>>
    /\ late' = [late EXCEPT ![c] = Tail(@)]
    /\ UNCHANGED <<conn, listening, eng, c2s, answer, faults>>

DropLate(c) ==
    /\ late[c] # <<>> /\ late' = [late EXCEPT ![c] = <<>>]
    /\ UNCHANGED <<log, conn, listening, eng, c2s, answer, s2c, faults>>

\* Replication, as module Replication has it in detail: apply_foreign takes the peer's
\* records in the peer's order and skips the operations it holds.
Missing(s, t) == {i \in DOMAIN log[s] : \A j \in DOMAIN log[t] : OpIn(log[t][j]) # OpIn(log[s][i])}
Spread(s, t) ==
    /\ Missing(s, t) # {} /\ Enter(t, log[s][Min(Missing(s, t))], listening)
    /\ UNCHANGED <<conn, listening, eng, c2s, answer, late, faults>>

-----------------------------------------------------------------------------
Events(c) ==
    \/ OnConnected(c) \/ OnSequence(c) \/ OnRecordsBlock(c) \/ OnRecordsEnd(c)
    \/ OnCommitted(c) \/ OnRefused(c) \/ OnRecord(c)

Serves(c) == ServeAttach(c) \/ ServeFetch(c) \/ ServeCommit(c) \/ Answer(c)

Next ==
    \/ \E c \in Client : \/ \E op \in Op : SyncChange(c, op)
                         \/ \E s \in Server : Connect(c, s)
                         \/ Disconnect(c) \/ Restart(c)
                         \/ Events(c) \/ Serves(c) \/ ServeBusy(c)
                         \/ ServeLate(c) \/ DropLate(c)
    \/ \E s, t \in Server : Spread(s, t)

Spec == Init /\ [][Next]_vars

\* What a step of the event loop and of a session does to the queues.
EventTaken(c) == Len(s2c'[c]) < Len(s2c[c]) \/ (s2c[c] # <<>> /\ Head(s2c'[c]) # Head(s2c[c]))
RequestTaken(c) == Len(c2s'[c]) < Len(c2s[c]) \/ Len(answer'[c]) < Len(answer[c])

\* The event loop and the sessions run, a lost connection is made again, a dead session is
\* done with, and replication brings a replica what it is missing; the application and the
\* faults may stop.  The first two lines are WF_vars(Events(c)) and WF_vars(Serves(c)) in
\* terms of the queues: an event is enabled when the queue is not empty, a session's step
\* when it has a request or an answer.
Fairness ==
    /\ \A c \in Client :
        /\ []<>(s2c[c] = <<>>) \/ []<><<EventTaken(c)>>_vars
        /\ []<>(c2s[c] = <<>> /\ answer[c] = <<>>) \/ []<><<RequestTaken(c)>>_vars
        /\ WF_vars(ServeLate(c) \/ DropLate(c))
        /\ WF_vars(\E s \in Server : Connect(c, s))
    /\ \A s, t \in Server : WF_vars(Spread(s, t))

FairSpec == Spec /\ Fairness

-----------------------------------------------------------------------------
(* Properties *)

\* The records a client shows as in sync are those of its replica (the cursor owner, once it
\* is known), each at its place of that chain and no place shown twice
\* (check_chain_block, update_record_commit_state, adopt_committed).
ConfirmedAsServed ==
    \A c \in Client : \E s \in Replicas[c] :
        /\ eng[c].owner \in {s, NoServer}
        /\ \A i \in RowsIn(eng[c], {"in_sync"}) :
               LET r == eng[c].rows[i]
               IN  /\ r.id.seq \in DOMAIN log[s] /\ r.form = log[s][r.id.seq]
                   /\ FindSeq(eng[c], r.id.seq) = {i}

\* A record is set invalid only because a server refused it for good: whatever is lost,
\* repeated or rebuilt, an honest server's record and an own record stay usable.
DroppedOnlyIfRefused ==
    \A c \in Client : \A i \in RowsIn(eng[c], {"invalid"}) : OpIn(eng[c].rows[i].form) \in RefusedOps

\* However often a record is rebuilt and committed again after a lost answer, or reaches a
\* replica by two ways, its operation enters a chain once (chain_sync::evaluate).
CommittedOnce ==
    \A s \in Server : \A i, j \in DOMAIN log[s] : OpIn(log[s][i]) = OpIn(log[s][j]) => i = j

\* The strict mode's rule of two seen blocks never fires on an honest server: no client
\* stops committing for a fork that is not there (check_fork, D10).
HonestServerTrusted == \A c \in Client : ~eng[c].fork

\* In strict mode what a client shows as in sync is a prefix of the server's chain, whatever
\* order notifications and fetched records come in (check_chain_block_strict).
ChainPrefix ==
    Strict => \A c \in Client :
        LET n == LastBlock(eng[c], {"in_sync"}).seq
        IN  /\ \A s \in Server : n <= Len(log[s])
            /\ \A k \in 1..n : \E i \in FindSeq(eng[c], k) :
                   \A s \in Server : eng[c].rows[i].id = IdOf(Block(log[s], k))

Idle(c) == c2s[c] = <<>> /\ answer[c] = <<>> /\ s2c[c] = <<>>

\* No retry storm: a refused record is not sent again until something changed, so once the
\* application and the faults stop every client falls silent (mark_rejected).
Quiesces == <>[](\A c \in Client : Idle(c))

\* Every client ends up with every record its server holds (fetch_missing, fetch_progressed).
CaughtUp ==
    \A c \in Client : <>[](\E s \in Replicas[c] :
        conn[c] = s /\ \A n \in DOMAIN log[s] : FindSeq(eng[c], n) # {})

\* A record that waits for nothing but its predecessor is verified and shown once that is in
\* sync (check_pending_records).
GapCloses ==
    \A c \in Client, n \in 1..(Cardinality(Op) + 1) :
        (\E i \in RowsIn(eng[c], {"pending_sync"}) :
            eng[c].rows[i].id.seq = n /\ \A k \in 1..(n - 1) : FindSeq(eng[c], k) # {})
        ~> FindSeq(eng[c], n) # {}

\* A record only its author holds is committed to the replica the author is connected to, or
\* given up with a reason (begin_replica_resync, on_fetch_complete).
HeldRecordsCommitted ==
    \A op \in Op \ {Root, First} : LET c == AuthorOf[op] IN
        (\E i \in FindOp(eng[c], op) : eng[c].rows[i].st = "pending_commit")
        ~> (\E i \in FindOp(eng[c], op) : eng[c].rows[i].st \in {"in_sync", "invalid"})

=============================================================================
