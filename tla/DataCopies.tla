---------------------------- MODULE DataCopies ----------------------------
(***************************************************************************)
(* The data servers of a record server and the copies they keep: uploads   *)
(* and their accounting (data_connection, server_data_store), the links    *)
(* over which data servers announce what they hold (record_server_link,    *)
(* data_server), the availability table and the plan of the record server  *)
(* (data_availability, data_replication_plan, data_coordinator), and the   *)
(* pulls that make copies (data_replicator).                               *)
(*                                                                         *)
(* One storage on one record server. A data is all of Chunk; its size is   *)
(* one unit of a store's quota. Every handler of a connection runs on the  *)
(* connection's strand; the client connection, the pulls and the timers of *)
(* a data server run beside it, and a step ends where a lock is released   *)
(* with something read under it still to be used.                          *)
(***************************************************************************)
EXTENDS Naturals, Sequences, SequencesExt, FiniteSets

CONSTANTS Server,        \* the data servers
          Data,          \* the data of the storage
          Chunk,         \* the chunks of a data
          Primary,       \* the servers placement wants copies at
          Entry,         \* the servers clients upload to
          Quota,         \* the data a store may know of
          MaxUploads,    \* bound: uploads opened
          MaxBreaks      \* bound: links lost and data servers restarted, together

VARIABLES
    standing,   \* what the storage says of a data: committed or pruned
    toRelease,  \* pruned, and release_data not called yet
    table,      \* data_availability: what each server announced of each data
    plan,       \* by strand or timer: what look_after_copies found and has not carried out
    wire,       \* the link of a data server: down, viewing (ready, its view computed) or up
    view,       \* the packets of a view computed and not sent yet
    toRecord, toHolder,  \* the packets under way on each link
    known, have,         \* the rows of each store and the chunks of each row
    touched,             \* data_activity: fresh, old enough to expire, or none
    usedUnits, inProgress,  \* the counters of each store
    client,     \* the upload on the client connection of each server
    asker, wanted,  \* asked_by_ and the replicator's wanted_
    pull, ended,    \* the download of each data, and the end of one being settled
    spent       \* uploads and breaks taken from the bounds

recordVars == <<standing, toRelease, table, plan>>
storeVars == <<known, have, touched, usedUnits, inProgress>>
pullVars == <<asker, wanted, pull, ended>>
vars == <<recordVars, wire, view, toRecord, toHolder, storeVars, client, pullVars, spent>>

Timer == "timer"
Strand == Server \cup {Timer}
NoPlan == [copies |-> {}, stale |-> {}]
NoUpload == [at |-> "idle"]
Idle == [at |-> "idle"]

Full(d, x) == x \in known[d] /\ have[d][x] = Chunk

Announcement(begin, end, entries) ==
    [kind |-> "announce", begin |-> begin, end |-> end, entries |-> entries]

\* data_server::announcements: everything held completely, one entry to a packet (the batch
\* of the code is 500); nothing held is one empty packet
View(d) ==
    LET held == SetToSeq({x \in Data : Full(d, x)})
        n == IF held = <<>> THEN 1 ELSE Len(held)
    IN  [i \in 1..n |->
            Announcement(i = 1, i = n, IF held = <<>> THEN {} ELSE {<<held[i], "full">>})]

\* data_server::announcement: what the row says now, nothing without a row
News(d, x) ==
    IF x \in known[d]
    THEN <<Announcement(FALSE, FALSE, {<<x, IF Full(d, x) THEN "full" ELSE "part">>})>>
    ELSE <<>>

\* record_server_link::announce: only a ready link sends
Announced(d, x) ==
    toRecord' = [toRecord EXCEPT ![d] = IF wire[d] = "down" THEN @ ELSE @ \o News(d, x)]

Init ==
    /\ standing = [x \in Data |-> "committed"]
    /\ toRelease = {}
    /\ table = [x \in Data |-> [d \in Server |-> "none"]]
    /\ plan = [s \in Strand |-> NoPlan]
    /\ wire = [d \in Server |-> "down"]
    /\ view = [d \in Server |-> <<>>]
    /\ toRecord = [d \in Server |-> <<>>]
    /\ toHolder = [d \in Server |-> <<>>]
    /\ known = [d \in Server |-> {}]
    /\ have = [d \in Server |-> [x \in Data |-> {}]]
    /\ touched = [d \in Server |-> [x \in Data |-> "none"]]
    /\ usedUnits = [d \in Server |-> 0]
    /\ inProgress = [d \in Server |-> 0]
    /\ client = [d \in Server |-> NoUpload]
    /\ asker = [d \in Server |-> {}]
    /\ wanted = [d \in Server |-> {}]
    /\ pull = [d \in Server |-> [x \in Data |-> Idle]]
    /\ ended = [d \in Server |-> [x \in Data |-> "none"]]
    /\ spent = [uploads |-> 0, breaks |-> 0]

----------------------------------------------------------------------------
(* The record server *)

\* Mutant of Missing: a complete copy at one of the primaries is enough
MMissingOne(t, x) ==
    IF \E d \in Primary : t[x][d] = "full" THEN {} ELSE {d \in Primary : \E e \in Server : t[x][e] = "full"}
\* missing_copies: the primaries without a complete copy, once somebody has one
Missing(t, x) ==
    IF \E d \in Server : t[x][d] = "full" THEN {d \in Primary : t[x][d] # "full"} ELSE {}

\* Mutant of PlanOf: what the storage let go is not looked for
MPlanNoStale(t, data) ==
    [copies |-> {c \in Server \X data :
                    standing[c[2]] = "committed" /\ c[1] \in Missing(t, c[2]) /\ wire[c[1]] # "down"},
     stale |-> {}]
\* plan_replication over the given data: copies for the primaries that can be told, and the
\* data held though the storage let them go
PlanOf(t, data) ==
    [copies |-> {c \in Server \X data :
                    standing[c[2]] = "committed" /\ c[1] \in Missing(t, c[2]) /\ wire[c[1]] # "down"},
     stale |-> {x \in data : standing[x] = "pruned" /\ \E d \in Server : t[x][d] = "full"}]

\* data_availability::known_data
KnownData(t) == {x \in Data : \E d \in Server : t[x][d] # "none"}

\* the table after an announcement of d: a view's first packet voids what d announced before
TableAfter(d, p) ==
    [x \in Data |-> [e \in Server |->
        IF e # d THEN table[x][e]
        ELSE IF \E m \in p.entries : m[1] = x THEN (CHOOSE m \in p.entries : m[1] = x)[2]
        ELSE IF p.begin THEN "none" ELSE table[x][e]]]

\* data_announced: the table, then look_after_copies over what is complete, over everything
\* known at the end of a view
DataAnnounced(d) ==
    /\ toRecord[d] # <<>> /\ Head(toRecord[d]).kind = "announce" /\ plan[d] = NoPlan
    /\ LET p == Head(toRecord[d])
           t == TableAfter(d, p)
           complete == {m[1] : m \in {e \in p.entries : e[2] = "full"}}
       IN  /\ table' = t
           /\ plan' = [plan EXCEPT ![d] = PlanOf(t, IF p.end THEN KnownData(t) ELSE complete)]
    /\ toRecord' = [toRecord EXCEPT ![d] = Tail(@)]
    /\ UNCHANGED <<standing, toRelease, wire, view, toHolder, storeVars, client, pullVars, spent>>

\* sweep_copies on its timer; the interval is long against all but the moving of chunks
Settled ==
    /\ \A s \in Strand : plan[s] = NoPlan
    /\ \A d \in Server : toHolder[d] = <<>> /\ toRecord[d] = <<>> /\ wire[d] # "viewing"
    /\ \A d \in Server, x \in Data :
          ended[d][x] = "none" /\ pull[d][x].at \in {"idle", "moving"}
SweepCopies ==
    /\ Settled
    /\ PlanOf(table, KnownData(table)) # NoPlan
    /\ plan' = [plan EXCEPT ![Timer] = PlanOf(table, KnownData(table))]
    /\ UNCHANGED <<standing, toRelease, table, wire, view, toRecord, toHolder, storeVars, client,
                   pullVars, spent>>

\* release_data: forgotten here, and every linked data server is told
Forgotten(data) ==
    table' = [x \in Data |-> IF x \in data THEN [d \in Server |-> "none"] ELSE table[x]]
Told(kind, data) == [i \in 1..Cardinality(data) |-> [kind |-> kind, x |-> SetToSeq(data)[i]]]

\* what look_after_copies does with its plan, after it let go of every lock
CarryOut(s) ==
    /\ plan[s] # NoPlan
    /\ Forgotten(plan[s].stale)
    /\ toHolder' = [d \in Server |->
           IF wire[d] = "down" THEN toHolder[d]
           ELSE toHolder[d] \o Told("replicate", {x \in Data : <<d, x>> \in plan[s].copies})
                            \o Told("release", plan[s].stale)]
    /\ plan' = [plan EXCEPT ![s] = NoPlan]
    /\ UNCHANGED <<standing, toRelease, wire, view, toRecord, storeVars, client, pullVars, spent>>

\* a cut of the chain lets the data go ...
Prune(x) ==
    /\ standing[x] = "committed"
    /\ standing' = [standing EXCEPT ![x] = "pruned"]
    /\ toRelease' = toRelease \cup {x}
    /\ UNCHANGED <<table, plan, wire, view, toRecord, toHolder, storeVars, client, pullVars, spent>>

\* ... and the storage's handler releases it
ReleaseData(x) ==
    /\ x \in toRelease
    /\ toRelease' = toRelease \ {x}
    /\ Forgotten({x})
    /\ toHolder' = [d \in Server |->
           IF wire[d] = "down" THEN toHolder[d] ELSE toHolder[d] \o Told("release", {x})]
    /\ UNCHANGED <<standing, plan, wire, view, toRecord, storeVars, client, pullVars, spent>>

\* request_replica_ticket: refused unless the data is committed and another server holds it
IssueReplicaTicket(d) ==
    /\ toRecord[d] # <<>> /\ Head(toRecord[d]).kind = "ask" /\ plan[d] = NoPlan
    /\ LET x == Head(toRecord[d]).x
           sources == {s \in Server \ {d} : table[x][s] = "full"}
           from == IF standing[x] = "committed" THEN sources ELSE {}
       IN  toHolder' = [toHolder EXCEPT ![d] = Append(@, [kind |-> "ticket", x |-> x, from |-> from])]
    /\ toRecord' = [toRecord EXCEPT ![d] = Tail(@)]
    /\ UNCHANGED <<recordVars, wire, view, storeVars, client, pullVars, spent>>

----------------------------------------------------------------------------
(* server_data_store: each of these holds the store's lock *)

Touch(d, x) ==
    /\ touched' = [touched EXCEPT ![d][x] = "fresh"]
    /\ inProgress' = [inProgress EXCEPT ![d] = IF touched[d][x] = "none" THEN @ + 1 ELSE @]

Forget(d, data) ==
    /\ touched' = [touched EXCEPT ![d] = [x \in Data |-> IF x \in data THEN "none" ELSE @[x]]]
    /\ inProgress' = [inProgress EXCEPT ![d] =
           @ - Cardinality({x \in data : touched[d][x] # "none"})]

\* release and expire_incomplete end with it: the rows, their chunks, their reservation
Drop(d, data) ==
    /\ known' = [known EXCEPT ![d] = @ \ data]
    /\ have' = [have EXCEPT ![d] = [x \in Data |-> IF x \in data THEN {} ELSE @[x]]]
    /\ usedUnits' = [usedUnits EXCEPT ![d] = @ - Cardinality(data \cap known[d])]

Refused(d, x) == x \notin known[d] /\ usedUnits[d] + 1 > Quota

\* Mutant of Opened: every open reserves
MOpenedAlways(d, x) ==
    /\ known' = [known EXCEPT ![d] = @ \cup {x}]
    /\ usedUnits' = [usedUnits EXCEPT ![d] = @ + 1]
    /\ IF Full(d, x) THEN UNCHANGED <<touched, inProgress>> ELSE Touch(d, x)
    /\ UNCHANGED have
\* open, not refused: a known data holds its reservation already
Opened(d, x) ==
    /\ known' = [known EXCEPT ![d] = @ \cup {x}]
    /\ usedUnits' = [usedUnits EXCEPT ![d] = IF x \in known[d] THEN @ ELSE @ + 1]
    /\ IF Full(d, x) THEN UNCHANGED <<touched, inProgress>> ELSE Touch(d, x)
    /\ UNCHANGED have

\* chunk_kept: the row was read before the lock
ChunkKept(d, x, complete) == IF complete THEN Forget(d, {x}) ELSE Touch(d, x)

\* time passes over an upload or a copy nothing works on
Age(d, x) ==
    /\ touched[d][x] = "fresh" /\ pull[d][x] = Idle /\ ended[d][x] = "none"
    /\ client[d].at \in {"idle", "open"}
    /\ touched' = [touched EXCEPT ![d][x] = "old"]
    /\ UNCHANGED <<recordVars, wire, view, toRecord, toHolder, known, have, usedUnits, inProgress,
                   client, pullVars, spent>>

Untouched(d) == {x \in Data : touched[d][x] = "old"}

ExpireIncomplete(d) ==
    /\ Untouched(d) # {}
    /\ Forget(d, Untouched(d))
    /\ Drop(d, {x \in Untouched(d) : ~Full(d, x)})
    /\ UNCHANGED <<recordVars, wire, view, toRecord, toHolder, client, pullVars, spent>>

----------------------------------------------------------------------------
(* data_connection: an upload. The ticket may be from before the data was pruned. *)

Upload(d, step) == client' = [client EXCEPT ![d] = step]

OpenUpload(d, x) ==
    /\ d \in Entry /\ client[d].at = "idle" /\ spent.uploads < MaxUploads
    /\ spent' = [spent EXCEPT !.uploads = @ + 1]
    /\ IF Refused(d, x)
       THEN UNCHANGED <<storeVars, client>>
       ELSE Opened(d, x) /\ Upload(d, [at |-> "open", x |-> x])
    /\ UNCHANGED <<recordVars, wire, view, toRecord, toHolder, pullVars>>

\* begin_chunk: the row is read first; a chunk of a row that is gone, or that is held, is refused
BeginChunk(d, c) ==
    /\ client[d].at = "open"
    /\ LET x == client[d].x
       IN  IF x \in known[d] /\ c \notin have[d][x]
           THEN Upload(d, [at |-> "begun", x |-> x, c |-> c])
           ELSE Upload(d, NoUpload)
    /\ UNCHANGED <<recordVars, wire, view, toRecord, toHolder, storeVars, pullVars, spent>>

StageChunk(d) ==
    /\ client[d].at = "begun"
    /\ Touch(d, client[d].x)
    /\ Upload(d, [client[d] EXCEPT !.at = "staged"])
    /\ UNCHANGED <<recordVars, wire, view, toRecord, toHolder, known, have, usedUnits, pullVars, spent>>

\* finish_chunk: the staged chunk is kept if the row is still there, and the row read again
FinishChunk(d) ==
    /\ client[d].at = "staged"
    /\ LET x == client[d].x
           kept == have[d][x] \cup {client[d].c}
       IN  IF x \in known[d]
           THEN /\ have' = [have EXCEPT ![d][x] = kept]
                /\ Upload(d, [at |-> "kept", x |-> x, complete |-> kept = Chunk])
           ELSE /\ Upload(d, NoUpload)
                /\ UNCHANGED have
    /\ UNCHANGED <<recordVars, wire, view, toRecord, toHolder, known, touched, usedUnits, inProgress,
                   pullVars, spent>>

AccountChunk(d) ==
    /\ client[d].at = "kept"
    /\ ChunkKept(d, client[d].x, client[d].complete)
    /\ Upload(d, [at |-> IF client[d].complete THEN "news" ELSE "open", x |-> client[d].x])
    /\ UNCHANGED <<recordVars, wire, view, toRecord, toHolder, known, have, usedUnits, pullVars, spent>>

AnnounceUpload(d) ==
    /\ client[d].at = "news"
    /\ Announced(d, client[d].x)
    /\ Upload(d, NoUpload)
    /\ UNCHANGED <<recordVars, wire, view, toHolder, storeVars, pullVars, spent>>

\* the client goes away, or the connection trims the idle upload
LeaveUpload(d) ==
    /\ client[d].at = "open"
    /\ Upload(d, NoUpload)
    /\ UNCHANGED <<recordVars, wire, view, toRecord, toHolder, storeVars, pullVars, spent>>

----------------------------------------------------------------------------
(* record_server_link *)

\* the hello came: the link is ready and the view is computed ...
Connect(d) ==
    /\ wire[d] = "down"
    /\ wire' = [wire EXCEPT ![d] = "viewing"]
    /\ view' = [view EXCEPT ![d] = View(d)]
    /\ UNCHANGED <<recordVars, toRecord, toHolder, storeVars, client, pullVars, spent>>

\* ... and then sent
SendView(d) ==
    /\ wire[d] = "viewing"
    /\ wire' = [wire EXCEPT ![d] = "up"]
    /\ toRecord' = [toRecord EXCEPT ![d] = @ \o view[d]]
    /\ view' = [view EXCEPT ![d] = <<>>]
    /\ UNCHANGED <<recordVars, toHolder, storeVars, client, pullVars, spent>>

LinkLost(d) ==
    /\ wire' = [wire EXCEPT ![d] = "down"]
    /\ view' = [view EXCEPT ![d] = <<>>]
    /\ toRecord' = [toRecord EXCEPT ![d] = <<>>]
    /\ toHolder' = [toHolder EXCEPT ![d] = <<>>]

\* on_disconnected: whoever waits for a ticket is answered
Cut(d) ==
    /\ wire[d] # "down" /\ spent.breaks < MaxBreaks
    /\ \A x \in Data : pull[d][x].at = "asking" => ended[d][x] = "none"
    /\ LinkLost(d)
    /\ pull' = [pull EXCEPT ![d] = [x \in Data |-> IF @[x].at = "asking" THEN Idle ELSE @[x]]]
    /\ ended' = [ended EXCEPT ![d] = [x \in Data |-> IF pull[d][x].at = "asking" THEN "failed" ELSE @[x]]]
    /\ spent' = [spent EXCEPT !.breaks = @ + 1]
    /\ UNCHANGED <<recordVars, storeVars, client, asker, wanted>>

\* a data server stops and starts again: the rows, the chunks and the activity are on disk, the
\* counters are read from them, and what is long untouched expires first
Restart(d) ==
    /\ spent.breaks < MaxBreaks
    /\ LinkLost(d)
    /\ LET expired == {x \in Untouched(d) : ~Full(d, x)}
       IN  /\ known' = [known EXCEPT ![d] = @ \ expired]
           /\ have' = [have EXCEPT ![d] = [x \in Data |-> IF x \in expired THEN {} ELSE @[x]]]
           /\ usedUnits' = [usedUnits EXCEPT ![d] = Cardinality(known[d] \ expired)]
    /\ touched' = [touched EXCEPT ![d] = [x \in Data |-> IF @[x] = "old" THEN "none" ELSE @[x]]]
    /\ inProgress' = [inProgress EXCEPT ![d] = Cardinality({x \in Data : touched[d][x] = "fresh"})]
    /\ Upload(d, NoUpload)
    /\ asker' = [asker EXCEPT ![d] = {}]
    /\ wanted' = [wanted EXCEPT ![d] = {}]
    /\ pull' = [pull EXCEPT ![d] = [x \in Data |-> Idle]]
    /\ ended' = [ended EXCEPT ![d] = [x \in Data |-> "none"]]
    /\ spent' = [spent EXCEPT !.breaks = @ + 1]
    /\ UNCHANGED recordVars

Received(d, kind) == wire[d] = "up" /\ toHolder[d] # <<>> /\ Head(toHolder[d]).kind = kind
Taken(d) == toHolder' = [toHolder EXCEPT ![d] = Tail(@)]

Release(d) ==
    /\ Received(d, "release")
    /\ LET x == Head(toHolder[d]).x
       IN  /\ Forget(d, {x})
           /\ Drop(d, {x})
           /\ asker' = [asker EXCEPT ![d] = @ \ {x}]
    /\ Taken(d)
    /\ UNCHANGED <<recordVars, wire, view, toRecord, client, wanted, pull, ended, spent>>

----------------------------------------------------------------------------
(* data_replicator *)

\* replicate_one: a copy that is complete is announced again, another is queued unless it is
\* under way
Replicate(d) ==
    /\ Received(d, "replicate")
    /\ LET x == Head(toHolder[d]).x
       IN  \/ /\ Refused(d, x)
              /\ asker' = [asker EXCEPT ![d] = @ \cup {x}]
              /\ UNCHANGED <<toRecord, storeVars, wanted, pull>>
           \/ /\ ~Refused(d, x) /\ Full(d, x)
              /\ Opened(d, x)
              /\ asker' = [asker EXCEPT ![d] = @ \ {x}]
              /\ Announced(d, x)
              /\ UNCHANGED <<wanted, pull>>
           \/ /\ ~Refused(d, x) /\ ~Full(d, x)
              /\ Opened(d, x)
              /\ asker' = [asker EXCEPT ![d] = @ \cup {x}]
              /\ wanted' = [wanted EXCEPT ![d] = @ \cup {x}]
              /\ pull' = [pull EXCEPT ![d][x] = IF @ = Idle THEN [at |-> "queued"] ELSE @]
              /\ UNCHANGED toRecord
    /\ Taken(d)
    /\ UNCHANGED <<recordVars, wire, view, client, ended, spent>>

\* a download ends; its end is settled by whoever runs the downloader's callbacks
PullEnds(d, x, how) ==
    /\ ended[d][x] = "none"
    /\ pull' = [pull EXCEPT ![d][x] = Idle]
    /\ ended' = [ended EXCEPT ![d][x] = how]

\* ask_ticket and replica_ticket: the record server that asked for the copy, if it is known
\* and linked
AskTicket(d, x) ==
    /\ pull[d][x].at = "queued"
    /\ IF x \in wanted[d] /\ x \in asker[d] /\ wire[d] # "down"
       THEN /\ toRecord' = [toRecord EXCEPT ![d] = Append(@, [kind |-> "ask", x |-> x])]
            /\ pull' = [pull EXCEPT ![d][x] = [at |-> "asking"]]
            /\ UNCHANGED ended
       ELSE /\ PullEnds(d, x, "failed")
            /\ UNCHANGED toRecord
    /\ UNCHANGED <<recordVars, wire, view, toHolder, storeVars, client, asker, wanted, spent>>

Ticket(d) ==
    /\ Received(d, "ticket")
    /\ LET p == Head(toHolder[d])
       IN  IF pull[d][p.x].at # "asking" THEN UNCHANGED <<pull, ended>>
           ELSE IF p.from = {} THEN PullEnds(d, p.x, "failed")
           ELSE /\ pull' = [pull EXCEPT ![d][p.x] = [at |-> "moving", from |-> p.from]]
                /\ UNCHANGED ended
    /\ Taken(d)
    /\ UNCHANGED <<recordVars, wire, view, toRecord, storeVars, client, asker, wanted, spent>>

\* the downloader: a chunk from a holder that has it, until nothing is missing; a holder that
\* lacks it, or a row that is gone here, ends the pull
Missed(d, x) == Chunk \ have[d][x]
Fetchable(d, x) == {c \in Missed(d, x) : \E s \in pull[d][x].from : c \in have[s][x]}
Fetch(d, x) ==
    /\ pull[d][x].at = "moving"
    /\ \/ /\ x \in known[d] /\ Fetchable(d, x) # {}
          /\ \E c \in Fetchable(d, x) : have' = [have EXCEPT ![d][x] = @ \cup {c}]
          /\ UNCHANGED <<pull, ended>>
       \/ /\ x \in known[d] /\ Missed(d, x) = {}
          /\ PullEnds(d, x, "done")
          /\ UNCHANGED have
       \/ /\ x \notin known[d] \/ (Missed(d, x) # {} /\ Fetchable(d, x) = {})
          /\ PullEnds(d, x, "failed")
          /\ UNCHANGED have
    /\ UNCHANGED <<recordVars, wire, view, toRecord, toHolder, known, touched, usedUnits, inProgress,
                   client, asker, wanted, spent>>

\* on_done: the wish goes, whichever pull it was for; without an error the row is read ...
OnDone(d, x) ==
    /\ ended[d][x] \in {"done", "failed"}
    /\ wanted' = [wanted EXCEPT ![d] = @ \ {x}]
    /\ ended' = [ended EXCEPT ![d][x] =
           IF @ = "failed" THEN "none" ELSE IF Full(d, x) THEN "complete" ELSE "partial"]
    /\ UNCHANGED <<recordVars, wire, view, toRecord, toHolder, storeVars, client, asker, pull, spent>>

\* ... replica_pulled accounts for it ...
AccountCopy(d, x) ==
    /\ ended[d][x] \in {"complete", "partial"}
    /\ ChunkKept(d, x, ended[d][x] = "complete")
    /\ ended' = [ended EXCEPT ![d][x] = IF @ = "complete" THEN "news" ELSE "none"]
    /\ UNCHANGED <<recordVars, wire, view, toRecord, toHolder, known, have, usedUnits, client, asker,
                   wanted, pull, spent>>

\* ... and a complete copy is announced
AnnounceCopy(d, x) ==
    /\ ended[d][x] = "news"
    /\ asker' = [asker EXCEPT ![d] = @ \ {x}]
    /\ Announced(d, x)
    /\ ended' = [ended EXCEPT ![d][x] = "none"]
    /\ UNCHANGED <<recordVars, wire, view, toHolder, storeVars, client, wanted, pull, spent>>

----------------------------------------------------------------------------
RecordStep(d) == DataAnnounced(d) \/ IssueReplicaTicket(d)
Housekeeping == SweepCopies \/ CarryOut(Timer) \/ \E x \in Data : ReleaseData(x)
LinkStep(d) == Connect(d) \/ SendView(d) \/ Release(d) \/ Replicate(d) \/ Ticket(d)
PullStep(d) ==
    \E x \in Data : AskTicket(d, x) \/ Fetch(d, x) \/ OnDone(d, x) \/ AccountCopy(d, x)
                    \/ AnnounceCopy(d, x)
UploadStep(d) == StageChunk(d) \/ FinishChunk(d) \/ AccountChunk(d) \/ AnnounceUpload(d)
ClientStep(d) ==
    \/ \E x \in Data : OpenUpload(d, x)
    \/ \E c \in Chunk : BeginChunk(d, c)
    \/ LeaveUpload(d)
TimeStep(d) == ExpireIncomplete(d) \/ \E x \in Data : Age(d, x)

Next ==
    \/ \E x \in Data : Prune(x)
    \/ Housekeeping
    \/ \E d \in Server :
          \/ RecordStep(d) \/ CarryOut(d)
          \/ LinkStep(d) \/ PullStep(d) \/ UploadStep(d) \/ ClientStep(d) \/ TimeStep(d)
          \/ Cut(d) \/ Restart(d)

Spec == Init /\ [][Next]_vars

\* The threads of both servers run, a lost link is dialled again, time passes and the timers
\* fire. Nothing is asked of clients, and nobody has to prune, cut or stop.
Fairness ==
    /\ WF_vars(Housekeeping)
    /\ \A d \in Server :
          /\ WF_vars(RecordStep(d)) /\ WF_vars(CarryOut(d))
          /\ WF_vars(LinkStep(d)) /\ WF_vars(PullStep(d)) /\ WF_vars(UploadStep(d))
          /\ WF_vars(TimeStep(d))

FairSpec == Spec /\ Fairness

----------------------------------------------------------------------------
(* Properties *)

Counted(d) == Cardinality({x \in Data : touched[d][x] # "none"})

\* Every variable has its type.
TypeOK ==
    /\ standing \in [Data -> {"committed", "pruned"}]
    /\ toRelease \subseteq Data
    /\ table \in [Data -> [Server -> {"none", "part", "full"}]]
    /\ plan \in [Strand -> [copies : SUBSET (Server \X Data), stale : SUBSET Data]]
    /\ wire \in [Server -> {"down", "viewing", "up"}]
    /\ known \in [Server -> SUBSET Data]
    /\ have \in [Server -> [Data -> SUBSET Chunk]]
    /\ touched \in [Server -> [Data -> {"none", "fresh", "old"}]]
    /\ usedUnits \in [Server -> 0..Cardinality(Data)]
    /\ inProgress \in [Server -> 0..Cardinality(Data)]
    /\ asker \in [Server -> SUBSET Data] /\ wanted \in [Server -> SUBSET Data]
    /\ ended \in [Server -> [Data -> {"none", "done", "failed", "complete", "partial", "news"}]]

\* The counters a store announces and refuses by (used_bytes_, uploads_in_progress_) say what
\* its tables say whatever uploads, pulls, releases, expiry and restarts did, chunks have a
\* row, and the quota is kept.
StoreCounts ==
    \A d \in Server :
        /\ usedUnits[d] = Cardinality(known[d]) /\ usedUnits[d] <= Quota
        /\ inProgress[d] = Counted(d)
        /\ \A x \in Data : have[d][x] # {} => x \in known[d]

\* The availability table sends clients and pulls only to servers that hold the data: a listed
\* server that does not have it any more was released by a prune, and the listing is an
\* announcement that crossed the release and is about to be withdrawn.
ListedIsHeld ==
    \A x \in Data, d \in Server :
        table[x][d] = "full" =>
            \/ Full(d, x)
            \/ standing[x] = "pruned"
               /\ (x \in toRelease \/ \E s \in Strand : x \in plan[s].stale)

\* a row expiry does not know of: incomplete, and without an activity
Orphan(d, x) == x \in known[d] /\ ~Full(d, x) /\ touched[d][x] = "none"

\* A pruned data goes from every data server for good, though releases are lost with their
\* link, cross announcements and pulls, and uploads with older tickets go on; only a row that
\* lost its activity while incomplete stays.
ReleasedIsGone ==
    \A x \in Data :
        standing[x] = "pruned" ~>
            [](\A d \in Server : x \notin known[d] \/ Orphan(d, x))

\* A data the record server goes on listing gets its copies: every primary holds it in the
\* end, unless it is pruned or a primary has no room for it.
CopiesMade ==
    \A x \in Data :
        (<>[](\E d \in Server : table[x][d] = "full")) =>
            <>(\A d \in Primary : Full(d, x) \/ Refused(d, x))
=============================================================================
