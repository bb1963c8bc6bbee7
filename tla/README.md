# spsync in TLA+

spsync keeps *storages*: authenticated chains of encrypted records that clients
write and servers order and replicate, with *record data* (files) beside them on
data servers. This directory models the replication between storage servers, the
client's sync engine against the server that answers it, segments and the cut of a
history, the whole path of record data from the client's disk to its copies, the
membership fold, the chat client's connection and the requests between users. TLC
checks the models on small instances, and TLAPS proves the safety invariants and action
properties those runs pass for every size, some under hypotheses that section 4 names.

Run TLC with `tlc -config pair.cfg MCReplication` (see `PROJECT.json` for each
run's module), and the proofs with `tlapm ReplicationProofs.tla`.

## 1. Inventory

Each part with its state, its operations, how it meets the others, what is hard
about it and what makes it correct. The last part lists what is not modelled.

### Storage server: one storage (`server_lib/storage.cpp`, `chain_log.cpp`, `chain_sync.cpp`, `storage_heads.cpp`, `evidence_store.cpp`)
- State, in one database per storage: the log of records in local sequence order;
  with each record the signed *assignment* (envelope, origin, origin_seq) of the
  server that took it first; the highest sequence held of every other origin
  (`storage_heads`); equivocation evidence; the replica's bootstrapping flag. In
  memory: listeners, the newest special record and data add.
- Operations: `commit_block` (a client's record: evaluate, append, sign, store the
  assignment, notify, push), `apply_foreign` (a peer's record: verify, compare with
  what is held of the origin, evaluate, append, advance the head, store the
  assignment, notify), `heads`, `history_samples`, `find_divergence`,
  `get_by_origin`, `truncate_from`.
- Hard: several database writes without a transaction around them; one operation
  offered at two servers; a chain that is truncated and grows again.
- Correct if: an operation is held once; a head never moves back and never passes
  an operation the replica lacks; evidence is sound.

### Server-to-server replication (`peer_connection.cpp`, `storage_server.cpp`)
- State per connection, lost with it: ready, the peer's last announcement, origins
  being pulled, keys asked for, origins marked as diverged.
- Messages: hello, heads (with samples), pull, envelopes, push, key request and
  answer. `storage_server` redials lost links with a backoff and re-arms the
  anti-entropy timer. `is_syncing` refuses clients while a replica is behind.
- Hard: pushes overtake pulls; a batch stops in the middle for a key that must be
  fetched; a connection goes with everything in flight; a pulled mark left behind
  stops replication silently.
- Correct if: replicas converge, equal heads mean equal operations, no replica
  refuses its clients for good, an honest server is never condemned.

### Divergence finder (`core/divergence.cpp`)
- Pure: `sample_sequences` (the head, powers of two behind it, 1),
  `find_divergence`, `plan_pull`, `plan_push`.
- Hard: histories with gaps (an origin's own sequences are interleaved with the
  records it took from others), forks between samples, boundaries at 0, 1, 2.

### Chain rules (`chain_sync.cpp`, `engine/rebase_policy.cpp`, `core/sync_mode.hpp`)
- What a record must have seen to be taken in each of four modes, dedup by op id
  and tag; the client's prediction of it (`needs_rebase`).
- Hard: the client's and the server's rule must agree although they look at
  different chains.

### Sync engine (`engine/sync_engine.cpp`) over the client's record storage (`core/record_storage.cpp`)
- State on disk: rows with a record, a state (pending_commit, in_sync,
  pending_sync, invalid), sequence and hash; the replica the sequences belong to.
  In memory: the server's sequence, whether a commit is under way, rejected tags,
  fork suspicion.
- Operations: local changes; connected, disconnected, sequence answer, records
  answer, commit answer, record notification; rebase; resync with another replica.
- Hard: notifications overtake answers; lost answers; the same operation under
  several tags; a restart with a commit in flight; a hop to a replica whose
  sequences mean something else; retry storms against records left uncommitted.
- Correct if: what is shown as in sync is what the replica's chain says; nothing is
  dropped without a refusal; an operation enters a chain once; clients catch up and
  fall silent.

### Client session and server connection (`comm/comm.cpp`, `server_lib/connection.cpp`)
- One request of a session is handled at a time; the session becomes a listener on
  its first request, before that request's answer is queued; ticket requests are
  kept by request id and failed when the connection goes.

### Segments, cuts and the history verifier (`sync_engine.cpp`, `record_storage.cpp`, `chain_sync.cpp`, `engine/history_verifier.cpp`)
- A segment record seals the records since the last one, by their tags. The server
  may cut its history before a segment and lets superseded data go; a client may
  prune its copy, and joins with the anchor of its invitation.
- Hard: object chains reach back before the cut; clients are behind, fetching or
  joining while it happens; the verification has a full and a fast form.
- Correct if: no version an object still has is lost at the server or a client,
  an honest history verifies in both forms, a segment a client makes is taken, and
  the history of another anchor is not.

### Record data store and data sync (`core/data/record_data_store.cpp`, `engine/data_sync.cpp`)
- State: a row (state, manifest, have bitmap) and a file per chunk; per connection
  the uploads and downloads asked for and those refused.
- Operations: create, register, receive and adopt chunks, read through a handle
  with a cached chunk, evict, prune, remove; connect, confirm, answers,
  announcements, explicit fetch, adoption of content already held.
- Hard: no transaction over row and files; files get lost; reads race eviction;
  announcements race answers; the data of an unconfirmed upload is the only copy.

### Transfers and the data channel (`transfer/`, `comm/comm.cpp`)
- State: a queue with the active transfers, each with a window of pieces, a
  generation per session, an action pump whose rounds never nest, retries with a
  timer; in the channel ticket requests, attempts over holders, shared links.
- Hard: answers, timers, losses and rounds come from different threads, and what
  was read under one lock is used under the next.
- Correct if: what was asked for is reported once and at last, and every call of
  the channel is answered once.

### Data servers and copies (`data_server.cpp`, `data_store.cpp`, `data_coordinator.cpp`, `data_replicator.cpp`, `data_availability.cpp`, `record_server_link.cpp`)
- State: at a data server the rows, chunks, activity times, used bytes and uploads
  in progress; at the record server the table of holders, the plans of every
  strand, what is to be released.
- Hard: whole views are replaced packet by packet, releases cross announcements
  and pulls, links and servers go in between, counters follow tables by hand.

### Membership (`core/user_merge.cpp`, `client_sync.cpp`)
- A fold of user changes in local order, which must not depend on that order. The
  members are derived anew from all that is in sync whenever a user change arrives.
- Hard: replicas number the records differently, and a change may stand, or arrive,
  before the changes its author saw.

### Chat connection (`groupchat/core/chat_connection.cpp`, `comm/net_connection_impl.hpp`)
- A rotation over servers, a reconnect timer, actions that wait for a session,
  storages attached to it, chats created over it.
- Hard: events of an attempt that is over arrive after the next one began.

### Requests (`client/request_handler.cpp`, `request_storage.cpp`, `async_key_query.cpp`, `contact_handler.cpp`)
- Packets become rows, keys are asked for one at a time from key servers whose
  connections come and go; the user accepts, refuses, bans, retries.
- Hard: answers are given to the oldest query, whichever query they are for.

### Not modelled, and why
- `engine`: records that come before their key (`retry_undecrypted_pending`),
  `on_equivocation`. `core/encryption_key_storage.cpp`, `record_creator`,
  `record_verifier`: cryptography around tables.
- `client/`: sending requests and invitations, key rotation. `groupchat/core`:
  the message and file views of a channel. `groupchat` front ends: input and output.
- `protocol/`: serialisation. `external/json`: third-party. Server start-up,
  configuration and the storage tool.

## 2. Modules

| module | models | kind |
|---|---|---|
| `Divergence` | `core/divergence.cpp`, `chain_log::samples_of` | operators |
| `ForkedViews` | the pairs of views two servers can have of an origin | specification over `Divergence` |
| `Replication` | storage and peer connection of every server, one storage | specification |
| `MCReplication` | instances | TLC |
| `ChainRules` | `chain_sync::evaluate` and its rules, `needs_rebase` | operators |
| `SyncEngine` | engine, record storage, comm, server session, several clients and replicas | specification over `ChainRules` |
| `MCSyncEngine` | instances | TLC |
| `TransferService`, `TransferQueue` | what transfers promise; `transfer/` queue, pump, retries, `comm`'s table | abstract and detailed specification |
| `CallService`, `DataChannel` | what a channel promises; `net_data_channel`, tickets | abstract and detailed specification |
| `RecordDataStore`, `DataSync` | the client's store; `data_sync` over it | specification, one extending the other |
| `DataCopies` | data servers, coordinator, replicator | specification |
| `HistoryCut` | segments, cuts, anchors, the history verifier | specification |
| `UserMerge` | `merge_user_changes` | specification |
| `ChatConnection` | `chat_connection`, `network_connection` | specification |
| `Requests` | received requests and key queries | specification |
| `Transfers`, `Holdings`, `Histories`, `Users` | two or three parts side by side: queue and channel; store and copies; views and cuts; members, chats and requests | composition, with the assumptions |
| `MCRecordData` | the suite: the four above | TLC |
| `DivergenceProofs` | lemmas about bounds and powers of two | proofs |
| `ReplicationProofs` | types and all safety properties of `Replication` | proofs |
| `SyncEngineProofs` | types and all safety invariants of `SyncEngine` | proofs |
| `TransferProofs` | transfer queue, data channel | proofs, over `Transfers` |
| `RecordDataProofs` | store and data sync of a client; counters of a data server, the availability table | proofs, over `Holdings` |
| `HistoryProofs` | the three divergence theorems; the cut of a history | proofs, over `Histories` |
| `ChatMembershipProofs` | membership merge, chat connection, requests | proofs, over `Users` |
| `SuiteProofs` | the invariants of these put together, and the theorems about them | proofs, over `MCRecordData` |

Definitions keep the code's names; every one carries the function it translates in
its comment, and `PROJECT.json` has the lines. Definitions called "Mutant of ..."
are plausible bugs the properties are tested against; nothing uses them.

### Replication
A block hash commits to all that is before it, so it is modelled by the chain of
record tags; an envelope is `[origin, chain]` and its sequence is the chain's
length. `log`, `asg`, `heads`, `proofs`, `exists`, `boot`, `keys` are the columns
and tables named above. `link[x]` is one `peer_connection` object, `net[x]` the
packets on their way to it, in order. Handlers are one action each, but for the
loop of `apply_envelopes`: each record is applied under the storage's lock, other
threads run in between, so a response is taken (`HandleResp`), applied one record
a step (`ApplyNext`) and finished (`FinishResp`); the connection handles nothing
else meanwhile. A server restart loses exactly its connections, so it is a series
of `Disconnect`s; `CommitCrash` and `ApplyCrash` stop a server between two writes.
A record the rules refuse for good is in `Unacceptable`, and byte budgets are the
sets in `Fitting`. Signatures are not forged: an envelope in a packet is one its
sender had, and that this chain of custody is closed is proved (`NothingForged`).

### SyncEngine
A record's tag is `<<op, client, n>>`, the n-th form made of an operation: a
rebuilt record keeps its op id and gets a new tag. A block id is the sequence, the
tag and the parent's tag. Events run one at a time under the engine's mutex in the
order comm queued them (`s2c`). The server computes an answer and queues it in a
second step (`answer`), because the storage's mutex is released in between:
notifications overtake answers there, and the maximum sequence in an answer is
read at any moment between. Requests of a lost session may still be handled
(`late`). An exception out of a batch (a second row of an op id) ends the event,
as in the code. Replication between the servers is abstracted to `Spread`: a
replica takes the peer's next record whose operation it lacks, which is what
`Replication` and its theorems say of `apply_foreign`.

### TransferQueue and TransferService
One direction of transfers; `dir` says which, as uploads and downloads differ in
where chunks are read or staged. A step is what runs under one lock: threads of the
io context (`Thread`) take a round, collect actions, run the calls with no lock
held and report what is done; answers and timers are steps of their own; the loss
of the record connection is the four unsynchronised steps of `comm` and
`net_data_transfers`. The channel is what `CallService` promises. The refinement
maps `running` (the handles in `comm`) to the abstract set of the same name.

### DataChannel and CallService
Openings ask for a ticket, try the holders it names and share links; a call is an
opening or a piece and `times` counts its callbacks, which is the refinement. The
channel may be closed or destroyed with callbacks outstanding.

### RecordDataStore and DataSync
One data of `Chunk` chunks. An operation of the store computes the list of states
the database and the disk go through (`op`), `Write` performs one, and `Stop` may
come between any two; files are lost or damaged by `DiskFault`. `DataSync` adds the
engine, an application that fetches and evicts, another client that uploads, the
server's pruning, and transfers as `TransferService` promises them. A behaviour has
one failure: a fault or a stop. The engine has its own mutex, but the store's only for
each call: what it decided on a row it found is `due`, and `WriteDue` writes it to the
row as it is then, with reads, evictions and transfers in between. `overwritten`
remembers that an upload was noted on a row that did not wait for it any more.

### DataCopies
One storage at one record server. Each connection is a strand, so are the timers;
`plan[s]` is what a strand read under the table's lock and still has to send.
`toRecord` and `toHolder` are the packets of a link. Sweeps start when nothing
is on its way (`Settled`): the timer is far slower than a link.

### HistoryCut
Strict mode. A record is named by the sequence it was committed at, and `block` is
all that was ever committed; a storage is the set of sequences it holds. `Writer`s
commit, `Pruner`s prune, `Newcomer`s join with an anchor that may be of another
history, connections and rows get lost. The objects each record changes come from
`Changes`.

### UserMerge
The fold of one user, as users do not meet in it. Initially every causal tree over
`Tags` special records of any kind and, for each replica, every numbering of them
(`order`); they arrive in any order too, since `evaluate_foreign` does not check what a
foreign record saw and peers are ordered per origin only. At each user change the
members are folded anew from what arrived (`recompute_members`), with a parent map that
may lack some ancestors; a segment record or an unverifiable change only joins that map.

### ChatConnection and Requests
The io threads only emit events; handlers and the application's calls run on the
event loop. Of the delays one fact is kept: the reconnect delay doubles until it
outlasts the timeout of an attempt (`ShortDelays` delays are shorter). The key
client and the packet transport are not in the repository; `Requests` says in its
header what is used of them.

### MCRecordData
The parts share no state in the code paths modelled, so a behaviour of the suite is
a behaviour of one part, selected by `part` in the initial state; the others stay
in their initial state. The parts are declared in `Transfers`, `Holdings`, `Histories` and
`Users`, so that each can be proved about without the others. Part `releases` is `DataCopies` with one wanted holder,
small enough to check progress together with a lost link.

## 3. Runs

Each property has a mutant in `PROJECT.json`: a plausible bug under which the run
finds the property violated.

| run | instance | states | properties |
|---|---|---|---|
| `pair` | A, B; 3 records, one a repeated operation, committed on both sides; only A knows the signer's key; 1 disconnect; fairness | 26,725 | `TypeOK` `NoHoles` `OpsOnce` `Converges` `SyncingEnds` |
| `line` | A-B-C; 2 records at A; servers know members' keys and not each other's; one record per answer; symmetric records | 352,011 | `SameHeadsSameOps` `KeyAlwaysServed` |
| `faults` | A, B; 2 records; 3 faults out of disconnects, stops inside a commit or an apply, truncations of A | 402,644 | `EvidenceSound` `HonestNeverCondemned` `HeadsOnlyAdvance` |
| `weak` | 2 clients on 2 replicas, mode add/remove seen; 2 concurrent user changes, 1 record refused for good; 1 fault out of lost connection, restart, transient refusal; fairness | 286,690 | `TypeOK` `ConfirmedAsServed` `DroppedOnlyIfRefused` `CommittedOnce` `CaughtUp` |
| `strict` | 2 clients of one server, all-seen; 2 changes of the founding object from both sides and a third record; one client asks on conflict; 1 fault; fairness | 156,414 | `ChainPrefix` `HonestServerTrusted` `Quiesces` |
| `data` | the suite without fairness, one part to a behaviour, see below | 1,239,001 | `SuiteTypeOK`; `AnswersTheirOwn` `ChunksInOrder`; `CacheIsHeld` `FilesAsClaimed` `OnlyCopyKept`; `StoreCounts` `ListedIsHeld`; `BoundsBracketTheFork` `PullsWhatIsMissing` `EqualHeadsTellForks`; `AttachedAreTold` `ListedChatsExist`; `CutKeepsHistory`; `MemberIfEffective` |
| `progress` | the suite with fairness | 146,002 | `ServesItsOwner` `AnswersEveryCall` `OwedIsUploaded` `ReleasedIsGone` `CopiesMade` `ComesBack` `RequestsDecided` |

What they show, besides the names:
- `pair`: a key request in the middle of a batch, a push beyond a gap, and the
  reconnect that loses both, still lead to equal replicas.
- `line`: a relay applies a record before it can serve it, and never announces a
  head it cannot back; the origin's key, which C has to ask B for, always is where
  the record came from. (Members' keys are fetched in `pair`; the theorem covers
  both over any relay.)
- `faults`: whatever is half written, nobody is accused who did not sign twice.
- `weak`: a record rebuilt after a lost answer is adopted in the form the server
  has; the fetch cursor stops before the gap a lost notification left.
- `strict`: overtaking notifications leave gaps but never a wrong prefix; refused
  records do not go round and round.
- `data`, transfers: with two threads, two data, a window of 2, a failing answer and
  a lost session, no answer of an old session counts for a new transfer and pieces
  stay in order. Store: wherever the process stops there is no file without a row,
  no handle serves a dropped chunk, an upload is noted on a row that changed since it
  was found only after a fault, and the only copy of a data survives eviction
  and pruning. Copies: used bytes and uploads in progress follow the tables through
  uploads, pulls, releases, expiry and a restart; a holder that lacks the data is
  listed only while the withdrawal is under way. History: after every cut, prune,
  join and loss, object versions, both verifications and the next segment agree.
  Merge: over every tree of 3 changes, every numbering and every order of arrival, no
  removal is undone by a change that did not know of it, and a re-invitation that stands
  after what its author knew of is kept (otherwise see `merge`). Views: every
  pair up to sequence 9. Chats: two servers of which one answers; creating, joining
  and restarts.
- `progress`: the two refinements with their fairness; an owed upload, a release
  and a copy end; the connection comes back past a server that does not answer; a
  request is decided past a key server that is down, and is called authentic only
  with a registered key and a signature that holds.

### Bounds and why they are enough
- Two servers suffice for every pairwise race (push against pull, key against
  batch, disconnect in between); a third appears only as a relay, and with three in
  a line both roles of a relay (serving what it took, passing on the origin's key)
  occur.
- `MaxReturned = 1` (2 for the engine) makes every answer cut, so continued pulls
  happen with two records. `budget` uses four records, as the budget always lets
  two rows pass.
- Faults are bounded by `MaxFaults`: each mutant and each hazard needs one fault;
  evidence needs a truncation, a second signature and a delivery, hence 3.
- Two concurrent operations and a third record are what the seen rules tell apart:
  an own pending record, the one that overtakes it and the one behind both.
- `MaxHead = 9` covers samples at powers of two on both sides of 8 with gaps; the
  theorems lift the three properties to every length.
- Transfers: two data compete for one active transfer; four pieces and a window of
  2 put answered, outstanding and unsent pieces side by side; a second thread is
  what nesting rounds need. One loss or failure at a time, as each hazard needs one;
  `MaxLoad` counts data asked for and losses together.
- Channel: one opening with two holders for safety (a refusal moves to the next), two
  openings of one holder for progress (they share its link).
- Copies: two holders, both wanted, of which clients upload to one: the copy at the
  other is the pull. `copies` runs without breaks
  in `progress`, where `releases` has one; safety has one break.
- History: five commits and losses make two segments with records before and after
  and a loss; two objects of which one record changes both, which is the shared
  record a cut must keep.
- Merge: the shortest cycle of the rules has three changes, and so has a re-invitation
  with a concurrent update. `Kinds` leaves out the changes of other users only, which
  differ from `unread` in that the members are derived when they arrive.
- Requests: a good sender, a forged packet, and one that is unreadable (`data`) or
  whose key server is down (`progress`).
- `Announce` keeps one announcement of an end in flight (the timer is far slower
  than a link), the only bound on messages.

### Fairness and why the code justifies it
- `Replication`: weak fairness of the handlers (io threads run them), of `Connect`
  (`schedule_reconnect`, capped backoff) and of `Announce` (the timer re-arms on
  every tick). None for clients and faults, which are bounded or may stop.
- `SyncEngine`: weak fairness of the event loop and the sessions (written in terms
  of their queues, which is the same and spares TLC an ENABLED of the whole
  engine), of the reconnect by the connection's owner, of a dead session's end and
  of replication (the result of `pair`). Nothing is assumed of the application; no
  strong fairness anywhere.

- `TransferQueue`: the io threads run a queued round, every call is answered
  (`CallService`), timers fire, and the loss of a connection is handled to its end.
  `DataChannel`: an attempt whose answer, ticket or time limit is there goes on, and
  a link that must end (dead, or silent beyond its watch) ends. The record server's
  and the holders' answers are not assumed.
- `DataSync`: store operations and transfers run, answers are handled, the engine goes
  on to write what is due (it has its mutex), the connection's owner reconnects. `DataCopies`: links reconnect, strands and pulls
  run, sweeps and expiry come again. Nothing of uploading clients.
- `ChatConnection`: an attempt ends by its timeout or a reachable server's hello,
  the event loop and its timer run. `Requests`: the key client's promises, and the
  event loop. Nothing of the user.

Deadlock is checked in the replication runs (anti-entropy never stops) and not in
the suite and the engine runs, where everybody may be done.

### Runs that refute what the repository says
| run | what the code does | said where |
|---|---|---|
| `budget` (`NoHoles`) | a row too large for the byte budget is skipped and later rows are sent; the puller's head passes it for good | `chain_log.cpp:29`, `peer_connection.cpp:389-391` |
| `overtaken` (`DroppedOnlyIfRefused`) | at a replica hop a notification handled before the sequence answer is set invalid, and later copies count as known | `architecture.adoc:226, 240-242`, `distributed_sync.txt:850-851` |
| `gap` (`GapCloses`) | a gap closed by a commit answer does not wake the record waiting behind it | `architecture.adoc:228` |
| `stall` (`HeldRecordsCommitted`) | after a hop the records only this client holds are not sent when the fetch ends | `sync_engine.cpp:773`, `distributed_sync.txt:851` |
| `merge` (`SameMembers`) | "newer wins" and "smaller tag wins" form a cycle over three updates: the access a member ends up with, and with a removal whether there is a member, depends on the local order | `user_merge.hpp:24-28` |

The passing engine runs keep each client at its replica, so `overtaken` and `stall`
do not arise there; `CaughtUp` in weak mode is not touched by `gap`, which needs
pending_sync rows.

### Deviations met and not given a run
- A stop between the append and `store_assignment` (`storage.cpp:279-283`, and the
  same in `apply_admitted`) leaves a record with no assignment: no peer is ever
  served it and no restart repairs it. `Converges` is therefore checked without
  `CrashInside`.
- A record skipped as a duplicate at a relay moves the relay's head but is kept
  nowhere; a replica linked only to that relay sees a head it cannot pull and stays
  syncing (`storage.cpp:95-110`, `storage_server.cpp:402-414`). `SyncingEnds` is
  therefore checked on a pair. For the same reason `NoHoles` is proved without relayed
  twins: in a line A-B-C where A and B commit one operation each for itself, C can pull
  a later record of A from B before B's own record of that operation; until it
  has that one too, C's head of A has passed an operation it does not hold.
- A fork that lies between two samples is not seen and the other branch is pulled
  (`divergence.cpp:40`); `EqualHeadsTellForks` says when it cannot happen.


Record data:
- An announcement handled while a download is under way, followed by the download's
  `data_not_held` answer, leaves the data `remote_not_complete` until somebody asks
  for it (`data_sync.cpp:168-171, 197-204`); the comment there expects the
  notification to come later.
- The holder's whole view is computed when the link is ready and sent afterwards; an
  announcement sent in between is voided by `view_begin`, and the sweep only looks
  at data the table knows (`record_server_link.cpp:149-170`, `data_coordinator.cpp:88`).
- Stops: between `set_have` and `set_state` complete data stays `download_pending`
  (`record_data_store.cpp:131-137`); in `drop_chunks` data stays `in_sync` with
  chunks missing (`FilesAsClaimed` excepts torn operations). At a data server, a stop
  between registering and `touch`, or a `chunk_kept` that read the row before a
  release and reopening, leaves an incomplete row that never expires (the orphans
  `ReleasedIsGone` excepts).
- `mark_uploaded` finds the row and sets its state in two sections of the store's lock
  (`data_sync.cpp:133-139`, `record_data_store.cpp:580-586`). A read that finds a chunk
  lost by the disk in between makes the row invalid, an eviction may then empty it, and
  `in_sync` is written over that: a row that says in sync, lacks chunks and is not
  fetchable. It takes a fault of the disk; `FilesAsClaimed` says so.
- A retry that fired late is not always ignored (`net_data_transfers.hpp:184-185`); a
  done collected before a reset may be reported for the new request of the same
  data; a call posted on a closing link counts as a transport failure
  (`net_data_channel.cpp:145` against `:178`).
- `data_replicator::on_done` may erase a newer order; the next sweep repeats it.

History, members and the applications:
- A strict client that is behind when the server cuts never catches up; `prune_history`
  does not refuse a segment below the anchor (the model's application does not ask).
- In allow_all mode a stale segment followed by a cut makes the next segment's list
  of tags differ from the server's, which refuses it.
- A re-invitation that stands before the removal its author saw may be lost: with 3 a
  removal, 2 a child of 3 and 1 a concurrent update, the order 1,2,3 has no member and
  1,3,2 has one by 2 (`user_merge.cpp:58-86` against `user_merge.hpp:24-28`, the same rule
  `merge` refutes). And when a segment record arrives after the changes that saw it, the
  members stay those of the shorter tree until the next user change.
- A second key of the same sequence is stored without retrying the records under it
  (`sync_engine.cpp:326-333`), and the history verifier looks for one key only
  (`history_verifier.cpp:39-56`). `on_record_rejected` does not recompute the members.
- `hello_done` outlives the session, so a storage attached while it is down is told it
  is connected (`net_connection_impl.hpp:48-54, 107-116`); a disconnect event of a
  stopped attempt shifts the rotation of the next (`chat_connection.cpp:96-113`); a
  creation whose answer is lost leaves a storage no chat is listed for.
- After a disconnect event a late "no key" may be given to another query, which is then
  decided as `no_key` (`async_key_query.cpp:25-31, 71-85`): `RequestsDecided` asks that
  requests are decided and authentic ones true, not that every refusal is right. A stop
  before `mark_seen` stores a request twice. Nothing in the repository calls
  `emit_pending_requests`, so rows waiting at a stop wait for the user.
- With conflict policy ask a record is cancelled although its commit may be in the
  chain (`interface.hpp:117`); a second change of an object whose add is unconfirmed is
  refused once the add is in the chain (`sync_engine.cpp:961`); heads and samples of an
  announcement are read under separate locks (`storage.cpp:201`), which can only raise
  the common bound.

## 4. Proofs

TLC checks each property on the instance of a run; the theorems hold for every value
of the constants that satisfies the assumptions.

### Replication and divergence
For any sets of servers, links, records and signers and any number of faults that
satisfy `ConstantsAssumption` (finite servers, links between different servers,
budgets closed under subsets):

| theorem | states | rests on |
|---|---|---|
| `TypeCorrect` | `TypeOK` | inductive by itself; one lemma per action |
| `OperationsAppliedOnce` | `OpsOnce` | `TypeOK`; a log only grows by a record whose operation is not held, or is cut (`LogSteps`) |
| `HeadsNeverMoveBack` | `HeadsOnlyAdvance` | `Advance` is a maximum; no other action writes heads |
| `NothingForged` | `NoForgery` | the closed chain of custody: log, work list and packets hold signed envelopes only (`AsgSteps`, `WorkSteps`, `NetSteps`) |
| `EvidenceIsSound` | `EvidenceSound` | `NoForgery`: both envelopes compared were signed |
| `HonestOriginsTrusted` | `HonestNeverCondemned` | `SignedInLog`: all a never-truncated server signed agrees with its log, so it signs a sequence once |
| `KeyRequestsAreServed` | `KeyAlwaysServed` | `KeysFollow`: a server knows the keys of what it keeps and of what others received from it |
| `NothingPassedOver` | `NoHoles` | `WholeInv`; under `Intact` and `NoRelayedTwins` |
| `EqualHeadsEqualOps` | `SameHeadsSameOps` | the same |
| `ForkIsBracketed` | `BoundsBracketTheFork` | `Views`: both views are branches at the fork |
| `PullIsExact` | `PullsWhatIsMissing` | the same |
| `EqualHeadsAreTold` | `EqualHeadsTellForks` | the same, and `DistanceBetween`: any distance behind the head lies between two samples' distances |

The strengthenings are needed because the properties speak of one place only:
evidence is recorded from an envelope in a work list, which came from a packet,
which came from another server's log; and a key request is answered by a server
that learnt the key when it verified what it later served. `DiskSteps`, `LogSteps`,
`AsgSteps`, `WorkSteps`, `NetSteps` each say once what a step may do to a variable,
and every invariant proof cites them instead of opening `Next`.

`EqualHeadsAreTold` needs a fact about powers of two for heads of any size. `Distance`
is a recursive function, and the lemmas on it (`DistanceUnfolds`, `DistanceGrows`,
`DistanceBetween`) are proved by taking the least number for which they fail, so the
induction theorems of the library are not needed. Views that part with equal heads have
different heads, which are sampled; and without gaps the sample next behind the fork is
held on both sides.

`NoHoles` speaks of heads and logs, but a hole would be made much earlier: by a pull that
starts too late, an answer with a row missing, or a push taken out of turn. `WholeInv` follows a
record all the way. A pull starts behind what the asker holds (`Passed`, from what
`plan_pull` and the resumed pulls compute); so the answer to it has no gap for the asker (`Gapless`:
what lies before a member is a member too, or held), as the rows are cut at the end
only and a relay has all its head stands for; so the batch being applied has none, and
it is applied in order and ends at the first failure; so the head moves over nothing
that is missing (`HeadsWhole`). `RowsWhole` and `OwnKept` tie records, assignments and
heads of a log together.

The two hypotheses are on the constants, and each is needed:
- `Intact`: no chain is cut or half written, no record is refused by a server's own
  rules, and everything fits the byte budget. A truncated chain keeps its heads and a
  refused record moves them, both by design; without the last part `budget` is the
  counterexample. Disconnects, restarts, lost packets and `MaxReturned` stay arbitrary.
- `NoRelayedTwins`: no operation is committed at two servers, or there are only two
  servers. Otherwise a relay skips the second record of an operation, and what it
  serves then has a gap for a while (see the deviations of section 3).

`pair` meets them with two servers that commit the same operation, `line` with a relay.

### The sync engine
For any clients, servers, operations, mode, refusals and bounds that satisfy
`SyncAssumption` (the storage was founded by a user change and has a first record,
every operation has its client, every client a replica, an answer holds at least one
record):

| theorem | states | hypothesis |
|---|---|---|
| `SyncTypes` | `TypeOK` | |
| `EachOperationOnce` | `CommittedOnce` | |
| `ShownAsServed` | `ConfirmedAsServed` | `HomesKept` |
| `NothingGivenUp` | `DroppedOnlyIfRefused` | `HomesKept`, no client asks its user (`AskClients = {}`) |
| `NoFalseFork` | `HonestServerTrusted` | `StrictIsLone` |
| `ShowsAPrefix` | `ChainPrefix` | `StrictIsLone` |

The hypotheses are those under which the property is meant and the runs check it.
`HomesKept`: every client connects to one replica; a client that hops can lose a
record of another (`overtaken`). A client that asks its user gives a conflicting
record up by that very policy. `StrictIsLone`: a strict storage is on one server;
the code also lets a require_all_seen storage replicate weakly, where a replica's
chain is not linked by its records and the strict checks of a client are not meant
to hold. None of them is an ASSUME: the first two theorems do without.

A client confirms a row by the tag in the server's answer, without comparing
contents. So `SyncInv` is about tags, everywhere a form of a record can be:
- `Consistent(AllForms)`: in all chains, rows, requests and commits left behind by
  lost sessions, one tag names one form. This is kept because `Made`: the author's
  row has counted every form that exists, so a rebuilt form gets a number nobody has.
- `EngineOK`: a client has one row per operation (`OpsApart`); a row that is in sync or
  waits behind a gap is the block of the chain at its sequence (`Placed`); the founding
  records are never pending (`OwnPending`); strict rows have no hole below them (`NoGap`); nothing was
  set invalid that was not refused (`NotDropped`).
- `Truthful`: each block in an answer or a notification under way is the chain's at
  its sequence, and stays so as a chain only grows.
- `SpecialsTrue`: the special record a form names is one of a special operation, which
  is what the weak seen rules compare.

`ConfirmedAsServed` alone is not inductive: a late commit of an old form, or an answer
that was computed before a restart, would confirm the wrong row. `TrustInv` adds
`Linked`: in strict mode every record of a chain names the block before it, so the
parent a client compares in `check_fork` is the one it shows. The proof goes
function by function (`UpdateCommitState`, `AdoptCommitted`, `CheckBlock`,
`HandleIncoming`, ...): each has a lemma on types and one on `EngineOK`, and an event
is their composition.

### Record data, histories and users
The parts have their inductive invariants in modules of their own; `SuiteProofs` puts them
together (`SuiteInv`: a step of the suite is one of each part or leaves it alone, `StepOfEach`)
and states the suite's properties for any chunks, data, servers, clients, objects, chats
and bounds.

| theorem | states | inductive invariant |
|---|---|---|
| `PartsTyped` | `SuiteTypeOK` | all of them |
| `ServedIsHeld` | `CacheIsHeld` | `SyncInv` |
| `ClaimsAreTrue` | `FilesAsClaimed` | the same |
| `OnlyCopyStays` | `OnlyCopyKept` | the same |
| `CountersAreTrue` | `StoreCounts` | `CopiesInv` |
| `ListedHold` | `ListedIsHeld` | `CopiesInv` |
| `AnswersAreTheirOwn` | `AnswersTheirOwn` | `TransferInv` |
| `PiecesComeInOrder` | `ChunksInOrder` | `TransferInv` |
| `CallsAnsweredOnce` | `CallService!AtMostOnce` of the channel | `ChannelInv` |
| `CutsLoseNothing` | `CutKeepsHistory` | `HistoryInv` |
| `MembershipFollows` | `MemberIfEffective` | `MergeInv` |
| `AttachedKnowTheSession` | `AttachedAreTold` | `ChatInv` |
| `NoPhantomChats` | `ListedChatsExist` | `ChatInv` |
| `NoForgedRequests` | `OnlyAuthentic`, the safety half of `RequestsDecided` | `RequestInv` |

- Store: an operation is a list of writes carried out one by one, so what holds of row
  and files must hold of each write still to come (`AllLed`, `AllKept`), and what an
  operation promises must hold of its last one (`EndsClaimed`). `AllServed` ties a
  handle's cache to the count of drops at every write. The engine writes to a row after
  it found it, so `OwedInv` says what is due: while an upload is to be noted and nothing
  has failed, its data still waits, alone and with all its files, since eviction,
  pruning and downloads leave what waits and readers find every chunk.
- Copies: what the table lists was announced over a link that still carries older
  packets. `Announcing` says that nothing under way has become untrue for a committed
  data, `LetGo` that a release is under way only for a data the storage let go. `Listing`
  is the property made exact. The counters (`Reserved`, `Accounted`) are inductive given
  the types of the stores. `CopiesAssumption`: finitely many data, a natural quota.
  For the types alone `PullTypes` is added: what a data server remembers of its pulls.
- Transfers: the two properties are not inductive, nor is one without the other. A
  transfer counts its outstanding pieces, and they are spread over the calls without an
  answer and the round that a thread still has to run; `Sound` says for each transfer that
  the count is the number of these (`Own`), that a transfer with an opening under way has
  nothing else (`Stage`), and that the pieces in the channel come before those of the
  round and these before those of the cursor, and in a download without a failure are
  together the rest of the chunk being received and whole chunks (`Ordered`).
  This is kept because one thread runs rounds (`OneRunner`: without it two rounds could
  send stretches in the wrong order), because a data that waits is not active
  (`Waiting`), and because what is under way is of no later generation, and of this one only
  for data that are active (`Sessions`). `TransferAssumption`: the limits are natural numbers.
- Channel: a call is at exactly one place: an opening with its attempt (`Placed`) or on the
  one link it was posted on (`OpenOut`), a piece on one link until it is answered
  (`PieceOut`); so its callback runs once. `DeadIsEmpty`: a dead link was failed as
  a whole. The theorem is the step simulation of `CallService` by the channel: each step
  of the channel makes a call, answers one or stutters (`ServiceStep`).
- History: `CutKeepsHistory` compares what walks find with what was committed, so the
  invariant has to say how records point at one another. `Backbone`: a segment goes back
  to the segment before it, starts where that one ends and lists every sequence in between;
  `ObjectsLinked`: a record names the newest record before it of every object it changes.
  Then a walk from the newest version finds all versions (`WalkFindsAll`), and the fast
  verification walks to the anchor exactly when nothing is missing on the way
  (`BackboneStands`). `OnServer`: a cut leaves the records that change objects and all from the newest
  segment on; `DataKept`: no data of a version that is to be kept was released. The clients are
  the hard part, as a fetch goes on while the server cuts below it and rows come in batches that
  start anywhere: a client no row of which was lost, with an anchor of this history, either waits
  for the anchor's record, its fetch having passed all the server has before the fetch's place
  and no notification of it being on the way (`Waits`, `Fetches`), or has everything from the
  anchor up to its newest record and below it the records that change objects (`Rooted`); for
  an anchor of another history nothing is in sync (`AnchorOK`). A batch is a recursion over the
  sequences; what it does to the rows is proved by `UpTo` and `FromBelow`, which take the least
  number that fails in place of an induction. `HistoryAssumption`: there is room for a founding
  record, and records change objects.
- Merge: the fold is a recursion over the places of the local order. `Told` says what its
  rounds know up to a place: exactly the removals no full change voided, and a member
  only by a change that saw them all through the part of the tree that arrived. A part of
  the tree sees nothing the whole does not (`SawIsTrue`), and everything of a past that is
  in it (`PastIsSeen`); so a re-invitation after all its author knew of is never defeated, and
  whichever change holds the user from there on is not erased (`ReinvitationStays`).
  As the members are derived anew each time, the invariant only says that the last fold
  was right of the records it was over (`Right`). `MergeAssumption`: the kinds are those of the code. For any number of changes,
  where the run has three.
- Chats: `StoragesKnown`: a creation called successful in the queue of events made its
  storage. `CreationsApart`: a chat has one creation under way, and is open and not
  attached until its answer is handled. `ChatAssumption`: there is a server.
- Requests: an answer is given to the oldest query and not to the one it is for, so a row
  could be called authentic by another's key. `RequestInv` (types and the property)
  suffices because a query carries what it asks about and the key found is compared with
  the signature of the row; the types tie queries, results and evaluations to rows.

### Only model-checked, and why
- Everything under fairness (`Converges`, `SyncingEnds`, `CaughtUp`, `Quiesces`, and the
  properties of `progress`, the two refinements among them, whose abstract
  specifications are stated with their fairness; the safety halves of `AnswersEveryCall` and
  `RequestsDecided` are proved): the prover does not do liveness.

## 5. Plan

The components of section 1 are modelled. What is left, in this order:
1. `SyncEngine`: records that come before their key, and a passing run with replica
   hops for what does hold there.
2. `HistoryCut` in the weak modes.
