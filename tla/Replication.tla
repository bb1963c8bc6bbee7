---------------------------- MODULE Replication ----------------------------
(***************************************************************************)
(* Weak multi-master replication of ONE storage between storage servers:   *)
(* every server takes commits of its own clients, pushes them to its       *)
(* peers, and the peers exchange heads and pull what they miss             *)
(* (spsync/server/server_lib: storage.cpp, peer_connection.cpp,            *)
(* storage_server.cpp, chain_log.cpp, chain_sync.cpp; core/divergence.cpp).*)
(*                                                                         *)
(* A block hash is modelled by what it commits to: the whole chain of      *)
(* record tags up to the block.  An envelope <<origin, chain>> is one      *)
(* server's signed assignment of sequence Len(chain) to the last tag of    *)
(* the chain.  Packets of a connection arrive in order, or not at all when *)
(* it is lost.  A restart of a server loses exactly its connections, so it *)
(* is the Disconnect of each of them; a stop in the middle of a handler is *)
(* in the ...Crash actions.                                                *)
(***************************************************************************)
EXTENDS Divergence, Integers, Sequences, FiniteSets, FiniteSetsExt, Functions, SequencesExt

CONSTANTS
    Server,          \* servers = origins = the ids of their signing keys
    Home,            \* the server the storage was created on
    Conn,            \* connections <<dialer, acceptor>> the peer lists allow
    Record,          \* records, named by their tags
    Op, OpOf,        \* operation ids, and the one each record carries
    Signer, SignerOf,\* members' keys, and the one each record is signed with
    CommitAt,        \* the servers a client offers each record to
    InitKeys,        \* the public keys each server knows at the start
    Unacceptable,    \* the records each server's rules refuse for good
    Fitting,         \* the sets of records that together fit max_response_bytes
    MaxReturned,     \* chain_sync_config::max_returned_records
    CrashInside,     \* a server may stop between two database writes
    RollbackServers, \* the servers whose chain may be truncated
    MaxFaults        \* bound: disconnects, crashes and rollbacks in a behaviour

\* the two ends of the connections: one peer_connection object each
End == {x \in Conn \X Server : x[2] \in {x[1][1], x[1][2]}}
Peer(x) == <<x[1], IF x[2] = x[1][1] THEN x[1][2] ELSE x[1][1]>>
EndsOf(s) == {x \in End : x[2] = s}

ASSUME ConstantsAssumption ==
    /\ IsFiniteSet(Server) /\ Home \in Server
    /\ Conn \subseteq {c \in Server \X Server : c[1] # c[2]}
    /\ OpOf \in [Record -> Op]
    /\ SignerOf \in [Record -> Signer]
    /\ Signer \cap Server = {}
    /\ CommitAt \in [Record -> SUBSET Server]
    /\ InitKeys \in [Server -> SUBSET (Signer \cup Server)]
    /\ Unacceptable \in [Server -> SUBSET Record]
    /\ Fitting \subseteq SUBSET Record
    /\ \A f \in Fitting : SUBSET f \subseteq Fitting
    /\ MaxReturned \in Nat \ {0}
    /\ CrashInside \in BOOLEAN
    /\ RollbackServers \subseteq Server
    /\ MaxFaults \in Nat

VARIABLES
    \* on disk, per server
    log,     \* the chain: record tags in local sequence order
    asg,     \* the envelopes kept with the records (record.envelope/origin/origin_seq)
    heads,   \* storage_heads: the highest sequence held of every other origin
    proofs,  \* equivocation_evidence: <<origin, sequence>> assigned twice
    exists,  \* the storage's database exists here
    boot,    \* replica_state.bootstrapping
    keys,    \* public keys known
    \* per connection, lost with it
    up,      \* connections that are established
    link,    \* what a peer_connection object keeps, for both ends
    net,     \* per end, the packets on their way to it
    \* bookkeeping of the model
    signed,  \* every envelope a server ever signed
    faults   \* disconnects, crashes and rollbacks so far

disk == <<log, asg, heads, proofs, exists, boot, keys>>
vars == <<log, asg, heads, proofs, exists, boot, keys, up, link, net, signed, faults>>

-----------------------------------------------------------------------------
(* Envelopes and what a log tells about an origin *)

Env == [origin : Server, chain : Seq(Record) \ {<<>>}]
SeqNo(e) == Len(e.chain)
TagOf(e) == e.chain[Len(e.chain)]

Held(s) == {log[s][i] : i \in DOMAIN log[s]}
HeldOps(s) == {OpOf[r] : r \in Held(s)}

\* record_storage: the assignments of one origin kept in a log
OfOrigin(s, o) == {e \in asg[s] : e.origin = o}

\* record_storage::last_origin_seq
LastOriginSeq(s, o) == Max({0} \cup {SeqNo(e) : e \in OfOrigin(s, o)})

\* storage::known_origin_seq
Known(s, o) == IF o = s THEN LastOriginSeq(s, s) ELSE heads[s][o]

\* evidence_store::condemned
Condemned(s, o) == \E p \in proofs[s] : p[1] = o

\* record_storage::origin_block_hash for every sequence: the history held of an origin, by the
\* origin's sequences and hashes
Blocks(envs, o) == {[seq |-> SeqNo(e), hash |-> e.chain] : e \in {f \in envs : f.origin = o}}

\* storage::heads and storage::history_samples: what a server announces
Announcement(s) ==
    [heads   |-> [o \in Server |-> Known(s, o)],
     samples |-> {e \in asg[s] : /\ Known(s, e.origin) > 0
                                 /\ SeqNo(e) \in SampleSequences(LastOriginSeq(s, e.origin))}]

\* storage::find_divergence against the samples of an announcement
CommonSeq(s, o, a) == LastCommon(Blocks(a.samples, o), Blocks(asg[s], o))
DivergentSeq(s, o, a) == FirstDivergent(Blocks(a.samples, o), Blocks(asg[s], o))

-----------------------------------------------------------------------------
(* Connections *)

Idle == [task |-> "none", origin |-> Home, envs |-> {}, last |-> 0, max |-> 0]
FreshEnd == [ready |-> FALSE, ann |-> {}, pulling |-> {}, asked |-> {}, diverged |-> {}, work |-> Idle]

Hello == [type |-> "hello"]
HeadsMsg(a) == [type |-> "heads", ann |-> a]
PullMsg(o, f, u) == [type |-> "pull", origin |-> o, from |-> f, upto |-> u]
RespMsg(o, es, m) == [type |-> "resp", origin |-> o, envs |-> es, max |-> m]
PushMsg(e) == [type |-> "push", env |-> e]
AskMsg(k) == [type |-> "ask", key |-> k]
KeyMsg(k, h) == [type |-> "key", key |-> k, held |-> h]

\* on_received: the packet of that type is the next one of the end, which handles one at a time
Arrived(x, type) ==
    /\ net[x] # <<>> /\ Head(net[x]).type = type
    /\ link[x].work.task = "none"

Packet(x) == Head(net[x])

\* send_packet, from the end x to the other one, in an action that does not receive a packet
Send(x, out) == [net EXCEPT ![Peer(x)] = @ \o out]

\* and in a handler
Reply(x, out) == [net EXCEPT ![x] = Tail(@), ![Peer(x)] = @ \o out]

OneIf(cond, m) == IF cond THEN <<m>> ELSE <<>>

\* storage_server::behind_a_peer, over the peers' last announced heads
BehindAPeer(s, lk) ==
    \E x \in EndsOf(s) : \E a \in lk[x].ann : \E o \in Server \ {s} :
        /\ o \notin lk[x].diverged /\ ~Condemned(s, o)
        /\ Known(s, o) < a.heads[o]

\* storage_server::is_syncing
IsSyncing(s) == boot[s] \/ BehindAPeer(s, link)

\* peer_connection::pull_origin: the first sequence wanted of an announced origin, 0 for none
WantedFrom(s, o, a) ==
    IF o = s \/ Condemned(s, o) THEN 0
    ELSE PlanPull(Known(s, o), a.heads[o], CommonSeq(s, o, a), DivergentSeq(s, o, a))

\* a history that parts from ours is not pulled, but for the record that proves it
PullRequests(s, a, busy) ==
    {PullMsg(o, WantedFrom(s, o, a), a.heads[o]) : o \in {p \in Server \ busy : WantedFrom(s, p, a) > 0}}
    \cup
    {PullMsg(o, DivergentSeq(s, o, a), DivergentSeq(s, o, a)) :
        o \in {p \in Server \ busy : a.heads[p] > 0 /\ ~Condemned(s, p) /\ DivergentSeq(s, p, a) > 0}}

\* peer_connection::start_pulls for the announcement a, with note_divergence and
\* note_caught_up, as the end of a handler of x; ks are the links before it
StartPulls(x, a, ks) ==
    LET s == x[2]
        reqs == PullRequests(s, a, ks[x].pulling)
        ks1 == [ks EXCEPT ![x].pulling = @ \cup {q.origin : q \in reqs},
                          ![x].diverged = {o \in @ : a.heads[o] = 0}
                                \cup {o \in Server : a.heads[o] > 0 /\ DivergentSeq(s, o, a) > 0}]
        behind == \E o \in Server : WantedFrom(s, o, a) > 0
        boot1 == boot[s] \/ ~exists[s]
    IN  /\ link' = ks1
        /\ \E out \in SetToSeqs(reqs) : net' = Reply(x, out)
        /\ exists' = [exists EXCEPT ![s] = TRUE]
        /\ boot' = [boot EXCEPT ![s] = boot1 /\ (behind \/ BehindAPeer(s, ks1))]

-----------------------------------------------------------------------------
(* storage::apply_foreign *)

\* Mutants of Conflicts: the same assignment arriving again conflicts; the hash at the LOCAL
\* position is compared with the origin's.
ConflictsTwice(s, e) == \E y \in OfOrigin(s, e.origin) : SeqNo(y) = SeqNo(e)
ConflictsLocal(s, e) == SeqNo(e) <= Len(log[s]) /\ SubSeq(log[s], 1, SeqNo(e)) # e.chain

\* storage::admit_foreign: the origin's sequence is held under another hash
Conflicts(s, e) == \E y \in OfOrigin(s, e.origin) : SeqNo(y) = SeqNo(e) /\ y # e

\* Mutant of EvaluateForeign: the op id is not looked up.
EvaluateForeignNoOpId(s, r) ==
    IF SignerOf[r] \notin keys[s] THEN "unknown_signer"
    ELSE IF r \in Unacceptable[s] THEN "skipped" ELSE "applied"

\* chain_sync::evaluate_foreign on a tag not held, and foreign_record_skipped on its verdict
EvaluateForeign(s, r) ==
    IF SignerOf[r] \notin keys[s] THEN "unknown_signer"
    ELSE IF OpOf[r] \in HeldOps(s) \/ r \in Unacceptable[s] THEN "skipped" ELSE "applied"

\* storage::admit_foreign and storage::apply_admitted, in order
Verdict(s, e) ==
    IF e.origin \notin keys[s] THEN "no_such_key"
    ELSE IF Condemned(s, e.origin) THEN "condemned"
    ELSE IF Conflicts(s, e) THEN "diverged"
    ELSE IF e.origin = s THEN "own"
    ELSE IF TagOf(e) \in Held(s) THEN "known"
    ELSE EvaluateForeign(s, TagOf(e))

Failed(v) == v \in {"no_such_key", "condemned", "diverged", "unknown_signer"}

\* Mutant of Advance: the stored head follows whatever arrives.
AdvanceAlways(h, o, q) == [h EXCEPT ![o] = q]

\* storage_heads::advance
Advance(h, o, q) == [h EXCEPT ![o] = IF @ < q THEN q ELSE @]

ApplyForeign(s, e) ==
    LET v == Verdict(s, e)
    IN  /\ log' = IF v = "applied" THEN [log EXCEPT ![s] = Append(@, TagOf(e))] ELSE log
        /\ heads' = IF v \in {"known", "skipped", "applied"}
                    THEN [heads EXCEPT ![s] = Advance(@, e.origin, SeqNo(e))] ELSE heads
        /\ asg' = IF v = "applied" THEN [asg EXCEPT ![s] = @ \cup {e}] ELSE asg
        /\ proofs' = IF v = "diverged"
                     THEN [proofs EXCEPT ![s] = @ \cup {<<e.origin, SeqNo(e)>>}] ELSE proofs
        /\ UNCHANGED keys

\* Mutant of MissingKeys: the record is asked for where its signer should be.
MissingKeysTag(s, e) ==
    CASE Verdict(s, e) = "no_such_key" -> {e.origin}
      [] Verdict(s, e) = "unknown_signer" -> {TagOf(e)}
      [] OTHER -> {}

\* the key a failed apply asks the peer for (peer_connection::apply_envelopes)
MissingKeys(s, e) ==
    CASE Verdict(s, e) = "no_such_key" -> {e.origin}
      [] Verdict(s, e) = "unknown_signer" -> {SignerOf[TagOf(e)]}
      [] OTHER -> {}

-----------------------------------------------------------------------------
(* chain_log::get_by_origin: the rows of a range, then the byte budget *)

Rows(s, o, from, upto) == {e \in OfOrigin(s, o) : from <= SeqNo(e) /\ SeqNo(e) <= upto}

\* Mutant of FirstRows: the limit keeps the newest rows.
FirstRowsNewest(rows) == {e \in rows : Cardinality({f \in rows : SeqNo(f) > SeqNo(e)}) < MaxReturned}

FirstRows(rows) == {e \in rows : Cardinality({f \in rows : SeqNo(f) < SeqNo(e)}) < MaxReturned}

\* append_within_budget, asked for every row in turn: a row that does not fit is left
\* out and the next one is tried
IsBatch(batch, rows) ==
    \A e \in rows :
        LET before == {f \in batch : SeqNo(f) < SeqNo(e)}
        IN  e \in batch <=> \/ Cardinality(before) < 2
                            \/ {TagOf(f) : f \in before \cup {e}} \in Fitting

-----------------------------------------------------------------------------
Init ==
    /\ log = [s \in Server |-> <<>>]
    /\ asg = [s \in Server |-> {}]
    /\ heads = [s \in Server |-> [o \in Server |-> 0]]
    /\ proofs = [s \in Server |-> {}]
    /\ exists = [s \in Server |-> s = Home]
    /\ boot = [s \in Server |-> FALSE]
    /\ keys = [s \in Server |-> InitKeys[s] \cup {s}]
    /\ up = {}
    /\ link = [x \in End |-> FreshEnd]
    /\ net = [x \in End |-> <<>>]
    /\ signed = {}
    /\ faults = 0

\* connect_link: both ends authenticate the transport and send peer_hello
Connect(c) ==
    /\ c \notin up
    /\ up' = up \cup {c}
    /\ net' = [x \in End |-> IF x[1] = c THEN <<Hello>> ELSE net[x]]
    /\ UNCHANGED <<disk, link, signed, faults>>

\* the connections in cs are gone, each with its two connection objects and its packets
DropConns(cs) ==
    /\ faults < MaxFaults
    /\ up' = up \ cs
    /\ link' = [x \in End |-> IF x[1] \in cs THEN FreshEnd ELSE link[x]]
    /\ net' = [x \in End |-> IF x[1] \in cs THEN <<>> ELSE net[x]]
    /\ faults' = faults + 1

Disconnect(c) ==
    /\ c \in up
    /\ DropConns({c})
    /\ UNCHANGED <<disk, signed>>

\* operator()(peer_hello)
HandleHello(x) ==
    /\ Arrived(x, "hello")
    /\ link' = [link EXCEPT ![x].ready = TRUE]
    /\ keys' = [keys EXCEPT ![x[2]] = @ \cup {Peer(x)[2]}]
    /\ net' = Reply(x, OneIf(exists[x[2]], HeadsMsg(Announcement(x[2]))))
    /\ UNCHANGED <<log, asg, heads, proofs, exists, boot, up, signed, faults>>

\* run_anti_entropy on one connection; bound: one announcement of an end in flight
Announce(x) ==
    /\ link[x].ready /\ exists[x[2]]
    /\ \A m \in Range(net[Peer(x)]) : m.type # "heads"
    /\ net' = Send(x, <<HeadsMsg(Announcement(x[2]))>>)
    /\ UNCHANGED <<disk, up, link, signed, faults>>

\* connection::handle(request_commit) and chain_sync::evaluate: what a local commit needs
CanCommit(s, r) ==
    /\ s \in CommitAt[r]
    /\ exists[s] /\ ~IsSyncing(s)
    /\ r \notin Unacceptable[s]
    /\ r \notin Held(s)
    /\ SignerOf[r] \in keys[s]
    /\ OpOf[r] \notin HeldOps(s)

\* storage::commit_block: append, sign and keep the assignment, push it to every ready peer
Commit(s, r) ==
    LET e == [origin |-> s, chain |-> Append(log[s], r)]
    IN  /\ CanCommit(s, r)
        /\ log' = [log EXCEPT ![s] = e.chain]
        /\ asg' = [asg EXCEPT ![s] = @ \cup {e}]
        /\ signed' = signed \cup {e}
        /\ net' = [x \in End |-> net[x] \o OneIf(Peer(x)[2] = s /\ link[Peer(x)].ready, PushMsg(e))]
        /\ UNCHANGED <<heads, proofs, exists, boot, keys, up, link, faults>>

\* the server stops after chain_log::append and before store_assignment
CommitCrash(s, r) ==
    /\ CrashInside
    /\ CanCommit(s, r)
    /\ log' = [log EXCEPT ![s] = Append(@, r)]
    /\ DropConns({x[1] : x \in EndsOf(s)})
    /\ UNCHANGED <<asg, heads, proofs, exists, boot, keys, signed>>

\* operator()(peer_heads)
HandleHeads(x) ==
    /\ Arrived(x, "heads")
    /\ StartPulls(x, Packet(x).ann, [link EXCEPT ![x].ann = {Packet(x).ann}])
    /\ UNCHANGED <<log, asg, heads, proofs, keys, up, signed, faults>>

\* operator()(pull_records); a server without the storage has nothing of the origin
HandlePull(x) ==
    LET m == Packet(x)
        rows == FirstRows(Rows(x[2], m.origin, m.from, m.upto))
    IN  /\ Arrived(x, "pull")
        /\ \E batch \in SUBSET rows :
            /\ IsBatch(batch, rows)
            /\ net' = Reply(x, <<RespMsg(m.origin, batch, Known(x[2], m.origin))>>)
        /\ UNCHANGED <<disk, up, link, signed, faults>>

\* Mutant of HandleResp: the origin stays marked as being pulled.
HandleRespKeepsPulling(x) ==
    LET m == Packet(x)
    IN  /\ Arrived(x, "resp")
        /\ link' = [link EXCEPT ![x].work = [task |-> "resp", origin |-> m.origin, envs |-> m.envs, max |-> m.max,
                                             last |-> Max({0} \cup {SeqNo(e) : e \in m.envs})]]
        /\ net' = Reply(x, <<>>)
        /\ UNCHANGED <<disk, up, signed, faults>>

\* operator()(response_envelopes), up to apply_envelopes
HandleResp(x) ==
    LET m == Packet(x)
    IN  /\ Arrived(x, "resp")
        /\ link' = [link EXCEPT ![x].pulling = @ \ {m.origin},
                                ![x].work = [task |-> "resp", origin |-> m.origin, envs |-> m.envs, max |-> m.max,
                                             last |-> Max({0} \cup {SeqNo(e) : e \in m.envs})]]
        /\ net' = Reply(x, <<>>)
        /\ UNCHANGED <<disk, up, signed, faults>>

\* operator()(push_records), up to apply_envelopes: acquire_replica, then plan_push
HandlePush(x) ==
    LET e == Packet(x).env
        s == x[2]
        from == PlanPush(Known(s, e.origin), SeqNo(e))
    IN  /\ Arrived(x, "push")
        /\ exists' = [exists EXCEPT ![s] = TRUE]
        /\ boot' = [boot EXCEPT ![s] = @ \/ ~exists[s]]
        /\ \/ /\ from > 0
              /\ link' = [link EXCEPT ![x].pulling = @ \cup {e.origin}]
              /\ net' = Reply(x, OneIf(e.origin \notin link[x].pulling, PullMsg(e.origin, from, SeqNo(e))))
           \/ /\ from = 0
              /\ link' = [link EXCEPT ![x].work = [Idle EXCEPT !.task = "push", !.origin = e.origin, !.envs = {e}]]
              /\ net' = Reply(x, <<>>)
        /\ UNCHANGED <<log, asg, heads, proofs, keys, up, signed, faults>>

FirstOf(es) == CHOOSE e \in es : \A f \in es : SeqNo(e) <= SeqNo(f)

\* one turn of the loop of apply_envelopes; the first failure ends it
ApplyNext(x) ==
    LET s == x[2]
        w == link[x].work
        e == FirstOf(w.envs)
        left == IF Failed(Verdict(s, e)) THEN {} ELSE w.envs \ {e}
        ask == MissingKeys(s, e) \ link[x].asked
    IN  /\ w.envs # {}
        /\ ApplyForeign(s, e)
        /\ link' = [link EXCEPT ![x].work = IF w.task = "push" THEN Idle ELSE [w EXCEPT !.envs = left],
                                ![x].asked = @ \cup ask]
        /\ \E out \in SetToSeqs({AskMsg(k) : k \in ask}) : net' = Send(x, out)
        /\ UNCHANGED <<exists, boot, up, signed, faults>>

\* the rest of operator()(response_envelopes): pull on, or note that the storage caught up
FinishResp(x) ==
    LET s == x[2]
        w == link[x].work
        known == Known(s, w.origin)
        progressed == w.last > 0 /\ known >= w.last
        more == progressed /\ ~Condemned(s, w.origin) /\ known < w.max
    IN  /\ w.task = "resp" /\ w.envs = {}
        /\ link' = [link EXCEPT ![x].work = Idle,
                                ![x].pulling = IF more THEN @ \cup {w.origin} ELSE @]
        /\ net' = Send(x, OneIf(more /\ w.origin \notin link[x].pulling, PullMsg(w.origin, known + 1, w.max)))
        /\ boot' = [boot EXCEPT ![s] = @ /\ (more \/ ~progressed \/ BehindAPeer(s, link))]
        /\ UNCHANGED <<log, asg, heads, proofs, exists, keys, up, signed, faults>>

\* the server stops inside apply_admitted: after commit_foreign, or after the head moved too
ApplyCrash(x) ==
    LET s == x[2]
        e == FirstOf(link[x].work.envs)
    IN  /\ CrashInside
        /\ link[x].work.envs # {}
        /\ Verdict(s, e) = "applied"
        /\ log' = [log EXCEPT ![s] = Append(@, TagOf(e))]
        /\ heads' \in {heads, [heads EXCEPT ![s] = Advance(@, e.origin, SeqNo(e))]}
        /\ DropConns({y[1] : y \in EndsOf(s)})
        /\ UNCHANGED <<asg, proofs, exists, boot, keys, signed>>

\* Mutant of HandleAsk: only the keys of members are looked up.
HandleAskMembers(x) ==
    /\ Arrived(x, "ask")
    /\ net' = Reply(x, <<KeyMsg(Packet(x).key, Packet(x).key \in keys[x[2]] \cap Signer)>>)
    /\ UNCHANGED <<disk, up, link, signed, faults>>

\* operator()(request_key)
HandleAsk(x) ==
    /\ Arrived(x, "ask")
    /\ net' = Reply(x, <<KeyMsg(Packet(x).key, Packet(x).key \in keys[x[2]])>>)
    /\ UNCHANGED <<disk, up, link, signed, faults>>

\* operator()(response_key): learn_signer_key and resume_pulls
HandleKey(x) ==
    LET m == Packet(x)
        ks == [link EXCEPT ![x].asked = @ \ {m.key}]
    IN  /\ Arrived(x, "key")
        /\ keys' = IF m.held THEN [keys EXCEPT ![x[2]] = @ \cup {m.key}] ELSE keys
        /\ \/ /\ m.held
              /\ \E a \in link[x].ann : StartPulls(x, a, ks)
           \/ /\ ~m.held \/ link[x].ann = {}
              /\ link' = ks
              /\ net' = Reply(x, <<>>)
              /\ UNCHANGED <<exists, boot>>
        /\ UNCHANGED <<log, asg, heads, proofs, up, signed, faults>>

\* storage::truncate_from: the tail goes with its assignments, the origin heads stay
Rollback(s) ==
    /\ s \in RollbackServers /\ faults < MaxFaults
    /\ \E n \in DOMAIN log[s] :
        /\ log' = [log EXCEPT ![s] = SubSeq(@, 1, n - 1)]
        /\ asg' = [asg EXCEPT ![s] = {e \in @ : \E i \in 1 .. n - 1 : log[s][i] = TagOf(e)}]
    /\ faults' = faults + 1
    /\ UNCHANGED <<heads, proofs, exists, boot, keys, up, link, net, signed>>

\* what a connection object does with what arrived
Handle(x) ==
    \/ HandleHello(x) \/ HandleHeads(x) \/ HandlePull(x) \/ HandleResp(x) \/ HandlePush(x)
    \/ ApplyNext(x) \/ FinishResp(x) \/ HandleAsk(x) \/ HandleKey(x)

Next ==
    \/ \E c \in Conn : Connect(c) \/ Disconnect(c)
    \/ \E s \in Server, r \in Record : Commit(s, r) \/ CommitCrash(s, r)
    \/ \E x \in End : Handle(x) \/ Announce(x) \/ ApplyCrash(x)
    \/ \E s \in Server : Rollback(s)

Spec == Init /\ [][Next]_vars

\* links are redialled with a capped backoff, the anti-entropy timer is re-armed on every
\* tick, and the io threads keep handling what arrived; clients promise nothing
Fairness ==
    /\ \A c \in Conn : WF_vars(Connect(c))
    /\ \A x \in End : WF_vars(Handle(x)) /\ WF_vars(Announce(x))

FairSpec == Spec /\ Fairness

-----------------------------------------------------------------------------
(* Properties *)

Key == Signer \cup Server
Envs == {es \in SUBSET Env : IsFiniteSet(es)}
Ann == [heads : [Server -> Nat], samples : Envs]

Msg == {Hello}
    \cup [type : {"heads"}, ann : Ann]
    \cup [type : {"pull"}, origin : Server, from : Nat, upto : Nat]
    \cup [type : {"resp"}, origin : Server, envs : Envs, max : Nat]
    \cup [type : {"push"}, env : Env]
    \cup [type : {"ask"}, key : Key]
    \cup [type : {"key"}, key : Key, held : BOOLEAN]

Work == [task : {"none", "resp", "push"}, origin : Server, envs : Envs, last : Nat, max : Nat]
Link == [ready : BOOLEAN, ann : SUBSET Ann, pulling : SUBSET Server, asked : SUBSET Key,
         diverged : SUBSET Server, work : Work]

\* The types of the state.
TypeOK ==
    /\ log \in [Server -> Seq(Record)]
    /\ asg \in [Server -> Envs]
    /\ heads \in [Server -> [Server -> Nat]]
    /\ proofs \in [Server -> SUBSET (Server \X Nat)]
    /\ exists \in [Server -> BOOLEAN]
    /\ boot \in [Server -> BOOLEAN]
    /\ keys \in [Server -> SUBSET Key]
    /\ up \subseteq Conn
    /\ link \in [End -> Link]
    /\ net \in [End -> Seq(Msg)]
    /\ signed \subseteq Env
    /\ faults \in 0 .. MaxFaults

\* No replica ever holds two records of one operation, whether it committed them or took
\* them from peers, pushed and pulled, in any order (op id dedup of both evaluate rules).
OpsOnce ==
    \A s \in Server : \A i, j \in DOMAIN log[s] :
        OpOf[log[s][i]] = OpOf[log[s][j]] => i = j

\* The guarantee anti-entropy rests on: two replicas that state the same head for every
\* origin hold the same operations, although each pulls only behind its own heads.
SameHeadsSameOps ==
    \A s, t \in Server :
        (\A o \in Server : Known(s, o) = Known(t, o)) => HeldOps(s) = HeldOps(t)

\* A replica misses no operation an origin assigned up to the head it holds of the origin
\* (apply_envelopes: a record applied behind a failed one would hide it for good).
NoHoles ==
    \A s \in Server : \A e \in signed :
        SeqNo(e) <= Known(s, e.origin) => OpOf[TagOf(e)] \in HeldOps(s)

\* Every assignment kept, served, pushed or being applied was signed by its origin.
NoForgery ==
    /\ \A s \in Server : asg[s] \subseteq signed
    /\ \A x \in End : /\ link[x].work.envs \subseteq signed
                      /\ \A m \in Range(net[x]) : /\ m.type = "push" => m.env \in signed
                                                  /\ m.type = "resp" => m.envs \subseteq signed

\* An equivocation proof names an origin that did sign the sequence twice
\* (storage::admit_foreign compares the hashes of one origin's sequence only).
EvidenceSound ==
    \A s \in Server : \A p \in proofs[s] :
        \E e, f \in signed : /\ e # f /\ e.origin = p[1] /\ f.origin = p[1]
                             /\ SeqNo(e) = p[2] /\ SeqNo(f) = p[2]

\* A server whose chain was never truncated is condemned nowhere, not even by itself,
\* although it may stop in the middle of a commit or of an apply (note_evidence).
HonestNeverCondemned ==
    \A s \in Server, o \in Server \ RollbackServers : ~Condemned(s, o)

\* A server is only ever asked for a key it holds: what it serves it has verified, so it
\* knows the origin's key and the signer's (the reasoning of apply_envelopes).
KeyAlwaysServed ==
    \A x \in End : \A m \in Range(net[x]) :
        /\ m.type = "ask" => m.key \in keys[x[2]]
        /\ m.type = "key" => m.held

\* A stored head never moves back: not by an old batch, a late push or a repeated pull.
HeadsOnlyAdvance == [][\A s, o \in Server : heads[s][o] <= heads'[s][o]]_vars

\* Once every server is done with its client commits, all replicas come to hold the same
\* operations and stay so, whatever connections were lost before (the pull, resume and
\* anti-entropy handlers together; a truncated or half-written chain is outside of it).
Converges == <>[](\A s, t \in Server : HeldOps(s) = HeldOps(t))

\* No replica answers storage_syncing for good.
SyncingEnds == \A s \in Server : []<>(~IsSyncing(s))

=============================================================================
