----------------------------- MODULE HistoryCut -----------------------------
(***************************************************************************)
(* Segments and the cut of a history in strict mode: clients commit object *)
(* changes and segments, the server cuts its history before a segment and  *)
(* lets superseded data go, a client prunes its own copy, a newcomer joins *)
(* with the anchor of its invitation, and verify_history is asked of what  *)
(* a client has at any moment.                                             *)
(*                                                                         *)
(* A record is named by the sequence it was committed at (its tag and hash *)
(* are as unique), so that `block` is all that was ever committed and a    *)
(* storage is the set of sequences it still holds. What is pending at a    *)
(* client, lost answers and rebases are SyncEngine's: here a client        *)
(* commits when it is at the head, the only moment strict mode accepts.    *)
(***************************************************************************)
EXTENDS Integers, FiniteSets, Sequences, SequencesExt

CONSTANTS
    Founder,       \* the clients that hold the founding record
    Newcomer,      \* the clients that join later by invitation
    Writer, Pruner, \* the clients that commit, and those that prune their copy
    Object,
    Changes,       \* the objects a record changes, and those of them that keep their data
    KeptVersions,  \* kept_data_versions of the storage
    MaxReturned,   \* records in an answer
    MaxLog         \* commits, and losses of connections and rows

Client == Founder \cup Newcomer

VARIABLES
    block,     \* the records committed, by sequence
    log,       \* the sequences the server holds
    released,  \* the record data let go of
    rows,      \* the state of each row of each client
    anchor,    \* each client's trusted_anchor
    bad,       \* the clients that saw the anchor contradicted
    up,        \* the clients connected
    told,      \* the notifications on their way
    fetching,  \* where each client's running fetch continues from
    drops, lost

historyVars == <<block, log, released, rows, anchor, bad, up, told, fetching, drops, lost>>

NoAnchor == [seq |-> 0, same |-> TRUE]
Outside == [seq |-> -1, same |-> TRUE]
Idle == -1
Troubles == drops + Cardinality(lost)
Top == Len(block)
Newest(S) == IF S = {} THEN 0 ELSE Max(S)

-----------------------------------------------------------------------------
(* Records *)

\* data_change_record (or a user change, when it changes no object): the previous record of
\* each object, and the record that brought the data the version names
ChangeRecord(prev, data) == [prev |-> prev, data |-> data, start |-> 0, end |-> 0, back |-> 0, tags |-> {}]
NoObjects == [o \in {} |-> 0]

\* plain_segment_data: the range covered, its records, and the segment before
SegmentRecord(start, end, tags, back) ==
    [prev |-> NoObjects, data |-> NoObjects, start |-> start, end |-> end, back |-> back, tags |-> tags]

ObjectsOf(n) == DOMAIN block[n].prev
IsSegment(n) == block[n].end # 0

InSync(c) == {n \in 1..Top : rows[c][n] = "in_sync"}

\* record_storage::find_last_of_type(segment_record_tag)
NewestSegment(held) == Newest({n \in held : IsSegment(n)})

\* record_storage::tags_in_range: in the order of their sequences, so a list is the set of its members
TagsInRange(held, first, last) == {n \in held : first <= n /\ n <= last}

\* record_storage::find_last, collect_object_heads: the newest record of an object
ObjectHead(held, o) == Newest({n \in held : o \in ObjectsOf(n)})

\* record_storage::object_versions: from the newest along the previous records
ObjectVersions(held, o) ==
    LET walk[n \in 0..Top] ==
            IF n \in held /\ o \in ObjectsOf(n) THEN {n} \cup walk[block[n].prev[o]] ELSE {}
    IN walk[ObjectHead(held, o)]

-----------------------------------------------------------------------------
(* The cut *)

\* Mutant of RetainedTags: one set of visited records for the walks of all objects
MRetainedTagsShared(held, below) ==
    LET order == SetToSeq(Object)
        walk(seen, o) == LET own[n \in 0..Top] ==
                                 IF n \in held \ seen /\ o \in ObjectsOf(n) THEN {n} \cup own[block[n].prev[o]] ELSE {}
                         IN seen \cup own[ObjectHead(held, o)]
    IN {n \in FoldLeft(walk, {}, order) : n < below}

\* record_storage::object_chain_tags_below
RetainedTags(held, below) == {n \in UNION {ObjectVersions(held, o) : o \in Object} : n < below}

\* record_storage::truncate_prefix
TruncatePrefix(held, first) == {n \in held : n >= first} \cup RetainedTags(held, first)

\* the versions of an object beyond the kept ones below the cut
Superseded(held, o, below) ==
    LET versions == {n \in ObjectVersions(held, o) : n < below}
    IN {n \in versions : Cardinality({m \in versions : m >= n}) > KeptVersions}

References(held, o, d) == {n \in held : o \in ObjectsOf(n) /\ block[n].data[o] = d}

\* record_storage::superseded_rows: data only versions beyond the kept ones name
SupersededData(held, below) ==
    {r \in (1..Top) \X Object :
        /\ References(held, r[2], r[1]) # {}
        /\ References(held, r[2], r[1]) \subseteq Superseded(held, r[2], below)}

\* data_index::unreferenced: data no record names any more
UnreferencedData(held) ==
    {r \in (1..Top) \X Object : /\ References(1..Top, r[2], r[1]) # {}
                                 /\ References(held, r[2], r[1]) = {}}

\* chain_log::cut_before: the server's history from a committed segment on
CutBefore(a) ==
    /\ a \in log /\ IsSegment(a)
    /\ log' = TruncatePrefix(log, a)

\* storage::release_dead_data: what no record names, and what the retention policy pruned
ReleaseDeadData(pruned) == released' = released \cup pruned \cup UnreferencedData(log')

\* storage::cut_history
CutHistory(a) ==
    /\ CutBefore(a)
    /\ ReleaseDeadData(SupersededData(log', a))
    /\ UNCHANGED <<block, rows, anchor, bad, up, told, fetching, drops, lost>>

-----------------------------------------------------------------------------
(* What a client takes into its chain *)

HasAnchor(c) == anchor[c].seq > 0

\* the trusted anchor is in the storage
AnchorHeld(held, a) == a.same /\ a.seq \in held

\* sync_engine::impl::check_anchor_chain_block and check_chain_block_strict
CheckStrict(held, a, n) ==
    LET last == Newest(held)
    IN IF a.seq > 0 /\ n \notin held /\ n < a.seq THEN "in_sync"
       ELSE IF n <= last THEN "invalid"
       ELSE IF n = 1 \/ n - 1 \in held THEN "in_sync"
       ELSE IF last + 1 < n THEN "pending_sync"
       ELSE "invalid"

\* sync_engine::impl::anchor_gate before the anchor is held, the mode's rules after
CheckChainBlock(held, a, refused, n) ==
    IF refused THEN "invalid"
    ELSE IF a.seq > 0 /\ ~AnchorHeld(held, a)
         THEN IF n # a.seq THEN "pending_sync" ELSE IF a.same THEN "in_sync" ELSE "invalid"
         ELSE CheckStrict(held, a, n)

\* promote_pre_anchor_records: the waiting records below the anchor that has just come
Promoted(state, a, n) ==
    [m \in DOMAIN state |->
        IF n = a.seq /\ m < n /\ state[m] = "pending_sync" THEN "in_sync" ELSE state[m]]

\* check_pending_records: the waiting records that follow without a gap
PendingChecked(state, n) ==
    [m \in DOMAIN state |->
        IF m > n /\ \A k \in n + 1..m : state[k] = "pending_sync" THEN "in_sync" ELSE state[m]]

\* handle_incoming_record of a record not known yet: verify_block, handle_block_chain,
\* anchor_mismatch
HandleRecord(a, st, n) ==
    IF st.state[n] # "none" THEN st
    ELSE LET verdict == CheckChainBlock({m \in DOMAIN st.state : st.state[m] = "in_sync"}, a, st.refused, n)
             stored == [st.state EXCEPT ![n] = verdict]
         IN [state |-> IF verdict = "in_sync" THEN PendingChecked(Promoted(stored, a, n), n) ELSE stored,
             refused |-> st.refused \/ (n = a.seq /\ ~a.same)]

\* the records of one answer or notification, in order: what the client has after those up to n
HandledUpTo(c, batch) ==
    LET handled[n \in 0..Top] ==
            IF n = 0 THEN [state |-> rows[c], refused |-> c \in bad]
            ELSE IF n \in batch THEN HandleRecord(anchor[c], handled[n - 1], n)
            ELSE handled[n - 1]
    IN handled
HandleRecords(c, batch) ==
    LET done == HandledUpTo(c, batch)[Top]
    IN /\ rows' = [rows EXCEPT ![c] = done.state]
       /\ bad' = IF done.refused THEN bad \cup {c} ELSE bad

-----------------------------------------------------------------------------
(* Fetching *)

Received(c) == {n \in 1..Top : rows[c][n] \in {"in_sync", "pending_sync"}}

\* record_storage::first_missing_sequence: 0 when no record is missing below the newest
FirstMissing(received, from) ==
    LET gaps == {n \in from..Newest(received) : n \notin received}
    IN IF gaps = {} THEN 0 ELSE Min(gaps)

\* sync_engine::impl::fetch_cursor: before the first gap, above the anchor if it is held
FetchCursor(c) ==
    LET from == IF HasAnchor(c) /\ AnchorHeld(InSync(c), anchor[c]) THEN anchor[c].seq ELSE 1
        gap == FirstMissing(Received(c), from)
    IN IF gap # 0 THEN gap - 1 ELSE Newest(Received(c))

\* on_connected, the sequence answer and fetch_missing
Connect(c) ==
    /\ c \notin up /\ anchor[c] # Outside
    /\ up' = up \cup {c}
    /\ fetching' = [fetching EXCEPT ![c] = IF FetchCursor(c) < Top THEN FetchCursor(c) ELSE Idle]
    /\ UNCHANGED <<block, log, released, rows, anchor, bad, told, drops, lost>>

\* on_disconnected
Disconnect(c) ==
    /\ c \in up /\ Top + Troubles < MaxLog
    /\ drops' = drops + 1
    /\ up' = up \ {c}
    /\ told' = [told EXCEPT ![c] = {}]
    /\ fetching' = [fetching EXCEPT ![c] = Idle]
    /\ UNCHANGED <<block, log, released, rows, anchor, bad, lost>>

\* an answer precedes the notifications of what was committed after it was read
Horizon(c) == IF told[c] = {} THEN Top ELSE Min(told[c]) - 1

\* chain_log::get: the first records held from start on, skipping what a cut removed
Batch(c) ==
    LET from == {n \in log : fetching[c] <= n /\ n <= Horizon(c)}
    IN {n \in from : Cardinality({m \in from : m < n}) < MaxReturned}

\* sync_engine::impl::fetch_progressed
Progressed(start, last) == start = 0 \/ start < last

\* on_record_response: take the records, and ask for more while the answers get on
FetchAnswered(c) ==
    /\ fetching[c] # Idle
    /\ HandleRecords(c, Batch(c))
    /\ LET last == Newest(Batch(c))
           more == last # 0 /\ last < Horizon(c) /\ Progressed(fetching[c], last)
       IN fetching' = [fetching EXCEPT ![c] = IF more THEN last ELSE Idle]
    /\ UNCHANGED <<block, log, released, anchor, up, told, drops, lost>>

\* on_record_received of the next notification
Notified(c) ==
    /\ told[c] # {}
    /\ told' = [told EXCEPT ![c] = @ \ {Min(@)}]
    /\ HandleRecords(c, {Min(told[c])})
    /\ UNCHANGED <<block, log, released, anchor, up, fetching, drops, lost>>

-----------------------------------------------------------------------------
(* Committing *)

\* sync_engine::impl::make_segment_data on top of the head the client holds
MakeSegmentData(c) ==
    LET previous == NewestSegment(InSync(c))
        start == IF previous = 0 THEN 1 ELSE block[previous].end
        last == Newest(InSync(c))
    IN SegmentRecord(start, last + 1, TagsInRange(InSync(c), start, last), previous)

\* chain_sync::check_segment_backbone: start at the previous segment's stated end, or at 1
CheckSegmentBackbone(seg) ==
    LET previous == NewestSegment(log)
    IN seg.back = previous /\ seg.start = IF previous = 0 THEN 1 ELSE block[previous].end

\* chain_sync::check_rules_segment: the stated end, the backbone, the exact tag list
CheckRulesSegment(seg) ==
    /\ seg.end = Top + 1
    /\ CheckSegmentBackbone(seg)
    /\ seg.tags = TagsInRange(log, seg.start, seg.end - 1)

\* chain_sync::check_rules of a data change: the newest record of every object is named
CheckRulesData(record) == \A o \in DOMAIN record.prev : record.prev[o] = ObjectHead(log, o)

\* the client is at the head and trusts it: chain_sync's rule of require_all_seen
AtHead(c) == c \in up /\ c \notin bad /\ Newest(InSync(c)) = Top

\* commit_block, its answer and the notifications
Committed(c, record) ==
    /\ block' = Append(block, record)
    /\ log' = log \cup {Top + 1}
    /\ rows' = [rows EXCEPT ![c][Top + 1] = "in_sync"]
    /\ told' = [d \in Client |-> IF d \in up \ {c} THEN told[d] \cup {Top + 1} ELSE told[d]]
    /\ UNCHANGED <<released, anchor, bad, up, fetching, drops, lost>>

\* create_object_change of the objects changed, with new data or the data they had
CommitChange(c, changed, renamed) ==
    /\ AtHead(c) /\ Top + Troubles < MaxLog
    /\ LET prev == [o \in changed |-> ObjectHead(InSync(c), o)]
           data == [o \in changed |->
                      IF o \in renamed /\ prev[o] # 0 THEN block[prev[o]].data[o] ELSE Top + 1]
       IN CheckRulesData(ChangeRecord(prev, data)) /\ Committed(c, ChangeRecord(prev, data))

\* sync_segment_end
SegmentEnd(c) ==
    /\ AtHead(c) /\ Top + Troubles < MaxLog
    /\ CheckRulesSegment(MakeSegmentData(c))
    /\ Committed(c, MakeSegmentData(c))

-----------------------------------------------------------------------------
(* Local prune, invitation, loss *)

\* truncate_prefix on the rows of a client: collect_truncation_rows and remove_row
RowsRemoved(state, first, kept) ==
    [n \in DOMAIN state |->
        IF n < first /\ n \notin kept /\ state[n] # "invalid" THEN "none" ELSE state[n]]

\* sync_engine::prune_history at the segment a; the application never moves its anchor back
PruneHistory(c, a) ==
    /\ a \in InSync(c) /\ IsSegment(a) /\ a > anchor[c].seq
    /\ rows' = [rows EXCEPT ![c] = RowsRemoved(@, a, RetainedTags(InSync(c), a))]
    /\ anchor' = [anchor EXCEPT ![c] = [seq |-> a, same |-> TRUE]]
    /\ UNCHANGED <<block, log, released, bad, up, told, fetching, drops, lost>>

\* an invitation names the first record or a segment as the anchor, of this history or of
\* another one the inviter was shown
Join(c, a, same) ==
    /\ anchor[c] = Outside
    /\ a \in log /\ (a = 1 \/ IsSegment(a))
    /\ anchor' = [anchor EXCEPT ![c] = [seq |-> a, same |-> same]]
    /\ UNCHANGED <<block, log, released, rows, bad, up, told, fetching, drops, lost>>

\* a row of a client's database is gone
LoseRow(c, n) ==
    /\ Top + Troubles < MaxLog
    /\ n \in InSync(c)
    /\ rows' = [rows EXCEPT ![c][n] = "none"]
    /\ lost' = lost \cup {<<c, n>>}
    /\ UNCHANGED <<block, log, released, anchor, bad, up, told, fetching, drops>>

-----------------------------------------------------------------------------
(* The specification *)

Init ==
    /\ block = <<ChangeRecord(NoObjects, NoObjects)>>
    /\ log = {1} /\ released = {} /\ lost = {}
    /\ rows = [c \in Client |-> [n \in 1..MaxLog |-> IF n = 1 /\ c \in Founder THEN "in_sync" ELSE "none"]]
    /\ anchor = [c \in Client |-> IF c \in Founder THEN NoAnchor ELSE Outside]
    /\ bad = {} /\ up = Founder /\ drops = 0
    /\ told = [c \in Client |-> {}]
    /\ fetching = [c \in Client |-> Idle]

Next ==
    \/ \E a \in log : CutHistory(a)
    \/ \E c \in Client :
          \/ Connect(c) \/ Disconnect(c) \/ FetchAnswered(c) \/ Notified(c)
          \/ c \in Writer /\ SegmentEnd(c)
          \/ c \in Writer /\ \E ch \in Changes : CommitChange(c, ch.changed, ch.renamed)
          \/ c \in Pruner /\ \E a \in InSync(c) : PruneHistory(c, a)
          \/ \E a \in log, same \in BOOLEAN : Join(c, a, same)
          \/ \E n \in InSync(c) : LoseRow(c, n)

Spec == Init /\ [][Next]_historyVars

-----------------------------------------------------------------------------
(* verify_history *)

\* verify_range: every record is there. What is there has the hash, the link and the content
\* it was committed with, so verify_record and verify_detached find no fault.
VerifyRange(held, first, last) == first..last \subseteq held

\* verify_anchor and full_verify
FullVerify(held, a) ==
    IF a.seq = 0 THEN VerifyRange(held, 1, Newest(held))
    ELSE AnchorHeld(held, a) /\ VerifyRange(held, a.seq + 1, Newest(held))

\* check_segment_coverage: the tag list against the records stored
CoverageHolds(held, n) ==
    /\ block[n].start < block[n].end
    /\ block[n].tags = TagsInRange(held, block[n].start, block[n].end - 1)

\* verify_backbone and next_backbone_segment: from the newest segment back to the anchor, or
\* to the first record
VerifyBackbone(held, a, newest) ==
    LET walk[n \in 1..Top] ==
            \/ n = a.seq
            \/ /\ CoverageHolds(held, n)
               /\ IF block[n].back = 0 THEN block[n].start = 1
                  ELSE /\ block[n].back \in held
                       /\ block[n].back = a.seq \/ block[block[n].back].end = block[n].start
                       /\ walk[block[n].back]
    IN walk[newest]

\* fast_verify, verify_tail
FastVerify(held, a) ==
    LET newest == NewestSegment(held)
    IN IF newest = 0 \/ newest = a.seq THEN FullVerify(held, a)
       ELSE /\ a.seq > 0 => AnchorHeld(held, a)
            /\ block[newest].end - 1 \in held
            /\ VerifyRange(held, block[newest].end, Newest(held))
            /\ VerifyBackbone(held, a, newest)

-----------------------------------------------------------------------------
(* Properties *)

\* Every variable has its type.
TypeOK ==
    /\ Top \in 1..MaxLog
    /\ \A n \in 1..Top : block[n].back < n /\ \A o \in ObjectsOf(n) : block[n].prev[o] < n
    /\ log \subseteq 1..Top /\ Top \in log
    /\ released \subseteq (1..Top) \X Object
    /\ rows \in [Client -> [1..MaxLog -> {"none", "in_sync", "pending_sync", "invalid"}]]
    /\ \A c \in Client : anchor[c].seq \in -1..Top /\ fetching[c] \in Idle..Top /\ told[c] \subseteq 1..Top
    /\ bad \subseteq Client /\ up \subseteq Client

Versions(o, last) == {n \in 1..last : o \in ObjectsOf(n)}

\* Whatever was cut, every version of every object is on the server, and the newest kept
\* ones have their data (storage::cut_history).
ServerKeepsObjects ==
    \A o \in Object :
        /\ ObjectVersions(log, o) = Versions(o, Top)
        /\ \A n \in Versions(o, Top) :
              Cardinality({m \in Versions(o, Top) : m >= n}) <= KeptVersions
                  => <<block[n].data[o], o>> \notin released

Unharmed(c) == anchor[c] # Outside /\ \A n \in 1..MaxLog : <<c, n>> \notin lost

\* Whatever was cut at the server and pruned at the client, before, after or while it
\* fetched, what it has in sync holds every version of every object (SEG 5, SEG 6).
ClientKeepsObjects ==
    \A c \in Client : Unharmed(c) =>
        \A o \in Object : ObjectVersions(InSync(c), o) = Versions(o, Newest(InSync(c)))

\* An honest history verifies, from the anchor or the first record on, at every moment.
HonestHistoryVerifies ==
    \A c \in Client : Unharmed(c) /\ (HasAnchor(c) => AnchorHeld(InSync(c), anchor[c]))
                          => FullVerify(InSync(c), anchor[c])

\* The backbone of segments stands for the records it covers: the fast verification says
\* what the full one says, also when a row is gone.
FastSaysWhatFullSays ==
    \A c \in Client : FastVerify(InSync(c), anchor[c]) <=> FullVerify(InSync(c), anchor[c])

\* A segment a client seals at the head is one the server takes, whichever of them has cut
\* or pruned what (make_segment_data against check_rules_segment).
SealsAccepted ==
    \A c \in Client : AtHead(c) /\ Unharmed(c) => CheckRulesSegment(MakeSegmentData(c))

\* A client whose anchor is of another history takes nothing of this one (anchor_gate).
OtherHistoryRefused ==
    \A c \in Client : HasAnchor(c) /\ ~anchor[c].same => InSync(c) = {}

\* A cut loses nothing that is still needed, and what is left proves itself.
CutKeepsHistory ==
    /\ ServerKeepsObjects /\ ClientKeepsObjects
    /\ HonestHistoryVerifies /\ FastSaysWhatFullSays
    /\ SealsAccepted /\ OtherHistoryRefused
=============================================================================
