---------------------------- MODULE SuiteProofs -----------------------------
(***************************************************************************)
(* What is proved of the parts of MCRecordData, as theorems of its         *)
(* specification. The parts have their inductive invariants in modules of  *)
(* their own (TransferProofs, RecordDataProofs, HistoryProofs and          *)
(* ChatMembershipProofs); here they are put together: a step of the model  *)
(* is a step of one part and leaves the others alone.                      *)
(***************************************************************************)
EXTENDS MCRecordData, TransferProofs, RecordDataProofs, HistoryProofs, ChatMembershipProofs

\* the copies also take the steps of Releases, the same module with other constants; the invariant is
\* about the behaviours of Copies
CopiesPart == part = "copies" => CopiesInv /\ PullTypes

SuiteInv ==
    /\ TransferInv /\ ChannelInv /\ SyncInv /\ CopiesPart
    /\ HistoryInv /\ MergeInv /\ ChatInv /\ RequestInv

\* A step of the model is one of each part, or none.
LEMMA StepOfEach ==
    ASSUME [SuiteNext]_suiteVars
    PROVE  /\ [Queue!Next]_transferVars /\ [Channel!Next]_channelVars /\ [Sync!Next]_syncVars
           /\ part' = part /\ (part = "copies" => [Copies!Next]_copiesVars)
           /\ [History!Next]_historyVars /\ [Merge!Next]_mergeVars
           /\ [Chats!Next]_chatVars /\ [Requested!Next]_requestVars
  BY DEF SuiteNext, suiteVars, dataVars, userVars, OfTransfer, OfChannel, OfSync, OfCopies

LEMMA SuiteStart == SuiteInit => SuiteInv
  <1> SUFFICES ASSUME SuiteInit PROVE SuiteInv
    OBVIOUS
  <1>1. /\ Queue!Init /\ Channel!Init /\ Sync!Init /\ Copies!Init
        /\ History!Init /\ Merge!Init /\ Chats!Init /\ Requested!Init
    BY DEF SuiteInit
  <1>2. TransferInv /\ ChannelInv /\ SyncInv /\ CopiesPart
    BY <1>1, TransferStart, ChannelStart, SyncInitially, CopiesStart, PullTypesStart DEF CopiesPart
  <1>3. HistoryInv /\ MergeInv /\ ChatInv /\ RequestInv
    BY <1>1, InitStep, MergeInitially, ChatInitially, RequestInitially
  <1> QED
    BY <1>2, <1>3 DEF SuiteInv

LEMMA SuiteStep == SuiteInv /\ [SuiteNext]_suiteVars => SuiteInv'
  <1> SUFFICES ASSUME SuiteInv, [SuiteNext]_suiteVars PROVE SuiteInv'
    OBVIOUS
  <1>1. TransferInv'
    BY StepOfEach, TransferStep, TransferAside DEF SuiteInv
  <1>2. ChannelInv'
    BY StepOfEach, ChannelStep, ChannelUntouched DEF SuiteInv
  <1>3. SyncInv'
    BY StepOfEach, SyncStep, SyncStutter DEF SuiteInv
  <1>4. CopiesPart'
    <2> SUFFICES ASSUME part = "copies" PROVE CopiesInv' /\ PullTypes'
      BY StepOfEach DEF CopiesPart
    <2>1. CopiesInv /\ PullTypes
      BY DEF SuiteInv, CopiesPart
    <2>2. CASE Copies!Next
      BY <2>1, <2>2, CopiesStep, PullTypesStep
    <2>3. CASE UNCHANGED copiesVars
      <3>1. PullTypes'
        BY <2>1, <2>3 DEF PullTypes, copiesVars
      <3> QED
        BY <2>1, <2>3, <3>1, CopiesAsideKeep
    <2> QED
      BY <2>2, <2>3, StepOfEach
  <1>5. HistoryInv'
    BY StepOfEach, HistoryStep DEF SuiteInv
  <1>6. MergeInv' /\ ChatInv' /\ RequestInv'
    BY StepOfEach, MergeStep, ChatStep, RequestStep DEF SuiteInv
  <1> QED
    BY <1>1, <1>2, <1>3, <1>4, <1>5, <1>6 DEF SuiteInv

\* The invariants of the parts hold in every reachable state.
LEMMA SuiteInvariance == SuiteSpec => []SuiteInv
  BY SuiteStart, SuiteStep, PTL DEF SuiteSpec

-----------------------------------------------------------------------------
(* The theorems *)

\* Every variable of every part has its type, for any constants the assumptions allow. The types of the
\* data channel have that a call without an answer is on a connection that lives (data_channel), those of
\* the data servers that no counter goes below zero or above the number of data (server_data_store).
THEOREM PartsTyped == SuiteSpec => []SuiteTypeOK
  <1>1. SuiteInv => SuiteTypeOK
    <2> SUFFICES ASSUME SuiteInv PROVE SuiteTypeOK
      OBVIOUS
    <2>1. Queue!TypeOK /\ Channel!TypeOK /\ Sync!TypeOK
      BY TransferSound, ChannelTyped, SyncImplied DEF SuiteInv
    <2>2. part = "copies" => Copies!TypeOK
      BY CopiesTyped DEF SuiteInv, CopiesPart
    <2>3. History!TypeOK /\ Merge!TypeOK
      BY HistoryTypeOK, MergeImplied DEF SuiteInv
    <2>4. Chats!TypeOK /\ Requested!TypeOK
      BY ChatImplied DEF SuiteInv, RequestInv
    <2> QED
      BY <2>1, <2>2, <2>3, <2>4 DEF SuiteTypeOK
  <1> QED
    BY <1>1, SuiteInvariance, PTL

\* An answer from the data channel that is not ignored is taken for the transfer it belongs to, and
\* a transfer counts as outstanding exactly the pieces a round has still to send or the channel has
\* still to answer (transfer_queue::answered, finish_if_done), for any number of data, threads,
\* chunks and pieces and any limits, through failures, retries and losses of the connection.
THEOREM AnswersAreTheirOwn == SuiteSpec => []AnswersTheirOwn
  <1>1. SuiteInv => AnswersTheirOwn
    BY TransferSound DEF SuiteInv, AnswersTheirOwn
  <1> QED
    BY <1>1, SuiteInvariance, PTL

\* No transfer fails because a piece is not the next of its chunk, whichever threads run the rounds
\* and whenever answers ask for another one (action_pump, fill_window, piece_cursor, take_piece).
THEOREM PiecesComeInOrder == SuiteSpec => []ChunksInOrder
  <1>1. SuiteInv => ChunksInOrder
    BY TransferSound DEF SuiteInv, ChunksInOrder
  <1> QED
    BY <1>1, SuiteInvariance, PTL

\* Every callback of the data channel is called at most once, and only for a call that was made
\* (data_channel.hpp: "every call is answered exactly once"): the steps of the channel are steps of
\* CallService, for any number of openings, servers and grants, whatever the ticket's wait, the
\* holders, the connections, the record server and the end of the channel do in whichever order.
THEOREM CallsAnsweredOnce == SuiteSpec => Channel!Service!AtMostOnce
  <1>1. SuiteInit => Channel!Service!Init
    BY ChannelStart DEF SuiteInit
  <1>2. SuiteInv /\ [SuiteNext]_suiteVars => [Channel!Service!Next]_<<made, times>>
    BY StepOfEach, ChannelStep, ChannelUntouched DEF SuiteInv, ServiceStep
  <1> QED
    BY <1>1, <1>2, SuiteInvariance, PTL DEF SuiteSpec, Channel!Service!AtMostOnce

\* A handle never serves a chunk that went: neither an eviction, a prune, a removal nor a lost
\* chunk, at any point of a read under way (stored_record_data::load and the count of drops).
THEOREM ServedIsHeld == SuiteSpec => []CacheIsHeld
  <1>1. SuiteInv => CacheIsHeld
    BY SyncImplied DEF SuiteInv, CacheIsHeld
  <1> QED
    BY <1>1, SuiteInvariance, PTL

\* Wherever the process stops, no file is without its row, and a data called in sync or waiting to
\* be uploaded has all its chunks unless a stop cut an operation short or an upload was noted on a
\* row that had changed since it was found, which takes a fault (register_held, mark_held,
\* drop_chunks, remove, mark_uploaded).
THEOREM ClaimsAreTrue == SuiteSpec => []FilesAsClaimed
  <1>1. SuiteInv => FilesAsClaimed
    BY SyncImplied DEF SuiteInv, FilesAsClaimed
  <1> QED
    BY <1>1, SuiteInvariance, PTL

\* The only copy of a data stays until it is uploaded, whatever the application evicts, the
\* history cuts and wherever the process stops (evict_data, prune_superseded, drop_if_lost).
THEOREM OnlyCopyStays == SuiteSpec => []OnlyCopyKept
  <1>1. SuiteInv => OnlyCopyKept
    BY SyncImplied DEF SuiteInv, OnlyCopyKept
  <1> QED
    BY <1>1, SuiteInvariance, PTL

\* The counters a data server refuses uploads by say what its tables say, the quota is kept and no
\* chunk is without a row, through uploads, copies, releases, expiry and restarts in any order
\* (server_data_store: used_bytes_, uploads_in_progress_).
THEOREM CountersAreTrue == SuiteSpec => []StoreCounts
  <1>1. SuiteInv => StoreCounts
    BY CopiesImplied DEF SuiteInv, CopiesPart, StoreCounts
  <1> QED
    BY <1>1, SuiteInvariance, PTL

\* The record server sends clients and pulls only to data servers that hold the data, or to one
\* whose release for a prune is about to be withdrawn from the table (data_availability,
\* data_coordinator), whatever crosses on the links and however often they are lost.
THEOREM ListedHold == SuiteSpec => []ListedIsHeld
  <1>1. SuiteInv => ListedIsHeld
    BY CopiesImplied DEF SuiteInv, CopiesPart, ListedIsHeld
  <1> QED
    BY <1>1, SuiteInvariance, PTL

\* Whatever is cut at the server, pruned at a client or fetched while that happens, every version of every
\* object and the data of the newest ones are kept, an honest history verifies, the fast verification
\* says what the full one says, a segment sealed at the head is taken, and a client whose anchor is of
\* another history takes nothing (cut_history, prune_history, verify_history, make_segment_data, anchor_gate).
THEOREM CutsLoseNothing == SuiteSpec => []CutKeepsHistory
  <1>1. SuiteInv => CutKeepsHistory
    BY HistoryKept DEF SuiteInv, CutKeepsHistory
  <1> QED
    BY <1>1, SuiteInvariance, PTL

\* In whatever order the changes are numbered and arrive, a user is a member only by a change that
\* gives access and knew of every removal, and is one whenever such a change stands after all that
\* its author knew of (merge_user_changes, recompute_members).
THEOREM MembershipFollows == SuiteSpec => []MemberIfEffective
  <1>1. SuiteInv => MemberIfEffective
    BY MergeImplied DEF SuiteInv, MemberIfEffective
  <1> QED
    BY <1>1, SuiteInvariance, PTL

\* A storage attached to a session that is up was told so, whether it was attached before the
\* hello, between it and the round over the comms, or later (attach, handle(server_hello)).
THEOREM AttachedKnowTheSession == SuiteSpec => []AttachedAreTold
  <1>1. SuiteInv => AttachedAreTold
    BY ChatImplied DEF SuiteInv, AttachedAreTold
  <1> QED
    BY <1>1, SuiteInvariance, PTL

\* The channel list names no chat the servers do not have: a creation that failed or whose answer
\* was lost leaves no phantom (on_create_storage).
THEOREM NoPhantomChats == SuiteSpec => []ListedChatsExist
  <1>1. SuiteInv => ListedChatsExist
    BY ChatImplied DEF SuiteInv, ListedChatsExist
  <1> QED
    BY <1>1, SuiteInvariance, PTL

\* A request is called authentic only if its sender's key server has a key for it and its signature
\* holds, whichever lookup an answer was taken for, through lost sessions, late answers, several
\* evaluations of one row and restarts (do_verify_data, async_key_query::emit_result).
THEOREM NoForgedRequests == SuiteSpec => []Requested!OnlyAuthentic
  <1>1. SuiteInv => Requested!OnlyAuthentic
    BY DEF SuiteInv, RequestInv
  <1> QED
    BY <1>1, SuiteInvariance, PTL
=============================================================================
