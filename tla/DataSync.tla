------------------------------ MODULE DataSync ------------------------------
(***************************************************************************)
(* The record data of one client: data_sync of the engine over the store,  *)
(* for one data. The client may be its author or read what another uploads *)
(* at the same time. The transfers are what TransferService promises; the  *)
(* holders announce a data that became complete to the clients that listen.*)
(***************************************************************************)
EXTENDS RecordDataStore

CONSTANTS
    AutoFetch,   \* sync_engine_config: the data is small enough to be fetched by itself
    MaxCuts,     \* bound: losses of the record connection
    MaxAsks      \* bound: what the application asks for (fetch, evict) and the storage prunes

VARIABLES
    online,      \* the engine is connected
    record,      \* the record naming the data: "none", "pending", "confirmed", "cut"
    upload,      \* uploads_: "none", "asked", or the answer on its way
    download,    \* downloads_: the same
    wants,       \* what a running download still has to move, and whether the holder lacks some
    failed,      \* failed_uploads_, failed_downloads_
    planned,     \* an adoption was planned and runs without the engine's mutex
    due,         \* what the engine, which has its mutex and found the row, is about to write to it
    overwritten, \* an upload was noted on a row that did not wait for it any more
    held,        \* the chunks the data servers hold
    gone,        \* the storage pruned the data
    news,        \* an announcement is on its way to this client
    cuts, asks

engineVars == <<online, record, upload, download, wants, failed, planned, due, overwritten>>
serverVars == <<held, gone, news>>
boundVars == <<cuts, asks>>
syncVars == <<storeVars, engineVars, serverVars, boundVars>>

Answer == {"ok", "not_held", "pruned", "unknown", "error"}
Transfer == {"none", "asked", "moving"} \cup Answer
NoWants == [todo |-> {}, incomplete |-> FALSE]

-----------------------------------------------------------------------------
(* Asking for transfers *)

\* Mutant of OwedUpload: what an earlier connection left is not resumed
MOwedUploadFresh(r) == record # "confirmed" /\ record' = "confirmed" /\ r.known /\ r.state = "upload_pending"
\* request_transfers_of: of a confirmed record, in the state, not asked for and not refused
OwedUpload(r) == record' = "confirmed" /\ r.known /\ r.state = "upload_pending"
OwedDownload(r) == record' = "confirmed" /\ r.known /\ r.state = "download_pending"

\* request_uploads and request_downloads over row r, with what was refused so far
RequestUploads(r, refused) ==
    upload' = IF upload = "none" /\ OwedUpload(r) /\ ~refused THEN "asked" ELSE upload
RequestDownloads(r, refused) ==
    download' = IF download = "none" /\ OwedDownload(r) /\ ~refused THEN "asked" ELSE download

\* The engine finds a row and writes to it in two steps: it has its own mutex, but the store's
\* only for the write, and transfers, readers and evictions work on the store without the engine.
\* An operation of the store changes the state of a row with its last write and the bitmap at
\* once, so a find in the middle of one finds what it would have found before or after it.
Idle == due = "nothing"

\* the row is to be wanted: written in a step of its own, and the downloads requested after it
Want(cond, r, refused) ==
    IF cond THEN due' = "download_pending" /\ UNCHANGED download
    ELSE due' = "nothing" /\ IF online' THEN RequestDownloads(r, refused) ELSE UNCHANGED download

\* request_transfers, with mark_auto_fetch
RequestTransfers(r) ==
    /\ RequestUploads(r, failed'.up)
    /\ Want(AutoFetch /\ record' = "confirmed" /\ r.known /\ r.state = "deferred" /\ ~failed'.down, r, failed'.down)

quiet == <<disk, op, incoming, drops, cache, faults, stops, torn>>

-----------------------------------------------------------------------------
(* The connection and the records *)

\* on_connected, and request_transfers when the sequence number is answered
Connect ==
    /\ Free /\ Idle
    /\ ~online
    /\ online' = TRUE
    /\ failed' = [up |-> FALSE, down |-> FALSE]
    /\ record' = record
    /\ RequestTransfers(row)
    /\ UNCHANGED <<row, quiet, wants, planned, overwritten, serverVars, boundVars>>

\* on_disconnected of comm and engine: what is on its way is dropped, an announcement is lost
Offline ==
    /\ online' = FALSE
    /\ upload' = "none"
    /\ download' = "none"
    /\ wants' = NoWants
    /\ news' = FALSE
    /\ UNCHANGED <<record, failed, planned, overwritten, held, gone>>
Disconnect ==
    /\ Idle
    /\ online
    /\ cuts < MaxCuts
    /\ cuts' = cuts + 1
    /\ Offline
    /\ UNCHANGED <<storeVars, due, asks>>

\* sync_object_change: the writer is finished and its record made under the engine's mutex
CreateData ==
    /\ Idle
    /\ record = "none"
    /\ ~row.known
    /\ held = {}
    /\ FinishWriter
    /\ record' = "pending"
    /\ UNCHANGED <<online, upload, download, wants, failed, planned, due, overwritten, serverVars, boundVars>>

\* a record of this client is confirmed, or one of another client arrives and its row is made
\* (on_commit_response, on_record_response, on_record_received)
Confirm ==
    /\ Free /\ Idle
    /\ online
    /\ record \in {"none", "pending"}
    /\ record = "none" => ~row.known
    /\ record' = "confirmed"
    /\ row' = IF record = "none" THEN Ensured ELSE row
    /\ UNCHANGED <<quiet, online, wants, failed, planned, overwritten, serverVars, boundVars>>
    /\ RequestTransfers(row')

\* prune_superseded and sweep after a history cut; the sweep takes what no record names
CutHistory ==
    /\ Idle
    /\ asks < MaxAsks
    /\ asks' = asks + 1
    /\ \/ /\ Free
          /\ record = "confirmed"
          /\ row.known /\ row.state \notin {"upload_pending", "download_pending", "remote_not_complete"}
          /\ due' = "pruned"
          /\ UNCHANGED <<storeVars, record>>
       \/ /\ record = "confirmed"
          /\ record' = "cut"
          /\ Remove
          /\ UNCHANGED due
       \/ /\ record = "none"
          /\ Remove
          /\ UNCHANGED <<record, due>>
    /\ UNCHANGED <<online, upload, download, wants, failed, planned, overwritten, serverVars, cuts>>

-----------------------------------------------------------------------------
(* Answers: data_sync *)

Settle(state) == row' = IF row.known THEN [row EXCEPT !.state = state] ELSE row

\* on_data_pruned: a data that is not in sync is let go
LetGo == due' = IF row.known /\ row.state # "in_sync" THEN "pruned" ELSE "nothing"

\* on_upload_answer and mark_uploaded
UploadAnswered ==
    /\ Free /\ Idle
    /\ upload \in Answer
    /\ upload' = "none"
    /\ \/ /\ upload = "ok"
          /\ due' = IF row.known /\ row.state = "upload_pending" THEN "in_sync" ELSE "nothing"
          /\ UNCHANGED failed
       \/ upload = "pruned" /\ LetGo /\ UNCHANGED failed
       \/ /\ upload \notin {"ok", "pruned"}
          /\ failed' = [failed EXCEPT !.up = TRUE]
          /\ UNCHANGED due
    /\ UNCHANGED <<storeVars, online, record, download, wants, planned, overwritten, serverVars, boundVars>>

\* on_download_answer and on_download_failed
DownloadAnswered ==
    /\ Free /\ Idle
    /\ download \in Answer
    /\ download' = "none"
    /\ \/ /\ download = "ok" /\ row.known /\ row.state = "in_sync"
          /\ UNCHANGED <<row, due, failed>>
       \/ download = "pruned" /\ LetGo /\ UNCHANGED <<row, failed>>
       \/ /\ download = "not_held"
          /\ Settle("remote_not_complete")
          /\ UNCHANGED <<due, failed>>
       \/ /\ download = "unknown"
          /\ Settle("deferred")
          /\ failed' = [failed EXCEPT !.down = TRUE]
          /\ UNCHANGED due
       \/ /\ download = "error" \/ (download = "ok" /\ ~(row.known /\ row.state = "in_sync"))
          /\ failed' = [failed EXCEPT !.down = TRUE]
          /\ UNCHANGED <<row, due>>
    /\ UNCHANGED <<quiet, online, record, upload, wants, planned, overwritten, serverVars, boundVars>>

\* on_data_available and on_data_announced
Announced ==
    /\ Free /\ Idle
    /\ online
    /\ news
    /\ news' = FALSE
    /\ failed' = [failed EXCEPT !.down = FALSE]
    /\ UNCHANGED <<storeVars, online, record, upload, wants, planned, overwritten, held, gone, boundVars>>
    /\ Want(row.known /\ row.state = "remote_not_complete", row, FALSE)

\* what is due is written to the row as it is now, if it is still there (store::set_state, prune)
WriteDue ==
    /\ Free
    /\ ~Idle
    /\ due' = "nothing"
    /\ record' = record
    /\ \/ /\ due = "in_sync"
          /\ Settle("in_sync")
          /\ overwritten' = (overwritten \/ (row.known /\ row.state # "upload_pending"))
          /\ UNCHANGED <<op, drops, download>>
       \/ /\ due = "download_pending"
          /\ Settle("download_pending")
          /\ IF online THEN RequestDownloads(row', failed.down) ELSE UNCHANGED download
          /\ UNCHANGED <<op, drops, overwritten>>
       \/ /\ due = "pruned"
          /\ IF row.known THEN DropChunks("pruned") ELSE UNCHANGED <<op, drops>>
          /\ UNCHANGED <<row, download, overwritten>>
    /\ UNCHANGED <<disk, incoming, cache, faults, stops, torn, online, upload, wants, failed, planned,
                   serverVars, boundVars>>

-----------------------------------------------------------------------------
(* The application *)

\* fetch_object_data: content held elsewhere is adopted without the engine's mutex, first
PlanAdoption ==
    /\ Free /\ Idle
    /\ asks < MaxAsks
    /\ asks' = asks + 1
    /\ record = "confirmed" /\ row.known /\ ~Complete(row)
    /\ planned' = TRUE
    /\ UNCHANGED <<storeVars, online, record, upload, download, wants, failed, due, overwritten, serverVars, cuts>>
Adopt ==
    /\ planned
    /\ planned' = FALSE
    /\ AdoptContent
    /\ UNCHANGED <<online, record, upload, download, wants, failed, due, overwritten, serverVars, boundVars>>

\* fetch_change_data and want_data
Fetchable == row.known /\ row.state \in {"deferred", "removed", "remote_not_complete", "pruned"}
Fetch ==
    /\ Free /\ Idle
    /\ asks < MaxAsks
    /\ asks' = asks + 1
    /\ record = "confirmed"
    /\ failed' = [failed EXCEPT !.down = FALSE]
    /\ UNCHANGED <<storeVars, online, record, upload, wants, planned, overwritten, serverVars, cuts>>
    /\ Want(Fetchable, row, FALSE)

\* by a handle, without the engine (record_data::remove_data)
EvictData ==
    /\ asks < MaxAsks
    /\ asks' = asks + 1
    /\ Evict
    /\ UNCHANGED <<engineVars, serverVars, cuts>>

-----------------------------------------------------------------------------
(* The transfers and the holders *)

\* a download opens: what is missing here and held there moves (data_downloader::plan)
OpenDownload ==
    /\ Free
    /\ download = "asked"
    /\ IF gone \/ held = {} \/ ~row.known
       THEN /\ download' = IF gone THEN "pruned" ELSE IF row.known THEN "not_held" ELSE "error"
            /\ UNCHANGED <<row, wants>>
       ELSE /\ SetManifest
            /\ wants' = [todo |-> held \ row.have, incomplete |-> ~(Chunk \ row.have \subseteq held)]
            /\ download' = "moving"
    /\ UNCHANGED <<quiet, online, record, upload, failed, planned, due, overwritten, serverVars, boundVars>>
MoveDown(c) ==
    /\ download = "moving"
    /\ c \in wants.todo
    /\ ReceiveChunk(c)
    /\ wants' = [wants EXCEPT !.todo = @ \ {c}]
    /\ UNCHANGED <<online, record, upload, download, failed, planned, due, overwritten, serverVars, boundVars>>
EndDownload ==
    /\ Free
    /\ download = "moving"
    /\ wants.todo = {} /\ incoming = {}
    /\ download' = IF wants.incomplete THEN "not_held" ELSE "ok"
    /\ wants' = NoWants
    /\ UNCHANGED <<storeVars, online, record, upload, failed, planned, due, overwritten, serverVars, boundVars>>

\* a chunk goes up when it can be read; a chunk that is lost, or not the manifest's, ends
\* the upload
MoveUp(c) ==
    /\ Free
    /\ upload = "asked" /\ ~gone
    /\ c \notin held
    /\ Readable(c) /\ disk[c] = "good"
    /\ held' = held \cup {c}
    /\ UNCHANGED <<storeVars, engineVars, gone, news, boundVars>>
LoseUp(c) ==
    /\ upload = "asked" /\ ~gone
    /\ c \notin held
    /\ \/ LostRead(c)
       \/ /\ Free
          /\ ~(row.known /\ c \in row.have) \/ disk[c] = "rotten"
          /\ UNCHANGED storeVars
    /\ upload' = "error"
    /\ UNCHANGED <<online, record, download, wants, failed, planned, due, overwritten, serverVars, boundVars>>
EndUpload ==
    /\ Free
    /\ upload = "asked"
    /\ \/ gone /\ upload' = "pruned"
       \/ ~gone /\ held = Chunk /\ upload' = "ok"
    /\ UNCHANGED <<storeVars, online, record, download, wants, failed, planned, due, overwritten, serverVars, boundVars>>

\* the transfer ends with an error that is reported
Fail ==
    /\ faults + stops < MaxFaults
    /\ faults' = faults + 1
    /\ \/ /\ upload = "asked"
          /\ upload' = "error"
          /\ UNCHANGED <<download, wants>>
       \/ /\ download \in {"asked", "moving"}
          /\ \E e \in {"error", "unknown"} : download' = e
          /\ wants' = NoWants
          /\ UNCHANGED upload
    /\ UNCHANGED <<row, disk, op, incoming, drops, cache, stops, torn, online, record, failed, planned,
                   due, overwritten, serverVars, boundVars>>

\* another client uploads; the servers tell who listens when the data is complete
OtherUploads(c) ==
    /\ record = "none" \/ (record = "confirmed" /\ row.state # "upload_pending")
    /\ c \notin held
    /\ ~gone
    /\ held' = held \cup {c}
    /\ news' = (news \/ (held' = Chunk /\ online))
    /\ UNCHANGED <<storeVars, engineVars, gone, boundVars>>

\* the storage lets the data go
ServerPrunes ==
    /\ asks < MaxAsks
    /\ asks' = asks + 1
    /\ record = "confirmed"
    /\ gone' = TRUE
    /\ held' = {}
    /\ UNCHANGED <<storeVars, engineVars, news, cuts>>

\* the process stops and starts again; the record of a data is made after the data is finished
Creating == record = "pending" /\ op # <<>> /\ op[Len(op)].row.state = "upload_pending"
Restart ==
    /\ Stop
    /\ online' = FALSE
    /\ upload' = "none"
    /\ download' = "none"
    /\ wants' = NoWants
    /\ news' = FALSE
    /\ planned' = FALSE
    /\ due' = "nothing"
    /\ record' = IF Creating THEN "none" ELSE record
    /\ UNCHANGED <<failed, overwritten, held, gone, boundVars>>

Init ==
    /\ StoreInit
    /\ online = FALSE
    /\ record = "none"
    /\ upload = "none"
    /\ download = "none"
    /\ wants = NoWants
    /\ failed = [up |-> FALSE, down |-> FALSE]
    /\ planned = FALSE
    /\ due = "nothing"
    /\ overwritten = FALSE
    /\ held = {}
    /\ gone = FALSE
    /\ news = FALSE
    /\ cuts = 0
    /\ asks = 0

store == <<engineVars, serverVars, boundVars>>
StoreStep ==
    \/ Write /\ UNCHANGED store
    \/ \E c \in Chunk : FinishChunk(c) /\ UNCHANGED store
HandleStep ==
    \/ \E c \in Chunk : HandleLoad(c) /\ UNCHANGED store
    \/ (HandleRead \/ HandleKeep \/ ChunkFailed) /\ UNCHANGED store
TransferStep ==
    \/ OpenDownload \/ EndDownload \/ EndUpload
    \/ \E c \in Chunk : MoveDown(c) \/ MoveUp(c) \/ LoseUp(c)
EngineStep == UploadAnswered \/ DownloadAnswered \/ Announced \/ WriteDue

Next ==
    \/ StoreStep \/ HandleStep \/ TransferStep \/ EngineStep
    \/ Connect \/ Disconnect \/ Restart
    \/ CreateData \/ Confirm \/ CutHistory
    \/ PlanAdoption \/ Adopt \/ Fetch \/ EvictData
    \/ ServerPrunes \/ Fail
    \/ \E c \in Chunk : OtherUploads(c) \/ (DiskFault(c) /\ UNCHANGED store)

\* what is under way goes on and the connection comes back
Fairness ==
    /\ WF_syncVars(StoreStep)
    /\ WF_syncVars(TransferStep)
    /\ WF_syncVars(UploadAnswered) /\ WF_syncVars(DownloadAnswered) /\ WF_syncVars(Announced)
    /\ WF_syncVars(WriteDue)
    /\ WF_syncVars(Connect)

Spec == Init /\ [][Next]_syncVars /\ Fairness

-----------------------------------------------------------------------------
(* Properties *)

\* Types of the engine's state.
TypeOK ==
    /\ StoreTypeOK
    /\ record \in {"none", "pending", "confirmed", "cut"}
    /\ upload \in Transfer /\ download \in Transfer
    /\ due \in {"nothing", "in_sync", "download_pending", "pruned"}
    /\ held \subseteq Chunk

\* Wherever the process stops, a chunk file belongs to a data the database knows; and a data called
\* in sync or waiting to be uploaded has all its chunks unless a stop cut an operation short, or
\* mark_uploaded wrote over what became of the row since it found it - which never happens
\* without a fault (register_held, mark_held, drop_chunks, remove, mark_uploaded).
FilesAsClaimed ==
    /\ ~row.known => disk = NoFiles
    /\ Free /\ ~torn /\ ~overwritten /\ row.known /\ row.state \in {"in_sync", "upload_pending"} => Complete(row)
    /\ overwritten => faults > 0

\* The only copy of a data is kept: while it waits to be uploaded nothing but the disk or the
\* storage's own pruning takes its chunks, whatever the application evicts, the history cuts and
\* wherever the process stops (evict_data, prune_superseded, drop_if_lost).
OnlyCopyKept ==
    record \in {"pending", "confirmed"} /\ row.state = "upload_pending" /\ Free /\ ~gone /\ faults = 0 => disk = AllFiles

\* A data owed to the servers arrives: after its record is confirmed it does not stay
\* upload_pending unless its upload was refused (request_uploads, on_upload_answer).
OwedIsUploaded ==
    (record = "confirmed" /\ row.state = "upload_pending") ~>
        (row.state # "upload_pending" \/ failed.up \/ record = "cut")
=============================================================================
