-------------------------- MODULE RecordDataStore --------------------------
(***************************************************************************)
(* The client's store of one record data: its row in the database, its     *)
(* chunk files, and a handle that reads it through a one-chunk cache. An   *)
(* operation computes, under the store's mutex, the states the database    *)
(* and the disk go through; the process may stop between any two of them.  *)
(***************************************************************************)
EXTENDS Naturals, Sequences, FiniteSets

CONSTANTS
    Chunk,       \* chunk numbers of the data
    MaxFaults,   \* bound: chunks the disk loses or rots, bad data, failing transfers, stops included
    MaxStops     \* bound: stops of the process, faults included

VARIABLES
    row,         \* the data's row of record_data
    disk,        \* what the file of every chunk is
    op,          \* what the operation that has the mutex still has to write
    incoming,    \* chunks staged by a download, verified and ready to be adopted
    drops,       \* counts the times held chunks went
    cache,       \* the chunk the handle holds decrypted, the count of drops it is good for, and
                 \* the chunk a read is loading
    faults, stops,
    torn         \* an operation was cut short by a stop of the process

storeVars == <<row, disk, op, incoming, drops, cache, faults, stops, torn>>

DataState == {"deferred", "remote_not_complete", "upload_pending", "download_pending", "in_sync",
              "removed", "invalid", "pruned"}
Row == [known : BOOLEAN, state : DataState, have : SUBSET Chunk, manifest : BOOLEAN]
\* a file is whole, lost (or too short), or has its size and other bytes
File == {"none", "good", "rotten"}

NoRow == [known |-> FALSE, state |-> "deferred", have |-> {}, manifest |-> FALSE]
NoFiles == [c \in Chunk |-> "none"]
AllFiles == [c \in Chunk |-> "good"]
NoChunk == 0
NoCache == [chunk |-> NoChunk, at |-> 0, wants |-> NoChunk, got |-> "nothing"]

StoreInit ==
    /\ row = NoRow
    /\ disk = NoFiles
    /\ op = <<>>
    /\ incoming = {}
    /\ drops = 0
    /\ cache = NoCache
    /\ faults = 0
    /\ stops = 0
    /\ torn = FALSE

Complete(r) == r.have = Chunk
Free == op = <<>>

-----------------------------------------------------------------------------
(* The writes of an operation, in order *)

On(r, f) == [row |-> r, disk |-> f]
Begin(writes) == op' = writes

\* the next write of the operation that has the mutex
Write ==
    /\ op # <<>>
    /\ row' = Head(op).row
    /\ disk' = Head(op).disk
    /\ op' = Tail(op)
    /\ UNCHANGED <<incoming, drops, cache, faults, stops, torn>>

\* data_state_table::ensure: the row is made deferred and empty, unless it is there
Ensured == IF row.known THEN row ELSE [NoRow EXCEPT !.known = TRUE]

\* Mutant of RegisterHeld: the files before the row
MRegisterHeldFiles(state) ==
    LET r == [Ensured EXCEPT !.manifest = TRUE]
    IN  Begin(<<On(row, AllFiles), On([r EXCEPT !.have = Chunk, !.state = state], AllFiles)>>)
\* register_held: the row, then the files, then what is held
RegisterHeld(state) ==
    LET r == [Ensured EXCEPT !.manifest = TRUE]
    IN  Begin(<<On(r, disk), On(r, AllFiles),
                On([r EXCEPT !.have = Chunk, !.state = state], AllFiles)>>)

\* adopt_chunk, add_chunk and mark_held: the file, the bitmap, and the state with the last chunk
MarkHeld(c) ==
    LET f == [disk EXCEPT ![c] = "good"]
        r == [row EXCEPT !.have = @ \cup {c}]
    IN  Begin(<<On(row, f), On(r, f)>> \o
              IF Complete(r) /\ r.state # "upload_pending"
              THEN <<On([r EXCEPT !.state = "in_sync"], f)>> ELSE <<>>)

\* drop_chunk: a lost chunk of a data nobody else has makes it invalid, another is fetched again
DropChunk(c) ==
    /\ drops' = drops + 1
    /\ IF row.state = "upload_pending"
       THEN Begin(<<On([row EXCEPT !.state = "invalid"], disk)>>)
       ELSE LET f == [disk EXCEPT ![c] = "none"]
                r == [row EXCEPT !.have = @ \ {c}]
            IN  Begin(<<On(row, f), On(r, f), On([r EXCEPT !.state = "download_pending"], f)>>)

\* Mutant of DropChunks: nobody is told that chunks went
MDropChunksQuiet(state) ==
    /\ UNCHANGED drops
    /\ LET r == [row EXCEPT !.have = {}]
       IN  Begin(<<On(row, NoFiles), On(r, NoFiles), On([r EXCEPT !.state = state], NoFiles)>>)
\* drop_chunks: the files, the bitmap, the state
DropChunks(state) ==
    /\ drops' = drops + 1
    /\ LET r == [row EXCEPT !.have = {}]
       IN  Begin(<<On(row, NoFiles), On(r, NoFiles), On([r EXCEPT !.state = state], NoFiles)>>)

-----------------------------------------------------------------------------
(* Operations *)

rest == <<row, disk, incoming, faults, stops, torn>>

\* data_writer::finish: the staged chunks become a data of this client, to be uploaded
FinishWriter == Free /\ RegisterHeld("upload_pending") /\ UNCHANGED <<rest, drops, cache>>

\* adopt_content: the data is rebuilt from content held under another data id
AdoptContent == Free /\ RegisterHeld("in_sync") /\ UNCHANGED <<rest, drops, cache>>

\* incoming_chunk: begun for a chunk of the manifest, appended to, verified (begin_chunk, append)
ReceiveChunk(c) ==
    /\ row.known /\ row.manifest
    /\ incoming' = incoming \cup {c}
    /\ UNCHANGED <<row, disk, op, drops, cache, faults, stops, torn>>

\* incoming_chunk::finish and adopt_chunk: held already, or the data went meanwhile: discarded
FinishChunk(c) ==
    /\ Free
    /\ c \in incoming
    /\ incoming' = incoming \ {c}
    /\ IF row.known /\ c \notin row.have THEN MarkHeld(c) ELSE UNCHANGED op
    /\ UNCHANGED <<row, disk, drops, cache, faults, stops, torn>>

\* read_chunk, read_piece: what the bitmap promises is read, what the disk lost is dropped
Readable(c) == row.known /\ c \in row.have /\ disk[c] # "none"
LostRead(c) ==
    /\ Free
    /\ row.known /\ c \in row.have /\ disk[c] = "none"
    /\ DropChunk(c)
    /\ UNCHANGED <<rest, cache>>

\* Mutant of Evictable: the data to be uploaded goes as well
MEvictableAll == row.known
\* evict_data: not what waits to be uploaded; removed is what a held data becomes
Evictable == row.known /\ row.state # "upload_pending"
Evict ==
    /\ Free
    /\ Evictable
    /\ DropChunks(IF row.state \in {"in_sync", "removed"} THEN "removed" ELSE row.state)
    /\ cache' = [cache EXCEPT !.chunk = NoChunk]
    /\ UNCHANGED rest

\* record_data_store::remove: the files, then the row
Remove ==
    /\ Free
    /\ row.known
    /\ drops' = drops + 1
    /\ Begin(<<On(row, NoFiles), On(NoRow, NoFiles)>>)
    /\ UNCHANGED <<rest, cache>>

\* set_manifest: what a holder sent matches the descriptor
SetManifest == row' = [row EXCEPT !.manifest = row.known]

-----------------------------------------------------------------------------
(* Reading through a handle: stored_record_data::load *)

\* the cache is given up when chunks went; another chunk has to be read
HandleLoad(c) ==
    /\ cache.wants = NoChunk
    /\ row.known
    /\ LET kept == IF cache.at = drops THEN cache.chunk ELSE NoChunk
       IN  /\ kept # c
           /\ cache' = [chunk |-> kept, at |-> drops, wants |-> c, got |-> "nothing"]
    /\ UNCHANGED <<row, disk, op, incoming, drops, faults, stops, torn>>

\* read_chunk for the handle, under the store's mutex
HandleRead ==
    /\ Free
    /\ cache.wants # NoChunk /\ cache.got = "nothing"
    /\ LET c == cache.wants
       IN  IF Readable(c) THEN cache' = [cache EXCEPT !.got = disk[c]] /\ UNCHANGED <<op, drops>>
           ELSE /\ cache' = [cache EXCEPT !.wants = NoChunk]
                /\ IF row.known /\ c \in row.have THEN DropChunk(c) ELSE UNCHANGED <<op, drops>>
    /\ UNCHANGED rest

\* the chunk decrypts and is kept; chunk_failed drops what is not the chunk of the manifest, and
\* finds the data invalid whose chunk is the manifest's and does not authenticate
Unread == cache' = [cache EXCEPT !.wants = NoChunk, !.got = "nothing"]
HandleKeep ==
    /\ cache.got = "good"
    /\ cache' = [cache EXCEPT !.chunk = cache.wants, !.wants = NoChunk, !.got = "nothing"]
    /\ UNCHANGED <<row, disk, op, incoming, drops, faults, stops, torn>>
ChunkFailed ==
    /\ Free
    /\ cache.got = "rotten" \/ (cache.got = "good" /\ faults + stops < MaxFaults)
    /\ faults' = IF cache.got = "good" THEN faults + 1 ELSE faults
    /\ Unread
    /\ IF row.known /\ row.manifest /\ cache.got = "rotten" THEN DropChunk(cache.wants)
       ELSE /\ Begin(IF row.known THEN <<On([row EXCEPT !.state = "invalid"], disk)>> ELSE <<>>)
            /\ UNCHANGED drops
    /\ UNCHANGED <<row, disk, incoming, stops, torn>>

-----------------------------------------------------------------------------
(* Faults *)

DiskFault(c) ==
    /\ faults + stops < MaxFaults
    /\ disk[c] = "good"
    /\ Free
    /\ faults' = faults + 1
    /\ \E f \in {"none", "rotten"} : disk' = [disk EXCEPT ![c] = f]
    /\ UNCHANGED <<row, op, incoming, drops, cache, stops, torn>>

\* the process stops: the rest of the operation is not written, clear_staging empties the staging
Stop ==
    /\ faults + stops < MaxStops
    /\ stops' = stops + 1
    /\ op' = <<>>
    /\ torn' = (torn \/ op # <<>>)
    /\ incoming' = {}
    /\ drops' = 0
    /\ cache' = NoCache
    /\ UNCHANGED <<row, disk, faults>>

-----------------------------------------------------------------------------
(* Properties *)

\* Types of the store's state.
StoreTypeOK ==
    /\ row \in Row
    /\ disk \in [Chunk -> File]
    /\ incoming \subseteq Chunk
    /\ cache.chunk \in Chunk \cup {NoChunk}

\* What a handle serves from its cache is held: no eviction, prune, removal or lost chunk, at any
\* point of a read that is under way, leaves the handle with bytes of a chunk that went
\* (stored_record_data::load and the count of drops).
CacheIsHeld ==
    Free /\ cache.chunk # NoChunk /\ cache.at = drops => row.known /\ cache.chunk \in row.have
=============================================================================
