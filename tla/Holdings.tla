------------------------------ MODULE Holdings ------------------------------
(***************************************************************************)
(* The two parts that hold record data, side by side: the store and the    *)
(* data sync of a client (DataSync), and the copies on the data servers    *)
(* (DataCopies). They share nothing here.                                  *)
(***************************************************************************)
EXTENDS Naturals, FiniteSets

CONSTANTS
    Chunk, AutoFetch, MaxFaults, MaxStops, MaxCuts, MaxAsks,                            \* sync
    Holder, Item, Slice, Primary, Entry, Quota, MaxUploads, MaxBreaks, MaxReleaseBreaks \* copies

VARIABLES
    row, disk, op, incoming, drops, cache, faults, stops, torn, online, record, upload, download,
    wants, failed, planned, due, overwritten, held, gone, news, cuts, asks,
    standing, toRelease, table, plan, wire, view, toRecord, toHolder, known, have, touched,
    usedUnits, inProgress, client, asker, wanted, pull, ended, spent

Sync == INSTANCE DataSync
Copies == INSTANCE DataCopies WITH Server <- Holder, Data <- Item, Chunk <- Slice
\* the same where one server is wanted: small enough for lost links and progress together
Releases == INSTANCE DataCopies WITH Server <- Holder, Data <- Item, Chunk <- Slice,
                                     Primary <- Entry, MaxBreaks <- MaxReleaseBreaks

syncVars ==
    <<row, disk, op, incoming, drops, cache, faults, stops, torn, online, record, upload, download,
      wants, failed, planned, due, overwritten, held, gone, news, cuts, asks>>
copiesVars ==
    <<standing, toRelease, table, plan, wire, view, toRecord, toHolder, known, have, touched,
      usedUnits, inProgress, client, asker, wanted, pull, ended, spent>>

\* the data servers hold finitely many data
ASSUME CopiesAssumption == IsFiniteSet(Item) /\ Quota \in Nat
=============================================================================
