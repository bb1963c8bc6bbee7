----------------------------- MODULE Transfers -----------------------------
(***************************************************************************)
(* The two parts a transfer of record data goes through, side by side: the *)
(* queue with its window and retries (TransferQueue), and the channel to   *)
(* the data servers under it (DataChannel). The queue takes of the channel *)
(* only that it answers every call once, so they share nothing here.       *)
(***************************************************************************)
EXTENDS Naturals, Sequences

CONSTANTS
    Data, Thread, Chunks, Pieces, MaxDatas, Window, MaxFails, MaxLoad,
    Opening, Server, Grants, MaxLosses

VARIABLES
    dir, link, running, queue, active, notes, gen, posted, pump, task, acts, calls, waits, timers,
    rgen, retrying, turn, asked, fails, linkLosses,
    recordLink, losses, alive, tickets, att, links, slot, route, made, times

Queue == INSTANCE TransferQueue WITH cuts <- linkLosses
Channel == INSTANCE DataChannel

transferVars ==
    <<dir, link, running, queue, active, notes, gen, posted, pump, task, acts, calls, waits, timers,
      rgen, retrying, turn, asked, fails, linkLosses>>
channelVars == <<recordLink, losses, alive, tickets, att, links, slot, route, made, times>>

\* a data has finitely many pieces, and the limits of the transfers are numbers
ASSUME TransferAssumption ==
    /\ Chunks \in Nat /\ Pieces \in Nat
    /\ MaxDatas \in Nat /\ Window \in Nat /\ MaxFails \in Nat /\ MaxLoad \in Nat

\* the record server grants lists of data servers
ASSUME ChannelAssumption == Grants \subseteq Seq(Server)
=============================================================================
