----------------------------- MODULE Histories -----------------------------
(***************************************************************************)
(* The two models about whole histories, side by side: the views two       *)
(* servers have of one history (ForkedViews), and the cut of a history     *)
(* (HistoryCut). They share nothing.                                       *)
(***************************************************************************)
EXTENDS ForkedViews

CONSTANTS Founder, Newcomer, Writer, Pruner, Object, Changes, KeptVersions, MaxReturned, MaxLog

VARIABLES block, log, released, rows, anchor, bad, up, told, fetching, breaks, lost

History == INSTANCE HistoryCut WITH drops <- breaks

historyVars == <<block, log, released, rows, anchor, bad, up, told, fetching, breaks, lost>>

\* a history has a founding record, and a record changes objects
ASSUME HistoryAssumption ==
    /\ MaxLog \in Nat \ {0} /\ KeptVersions \in Nat /\ MaxReturned \in Nat
    /\ \A ch \in Changes : ch.changed \subseteq Object
=============================================================================
