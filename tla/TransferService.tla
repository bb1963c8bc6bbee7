-------------------------- MODULE TransferService --------------------------
(***************************************************************************)
(* What the transfers of a storage connection promise their owner (comm    *)
(* and, behind it, the engine): a data that was asked for is on its way    *)
(* until its end is reported, once; the loss of the record connection      *)
(* drops what is on its way without a report; a data that stays on its way *)
(* is reported at last.                                                    *)
(***************************************************************************)
CONSTANT Data
VARIABLE running     \* the data asked for whose end is not reported yet

Init == running = {}

Ask(d) == d \notin running /\ running' = running \cup {d}
Report(d) == d \in running /\ running' = running \ {d}
Lose == running # {} /\ running' = {}

Next == Lose \/ \E d \in Data : Ask(d) \/ Report(d)

Spec == Init /\ [][Next]_running /\ \A d \in Data : WF_running(Report(d))
=============================================================================
