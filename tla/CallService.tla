---------------------------- MODULE CallService ----------------------------
(***************************************************************************)
(* What a data channel promises the transfers that use it: every call is   *)
(* answered, and answered once.                                            *)
(***************************************************************************)
EXTENDS Naturals

CONSTANT Call
VARIABLES
    made,        \* the calls made
    times        \* how often the callback of a call was called

Init == made = {} /\ times = [c \in Call |-> 0]

Make(c) == c \notin made /\ made' = made \cup {c} /\ UNCHANGED times
\* the answers of several calls may come together: their connection is gone
Answer(C) ==
    /\ C \subseteq made
    /\ \A c \in C : times[c] = 0
    /\ times' = [c \in Call |-> IF c \in C THEN 1 ELSE times[c]]
    /\ UNCHANGED made
\* a call that is answered before it returns
Refuse(c) == c \notin made /\ made' = made \cup {c} /\ times' = [times EXCEPT ![c] = 1]

Next ==
    \/ \E c \in Call : Make(c) \/ Refuse(c)
    \/ \E C \in SUBSET Call : Answer(C)

\* no call is answered that was not made, and none twice
AtMostOnce == Init /\ [][Next]_<<made, times>>

Spec ==
    /\ AtMostOnce
    /\ \A c \in Call : WF_<<made, times>>(\E C \in SUBSET Call : c \in C /\ Answer(C))
=============================================================================
