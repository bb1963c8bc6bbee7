---------------------------- MODULE ForkedViews ----------------------------
(***************************************************************************)
(* The pairs of views two servers can have of one origin's history, up to  *)
(* a length.  The views share a prefix; when the origin truncates its      *)
(* chain there and goes on, each server follows another branch.  Sequences *)
(* are skipped where the origin's log holds records of other servers.      *)
(***************************************************************************)
EXTENDS Divergence

CONSTANT MaxHead     \* bound: the length of a history

ASSUME MaxHeadAssumption == MaxHead \in Nat

VARIABLES ours, theirs,  \* the two views
          fork           \* the last sequence before the branches part

Block(q, branch) == [seq |-> q, hash |-> <<q, IF q <= fork THEN "common" ELSE branch>>]

Init == ours = {} /\ theirs = {} /\ fork \in 0 .. MaxHead

\* the origin signs at the sequence after the last one, or skips one
Grow(view, branch) ==
    {view \cup {Block(q, branch)} : q \in {p \in 1 .. MaxHead : p \in {LastSeq(view) + 1, LastSeq(view) + 2}}}

\* our server takes what the peer holds next of the common part, or follows a branch of its own
Next ==
    \/ theirs' \in Grow(theirs, "theirs") /\ UNCHANGED <<ours, fork>>
    \/ /\ ours' \in Grow(ours, "ours") /\ UNCHANGED <<theirs, fork>>
       /\ \A b \in ours' : b.seq <= fork => b \in theirs
       /\ \A b \in theirs : b.seq <= fork /\ b.seq <= LastSeq(ours') => b \in ours'

vars == <<ours, theirs, fork>>
Spec == Init /\ [][Next]_vars

-----------------------------------------------------------------------------
Samples == SamplesOf(theirs)
Last == LastCommon(Samples, ours)
First == FirstDivergent(Samples, ours)
From == PlanPull(LastSeq(ours), LastSeq(theirs), Last, First)
Parted == \E b \in ours, c \in theirs : b.seq = c.seq /\ b.hash # c.hash

\* The bounds the samples give bracket the fork: nothing is called common beyond it and
\* nothing divergent before it (find_divergence).
BoundsBracketTheFork ==
    /\ Last <= fork
    /\ First # 0 => First > fork

\* When the peer's view goes on from ours, what is pulled is what is missing: all of it,
\* and nothing that is held (plan_pull with the newest common sample).
PullsWhatIsMissing ==
    ours = {b \in theirs : b.seq <= LastSeq(ours)} =>
        {b \in theirs : From > 0 /\ b.seq >= From} = theirs \ ours

\* Two views with the same head that part are always told apart; when no sequence is
\* skipped the newest common sample is within twice the fork's distance from the head
\* (divergence.hpp: "enough to place a fork within a factor of two of its sequence").
EqualHeadsTellForks ==
    LET head == LastSeq(ours)
    IN  Parted /\ head = LastSeq(theirs) =>
            /\ First > 0
            /\ Cardinality(ours) = head /\ Cardinality(theirs) = head =>
                 head - Last <= 2 * (head - fork)

=============================================================================
