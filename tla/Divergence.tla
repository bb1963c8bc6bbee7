---------------------------- MODULE Divergence ----------------------------
(***************************************************************************)
(* The pure part of anti-entropy: which sequences of an origin's history a *)
(* server samples for its peers, where a peer's samples part from what is  *)
(* held, and what is pulled as a result (spsync/core/divergence.cpp).      *)
(*                                                                         *)
(* A block id is a record [seq, hash]; a history, and the samples of one,  *)
(* is a set of them with one hash per sequence.  Sequence 0 is the invalid *)
(* sequence_number, in a result the one that is not set.                   *)
(***************************************************************************)
EXTENDS Integers, FiniteSets, FiniteSetsExt

\* Mutant of SampleSequences: only every fourth power is sampled, and the head is not.
SampleSequencesSparse(head) ==
    IF head = 0 THEN {} ELSE {1} \cup {head - 4^k : k \in {j \in 0 .. head : 4^j < head}}

\* the distance doubles; the code's bound of 63 shifts is beyond the length of any chain
Distance[k \in Nat] == IF k = 0 THEN 1 ELSE 2 * Distance[k - 1]

\* the head, 1, 2, 4, ... behind it, and the first record
SampleSequences(head) ==
    IF head = 0 THEN {} ELSE {head, 1} \cup {head - Distance[k] : k \in {j \in 0 .. head : Distance[j] < head}}

\* chain_log::samples_of, over the held history of the origin
LastSeq(held) == Max({0} \cup {b.seq : b \in held})
SamplesOf(held) == {b \in held : b.seq \in SampleSequences(LastSeq(held))}

\* Mutant of Common: a sample held at its sequence is common, whatever its hash.
CommonBySeq(samples, held) == {b.seq : b \in samples} \cap {b.seq : b \in held}

\* find_divergence: a sample that is not held says nothing
Common(samples, held) == {b.seq : b \in samples \cap held}
Conflicting(samples, held) ==
    {b.seq : b \in {x \in samples : \E y \in held : y.seq = x.seq /\ y.hash # x.hash}}

LastCommon(samples, held) == Max({0} \cup Common(samples, held))
FirstDivergent(samples, held) ==
    IF Conflicting(samples, held) = {} THEN 0 ELSE Min(Conflicting(samples, held))

\* Mutant of PlanPull: the range starts one too far.
PlanPullLate(known, peerHead, common, divergent) ==
    LET held == IF known > common THEN known ELSE common
    IN  IF divergent = 0 /\ peerHead > 0 /\ held + 1 < peerHead THEN held + 2 ELSE 0

\* plan_pull: the first sequence to pull (the last is the peer's head), 0 when nothing is
PlanPull(known, peerHead, common, divergent) ==
    LET held == IF known > common THEN known ELSE common
    IN  IF divergent = 0 /\ peerHead > 0 /\ held < peerHead THEN held + 1 ELSE 0

\* Mutant of PlanPush: a pushed record is taken as it is.
PlanPushTakes(known, pushed) == 0

\* plan_push: the first sequence to pull before the pushed record, 0 when it is taken as it is
PlanPush(known, pushed) == IF pushed > known + 1 THEN known + 1 ELSE 0

=============================================================================
