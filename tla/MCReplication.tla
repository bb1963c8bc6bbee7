--------------------------- MODULE MCReplication ---------------------------
(***************************************************************************)
(* Instances of Replication for TLC.                                       *)
(***************************************************************************)
EXTENDS Replication

CONSTANTS A, B, C,                 \* servers
          r1, r2, r3, r4,  \* records
          k1               \* a member's key

\* A dials B; or B relays between A and C
Pair == {<<A, B>>}
Line == {<<A, B>>, <<B, C>>}

\* every record its own operation; or r3 is a client's second attempt at the operation of r2
OwnOp == [r \in Record |-> r]
Retried == [r \in Record |-> IF r = r3 THEN r2 ELSE r]

OneSigner == [r \in Record |-> k1]
\* the keys known: all; of the members, only at the home server; of the members, but no server's
AllKeys == [s \in Server |-> Server \cup Signer]
HomeKeys == [s \in Server |-> IF s = A THEN Signer ELSE {}]
MemberKeys == [s \in Server |-> Signer]

\* where clients commit
AtHome == [r \in Record |-> {A}]
FirstAtHome == [r \in Record |-> IF r = r1 THEN {A} ELSE {B}]
LastAway == [r \in Record |-> IF r = r3 THEN {B} ELSE {A}]

Nothing == [s \in Server |-> {}]

\* everything fits a response; or r3 is as large as the others of four together
AllFit == SUBSET Record
SmallerFit == {S \in SUBSET Record : Cardinality(S) + (IF r3 \in S THEN 3 ELSE 0) <= 4}

RecordSymmetry == Permutations(Record)

=============================================================================
