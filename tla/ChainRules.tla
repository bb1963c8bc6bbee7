---------------------------- MODULE ChainRules -----------------------------
(***************************************************************************)
(* The seen rules of a storage: what the server asks of a record before it *)
(* takes it into the chain (spsync/server/server_lib/chain_sync.cpp), and  *)
(* when a client has to rebuild a pending record to meet them              *)
(* (spsync/engine/rebase_policy.cpp).                                      *)
(*                                                                         *)
(* A record is [tag, seen, special, prev].  Its tag <<op, c, n>> is the    *)
(* n-th form client c made of the operation op: a rebuilt record keeps its *)
(* op id and gets a new tag.  A block id [seq, tag, parent] stands for a   *)
(* sequence and a block hash: the hash covers the record, the sequence and *)
(* the parent, and a block a client predicts has no parent hash yet.       *)
(***************************************************************************)
EXTENDS Integers, Sequences, FiniteSets, FiniteSetsExt

CONSTANTS
    Client,      \* the clients of the storage
    Op,          \* operations, each with the op id its records carry
    SpecialOps,  \* the user changes among them; the others are data changes
    ObjectOf,    \* the object each data change is about
    RefusedOps,  \* records too big or invalid for the server
    Mode         \* the storage's sync_mode

\* enum sync_mode, which the code compares with >=
AllowAll == 0
SpecialSeen == 1
AddRemoveSeen == 2
AllSeen == 3

NoTag == <<>>
NoBlock == [seq |-> 0, tag |-> NoTag, parent |-> NoTag]
FormTag == Op \X Client \X Nat
Tag == FormTag \cup {NoTag}
BlockId == [seq : Nat, tag : Tag, parent : Tag]
Form == [tag : FormTag, seen : BlockId, special : Tag, prev : Tag]

OpIn(f) == f.tag[1]
IsSpecial(f) == OpIn(f) \in SpecialOps
IsAdd(f) == ~IsSpecial(f) /\ f.prev = NoTag
About(f, x) == ~IsSpecial(f) /\ ObjectOf[OpIn(f)] = x

-----------------------------------------------------------------------------
(* A chain is the sequence of the records a server committed *)

Block(chain, n) ==
    [form |-> chain[n], seq |-> n, parent |-> IF n = 1 THEN NoTag ELSE chain[n - 1].tag]
IdOf(b) == [seq |-> b.seq, tag |-> b.form.tag, parent |-> b.parent]

\* chain_log::head
HeadOf(chain) == IF chain = <<>> THEN NoBlock ELSE IdOf(Block(chain, Len(chain)))

\* the newest block of a kind, 0 for none: last_user_change_or_segment_ and last_data_add_remove_
NewestOf(chain, Kind(_)) == Max({0} \cup {i \in DOMAIN chain : Kind(chain[i])})

Position(chain, tag) == Max({0} \cup {i \in DOMAIN chain : chain[i].tag = tag})

\* chain_sync::check_rules_special_seen
SpecialRule(chain, f) ==
    LET newest == NewestOf(chain, IsSpecial)
        referred == Position(chain, f.special)
    IN  IF Mode < SpecialSeen \/ newest = 0 \/ referred = newest THEN "accepted"
        ELSE IF referred # 0 /\ ~IsSpecial(chain[referred]) THEN "invalid_record"
        ELSE "out_of_sync"

\* Mutant of HeadRule: any block with the head's sequence will do.
HeadRuleBySeq(chain, f) ==
    IF f.seen.seq = HeadOf(chain).seq THEN "accepted" ELSE "out_of_sync"

\* the strict rule of check_rules_add, check_rules_existing and user changes: the head was seen
HeadRule(chain, f) == IF f.seen = HeadOf(chain) THEN "accepted" ELSE "out_of_sync"

\* chain_sync::check_rules_add
AddRule(chain, f) ==
    IF Mode = AllSeen THEN HeadRule(chain, f)
    ELSE IF /\ SpecialRule(chain, f) = "accepted"
            /\ Mode = AddRemoveSeen /\ NewestOf(chain, IsAdd) > f.seen.seq
    THEN "out_of_sync" ELSE SpecialRule(chain, f)

\* chain_sync::check_rules_existing, and check_rules of a user change
SeenRule(chain, f) == IF Mode = AllSeen THEN HeadRule(chain, f) ELSE SpecialRule(chain, f)

\* chain_sync::check_rules
Rules(chain, f) ==
    LET current == NewestOf(chain, LAMBDA g : About(g, ObjectOf[OpIn(f)]))
    IN  IF IsSpecial(f) THEN SeenRule(chain, f)
        ELSE IF current = 0 /\ f.prev = NoTag THEN AddRule(chain, f)
        ELSE IF current # 0 /\ chain[current].tag = f.prev THEN SeenRule(chain, f)
        ELSE "out_of_sync"

\* Mutant of Evaluate: the op id is not looked up.
EvaluateByTag(chain, f) ==
    IF OpIn(f) \in RefusedOps THEN "invalid_record"
    ELSE IF \E i \in DOMAIN chain : chain[i].tag = f.tag THEN "already_committed"
    ELSE Rules(chain, f)

\* chain_sync::evaluate; the op id finds the tag too
Evaluate(chain, f) ==
    IF OpIn(f) \in RefusedOps THEN "invalid_record"
    ELSE IF \E i \in DOMAIN chain : OpIn(chain[i]) = OpIn(f) THEN "already_committed"
    ELSE Rules(chain, f)

-----------------------------------------------------------------------------
\* needs_rebase: against the client's head, its newest special record and its last data add
NeedsRebase(f, head, newestSpecial, lastAdd) ==
    LET behind == Mode >= SpecialSeen /\ newestSpecial # NoTag /\ f.special # newestSpecial
    IN  IF Mode = AllSeen THEN f.seen # head
        ELSE \/ behind
             \/ Mode = AddRemoveSeen /\ IsAdd(f) /\ lastAdd > f.seen.seq

=============================================================================
