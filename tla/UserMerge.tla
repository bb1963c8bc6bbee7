----------------------------- MODULE UserMerge -----------------------------
(***************************************************************************)
(* merge_user_changes: the members of a storage, folded from its user      *)
(* changes. Every special record names the special record its author saw   *)
(* last, and that tree says which changes knew of which. Replicas number   *)
(* the same records differently: a change may stand before the changes its *)
(* author saw, and its client may take it in before them.                  *)
(*                                                                         *)
(* The fold treats users apart, so this is the fold of one user.           *)
(***************************************************************************)
EXTENDS Naturals, FiniteSets

CONSTANTS Tags,      \* record tags are 1..Tags, compared as numbers
          Replica,
          Kinds      \* the kinds of special record that happen

VARIABLES parentOf,  \* the causal parent of each special record, 0 for none
          change,    \* what each does to the user
          order,     \* the record at each place of a replica's chain
          arrived,   \* the records in sync at a replica's client
          folded,    \* the ones the members were last derived from
          member     \* the change the user is a member by, 0 when not a member

vars == <<parentOf, change, order, arrived, folded, member>>

Tag == 1..Tags
Place == 1..Tags
NoTag == 0

\* an update gives the user an access; a full change voids what came before it, and lists the
\* user, lists it without access, or does not; the rest are the changes of other users, and the
\* segment records and the changes no key verifies
Full == {"full", "full_removal", "full_without"}
Access == {"update", "full"}
Removal == {"removal", "full_removal"}
Kind == Full \cup Access \cup Removal \cup {"of_others", "unread"}

\* where a walk up the tree is after n steps; it ends where a record is not in the parent map
Walk(parents, map, from) ==
    LET at[n \in 0..Tags] == IF n = 0 THEN from
                             ELSE IF at[n - 1] \in map THEN parents[at[n - 1]] ELSE NoTag
    IN  at

\* saw: the parent itself counts, in the map or not
Saw(map, ancestor, from) == \E n \in 0..Tags : Walk(parentOf, map, from)[n] = ancestor

Acyclic(parents) == \A t \in Tag : \A n \in 0..Tags : Walk(parents, Tag, parents[t])[n] # t

Numberings == {p \in [Place -> Tag] : \A m, n \in Place : p[m] = p[n] => m = n}

Init ==
    /\ parentOf \in {p \in [Tag -> Tag \cup {NoTag}] : Acyclic(p)}
    /\ change \in [Tag -> Kinds]
    /\ order \in [Replica -> Numberings]
    /\ arrived = [r \in Replica |-> {}]
    /\ folded = [r \in Replica |-> {}]
    /\ member = [r \in Replica |-> NoTag]

-----------------------------------------------------------------------------
(* The fold, over the records of a parent map *)

Empty == [member |-> NoTag, removals |-> {}]

\* a removal stands unless the update the user is a member by saw it
ApplyRemoval(map, f, t) ==
    [f EXCEPT !.member = IF @ # NoTag /\ ~Saw(map, t, parentOf[@]) THEN NoTag ELSE @,
              !.removals = @ \cup {t}]

\* Mutant of Defeated: the removal only erases the member that is there
MDefeatedNever(map, f, t) == f.member # NoTag /\ \E x \in f.removals : ~Saw(map, x, parentOf[t])
\* every removal an update did not see defeats it
Defeated(map, f, t) == \E x \in f.removals : ~Saw(map, x, parentOf[t])

\* the causally newer of two updates wins, of concurrent ones the smaller tag
Wins(map, f, t) ==
    \/ f.member = NoTag
    \/ Saw(map, f.member, parentOf[t])
    \/ ~Saw(map, t, parentOf[f.member]) /\ t < f.member

ApplyUpdate(map, f, t) == IF ~Defeated(map, f, t) /\ Wins(map, f, t) THEN [f EXCEPT !.member = t] ELSE f

\* one round of merge_user_changes
Round(map, f, t) ==
    LET start == IF change[t] \in Full THEN Empty ELSE f
    IN  IF change[t] \in Removal THEN ApplyRemoval(map, start, t)
        ELSE IF change[t] \in Access THEN ApplyUpdate(map, start, t) ELSE start

\* the rounds over the records of a map in the local order
Rounds(r, map) ==
    LET f[n \in 0..Tags] == IF n = 0 THEN Empty
                            ELSE IF order[r][n] \in map THEN Round(map, f[n - 1], order[r][n]) ELSE f[n - 1]
    IN  f
Fold(r, map) == Rounds(r, map)[Tags]

-----------------------------------------------------------------------------
(* A record arrives *)

Arrive(r, t) ==
    /\ t \in Tag \ arrived[r]
    /\ arrived' = [arrived EXCEPT ![r] = @ \cup {t}]
    /\ UNCHANGED <<parentOf, change, order>>

\* on_user_changed and recompute_members: the members are derived anew from all that is in sync
OnUserChanged(r, t) ==
    /\ change[t] # "unread"
    /\ Arrive(r, t)
    /\ folded' = [folded EXCEPT ![r] = arrived'[r]]
    /\ member' = [member EXCEPT ![r] = Fold(r, arrived'[r]).member]

\* a segment record, or a change no key verifies: the next user change finds it in the tree
OnOtherSpecial(r, t) ==
    /\ change[t] = "unread"
    /\ Arrive(r, t)
    /\ UNCHANGED <<folded, member>>

Next == \E r \in Replica, t \in Tag : OnUserChanged(r, t) \/ OnOtherSpecial(r, t)

Spec == Init /\ [][Next]_vars

----------------------------------------------------------------------------
(* Properties *)

\* Every variable has its type.
TypeOK ==
    /\ parentOf \in [Tag -> Tag \cup {NoTag}]
    /\ change \in [Tag -> Kinds]
    /\ order \in [Replica -> Numberings]
    /\ arrived \in [Replica -> SUBSET Tag] /\ folded \in [Replica -> SUBSET Tag]
    /\ member \in [Replica -> Tag \cup {NoTag}]

\* what the author of a change knew of, by the whole tree
Past(t) == {x \in Tag : Saw(Tag, x, parentOf[t])}

\* the places of the folded changes that no full change after them voids
Since(r) ==
    {n \in Place : /\ order[r][n] \in folded[r]
                   /\ \A m \in (n + 1)..Tags : order[r][m] \in folded[r] => change[order[r][m]] \notin Full}

\* the ones that give access and knew of every removal
Effective(r) ==
    {n \in Since(r) : /\ change[order[r][n]] \in Access
                      /\ \A m \in Since(r) : change[order[r][m]] \in Removal => order[r][m] \in Past(order[r][n])}

\* the place of a change comes after all its author knew of, and these arrived
InTurn(r, n) == \A x \in Past(order[r][n]) : x \in folded[r] /\ \E m \in 1..(n - 1) : order[r][m] = x

\* A removal is never undone by a change whose author did not know of it, whatever the order the
\* changes are numbered and taken in and whatever of the tree is missing; and a re-invitation that
\* stands after what its author knew of makes the user a member, whatever else stands around it
\* (merge_user_changes, recompute_members).
MemberIfEffective ==
    \A r \in Replica :
        /\ member[r] # NoTag => \E n \in Effective(r) : member[r] = order[r][n]
        /\ (\E n \in Effective(r) : InTurn(r, n)) => member[r] # NoTag

\* user_merge.hpp: "the local order never changes the outcome, so every replica derives the
\* same membership".
SameMembers ==
    \A r, q \in Replica : folded[r] = folded[q] => member[r] = member[q]
=============================================================================
