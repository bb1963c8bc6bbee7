------------------------------- MODULE Users --------------------------------
(***************************************************************************)
(* What users meet besides the records, side by side: the merge of the     *)
(* membership (UserMerge), the connection of a chat (ChatConnection) and   *)
(* the requests between users (Requests). They share nothing here.         *)
(***************************************************************************)
EXTENDS Naturals

CONSTANTS
    Tags, Replica, Kinds,                                                               \* merge
    Endpoints, Reachable, Chat, Invited, Waiter, MaxCalls, MaxDrops, ShortDelays,       \* chat
    Packet, Running, Home, Registered, Forged, Unreadable, MaxRows, MaxRequestBreaks, MaxTries \* requests

VARIABLES
    parentOf, change, order, arrived, folded, member,
    net, events, stopped, pending, timer, delay, next, last, waiting, opened, attached, informed, listed,
    creating, storages, callsMade, dropped,
    inbox, handling, requests, banned, contacts, keys, evaluating, queries, progress, session,
    clientEvents, lookups, results, evaluated, broken, tried

Merge == INSTANCE UserMerge
Chats == INSTANCE ChatConnection WITH told <- informed
Requested == INSTANCE Requests WITH posted <- clientEvents, asked <- evaluated, MaxBreaks <- MaxRequestBreaks

mergeVars == <<parentOf, change, order, arrived, folded, member>>
chatVars == <<net, events, stopped, pending, timer, delay, next, last, waiting, opened, attached, informed,
              listed, creating, storages, callsMade, dropped>>
requestVars == <<inbox, handling, requests, banned, contacts, keys, evaluating, queries, progress, session,
                 clientEvents, lookups, results, evaluated, broken, tried>>

\* record tags are numbers, and the merge knows the kinds of change there are
ASSUME MergeAssumption == Tags \in Nat /\ Kinds \subseteq Merge!Kind

\* there is a server to connect to
ASSUME ChatAssumption == Endpoints \in Nat \ {0} /\ ShortDelays \in Nat

\* what a lookup that brings no key says is no sender
ASSUME RequestsAssumption == {"none", "error"} \cap Packet = {}
=============================================================================
