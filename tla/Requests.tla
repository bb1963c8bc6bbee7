------------------------------ MODULE Requests ------------------------------
(***************************************************************************)
(* Requests between users: the packets of contact requests and invitations *)
(* are stored, the sender's key is looked up at the sender's key server,   *)
(* the request is verified, and the user accepts, refuses or bans.         *)
(* request_handler and request_storage run on the event loop;              *)
(* async_key_query asks for one key after the other over a client whose    *)
(* answers and connection events come from io threads.                     *)
(*                                                                         *)
(* Packet transport and key client are not in the repository. Of the key   *)
(* client this is used: an attempt ends in a connect or a disconnect       *)
(* event, a lost session gives a disconnect event, close gives none, and a *)
(* lookup is answered over its session or ends in an error once that is    *)
(* gone, before or after the disconnect event is handled.                  *)
(***************************************************************************)
EXTENDS Integers, Sequences, SequencesExt

CONSTANTS
    Packet,      \* the packets sent, each by a sender of its own and named as the sender
    Running,     \* the key servers that accept a connection
    Home,        \* the key server of each sender
    Registered,  \* the senders whose key their key server has
    Forged,      \* the packets whose signature does not hold
    Unreadable,  \* the packets that cannot be decrypted
    MaxRows,     \* rows in the table
    MaxBreaks,   \* sessions lost and stops of the application
    MaxTries     \* calls of the application about a request

Nobody == "nobody"

VARIABLES
    inbox,      \* the packets the transport has not been told are seen
    handling,   \* the packet whose handler has yet to call mark_seen
    requests,   \* the table: the packet and the state of each row, a removed one included
    banned, contacts, keys,
    evaluating, \* the rows emit_pending_requests has still to look at
    queries,    \* the rows that wait for a key and their senders, queries_
    progress,   \* the server they go to, in_progress_
    session,    \* the key client's connection
    posted,     \* its events, posted to the io threads
    lookups,    \* the senders looked up, and whether the session of the lookup is still there
    results,    \* the query events on their way to the loop
    asked,      \* the rows evaluated in this run of the application
    broken, tried

requestVars == <<inbox, handling, requests, banned, contacts, keys, evaluating, queries, progress, session,
                 posted, lookups, results, asked, broken, tried>>
queryVars == <<queries, progress, session, lookups>>

State == {"waiting", "succeeded", "query_failed", "failed", "no_key", "removed"}
Row == 1..Len(requests)

-----------------------------------------------------------------------------
(* async_key_query *)

Closed == [state |-> "closed", server |-> Nobody]
Lost(calls) == [i \in DOMAIN calls |-> [calls[i] EXCEPT !.live = FALSE]]

\* start_next and the first half of run_query: the sender of the query is looked up
StartNext(query, calls) ==
    lookups' = Append(calls, [of |-> query.of, live |-> session.state = "connected"])

\* next_locked with the server in progress given: the first sender is looked up over the
\* session, or a session with its server is started, or all is closed
NextLocked(queue, server, calls) ==
    /\ queries' = queue
    /\ IF queue = <<>>
       THEN session' = Closed /\ progress' = Nobody /\ lookups' = Lost(calls)
       ELSE LET home == Home[Head(queue).of]
            IN IF home = server
               THEN StartNext(Head(queue), calls) /\ progress' = server /\ UNCHANGED session
               ELSE /\ session' = [state |-> "connecting", server |-> home]
                    /\ progress' = home /\ lookups' = Lost(calls)

\* query
Query(row, sender) ==
    IF progress = Nobody THEN NextLocked(Append(queries, [row |-> row, of |-> sender]), Nobody, lookups)
    ELSE queries' = Append(queries, [row |-> row, of |-> sender]) /\ UNCHANGED <<progress, session, lookups>>

\* emit_result: the oldest query gets the outcome, whichever lookup it is of
EmitResult(outcome) ==
    results' = IF queries = <<>> THEN results
               ELSE Append(results, [row |-> Head(queries).row, outcome |-> outcome])

Rest == IF queries = <<>> THEN <<>> ELSE Tail(queries)

\* run_query goes on with what the lookup brought: the sender whose key it is, none, an error
RunQuery(i, outcome) ==
    /\ EmitResult(outcome)
    /\ NextLocked(Rest, progress, RemoveAt(lookups, i))
    /\ UNCHANGED <<inbox, handling, requests, banned, contacts, keys, evaluating, posted, asked, broken, tried>>

LookupEnds(i) ==
    IF lookups[i].live
    THEN RunQuery(i, IF lookups[i].of \in Registered /\ Home[lookups[i].of] = session.server
                     THEN lookups[i].of ELSE "none")
    ELSE RunQuery(i, "error")

\* the events of the key client, in their order
OnConnect ==
    /\ posted # <<>> /\ Head(posted) = "connect"
    /\ posted' = Tail(posted)
    /\ IF queries = <<>> THEN NextLocked(<<>>, progress, lookups)
       ELSE /\ StartNext(Head(queries), lookups)
            /\ UNCHANGED <<queries, progress, session>>
    /\ UNCHANGED <<inbox, handling, requests, banned, contacts, keys, evaluating, results, asked, broken, tried>>

\* Mutant of OnDisconnect: the queries behind the one that failed are left to the next query
MOnDisconnect ==
    /\ posted # <<>> /\ Head(posted) = "disconnect"
    /\ posted' = Tail(posted)
    /\ EmitResult("error")
    /\ queries' = Rest /\ UNCHANGED <<progress, session, lookups>>
    /\ UNCHANGED <<inbox, handling, requests, banned, contacts, keys, evaluating, asked, broken, tried>>

OnDisconnect ==
    /\ posted # <<>> /\ Head(posted) = "disconnect"
    /\ posted' = Tail(posted)
    /\ EmitResult("error")
    /\ NextLocked(Rest, Nobody, lookups)
    /\ UNCHANGED <<inbox, handling, requests, banned, contacts, keys, evaluating, asked, broken, tried>>

\* the key client: an attempt ends, a session is lost
AttemptEnds ==
    /\ session.state = "connecting"
    /\ \/ /\ session.server \in Running
          /\ session' = [session EXCEPT !.state = "connected"] /\ posted' = Append(posted, "connect")
       \/ /\ session.server \notin Running
          /\ session' = [session EXCEPT !.state = "closed"] /\ posted' = Append(posted, "disconnect")
    /\ UNCHANGED <<inbox, handling, requests, banned, contacts, keys, evaluating, queries, progress, lookups,
                   results, asked, broken, tried>>

LoseSession ==
    /\ session.state = "connected" /\ broken < MaxBreaks
    /\ broken' = broken + 1
    /\ session' = [session EXCEPT !.state = "closed"] /\ posted' = Append(posted, "disconnect")
    /\ lookups' = Lost(lookups)
    /\ UNCHANGED <<inbox, handling, requests, banned, contacts, keys, evaluating, queries, progress, results,
                   asked, tried>>

-----------------------------------------------------------------------------
(* request_handler and request_storage *)

\* change_state: there is nothing to change once the row was removed
ChangeState(row, state) ==
    requests' = IF requests[row].state = "removed" THEN requests ELSE [requests EXCEPT ![row].state = state]

\* do_verify_data with the keys known by then; a signature counts with the sender's key only
DoVerifyData(row, known) ==
    /\ asked' = asked \cup {row}
    /\ IF requests[row].of \in known
       THEN /\ ChangeState(row, IF requests[row].of \in Forged THEN "failed" ELSE "succeeded")
            /\ UNCHANGED queryVars
       ELSE UNCHANGED requests /\ Query(row, requests[row].of)

\* on_packet and handle: a request is stored before its packet is marked seen; nothing is
\* kept of a packet that cannot be read or whose sender is banned
OnPacket(p) ==
    /\ handling = Nobody /\ p \in inbox
    /\ handling' = p
    /\ IF p \in Unreadable \cup banned THEN UNCHANGED <<requests, asked, queryVars>>
       ELSE LET row == Len(requests) + 1
                state == IF p \notin keys THEN "waiting" ELSE IF p \in Forged THEN "failed" ELSE "succeeded"
            IN /\ row <= MaxRows
               /\ requests' = Append(requests, [of |-> p, state |-> state])
               /\ asked' = asked \cup {row}
               /\ IF p \in keys THEN UNCHANGED queryVars ELSE Query(row, p)
    /\ UNCHANGED <<inbox, banned, contacts, keys, evaluating, posted, results, broken, tried>>

MarkSeen ==
    /\ handling # Nobody
    /\ inbox' = inbox \ {handling} /\ handling' = Nobody
    /\ UNCHANGED <<requests, banned, contacts, keys, evaluating, queryVars, posted, results, asked, broken, tried>>

\* on_query_event
OnQueryEvent ==
    /\ handling = Nobody /\ results # <<>>
    /\ results' = Tail(results)
    /\ LET r == Head(results)
       IN \/ /\ r.outcome = "error"
             /\ ChangeState(r.row, "query_failed") /\ UNCHANGED <<keys, asked, queryVars>>
          \/ /\ r.outcome = "none"
             /\ ChangeState(r.row, "no_key") /\ UNCHANGED <<keys, asked, queryVars>>
          \/ /\ r.outcome \in Packet
             /\ keys' = keys \cup {r.outcome}
             /\ DoVerifyData(r.row, keys')
    /\ UNCHANGED <<inbox, handling, banned, contacts, evaluating, posted, broken, tried>>

\* emit_pending_requests
EmitPendingRequests ==
    /\ evaluating = {} /\ tried < MaxTries /\ tried' = tried + 1
    /\ evaluating' = {row \in Row : requests[row].state \in {"waiting", "query_failed"}}
    /\ UNCHANGED <<inbox, handling, requests, banned, contacts, keys, queryVars, posted, results, asked, broken>>

\* its loop over the rows, the order of their times left open
EvaluatePending(row) ==
    /\ row \in evaluating
    /\ evaluating' = evaluating \ {row}
    /\ DoVerifyData(row, keys)
    /\ UNCHANGED <<inbox, handling, banned, contacts, keys, posted, results, broken, tried>>

\* what the user does about a request: have it evaluated again (try_evaluate_request), remove it,
\* ban its sender, accept its sender as a contact
Called(row) == requests[row].state # "removed" /\ tried < MaxTries /\ tried' = tried + 1

TryEvaluateRequest(row) ==
    /\ Called(row)
    /\ DoVerifyData(row, keys)
    /\ UNCHANGED <<inbox, handling, banned, contacts, keys, evaluating, posted, results, broken>>

RemoveRequest(row) == requests' = [requests EXCEPT ![row].state = "removed"]

BanSender(row) ==
    /\ Called(row)
    /\ banned' = banned \cup {requests[row].of}
    /\ RemoveRequest(row)
    /\ UNCHANGED <<inbox, handling, contacts, keys, evaluating, queryVars, posted, results, asked, broken>>

AcceptContactRequest(row) ==
    /\ Called(row)
    /\ contacts' = contacts \cup {requests[row].of}
    /\ RemoveRequest(row)
    /\ UNCHANGED <<inbox, handling, banned, keys, evaluating, queryVars, posted, results, asked, broken>>

Refuse(row) ==
    /\ Called(row)
    /\ RemoveRequest(row)
    /\ UNCHANGED <<inbox, handling, banned, contacts, keys, evaluating, queryVars, posted, results, asked, broken>>

\* the application ends and starts again: its tables and the transport's inbox are left
Restart ==
    /\ broken < MaxBreaks /\ broken' = broken + 1
    /\ handling' = Nobody /\ evaluating' = {} /\ asked' = {}
    /\ queries' = <<>> /\ progress' = Nobody /\ session' = Closed
    /\ posted' = <<>> /\ lookups' = <<>> /\ results' = <<>>
    /\ UNCHANGED <<inbox, requests, banned, contacts, keys, tried>>

-----------------------------------------------------------------------------
(* The specification *)

Init ==
    /\ inbox = Packet /\ handling = Nobody /\ requests = <<>>
    /\ banned = {} /\ contacts = {} /\ keys = {} /\ evaluating = {}
    /\ queries = <<>> /\ progress = Nobody /\ session = Closed
    /\ posted = <<>> /\ lookups = <<>> /\ results = <<>>
    /\ asked = {} /\ broken = 0 /\ tried = 0

ClientStep == OnConnect \/ OnDisconnect \/ AttemptEnds \/ \E i \in DOMAIN lookups : LookupEnds(i)
LoopStep == MarkSeen \/ OnQueryEvent

Next ==
    \/ ClientStep \/ LoseSession \/ LoopStep \/ EmitPendingRequests \/ Restart
    \/ \E p \in Packet : OnPacket(p)
    \/ \E row \in Row : \/ EvaluatePending(row) \/ TryEvaluateRequest(row)
                        \/ BanSender(row) \/ AcceptContactRequest(row) \/ Refuse(row)

\* the io threads and the event loop run
Fairness ==
    /\ WF_requestVars(ClientStep)
    /\ WF_requestVars(LoopStep)

Spec == Init /\ [][Next]_requestVars /\ Fairness

-----------------------------------------------------------------------------
(* Properties *)

\* Every variable has its type, and what is queued, looked up or answered is about a row.
TypeOK ==
    /\ inbox \subseteq Packet /\ handling \in Packet \cup {Nobody} /\ keys \subseteq Registered
    /\ requests \in Seq([of : Packet, state : State])
    /\ evaluating \subseteq Row /\ asked \subseteq Row
    /\ queries \in Seq([row : Nat, of : Packet])
    /\ \A i \in DOMAIN queries : queries[i].row \in Row /\ queries[i].of = requests[queries[i].row].of
    /\ results \in Seq([row : Nat, outcome : Registered \cup {"none", "error"}])
    /\ \A i \in DOMAIN results : results[i].row \in Row
    /\ lookups \in Seq([of : Packet, live : BOOLEAN])
    /\ DOMAIN session = {"state", "server"} /\ session.state \in {"closed", "connecting", "connected"}

\* A request is called authentic only with a signature that holds and a key its sender's server has.
OnlyAuthentic ==
    \A row \in Row : requests[row].state = "succeeded" => requests[row].of \in Registered \ Forged

\* Requests that were evaluated are decided in the same run of the application, past servers that
\* are down, lost sessions and answers that come late: the key is found, missing or could not be
\* asked for. Only authentic ones are called so, whichever lookup the answer was taken for
\* (emit_result gives an answer to the oldest query; async_key_query::on_disconnect,
\* do_verify_data).
RequestsDecided ==
    /\ []<>(\A row \in asked : requests[row].state # "waiting")
    /\ []OnlyAuthentic
=============================================================================
