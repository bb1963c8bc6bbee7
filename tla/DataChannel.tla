---------------------------- MODULE DataChannel ----------------------------
(***************************************************************************)
(* net_data_channel and the tickets of comm: an opening asks the record    *)
(* server for a grant, then tries the holders the grant names one after    *)
(* the other over connections shared by all transfers; the pieces go where *)
(* the opening was taken. A step is what runs under one lock; answers,     *)
(* timers and the end of a connection come from any thread.                *)
(***************************************************************************)
EXTENDS Naturals, Sequences

CONSTANTS
    Opening,     \* the openings made, each for a data of its own
    Server,      \* data servers
    Grants,      \* holder lists the record server may grant
    MaxLosses    \* bound: losses of the record connection and the end of the channel, together

VARIABLES
    recordLink,  \* comm: "up", "down", or how far the loss is handled
    losses,
    alive,       \* the channel object exists (weak pointers to it lock)
    tickets,     \* comm::ticket_requests_: openings whose ticket is asked for
    att,         \* the attempt of every opening
    links,       \* the data connections made, by the opening and the holder they were made for
    slot,        \* links_: the connection kept for a server
    route,       \* uploads_, downloads_: the connection the pieces of a data go to
    made,        \* calls made
    times        \* how often the callback of each was called

ticketVars == <<recordLink, losses, tickets>>
linkVars == <<links, slot, route>>
callVars == <<made, times>>
channelVars == <<alive, ticketVars, att, linkVars, callVars>>

Call == Opening \X {"open", "piece"}
NoLink == <<>>

\* what came of a call: a holder took it, refused it for good, or refused it so that another holder
\* may take it (is_full, is_not_held); the transport failed; the channel was closed
Verdict == {"ok", "refused", "next", "transport", "closed"}

\* attempt: its ticket has come and is being handled ("arrived"), it has a link and did not post
\* its call yet ("post"), the call is out ("out"), its reply is being handled ("verdict")
Attempt == [phase : {"idle", "ticket", "arrived", "post", "out", "verdict", "over"},
            answered : BOOLEAN, grant : Grants \cup {<<>>}, holder : Nat, verdict : Verdict,
            link : (Opening \X Nat) \cup {NoLink}]
Link == [server : Server, phase : {"connecting", "ready", "dead"}, closing : BOOLEAN,
         calls : SUBSET Call]

NewAttempt == [phase |-> "idle", answered |-> FALSE, grant |-> <<>>, holder |-> 0, verdict |-> "refused",
               link |-> NoLink]
\* the callback was called: what the attempt held is let go
Over == [NewAttempt EXCEPT !.phase = "over", !.answered = TRUE]
End(a) ==
    /\ att' = [att EXCEPT ![a] = Over]
    /\ times' = [times EXCEPT ![<<a, "open">>] = @ + 1]

Live(l) == l # NoLink /\ links[l].phase # "dead"

-----------------------------------------------------------------------------
(* The tickets *)

\* comm::tickets: without the record connection the answer is given here
AskTicket(a, t) ==
    IF recordLink = "up"
    THEN /\ tickets' = tickets \cup {a}
         /\ att' = [att EXCEPT ![a] = t]
         /\ UNCHANGED times
    ELSE /\ End(a)
         /\ UNCHANGED tickets

\* open_transfer: the wait for the ticket is armed, then the ticket is asked for
OpenTransfer(a) ==
    /\ alive
    /\ <<a, "open">> \notin made
    /\ made' = made \cup {<<a, "open">>}
    /\ AskTicket(a, [att[a] EXCEPT !.phase = "ticket"])
    /\ UNCHANGED <<alive, recordLink, losses, linkVars>>

\* what the record server answers a ticket request with
Ticket == [grant : Grants, verdict : {"ok"}] \cup [grant : {<<>>}, verdict : {"refused"}]

\* comm takes the callback of a ticket that is answered (comm::handle(response_data_ticket))
TicketAnswered(a) ==
    /\ recordLink = "up"
    /\ a \in tickets
    /\ tickets' = tickets \ {a}
    /\ IF att[a].phase # "ticket" THEN UNCHANGED att
       ELSE \E t \in Ticket : att' = [att EXCEPT ![a].phase = "arrived", ![a].grant = t.grant,
                                                 ![a].verdict = t.verdict]
    /\ UNCHANGED <<alive, recordLink, losses, linkVars, callVars>>

\* first_answer, from the wait for the ticket
WaitExpires(a) ==
    /\ att[a].phase \in {"ticket", "arrived"}
    /\ ~att[a].answered
    /\ End(a)
    /\ UNCHANGED <<alive, ticketVars, linkVars, made>>

-----------------------------------------------------------------------------
(* The holders *)

\* acquire_link: the live connection kept for the server, or a new one
Reused(s) == Live(slot[s])

\* try_holder: no holder is left, or the connection to the next one is taken
TryHolder(a, t) ==
    IF t.holder > Len(t.grant)
    THEN End(a) /\ UNCHANGED <<links, slot>>
    ELSE LET s == t.grant[t.holder]
             l == IF Reused(s) THEN slot[s] ELSE <<a, t.holder>>
         IN  /\ att' = [att EXCEPT ![a] = [t EXCEPT !.phase = "post", !.link = l]]
             /\ slot' = [slot EXCEPT ![s] = l]
             /\ links' = IF Reused(s) THEN links
                         ELSE [x \in DOMAIN links \cup {l} |->
                                 IF x = l THEN [server |-> s, phase |-> "connecting",
                                                closing |-> FALSE, calls |-> {}]
                                 ELSE links[x]]
             /\ UNCHANGED times

\* the callback of the ticket: the first to answer goes on
TakeTicket(a) ==
    /\ att[a].phase = "arrived"
    /\ LET t == [att[a] EXCEPT !.answered = TRUE, !.holder = 1]
       IN  IF ~alive \/ t.verdict # "ok"
           THEN End(a) /\ UNCHANGED <<links, slot>>
           ELSE TryHolder(a, t)
    /\ UNCHANGED <<alive, ticketVars, route, made>>

\* data_link::post: out on a live link, answered at once on a dead one
Post(a) ==
    /\ att[a].phase = "post"
    /\ LET l == att[a].link
       IN  IF Live(l)
           THEN /\ links' = [links EXCEPT ![l].calls = @ \cup {<<a, "open">>}]
                /\ att' = [att EXCEPT ![a].phase = "out"]
           ELSE /\ att' = [att EXCEPT ![a].phase = "verdict", ![a].verdict = "transport"]
                /\ UNCHANGED links
    /\ UNCHANGED <<alive, ticketVars, slot, route, callVars>>

\* the reply of a holder, or the end of the link, in the opening's callback
HandleVerdict(a) ==
    /\ att[a].phase = "verdict"
    /\ LET t == att[a]
       IN  \/ /\ alive /\ t.verdict = "ok"
              /\ route' = [route EXCEPT ![a] = t.link]
              /\ End(a)
              /\ UNCHANGED <<links, slot>>
           \/ /\ alive /\ t.verdict \in {"transport", "next"}
              /\ TryHolder(a, [t EXCEPT !.holder = @ + 1])
              /\ UNCHANGED route
           \/ /\ ~alive \/ t.verdict \in {"refused", "closed"}
              /\ End(a)
              /\ UNCHANGED linkVars
    /\ UNCHANGED <<alive, ticketVars, made>>

\* send_piece, fetch_piece: without a route the answer is given here
MovePiece(a) ==
    /\ alive
    /\ <<a, "open">> \in made
    /\ <<a, "piece">> \notin made
    /\ made' = made \cup {<<a, "piece">>}
    /\ IF Live(route[a])
       THEN links' = [links EXCEPT ![route[a]].calls = @ \cup {<<a, "piece">>}] /\ UNCHANGED times
       ELSE times' = [times EXCEPT ![<<a, "piece">>] = @ + 1] /\ UNCHANGED links
    /\ UNCHANGED <<alive, ticketVars, att, slot, route>>

-----------------------------------------------------------------------------
(* The links *)

\* the openings among the calls get verdict v; the callbacks of the pieces are called
Deliver(calls, v) ==
    /\ att' = [a \in Opening |-> IF <<a, "open">> \in calls
                                 THEN [att[a] EXCEPT !.phase = "verdict", !.verdict = v]
                                 ELSE att[a]]
    /\ times' = [c \in Call |-> IF c \in calls /\ c[2] = "piece" THEN times[c] + 1 ELSE times[c]]

\* connected, authenticated and the hello answered: what waited in the outbox goes
LinkReady(l) ==
    /\ links[l].phase = "connecting"
    /\ links' = [links EXCEPT ![l].phase = "ready"]
    /\ UNCHANGED <<alive, ticketVars, att, slot, route, callVars>>

\* a reply: its call is taken from pending_calls
Reply(l) ==
    /\ links[l].phase = "ready"
    /\ \E c \in links[l].calls, v \in {"ok", "refused", "next"} :
        /\ links' = [links EXCEPT ![l].calls = @ \ {c}]
        /\ Deliver({c}, v)
    /\ UNCHANGED <<alive, ticketVars, slot, route, made>>

\* Mutant of FailAll: the calls of a link that is being closed are let go
MFailAllClosing(l) ==
    /\ links[l].phase # "dead"
    /\ links' = [links EXCEPT ![l].phase = "dead", ![l].closing = FALSE, ![l].calls = {}]
    /\ Deliver(IF links[l].closing THEN {} ELSE links[l].calls, "transport")
    /\ UNCHANGED <<alive, ticketVars, slot, route, made>>
\* fail_all: the connection did not come up, spoke badly, was silent for too long, broke or was
\* closed; the channel's own close is no failure of the holder
FailAll(l) ==
    /\ links[l].phase # "dead"
    /\ links' = [links EXCEPT ![l].phase = "dead", ![l].closing = FALSE, ![l].calls = {}]
    /\ Deliver(links[l].calls, IF links[l].closing THEN "closed" ELSE "transport")
    /\ UNCHANGED <<alive, ticketVars, slot, route, made>>

\* check_silence: only a link with calls out is given up; a close ends in on_disconnected
MustEnd(l) == links[l].phase # "dead" /\ (links[l].closing \/ links[l].calls # {})

-----------------------------------------------------------------------------
(* The record connection, and the end of the channel *)

\* net_data_channel::close: the connections are given up, the calls out end with their links
Close ==
    /\ links' = [l \in DOMAIN links |-> IF Live(l) /\ l \in {slot[s] : s \in Server}
                                        THEN [links[l] EXCEPT !.closing = TRUE] ELSE links[l]]
    /\ slot' = [s \in Server |-> NoLink]
    /\ route' = [a \in Opening |-> NoLink]

RecordLost ==
    /\ recordLink = "up"
    /\ losses < MaxLosses
    /\ losses' = losses + 1
    /\ recordLink' = "closing"
    /\ UNCHANGED <<alive, tickets, att, linkVars, callVars>>
CloseChannel ==
    /\ recordLink = "closing"
    /\ recordLink' = "failing"
    /\ Close
    /\ UNCHANGED <<alive, losses, tickets, att, callVars>>
\* comm::fail_ticket_requests
FailTickets ==
    /\ recordLink = "failing"
    /\ recordLink' = "down"
    /\ att' = [a \in Opening |-> IF a \in tickets /\ att[a].phase = "ticket"
                                 THEN [att[a] EXCEPT !.phase = "arrived", !.verdict = "refused"]
                                 ELSE att[a]]
    /\ tickets' = {}
    /\ UNCHANGED <<alive, losses, linkVars, callVars>>
RecordBack ==
    /\ recordLink = "down"
    /\ recordLink' = "up"
    /\ UNCHANGED <<alive, losses, tickets, att, linkVars, callVars>>

\* the transfers are torn down; the record connection may outlive them
Destroy ==
    /\ alive
    /\ losses < MaxLosses
    /\ losses' = losses + 1
    /\ alive' = FALSE
    /\ Close
    /\ UNCHANGED <<recordLink, tickets, att, callVars>>

Init ==
    /\ recordLink = "up"
    /\ losses = 0
    /\ alive = TRUE
    /\ tickets = {}
    /\ att = [a \in Opening |-> NewAttempt]
    /\ links = [l \in {} |-> <<>>]
    /\ slot = [s \in Server |-> NoLink]
    /\ route = [a \in Opening |-> NoLink]
    /\ made = {}
    /\ times = [c \in Call |-> 0]

AttemptStep(a) == TakeTicket(a) \/ Post(a) \/ HandleVerdict(a) \/ WaitExpires(a)
LossStep == CloseChannel \/ FailTickets \/ RecordBack

Next ==
    \/ \E a \in Opening : OpenTransfer(a) \/ TicketAnswered(a) \/ AttemptStep(a) \/ MovePiece(a)
    \/ \E l \in DOMAIN links : LinkReady(l) \/ Reply(l) \/ FailAll(l)
    \/ RecordLost \/ LossStep
    \/ Destroy

\* the wait for a ticket runs out, callbacks run, a link that must end ends
Fairness ==
    /\ \A a \in Opening : WF_channelVars(AttemptStep(a))
    /\ WF_channelVars(\E l \in DOMAIN links : MustEnd(l) /\ FailAll(l))

Spec == Init /\ [][Next]_channelVars /\ Fairness

-----------------------------------------------------------------------------
(* Properties *)

\* Types, and: no call is forgotten, one that is out waits on a live link.
TypeOK ==
    /\ recordLink \in {"up", "closing", "failing", "down"} /\ alive \in BOOLEAN
    /\ tickets \subseteq Opening
    /\ att \in [Opening -> Attempt]
    /\ links \in [DOMAIN links -> Link] /\ DOMAIN links \subseteq Opening \X Nat
    /\ slot \in [Server -> DOMAIN links \cup {NoLink}] /\ route \in [Opening -> DOMAIN links \cup {NoLink}]
    /\ made \subseteq Call /\ times \in [Call -> Nat]
    /\ \A a \in Opening : att[a].phase = "out" => Live(att[a].link) /\ <<a, "open">> \in links[att[a].link].calls
    /\ \A a \in Opening : <<a, "piece">> \in made /\ times[<<a, "piece">>] = 0 =>
                            \E l \in DOMAIN links : Live(l) /\ <<a, "piece">> \in links[l].calls

\* The channel implements CallService (data_channel.hpp: every call is answered exactly once): a
\* ticket that races its timeout, a holder that goes down, a link that dies between being taken and
\* being used, a close and the end of the channel never lose an answer or give two.
Service == INSTANCE CallService
AnswersEveryCall == Service!Spec
=============================================================================
