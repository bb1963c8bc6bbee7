--------------------------- MODULE ChatConnection ---------------------------
(***************************************************************************)
(* A chat application's connection to its home server and the replicas of  *)
(* it: chat_connection with its rotation, reconnect timer and waiting      *)
(* actions, the network connection below it with the storages attached to  *)
(* the session, and the creation of chats over that session.               *)
(*                                                                         *)
(* The network runs on io threads and only emits events; what handles them *)
(* and the application's calls run on the event loop. Of the delays only   *)
(* this is left: the reconnect delay doubles until it outlasts an attempt, *)
(* which ends with its timeout.                                            *)
(***************************************************************************)
EXTENDS Integers, Sequences

CONSTANTS
    Endpoints,   \* number of servers in the rotation
    Reachable,   \* the ones that accept a connection
    Chat,
    Invited,     \* the chats others have made and invite to
    Waiter,      \* the actions given to when_connected
    MaxCalls,    \* calls of connect, disconnect and restarts
    MaxDrops,    \* sessions and attempts lost
    ShortDelays  \* reconnect delays in a row that are shorter than an attempt may take

VARIABLES
    net,        \* the encrypted connection: state, server, hello_done, comms still to be told
    events,     \* what was emitted to the event loop
    stopped, pending, timer, delay, next, last, waiting,
    opened,     \* the channels of the connection
    attached,   \* the comms attached to the session
    told,       \* the comms that were told they are connected
    listed,     \* the channel list
    creating,   \* create_storage calls on their way
    storages,   \* the storages there are on the servers
    callsMade, dropped

chatVars == <<net, events, stopped, pending, timer, delay, next, last, waiting, opened, attached, told, listed,
              creating, storages, callsMade, dropped>>
storageVars == <<opened, attached, listed, creating, storages>>
loopVars == <<stopped, pending, timer, delay, next, last, waiting>>

Endpoint == 0..Endpoints - 1
Up == net.state = "connected" /\ net.hello /\ ~net.telling

-----------------------------------------------------------------------------
(* network_connection *)

\* network_connection_impl::on_disconnected: hello_done stays as it was
OnDisconnected ==
    /\ net' = [net EXCEPT !.state = "not_connected"]
    /\ events' = Append(events, [is |-> "disconnect"])
    /\ told' = {}

\* the connection is there: hello_done is cleared, client_hello is sent
OnConnected ==
    /\ net.state = "connecting" /\ net.server \in Reachable
    /\ net' = [net EXCEPT !.state = "connected", !.hello = FALSE]
    /\ UNCHANGED <<events, told, loopVars, storageVars, callsMade, dropped>>

\* handle(server_hello): hello_done and the event first
HelloDone ==
    /\ net.state = "connected" /\ ~net.hello
    /\ net' = [net EXCEPT !.hello = TRUE, !.telling = TRUE]
    /\ events' = Append(events, [is |-> "connect"])
    /\ UNCHANGED <<told, loopVars, storageVars, callsMade, dropped>>

\* and then, without the lock, the comms that are attached by now
TellComms ==
    /\ net.telling
    /\ net' = [net EXCEPT !.telling = FALSE]
    /\ told' = told \cup attached
    /\ UNCHANGED <<events, loopVars, storageVars, callsMade, dropped>>

\* the server cannot be reached
AttemptFails ==
    /\ net.state = "connecting" /\ net.server \notin Reachable
    /\ OnDisconnected
    /\ UNCHANGED <<loopVars, storageVars, callsMade, dropped>>

\* an attempt or a session is lost, with what was on its way
Lose ==
    /\ net.state # "not_connected" /\ ~net.telling /\ dropped < MaxDrops
    /\ dropped' = dropped + 1
    /\ OnDisconnected
    /\ creating' = [c \in Chat |-> "no"]
    /\ UNCHANGED <<loopVars, opened, attached, listed, storages, callsMade>>

\* Mutant of Attach: a storage attached to a session that is up waits for the next one
MAttach(c) == attached' = attached \cup {c} /\ UNCHANGED told

\* network_connection::create_storage_connection and attach
Attach(c) ==
    /\ attached' = attached \cup {c}
    /\ told' = IF net.hello THEN told \cup {c} ELSE told

-----------------------------------------------------------------------------
(* chat_connection: the rotation *)

\* Mutant of Rotate: a failed attempt goes to the same server again
MRotate(server) == server

\* the next attempt goes to the next replica
Rotate(server) == (server + 1) % Endpoints

\* the reconnect timer is set, and the next delay is the double of this one
SetTimer(wanted) ==
    IF wanted
    THEN /\ timer' = IF delay < ShortDelays THEN "short" ELSE "long"
         /\ delay' = IF delay < ShortDelays THEN delay + 1 ELSE delay
    ELSE UNCHANGED <<timer, delay>>

\* on_disconnect
Disconnected ==
    /\ pending' = FALSE
    /\ next' = Rotate(last)
    /\ SetTimer(~stopped /\ timer = "none")
    /\ waiting' = IF stopped THEN {} ELSE waiting

\* connect while no attempt is in flight; a connection in another state refuses
StartAttempt ==
    /\ last' = next
    /\ pending' = (net.state = "not_connected")
    /\ net' = IF net.state = "not_connected"
              THEN [net EXCEPT !.state = "connecting", !.server = next] ELSE net

\* connect(), called by the application
Connect ==
    /\ callsMade < MaxCalls
    /\ callsMade' = callsMade + 1
    /\ stopped' = FALSE
    /\ \/ pending /\ UNCHANGED <<pending, last, net>>
       \/ ~pending /\ StartAttempt
    /\ UNCHANGED <<events, told, timer, delay, next, waiting, storageVars, dropped>>

\* the timer runs out; its event takes its turn on the loop
TimerFires ==
    /\ timer = "short" \/ (timer = "long" /\ net.state # "connecting")
    /\ timer' = "fired"
    /\ events' = Append(events, [is |-> "timer"])
    /\ UNCHANGED <<net, told, stopped, pending, delay, next, last, waiting, storageVars, callsMade, dropped>>

\* on_timer: an attempt, or another wait when the connection is busy with an earlier one; the
\* event of a timer that was stopped is nobody's
OnTimer ==
    \/ timer # "fired" /\ UNCHANGED <<timer, delay, pending, last, net, next>>
    \/ timer = "fired" /\ pending /\ timer' = "none" /\ UNCHANGED <<delay, pending, last, net, next>>
    \/ /\ timer = "fired" /\ ~pending /\ net.state # "connecting"
       /\ StartAttempt
       /\ timer' = "none" /\ UNCHANGED <<delay, next>>
    \/ /\ timer = "fired" /\ ~pending /\ net.state = "connecting"
       /\ last' = next /\ next' = Rotate(next)
       /\ SetTimer(TRUE) /\ UNCHANGED <<pending, net>>

\* stop: closing waits for the connection's handlers, and emits its event in any state
Disconnect ==
    /\ callsMade < MaxCalls /\ ~net.telling
    /\ callsMade' = callsMade + 1
    /\ stopped' = TRUE /\ timer' = "none" /\ waiting' = {}
    /\ OnDisconnected
    /\ creating' = [c \in Chat |-> "no"]
    /\ UNCHANGED <<pending, delay, next, last, opened, attached, listed, storages, dropped>>

\* when_connected, by an application that has called connect
WhenConnected(w) ==
    /\ w \notin waiting /\ net.state # "connected" /\ ~stopped
    /\ waiting' = waiting \cup {w}
    /\ UNCHANGED <<net, events, told, stopped, pending, timer, delay, next, last, storageVars, callsMade, dropped>>

-----------------------------------------------------------------------------
(* chat_connection: its chats *)

\* Mutant of RecordChat: a chat is recorded when its creation is asked for
MRecordChat(made) == listed' = listed \cup opened'

\* channel_list::add
RecordChat(made) == listed' = listed \cup made

\* create_chat and network_connection::create_storage
CreateChat(c) ==
    /\ net.state = "connected" /\ c \notin opened \cup storages /\ creating[c] = "no"
    /\ opened' = opened \cup {c}
    /\ creating' = [creating EXCEPT ![c] = "asked"]
    /\ RecordChat({})
    /\ UNCHANGED <<net, events, told, loopVars, attached, storages, callsMade, dropped>>

\* the server makes the storage, or refuses
ServeCreate(c, made) ==
    /\ creating[c] = "asked"
    /\ creating' = [creating EXCEPT ![c] = IF made THEN "made" ELSE "refused"]
    /\ storages' = IF made THEN storages \cup {c} ELSE storages
    /\ UNCHANGED <<net, events, told, loopVars, opened, attached, listed, callsMade, dropped>>

\* handle(create_storage_reply)
CreateReply(c) ==
    /\ creating[c] \in {"made", "refused"}
    /\ creating' = [creating EXCEPT ![c] = "no"]
    /\ events' = Append(events, [is |-> "created", chat |-> c, ok |-> creating[c] = "made"])
    /\ UNCHANGED <<net, told, loopVars, opened, attached, listed, storages, callsMade, dropped>>

\* on_create_storage: initialised and recorded once it is there; nothing is left of it when the
\* server refused or the initialisation throws
OnCreateStorage(c, ok) ==
    IF ok /\ c \in opened
    THEN UNCHANGED opened /\ Attach(c) /\ RecordChat({c})
    ELSE opened' = opened \ {c} /\ UNCHANGED <<attached, told, listed>>

\* join_to_storage of a chat somebody else has made, or connect_to_storage of one in the list
Join(c) ==
    /\ c \in Invited \cup listed /\ c \notin opened
    /\ opened' = opened \cup {c}
    /\ RecordChat({c})
    /\ Attach(c)
    /\ UNCHANGED <<net, events, loopVars, creating, storages, callsMade, dropped>>

\* the next event on the loop
OnEvent ==
    /\ events # <<>>
    /\ events' = Tail(events)
    /\ LET e == Head(events)
       IN \/ /\ e.is = "connect"
             /\ pending' = FALSE /\ waiting' = {} /\ delay' = 0
             /\ UNCHANGED <<net, stopped, timer, next, last, told, opened, attached, listed>>
          \/ /\ e.is = "disconnect"
             /\ Disconnected
             /\ UNCHANGED <<net, stopped, last, told, opened, attached, listed>>
          \/ /\ e.is = "timer"
             /\ OnTimer
             /\ UNCHANGED <<stopped, waiting, told, opened, attached, listed>>
          \/ /\ e.is = "created"
             /\ \E works \in BOOLEAN : OnCreateStorage(e.chat, e.ok /\ works)
             /\ UNCHANGED <<net, loopVars>>
    /\ UNCHANGED <<creating, storages, callsMade, dropped>>

\* the application ends and starts again: the channel list is what is left
Restart ==
    /\ callsMade < MaxCalls /\ ~net.telling
    /\ callsMade' = callsMade + 1
    /\ net' = [state |-> "not_connected", server |-> 0, hello |-> FALSE, telling |-> FALSE]
    /\ events' = <<>> /\ stopped' = TRUE /\ pending' = FALSE /\ timer' = "none"
    /\ next' = 0 /\ last' = 0 /\ delay' = 0 /\ waiting' = {}
    /\ opened' = {} /\ attached' = {} /\ told' = {} /\ creating' = [c \in Chat |-> "no"]
    /\ UNCHANGED <<listed, storages, dropped>>

-----------------------------------------------------------------------------
(* The specification *)

Init ==
    /\ net = [state |-> "not_connected", server |-> 0, hello |-> FALSE, telling |-> FALSE]
    /\ events = <<>> /\ stopped = TRUE /\ pending = FALSE /\ timer = "none"
    /\ next = 0 /\ last = 0 /\ delay = 0 /\ waiting = {}
    /\ opened = {} /\ attached = {} /\ told = {} /\ listed = {} /\ storages = Invited
    /\ creating = [c \in Chat |-> "no"]
    /\ callsMade = 0 /\ dropped = 0

NetStep == OnConnected \/ HelloDone \/ TellComms \/ AttemptFails

Next ==
    \/ NetStep \/ Lose
    \/ Connect \/ Disconnect \/ Restart \/ TimerFires \/ OnEvent
    \/ \E w \in Waiter : WhenConnected(w)
    \/ \E c \in Chat : \/ CreateChat(c) \/ CreateReply(c) \/ Join(c)
                       \/ \E made \in BOOLEAN : ServeCreate(c, made)

\* the io threads, the event loop and its timers run
Fairness ==
    /\ WF_chatVars(NetStep)
    /\ WF_chatVars(OnEvent)
    /\ WF_chatVars(TimerFires)

Spec == Init /\ [][Next]_chatVars /\ Fairness

-----------------------------------------------------------------------------
(* Properties *)

\* Every variable has its type.
TypeOK ==
    /\ net \in [state : {"not_connected", "connecting", "connected"}, server : Endpoint,
                hello : BOOLEAN, telling : BOOLEAN]
    /\ next \in Endpoint /\ last \in Endpoint
    /\ timer \in {"none", "short", "long", "fired"} /\ delay \in 0..ShortDelays /\ waiting \subseteq Waiter
    /\ attached \subseteq opened /\ told \subseteq attached
    /\ creating \in [Chat -> {"no", "asked", "made", "refused"}]

\* Every storage attached to a session that is up was told so, whether it was attached before
\* the hello, between it and the round over the comms, or later (attach, handle(server_hello)).
AttachedAreTold == Up => attached \subseteq told

\* A chat in the channel list is on the server: a creation that failed, or whose answer was
\* lost with the session, leaves no phantom chat behind (on_create_storage).
ListedChatsExist == listed \subseteq storages

\* Unless it is stopped the connection comes up again, past servers that cannot be reached,
\* lost sessions and events of attempts that are over, and the actions that wait for the session
\* are run or told that it was stopped (chat_connection.hpp: "reconnects by itself ... until
\* disconnect() is called", "Run the action once the session is up").
ComesBack == []<>((stopped \/ Up) /\ waiting = {})
=============================================================================
