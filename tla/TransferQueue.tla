--------------------------- MODULE TransferQueue ---------------------------
(***************************************************************************)
(* The record data transfers of a storage connection in one direction:     *)
(* comm's table of running transfers, net_data_transfers, the transfer     *)
(* queue with its window and its action pump, data_uploader or             *)
(* data_downloader, and the retries. The data channel is what it promises: *)
(* every call is answered once, the pieces of a transfer in order.         *)
(*                                                                         *)
(* A step is what runs under one lock. Rounds run on any of the io threads *)
(* (Thread), answers and timers come on their own, and the loss of the     *)
(* record connection is handled in the steps comm and net_data_transfers   *)
(* take without a common lock.                                             *)
(***************************************************************************)
EXTENDS Integers, Sequences, FiniteSets, Functions, SequencesExt

CONSTANTS
    Data,        \* data ids
    Thread,      \* io threads that run rounds
    Chunks,      \* chunks of a data
    Pieces,      \* pieces of a chunk
    MaxDatas,    \* transfer_config::max_datas
    Window,      \* transfer_config::window
    MaxFails,    \* bound: failing answers and failing reads of the store
    MaxLoad      \* bound: data asked for and losses of the record connection, together

VARIABLES
    dir,         \* "up" or "down": the queue modelled
    link,        \* "up", "down", or how far the loss of the connection is handled
    running,     \* comm: the data asked for and not reported
    queue,       \* data waiting, in order
    active,      \* transfer of every data on its way
    notes,       \* callbacks owed: what the transfer of a data ended with
    gen,         \* generation of the queue
    posted,      \* a round is queued on the io context
    pump,        \* action_pump: a runner is at work, another round was asked for
    task,        \* what an io thread is doing
    acts,        \* the actions of its round it still has to run: calls, and after them callbacks
    calls,       \* calls into the channel without an answer
    waits,       \* transfer_retry: data with a pending wait
    timers,      \* its timers, armed or already expired and waiting for the lock
    rgen,        \* generation of the waits
    retrying,    \* retries that are due, on their way to the queue
    turn,        \* which of two consecutive transfers of a data is the current one
    asked,       \* data asked for so far
    fails, cuts  \* failures and connection losses so far

queueVars == <<queue, active, notes, gen>>
pumpVars == <<posted, pump, task, acts>>
retryVars == <<waits, timers, rgen, retrying>>
vars == <<dir, link, running, queueVars, pumpVars, calls, retryVars, turn, asked, fails, cuts>>

-----------------------------------------------------------------------------
(* State *)

Piece == (1..Chunks) \X (1..Pieces)
NoPiece == <<0, 0>>

\* the errors retryable_transfer_error tells apart; "misplaced" is a piece that is not the next
\* of its chunk
Failure == {"retryable", "final", "not_held", "misplaced"}

\* transfer_state, and what a download adds to it; the cursor is the set of the pieces still to move
Transfer == [cursor : SUBSET Piece, failure : Failure \cup {"none"}, outstanding : 0..Window,
             opened : BOOLEAN, incomplete : BOOLEAN, received : 0..Pieces, turn : {0, 1}]
NoTransfers == [d \in {} |-> <<>>]
Active == DOMAIN active
Without(d) == [x \in Active \ {d} |-> active[x]]

NewTransfer(n) ==
    [cursor |-> {}, failure |-> "none", outstanding |-> 0, opened |-> FALSE,
     incomplete |-> FALSE, received |-> 0, turn |-> n]

\* piece_cursor: the pieces of the chunks added, and the order they are moved in
PiecesOf(chunks) == chunks \X (1..Pieces)
Before(p, q) == p[1] < q[1] \/ (p[1] = q[1] /\ p[2] < q[2])

NoActions == [calls |-> {}, dones |-> <<>>]

-----------------------------------------------------------------------------
(* The queue *)

\* transfer_queue::enqueue: a data that waits or is on its way is not queued again
Enqueue(d) ==
    IF d \in Active \/ \E i \in DOMAIN queue : queue[i] = d
    THEN UNCHANGED <<queue, posted>>
    ELSE queue' = Append(queue, d) /\ posted' = TRUE

\* Mutant of Forget: the generation stays
MForgetGeneration ==
    /\ queue' = <<>>
    /\ active' = NoTransfers
    /\ notes' = <<>>
    /\ UNCHANGED gen
\* transfer_queue::forget
Forget ==
    /\ gen' = gen + 1
    /\ queue' = <<>>
    /\ active' = NoTransfers
    /\ notes' = <<>>

\* what a transfer ends with: data_downloader::outcome
Outcome(t) == IF t.failure = "none" /\ t.incomplete THEN "not_held" ELSE t.failure

\* finish_if_done
Done(t) == t.outstanding = 0 /\ (t.failure # "none" \/ (t.opened /\ t.cursor = {}))

Note(d, err) == [d |-> d, err |-> err]
Call(kind, d, p, n) == [kind |-> kind, d |-> d, piece |-> p, gen |-> gen, turn |-> n]

\* start_queued: there is room for one more when the first n data were taken from the queue, those
\* gone from the store passed over; and n is where that ends
Room(n, gone) == Cardinality(Active) + Cardinality({i \in 1..n : queue[i] \notin gone}) < MaxDatas
Taken(n, gone) ==
    /\ gone \subseteq {queue[i] : i \in 1..n}
    /\ n = 0 \/ Room(n - 1, gone)
    /\ n = Len(queue) \/ ~Room(n, gone)

\* Mutant of Sendable: the pieces on their way are not counted
MSendableAll(t) == IF t.opened /\ t.failure = "none" THEN t.cursor ELSE {}
\* fill_window: the first pieces of the cursor that the window has room for
Sendable(t) ==
    {p \in t.cursor : /\ t.opened /\ t.failure = "none"
                      /\ Cardinality({q \in t.cursor : Before(q, p)}) < Window - t.outstanding}
\* fill_window and begin_chunk: those before the first of the chunks that cannot be received
Sent(t, stuck) ==
    {p \in Sendable(t) :
        ~\E q \in Sendable(t) : q[2] = 1 /\ q[1] \in stuck /\ (q = p \/ Before(q, p))}
Filled(t, stuck) ==
    [t EXCEPT !.cursor = @ \ Sent(t, stuck),
              !.outstanding = @ + Cardinality(Sent(t, stuck)),
              !.failure = IF Sent(t, stuck) # Sendable(t) THEN "retryable" ELSE @]

\* the chunks of a transfer at which filling its window stops, when they cannot be received
Stops(t) == {k \in 1..Chunks : <<k, 1>> \in Sendable(t)}

\* transfer_queue::collect, when the first n data are taken from the queue, those gone from the store
\* are refused and the chunks stuck cannot be received: openings and pieces, then the callbacks
\* owed, those of the data that are not here and those of the transfers that end here
Round(t, n, gone, stuck) ==
    LET started == {queue[i] : i \in 1..n} \ gone
        begun == [d \in Active \cup started |->
                    IF d \in started THEN NewTransfer(1 - turn[d]) ELSE active[d]]
        stop(d) == IF d \in Active THEN stuck[d] ELSE {}
        filled == [d \in DOMAIN begun |-> Filled(begun[d], stop(d))]
        ended == {d \in DOMAIN begun : Done(filled[d])}
        failing == {d \in Active : stuck[d] # {}}
        opens == {Call("open", d, NoPiece, 1 - turn[d]) : d \in started}
        sends == UNION {{Call("piece", d, p, begun[d].turn) : p \in Sent(begun[d], stop(d))} :
                        d \in DOMAIN begun}
    IN  /\ fails' = fails + Cardinality(gone) + Cardinality(failing)
        /\ fails' <= MaxFails
        /\ queue' = SubSeq(queue, n + 1, Len(queue))
        /\ active' = [d \in DOMAIN begun \ ended |-> filled[d]]
        /\ turn' = [d \in Data |-> IF d \in started THEN 1 - turn[d] ELSE turn[d]]
        /\ \E refused \in SetToSeqs({Note(d, "final") : d \in gone}),
              ends \in SetToSeqs({Note(d, Outcome(filled[d])) : d \in ended}) :
              acts' = [acts EXCEPT ![t] = [calls |-> opens \cup sends,
                                           dones |-> notes \o refused \o ends]]
        /\ notes' = <<>>

Collect(t) ==
    /\ \E n \in 0..Len(queue), gone \in SUBSET Range(queue), stuck \in [Active -> SUBSET (1..Chunks)] :
        /\ Taken(n, gone)
        /\ \A d \in Active : stuck[d] = {} \/ \E k \in Stops(active[d]) : dir = "down" /\ stuck[d] = {k}
        /\ Round(t, n, gone, stuck)
    /\ task' = [task EXCEPT ![t] = "run"]
    /\ UNCHANGED <<dir, link, running, gen, calls, retryVars, asked, cuts>>

-----------------------------------------------------------------------------
(* The pump: one runner at a time, anybody else flags another round *)

\* Mutant of Enter: whoever comes runs a round
MEnterAlways(t) ==
    /\ posted
    /\ task[t] = "idle"
    /\ posted' = FALSE
    /\ pump' = [pump EXCEPT !.running = TRUE]
    /\ Collect(t)
\* run_rounds: the one who enters the pump collects the actions of a round
Enter(t) ==
    /\ posted
    /\ task[t] = "idle"
    /\ posted' = FALSE
    /\ IF pump.running
       THEN /\ pump' = [pump EXCEPT !.again = TRUE]
            /\ UNCHANGED <<dir, link, running, queueVars, task, acts, calls, retryVars, turn, asked, fails, cuts>>
       ELSE pump' = [pump EXCEPT !.running = TRUE] /\ Collect(t)

\* Mutant of Again: the flag of another round is lost
MAgainLost(t) ==
    /\ task[t] = "run"
    /\ acts[t] = NoActions
    /\ pump' = [running |-> FALSE, again |-> FALSE]
    /\ task' = [task EXCEPT ![t] = "idle"]
    /\ UNCHANGED <<dir, link, running, queueVars, posted, acts, calls, retryVars, turn, asked, fails, cuts>>
\* action_pump::again
Again(t) ==
    /\ task[t] = "run"
    /\ acts[t] = NoActions
    /\ pump' = [running |-> pump.again, again |-> FALSE]
    /\ UNCHANGED posted
    /\ IF pump.again THEN Collect(t)
       ELSE /\ task' = [task EXCEPT ![t] = "idle"]
            /\ UNCHANGED <<dir, link, running, queueVars, acts, calls, retryVars, turn, asked, fails, cuts>>

\* the next actions of the round are calls into the channel (open_action, send_action, fetch_action)
RunCalls(t) ==
    /\ task[t] = "run"
    /\ acts[t].calls # {}
    /\ calls' = calls \cup acts[t].calls
    /\ acts' = [acts EXCEPT ![t].calls = {}]
    /\ UNCHANGED <<dir, link, running, queueVars, posted, pump, task, retryVars, turn, asked, fails, cuts>>

-----------------------------------------------------------------------------
(* The end of a transfer: net_data_transfers *)

\* retryable_transfer_error
Retryable(err) == err = "retryable"

\* retried reads whether the record connection is up, and lets the lock go
RunDone(t) ==
    /\ task[t] = "run"
    /\ acts[t].calls = {} /\ acts[t].dones # <<>>
    /\ task' = [task EXCEPT ![t] = IF link = "up" THEN "done_up" ELSE "done_down"]
    /\ UNCHANGED <<dir, link, running, queueVars, posted, pump, acts, calls, retryVars, turn, asked, fails, cuts>>

\* transfer_retry::schedule and forget
Schedule(d) ==
    /\ waits' = waits \cup {d}
    /\ timers' = {w \in timers : w.d # d \/ w.expired} \cup {[d |-> d, gen |-> rgen, expired |-> FALSE]}
ForgetWait(d) ==
    /\ waits' = waits \ {d}
    /\ timers' = {w \in timers : w.d # d \/ w.expired}

\* on_upload_done, on_download_done: another try, or the report (comm::end_transfer)
FinishDone(t) ==
    /\ task[t] \in {"done_up", "done_down"}
    /\ LET a == Head(acts[t].dones)
       IN  IF task[t] = "done_up" /\ Retryable(a.err)
           THEN Schedule(a.d) /\ UNCHANGED running
           ELSE ForgetWait(a.d) /\ running' = running \ {a.d}
    /\ acts' = [acts EXCEPT ![t].dones = Tail(@)]
    /\ task' = [task EXCEPT ![t] = "run"]
    /\ UNCHANGED <<dir, link, queueVars, posted, pump, calls, rgen, retrying, turn, asked, fails, cuts>>

-----------------------------------------------------------------------------
(* The retries: transfer_retry *)

\* the timer expired: its handler waits for the lock and is not cancelled any more
Expire(w) ==
    /\ ~w.expired
    /\ timers' = (timers \ {w}) \cup {[w EXCEPT !.expired = TRUE]}
    /\ UNCHANGED <<dir, link, running, queueVars, pumpVars, calls, waits, rgen, retrying, turn, asked, fails, cuts>>

\* fire: the retry is due when the wait still stands
FireDue(w) == w.gen = rgen /\ w.d \in waits
Fire(w) ==
    /\ w.expired
    /\ timers' = timers \ {w}
    /\ IF FireDue(w)
       THEN waits' = waits \ {w.d} /\ retrying' = retrying \cup {w.d}
       ELSE UNCHANGED <<waits, retrying>>
    /\ UNCHANGED <<dir, link, running, queueVars, pumpVars, calls, rgen, turn, asked, fails, cuts>>

\* retry_: the data is queued again
Retry(d) ==
    /\ d \in retrying
    /\ retrying' = retrying \ {d}
    /\ Enqueue(d)
    /\ UNCHANGED <<dir, link, running, active, notes, gen, pump, task, acts, calls, waits, timers,
                   rgen, turn, asked, fails, cuts>>

-----------------------------------------------------------------------------
(* The answers *)

\* the oldest call of its transfer is answered first
InTurn(c) ==
    ~\E b \in calls : b.kind = "piece" /\ b.d = c.d /\ b.gen = c.gen /\ b.turn = c.turn
                      /\ Before(b.piece, c.piece)

\* answered: an answer of an older generation, or for a data not on its way, falls on the floor
Expected(c) == c.gen = gen /\ c.d \in Active
Settle(d, t) ==
    IF Done(t) THEN /\ active' = Without(d)
                    /\ notes' = Append(notes, Note(d, Outcome(t)))
    ELSE /\ active' = [active EXCEPT ![d] = t]
         /\ UNCHANGED notes

Answered(c) ==
    /\ InTurn(c)
    /\ calls' = calls \ {c}
    /\ posted' = TRUE
    /\ UNCHANGED <<dir, link, running, queue, gen, pump, task, acts, retryVars, turn, asked, cuts>>

Late(c) == Answered(c) /\ ~Expected(c) /\ UNCHANGED <<active, notes, fails>>

\* the holder took the opening: what it lacks goes, or what is missing here and held there comes
Opened(c) ==
    /\ c.kind = "open"
    /\ Answered(c) /\ Expected(c)
    /\ \E chunks \in SUBSET (1..Chunks), incomplete \in (IF dir = "down" THEN BOOLEAN ELSE {FALSE}) :
        Settle(c.d, [active[c.d] EXCEPT !.opened = TRUE, !.cursor = PiecesOf(chunks),
                                        !.incomplete = incomplete])
    /\ UNCHANGED fails

\* take_piece: a piece must be the next of its chunk; an upload only counts
TakePiece(t, p) ==
    IF dir = "up" THEN t
    ELSE IF p[2] = t.received + 1
    THEN [t EXCEPT !.received = IF p[2] = Pieces THEN 0 ELSE p[2]]
    ELSE [t EXCEPT !.failure = "misplaced"]

PieceAnswered(c) ==
    /\ c.kind = "piece"
    /\ Answered(c) /\ Expected(c)
    /\ LET t == [active[c.d] EXCEPT !.outstanding = @ - 1]
       IN  Settle(c.d, IF t.failure = "none" THEN TakePiece(t, c.piece) ELSE t)
    /\ UNCHANGED fails

\* an opening or a piece failed: a holder's refusal, the transport, the local store
Failed(c) ==
    /\ Answered(c) /\ Expected(c)
    /\ fails < MaxFails \/ link # "up"
    /\ fails' = IF link = "up" THEN fails + 1 ELSE fails
    /\ \E err \in {"retryable", "final"} :
        LET t == active[c.d]
        IN  Settle(c.d, [t EXCEPT !.outstanding = IF c.kind = "piece" THEN @ - 1 ELSE @,
                                  !.failure = IF @ = "none" THEN err ELSE @])

-----------------------------------------------------------------------------
(* The owner and the record connection *)

\* comm::upload_data, fetch_data: a data asked for already keeps its transfer
Ask(d) ==
    /\ d \notin running
    /\ Cardinality(asked \cup {d}) + cuts <= MaxLoad
    /\ asked' = asked \cup {d}
    /\ running' = running \cup {d}
    /\ Enqueue(d)
    /\ UNCHANGED <<dir, link, active, notes, gen, pump, task, acts, calls, retryVars, turn, fails, cuts>>

\* comm::on_disconnected and net_data_transfers::on_disconnected: the retries are cancelled, the
\* queue is reset, then comm forgets what was running
Disconnect ==
    /\ link = "up"
    /\ Cardinality(asked) + cuts < MaxLoad
    /\ cuts' = cuts + 1
    /\ link' = "cancel"
    /\ UNCHANGED <<dir, running, queueVars, pumpVars, calls, retryVars, turn, asked, fails>>
CancelRetries ==
    /\ link = "cancel"
    /\ link' = "reset"
    /\ rgen' = rgen + 1
    /\ waits' = {}
    /\ timers' = {w \in timers : w.expired}
    /\ UNCHANGED <<dir, running, queueVars, pumpVars, calls, retrying, turn, asked, fails, cuts>>
Reset ==
    /\ link = "reset"
    /\ link' = "clear"
    /\ Forget
    /\ UNCHANGED <<dir, running, pumpVars, calls, retryVars, turn, asked, fails, cuts>>
ClearRunning ==
    /\ link = "clear"
    /\ link' = "down"
    /\ running' = {}
    /\ UNCHANGED <<dir, queueVars, pumpVars, calls, retryVars, turn, asked, fails, cuts>>
Reconnect ==
    /\ link = "down"
    /\ link' = "up"
    /\ UNCHANGED <<dir, running, queueVars, pumpVars, calls, retryVars, turn, asked, fails, cuts>>

Init ==
    /\ dir \in {"up", "down"}
    /\ link = "up"
    /\ running = {}
    /\ queue = <<>>
    /\ active = NoTransfers
    /\ notes = <<>>
    /\ gen = 0
    /\ posted = FALSE
    /\ pump = [running |-> FALSE, again |-> FALSE]
    /\ task = [t \in Thread |-> "idle"]
    /\ acts = [t \in Thread |-> NoActions]
    /\ calls = {}
    /\ waits = {}
    /\ timers = {}
    /\ rgen = 0
    /\ retrying = {}
    /\ turn = [d \in Data |-> 0]
    /\ asked = {}
    /\ fails = 0
    /\ cuts = 0

RunStep(t) == Enter(t) \/ RunCalls(t) \/ RunDone(t) \/ FinishDone(t) \/ Again(t)
AnswerStep(c) == Late(c) \/ Opened(c) \/ PieceAnswered(c) \/ Failed(c)
LinkStep == CancelRetries \/ Reset \/ ClearRunning \/ Reconnect

DataStep(d) ==
    \/ \E c \in calls : c.d = d /\ AnswerStep(c)
    \/ \E w \in timers : w.d = d /\ (Expire(w) \/ Fire(w))
    \/ Retry(d)

Next ==
    \/ \E t \in Thread : RunStep(t)
    \/ \E d \in Data : DataStep(d) \/ Ask(d)
    \/ Disconnect \/ LinkStep

Fairness ==
    /\ WF_vars(\E t \in Thread : RunStep(t))
    /\ \A d \in Data : WF_vars(DataStep(d))
    /\ WF_vars(LinkStep)

Spec == Init /\ [][Next]_vars /\ Fairness

-----------------------------------------------------------------------------
(* Properties *)

ChannelCall == [kind : {"open", "piece"}, d : Data, piece : Piece \cup {NoPiece}, gen : 0..MaxLoad, turn : {0, 1}]
DoneNote == [d : Data, err : Failure \cup {"none"}]
Timer == [d : Data, gen : 0..MaxLoad, expired : BOOLEAN]

\* Every variable has its type; a transfer never has more than a window of pieces on their way and
\* never more than max_datas data move at once.
TypeOK ==
    /\ dir \in {"up", "down"} /\ link \in {"up", "cancel", "reset", "clear", "down"}
    /\ running \subseteq Data /\ asked \subseteq Data /\ retrying \subseteq Data /\ waits \subseteq Data
    /\ queue \in Seq(Data) /\ notes \in Seq(DoneNote)
    /\ Active \subseteq Data /\ active \in [Active -> Transfer]
    /\ Cardinality(Active) <= MaxDatas
    /\ calls \subseteq ChannelCall /\ timers \subseteq Timer
    /\ posted \in BOOLEAN /\ pump \in [running : BOOLEAN, again : BOOLEAN]
    /\ task \in [Thread -> {"idle", "run", "done_up", "done_down"}]
    /\ acts \in [Thread -> [calls : SUBSET ChannelCall, dones : Seq(DoneNote)]]
    /\ turn \in [Data -> {0, 1}]
    /\ gen \in 0..MaxLoad /\ rgen \in 0..MaxLoad /\ cuts \in 0..MaxLoad /\ fails \in 0..MaxFails

\* the pieces of a data that this session has on their way
OnTheWay(d) ==
    {c \in calls \cup UNION {acts[t].calls : t \in Thread} : c.kind = "piece" /\ c.d = d /\ c.gen = gen}

\* An answer that is not ignored belongs to the transfer it is taken for, not to an earlier one of
\* the same data: the generation tells the sessions apart, and within a session a transfer ends
\* only when all its answers are in. For that the pieces it counts as outstanding are exactly
\* those still to be sent by a round or without an answer, so that it neither ends early nor
\* waits for an answer that never comes (transfer_queue.hpp, answered and finish_if_done).
AnswersTheirOwn ==
    /\ \A c \in calls : Expected(c) => c.turn = active[c.d].turn
    /\ \A d \in Active : active[d].outstanding = Cardinality(OnTheWay(d))

\* The pieces of a chunk arrive in their order, although rounds run on several threads and answers
\* ask for rounds while one runs: no transfer fails because a piece is not the next of its chunk.
ChunksInOrder == \A d \in Active : active[d].failure # "misplaced"

\* The transfers implement TransferService: what is asked for is reported at most once and, unless
\* the record connection is lost, in the end - whatever failures, retries, late answers and
\* reconnects come in between.
Service == INSTANCE TransferService
ServesItsOwner == Service!Spec
=============================================================================
