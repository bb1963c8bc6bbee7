---------------------------- MODULE MCRecordData ----------------------------
(***************************************************************************)
(* The parts that record data and histories go through beside the record   *)
(* sync itself, checked in one model: the transfers of a connection, the   *)
(* channel they use, the store and the engine's data sync, the copies on   *)
(* the data servers, the cut of a history, the membership merge, the       *)
(* divergence finder, a chat's connection and the requests between users.  *)
(* The parts share nothing in the model; a behaviour is one of one part.   *)
(***************************************************************************)
EXTENDS Histories, Transfers, Holdings, Users

CONSTANT Parts      \* the parts in this model

VARIABLE part

\* the holder lists the record server grants, in order of preference
JustBoth == {<<"s1", "s2">>}
NoneOrOne == {<<>>, <<"s1">>}
\* a change of one object, and one of two of which the first keeps its data
OneOrBoth == {[changed |-> {"p"}, renamed |-> {}], [changed |-> {"o", "p"}, renamed |-> {"p"}]}
\* the key servers of the senders
OneAtT == [p \in Packet |-> IF p = "r" THEN "t" ELSE "s"]

userVars == <<chatVars, requestVars>>
dataVars == <<transferVars, channelVars, syncVars, copiesVars, historyVars>>
suiteVars == <<part, dataVars, mergeVars, userVars, vars>>

SuiteInit ==
    /\ part \in Parts
    /\ Queue!Init /\ (part # "transfer" => dir = "up")
    /\ Channel!Init /\ Sync!Init /\ Copies!Init
    /\ History!Init /\ Merge!Init /\ Chats!Init /\ Requested!Init
    /\ part # "merge" => \A t \in 1..Tags : parentOf[t] = 0 /\ change[t] = CHOOSE k \in Kinds : TRUE
    /\ part # "merge" => \A r \in Replica : order[r] = [n \in 1..Tags |-> n]
    /\ Init /\ (part # "views" => fork = 0)

\* a step of one part, and of no other
OfTransfer(step) ==
    part = "transfer" /\ step /\ UNCHANGED <<part, channelVars, syncVars, copiesVars, historyVars, mergeVars, userVars, vars>>
OfChannel(step) ==
    part = "channel" /\ step /\ UNCHANGED <<part, transferVars, syncVars, copiesVars, historyVars, mergeVars, userVars, vars>>
OfSync(step) ==
    part = "sync" /\ step /\ UNCHANGED <<part, transferVars, channelVars, copiesVars, historyVars, mergeVars, userVars, vars>>
OfCopies(step) ==
    step /\ UNCHANGED <<part, transferVars, channelVars, syncVars, historyVars, mergeVars, userVars, vars>>

SuiteNext ==
    \/ OfTransfer(Queue!Next)
    \/ OfChannel(Channel!Next)
    \/ OfSync(Sync!Next)
    \/ OfCopies(part = "copies" /\ Copies!Next)
    \/ OfCopies(part = "releases" /\ Releases!Next)
    \/ /\ part = "history" /\ History!Next
       /\ UNCHANGED <<part, transferVars, channelVars, syncVars, copiesVars, mergeVars, userVars, vars>>
    \/ part = "merge" /\ Merge!Next /\ UNCHANGED <<part, dataVars, userVars, vars>>
    \/ part = "views" /\ Next /\ UNCHANGED <<part, dataVars, mergeVars, userVars>>
    \/ part = "chat" /\ Chats!Next /\ UNCHANGED <<part, dataVars, mergeVars, requestVars, vars>>
    \/ part = "requests" /\ Requested!Next /\ UNCHANGED <<part, dataVars, mergeVars, chatVars, vars>>

\* the fairness of each part
SuiteFairness ==
    /\ WF_transferVars(part = "transfer" /\ \E t \in Thread : Queue!RunStep(t))
    /\ \A d \in Data : WF_transferVars(part = "transfer" /\ Queue!DataStep(d))
    /\ WF_transferVars(part = "transfer" /\ Queue!LinkStep)
    /\ \A a \in Opening : WF_channelVars(part = "channel" /\ Channel!AttemptStep(a))
    /\ WF_channelVars(part = "channel" /\ \E l \in DOMAIN links : Channel!MustEnd(l) /\ Channel!FailAll(l))
    /\ WF_syncVars(part = "sync" /\ Sync!StoreStep)
    /\ WF_syncVars(part = "sync" /\ Sync!TransferStep)
    /\ WF_syncVars(part = "sync" /\ Sync!UploadAnswered)
    /\ WF_syncVars(part = "sync" /\ Sync!DownloadAnswered)
    /\ WF_syncVars(part = "sync" /\ Sync!Announced)
    /\ WF_syncVars(part = "sync" /\ Sync!WriteDue)
    /\ WF_syncVars(part = "sync" /\ Sync!Connect)
    /\ WF_copiesVars(\/ part = "copies" /\ Copies!Housekeeping
                     \/ part = "releases" /\ Releases!Housekeeping)
    /\ \A d \in Holder :
          /\ WF_copiesVars(\/ part = "copies" /\ Copies!RecordStep(d)
                           \/ part = "releases" /\ Releases!RecordStep(d))
          /\ WF_copiesVars(\/ part = "copies" /\ Copies!CarryOut(d)
                           \/ part = "releases" /\ Releases!CarryOut(d))
          /\ WF_copiesVars(\/ part = "copies" /\ Copies!LinkStep(d)
                           \/ part = "releases" /\ Releases!LinkStep(d))
          /\ WF_copiesVars(\/ part = "copies" /\ Copies!PullStep(d)
                           \/ part = "releases" /\ Releases!PullStep(d))
          /\ WF_copiesVars(\/ part = "copies" /\ Copies!UploadStep(d)
                           \/ part = "releases" /\ Releases!UploadStep(d))
          /\ WF_copiesVars(\/ part = "copies" /\ Copies!TimeStep(d)
                           \/ part = "releases" /\ Releases!TimeStep(d))
    /\ WF_chatVars(part = "chat" /\ Chats!NetStep)
    /\ WF_chatVars(part = "chat" /\ Chats!OnEvent)
    /\ WF_chatVars(part = "chat" /\ Chats!TimerFires)
    /\ WF_requestVars(part = "requests" /\ Requested!ClientStep)
    /\ WF_requestVars(part = "requests" /\ Requested!LoopStep)

SuiteSpec == SuiteInit /\ [][SuiteNext]_suiteVars
FairSuiteSpec == SuiteSpec /\ SuiteFairness

-----------------------------------------------------------------------------
(* The properties of the parts *)

\* Every variable of every part has its type.
SuiteTypeOK ==
    /\ part = "transfer" => Queue!TypeOK
    /\ part = "channel" => Channel!TypeOK
    /\ part = "sync" => Sync!TypeOK
    /\ part = "copies" => Copies!TypeOK
    /\ part = "history" => History!TypeOK
    /\ part = "merge" => Merge!TypeOK
    /\ part = "chat" => Chats!TypeOK
    /\ part = "requests" => Requested!TypeOK

\* An answer is taken for the transfer it belongs to, across resets, and every piece counted as
\* outstanding is out (TransferQueue).
AnswersTheirOwn == part = "transfer" => Queue!AnswersTheirOwn
\* The pieces of a download arrive in their order: no transfer fails because a piece is not the
\* next of its chunk (TransferQueue, action_pump).
ChunksInOrder == part = "transfer" => Queue!ChunksInOrder
\* The transfers implement TransferService: every data asked for is reported once, and at last.
ServesItsOwner == Queue!ServesItsOwner
\* The channel implements CallService: every call is answered once.
AnswersEveryCall == Channel!AnswersEveryCall
\* A handle never serves a chunk that was dropped (RecordDataStore).
CacheIsHeld == part = "sync" => Sync!CacheIsHeld
\* Files and rows agree at any point a stop can come (DataSync).
FilesAsClaimed == part = "sync" => Sync!FilesAsClaimed
\* The only copy of a data is kept until it is uploaded (DataSync).
OnlyCopyKept == part = "sync" => Sync!OnlyCopyKept
\* A data owed to the servers arrives (DataSync).
OwedIsUploaded == Sync!OwedIsUploaded
\* The counters of a data server's store say what its tables say (DataCopies).
StoreCounts == part = "copies" => Copies!StoreCounts
\* The availability table lists only servers that hold the data (DataCopies).
ListedIsHeld == part = "copies" => Copies!ListedIsHeld
\* A pruned data goes from every data server for good (DataCopies).
ReleasedIsGone == Copies!ReleasedIsGone
\* A listed data gets its copies (DataCopies).
CopiesMade == part = "copies" => Copies!CopiesMade
\* A cut or a prune of a history loses nothing still needed, and what is left proves itself
\* (HistoryCut).
CutKeepsHistory == part = "history" => History!CutKeepsHistory
\* No order of the changes undoes a removal, and a re-invitation in its turn is kept (UserMerge).
MemberIfEffective == part = "merge" => Merge!MemberIfEffective
\* A storage attached to a session that is up was told so (ChatConnection).
AttachedAreTold == part = "chat" => Chats!AttachedAreTold
\* A chat in the list is on the server (ChatConnection).
ListedChatsExist == part = "chat" => Chats!ListedChatsExist
\* The connection comes up again and the actions waiting for it run (ChatConnection).
ComesBack == part = "chat" => Chats!ComesBack
\* A request is decided, and called authentic only if it is (Requests).
RequestsDecided == part = "requests" => Requested!RequestsDecided
=============================================================================
