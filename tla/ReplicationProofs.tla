------------------------- MODULE ReplicationProofs -------------------------
(***************************************************************************)
(* Theorems of Replication, for every set of servers, connections and      *)
(* records: its types, and its safety with crashes inside the handlers and *)
(* truncated chains.                                                       *)
(***************************************************************************)
EXTENDS Replication, DivergenceProofs, TLAPS, SequenceTheorems, FiniteSetTheorems

-----------------------------------------------------------------------------
(* Ends, sequences and channels *)

LEMMA EndFacts ==
    ASSUME NEW x \in End
    PROVE  /\ x[1] \in Conn /\ x[2] \in Server
           /\ Peer(x) \in End /\ Peer(x)[2] \in Server
           /\ Peer(x) # x /\ Peer(Peer(x)) = x
  BY ConstantsAssumption DEF End, Peer

LEMMA RangeFacts ==
    ASSUME NEW S, NEW q \in Seq(S)
    PROVE  /\ Range(q) \subseteq S
           /\ q # <<>> => Head(q) \in Range(q) /\ Range(Tail(q)) \subseteq Range(q)
  <1>1. DOMAIN q = 1 .. Len(q) /\ \A i \in 1 .. Len(q) : q[i] \in S
    OBVIOUS
  <1>2. Range(q) \subseteq S
    BY <1>1 DEF Range
  <1>3. ASSUME q # <<>>
        PROVE  Head(q) \in Range(q) /\ Range(Tail(q)) \subseteq Range(q)
    <2>1. Len(q) >= 1 /\ Head(q) = q[1]
      BY <1>3
    <2>2. Tail(q) \in Seq(S) /\ Len(Tail(q)) = Len(q) - 1
          /\ \A i \in 1 .. Len(Tail(q)) : Tail(q)[i] = q[i + 1]
      BY <1>3
    <2>3. DOMAIN Tail(q) = 1 .. Len(Tail(q))
      BY <2>2
    <2>4. \A i \in 1 .. Len(Tail(q)) : i + 1 \in 1 .. Len(q)
      BY <2>2
    <2> QED
      BY <1>1, <2>1, <2>2, <2>3, <2>4 DEF Range
  <1> QED
    BY <1>2, <1>3

LEMMA RangeSingle ==
    ASSUME NEW m, NEW c \in BOOLEAN
    PROVE  /\ Range(<<>>) = {} /\ Range(<<m>>) = {m}
           /\ Range(OneIf(c, m)) \subseteq {m}
           /\ \A S : m \in S => OneIf(c, m) \in Seq(S) /\ <<m>> \in Seq(S)
  BY DEF Range, OneIf

LEMMA OrderingFacts ==
    ASSUME NEW S, IsFiniteSet(S), NEW q \in SetToSeqs(S)
    PROVE  q \in Seq(S) /\ Range(q) \subseteq S
  <1>1. Cardinality(S) \in Nat
    BY FS_CardinalityType
  <1>2. q \in Seq(S)
    BY <1>1 DEF SetToSeqs
  <1> QED
    BY <1>2, RangeFacts

\* What is on its way after a handler, and after an action that only sends.
LEMMA ReplyFacts ==
    ASSUME net \in [End -> Seq(Msg)], NEW x \in End, net[x] # <<>>, NEW out \in Seq(Msg)
    PROVE  /\ Reply(x, out) \in [End -> Seq(Msg)]
           /\ \A y \in End : Range(Reply(x, out)[y]) \subseteq
                  Range(net[y]) \cup (IF y = Peer(x) THEN Range(out) ELSE {})
  <1>1. /\ Peer(x) \in End /\ Peer(x) # x
    BY EndFacts
  <1>2. Tail(net[x]) \in Seq(Msg) /\ Range(Tail(net[x])) \subseteq Range(net[x])
    BY RangeFacts
  <1>3. /\ net[Peer(x)] \o out \in Seq(Msg)
        /\ Range(net[Peer(x)] \o out) = Range(net[Peer(x)]) \cup Range(out)
    BY <1>1, RangeConcatenation, ConcatProperties
  <1>4. \A y \in End : Reply(x, out)[y] = IF y = x THEN Tail(net[x])
                                          ELSE IF y = Peer(x) THEN net[Peer(x)] \o out ELSE net[y]
    BY <1>1 DEF Reply
  <1>5. DOMAIN Reply(x, out) = End
    BY DEF Reply
  <1> QED
    BY <1>1, <1>2, <1>3, <1>4, <1>5 DEF Reply

LEMMA SendFacts ==
    ASSUME net \in [End -> Seq(Msg)], NEW x \in End, NEW out \in Seq(Msg)
    PROVE  /\ Send(x, out) \in [End -> Seq(Msg)]
           /\ \A y \in End : Range(Send(x, out)[y]) \subseteq
                  Range(net[y]) \cup (IF y = Peer(x) THEN Range(out) ELSE {})
  <1>1. Peer(x) \in End
    BY EndFacts
  <1>2. /\ net[Peer(x)] \o out \in Seq(Msg)
        /\ Range(net[Peer(x)] \o out) = Range(net[Peer(x)]) \cup Range(out)
    BY <1>1, RangeConcatenation, ConcatProperties
  <1> QED
    BY <1>1, <1>2 DEF Send

-----------------------------------------------------------------------------
(* Type correctness *)

LEMMA EnvFacts ==
    ASSUME NEW e \in Env
    PROVE  e.origin \in Server /\ e.chain \in Seq(Record) /\ SeqNo(e) \in Nat \ {0} /\ TagOf(e) \in Record
  <1>1. e.origin \in Server /\ e.chain \in Seq(Record) /\ e.chain # <<>>
    BY DEF Env
  <1>2. Len(e.chain) \in Nat \ {0} /\ Len(e.chain) \in 1 .. Len(e.chain)
    BY <1>1
  <1> QED
    BY <1>1, <1>2 DEF SeqNo, TagOf

LEMMA EnvsFacts ==
    ASSUME NEW es \in Envs
    PROVE  /\ es \subseteq Env /\ IsFiniteSet(es)
           /\ \A fs \in SUBSET es : fs \in Envs
           /\ \A e \in Env : es \cup {e} \in Envs
           /\ {SeqNo(e) : e \in es} \in SUBSET Nat
           /\ IsFiniteSet({SeqNo(e) : e \in es})
  <1>1. es \subseteq Env /\ IsFiniteSet(es)
    BY DEF Envs
  <1>2. \A fs \in SUBSET es : fs \in Envs
    BY <1>1, FS_Subset DEF Envs
  <1>3. \A e \in Env : es \cup {e} \in Envs
    BY <1>1, FS_AddElement DEF Envs
  <1> DEFINE f == [e \in es |-> SeqNo(e)]
  <1>4. {f[e] : e \in es} = {SeqNo(e) : e \in es}
    OBVIOUS
  <1>5. IsFiniteSet({f[e] : e \in es})
    BY <1>1, ImageFinite
  <1>6. {SeqNo(e) : e \in es} \in SUBSET Nat
    BY <1>1, EnvFacts
  <1> QED
    BY <1>1, <1>2, <1>3, <1>4, <1>5, <1>6

LEMMA EmptyEnvs == {} \in Envs /\ \A e \in Env : {e} \in Envs
  BY FS_EmptySet, FS_Singleton DEF Envs

LEMMA FirstOfFacts ==
    ASSUME NEW es \in Envs, es # {}
    PROVE  FirstOf(es) \in es /\ \A f \in es : SeqNo(FirstOf(es)) <= SeqNo(f)
  <1> DEFINE N == {SeqNo(e) : e \in es}
  <1>1. N \in SUBSET Nat /\ N # {}
    BY EnvsFacts
  <1>2. PICK n \in N : \A m \in N : n <= m
    BY <1>1, MinFacts
  <1>3. PICK e \in es : \A f \in es : SeqNo(e) <= SeqNo(f)
    BY <1>2
  <1> QED
    BY <1>3 DEF FirstOf

\* The last sequence of an origin is the largest one kept.
LEMMA LastOriginSeqFacts ==
    ASSUME NEW s \in Server, asg[s] \in Envs, NEW o
    PROVE  /\ LastOriginSeq(s, o) \in Nat
           /\ \A e \in OfOrigin(s, o) : SeqNo(e) <= LastOriginSeq(s, o)
           /\ LastOriginSeq(s, o) # 0 => \E e \in OfOrigin(s, o) : SeqNo(e) = LastOriginSeq(s, o)
  <1>1. OfOrigin(s, o) \in Envs
    BY ZenonT(60), EnvsFacts DEF OfOrigin
  <1> DEFINE N == {SeqNo(e) : e \in OfOrigin(s, o)}
  <1>2. N \in SUBSET Nat /\ IsFiniteSet(N)
    BY <1>1, EnvsFacts
  <1> HIDE DEF N
  <1>3. LET m == Max({0} \cup N)
        IN  m \in Nat /\ m \in {0} \cup N /\ \A n \in N : n <= m
    BY <1>2, MaxWithZero
  <1> QED
    BY <1>3 DEF LastOriginSeq, N

LEMMA KnownType ==
    ASSUME TypeOK, NEW s \in Server, NEW o \in Server
    PROVE  Known(s, o) \in Nat
  <1>1. asg[s] \in Envs /\ heads[s][o] \in Nat
    BY DEF TypeOK
  <1> QED
    BY <1>1, LastOriginSeqFacts DEF Known

\* What is announced, and where an announcement parts from what is held.
LEMMA AnnouncementType ==
    ASSUME TypeOK, NEW s \in Server
    PROVE  Announcement(s) \in Ann
  <1>1. [o \in Server |-> Known(s, o)] \in [Server -> Nat]
    BY KnownType
  <1>2. asg[s] \in Envs
    BY DEF TypeOK
  <1>3. Announcement(s).samples \in Envs
    BY <1>2, EnvsFacts DEF Announcement
  <1> QED
    BY <1>1, <1>3 DEF Announcement, Ann

LEMMA BlocksFacts ==
    ASSUME NEW es \in Envs, NEW o
    PROVE  IsFiniteSet(Blocks(es, o)) /\ \A b \in Blocks(es, o) : b.seq \in Nat
  <1> DEFINE fs == {f \in es : f.origin = o}
             g == [e \in fs |-> [seq |-> SeqNo(e), hash |-> e.chain]]
  <1>1. fs \in Envs
    BY EnvsFacts
  <1>2. IsFiniteSet(fs) /\ \A e \in fs : SeqNo(e) \in Nat
    BY <1>1, EnvsFacts, EnvFacts
  <1>3. {g[e] : e \in fs} = Blocks(es, o)
    BY DEF Blocks
  <1>4. IsFiniteSet({g[e] : e \in fs})
    BY <1>2, ImageFinite
  <1>5. \A b \in Blocks(es, o) : b.seq \in Nat
    BY <1>2 DEF Blocks
  <1> QED
    BY <1>3, <1>4, <1>5

LEMMA SeqTypes ==
    ASSUME TypeOK, NEW s \in Server, NEW o \in Server, NEW a \in Ann
    PROVE  /\ a.heads[o] \in Nat
           /\ CommonSeq(s, o, a) \in Nat /\ DivergentSeq(s, o, a) \in Nat
           /\ WantedFrom(s, o, a) \in Nat
  <1>1. asg[s] \in Envs /\ a.samples \in Envs /\ a.heads[o] \in Nat
    BY DEF TypeOK, Ann
  <1>2. CommonSeq(s, o, a) \in Nat /\ DivergentSeq(s, o, a) \in Nat
    BY <1>1, BlocksFacts, BoundTypes DEF CommonSeq, DivergentSeq
  <1>3. Known(s, o) \in Nat
    BY KnownType
  <1> QED
    BY <1>1, <1>2, <1>3 DEF WantedFrom, PlanPull

LEMMA InitType == Init => TypeOK
  BY ConstantsAssumption, EmptyEnvs DEF Init, TypeOK, Link, Work, FreshEnd, Idle, Key

LEMMA MsgTypes ==
    /\ Hello \in Msg
    /\ \A a \in Ann : HeadsMsg(a) \in Msg
    /\ \A o \in Server, f, u \in Nat : PullMsg(o, f, u) \in Msg
    /\ \A o \in Server, es \in Envs, m \in Nat : RespMsg(o, es, m) \in Msg
    /\ \A e \in Env : PushMsg(e) \in Msg
    /\ \A k \in Key, h \in BOOLEAN : AskMsg(k) \in Msg /\ KeyMsg(k, h) \in Msg
  BY DEF Msg, HeadsMsg, PullMsg, RespMsg, PushMsg, AskMsg, KeyMsg

LEMMA PacketTypes ==
    ASSUME TypeOK, NEW x \in End, NEW ty, Arrived(x, ty)
    PROVE  LET m == Packet(x) IN
           /\ net[x] # <<>> /\ m \in Range(net[x]) /\ m \in Msg /\ m.type = ty
           /\ ty = "heads" => m.ann \in Ann
           /\ ty = "pull" => m.origin \in Server /\ m.from \in Nat /\ m.upto \in Nat
           /\ ty = "resp" => m.origin \in Server /\ m.envs \in Envs /\ m.max \in Nat
           /\ ty = "push" => m.env \in Env
           /\ ty = "ask" => m.key \in Key
           /\ ty = "key" => m.key \in Key /\ m.held \in BOOLEAN
  <1> DEFINE m == Packet(x)
  <1>1. net[x] \in Seq(Msg) /\ net[x] # <<>> /\ m.type = ty
    BY DEF TypeOK, Arrived, Packet
  <1>2. m \in Range(net[x]) /\ m \in Msg
    BY <1>1, RangeFacts DEF Packet
  <1> HIDE DEF m
  <1> QED
    BY <1>1, <1>2 DEF m, Msg, Hello

LEMMA LinkFacts ==
    ASSUME TypeOK, NEW x \in End
    PROVE  /\ link[x] \in Link
           /\ link[x].ready \in BOOLEAN /\ link[x].ann \subseteq Ann /\ link[x].pulling \subseteq Server
           /\ link[x].asked \subseteq Key /\ link[x].diverged \subseteq Server
           /\ link[x].work \in Work
           /\ link[x].work.origin \in Server /\ link[x].work.envs \in Envs
           /\ link[x].work.last \in Nat /\ link[x].work.max \in Nat
           /\ link[x].work.task \in {"none", "resp", "push"}
  <1>1. link[x] \in Link
    BY DEF TypeOK
  <1> QED
    BY <1>1 DEF Link, Work

LEMMA LinkUpdate ==
    ASSUME TypeOK, NEW x \in End, NEW P \in SUBSET Server, NEW K \in SUBSET Key, NEW w \in Work
    PROVE  /\ [link EXCEPT ![x].pulling = P, ![x].work = w] \in [End -> Link]
           /\ [link EXCEPT ![x].work = w, ![x].pulling = P] \in [End -> Link]
           /\ [link EXCEPT ![x].work = w, ![x].asked = K] \in [End -> Link]
           /\ [link EXCEPT ![x].pulling = P] \in [End -> Link]
           /\ [link EXCEPT ![x].work = w] \in [End -> Link]
           /\ [link EXCEPT ![x].asked = K] \in [End -> Link]
  <1>1. link[x] \in Link /\ link \in [End -> Link]
    BY DEF TypeOK
  <1>2. /\ [link[x] EXCEPT !.pulling = P] \in Link
        /\ [link[x] EXCEPT !.work = w] \in Link
        /\ [link[x] EXCEPT !.asked = K] \in Link
    BY <1>1 DEF Link
  <1>3. /\ [[link[x] EXCEPT !.pulling = P] EXCEPT !.work = w] \in Link
        /\ [[link[x] EXCEPT !.work = w] EXCEPT !.pulling = P] \in Link
        /\ [[link[x] EXCEPT !.work = w] EXCEPT !.asked = K] \in Link
    BY <1>2 DEF Link
  <1> QED
    BY <1>1, <1>2, <1>3

\* the requests of start_pulls are finitely many pulls
LEMMA PullRequestsFacts ==
    ASSUME TypeOK, NEW s \in Server, NEW a \in Ann, NEW busy
    PROVE  /\ IsFiniteSet(PullRequests(s, a, busy))
           /\ \A q \in PullRequests(s, a, busy) : q \in Msg /\ q.type = "pull" /\ q.origin \in Server
  <1> DEFINE S1 == {p \in Server \ busy : WantedFrom(s, p, a) > 0}
             S2 == {p \in Server \ busy : a.heads[p] > 0 /\ ~Condemned(s, p) /\ DivergentSeq(s, p, a) > 0}
             f1 == [o \in S1 |-> PullMsg(o, WantedFrom(s, o, a), a.heads[o])]
             f2 == [o \in S2 |-> PullMsg(o, DivergentSeq(s, o, a), DivergentSeq(s, o, a))]
  <1>1. IsFiniteSet(S1) /\ IsFiniteSet(S2)
    BY ConstantsAssumption, FS_Subset
  <1>2. IsFiniteSet({f1[o] : o \in S1}) /\ IsFiniteSet({f2[o] : o \in S2})
    <2>1. DOMAIN f1 = S1 /\ DOMAIN f2 = S2
      OBVIOUS
    <2> HIDE DEF f1, f2, S1, S2
    <2> QED
      BY <1>1, <2>1, ImageFinite
  <1>3. PullRequests(s, a, busy) = {f1[o] : o \in S1} \cup {f2[o] : o \in S2}
    BY DEF PullRequests
  <1>4. \A q \in PullRequests(s, a, busy) : q \in Msg /\ q.type = "pull" /\ q.origin \in Server
    <2>1. \A o \in S1 : f1[o] \in Msg /\ f1[o].type = "pull" /\ f1[o].origin \in Server
      BY SeqTypes, MsgTypes DEF PullMsg
    <2>2. \A o \in S2 : f2[o] \in Msg /\ f2[o].type = "pull" /\ f2[o].origin \in Server
      BY SeqTypes, MsgTypes DEF PullMsg
    <2> HIDE DEF f1, f2, S1, S2
    <2> QED
      BY <1>3, <2>1, <2>2
  <1>5. IsFiniteSet({f1[o] : o \in S1} \cup {f2[o] : o \in S2})
    <2> HIDE DEF f1, f2, S1, S2
    <2> QED
      BY <1>2, FS_Union
  <1> QED
    BY <1>3, <1>4, <1>5

\* What start_pulls leaves: pulls on their way to the peer, the work of no end touched.
LEMMA StartPullsFacts ==
    ASSUME TypeOK, NEW x \in End, NEW a \in Ann, NEW ks \in [End -> Link],
           net[x] # <<>>, StartPulls(x, a, ks)
    PROVE  /\ link' \in [End -> Link] /\ net' \in [End -> Seq(Msg)]
           /\ exists' \in [Server -> BOOLEAN] /\ boot' \in [Server -> BOOLEAN]
           /\ \A y \in End : link'[y].work = ks[y].work
           /\ \A y \in End : \A m \in Range(net'[y]) :
                  \/ m \in Range(net[y])
                  \/ /\ y = Peer(x) /\ m.type = "pull"
                     /\ m \in PullRequests(x[2], a, ks[x].pulling)
  <1> DEFINE s == x[2]
             reqs == PullRequests(s, a, ks[x].pulling)
             P == ks[x].pulling \cup {q.origin : q \in reqs}
             D == {o \in ks[x].diverged : a.heads[o] = 0}
                    \cup {o \in Server : a.heads[o] > 0 /\ DivergentSeq(s, o, a) > 0}
  <1>1. s \in Server
    BY EndFacts
  <1>2. IsFiniteSet(reqs) /\ \A q \in reqs : q \in Msg /\ q.type = "pull" /\ q.origin \in Server
    BY <1>1, PullRequestsFacts
  <1>3. PICK out \in SetToSeqs(reqs) : net' = Reply(x, out)
    BY DEF StartPulls
  <1>4. out \in Seq(reqs) /\ Range(out) \subseteq reqs
    BY <1>2, <1>3, OrderingFacts
  <1>5. reqs \subseteq Msg
    BY <1>2
  <1> HIDE DEF reqs
  <1>6. out \in Seq(Msg)
    BY <1>4, <1>5
  <1>7. /\ net' \in [End -> Seq(Msg)]
        /\ \A y \in End : Range(net'[y]) \subseteq
                              Range(net[y]) \cup (IF y = Peer(x) THEN Range(out) ELSE {})
    BY <1>3, <1>6, ReplyFacts DEF TypeOK
  <1>8. ks[x] \in Link /\ P \subseteq Server /\ D \subseteq Server
    BY <1>2 DEF Link
  <1>9. link' = [ks EXCEPT ![x].pulling = P, ![x].diverged = D]
    BY DEF StartPulls, reqs
  <1> HIDE DEF P, D
  <1>10. link' \in [End -> Link] /\ \A y \in End : link'[y].work = ks[y].work
    BY <1>8, <1>9 DEF Link
  <1>11. exists' = [exists EXCEPT ![s] = TRUE] /\ exists' \in [Server -> BOOLEAN]
    BY <1>1 DEF StartPulls, TypeOK
  <1>12. boot' \in [Server -> BOOLEAN]
    BY <1>1, Zenon DEF StartPulls, TypeOK
  <1>13. \A y \in End : \A m \in Range(net'[y]) :
            m \in Range(net[y]) \/ (y = Peer(x) /\ m.type = "pull" /\ m \in reqs)
    BY <1>2, <1>4, <1>7
  <1> QED
    BY <1>7, <1>10, <1>11, <1>12, <1>13 DEF reqs

\* The set of connections an action drops leaves the rest of the state typed.
LEMMA DropConnsType ==
    ASSUME TypeOK, NEW cs, DropConns(cs)
    PROVE  /\ up' \subseteq Conn /\ link' \in [End -> Link] /\ net' \in [End -> Seq(Msg)]
           /\ faults' \in 0 .. MaxFaults
           /\ \A y \in End : link'[y] = FreshEnd \/ link'[y] = link[y]
           /\ \A y \in End : Range(net'[y]) \subseteq Range(net[y])
  <1>1. FreshEnd \in Link
    BY ConstantsAssumption, EmptyEnvs DEF FreshEnd, Idle, Link, Work
  <1>2. faults' \in 0 .. MaxFaults
    BY ConstantsAssumption DEF DropConns, TypeOK
  <1>3. Range(<<>>) = {}
    BY RangeSingle
  <1>4. \A y \in End : Range(net'[y]) \subseteq Range(net[y])
    BY <1>3 DEF DropConns
  <1> QED
    BY <1>1, <1>2, <1>4 DEF DropConns, TypeOK

LEMMA AppendType ==
    ASSUME TypeOK, NEW s \in Server, NEW r \in Record
    PROVE  /\ Append(log[s], r) \in Seq(Record) \ {<<>>}
           /\ [log EXCEPT ![s] = Append(@, r)] \in [Server -> Seq(Record)]
           /\ [origin |-> s, chain |-> Append(log[s], r)] \in Env
  <1>1. log[s] \in Seq(Record)
    BY DEF TypeOK
  <1>2. Append(log[s], r) \in Seq(Record) \ {<<>>}
    BY <1>1
  <1> QED
    BY <1>2 DEF TypeOK, Env

LEMMA AdvanceType ==
    ASSUME TypeOK, NEW s \in Server, NEW o \in Server, NEW q \in Nat
    PROVE  Advance(heads[s], o, q) \in [Server -> Nat]
  BY DEF Advance, TypeOK

\* What storage::apply_foreign may do to the state on disk.
LEMMA ApplyForeignType ==
    ASSUME TypeOK, NEW s \in Server, NEW e \in Env, ApplyForeign(s, e)
    PROVE  /\ log' \in [Server -> Seq(Record)] /\ asg' \in [Server -> Envs]
           /\ heads' \in [Server -> [Server -> Nat]] /\ proofs' \in [Server -> SUBSET (Server \X Nat)]
           /\ keys' = keys
  <1>1. e.origin \in Server /\ SeqNo(e) \in Nat /\ TagOf(e) \in Record
    BY EnvFacts
  <1>2. log' \in [Server -> Seq(Record)]
    BY <1>1, AppendType DEF ApplyForeign, TypeOK
  <1>3. asg[s] \cup {e} \in Envs
    BY EnvsFacts DEF TypeOK
  <1>4. Advance(heads[s], e.origin, SeqNo(e)) \in [Server -> Nat]
    BY <1>1, AdvanceType
  <1>5. proofs[s] \cup {<<e.origin, SeqNo(e)>>} \in SUBSET (Server \X Nat)
    BY <1>1 DEF TypeOK
  <1> QED
    BY <1>2, <1>3, <1>4, <1>5 DEF ApplyForeign, TypeOK

LEMMA MissingKeysType ==
    ASSUME TypeOK, NEW s, NEW e \in Env
    PROVE  MissingKeys(s, e) \subseteq Key /\ IsFiniteSet(MissingKeys(s, e))
  <1>1. e.origin \in Key /\ SignerOf[TagOf(e)] \in Key
    BY EnvFacts, ConstantsAssumption DEF Key
  <1>2. MissingKeys(s, e) \in {{}, {e.origin}, {SignerOf[TagOf(e)]}}
    BY DEF MissingKeys
  <1>3. IsFiniteSet({}) /\ IsFiniteSet({e.origin}) /\ IsFiniteSet({SignerOf[TagOf(e)]})
    BY FS_EmptySet, FS_Singleton
  <1> QED
    BY <1>1, <1>2, <1>3

\* The requests for missing keys.
LEMMA AskFacts ==
    ASSUME NEW K \in SUBSET Key, IsFiniteSet(K), NEW out \in SetToSeqs({AskMsg(k) : k \in K})
    PROVE  /\ out \in Seq(Msg)
           /\ \A m \in Range(out) : m.type = "ask" /\ m.key \in K
  <1> DEFINE S == {AskMsg(k) : k \in K}
             f == [k \in K |-> AskMsg(k)]
  <1>1. {f[k] : k \in K} = S
    OBVIOUS
  <1>2. IsFiniteSet({f[k] : k \in K})
    BY ImageFinite
  <1>3. IsFiniteSet(S) /\ S \subseteq Msg
    BY <1>1, <1>2, MsgTypes
  <1>4. \A m \in S : m.type = "ask" /\ m.key \in K
    BY DEF AskMsg
  <1> HIDE DEF S
  <1>5. out \in Seq(S) /\ Range(out) \subseteq S
    BY <1>3, OrderingFacts DEF S
  <1> QED
    BY <1>3, <1>4, <1>5

-----------------------------------------------------------------------------
(* The type invariant, action by action *)

LEMMA TypeConnect ==
    ASSUME TypeOK, NEW c \in Conn, Connect(c) \/ Disconnect(c)
    PROVE  TypeOK'
  <1>1. CASE Connect(c)
    <2>1. <<Hello>> \in Seq(Msg)
      BY MsgTypes
    <2> QED
      BY <1>1, <2>1 DEF Connect, TypeOK, disk
  <1>2. CASE Disconnect(c)
    <2>1. DropConns({c})
      BY <1>2 DEF Disconnect
    <2> QED
      BY <1>2, <2>1, DropConnsType DEF Disconnect, TypeOK, disk
  <1> QED
    BY <1>1, <1>2

LEMMA TypeCommit ==
    ASSUME TypeOK, NEW s \in Server, NEW r \in Record, Commit(s, r) \/ CommitCrash(s, r)
    PROVE  TypeOK'
  <1>1. CASE Commit(s, r)
    <2> DEFINE e == [origin |-> s, chain |-> Append(log[s], r)]
    <2>1. e \in Env /\ e.chain \in Seq(Record)
      BY AppendType
    <2>2. asg[s] \cup {e} \in Envs
      BY <2>1, EnvsFacts DEF TypeOK
    <2>3. PushMsg(e) \in Msg
      BY <2>1, MsgTypes
    <2> HIDE DEF e
    <2>4. net' = [x \in End |-> net[x] \o OneIf(Peer(x)[2] = s /\ link[Peer(x)].ready, PushMsg(e))]
      BY <1>1 DEF Commit, e
    <2>5. \A x \in End : OneIf(Peer(x)[2] = s /\ link[Peer(x)].ready, PushMsg(e)) \in Seq(Msg)
      BY <2>3 DEF OneIf
    <2>6. net' \in [End -> Seq(Msg)]
      BY <2>4, <2>5 DEF TypeOK
    <2>7. /\ log' = [log EXCEPT ![s] = e.chain]
          /\ asg' = [asg EXCEPT ![s] = @ \cup {e}]
          /\ signed' = signed \cup {e}
          /\ UNCHANGED <<heads, proofs, exists, boot, keys, up, link, faults>>
      BY <1>1 DEF Commit, e
    <2> QED
      BY <2>1, <2>2, <2>6, <2>7 DEF TypeOK
  <1>2. CASE CommitCrash(s, r)
    <2>1. DropConns({x[1] : x \in EndsOf(s)}) /\ log' = [log EXCEPT ![s] = Append(@, r)]
          /\ UNCHANGED <<asg, heads, proofs, exists, boot, keys, signed>>
      BY <1>2 DEF CommitCrash
    <2> QED
      BY <2>1, AppendType, DropConnsType DEF TypeOK
  <1> QED
    BY <1>1, <1>2

LEMMA TypeHello ==
    ASSUME TypeOK, NEW x \in End, HandleHello(x) \/ Announce(x)
    PROVE  TypeOK'
  <1>1. x[2] \in Server /\ Peer(x)[2] \in Server
    BY EndFacts
  <1> DEFINE m == HeadsMsg(Announcement(x[2]))
  <1>2. m \in Msg
    BY <1>1, AnnouncementType, MsgTypes
  <1> HIDE DEF m
  <1>3. OneIf(exists[x[2]], m) \in Seq(Msg) /\ <<m>> \in Seq(Msg)
    BY <1>2 DEF OneIf
  <1>4. CASE HandleHello(x)
    <2>1. net' \in [End -> Seq(Msg)]
      BY <1>3, <1>4, ReplyFacts DEF HandleHello, TypeOK, m, Arrived
    <2>2. link' \in [End -> Link]
      BY ZenonT(60), <1>4, LinkFacts DEF HandleHello, TypeOK, Link
    <2>3. keys' \in [Server -> SUBSET Key]
      BY <1>1, <1>4 DEF HandleHello, TypeOK, Key
    <2> QED
      BY <2>1, <2>2, <2>3, <1>4 DEF HandleHello, TypeOK
  <1>5. CASE Announce(x)
    <2>1. net' \in [End -> Seq(Msg)]
      BY <1>3, <1>5, SendFacts DEF Announce, TypeOK, m
    <2> QED
      BY <2>1, <1>5 DEF Announce, TypeOK, disk
  <1> QED
    BY <1>4, <1>5

LEMMA TypeHeads ==
    ASSUME TypeOK, NEW x \in End, HandleHeads(x)
    PROVE  TypeOK'
  <1> DEFINE a == Packet(x).ann
             ks == [link EXCEPT ![x].ann = {a}]
  <1>1. Arrived(x, "heads") /\ StartPulls(x, a, ks)
    BY DEF HandleHeads
  <1>2. a \in Ann /\ net[x] # <<>>
    BY <1>1, PacketTypes
  <1>3. ks \in [End -> Link]
    BY ZenonT(60), <1>2, LinkFacts DEF TypeOK, Link
  <1> HIDE DEF a, ks
  <1>4. /\ link' \in [End -> Link] /\ net' \in [End -> Seq(Msg)]
        /\ exists' \in [Server -> BOOLEAN] /\ boot' \in [Server -> BOOLEAN]
    BY <1>1, <1>2, <1>3, StartPullsFacts
  <1> QED
    BY <1>4 DEF HandleHeads, TypeOK

LEMMA TypePull ==
    ASSUME TypeOK, NEW x \in End, HandlePull(x)
    PROVE  TypeOK'
  <1> DEFINE m == Packet(x)
             rows == FirstRows(Rows(x[2], m.origin, m.from, m.upto))
  <1>1. Arrived(x, "pull")
    BY DEF HandlePull
  <1>2. m.origin \in Server /\ net[x] # <<>> /\ x[2] \in Server
    BY <1>1, PacketTypes, EndFacts
  <1>3. rows \subseteq asg[x[2]]
    BY DEF FirstRows, Rows, OfOrigin
  <1>4. PICK batch \in SUBSET rows : net' = Reply(x, <<RespMsg(m.origin, batch, Known(x[2], m.origin))>>)
    BY DEF HandlePull
  <1>5. batch \in Envs
    <2>1. asg[x[2]] \in Envs
      BY <1>2 DEF TypeOK
    <2> HIDE DEF rows
    <2> QED
      BY <2>1, <1>3, <1>4, EnvsFacts
  <1>6. RespMsg(m.origin, batch, Known(x[2], m.origin)) \in Msg
    BY <1>2, <1>5, KnownType, MsgTypes
  <1> HIDE DEF m, rows
  <1> DEFINE q == RespMsg(m.origin, batch, Known(x[2], m.origin))
  <1> HIDE DEF q
  <1>7. net' \in [End -> Seq(Msg)]
    <2>1. <<q>> \in Seq(Msg)
      BY <1>6 DEF q
    <2> QED
      BY <2>1, <1>2, <1>4, ReplyFacts DEF TypeOK, q
  <1> QED
    BY <1>7 DEF HandlePull, TypeOK, disk

LEMMA TypeResp ==
    ASSUME TypeOK, NEW x \in End, HandleResp(x)
    PROVE  TypeOK'
  <1> DEFINE m == Packet(x)
             N == {SeqNo(e) : e \in m.envs}
             w == [task |-> "resp", origin |-> m.origin, envs |-> m.envs, max |-> m.max, last |-> Max({0} \cup N)]
  <1>1. Arrived(x, "resp")
    BY DEF HandleResp
  <1>2. m.origin \in Server /\ m.envs \in Envs /\ m.max \in Nat /\ net[x] # <<>>
    BY <1>1, PacketTypes
  <1>3. N \in SUBSET Nat /\ IsFiniteSet(N)
    BY <1>2, EnvsFacts
  <1> HIDE DEF N
  <1>4. Max({0} \cup N) \in Nat
    BY <1>3, MaxWithZero
  <1> HIDE DEF m
  <1>5. link' = [link EXCEPT ![x].pulling = @ \ {m.origin}, ![x].work = w]
    BY DEF HandleResp, m, N
  <1>6. w \in Work
    BY <1>2, <1>4 DEF Work
  <1> HIDE DEF w
  <1>7. link' \in [End -> Link]
    <2>1. link[x].pulling \ {m.origin} \in SUBSET Server
      BY LinkFacts
    <2> QED
      BY <1>5, <1>6, <2>1, LinkUpdate
  <1>8. net' \in [End -> Seq(Msg)]
    <2>1. <<>> \in Seq(Msg)
      OBVIOUS
    <2> QED
      BY <2>1, <1>2, ReplyFacts DEF TypeOK, HandleResp
  <1> QED
    BY <1>7, <1>8 DEF HandleResp, TypeOK, disk

LEMMA IdleType == Idle \in Work
  BY ConstantsAssumption, EmptyEnvs DEF Idle, Work

LEMMA TypePush ==
    ASSUME TypeOK, NEW x \in End, HandlePush(x)
    PROVE  TypeOK'
  <1> DEFINE e == Packet(x).env
             s == x[2]
             from == PlanPush(Known(s, e.origin), SeqNo(e))
             q == PullMsg(e.origin, from, SeqNo(e))
             w == [Idle EXCEPT !.task = "push", !.origin = e.origin, !.envs = {e}]
  <1>1. Arrived(x, "push")
    BY DEF HandlePush
  <1>2. e \in Env /\ net[x] # <<>> /\ s \in Server
    BY <1>1, PacketTypes, EndFacts
  <1>3. e.origin \in Server /\ SeqNo(e) \in Nat
    BY <1>2, EnvFacts
  <1>4. from \in Nat
    BY <1>2, <1>3, KnownType DEF PlanPush
  <1>5. q \in Msg
    BY <1>3, <1>4, MsgTypes
  <1>6. w \in Work
    BY <1>2, <1>3, IdleType, EmptyEnvs DEF Work
  <1>7. exists' \in [Server -> BOOLEAN] /\ boot' \in [Server -> BOOLEAN]
    <2>1. exists' = [exists EXCEPT ![s] = TRUE] /\ boot' = [boot EXCEPT ![s] = @ \/ ~exists[s]]
      BY DEF HandlePush
    <2> QED
      BY <2>1, <1>2, Zenon DEF TypeOK
  <1>8. link' \in [End -> Link] /\ net' \in [End -> Seq(Msg)]
    <2>1. \/ /\ link' = [link EXCEPT ![x].pulling = @ \cup {e.origin}]
             /\ net' = Reply(x, OneIf(e.origin \notin link[x].pulling, q))
          \/ /\ link' = [link EXCEPT ![x].work = w]
             /\ net' = Reply(x, <<>>)
      BY DEF HandlePush
    <2> HIDE DEF e, q, w
    <2>2. OneIf(e.origin \notin link[x].pulling, q) \in Seq(Msg) /\ <<>> \in Seq(Msg)
      BY <1>5 DEF OneIf
    <2>3. link[x].pulling \cup {e.origin} \in SUBSET Server
      BY <1>3, LinkFacts
    <2> DEFINE P == link[x].pulling \cup {e.origin}
               out == OneIf(e.origin \notin link[x].pulling, q)
    <2>4. \/ link' = [link EXCEPT ![x].pulling = P] /\ net' = Reply(x, out)
          \/ link' = [link EXCEPT ![x].work = w] /\ net' = Reply(x, <<>>)
      BY <2>1
    <2> HIDE DEF P, out, s, from
    <2>5. link' \in [End -> Link]
      <3>1. P \in SUBSET Server /\ {} \in SUBSET Key
        BY <2>3 DEF P
      <3>2. /\ [link EXCEPT ![x].pulling = P] \in [End -> Link]
            /\ [link EXCEPT ![x].work = w] \in [End -> Link]
        BY <3>1, <1>6, LinkUpdate
      <3> QED
        BY <3>2, <2>4
    <2>6. net \in [End -> Seq(Msg)] /\ net[x] # <<>> /\ out \in Seq(Msg) /\ <<>> \in Seq(Msg)
      BY <2>2, <1>2 DEF TypeOK, out
    <2>7. Reply(x, out) \in [End -> Seq(Msg)] /\ Reply(x, <<>>) \in [End -> Seq(Msg)]
      BY <2>6, ReplyFacts
    <2> QED
      BY <2>4, <2>5, <2>7
  <1> QED
    BY <1>7, <1>8 DEF HandlePush, TypeOK

LEMMA TypeApply ==
    ASSUME TypeOK, NEW x \in End, ApplyNext(x)
    PROVE  TypeOK'
  <1> DEFINE s == x[2]
             w == link[x].work
             e == FirstOf(w.envs)
             left == IF Failed(Verdict(s, e)) THEN {} ELSE w.envs \ {e}
             ask == MissingKeys(s, e) \ link[x].asked
             v == IF w.task = "push" THEN Idle ELSE [w EXCEPT !.envs = left]
  <1>1. s \in Server /\ w \in Work /\ w.envs \in Envs /\ w.envs # {}
    BY EndFacts, LinkFacts DEF ApplyNext
  <1>2. e \in w.envs /\ e \in Env
    BY <1>1, FirstOfFacts, EnvsFacts
  <1>3. left \in Envs
    <2>1. left \in SUBSET w.envs
      OBVIOUS
    <2> HIDE DEF left, w
    <2> QED
      BY <1>1, <2>1, EnvsFacts
  <1>4. v \in Work
    BY <1>1, <1>3, IdleType DEF Work
  <1>5. ask \in SUBSET Key /\ IsFiniteSet(ask)
    BY <1>2, MissingKeysType, FS_Difference
  <1>6. /\ ApplyForeign(s, e)
        /\ link' = [link EXCEPT ![x].work = v, ![x].asked = @ \cup ask]
        /\ \E out \in SetToSeqs({AskMsg(k) : k \in ask}) : net' = Send(x, out)
        /\ UNCHANGED <<exists, boot, up, signed, faults>>
    BY DEF ApplyNext
  <1> HIDE DEF v, ask, e
  <1>7. PICK out \in SetToSeqs({AskMsg(k) : k \in ask}) : net' = Send(x, out)
    BY <1>6
  <1>8. out \in Seq(Msg)
    BY <1>5, AskFacts
  <1>9. net' \in [End -> Seq(Msg)]
    BY <1>7, <1>8, SendFacts DEF TypeOK
  <1>10. link' \in [End -> Link]
    <2>1. link[x].asked \cup ask \in SUBSET Key
      BY <1>5, LinkFacts
    <2> QED
      BY <1>6, <1>4, <2>1, LinkUpdate
  <1>11. /\ log' \in [Server -> Seq(Record)] /\ asg' \in [Server -> Envs]
         /\ heads' \in [Server -> [Server -> Nat]] /\ proofs' \in [Server -> SUBSET (Server \X Nat)]
         /\ keys' = keys
    BY <1>1, <1>2, <1>6, ApplyForeignType
  <1> QED
    BY <1>6, <1>9, <1>10, <1>11 DEF TypeOK

LEMMA TypeFinish ==
    ASSUME TypeOK, NEW x \in End, FinishResp(x)
    PROVE  TypeOK'
  <1> DEFINE s == x[2]
             w == link[x].work
             known == Known(s, w.origin)
             progressed == w.last > 0 /\ known >= w.last
             more == progressed /\ ~Condemned(s, w.origin) /\ known < w.max
             q == PullMsg(w.origin, known + 1, w.max)
             P == IF more THEN link[x].pulling \cup {w.origin} ELSE link[x].pulling
  <1>1. s \in Server /\ w.origin \in Server /\ w.max \in Nat
    BY EndFacts, LinkFacts
  <1>2. known \in Nat
    BY <1>1, KnownType
  <1>3. q \in Msg
    BY <1>1, <1>2, MsgTypes
  <1>4. P \in SUBSET Server
    BY <1>1, LinkFacts
  <1>5. /\ link' = [link EXCEPT ![x].work = Idle, ![x].pulling = P]
        /\ net' = Send(x, OneIf(more /\ w.origin \notin link[x].pulling, q))
        /\ boot' = [boot EXCEPT ![s] = @ /\ (more \/ ~progressed \/ BehindAPeer(s, link))]
        /\ UNCHANGED <<log, asg, heads, proofs, exists, keys, up, signed, faults>>
    BY DEF FinishResp
  <1> HIDE DEF P, q, more, progressed
  <1>6. link' \in [End -> Link]
    BY <1>4, <1>5, IdleType, LinkUpdate
  <1>7. net' \in [End -> Seq(Msg)]
    <2>1. OneIf(more /\ w.origin \notin link[x].pulling, q) \in Seq(Msg)
      BY <1>3 DEF OneIf
    <2> QED
      BY <1>5, <2>1, SendFacts DEF TypeOK
  <1>8. boot' \in [Server -> BOOLEAN]
    BY <1>1, <1>5, Zenon DEF TypeOK
  <1> QED
    BY <1>5, <1>6, <1>7, <1>8 DEF TypeOK

LEMMA TypeApplyCrash ==
    ASSUME TypeOK, NEW x \in End, ApplyCrash(x)
    PROVE  TypeOK'
  <1> DEFINE s == x[2]
             e == FirstOf(link[x].work.envs)
  <1>1. s \in Server /\ link[x].work.envs \in Envs /\ link[x].work.envs # {}
    BY EndFacts, LinkFacts DEF ApplyCrash
  <1>2. e \in Env
    BY <1>1, FirstOfFacts, EnvsFacts
  <1>3. e.origin \in Server /\ SeqNo(e) \in Nat /\ TagOf(e) \in Record
    BY <1>2, EnvFacts
  <1>4. /\ log' = [log EXCEPT ![s] = Append(@, TagOf(e))]
        /\ heads' \in {heads, [heads EXCEPT ![s] = Advance(@, e.origin, SeqNo(e))]}
        /\ DropConns({y[1] : y \in EndsOf(s)})
        /\ UNCHANGED <<asg, proofs, exists, boot, keys, signed>>
    BY DEF ApplyCrash
  <1> HIDE DEF e
  <1>5. heads' \in [Server -> [Server -> Nat]]
    <2>1. Advance(heads[s], e.origin, SeqNo(e)) \in [Server -> Nat]
      BY <1>1, <1>3, AdvanceType
    <2> QED
      BY <1>1, <1>4, <2>1 DEF TypeOK
  <1>6. log' \in [Server -> Seq(Record)]
    BY <1>1, <1>3, <1>4, AppendType
  <1> QED
    BY <1>4, <1>5, <1>6, DropConnsType DEF TypeOK

LEMMA TypeKeys ==
    ASSUME TypeOK, NEW x \in End, HandleAsk(x) \/ HandleKey(x)
    PROVE  TypeOK'
  <1>1. CASE HandleAsk(x)
    <2> DEFINE q == KeyMsg(Packet(x).key, Packet(x).key \in keys[x[2]])
    <2>1. Packet(x).key \in Key /\ net[x] # <<>>
      BY <1>1, PacketTypes DEF HandleAsk
    <2>2. q \in Msg
      <3>1. (Packet(x).key \in keys[x[2]]) \in BOOLEAN
        OBVIOUS
      <3> DEFINE h == Packet(x).key \in keys[x[2]]
      <3> HIDE DEF h
      <3>2. KeyMsg(Packet(x).key, h) \in Msg
        BY <2>1, <3>1, MsgTypes, Zenon DEF h
      <3> QED
        BY <3>2 DEF h
    <2>3. net' = Reply(x, <<q>>)
      BY <1>1 DEF HandleAsk
    <2> HIDE DEF q
    <2>4. <<q>> \in Seq(Msg)
      BY <2>2
    <2>5. net' \in [End -> Seq(Msg)]
      BY <2>1, <2>3, <2>4, ReplyFacts DEF TypeOK
    <2> QED
      BY <1>1, <2>5 DEF HandleAsk, TypeOK, disk
  <1>2. CASE HandleKey(x)
    <2> DEFINE m == Packet(x)
               ks == [link EXCEPT ![x].asked = @ \ {m.key}]
    <2>1. m.key \in Key /\ m.held \in BOOLEAN /\ net[x] # <<>> /\ x[2] \in Server
      BY <1>2, PacketTypes, EndFacts DEF HandleKey
    <2> HIDE DEF m
    <2>2. ks \in [End -> Link]
      <3> DEFINE K == link[x].asked \ {m.key}
      <3>1. K \in SUBSET Key
        BY LinkFacts
      <3> HIDE DEF K
      <3>2. [link EXCEPT ![x].asked = K] \in [End -> Link]
        BY ZenonT(60), <3>1, LinkFacts DEF Link, TypeOK
      <3> QED
        BY <3>2 DEF K
    <2> HIDE DEF ks
    <2>3. keys' \in [Server -> SUBSET Key]
      <3>1. keys' = IF m.held THEN [keys EXCEPT ![x[2]] = @ \cup {m.key}] ELSE keys
        BY <1>2 DEF HandleKey, m
      <3> QED
        BY <3>1, <2>1 DEF TypeOK
    <2>4. /\ link' \in [End -> Link] /\ net' \in [End -> Seq(Msg)]
          /\ exists' \in [Server -> BOOLEAN] /\ boot' \in [Server -> BOOLEAN]
      <3>1. CASE \E a \in link[x].ann : StartPulls(x, a, ks)
        <4>1. PICK a \in link[x].ann : StartPulls(x, a, ks)
          BY <3>1
        <4>2. a \in Ann
          BY LinkFacts
        <4> QED
          BY <4>1, <4>2, <2>1, <2>2, StartPullsFacts
      <3>2. CASE link' = ks /\ net' = Reply(x, <<>>) /\ UNCHANGED <<exists, boot>>
        <4>1. <<>> \in Seq(Msg)
          OBVIOUS
        <4>2. net' \in [End -> Seq(Msg)]
          BY <3>2, <4>1, <2>1, ReplyFacts DEF TypeOK
        <4> QED
          BY <3>2, <4>2, <2>2 DEF TypeOK
      <3> QED
        BY <1>2, <3>1, <3>2 DEF HandleKey, ks, m
    <2> QED
      BY <1>2, <2>3, <2>4 DEF HandleKey, TypeOK
  <1> QED
    BY <1>1, <1>2

LEMMA TypeRollback ==
    ASSUME TypeOK, NEW s \in Server, Rollback(s)
    PROVE  TypeOK'
  <1>1. PICK n \in DOMAIN log[s] :
            /\ log' = [log EXCEPT ![s] = SubSeq(@, 1, n - 1)]
            /\ asg' = [asg EXCEPT ![s] = {e \in @ : \E i \in 1 .. n - 1 : log[s][i] = TagOf(e)}]
    BY DEF Rollback
  <1>2. log[s] \in Seq(Record) /\ asg[s] \in Envs
    BY DEF TypeOK
  <1>3. SubSeq(log[s], 1, n - 1) \in Seq(Record)
    <2>1. n \in 1 .. Len(log[s])
      BY <1>2
    <2>2. \A i \in 1 .. n - 1 : log[s][i] \in Record
      BY <1>2, <2>1
    <2> QED
      BY <1>2, <2>1, <2>2, SubSeqProperties
  <1>4. {e \in asg[s] : \E i \in 1 .. n - 1 : log[s][i] = TagOf(e)} \in Envs
    <2> DEFINE kept == {e \in asg[s] : \E i \in 1 .. n - 1 : log[s][i] = TagOf(e)}
    <2>1. kept \in SUBSET asg[s]
      OBVIOUS
    <2> HIDE DEF kept
    <2>2. kept \in Envs
      BY <1>2, <2>1, EnvsFacts
    <2> QED
      BY <2>2 DEF kept
  <1>5. faults' \in 0 .. MaxFaults
    BY ConstantsAssumption DEF Rollback, TypeOK
  <1> QED
    BY <1>1, <1>3, <1>4, <1>5 DEF Rollback, TypeOK

LEMMA NextType == TypeOK /\ [Next]_vars => TypeOK'
  <1> SUFFICES ASSUME TypeOK, [Next]_vars PROVE TypeOK'
    OBVIOUS
  <1>1. CASE UNCHANGED vars
    BY <1>1 DEF vars, TypeOK
  <1>2. ASSUME NEW c \in Conn, Connect(c) \/ Disconnect(c) PROVE TypeOK'
    BY <1>2, TypeConnect
  <1>3. ASSUME NEW s \in Server, NEW r \in Record, Commit(s, r) \/ CommitCrash(s, r) PROVE TypeOK'
    BY <1>3, TypeCommit
  <1>4. ASSUME NEW x \in End, Handle(x) \/ Announce(x) \/ ApplyCrash(x) PROVE TypeOK'
    BY <1>4, TypeHello, TypeHeads, TypePull, TypeResp, TypePush, TypeApply, TypeFinish,
       TypeApplyCrash, TypeKeys DEF Handle
  <1>5. ASSUME NEW s \in Server, Rollback(s) PROVE TypeOK'
    BY <1>5, TypeRollback
  <1> QED
    BY <1>1, <1>2, <1>3, <1>4, <1>5 DEF Next

\* Every variable of the replication protocol keeps its type, and every set of envelopes
\* kept, sent or being applied stays finite, so that the largest sequence held of an origin
\* exists whenever the code asks for it.
THEOREM TypeCorrect == Spec => []TypeOK
  BY InitType, NextType, PTL DEF Spec

-----------------------------------------------------------------------------
(* What a step does to the logs *)

LEMMA DiskSteps ==
    ASSUME [Next]_vars
    PROVE  \/ UNCHANGED <<log, asg, heads, proofs, signed>>
           \/ \E s \in Server, r \in Record : Commit(s, r) \/ CommitCrash(s, r)
           \/ \E x \in End : ApplyNext(x) \/ ApplyCrash(x)
           \/ \E s \in Server : Rollback(s)
  <1> DEFINE Same == UNCHANGED <<log, asg, heads, proofs, signed>>
  <1>1. UNCHANGED vars => Same
    BY DEF vars
  <1>2. \A c \in Conn : Connect(c) \/ Disconnect(c) => Same
    BY DEF Connect, Disconnect, disk
  <1>3. \A x \in End : HandleHello(x) \/ Announce(x) \/ HandleHeads(x) \/ HandlePull(x) => Same
    BY DEF HandleHello, Announce, HandleHeads, HandlePull, disk
  <1>4. \A x \in End : HandleResp(x) \/ HandlePush(x) \/ FinishResp(x) => Same
    BY DEF HandleResp, HandlePush, FinishResp, disk
  <1>5. \A x \in End : HandleAsk(x) \/ HandleKey(x) => Same
    BY DEF HandleAsk, HandleKey, disk
  <1> HIDE DEF Same
  <1>6. CASE UNCHANGED vars
    BY <1>1, <1>6 DEF Same
  <1>7. ASSUME NEW x \in End, Handle(x) \/ Announce(x) \/ ApplyCrash(x)
        PROVE  Same \/ ApplyNext(x) \/ ApplyCrash(x)
    BY <1>3, <1>4, <1>5, <1>7 DEF Handle
  <1>8. Next => \/ \E c \in Conn : Connect(c) \/ Disconnect(c)
                \/ \E s \in Server, r \in Record : Commit(s, r) \/ CommitCrash(s, r)
                \/ \E x \in End : Handle(x) \/ Announce(x) \/ ApplyCrash(x)
                \/ \E s \in Server : Rollback(s)
    BY DEF Next
  <1> QED
    BY <1>2, <1>6, <1>7, <1>8 DEF Same

\* The envelope a turn of apply_envelopes works on.
LEMMA WorkFacts ==
    ASSUME TypeOK, NEW x \in End, link[x].work.envs # {}
    PROVE  LET e == FirstOf(link[x].work.envs)
           IN  /\ x[2] \in Server /\ e \in link[x].work.envs /\ e \in Env
               /\ e.origin \in Server /\ SeqNo(e) \in Nat \ {0} /\ TagOf(e) \in Record
  <1>1. link[x].work.envs \in Envs
    BY LinkFacts
  <1>2. /\ FirstOf(link[x].work.envs) \in link[x].work.envs
        /\ FirstOf(link[x].work.envs) \in Env
    BY <1>1, FirstOfFacts, EnvsFacts
  <1> QED
    BY <1>2, EnvFacts, EndFacts

\* What made a foreign record applied.
LEMMA AppliedFacts ==
    ASSUME NEW s, NEW e, Verdict(s, e) = "applied"
    PROVE  /\ e.origin \in keys[s] /\ SignerOf[TagOf(e)] \in keys[s]
           /\ e.origin # s /\ ~Condemned(s, e.origin) /\ ~Conflicts(s, e)
           /\ TagOf(e) \notin Held(s) /\ OpOf[TagOf(e)] \notin HeldOps(s)
  BY DEF Verdict, EvaluateForeign

\* A log changes by one record that brings a new operation, or loses its tail.
LEMMA LogSteps ==
    ASSUME TypeOK, [Next]_vars, NEW s \in Server
    PROVE  \/ log'[s] = log[s]
           \/ \E r \in Record : OpOf[r] \notin HeldOps(s) /\ log'[s] = Append(log[s], r)
           \/ s \in RollbackServers /\ \E n \in DOMAIN log[s] : log'[s] = SubSeq(log[s], 1, n - 1)
  <1>1. CASE UNCHANGED <<log, asg, heads, proofs, signed>>
    BY <1>1
  <1>2. ASSUME NEW t \in Server, NEW r \in Record, Commit(t, r) \/ CommitCrash(t, r)
        PROVE  log'[s] = log[s] \/ (OpOf[r] \notin HeldOps(s) /\ log'[s] = Append(log[s], r))
    <2>1. log' = [log EXCEPT ![t] = Append(@, r)] /\ OpOf[r] \notin HeldOps(t)
      BY <1>2 DEF Commit, CommitCrash, CanCommit
    <2> QED
      BY <2>1 DEF TypeOK
  <1>3. ASSUME NEW x \in End, ApplyNext(x) \/ ApplyCrash(x)
        PROVE  \/ log'[s] = log[s]
               \/ \E r \in Record : OpOf[r] \notin HeldOps(s) /\ log'[s] = Append(log[s], r)
    <2> DEFINE e == FirstOf(link[x].work.envs)
    <2>1. link[x].work.envs # {}
      BY <1>3 DEF ApplyNext, ApplyCrash
    <2>2. x[2] \in Server /\ TagOf(e) \in Record
      BY <2>1, WorkFacts
    <2>3. log' = log \/ (Verdict(x[2], e) = "applied" /\ log' = [log EXCEPT ![x[2]] = Append(@, TagOf(e))])
      BY <1>3 DEF ApplyNext, ApplyForeign, ApplyCrash
    <2>4. Verdict(x[2], e) = "applied" => OpOf[TagOf(e)] \notin HeldOps(x[2])
      BY AppliedFacts
    <2> HIDE DEF e
    <2> QED
      BY <2>2, <2>3, <2>4 DEF TypeOK
  <1>4. ASSUME NEW t \in Server, Rollback(t)
        PROVE  \/ log'[s] = log[s]
               \/ s \in RollbackServers /\ \E n \in DOMAIN log[s] : log'[s] = SubSeq(log[s], 1, n - 1)
    <2>1. PICK n \in DOMAIN log[t] : log' = [log EXCEPT ![t] = SubSeq(@, 1, n - 1)]
      BY <1>4 DEF Rollback
    <2>2. t \in RollbackServers
      BY <1>4 DEF Rollback
    <2> QED
      BY <2>1, <2>2 DEF TypeOK
  <1> QED
    BY <1>1, <1>2, <1>3, <1>4, DiskSteps

-----------------------------------------------------------------------------
(* One record per operation *)

Distinct(q) == \A i, j \in DOMAIN q : OpOf[q[i]] = OpOf[q[j]] => i = j

LEMMA DistinctAppend ==
    ASSUME NEW q \in Seq(Record), NEW r \in Record, Distinct(q),
           \A i \in DOMAIN q : OpOf[q[i]] # OpOf[r]
    PROVE  Distinct(Append(q, r))
  <1>1. /\ DOMAIN q = 1 .. Len(q) /\ DOMAIN Append(q, r) = 1 .. Len(q) + 1 /\ Len(q) \in Nat
        /\ \A i \in 1 .. Len(q) : Append(q, r)[i] = q[i]
        /\ Append(q, r)[Len(q) + 1] = r
    BY AppendProperties
  <1>2. \A i \in 1 .. Len(q) + 1 : i \in 1 .. Len(q) \/ i = Len(q) + 1
    BY <1>1
  <1> DEFINE p == Append(q, r)
  <1> HIDE DEF p
  <1>3. SUFFICES ASSUME NEW i \in 1 .. Len(q) + 1, NEW j \in 1 .. Len(q) + 1, OpOf[p[i]] = OpOf[p[j]]
                 PROVE  i = j
    BY <1>1 DEF Distinct, p
  <1>4. CASE i \in 1 .. Len(q) /\ j \in 1 .. Len(q)
    BY <1>1, <1>3, <1>4 DEF Distinct, p
  <1>5. CASE i = Len(q) + 1 \/ j = Len(q) + 1
    BY <1>1, <1>2, <1>3, <1>5 DEF p
  <1> QED
    BY <1>2, <1>4, <1>5

LEMMA DistinctPrefix ==
    ASSUME NEW q \in Seq(Record), NEW n \in DOMAIN q, Distinct(q)
    PROVE  Distinct(SubSeq(q, 1, n - 1))
  <1>1. n \in 1 .. Len(q) /\ Len(q) \in Nat
    OBVIOUS
  <1>2. /\ DOMAIN SubSeq(q, 1, n - 1) = 1 .. n - 1
        /\ \A i \in 1 .. n - 1 : SubSeq(q, 1, n - 1)[i] = q[i]
    BY <1>1
  <1>3. 1 .. n - 1 \subseteq DOMAIN q
    BY <1>1
  <1> QED
    BY <1>2, <1>3 DEF Distinct

LEMMA OpsOnceStep == TypeOK /\ OpsOnce /\ [Next]_vars => OpsOnce'
  <1> SUFFICES ASSUME TypeOK, OpsOnce, [Next]_vars, NEW s \in Server
               PROVE  Distinct(log'[s])
    BY DEF OpsOnce, Distinct
  <1>1. Distinct(log[s]) /\ log[s] \in Seq(Record)
    BY DEF OpsOnce, Distinct, TypeOK
  <1>2. ASSUME NEW r \in Record, OpOf[r] \notin HeldOps(s), log'[s] = Append(log[s], r)
        PROVE  Distinct(log'[s])
    BY <1>1, <1>2, DistinctAppend DEF HeldOps, Held
  <1>3. ASSUME NEW n \in DOMAIN log[s], log'[s] = SubSeq(log[s], 1, n - 1)
        PROVE  Distinct(log'[s])
    BY <1>1, <1>3, DistinctPrefix
  <1> QED
    BY <1>1, <1>2, <1>3, LogSteps

\* No replica ever holds two records of one operation: both evaluate rules look the op id up
\* in the whole log, so neither a commit, a push, a pull, a crash between the two writes nor a
\* truncation can bring a second one.
THEOREM OperationsAppliedOnce == Spec => []OpsOnce
  <1>1. Init => OpsOnce
    BY DEF Init, OpsOnce
  <1> QED
    BY <1>1, OpsOnceStep, TypeCorrect, PTL DEF Spec
-----------------------------------------------------------------------------
(* Stored heads *)

LEMMA HeadsStep ==
    ASSUME TypeOK, [Next]_vars, NEW s \in Server, NEW o \in Server
    PROVE  heads[s][o] <= heads'[s][o]
  <1>1. heads[s][o] \in Nat
    BY DEF TypeOK
  <1>2. CASE heads' = heads
    BY <1>1, <1>2
  <1>3. ASSUME NEW x \in End, ApplyNext(x) \/ ApplyCrash(x)
        PROVE  heads[s][o] <= heads'[s][o]
    <2> DEFINE e == FirstOf(link[x].work.envs)
               h == Advance(heads[x[2]], e.origin, SeqNo(e))
    <2>1. link[x].work.envs # {}
      BY <1>3 DEF ApplyNext, ApplyCrash
    <2>2. x[2] \in Server /\ e.origin \in Server /\ SeqNo(e) \in Nat
      BY <2>1, WorkFacts
    <2>3. heads' = heads \/ heads' = [heads EXCEPT ![x[2]] = h]
      BY <1>3 DEF ApplyNext, ApplyForeign, ApplyCrash
    <2> HIDE DEF e
    <2>4. heads[x[2]] \in [Server -> Nat] /\ heads \in [Server -> [Server -> Nat]]
      BY <2>2 DEF TypeOK
    <2>5. heads[x[2]][o] <= h[o]
      BY <2>2, <2>4 DEF Advance
    <2> QED
      BY <1>1, <2>2, <2>3, <2>4, <2>5
  <1>4. \/ heads' = heads
        \/ \E x \in End : ApplyNext(x) \/ ApplyCrash(x)
    BY DiskSteps DEF Commit, CommitCrash, Rollback
  <1> QED
    BY <1>2, <1>3, <1>4

\* The head a replica stores of an origin never moves back, in no interleaving of pushes,
\* pulls, crashes and truncations (storage_heads::advance).
THEOREM HeadsNeverMoveBack == Spec => HeadsOnlyAdvance
  <1>1. TypeOK /\ [Next]_vars => [\A s, o \in Server : heads[s][o] <= heads'[s][o]]_vars
    BY HeadsStep
  <1> QED
    BY <1>1, TypeCorrect, PTL DEF Spec, HeadsOnlyAdvance

-----------------------------------------------------------------------------
(* Where assignments, keys and packets come from *)

\* An assignment kept was kept before, taken from a verified envelope being applied, or signed
\* by the server itself.
LEMMA AsgSteps ==
    ASSUME TypeOK, [Next]_vars, NEW s \in Server, NEW e \in asg'[s]
    PROVE  \/ e \in asg[s]
           \/ /\ e.origin \in keys[s] /\ SignerOf[TagOf(e)] \in keys[s]
              /\ \E x \in End : e \in link[x].work.envs
           \/ /\ e.origin = s /\ SignerOf[TagOf(e)] \in keys[s]
              /\ e \in signed'
  <1>1. CASE UNCHANGED <<log, asg, heads, proofs, signed>>
    BY <1>1
  <1>2. ASSUME NEW t \in Server, NEW r \in Record, Commit(t, r)
        PROVE  \/ e \in asg[s]
               \/ e.origin = s /\ SignerOf[TagOf(e)] \in keys[s] /\ e \in signed'
    <2> DEFINE f == [origin |-> t, chain |-> Append(log[t], r)]
    <2>1. asg' = [asg EXCEPT ![t] = @ \cup {f}] /\ f \in signed' /\ SignerOf[r] \in keys[t]
      BY <1>2 DEF Commit, CanCommit
    <2>2. TagOf(f) = r
      BY DEF TagOf, TypeOK
    <2>3. f.origin = t
      OBVIOUS
    <2> HIDE DEF f
    <2> QED
      BY <2>1, <2>2, <2>3 DEF TypeOK
  <1>3. ASSUME NEW x \in End, ApplyNext(x)
        PROVE  \/ e \in asg[s]
               \/ /\ e.origin \in keys[s] /\ SignerOf[TagOf(e)] \in keys[s]
                  /\ e \in link[x].work.envs
    <2> DEFINE f == FirstOf(link[x].work.envs)
    <2>1. f \in link[x].work.envs /\ x[2] \in Server
      BY <1>3, WorkFacts DEF ApplyNext
    <2>2. asg' = asg \/ (Verdict(x[2], f) = "applied" /\ asg' = [asg EXCEPT ![x[2]] = @ \cup {f}])
      BY <1>3 DEF ApplyNext, ApplyForeign
    <2>3. Verdict(x[2], f) = "applied" => f.origin \in keys[x[2]] /\ SignerOf[TagOf(f)] \in keys[x[2]]
      BY AppliedFacts
    <2> HIDE DEF f
    <2>4. CASE asg' = [asg EXCEPT ![x[2]] = @ \cup {f}] /\ Verdict(x[2], f) = "applied"
      <3>1. e \in asg[s] \/ (s = x[2] /\ e = f)
        BY <2>1, <2>4 DEF TypeOK
      <3> QED
        BY <3>1, <2>1, <2>3, <2>4
    <2> QED
      BY <2>2, <2>4
  <1>4. ASSUME NEW t \in Server, Rollback(t)
        PROVE  e \in asg[s]
    <2>1. PICK n \in DOMAIN log[t] :
              asg' = [asg EXCEPT ![t] = {f \in @ : \E i \in 1 .. n - 1 : log[t][i] = TagOf(f)}]
      BY <1>4 DEF Rollback
    <2> QED
      BY <2>1 DEF TypeOK
  <1>5. \A t \in Server, r \in Record : CommitCrash(t, r) => asg' = asg
    BY DEF CommitCrash
  <1>6. \A x \in End : ApplyCrash(x) => asg' = asg
    BY DEF ApplyCrash
  <1> QED
    BY <1>1, <1>2, <1>3, <1>4, <1>5, <1>6, DiskSteps

\* Only a commit signs, and nothing signed is taken back; no key is forgotten.
LEMMA SignedSteps ==
    ASSUME [Next]_vars
    PROVE  \/ signed' = signed
           \/ \E s \in Server, r \in Record : Commit(s, r) /\
                signed' = signed \cup {[origin |-> s, chain |-> Append(log[s], r)]}
  <1>1. \A s \in Server, r \in Record :
            Commit(s, r) => signed' = signed \cup {[origin |-> s, chain |-> Append(log[s], r)]}
    BY DEF Commit
  <1>2. \A s \in Server, r \in Record : CommitCrash(s, r) => signed' = signed
    BY DEF CommitCrash
  <1>3. \A x \in End : ApplyNext(x) \/ ApplyCrash(x) => signed' = signed
    BY DEF ApplyNext, ApplyCrash
  <1>4. \A s \in Server : Rollback(s) => signed' = signed
    BY DEF Rollback
  <1> QED
    BY <1>1, <1>2, <1>3, <1>4, DiskSteps

LEMMA KeysGrow ==
    ASSUME TypeOK, [Next]_vars, NEW s \in Server
    PROVE  keys[s] \subseteq keys'[s]
  <1>1. \A x \in End : HandleHello(x) => keys[s] \subseteq keys'[s]
    BY EndFacts DEF HandleHello, TypeOK
  <1>2. \A x \in End : HandleKey(x) => keys[s] \subseteq keys'[s]
    BY EndFacts DEF HandleKey, TypeOK
  <1>3. \A x \in End : HandleHeads(x) \/ HandlePull(x) \/ HandleResp(x) \/ HandlePush(x) \/ FinishResp(x)
            => keys' = keys
    BY DEF HandleHeads, HandlePull, HandleResp, HandlePush, FinishResp, disk
  <1>4. \A x \in End : HandleAsk(x) \/ Announce(x) \/ ApplyNext(x) \/ ApplyCrash(x) => keys' = keys
    BY DEF HandleAsk, Announce, ApplyNext, ApplyForeign, ApplyCrash, disk
  <1>5. \A c \in Conn : Connect(c) \/ Disconnect(c) => keys' = keys
    BY DEF Connect, Disconnect, disk
  <1>6. \A t \in Server : Rollback(t) => keys' = keys
    BY DEF Rollback
  <1>7. \A t \in Server, r \in Record : Commit(t, r) \/ CommitCrash(t, r) => keys' = keys
    BY DEF Commit, CommitCrash
  <1>8. UNCHANGED vars => keys' = keys
    BY DEF vars
  <1>9. \A x \in End : Handle(x) \/ Announce(x) \/ ApplyCrash(x) => keys[s] \subseteq keys'[s]
    BY <1>1, <1>2, <1>3, <1>4 DEF Handle
  <1> QED
    BY <1>5, <1>6, <1>7, <1>8, <1>9 DEF Next

\* The envelopes an end is applying stay, go, lose the one that was applied, or were just
\* received at that end.
LEMMA WorkSets ==
    ASSUME TypeOK, [Next]_vars, NEW y \in End
    PROVE  \/ link'[y].work.envs \in {link[y].work.envs, {}}
           \/ /\ ApplyNext(y) /\ ~Failed(Verdict(y[2], FirstOf(link[y].work.envs)))
              /\ link'[y].work.envs = link[y].work.envs \ {FirstOf(link[y].work.envs)}
           \/ \E m \in Range(net[y]) : m.type = "resp" /\ link'[y].work.envs = m.envs
           \/ \E m \in Range(net[y]) :
                 /\ m.type = "push" /\ link'[y].work.envs = {m.env}
                 /\ SeqNo(m.env) <= Known(y[2], m.env.origin) + 1
  <1> DEFINE Same == link'[y].work = link[y].work
             Fresh == link'[y] = FreshEnd
             Fewer == link'[y].work.envs \in {link[y].work.envs, {}}
             Next1 == /\ ApplyNext(y) /\ ~Failed(Verdict(y[2], FirstOf(link[y].work.envs)))
                      /\ link'[y].work.envs = link[y].work.envs \ {FirstOf(link[y].work.envs)}
             Answer == \E m \in Range(net[y]) : m.type = "resp" /\ link'[y].work.envs = m.envs
             Pushed == \E m \in Range(net[y]) :
                          /\ m.type = "push" /\ link'[y].work.envs = {m.env}
                          /\ SeqNo(m.env) <= Known(y[2], m.env.origin) + 1
  <1>1. Fresh => Fewer
    BY DEF FreshEnd, Idle
  <1>2. Same => Fewer
    OBVIOUS
  <1>3. \A c \in Conn : Connect(c) \/ Disconnect(c) => Fewer
    <2>1. \A c \in Conn : Connect(c) => Same
      BY DEF Connect
    <2>2. \A c \in Conn : Disconnect(c) => Same \/ Fresh
      BY DEF Disconnect, DropConns
    <2> HIDE DEF Same, Fresh, Fewer
    <2> QED
      BY <2>1, <2>2, <1>1, <1>2
  <1>4. \A s \in Server, r \in Record : Commit(s, r) \/ CommitCrash(s, r) => Fewer
    <2>1. \A s \in Server, r \in Record : Commit(s, r) => Same
      BY DEF Commit
    <2>2. \A s \in Server, r \in Record : CommitCrash(s, r) => Same \/ Fresh
      BY DEF CommitCrash, DropConns
    <2> HIDE DEF Same, Fresh, Fewer
    <2> QED
      BY <2>1, <2>2, <1>1, <1>2
  <1>5. \A s \in Server : Rollback(s) => Fewer
    BY DEF Rollback
  <1>6. ASSUME NEW x \in End, HandleHello(x) \/ Announce(x) \/ HandlePull(x) \/ HandleAsk(x)
        PROVE  Fewer
    <2>1. link' = link \/ link' = [link EXCEPT ![x].ready = TRUE]
      BY <1>6 DEF HandleHello, Announce, HandlePull, HandleAsk
    <2>2. CASE link' = [link EXCEPT ![x].ready = TRUE]
      <3>1. link'[y] = link[y] \/ link'[y] = [link[y] EXCEPT !.ready = TRUE]
        BY <2>2 DEF TypeOK
      <3>2. link[y] \in Link
        BY LinkFacts
      <3> QED
        BY <3>1, <3>2 DEF Link
    <2> QED
      BY <2>1, <2>2, <1>2
  <1>7. ASSUME NEW x \in End, HandleHeads(x)
        PROVE  Fewer
    <2> DEFINE a == Packet(x).ann
               ks == [link EXCEPT ![x].ann = {a}]
    <2>1. Arrived(x, "heads") /\ StartPulls(x, a, ks)
      BY <1>7 DEF HandleHeads
    <2>2. a \in Ann /\ net[x] # <<>>
      BY <2>1, PacketTypes
    <2>3. ks \in [End -> Link] /\ ks[y].work = link[y].work
      BY ZenonT(60), <2>2, LinkFacts DEF TypeOK, Link
    <2> HIDE DEF a, ks
    <2> QED
      BY <2>1, <2>2, <2>3, StartPullsFacts
  <1>8. ASSUME NEW x \in End, HandleKey(x)
        PROVE  Fewer
    <2> DEFINE K == link[x].asked \ {Packet(x).key}
               ks == [link EXCEPT ![x].asked = K]
    <2>1. Arrived(x, "key") /\ (link' = ks \/ \E a \in link[x].ann : StartPulls(x, a, ks))
      BY <1>8 DEF HandleKey
    <2>2. net[x] # <<>>
      BY <2>1 DEF Arrived
    <2>3. ks \in [End -> Link] /\ ks[y].work = link[y].work
      <3>1. K \in SUBSET Key
        BY LinkFacts
      <3> HIDE DEF K
      <3> QED
        BY ZenonT(60), <3>1, LinkFacts DEF TypeOK, Link
    <2> HIDE DEF ks
    <2>4. ASSUME NEW a \in link[x].ann, StartPulls(x, a, ks) PROVE Fewer
      <3>1. a \in Ann
        BY LinkFacts
      <3> QED
        BY <2>2, <2>3, <2>4, <3>1, StartPullsFacts
    <2> QED
      BY <2>1, <2>3, <2>4
  <1>9. ASSUME NEW x \in End, FinishResp(x)
        PROVE  Fewer
    <2>1. link'[y] = link[y] \/ link'[y].work = Idle
      BY <1>9, LinkFacts DEF FinishResp, TypeOK, Link
    <2> QED
      BY <2>1 DEF Idle
  <1>10. ASSUME NEW x \in End, ApplyNext(x)
         PROVE  Fewer \/ Next1
    <2> DEFINE w == link[x].work
               f == FirstOf(w.envs)
               left == IF Failed(Verdict(x[2], f)) THEN {} ELSE w.envs \ {f}
               v == IF w.task = "push" THEN Idle ELSE [w EXCEPT !.envs = left]
               K == link[x].asked \cup (MissingKeys(x[2], f) \ link[x].asked)
    <2>1. link' = [link EXCEPT ![x].work = v, ![x].asked = K]
      BY <1>10 DEF ApplyNext
    <2>2. v.envs \in {{}, left}
      BY LinkFacts DEF Idle, Work
    <2> HIDE DEF v, K
    <2>3. link'[y].work = link[y].work \/ (y = x /\ link'[y].work = v)
      BY <2>1, LinkFacts DEF TypeOK, Link
    <2>4. CASE y = x /\ link'[y].work = v
      BY <1>10, <2>2, <2>4
    <2> QED
      BY <2>3, <2>4
  <1>11. ASSUME NEW x \in End, ApplyCrash(x)
         PROVE  Fewer
    <2>1. Same \/ Fresh
      BY <1>11 DEF ApplyCrash, DropConns
    <2> QED
      BY <2>1, <1>1
  <1>12. ASSUME NEW x \in End, HandleResp(x)
         PROVE  Fewer \/ Answer
    <2> DEFINE m == Packet(x)
               v == [task |-> "resp", origin |-> m.origin, envs |-> m.envs, max |-> m.max,
                     last |-> Max({0} \cup {SeqNo(f) : f \in m.envs})]
               P == link[x].pulling \ {m.origin}
    <2>1. link' = [link EXCEPT ![x].pulling = P, ![x].work = v]
      BY <1>12 DEF HandleResp
    <2>2. m \in Range(net[x]) /\ m.type = "resp"
      BY <1>12, PacketTypes DEF HandleResp
    <2>3. v.envs = m.envs
      OBVIOUS
    <2> HIDE DEF v, P, m
    <2>4. link'[y].work = link[y].work \/ (y = x /\ link'[y].work = v)
      BY <2>1, LinkFacts DEF TypeOK, Link
    <2> QED
      BY <2>2, <2>3, <2>4
  <1>13. ASSUME NEW x \in End, HandlePush(x)
         PROVE  Fewer \/ Pushed
    <2> DEFINE m == Packet(x)
               v == [Idle EXCEPT !.task = "push", !.origin = m.env.origin, !.envs = {m.env}]
               P == link[x].pulling \cup {m.env.origin}
    <2>1. \/ link' = [link EXCEPT ![x].pulling = P]
          \/ /\ PlanPush(Known(x[2], m.env.origin), SeqNo(m.env)) = 0
             /\ link' = [link EXCEPT ![x].work = v]
      BY <1>13 DEF HandlePush
    <2>2. m \in Range(net[x]) /\ m.type = "push" /\ m.env \in Env /\ x[2] \in Server
      BY <1>13, PacketTypes, EndFacts DEF HandlePush
    <2>3. v.envs = {m.env}
      BY DEF Idle
    <2>4. PlanPush(Known(x[2], m.env.origin), SeqNo(m.env)) = 0
            => SeqNo(m.env) <= Known(x[2], m.env.origin) + 1
      <3>1. SeqNo(m.env) \in Nat /\ Known(x[2], m.env.origin) \in Nat
        BY <2>2, EnvFacts, KnownType
      <3> QED
        BY <3>1 DEF PlanPush
    <2> HIDE DEF v, P, m
    <2>5. \/ link'[y].work = link[y].work
          \/ /\ y = x /\ link'[y].work = v
             /\ SeqNo(m.env) <= Known(x[2], m.env.origin) + 1
      BY <2>1, <2>4, LinkFacts DEF TypeOK, Link
    <2> QED
      BY <2>2, <2>3, <2>5
  <1>14. UNCHANGED vars => Fewer
    BY DEF vars
  <1> HIDE DEF Same, Fresh, Fewer, Next1, Answer, Pushed
  <1>15. ASSUME NEW x \in End, Handle(x) \/ Announce(x) \/ ApplyCrash(x)
         PROVE  Fewer \/ Next1 \/ Answer \/ Pushed
    BY <1>15, <1>6, <1>7, <1>8, <1>9, <1>10, <1>11, <1>12, <1>13 DEF Handle
  <1>16. Fewer \/ Next1 \/ Answer \/ Pushed
    BY <1>3, <1>4, <1>5, <1>14, <1>15 DEF Next
  <1> QED
    BY <1>16 DEF Fewer, Next1, Answer, Pushed

\* An envelope being applied was so before, or was just received at that end.
LEMMA WorkSteps ==
    ASSUME TypeOK, [Next]_vars, NEW y \in End, NEW e \in link'[y].work.envs
    PROVE  \/ e \in link[y].work.envs
           \/ \E m \in Range(net[y]) : \/ m.type = "resp" /\ e \in m.envs
                                       \/ m.type = "push" /\ e = m.env
  BY WorkSets

\* What an action puts on its way to an end: one packet m after those that were there, or one
\* of a set of them.
LEMMA Delivered ==
    ASSUME TypeOK, NEW x \in End, NEW out \in Seq(Msg), NEW y \in End, NEW m \in Range(net'[y]),
           net' = Send(x, out) \/ (net[x] # <<>> /\ net' = Reply(x, out))
    PROVE  m \in Range(net[y]) \/ (y = Peer(x) /\ x = Peer(y) /\ m \in Range(out))
  <1>1. net \in [End -> Seq(Msg)]
    BY DEF TypeOK
  <1>2. Range(net'[y]) \subseteq Range(net[y]) \cup (IF y = Peer(x) THEN Range(out) ELSE {})
    BY <1>1, SendFacts, ReplyFacts
  <1> QED
    BY <1>2, EndFacts

LEMMA EmptyOut == <<>> \in Seq(Msg) /\ Range(<<>>) = {}
  BY DEF Range

LEMMA DeliveredOne ==
    ASSUME TypeOK, NEW x \in End, NEW q \in Msg, NEW y \in End, NEW m \in Range(net'[y]), NEW out,
           out = <<q>> \/ out = <<>>,
           net' = Send(x, out) \/ (net[x] # <<>> /\ net' = Reply(x, out))
    PROVE  m \in Range(net[y]) \/ (y = Peer(x) /\ x = Peer(y) /\ m = q)
  <1>1. <<q>> \in Seq(Msg) /\ Range(<<q>>) = {q}
    BY DEF Range
  <1>2. out \in Seq(Msg) /\ Range(out) \subseteq {q}
    BY <1>1, EmptyOut
  <1>3. m \in Range(net[y]) \/ (y = Peer(x) /\ x = Peer(y) /\ m \in Range(out))
    BY <1>2, Delivered
  <1> QED
    BY <1>2, <1>3

\* what server s asks for when it sends pull q: what comes after its head, or after a block it has
Asked(s, q) ==
    \/ q.from <= Known(s, q.origin) + 1
    \/ \E e \in asg[s] : e.origin = q.origin /\ q.from <= SeqNo(e) + 1
\* what server s sends for it
AnswerTo(s, q, es) ==
    LET rows == FirstRows(Rows(s, q.origin, q.from, q.upto))
    IN  es \subseteq rows /\ IsBatch(es, rows)

\* start_pulls asks for nothing beyond what it knows to hold.
LEMMA RequestsAsked ==
    ASSUME TypeOK, NEW s \in Server, NEW a \in Ann, NEW busy, NEW q \in PullRequests(s, a, busy)
    PROVE  Asked(s, q)
  <1>1. PICK o \in Server : \/ WantedFrom(s, o, a) > 0 /\ q = PullMsg(o, WantedFrom(s, o, a), a.heads[o])
                            \/ /\ DivergentSeq(s, o, a) > 0
                               /\ q = PullMsg(o, DivergentSeq(s, o, a), DivergentSeq(s, o, a))
    BY DEF PullRequests
  <1> DEFINE samples == Blocks(a.samples, o)
             own == Blocks(asg[s], o)
  <1>2. asg[s] \in Envs /\ a.samples \in Envs
    BY DEF TypeOK, Ann
  <1>3. /\ IsFiniteSet(own) /\ \A b \in samples : b.seq \in Nat
        /\ \A b \in own : b.seq \in Nat
    BY <1>2, BlocksFacts
  <1>4. \A b \in own : \E e \in asg[s] : e.origin = o /\ SeqNo(e) = b.seq
    BY DEF Blocks
  <1>5. /\ Known(s, o) \in Nat /\ CommonSeq(s, o, a) \in Nat /\ DivergentSeq(s, o, a) \in Nat
        /\ a.heads[o] \in Nat
    BY KnownType, SeqTypes
  <1>6. \A e \in asg[s] : SeqNo(e) \in Nat
    BY <1>2, EnvsFacts, EnvFacts
  <1> HIDE DEF samples, own
  <1>7. CASE WantedFrom(s, o, a) > 0 /\ q = PullMsg(o, WantedFrom(s, o, a), a.heads[o])
    <2>1. q.origin = o /\ q.from = WantedFrom(s, o, a)
      BY <1>7 DEF PullMsg
    <2>2. \/ q.from = Known(s, o) + 1
          \/ CommonSeq(s, o, a) # 0 /\ q.from = CommonSeq(s, o, a) + 1
      BY <1>5, <1>7, <2>1 DEF WantedFrom, PlanPull
    <2>3. CommonSeq(s, o, a) # 0 => \E b \in own : b.seq = CommonSeq(s, o, a)
      BY <1>3, BoundTypes DEF CommonSeq, samples, own
    <2>4. CASE CommonSeq(s, o, a) # 0 /\ q.from = CommonSeq(s, o, a) + 1
      <3>1. PICK e \in asg[s] : e.origin = o /\ SeqNo(e) = CommonSeq(s, o, a)
        BY <1>4, <2>3, <2>4
      <3> QED
        BY <1>5, <2>1, <2>4, <3>1 DEF Asked
    <2> QED
      BY <1>5, <2>1, <2>2, <2>4 DEF Asked
  <1>8. CASE /\ DivergentSeq(s, o, a) > 0
             /\ q = PullMsg(o, DivergentSeq(s, o, a), DivergentSeq(s, o, a))
    <2>1. q.origin = o /\ q.from = DivergentSeq(s, o, a)
      BY <1>8 DEF PullMsg
    <2>2. \E b \in own : b.seq = DivergentSeq(s, o, a)
      <3>1. Conflicting(samples, own) # {} /\ DivergentSeq(s, o, a) = Min(Conflicting(samples, own))
        BY <1>8 DEF DivergentSeq, FirstDivergent, samples, own
      <3>2. Conflicting(samples, own) \in SUBSET Nat
        BY <1>3 DEF Conflicting
      <3>3. DivergentSeq(s, o, a) \in Conflicting(samples, own)
        BY <3>1, <3>2, MinFacts
      <3> QED
        BY <3>3 DEF Conflicting
    <2>3. PICK e \in asg[s] : e.origin = o /\ SeqNo(e) = DivergentSeq(s, o, a)
      BY <1>4, <2>2
    <2> QED
      BY <1>5, <2>1, <2>3 DEF Asked
  <1> QED
    BY <1>1, <1>7, <1>8

\* Where the packets on their way to an end come from.
LEMMA NetSteps ==
    ASSUME TypeOK, [Next]_vars, NEW y \in End, NEW m \in Range(net'[y])
    PROVE  \/ m \in Range(net[y])
           \/ m.type \in {"hello", "heads"}
           \/ m.type = "pull" /\ Asked(Peer(y)[2], m)
           \/ /\ m.type = "resp" /\ m.envs \subseteq asg[Peer(y)[2]]
              /\ \E p \in Range(net[Peer(y)]) : p.type = "pull" /\ AnswerTo(Peer(y)[2], p, m.envs)
           \/ m.type = "push" /\ m.env \in asg'[Peer(y)[2]]
           \/ /\ m.type = "ask"
              /\ \E e \in link[Peer(y)].work.envs : m.key \in {e.origin, SignerOf[TagOf(e)]}
           \/ /\ m.type = "key"
              /\ \E a \in Range(net[Peer(y)]) :
                    a.type = "ask" /\ a.key = m.key /\ (a.key \in keys[Peer(y)[2]] => m.held)
  <1> DEFINE Old == m \in Range(net[y])
             Plain == m.type \in {"hello", "heads"}
             Pull == m.type = "pull" /\ Asked(Peer(y)[2], m)
             Resp == /\ m.type = "resp" /\ m.envs \subseteq asg[Peer(y)[2]]
                     /\ \E p \in Range(net[Peer(y)]) : p.type = "pull" /\ AnswerTo(Peer(y)[2], p, m.envs)
             Push == m.type = "push" /\ m.env \in asg'[Peer(y)[2]]
             Ask == /\ m.type = "ask"
                    /\ \E e \in link[Peer(y)].work.envs : m.key \in {e.origin, SignerOf[TagOf(e)]}
             Served == /\ m.type = "key"
                       /\ \E a \in Range(net[Peer(y)]) :
                            a.type = "ask" /\ a.key = m.key /\ (a.key \in keys[Peer(y)[2]] => m.held)
  <1>1. ASSUME NEW c \in Conn, Connect(c) PROVE Old \/ Plain
    <2>1. net'[y] = <<Hello>> \/ net'[y] = net[y]
      BY <1>1 DEF Connect
    <2>2. Range(<<Hello>>) = {Hello}
      BY RangeSingle
    <2> QED
      BY <2>1, <2>2 DEF Hello
  <1>2. ASSUME NEW cs, DropConns(cs) PROVE Old
    BY <1>2, DropConnsType
  <1>3. ASSUME NEW x \in End, HandleHello(x) \/ Announce(x) PROVE Old \/ Plain
    <2> DEFINE q == HeadsMsg(Announcement(x[2]))
    <2>1. q \in Msg /\ q.type = "heads" /\ exists[x[2]] \in BOOLEAN
      BY EndFacts, AnnouncementType, MsgTypes DEF HeadsMsg, TypeOK
    <2>2. (net[x] # <<>> /\ net' = Reply(x, OneIf(exists[x[2]], q))) \/ net' = Send(x, <<q>>)
      BY <1>3 DEF HandleHello, Announce, Arrived
    <2> HIDE DEF q
    <2>3. Old \/ m = q
      <3>1. PICK out : /\ out = <<q>> \/ out = <<>>
                       /\ net' = Send(x, out) \/ (net[x] # <<>> /\ net' = Reply(x, out))
        BY <2>2 DEF OneIf
      <3> QED
        BY <2>1, <3>1, DeliveredOne
    <2> QED
      BY <2>1, <2>3
  <1>4. ASSUME NEW x \in End, HandleHeads(x) PROVE Old \/ Pull
    <2> DEFINE a == Packet(x).ann
               ks == [link EXCEPT ![x].ann = {a}]
    <2>1. Arrived(x, "heads") /\ StartPulls(x, a, ks)
      BY <1>4 DEF HandleHeads
    <2>2. a \in Ann /\ net[x] # <<>>
      BY <2>1, PacketTypes
    <2>3. ks \in [End -> Link]
      BY ZenonT(60), <2>2, LinkFacts DEF TypeOK, Link
    <2> HIDE DEF a, ks
    <2>4. Old \/ (y = Peer(x) /\ m.type = "pull" /\ m \in PullRequests(x[2], a, ks[x].pulling))
      BY <2>1, <2>2, <2>3, StartPullsFacts
    <2> QED
      BY <2>2, <2>4, EndFacts, RequestsAsked
  <1>5. ASSUME NEW x \in End, HandlePull(x) PROVE Old \/ Resp
    <2> DEFINE p == Packet(x)
               rows == FirstRows(Rows(x[2], p.origin, p.from, p.upto))
    <2>1. /\ p.origin \in Server /\ net[x] # <<>> /\ x[2] \in Server
          /\ p \in Range(net[x]) /\ p.type = "pull"
      BY <1>5, PacketTypes, EndFacts DEF HandlePull
    <2>2. PICK batch \in SUBSET rows :
              /\ IsBatch(batch, rows)
              /\ net' = Reply(x, <<RespMsg(p.origin, batch, Known(x[2], p.origin))>>)
      BY <1>5 DEF HandlePull
    <2>8. AnswerTo(x[2], p, batch)
      BY <2>2 DEF AnswerTo
    <2>3. batch \subseteq asg[x[2]] /\ asg[x[2]] \in Envs
      BY <2>1 DEF FirstRows, Rows, OfOrigin, TypeOK
    <2>4. batch \in Envs
      BY <2>3, EnvsFacts
    <2> DEFINE q == RespMsg(p.origin, batch, Known(x[2], p.origin))
    <2>5. q \in Msg /\ q.type = "resp" /\ q.envs = batch
      BY <2>1, <2>4, KnownType, MsgTypes DEF RespMsg
    <2> HIDE DEF q, rows, p
    <2>6. net[x] # <<>> /\ net' = Reply(x, <<q>>)
      BY <2>1, <2>2 DEF q
    <2>7. Old \/ (x = Peer(y) /\ m = q)
      BY <2>5, <2>6, DeliveredOne
    <2> QED
      BY <2>1, <2>3, <2>5, <2>7, <2>8
  <1>6. ASSUME NEW x \in End, HandleResp(x) PROVE Old
    <2>1. net[x] # <<>> /\ net' = Reply(x, <<>>)
      BY <1>6 DEF HandleResp, Arrived
    <2> QED
      BY <2>1, EmptyOut, Delivered
  <1>7. ASSUME NEW x \in End, HandlePush(x) PROVE Old \/ Pull
    <2> DEFINE e == Packet(x).env
               from == PlanPush(Known(x[2], e.origin), SeqNo(e))
               q == PullMsg(e.origin, from, SeqNo(e))
               out == OneIf(e.origin \notin link[x].pulling, q)
    <2>1. e \in Env /\ net[x] # <<>> /\ x[2] \in Server
      BY <1>7, PacketTypes, EndFacts DEF HandlePush
    <2>2. from \in Nat /\ from <= Known(x[2], e.origin) + 1
      BY <2>1, EnvFacts, KnownType DEF PlanPush
    <2>3. q \in Msg /\ q.type = "pull" /\ Asked(x[2], q)
      BY <2>1, <2>2, EnvFacts, MsgTypes DEF PullMsg, Asked
    <2>4. net' = Reply(x, out) \/ net' = Reply(x, <<>>)
      BY <1>7 DEF HandlePush
    <2> HIDE DEF q, from, e
    <2>5. PICK o : (o = <<q>> \/ o = <<>>) /\ net' = Reply(x, o)
      BY <2>4 DEF OneIf
    <2>6. Old \/ (x = Peer(y) /\ m = q)
      BY <2>1, <2>3, <2>5, DeliveredOne
    <2> QED
      BY <2>3, <2>6
  <1>8. ASSUME NEW x \in End, FinishResp(x) PROVE Old \/ Pull
    <2> DEFINE w == link[x].work
               known == Known(x[2], w.origin)
               q == PullMsg(w.origin, known + 1, w.max)
    <2>1. PICK c \in BOOLEAN : net' = Send(x, OneIf(c, q))
      BY <1>8 DEF FinishResp
    <2>2. known \in Nat /\ w.origin \in Server /\ w.max \in Nat
      BY EndFacts, LinkFacts, KnownType
    <2>3. q \in Msg /\ q.type = "pull"
      BY <2>2, MsgTypes DEF PullMsg
    <2>6. Asked(x[2], q)
      <3>1. q.origin = w.origin /\ q.from = Known(x[2], w.origin) + 1
        BY DEF PullMsg
      <3> QED
        BY <2>2, <3>1 DEF Asked
    <2> HIDE DEF q
    <2>4. PICK out : (out = <<q>> \/ out = <<>>) /\ net' = Send(x, out)
      BY <2>1 DEF OneIf
    <2>5. Old \/ (x = Peer(y) /\ m = q)
      BY <2>3, <2>4, DeliveredOne
    <2> QED
      BY <2>3, <2>5, <2>6
  <1>9. ASSUME NEW x \in End, ApplyNext(x) PROVE Old \/ Ask
    <2> DEFINE e == FirstOf(link[x].work.envs)
               K == MissingKeys(x[2], e) \ link[x].asked
    <2>1. e \in link[x].work.envs /\ e \in Env
      BY <1>9, WorkFacts DEF ApplyNext
    <2>2. K \in SUBSET Key /\ IsFiniteSet(K)
      BY <2>1, MissingKeysType, FS_Difference
    <2>3. K \subseteq {e.origin, SignerOf[TagOf(e)]}
      BY DEF MissingKeys
    <2>4. PICK out \in SetToSeqs({AskMsg(k) : k \in K}) : net' = Send(x, out)
      BY <1>9 DEF ApplyNext
    <2> HIDE DEF K, e
    <2>5. out \in Seq(Msg) /\ \A n \in Range(out) : n.type = "ask" /\ n.key \in K
      BY <2>2, AskFacts
    <2>6. Old \/ (x = Peer(y) /\ m \in Range(out))
      BY <2>4, <2>5, Delivered
    <2> QED
      BY <2>1, <2>3, <2>5, <2>6
  <1>10. ASSUME NEW x \in End, HandleAsk(x) PROVE Old \/ Served
    <2> DEFINE p == Packet(x)
               q == KeyMsg(p.key, p.key \in keys[x[2]])
    <2>1. p \in Range(net[x]) /\ p.type = "ask" /\ net[x] # <<>> /\ p.key \in Key
      BY <1>10, PacketTypes DEF HandleAsk
    <2>2. net' = Reply(x, <<q>>)
      BY <1>10 DEF HandleAsk
    <2>3. q.type = "key" /\ q.key = p.key /\ (p.key \in keys[x[2]] => q.held)
      BY DEF KeyMsg
    <2>4. q \in Msg
      <3>1. (p.key \in keys[x[2]]) \in BOOLEAN
        OBVIOUS
      <3> DEFINE h == p.key \in keys[x[2]]
      <3> HIDE DEF h
      <3>2. KeyMsg(p.key, h) \in Msg
        BY <2>1, <3>1, MsgTypes, Zenon DEF h
      <3> QED
        BY <3>2 DEF h
    <2> HIDE DEF p, q
    <2>5. Old \/ (x = Peer(y) /\ m = q)
      BY <2>1, <2>2, <2>4, DeliveredOne
    <2> QED
      BY <2>1, <2>3, <2>5
  <1>11. ASSUME NEW x \in End, HandleKey(x) PROVE Old \/ Pull
    <2> DEFINE K == link[x].asked \ {Packet(x).key}
               ks == [link EXCEPT ![x].asked = K]
    <2>1. Arrived(x, "key") /\ (net' = Reply(x, <<>>) \/ \E a \in link[x].ann : StartPulls(x, a, ks))
      BY <1>11 DEF HandleKey
    <2>2. net[x] # <<>>
      BY <2>1 DEF Arrived
    <2>3. ks \in [End -> Link]
      <3>1. K \in SUBSET Key
        BY LinkFacts
      <3> HIDE DEF K
      <3> QED
        BY ZenonT(60), <3>1, LinkFacts DEF TypeOK, Link
    <2> HIDE DEF ks
    <2>4. ASSUME NEW a \in link[x].ann, StartPulls(x, a, ks) PROVE Old \/ Pull
      <3>1. a \in Ann
        BY LinkFacts
      <3>2. Old \/ (y = Peer(x) /\ m.type = "pull" /\ m \in PullRequests(x[2], a, ks[x].pulling))
        BY <2>2, <2>3, <2>4, <3>1, StartPullsFacts
      <3> QED
        BY <3>1, <3>2, EndFacts, RequestsAsked
    <2>5. CASE net' = Reply(x, <<>>)
      BY <2>2, <2>5, EmptyOut, Delivered
    <2> QED
      BY <2>1, <2>4, <2>5
  <1>12. ASSUME NEW s \in Server, NEW r \in Record, Commit(s, r) PROVE Old \/ Push
    <2> DEFINE e == [origin |-> s, chain |-> Append(log[s], r)]
               q == PushMsg(e)
    <2>1. /\ net' = [x \in End |-> net[x] \o OneIf(Peer(x)[2] = s /\ link[Peer(x)].ready, q)]
          /\ asg' = [asg EXCEPT ![s] = @ \cup {e}]
      BY <1>12 DEF Commit
    <2>2. q \in Msg /\ q.type = "push" /\ q.env = e
      BY AppendType, MsgTypes DEF PushMsg
    <2> HIDE DEF e, q
    <2>3. e \in asg'[s]
      BY <2>1 DEF TypeOK
    <2>4. CASE Peer(y)[2] = s /\ link[Peer(y)].ready
      <3>1. net'[y] = net[y] \o <<q>>
        BY <2>1, <2>4 DEF OneIf
      <3>2. Range(net[y] \o <<q>>) = Range(net[y]) \cup {q}
        <4> DEFINE one == <<q>>
        <4>1. one \in Seq(Msg) /\ Range(one) = {q} /\ net[y] \in Seq(Msg)
          BY <2>2 DEF Range, TypeOK
        <4> HIDE DEF one
        <4>2. Range(net[y] \o one) = Range(net[y]) \cup Range(one)
          BY <4>1, RangeConcatenation
        <4> QED
          BY <4>1, <4>2 DEF one
      <3> QED
        BY <2>2, <2>3, <2>4, <3>1, <3>2
    <2>5. CASE ~(Peer(y)[2] = s /\ link[Peer(y)].ready)
      <3>1. net'[y] = net[y] \o <<>> /\ net[y] \in Seq(Msg)
        BY <2>1, <2>5 DEF OneIf, TypeOK
      <3>2. net'[y] = net[y]
        BY <3>1, ConcatEmptySeq
      <3> QED
        BY <3>2
    <2> QED
      BY <2>4, <2>5
  <1>13. \A s \in Server : Rollback(s) => Old
    BY DEF Rollback
  <1>14. \A c \in Conn : Disconnect(c) => DropConns({c})
    BY DEF Disconnect
  <1>15. \A s \in Server, r \in Record : CommitCrash(s, r) => DropConns({x[1] : x \in EndsOf(s)})
    BY DEF CommitCrash
  <1>16. \A x \in End : ApplyCrash(x) => DropConns({z[1] : z \in EndsOf(x[2])})
    BY DEF ApplyCrash
  <1>17. UNCHANGED vars => Old
    BY DEF vars
  <1> HIDE DEF Old, Plain, Pull, Resp, Push, Ask, Served
  <1>18. ASSUME NEW x \in End, Handle(x) \/ Announce(x) \/ ApplyCrash(x)
         PROVE  Old \/ Plain \/ Pull \/ Resp \/ Ask \/ Served
    BY <1>18, <1>2, <1>3, <1>4, <1>5, <1>6, <1>7, <1>8, <1>9, <1>10, <1>11, <1>16 DEF Handle
  <1>19. Old \/ Plain \/ Pull \/ Resp \/ Push \/ Ask \/ Served
    BY <1>1, <1>2, <1>12, <1>13, <1>14, <1>15, <1>17, <1>18 DEF Next
  <1> QED
    BY <1>19 DEF Old, Plain, Pull, Resp, Push, Ask, Served

-----------------------------------------------------------------------------
(* Nothing is forged, so evidence is sound *)

LEMMA NoForgeryStep == TypeOK /\ NoForgery /\ [Next]_vars => NoForgery'
  <1> SUFFICES ASSUME TypeOK, NoForgery, [Next]_vars PROVE NoForgery'
    OBVIOUS
  <1>1. signed \subseteq signed'
    BY SignedSteps
  <1>2. ASSUME NEW s \in Server, NEW e \in asg'[s] PROVE e \in signed'
    BY <1>1, AsgSteps DEF NoForgery
  <1>3. ASSUME NEW y \in End, NEW e \in link'[y].work.envs PROVE e \in signed'
    BY <1>1, WorkSteps DEF NoForgery
  <1>4. ASSUME NEW y \in End, NEW m \in Range(net'[y])
        PROVE  /\ m.type = "push" => m.env \in signed'
               /\ m.type = "resp" => m.envs \subseteq signed'
    <2>1. Peer(y)[2] \in Server
      BY EndFacts
    <2>2. \/ m \in Range(net[y])
          \/ m.type \in {"hello", "heads", "pull", "ask", "key"}
          \/ m.type = "resp" /\ m.envs \subseteq asg[Peer(y)[2]]
          \/ m.type = "push" /\ m.env \in asg'[Peer(y)[2]]
      BY NetSteps
    <2> QED
      BY <1>1, <1>2, <2>1, <2>2 DEF NoForgery
  <1> QED
    BY <1>2, <1>3, <1>4 DEF NoForgery

LEMMA NoForgeryInit == Init => NoForgery
  <1>1. Range(<<>>) = {}
    BY EmptyOut
  <1> QED
    BY <1>1 DEF Init, NoForgery, FreshEnd, Idle

\* Every assignment a replica keeps, serves, pushes or is about to apply was signed by its
\* origin: relaying through other servers never changes one.
THEOREM NothingForged == Spec => []NoForgery
  BY NoForgeryInit, NoForgeryStep, TypeCorrect, PTL DEF Spec

LEMMA EvidenceStep == TypeOK /\ NoForgery /\ EvidenceSound /\ [Next]_vars => EvidenceSound'
  <1> SUFFICES ASSUME TypeOK, NoForgery, EvidenceSound, [Next]_vars,
                      NEW s \in Server, NEW p \in proofs'[s]
               PROVE  \E e, f \in signed' : /\ e # f /\ e.origin = p[1] /\ f.origin = p[1]
                                            /\ SeqNo(e) = p[2] /\ SeqNo(f) = p[2]
    BY DEF EvidenceSound
  <1>1. signed \subseteq signed'
    BY SignedSteps
  <1>2. CASE p \in proofs[s]
    BY <1>1, <1>2 DEF EvidenceSound
  <1>3. ASSUME NEW x \in End, ApplyNext(x), p \notin proofs[s]
        PROVE  \E e, f \in signed' : /\ e # f /\ e.origin = p[1] /\ f.origin = p[1]
                                     /\ SeqNo(e) = p[2] /\ SeqNo(f) = p[2]
    <2> DEFINE e == FirstOf(link[x].work.envs)
    <2>1. e \in link[x].work.envs /\ x[2] \in Server
      BY <1>3, WorkFacts DEF ApplyNext
    <2>2. \/ proofs' = proofs
          \/ /\ Verdict(x[2], e) = "diverged"
             /\ proofs' = [proofs EXCEPT ![x[2]] = @ \cup {<<e.origin, SeqNo(e)>>}]
      BY <1>3 DEF ApplyNext, ApplyForeign
    <2> HIDE DEF e
    <2>3. Verdict(x[2], e) = "diverged" /\ s = x[2] /\ p = <<e.origin, SeqNo(e)>>
      BY SMTT(30), <1>3, <2>1, <2>2 DEF TypeOK
    <2>4. Conflicts(x[2], e)
      BY <2>3 DEF Verdict, EvaluateForeign
    <2>5. PICK f \in asg[s] : f.origin = e.origin /\ SeqNo(f) = SeqNo(e) /\ f # e
      BY <2>3, <2>4 DEF Conflicts, OfOrigin
    <2>6. e \in signed' /\ f \in signed'
      BY <1>1, <2>1 DEF NoForgery
    <2> QED
      BY <2>3, <2>5, <2>6
  <1>4. p \in proofs[s] \/ \E x \in End : ApplyNext(x)
    BY DiskSteps DEF Commit, CommitCrash, ApplyCrash, Rollback
  <1> QED
    BY <1>2, <1>3, <1>4

\* An origin is condemned only when it really signed one sequence twice (admit_foreign
\* compares with the hash kept for the same origin, and both sides were verified).
THEOREM EvidenceIsSound == Spec => []EvidenceSound
  <1>1. Init => EvidenceSound
    BY DEF Init, EvidenceSound
  <1> QED
    BY <1>1, EvidenceStep, NothingForged, TypeCorrect, PTL DEF Spec

\* What a server that is never truncated signed agrees with its log, record by record.
SignedInLog ==
    \A e \in signed : e.origin \notin RollbackServers =>
        /\ SeqNo(e) <= Len(log[e.origin])
        /\ \A i \in 1 .. SeqNo(e) : e.chain[i] = log[e.origin][i]

LEMMA SignedInLogStep == TypeOK /\ SignedInLog /\ [Next]_vars => SignedInLog'
  <1> SUFFICES ASSUME TypeOK, SignedInLog, [Next]_vars,
                      NEW e \in signed', e.origin \notin RollbackServers
               PROVE  /\ SeqNo(e) <= Len(log'[e.origin])
                      /\ \A i \in 1 .. SeqNo(e) : e.chain[i] = log'[e.origin][i]
    BY DEF SignedInLog, SeqNo
  <1>1. CASE e \in signed
    <2> DEFINE o == e.origin
               q == log[o]
    <2>1. o \in Server /\ SeqNo(e) \in Nat /\ q \in Seq(Record)
      BY <1>1, EnvFacts DEF TypeOK
    <2>2. SeqNo(e) <= Len(q) /\ \A i \in 1 .. SeqNo(e) : e.chain[i] = q[i]
      BY <1>1 DEF SignedInLog
    <2>3. log'[o] = q \/ \E r \in Record : log'[o] = Append(q, r)
      BY <2>1, LogSteps
    <2> HIDE DEF q, o
    <2>4. ASSUME NEW r \in Record
          PROVE  /\ Len(Append(q, r)) = Len(q) + 1 /\ Len(q) \in Nat
                 /\ \A i \in 1 .. Len(q) : Append(q, r)[i] = q[i]
      BY <2>1, AppendProperties
    <2>5. /\ SeqNo(e) <= Len(log'[o])
          /\ \A i \in 1 .. SeqNo(e) : e.chain[i] = log'[o][i]
      BY SMTT(30), <2>1, <2>2, <2>3, <2>4
    <2> QED
      BY <2>5 DEF o
  <1>2. ASSUME NEW s \in Server, NEW r \in Record, Commit(s, r),
               e = [origin |-> s, chain |-> Append(log[s], r)]
        PROVE  /\ SeqNo(e) <= Len(log'[e.origin])
               /\ \A i \in 1 .. SeqNo(e) : e.chain[i] = log'[e.origin][i]
    <2>1. log'[s] = Append(log[s], r) /\ Append(log[s], r) \in Seq(Record)
      BY <1>2, AppendType DEF Commit, TypeOK
    <2>2. e.origin = s /\ e.chain = log'[s] /\ Len(log'[s]) \in Nat
      BY <1>2, <2>1
    <2> QED
      BY <2>2 DEF SeqNo
  <1> QED
    BY <1>1, <1>2, SignedSteps

LEMMA SignedOnce ==
    ASSUME TypeOK, SignedInLog, NEW e \in signed, NEW f \in signed,
           e.origin = f.origin, SeqNo(e) = SeqNo(f), e.origin \notin RollbackServers
    PROVE  e = f
  <1>1. e \in Env /\ f \in Env
    BY DEF TypeOK
  <1>2. e.chain \in Seq(Record) /\ f.chain \in Seq(Record) /\ Len(e.chain) = Len(f.chain)
    BY <1>1, EnvFacts DEF SeqNo
  <1>3. \A i \in 1 .. Len(e.chain) : e.chain[i] = f.chain[i]
    BY DEF SignedInLog, SeqNo
  <1>4. e.chain = f.chain
    BY <1>2, <1>3, SeqEqual
  <1> QED
    BY <1>1, <1>4 DEF Env

\* A server whose chain was never truncated is condemned by no replica, whatever stopped in
\* the middle of a handler, was pushed twice or arrived over several relays.
THEOREM HonestOriginsTrusted == Spec => []HonestNeverCondemned
  <1>1. Init => SignedInLog
    BY DEF Init, SignedInLog
  <1>2. TypeOK /\ SignedInLog /\ EvidenceSound => HonestNeverCondemned
    <2> SUFFICES ASSUME TypeOK, SignedInLog, EvidenceSound,
                        NEW s \in Server, NEW o \in Server \ RollbackServers, Condemned(s, o)
                 PROVE  FALSE
      BY DEF HonestNeverCondemned
    <2>1. PICK p \in proofs[s] : p[1] = o
      BY DEF Condemned
    <2>2. PICK e \in signed, f \in signed : /\ e # f /\ e.origin = o /\ f.origin = o
                                            /\ SeqNo(e) = p[2] /\ SeqNo(f) = p[2]
      BY <2>1 DEF EvidenceSound
    <2> QED
      BY <2>2, SignedOnce
  <1> QED
    BY <1>1, <1>2, SignedInLogStep, EvidenceIsSound, TypeCorrect, PTL DEF Spec

-----------------------------------------------------------------------------
(* Keys travel with what needs them *)

\* a server knows what is needed to verify an envelope
Knows(s, e) == e.origin \in keys[s] /\ SignerOf[TagOf(e)] \in keys[s]

\* The inductive strengthening of KeyAlwaysServed: a server knows its own key, the keys of all
\* it keeps, and the keys of all that was received from it.
KeysFollow ==
    /\ \A s \in Server : s \in keys[s]
    /\ \A s \in Server : \A e \in asg[s] : Knows(s, e)
    /\ \A y \in End : \A e \in link[y].work.envs : Knows(Peer(y)[2], e)
    /\ \A y \in End : \A m \in Range(net[y]) :
        /\ m.type = "push" => Knows(Peer(y)[2], m.env)
        /\ m.type = "resp" => \A e \in m.envs : Knows(Peer(y)[2], e)
        /\ m.type = "ask" => m.key \in keys[y[2]]
        /\ m.type = "key" => m.held

LEMMA KeysFollowStep == TypeOK /\ KeysFollow /\ [Next]_vars => KeysFollow'
  <1> SUFFICES ASSUME TypeOK, KeysFollow, [Next]_vars PROVE KeysFollow'
    OBVIOUS
  <1>1. \A s \in Server : keys[s] \subseteq keys'[s]
    BY KeysGrow
  <1>2. \A s \in Server : \A e : Knows(s, e) => Knows(s, e)'
    BY <1>1 DEF Knows, TagOf
  <1>3. \A s \in Server : s \in keys'[s]
    BY <1>1 DEF KeysFollow
  <1>4. ASSUME NEW s \in Server, NEW e \in asg'[s] PROVE Knows(s, e)'
    <2>1. e \in asg[s] => Knows(s, e)
      BY DEF KeysFollow
    <2>2. \/ e \in asg[s]
          \/ (e.origin \in keys[s] \/ e.origin = s) /\ SignerOf[TagOf(e)] \in keys[s]
      BY AsgSteps
    <2>3. Knows(s, e)
      BY <2>1, <2>2 DEF Knows, KeysFollow
    <2> QED
      BY <1>2, <2>3
  <1>5. ASSUME NEW y \in End, NEW e \in link'[y].work.envs PROVE Knows(Peer(y)[2], e)'
    <2>1. Knows(Peer(y)[2], e)
      BY WorkSteps DEF KeysFollow
    <2> QED
      BY <2>1, <1>2, EndFacts
  <1>6. ASSUME NEW y \in End, NEW m \in Range(net'[y])
        PROVE  /\ m.type = "push" => Knows(Peer(y)[2], m.env)'
               /\ m.type = "resp" => \A e \in m.envs : Knows(Peer(y)[2], e)'
               /\ m.type = "ask" => m.key \in keys'[y[2]]
               /\ m.type = "key" => m.held
    <2>1. y[2] \in Server /\ Peer(y) \in End /\ Peer(y)[2] \in Server /\ Peer(Peer(y)) = y
      BY EndFacts
    <2>2. CASE m \in Range(net[y])
      BY <1>1, <1>2, <2>1, <2>2 DEF KeysFollow
    <2>3. CASE m.type \in {"hello", "heads", "pull"}
      BY <2>3
    <2>4. CASE m.type = "resp" /\ m.envs \subseteq asg[Peer(y)[2]]
      BY <1>2, <2>1, <2>4 DEF KeysFollow
    <2>5. CASE m.type = "push" /\ m.env \in asg'[Peer(y)[2]]
      BY <1>4, <2>1, <2>5
    <2>6. CASE m.type = "ask" /\ \E e \in link[Peer(y)].work.envs : m.key \in {e.origin, SignerOf[TagOf(e)]}
      <3>1. PICK e \in link[Peer(y)].work.envs : m.key \in {e.origin, SignerOf[TagOf(e)]}
        BY <2>6
      <3>2. Knows(y[2], e)
        BY <2>1 DEF KeysFollow
      <3> QED
        BY <1>1, <2>1, <2>6, <3>1, <3>2 DEF Knows
    <2>7. CASE /\ m.type = "key"
               /\ \E a \in Range(net[Peer(y)]) :
                    a.type = "ask" /\ a.key = m.key /\ (a.key \in keys[Peer(y)[2]] => m.held)
      BY <2>1, <2>7 DEF KeysFollow
    <2> QED
      BY <2>2, <2>3, <2>4, <2>5, <2>6, <2>7, NetSteps
  <1> QED
    BY <1>3, <1>4, <1>5, <1>6 DEF KeysFollow

\* A key request always meets a server that holds the key: an envelope reaches a replica only
\* from one that verified it or signed it, so the conversation of apply_envelopes,
\* request_signer_key and response_key never ends in an answer without the key.
THEOREM KeyRequestsAreServed == Spec => []KeyAlwaysServed
  <1>1. Init => KeysFollow
    BY EmptyOut DEF Init, KeysFollow, FreshEnd, Idle
  <1>2. KeysFollow => KeyAlwaysServed
    BY DEF KeysFollow, KeyAlwaysServed
  <1> QED
    BY <1>1, <1>2, KeysFollowStep, TypeCorrect, PTL DEF Spec

-----------------------------------------------------------------------------
(* Nothing is passed over *)

\* no chain is cut or half written, and no record refused by rule or left out of an answer
Intact ==
    /\ ~CrashInside /\ RollbackServers = {}
    /\ \A s \in Server : Unacceptable[s] = {}
    /\ Record \in Fitting
\* no operation is committed at two servers, or there is no third one that relays
OneHomePerOp ==
    \A q, r \in Record : \A s \in CommitAt[q], t \in CommitAt[r] : OpOf[q] = OpOf[r] => s = t
NoRelay == \A s, t, o \in Server : s # t => o \in {s, t}
NoRelayedTwins == OneHomePerOp \/ NoRelay

\* s holds all that o signed below q
Passed(s, o, q) ==
    /\ q <= Len(log[o]) + 1
    /\ \A f \in signed : f.origin = o /\ SeqNo(f) < q => OpOf[TagOf(f)] \in HeldOps(s)
\* what lies before a member of es is a member too, or s holds it
Gapless(s, es) ==
    \A e \in es, f \in signed :
        f.origin = e.origin /\ SeqNo(f) < SeqNo(e) => f \in es \/ OpOf[TagOf(f)] \in HeldOps(s)

\* an origin keeps what it signed
OwnKept == \A e \in signed : e \in asg[e.origin] /\ e.origin \in CommitAt[TagOf(e)]
\* a record has its assignment, an assignment its record, and the head is not behind it
RowsWhole(s) ==
    /\ \A e \in asg[s] : TagOf(e) \in Held(s) /\ (e.origin # s => SeqNo(e) <= heads[s][e.origin])
    /\ \A r \in Held(s) : \E e \in asg[s] : TagOf(e) = r
\* what a head of another origin stands for
HeadsWhole(s) ==
    /\ \A o \in Server : heads[s][o] <= Len(log[o])
    /\ \A e \in signed : e.origin # s /\ SeqNo(e) <= heads[s][e.origin] => OpOf[TagOf(e)] \in HeldOps(s)
\* what is being asked, answered and applied
OnTheWay(y) ==
    /\ Gapless(y[2], link[y].work.envs)
    /\ \A m \in Range(net[y]) : /\ m.type = "pull" => Passed(Peer(y)[2], m.origin, m.from)
                                /\ m.type = "resp" => Gapless(y[2], m.envs)

\* The inductive strengthening of NoHoles and SameHeadsSameOps: a pull starts behind what is
\* held, so its answer has no gap, so no record is applied before those in front of it.
WholeInv ==
    /\ TypeOK /\ NoForgery /\ SignedInLog /\ OpsOnce
    /\ OwnKept
    /\ \A s \in Server : RowsWhole(s) /\ HeadsWhole(s)
    /\ \A y \in End : OnTheWay(y)

\* On intact servers only a commit and a turn of apply_envelopes change what is kept.
LEMMA IntactSteps ==
    ASSUME Intact, [Next]_vars
    PROVE  \/ UNCHANGED <<log, asg, heads, signed>>
           \/ \E s \in Server, r \in Record : Commit(s, r)
           \/ \E x \in End : ApplyNext(x)
  <1>1. \A s \in Server, r \in Record : ~CommitCrash(s, r)
    BY DEF Intact, CommitCrash
  <1>2. \A x \in End : ~ApplyCrash(x)
    BY DEF Intact, ApplyCrash
  <1>3. \A s \in Server : ~Rollback(s)
    BY DEF Intact, Rollback
  <1> QED
    BY <1>1, <1>2, <1>3, DiskSteps

\* What a turn of apply_envelopes does that takes envelope e.
TakenBy(s, e) ==
    /\ e.origin # s
    /\ heads' = [heads EXCEPT ![s] = Advance(@, e.origin, SeqNo(e))]
    /\ \/ log' = log /\ asg' = asg /\ OpOf[TagOf(e)] \in HeldOps(s)
       \/ /\ log' = [log EXCEPT ![s] = Append(@, TagOf(e))]
          /\ asg' = [asg EXCEPT ![s] = @ \cup {e}]

\* apply_envelopes takes its record and moves the head, or changes nothing at all.
LEMMA Applied ==
    ASSUME TypeOK, Intact, NEW x \in End, ApplyNext(x)
    PROVE  LET e == FirstOf(link[x].work.envs)
           IN  /\ signed' = signed
               /\ \/ /\ UNCHANGED <<log, asg, heads>>
                     /\ Failed(Verdict(x[2], e)) \/ e.origin = x[2]
                  \/ TakenBy(x[2], e)
  <1> DEFINE e == FirstOf(link[x].work.envs)
             s == x[2]
  <1>1. s \in Server /\ TagOf(e) \in Record
    BY WorkFacts DEF ApplyNext
  <1>2. ApplyForeign(s, e) /\ signed' = signed
    BY DEF ApplyNext
  <1> HIDE DEF e, s
  <1>3. CASE Verdict(s, e) = "applied"
    <2>1. e.origin # s
      BY <1>3, AppliedFacts
    <2>2. /\ log' = [log EXCEPT ![s] = Append(@, TagOf(e))] /\ asg' = [asg EXCEPT ![s] = @ \cup {e}]
          /\ heads' = [heads EXCEPT ![s] = Advance(@, e.origin, SeqNo(e))]
      BY <1>2, <1>3 DEF ApplyForeign
    <2> QED
      BY <1>2, <2>1, <2>2 DEF TakenBy, e, s
  <1>4. CASE Verdict(s, e) \in {"known", "skipped"}
    <2>1. e.origin # s
      BY <1>4 DEF Verdict, EvaluateForeign
    <2>2. log' = log /\ asg' = asg /\ heads' = [heads EXCEPT ![s] = Advance(@, e.origin, SeqNo(e))]
      BY <1>2, <1>4 DEF ApplyForeign
    <2>3. TagOf(e) \in Held(s) \/ OpOf[TagOf(e)] \in HeldOps(s) \/ TagOf(e) \in Unacceptable[s]
      BY <1>4 DEF Verdict, EvaluateForeign
    <2>4. OpOf[TagOf(e)] \in HeldOps(s)
      BY <1>1, <2>3 DEF HeldOps, Intact
    <2> QED
      BY <1>2, <2>1, <2>2, <2>4 DEF TakenBy, e, s
  <1>5. CASE Verdict(s, e) \notin {"applied", "known", "skipped"}
    <2>1. UNCHANGED <<log, asg, heads>>
      BY <1>2, <1>5 DEF ApplyForeign
    <2>2. Failed(Verdict(s, e)) \/ e.origin = s
      BY <1>5 DEF Verdict, EvaluateForeign, Failed
    <2> QED
      BY <1>2, <2>1, <2>2 DEF e, s
  <1> QED
    BY <1>3, <1>4, <1>5

\* A log that grows by a record holds that record more.
LEMMA HeldAppend ==
    ASSUME TypeOK, NEW s \in Server, NEW r \in Record, log'[s] = Append(log[s], r)
    PROVE  /\ Held(s)' = Held(s) \cup {r} /\ HeldOps(s)' = HeldOps(s) \cup {OpOf[r]}
           /\ Len(log[s]) \in Nat /\ Len(log'[s]) = Len(log[s]) + 1
  <1> DEFINE q == log[s]
  <1>1. q \in Seq(Record)
    BY DEF TypeOK
  <1>2. /\ DOMAIN q = 1 .. Len(q) /\ DOMAIN Append(q, r) = 1 .. Len(q) + 1 /\ Len(q) \in Nat
        /\ \A i \in 1 .. Len(q) : Append(q, r)[i] = q[i]
        /\ Append(q, r)[Len(q) + 1] = r /\ Len(Append(q, r)) = Len(q) + 1
    BY <1>1, AppendProperties
  <1>3. log'[s] = Append(q, r)
    OBVIOUS
  <1> HIDE DEF q
  <1> DEFINE p == Append(q, r)
  <1> HIDE DEF p
  <1>4. {p[i] : i \in 1 .. Len(q) + 1} = {q[i] : i \in 1 .. Len(q)} \cup {r}
    <2>1. \A i \in 1 .. Len(q) + 1 : i \in 1 .. Len(q) \/ i = Len(q) + 1
      BY <1>2
    <2>2. \A i \in 1 .. Len(q) : i \in 1 .. Len(q) + 1
      BY <1>2
    <2>3. Len(q) + 1 \in 1 .. Len(q) + 1
      BY <1>2
    <2> QED
      BY <1>2, <2>1, <2>2, <2>3 DEF p
  <1>5. Held(s)' = Held(s) \cup {r}
    BY <1>2, <1>3, <1>4 DEF Held, p, q
  <1> QED
    BY <1>2, <1>3, <1>5 DEF HeldOps, q

LEMMA HeldSame ==
    ASSUME NEW s \in Server, log'[s] = log[s]
    PROVE  Held(s)' = Held(s) /\ HeldOps(s)' = HeldOps(s)
  BY DEF Held, HeldOps

\* Intact servers lose nothing.
LEMMA NothingLost ==
    ASSUME TypeOK, Intact, [Next]_vars, NEW s \in Server
    PROVE  /\ Held(s) \subseteq Held(s)' /\ HeldOps(s) \subseteq HeldOps(s)'
           /\ Len(log[s]) \in Nat /\ Len(log[s]) <= Len(log'[s])
           /\ asg[s] \subseteq asg'[s]
  <1>1. Len(log[s]) \in Nat
    BY LenProperties DEF TypeOK
  <1>2. log'[s] = log[s] \/ \E r \in Record : log'[s] = Append(log[s], r)
    BY LogSteps DEF Intact
  <1>3. /\ Held(s) \subseteq Held(s)' /\ HeldOps(s) \subseteq HeldOps(s)'
        /\ Len(log[s]) <= Len(log'[s])
    <2>1. CASE log'[s] = log[s]
      BY <1>1, <2>1, HeldSame
    <2>2. ASSUME NEW r \in Record, log'[s] = Append(log[s], r)
          PROVE  /\ Held(s) \subseteq Held(s)' /\ HeldOps(s) \subseteq HeldOps(s)'
                 /\ Len(log[s]) <= Len(log'[s])
      BY <1>1, <2>2, HeldAppend
    <2> QED
      BY <1>2, <2>1, <2>2
  <1>4. asg[s] \subseteq asg'[s]
    <2>1. ASSUME NEW t \in Server, NEW r \in Record, Commit(t, r) PROVE asg[s] \subseteq asg'[s]
      <3> DEFINE f == [origin |-> t, chain |-> Append(log[t], r)]
      <3>1. asg' = [asg EXCEPT ![t] = @ \cup {f}]
        BY <2>1 DEF Commit
      <3> HIDE DEF f
      <3> QED
        BY <3>1 DEF TypeOK
    <2>2. ASSUME NEW x \in End, ApplyNext(x) PROVE asg[s] \subseteq asg'[s]
      <3>1. asg' = asg \/ \E f : asg' = [asg EXCEPT ![x[2]] = @ \cup {f}]
        BY <2>2, Applied DEF TakenBy
      <3> QED
        BY <3>1 DEF TypeOK
    <2> QED
      BY <2>1, <2>2, IntactSteps
  <1> QED
    BY <1>1, <1>3, <1>4

\* What is signed comes after all its origin signed before.
LEMMA NewSigned ==
    ASSUME TypeOK, [Next]_vars, NEW f \in signed', f \notin signed
    PROVE  /\ f.origin \in Server /\ Len(log[f.origin]) \in Nat /\ SeqNo(f) = Len(log[f.origin]) + 1
           /\ \E r \in Record : /\ Commit(f.origin, r) /\ TagOf(f) = r
                                /\ f = [origin |-> f.origin, chain |-> Append(log[f.origin], r)]
  <1>1. PICK s \in Server, r \in Record : /\ Commit(s, r)
                                          /\ f = [origin |-> s, chain |-> Append(log[s], r)]
    BY SignedSteps
  <1>2. f.origin = s /\ f.chain = Append(log[s], r) /\ log[s] \in Seq(Record)
    BY <1>1 DEF TypeOK
  <1>3. /\ Len(log[s]) \in Nat /\ Len(Append(log[s], r)) = Len(log[s]) + 1
        /\ Append(log[s], r)[Len(log[s]) + 1] = r
    BY <1>2, AppendProperties
  <1> QED
    BY <1>1, <1>2, <1>3 DEF SeqNo, TagOf

\* What a server knows of an origin it has, and the origin's chain reaches there.
LEMMA KnownMeans ==
    ASSUME WholeInv, RollbackServers = {}, NEW s \in Server, NEW o \in Server
    PROVE  /\ Known(s, o) \in Nat /\ Known(s, o) <= Len(log[o]) /\ Len(log[o]) \in Nat
           /\ \A e \in asg[s] : e.origin = o => SeqNo(e) <= Known(s, o)
           /\ \A f \in signed : f.origin = o /\ SeqNo(f) <= Known(s, o) => OpOf[TagOf(f)] \in HeldOps(s)
  <1>1. TypeOK /\ Known(s, o) \in Nat /\ Len(log[o]) \in Nat /\ asg[s] \in Envs
    BY KnownType, LenProperties DEF WholeInv, TypeOK
  <1>2. CASE o # s
    BY <1>1, <1>2 DEF Known, WholeInv, RowsWhole, HeadsWhole
  <1>3. CASE o = s
    <2>1. /\ Known(s, o) = LastOriginSeq(s, s)
          /\ \A e \in asg[s] : e.origin = s => SeqNo(e) <= LastOriginSeq(s, s)
          /\ LastOriginSeq(s, s) # 0 =>
                \E e \in asg[s] : e.origin = s /\ SeqNo(e) = LastOriginSeq(s, s)
      BY <1>1, <1>3, LastOriginSeqFacts DEF Known, OfOrigin
    <2>2. \A e \in asg[s] : e \in signed
      BY DEF WholeInv, NoForgery
    <2>3. \A e \in signed : e.origin = s => SeqNo(e) <= Len(log[s])
      BY DEF WholeInv, SignedInLog
    <2>4. LastOriginSeq(s, s) <= Len(log[s])
      BY <1>1, <1>3, <2>1, <2>2, <2>3
    <2>5. \A f \in signed : f.origin = s => OpOf[TagOf(f)] \in HeldOps(s)
      BY DEF WholeInv, OwnKept, RowsWhole, HeldOps
    <2> QED
      BY <1>1, <1>3, <2>1, <2>4, <2>5
  <1> QED
    BY <1>2, <1>3

\* A pull asks for nothing beyond what the asker has passed.
LEMMA AskedPassed ==
    ASSUME WholeInv, RollbackServers = {}, NEW s \in Server, NEW m, m.origin \in Server, m.from \in Nat, Asked(s, m)
    PROVE  Passed(s, m.origin, m.from)
  <1> DEFINE k == Known(s, m.origin)
  <1>1. /\ k \in Nat /\ k <= Len(log[m.origin]) /\ Len(log[m.origin]) \in Nat
        /\ \A e \in asg[s] : e.origin = m.origin => SeqNo(e) <= k
        /\ \A f \in signed : f.origin = m.origin /\ SeqNo(f) <= k => OpOf[TagOf(f)] \in HeldOps(s)
    BY KnownMeans
  <1>2. \A e \in asg[s] \cup signed : SeqNo(e) \in Nat
    <2>1. asg[s] \subseteq Env /\ signed \subseteq Env
      BY ZenonT(60), EnvsFacts DEF WholeInv, TypeOK
    <2> QED
      BY <2>1, EnvFacts
  <1>3. m.from <= k + 1
    BY <1>1, <1>2 DEF Asked
  <1> HIDE DEF k
  <1> QED
    BY <1>1, <1>2, <1>3 DEF Passed

\* Where no operation has two homes, a replica that holds an operation has every assignment of it.
LEMMA TwinsAreOne ==
    ASSUME WholeInv, RollbackServers = {}, OneHomePerOp,
           NEW t \in Server, NEW f \in signed, OpOf[TagOf(f)] \in HeldOps(t)
    PROVE  f \in asg[t]
  <1>1. PICK r \in Held(t) : OpOf[r] = OpOf[TagOf(f)]
    BY DEF HeldOps
  <1>2. PICK g \in asg[t] : TagOf(g) = r
    BY DEF WholeInv, RowsWhole
  <1>3. g \in signed
    BY DEF WholeInv, NoForgery
  <1>4. \A e \in {f, g} : /\ e.origin \in Server /\ SeqNo(e) \in Nat \ {0} /\ TagOf(e) \in Record
                          /\ e.origin \in CommitAt[TagOf(e)]
                          /\ SeqNo(e) <= Len(log[e.origin])
                          /\ \A i \in 1 .. SeqNo(e) : e.chain[i] = log[e.origin][i]
    BY <1>3, EnvFacts DEF WholeInv, TypeOK, OwnKept, SignedInLog
  <1>5. g.origin = f.origin
    BY <1>1, <1>2, <1>4 DEF OneHomePerOp
  <1> DEFINE o == f.origin
             q == log[o]
  <1>6. Len(q) \in Nat /\ DOMAIN q = 1 .. Len(q)
    BY <1>4, LenProperties DEF WholeInv, TypeOK
  <1>7. \A e \in {f, g} : TagOf(e) = q[SeqNo(e)] /\ SeqNo(e) \in DOMAIN q
    <2> SUFFICES ASSUME NEW e \in {f, g} PROVE TagOf(e) = q[SeqNo(e)] /\ SeqNo(e) \in DOMAIN q
      OBVIOUS
    <2>1. e.origin = o /\ SeqNo(e) \in 1 .. SeqNo(e) /\ TagOf(e) = e.chain[SeqNo(e)]
      BY <1>4, <1>5 DEF TagOf, SeqNo
    <2> HIDE DEF q, o
    <2> QED
      BY <1>4, <1>6, <2>1 DEF q
  <1>8. SeqNo(g) = SeqNo(f)
    <2>1. \A i, j \in DOMAIN q : OpOf[q[i]] = OpOf[q[j]] => i = j
      BY <1>4 DEF WholeInv, OpsOnce
    <2> HIDE DEF q
    <2> QED
      BY <1>1, <1>2, <1>7, <2>1
  <1>9. f = g
    BY <1>3, <1>5, <1>8, SignedOnce DEF WholeInv
  <1> QED
    BY <1>9

\* The rows of a limited answer are the first ones.
LEMMA FirstRowsClosed ==
    ASSUME NEW rows \in Envs, NEW e \in FirstRows(rows), NEW f \in rows, SeqNo(f) < SeqNo(e)
    PROVE  f \in FirstRows(rows)
  <1> DEFINE B(g) == {h \in rows : SeqNo(h) < SeqNo(g)}
  <1>1. \A h \in rows : SeqNo(h) \in Nat
    BY EnvsFacts, EnvFacts
  <1>2. e \in rows /\ Cardinality(B(e)) < MaxReturned
    BY DEF FirstRows
  <1>3. B(f) \subseteq B(e)
    BY <1>1, <1>2
  <1>4. IsFiniteSet(B(e))
    <2>1. B(e) \subseteq rows /\ IsFiniteSet(rows)
      BY EnvsFacts
    <2> HIDE DEF B
    <2> QED
      BY <2>1, FS_Subset
  <1>5. Cardinality(B(f)) \in Nat /\ Cardinality(B(e)) \in Nat /\ Cardinality(B(f)) <= Cardinality(B(e))
    <2> HIDE DEF B
    <2> QED
      BY <1>3, <1>4, FS_Subset, FS_CardinalityType
  <1>6. Cardinality(B(f)) < MaxReturned
    <2> HIDE DEF B
    <2> QED
      BY <1>2, <1>5, ConstantsAssumption
  <1> QED
    BY <1>6 DEF FirstRows

\* Where everything fits an answer, the batch is the rows.
LEMMA AllFits ==
    ASSUME Intact, NEW rows \in SUBSET Env, NEW es \in SUBSET rows, IsBatch(es, rows)
    PROVE  es = rows
  <1> SUFFICES ASSUME NEW e \in rows PROVE e \in es
    OBVIOUS
  <1> DEFINE T == {TagOf(f) : f \in {g \in es : SeqNo(g) < SeqNo(e)} \cup {e}}
  <1>1. T \subseteq Record
    BY EnvFacts
  <1>2. T \in Fitting
    BY <1>1, ConstantsAssumption DEF Intact
  <1> QED
    BY <1>2 DEF IsBatch

\* So an answer has no gap, for the server that asked.
LEMMA AnswersGapless ==
    ASSUME WholeInv, Intact, NoRelayedTwins, NEW y \in End,
           NEW p \in Range(net[Peer(y)]), p.type = "pull", NEW es, AnswerTo(Peer(y)[2], p, es)
    PROVE  Gapless(y[2], es)
  <1> DEFINE t == Peer(y)[2]
             s == y[2]
             rows == Rows(t, p.origin, p.from, p.upto)
  <1>1. s \in Server /\ t \in Server /\ s # t /\ Peer(y) \in End /\ Peer(Peer(y)) = y
    <2>1. s \in Server /\ t \in Server /\ Peer(y) \in End /\ Peer(Peer(y)) = y
      BY EndFacts
    <2>2. s # t
      BY ConstantsAssumption DEF End, Peer
    <2> QED
      BY <2>1, <2>2
  <1>2. Passed(s, p.origin, p.from)
    BY <1>1 DEF WholeInv, OnTheWay
  <1>3. asg[t] \in Envs /\ rows \subseteq asg[t] /\ p.from \in Nat /\ p.upto \in Nat
    <2>1. p \in Msg
      BY <1>1, RangeFacts DEF WholeInv, TypeOK
    <2>2. p.from \in Nat /\ p.upto \in Nat
      BY <2>1 DEF Msg, Hello
    <2> QED
      BY <1>1, <2>2 DEF Rows, OfOrigin, WholeInv, TypeOK
  <1>4. rows \in Envs /\ rows \subseteq Env /\ FirstRows(rows) \subseteq rows
    <2> HIDE DEF rows
    <2>1. rows \in SUBSET asg[t]
      BY <1>3
    <2>2. rows \in Envs
      BY <1>3, <2>1, EnvsFacts
    <2>3. FirstRows(rows) \subseteq rows
      BY DEF FirstRows
    <2> QED
      BY <2>2, <2>3, EnvsFacts
  <1>5. es = FirstRows(rows)
    <2>1. es \subseteq FirstRows(rows) /\ IsBatch(es, FirstRows(rows))
      BY DEF AnswerTo
    <2> QED
      BY <1>4, <2>1, AllFits
  <1> SUFFICES ASSUME NEW e \in es, NEW f \in signed, f.origin = e.origin, SeqNo(f) < SeqNo(e)
               PROVE  f \in es \/ OpOf[TagOf(f)] \in HeldOps(s)
    BY DEF Gapless
  <1>6. /\ e \in asg[t] /\ e.origin = p.origin /\ SeqNo(e) <= p.upto
        /\ SeqNo(e) \in Nat /\ SeqNo(f) \in Nat /\ f.origin \in Server
    <2>1. e \in Env /\ f \in Env /\ e \in rows
      BY <1>4, <1>5 DEF WholeInv, TypeOK
    <2> QED
      BY <2>1, EnvFacts DEF Rows, OfOrigin
  <1>7. CASE SeqNo(f) < p.from
    BY <1>2, <1>6, <1>7 DEF Passed
  <1>8. CASE f.origin = s
    BY <1>1, <1>8 DEF WholeInv, OwnKept, RowsWhole, HeldOps
  <1>9. CASE p.from <= SeqNo(f) /\ f.origin # s
    <2>1. f \in asg[t]
      <3>1. CASE f.origin = t
        BY <3>1 DEF WholeInv, OwnKept
      <3>2. CASE f.origin # t
        <4>1. OneHomePerOp
          BY <1>1, <1>6, <1>9, <3>2 DEF NoRelayedTwins, NoRelay
        <4>2. SeqNo(e) <= heads[t][f.origin] /\ heads[t][f.origin] \in Nat
          BY <1>1, <1>6, <3>2 DEF WholeInv, RowsWhole, TypeOK
        <4>3. SeqNo(f) <= heads[t][f.origin]
          BY <1>6, <4>2
        <4>4. OpOf[TagOf(f)] \in HeldOps(t)
          BY <1>1, <3>2, <4>3 DEF WholeInv, HeadsWhole
        <4> QED
          BY <1>1, <4>1, <4>4, TwinsAreOne DEF Intact
      <3> QED
        BY <3>1, <3>2
    <2>2. f \in rows
      BY <1>3, <1>6, <1>9, <2>1 DEF Rows, OfOrigin
    <2> HIDE DEF rows
    <2>3. f \in FirstRows(rows)
      BY <1>4, <1>5, <2>2, FirstRowsClosed
    <2> QED
      BY <1>5, <2>3
  <1> QED
    BY <1>3, <1>6, <1>7, <1>8, <1>9

\* What was asked for and answered without a gap stays so.
LEMMA PassedStays ==
    ASSUME WholeInv, Intact, [Next]_vars, NEW s \in Server, NEW o \in Server, NEW q \in Nat, Passed(s, o, q)
    PROVE  Passed(s, o, q)'
  <1>1. TypeOK
    BY DEF WholeInv
  <1>2. HeldOps(s) \subseteq HeldOps(s)'
    BY <1>1, NothingLost
  <1>3. Len(log[o]) \in Nat /\ Len(log[o]) <= Len(log'[o]) /\ Len(log'[o]) \in Nat
    BY <1>1, NothingLost, NextType, LenProperties DEF TypeOK
  <1>4. q <= Len(log'[o]) + 1
    BY <1>3 DEF Passed
  <1>5. ASSUME NEW f \in signed', f.origin = o, SeqNo(f) < q PROVE OpOf[TagOf(f)] \in HeldOps(s)'
    <2>1. f \in signed
      BY <1>1, <1>3, <1>5, NewSigned DEF Passed
    <2> QED
      BY <1>2, <1>5, <2>1 DEF Passed
  <1> QED
    BY <1>4, <1>5 DEF Passed, SeqNo, TagOf

LEMMA GaplessStays ==
    ASSUME WholeInv, Intact, [Next]_vars, NEW s \in Server, NEW es \in SUBSET signed, Gapless(s, es)
    PROVE  Gapless(s, es)'
  <1>1. TypeOK
    BY DEF WholeInv
  <1>2. HeldOps(s) \subseteq HeldOps(s)'
    BY <1>1, NothingLost
  <1>3. ASSUME NEW e \in es, NEW f \in signed', f.origin = e.origin, SeqNo(f) < SeqNo(e)
        PROVE  f \in es \/ OpOf[TagOf(f)] \in HeldOps(s)'
    <2>1. SeqNo(e) \in Nat /\ SeqNo(e) <= Len(log[e.origin])
      BY <1>1, EnvFacts DEF TypeOK, WholeInv, SignedInLog, Intact
    <2>2. f \in signed
      BY <1>1, <1>3, <2>1, NewSigned
    <2> QED
      BY <1>2, <1>3, <2>2 DEF Gapless
  <1> QED
    BY <1>3 DEF Gapless, SeqNo, TagOf

\* A server signs what it appends and keeps, where clients offered it.
LEMMA OwnKeptStep ==
    ASSUME WholeInv, Intact, [Next]_vars
    PROVE  OwnKept'
  <1> SUFFICES ASSUME NEW e \in signed' PROVE e \in asg'[e.origin] /\ e.origin \in CommitAt[TagOf(e)]
    BY DEF OwnKept, TagOf
  <1>1. TypeOK
    BY DEF WholeInv
  <1>2. CASE e \in signed
    <2>1. e.origin \in Server
      BY <1>1, <1>2, EnvFacts DEF TypeOK
    <2> QED
      BY <1>1, <1>2, <2>1, NothingLost DEF WholeInv, OwnKept
  <1>3. CASE e \notin signed
    <2>1. /\ e.origin \in Server
          /\ \E r \in Record : /\ Commit(e.origin, r) /\ TagOf(e) = r
                               /\ e = [origin |-> e.origin, chain |-> Append(log[e.origin], r)]
      BY <1>1, <1>3, NewSigned
    <2>2. PICK r \in Record : /\ Commit(e.origin, r) /\ TagOf(e) = r
                              /\ e = [origin |-> e.origin, chain |-> Append(log[e.origin], r)]
      BY <2>1
    <2>3. asg' = [asg EXCEPT ![e.origin] = @ \cup {e}] /\ e.origin \in CommitAt[r]
      BY <2>2 DEF Commit, CanCommit
    <2> QED
      BY <1>1, <2>1, <2>2, <2>3 DEF TypeOK
  <1> QED
    BY <1>2, <1>3

\* what changes at a server that takes e, or commits it
LEMMA TakenFacts ==
    ASSUME WholeInv, Intact, [Next]_vars, NEW x \in End, ApplyNext(x),
           TakenBy(x[2], FirstOf(link[x].work.envs))
    PROVE  LET e == FirstOf(link[x].work.envs)
               s == x[2]
           IN  /\ s \in Server /\ e \in signed /\ e \in link[x].work.envs /\ e.origin \in Server /\ e.origin # s
               /\ TagOf(e) \in Record /\ SeqNo(e) \in Nat
               /\ OpOf[TagOf(e)] \in HeldOps(s)'
               /\ \A t \in Server \ {s} : log'[t] = log[t] /\ asg'[t] = asg[t] /\ heads'[t] = heads[t]
               /\ \/ log'[s] = log[s] /\ asg'[s] = asg[s]
                  \/ Held(s)' = Held(s) \cup {TagOf(e)} /\ asg'[s] = asg[s] \cup {e}
               /\ \A o \in Server : heads'[s][o] = IF o = e.origin /\ heads[s][o] < SeqNo(e)
                                                   THEN SeqNo(e) ELSE heads[s][o]
  <1> DEFINE e == FirstOf(link[x].work.envs)
             s == x[2]
  <1>1. TypeOK /\ NoForgery
    BY DEF WholeInv
  <1>2. /\ s \in Server /\ e \in link[x].work.envs /\ e.origin \in Server
        /\ TagOf(e) \in Record /\ SeqNo(e) \in Nat
    BY <1>1, WorkFacts DEF ApplyNext
  <1>3. e \in signed
    BY <1>1, <1>2 DEF NoForgery
  <1>4. TakenBy(s, e)
    OBVIOUS
  <1> HIDE DEF e, s
  <1>5. \/ log' = log /\ asg' = asg /\ OpOf[TagOf(e)] \in HeldOps(s)
        \/ /\ log' = [log EXCEPT ![s] = Append(@, TagOf(e))]
           /\ asg' = [asg EXCEPT ![s] = @ \cup {e}]
    BY <1>4 DEF TakenBy
  <1>6. \A t \in Server \ {s} : log'[t] = log[t] /\ asg'[t] = asg[t]
    BY <1>1, <1>2, <1>5 DEF TypeOK
  <1>7. /\ OpOf[TagOf(e)] \in HeldOps(s)'
        /\ \/ log'[s] = log[s] /\ asg'[s] = asg[s]
           \/ Held(s)' = Held(s) \cup {TagOf(e)} /\ asg'[s] = asg[s] \cup {e}
    <2>1. CASE log' = log /\ asg' = asg /\ OpOf[TagOf(e)] \in HeldOps(s)
      BY <1>2, <2>1, HeldSame
    <2>2. CASE /\ log' = [log EXCEPT ![s] = Append(@, TagOf(e))]
               /\ asg' = [asg EXCEPT ![s] = @ \cup {e}]
      <3>1. log'[s] = Append(log[s], TagOf(e)) /\ asg'[s] = asg[s] \cup {e}
        BY <1>1, <1>2, <2>2 DEF TypeOK
      <3> QED
        BY <1>1, <1>2, <3>1, HeldAppend
    <2> QED
      BY <1>5, <2>1, <2>2
  <1>8. heads' = [heads EXCEPT ![s] = Advance(heads[s], e.origin, SeqNo(e))] /\ e.origin # s
    BY <1>4 DEF TakenBy
  <1>9. heads \in [Server -> [Server -> Nat]]
    BY <1>1 DEF TypeOK
  <1>10. /\ \A t \in Server \ {s} : heads'[t] = heads[t]
         /\ \A o \in Server : heads'[s][o] = IF o = e.origin /\ heads[s][o] < SeqNo(e)
                                             THEN SeqNo(e) ELSE heads[s][o]
    BY <1>2, <1>8, <1>9 DEF Advance
  <1> QED
    BY <1>2, <1>3, <1>6, <1>7, <1>8, <1>10 DEF e, s

\* In a commit.
LEMMA CommitFacts ==
    ASSUME TypeOK, NEW s \in Server, NEW r \in Record, Commit(s, r)
    PROVE  LET e == [origin |-> s, chain |-> Append(log[s], r)]
           IN  /\ TagOf(e) = r /\ e.origin = s
               /\ Held(s)' = Held(s) \cup {r} /\ asg'[s] = asg[s] \cup {e} /\ heads' = heads
               /\ \A t \in Server \ {s} : log'[t] = log[t] /\ asg'[t] = asg[t]
  <1> DEFINE e == [origin |-> s, chain |-> Append(log[s], r)]
  <1>1. log' = [log EXCEPT ![s] = Append(log[s], r)] /\ asg' = [asg EXCEPT ![s] = @ \cup {e}] /\ heads' = heads
    BY DEF Commit
  <1>2. TagOf(e) = r
    BY DEF TagOf, TypeOK
  <1>3. e.origin = s
    OBVIOUS
  <1> HIDE DEF e
  <1>4. /\ log'[s] = Append(log[s], r) /\ asg'[s] = asg[s] \cup {e}
        /\ \A t \in Server \ {s} : log'[t] = log[t] /\ asg'[t] = asg[t]
    BY <1>1 DEF TypeOK
  <1>5. Held(s)' = Held(s) \cup {r}
    BY <1>4, HeldAppend
  <1> QED
    BY <1>1, <1>2, <1>3, <1>4, <1>5 DEF e

\* commit_block and apply_foreign write record, assignment and head together.
LEMMA RowsWholeStep ==
    ASSUME WholeInv, Intact, [Next]_vars, NEW s \in Server
    PROVE  RowsWhole(s)'
  <1>1. TypeOK /\ RowsWhole(s)
    BY DEF WholeInv
  <1>2. \A o \in Server : heads[s][o] \in Nat /\ heads'[s][o] \in Nat /\ heads[s][o] <= heads'[s][o]
    BY ZenonT(60), <1>1, HeadsStep, NextType DEF TypeOK
  <1>3. Held(s) \subseteq Held(s)'
    BY <1>1, NothingLost
  <1>4. \A e \in asg[s] : e.origin \in Server /\ SeqNo(e) \in Nat
    <2>1. asg[s] \in Envs
      BY <1>1 DEF TypeOK
    <2>2. asg[s] \subseteq Env
      BY <2>1, EnvsFacts
    <2> QED
      BY <2>2, EnvFacts
  \* what was there
  <1>5. \A e \in asg[s] : TagOf(e) \in Held(s)' /\ (e.origin # s => SeqNo(e) <= heads'[s][e.origin])
    BY <1>1, <1>2, <1>3, <1>4 DEF RowsWhole
  <1>6. CASE asg'[s] = asg[s] /\ Held(s)' = Held(s)
    <2>1. \A e \in asg'[s] : TagOf(e) \in Held(s)' /\ (e.origin # s => SeqNo(e) <= heads'[s][e.origin])
      BY <1>5, <1>6
    <2>2. \A r \in Held(s)' : \E e \in asg'[s] : TagOf(e) = r
      BY <1>1, <1>6 DEF RowsWhole
    <2> QED
      BY <2>1, <2>2 DEF RowsWhole, TagOf, SeqNo
  <1>7. ASSUME NEW g, asg'[s] = asg[s] \cup {g}, Held(s)' = Held(s) \cup {TagOf(g)},
               g.origin # s => SeqNo(g) <= heads'[s][g.origin]
        PROVE  RowsWhole(s)'
    <2>1. \A e \in asg'[s] : TagOf(e) \in Held(s)' /\ (e.origin # s => SeqNo(e) <= heads'[s][e.origin])
      BY <1>5, <1>7
    <2>2. \A r \in Held(s)' : \E e \in asg'[s] : TagOf(e) = r
      BY <1>1, <1>7 DEF RowsWhole
    <2> QED
      BY <2>1, <2>2 DEF RowsWhole, TagOf, SeqNo
  <1>8. ASSUME NEW t \in Server, NEW r \in Record, Commit(t, r) PROVE RowsWhole(s)'
    <2>1. CASE s = t
      <3> DEFINE g == [origin |-> t, chain |-> Append(log[t], r)]
      <3>1. /\ TagOf(g) = r /\ g.origin = t
            /\ Held(t)' = Held(t) \cup {r} /\ asg'[t] = asg[t] \cup {g}
        BY <1>1, <1>8, CommitFacts
      <3> HIDE DEF g
      <3>2. /\ asg'[s] = asg[s] \cup {g} /\ Held(s)' = Held(s) \cup {TagOf(g)} /\ g.origin = s
        BY <2>1, <3>1
      <3> QED
        BY <1>7, <3>2
    <2>2. CASE s # t
      <3>1. log'[s] = log[s] /\ asg'[s] = asg[s]
        BY <1>1, <1>8, <2>2, CommitFacts
      <3> QED
        BY <1>6, <3>1, HeldSame
    <2> QED
      BY <2>1, <2>2
  <1>9. ASSUME NEW x \in End, ApplyNext(x) PROVE RowsWhole(s)'
    <2> DEFINE g == FirstOf(link[x].work.envs)
    <2>1. CASE UNCHANGED <<log, asg>>
      BY <1>6, <2>1, HeldSame
    <2>2. CASE TakenBy(x[2], g)
      <3>1. /\ \A t \in Server \ {x[2]} : log'[t] = log[t] /\ asg'[t] = asg[t]
            /\ \/ log'[x[2]] = log[x[2]] /\ asg'[x[2]] = asg[x[2]]
               \/ Held(x[2])' = Held(x[2]) \cup {TagOf(g)} /\ asg'[x[2]] = asg[x[2]] \cup {g}
            /\ \A o \in Server : heads'[x[2]][o] = IF o = g.origin /\ heads[x[2]][o] < SeqNo(g)
                                                   THEN SeqNo(g) ELSE heads[x[2]][o]
            /\ g.origin \in Server /\ SeqNo(g) \in Nat
        BY <1>9, <2>2, TakenFacts
      <3> HIDE DEF g
      <3>2. CASE log'[s] = log[s] /\ asg'[s] = asg[s]
        BY <1>6, <3>2, HeldSame
      <3>3. CASE s = x[2] /\ Held(s)' = Held(s) \cup {TagOf(g)} /\ asg'[s] = asg[s] \cup {g}
        <4>1. SeqNo(g) <= heads'[s][g.origin]
          BY <1>2, <3>1, <3>3
        <4> QED
          BY <1>7, <3>3, <4>1
      <3> QED
        BY <3>1, <3>2, <3>3
    <2> QED
      BY <1>1, <1>9, <2>1, <2>2, Applied
  <1>10. CASE UNCHANGED <<log, asg, heads, signed>>
    BY <1>6, <1>10, HeldSame
  <1> QED
    BY <1>8, <1>9, <1>10, IntactSteps

\* The record just applied is the next one its origin assigned.
LEMMA NothingBefore ==
    ASSUME WholeInv, Intact, NEW x \in End, link[x].work.envs # {}, NEW f \in signed,
           f.origin = FirstOf(link[x].work.envs).origin, SeqNo(f) <= SeqNo(FirstOf(link[x].work.envs))
    PROVE  f = FirstOf(link[x].work.envs) \/ OpOf[TagOf(f)] \in HeldOps(x[2])
  <1> DEFINE g == FirstOf(link[x].work.envs)
  <1>1. TypeOK /\ NoForgery /\ SignedInLog /\ Gapless(x[2], link[x].work.envs)
    BY DEF WholeInv, OnTheWay
  <1>2. g \in link[x].work.envs /\ SeqNo(g) \in Nat /\ g \in signed
    BY <1>1, WorkFacts DEF NoForgery
  <1>3. \A h \in link[x].work.envs : SeqNo(g) <= SeqNo(h)
    BY <1>1, LinkFacts, FirstOfFacts
  <1>4. SeqNo(f) \in Nat
    BY <1>1, EnvFacts DEF TypeOK
  <1> HIDE DEF g
  <1>5. CASE SeqNo(f) = SeqNo(g)
    BY <1>1, <1>2, <1>5, SignedOnce DEF Intact, g
  <1>6. CASE SeqNo(f) < SeqNo(g)
    <2>1. f \notin link[x].work.envs
      BY <1>2, <1>3, <1>4, <1>6
    <2> QED
      BY <1>1, <1>2, <1>6, <2>1 DEF Gapless, g
  <1> QED
    BY <1>2, <1>4, <1>5, <1>6 DEF g

\* A head moves only over what is held: the record taken is the next one, or all before it is held.
LEMMA HeadsWholeStep ==
    ASSUME WholeInv, Intact, [Next]_vars, NEW s \in Server
    PROVE  HeadsWhole(s)'
  <1>1. TypeOK /\ HeadsWhole(s) /\ SignedInLog
    BY DEF WholeInv
  <1>2. HeldOps(s) \subseteq HeldOps(s)'
    BY <1>1, NothingLost
  <1>3. \A o \in Server : /\ Len(log[o]) \in Nat /\ Len(log'[o]) \in Nat /\ Len(log[o]) <= Len(log'[o])
                          /\ heads[s][o] \in Nat /\ heads'[s][o] \in Nat
    <2>1. TypeOK'
      BY <1>1, NextType
    <2>2. \A o \in Server : log[o] \in Seq(Record) /\ log'[o] \in Seq(Record)
      BY <1>1, <2>1 DEF TypeOK
    <2>3. \A o \in Server : Len(log[o]) \in Nat /\ Len(log'[o]) \in Nat
      BY <2>2, LenProperties
    <2>4. \A o \in Server : Len(log[o]) <= Len(log'[o])
      BY <1>1, NothingLost
    <2>5. \A o \in Server : heads[s][o] \in Nat /\ heads'[s][o] \in Nat
      BY <1>1, <2>1 DEF TypeOK
    <2> QED
      BY <2>3, <2>4, <2>5
  <1>4. ASSUME NEW o \in Server, heads'[s][o] = heads[s][o]
        PROVE  /\ heads'[s][o] <= Len(log'[o])
               /\ \A e \in signed' : o = e.origin /\ o # s /\ SeqNo(e) <= heads'[s][o]
                                        => OpOf[TagOf(e)] \in HeldOps(s)'
    <2>1. heads[s][o] <= Len(log[o])
      BY <1>1 DEF HeadsWhole
    <2>2. ASSUME NEW e \in signed', o = e.origin, o # s, SeqNo(e) <= heads'[s][o]
          PROVE  OpOf[TagOf(e)] \in HeldOps(s)'
      <3>1. e \in signed
        BY <1>1, <1>3, <1>4, <2>1, <2>2, NewSigned
      <3> QED
        BY <1>1, <1>2, <1>4, <2>2, <3>1 DEF HeadsWhole
    <2> QED
      BY <1>3, <1>4, <2>1, <2>2
  <1>5. ASSUME NEW o \in Server, heads'[s][o] # heads[s][o]
        PROVE  /\ heads'[s][o] <= Len(log'[o])
               /\ \A e \in signed' : o = e.origin /\ o # s /\ SeqNo(e) <= heads'[s][o]
                                        => OpOf[TagOf(e)] \in HeldOps(s)'
    <2>1. PICK x \in End : ApplyNext(x)
      BY <1>5, IntactSteps DEF Commit
    <2> DEFINE g == FirstOf(link[x].work.envs)
    <2>2. signed' = signed /\ TakenBy(x[2], g)
      BY <1>1, <1>5, <2>1, Applied
    <2>3. /\ x[2] \in Server /\ g \in signed /\ g \in link[x].work.envs /\ SeqNo(g) \in Nat
          /\ OpOf[TagOf(g)] \in HeldOps(x[2])'
          /\ \A t \in Server \ {x[2]} : heads'[t] = heads[t]
          /\ \A p \in Server : heads'[x[2]][p] = IF p = g.origin /\ heads[x[2]][p] < SeqNo(g)
                                                 THEN SeqNo(g) ELSE heads[x[2]][p]
      BY <2>1, <2>2, TakenFacts
    <2> HIDE DEF g
    <2>4. s = x[2] /\ o = g.origin /\ heads'[s][o] = SeqNo(g)
      BY <1>5, <2>3
    <2>5. SeqNo(g) <= Len(log[o])
      BY <1>1, <2>3, <2>4 DEF SignedInLog, Intact
    <2>6. ASSUME NEW e \in signed', o = e.origin, SeqNo(e) <= heads'[s][o]
          PROVE  OpOf[TagOf(e)] \in HeldOps(s)'
      <3>1. e = g \/ OpOf[TagOf(e)] \in HeldOps(s)
        BY <2>2, <2>3, <2>4, <2>6, NothingBefore DEF g
      <3> QED
        BY <1>2, <2>3, <2>4, <3>1
    <2> QED
      BY <1>3, <2>3, <2>4, <2>5, <2>6
  <1>6. \A e \in signed' : e.origin \in Server
    BY <1>1, NextType, EnvFacts DEF TypeOK
  <1>7. \A o \in Server : heads'[s][o] <= Len(log'[o])
    BY <1>4, <1>5
  <1>8. \A e \in signed' : e.origin # s /\ SeqNo(e) <= heads'[s][e.origin] => OpOf[TagOf(e)] \in HeldOps(s)'
    BY <1>4, <1>5, <1>6
  <1> QED
    BY <1>7, <1>8 DEF HeadsWhole, SeqNo, TagOf

\* The rest of a batch has no gap once its first record is taken.
LEMMA RestGapless ==
    ASSUME WholeInv, Intact, [Next]_vars, NEW y \in End, ApplyNext(y),
           NEW es, es = link[y].work.envs, ~Failed(Verdict(y[2], FirstOf(es)))
    PROVE  Gapless(y[2], es \ {FirstOf(es)})'
  <1> DEFINE s == y[2]
             g == FirstOf(es)
  <1>1. /\ TypeOK /\ s \in Server /\ g \in es /\ g.origin \in Server
        /\ es \subseteq signed /\ Gapless(s, es)
    BY WorkFacts DEF WholeInv, ApplyNext, NoForgery, OnTheWay
  <1>2. signed' = signed
    BY <1>1, Applied
  <1>3. HeldOps(s) \subseteq HeldOps(s)'
    BY <1>1, NothingLost
  <1>4. OpOf[TagOf(g)] \in HeldOps(s)'
    <2>1. CASE g.origin = s
      <3>1. OpOf[TagOf(g)] \in HeldOps(s)
        BY <1>1, <2>1 DEF WholeInv, OwnKept, RowsWhole, HeldOps
      <3> QED
        BY <1>3, <3>1
    <2>2. CASE TakenBy(s, g)
      BY <2>2, TakenFacts
    <2> QED
      BY <1>1, <2>1, <2>2, Applied
  <1> HIDE DEF s, g
  <1>5. ASSUME NEW e \in es \ {g}, NEW f \in signed', f.origin = e.origin, SeqNo(f) < SeqNo(e)
        PROVE  f \in es \ {g} \/ OpOf[TagOf(f)] \in HeldOps(s)'
    <2>1. f \in es \/ OpOf[TagOf(f)] \in HeldOps(s)
      BY <1>1, <1>2, <1>5 DEF Gapless
    <2> QED
      BY <1>3, <1>4, <2>1
  <1> QED
    BY <1>5 DEF Gapless, SeqNo, TagOf, s, g

\* A pushed record that plan_push lets through is the next one, or an old one.
LEMMA PushGapless ==
    ASSUME WholeInv, Intact, NEW s \in Server, NEW e \in signed, SeqNo(e) <= Known(s, e.origin) + 1
    PROVE  Gapless(s, {e})
  <1>1. e.origin \in Server /\ \A f \in signed : SeqNo(f) \in Nat
    BY EnvFacts DEF WholeInv, TypeOK
  <1>2. /\ Known(s, e.origin) \in Nat
        /\ \A f \in signed : f.origin = e.origin /\ SeqNo(f) <= Known(s, e.origin)
                                => OpOf[TagOf(f)] \in HeldOps(s)
    BY <1>1, KnownMeans DEF Intact
  <1>3. ASSUME NEW f \in signed, f.origin = e.origin, SeqNo(f) < SeqNo(e)
        PROVE  OpOf[TagOf(f)] \in HeldOps(s)
    <2>1. SeqNo(f) <= Known(s, e.origin)
      BY <1>1, <1>2, <1>3
    <2> QED
      BY <1>2, <1>3, <2>1
  <1> QED
    BY <1>3 DEF Gapless

\* A batch being applied has no gap: what is left of one, an answer just received, or one push.
LEMMA WorkGaplessStep ==
    ASSUME WholeInv, Intact, [Next]_vars, NEW y \in End, NEW es, es = link'[y].work.envs
    PROVE  Gapless(y[2], es)'
  <1>1. TypeOK /\ y[2] \in Server /\ Gapless(y[2], link[y].work.envs) /\ link[y].work.envs \subseteq signed
    BY EndFacts DEF WholeInv, OnTheWay, NoForgery
  <1>2. CASE es = link[y].work.envs
    BY <1>1, <1>2, GaplessStays
  <1>3. CASE es = {}
    BY <1>3 DEF Gapless
  <1>4. CASE /\ ApplyNext(y) /\ ~Failed(Verdict(y[2], FirstOf(link[y].work.envs)))
             /\ es = link[y].work.envs \ {FirstOf(link[y].work.envs)}
    <2>1. PICK fs : fs = link[y].work.envs
      OBVIOUS
    <2>2. ApplyNext(y) /\ ~Failed(Verdict(y[2], FirstOf(fs))) /\ es = fs \ {FirstOf(fs)}
      BY <1>4, <2>1
    <2> QED
      BY <2>1, <2>2, RestGapless
  <1>5. ASSUME NEW m \in Range(net[y]), m.type = "resp", es = m.envs
        PROVE  Gapless(y[2], es)'
    <2>1. es \subseteq signed /\ Gapless(y[2], es)
      BY <1>5 DEF WholeInv, NoForgery, OnTheWay
    <2> QED
      BY <1>1, <2>1, GaplessStays
  <1>6. ASSUME NEW m \in Range(net[y]), m.type = "push", es = {m.env},
               SeqNo(m.env) <= Known(y[2], m.env.origin) + 1
        PROVE  Gapless(y[2], es)'
    <2>1. m.env \in signed
      BY <1>6 DEF WholeInv, NoForgery
    <2>2. Gapless(y[2], es)
      BY <1>1, <1>6, <2>1, PushGapless
    <2> QED
      BY <1>1, <1>6, <2>1, <2>2, GaplessStays
  <1> QED
    BY <1>1, <1>2, <1>3, <1>4, <1>5, <1>6, WorkSets

\* A pull on its way starts behind what is held, an answer on its way has no gap.
LEMMA PacketsWholeStep ==
    ASSUME WholeInv, Intact, NoRelayedTwins, [Next]_vars, NEW y \in End, NEW m \in Range(net'[y])
    PROVE  /\ m.type = "pull" => Passed(Peer(y)[2], m.origin, m.from)'
           /\ m.type = "resp" => Gapless(y[2], m.envs)'
  <1>1. TypeOK /\ y[2] \in Server /\ Peer(y)[2] \in Server /\ Peer(y) \in End /\ RollbackServers = {}
    BY EndFacts DEF WholeInv, Intact
  <1>2. CASE m.type = "pull"
    <2>1. m \in Msg
      <3>1. TypeOK'
        BY <1>1, NextType
      <3>2. net'[y] \in Seq(Msg)
        BY <3>1 DEF TypeOK
      <3> QED
        BY <3>2, RangeFacts
    <2>2. m.origin \in Server /\ m.from \in Nat
      BY <1>2, <2>1 DEF Msg, Hello
    <2>3. m \in Range(net[y]) \/ Asked(Peer(y)[2], m)
      BY <1>1, <1>2, NetSteps
    <2>4. Passed(Peer(y)[2], m.origin, m.from)
      <3>1. CASE m \in Range(net[y])
        BY <1>2, <3>1 DEF WholeInv, OnTheWay
      <3>2. CASE Asked(Peer(y)[2], m)
        BY <1>1, <2>2, <3>2, AskedPassed
      <3> QED
        BY <2>3, <3>1, <3>2
    <2> QED
      BY <1>1, <1>2, <2>2, <2>4, PassedStays
  <1>3. CASE m.type = "resp"
    <2>1. /\ m.envs \subseteq signed
          /\ Gapless(y[2], m.envs)
      <3>1. CASE m \in Range(net[y])
        BY <1>3, <3>1 DEF WholeInv, NoForgery, OnTheWay
      <3>2. CASE /\ m.envs \subseteq asg[Peer(y)[2]]
                 /\ \E p \in Range(net[Peer(y)]) : p.type = "pull" /\ AnswerTo(Peer(y)[2], p, m.envs)
        <4>1. m.envs \subseteq signed
          BY <1>1, <3>2 DEF WholeInv, NoForgery
        <4> QED
          BY <3>2, <4>1, AnswersGapless
      <3> QED
        BY <1>1, <1>3, <3>1, <3>2, NetSteps
    <2> QED
      BY <1>1, <1>3, <2>1, GaplessStays
  <1> QED
    BY <1>2, <1>3

LEMMA OnTheWayStep ==
    ASSUME WholeInv, Intact, NoRelayedTwins, [Next]_vars, NEW y \in End
    PROVE  OnTheWay(y)'
  <1>1. Gapless(y[2], link[y].work.envs)'
    BY WorkGaplessStep DEF Gapless
  <1>2. \A m \in Range(net'[y]) : /\ m.type = "pull" => Passed(Peer(y)[2], m.origin, m.from)'
                                  /\ m.type = "resp" => Gapless(y[2], m.envs)'
    BY PacketsWholeStep
  <1> QED
    BY <1>1, <1>2 DEF OnTheWay

\* WholeInv is inductive.
LEMMA WholeStep == WholeInv /\ Intact /\ NoRelayedTwins /\ [Next]_vars => WholeInv'
  <1> SUFFICES ASSUME WholeInv, Intact, NoRelayedTwins, [Next]_vars PROVE WholeInv'
    OBVIOUS
  <1>1. TypeOK' /\ NoForgery' /\ SignedInLog' /\ OpsOnce'
    BY NextType, NoForgeryStep, SignedInLogStep, OpsOnceStep DEF WholeInv
  <1>2. OwnKept'
    BY OwnKeptStep
  <1>3. \A s \in Server : RowsWhole(s)' /\ HeadsWhole(s)'
    BY RowsWholeStep, HeadsWholeStep
  <1>4. \A y \in End : OnTheWay(y)'
    BY OnTheWayStep
  <1> QED
    BY <1>1, <1>2, <1>3, <1>4 DEF WholeInv

LEMMA WholeInit == Init => WholeInv
  <1> SUFFICES ASSUME Init PROVE WholeInv
    OBVIOUS
  <1>1. TypeOK /\ NoForgery
    BY InitType, NoForgeryInit
  <1>2. SignedInLog /\ OpsOnce /\ OwnKept
    BY DEF Init, SignedInLog, OpsOnce, OwnKept
  <1>3. \A s \in Server : RowsWhole(s) /\ HeadsWhole(s)
    BY DEF Init, RowsWhole, HeadsWhole, Held
  <1>4. \A y \in End : OnTheWay(y)
    BY EmptyOut DEF Init, OnTheWay, Gapless, FreshEnd, Idle
  <1> QED
    BY <1>1, <1>2, <1>3, <1>4 DEF WholeInv

LEMMA WholeHolds == Intact /\ NoRelayedTwins => (Spec => []WholeInv)
  <1> SUFFICES ASSUME Intact, NoRelayedTwins PROVE Spec => []WholeInv
    OBVIOUS
  <1>1. WholeInv /\ [Next]_vars => WholeInv'
    BY WholeStep
  <1> QED
    BY <1>1, WholeInit, PTL DEF Spec

\* What a head stands for is held, the server's own included.
LEMMA WholeNoHoles == WholeInv /\ Intact => NoHoles
  <1> SUFFICES ASSUME WholeInv, Intact, NEW s \in Server, NEW e \in signed, SeqNo(e) <= Known(s, e.origin)
               PROVE  OpOf[TagOf(e)] \in HeldOps(s)
    BY DEF NoHoles
  <1>1. e.origin \in Server
    BY EnvFacts DEF WholeInv, TypeOK
  <1> QED
    BY <1>1, KnownMeans DEF Intact

\* What one replica holds is assigned at or below its head, which is the other one's too.
LEMMA WholeSameOps == WholeInv /\ Intact => SameHeadsSameOps
  <1> SUFFICES ASSUME WholeInv, Intact, NEW s \in Server, NEW t \in Server,
                      \A o \in Server : Known(s, o) = Known(t, o)
               PROVE  HeldOps(s) \subseteq HeldOps(t)
    BY DEF SameHeadsSameOps
  <1> SUFFICES ASSUME NEW r \in Held(s) PROVE OpOf[r] \in HeldOps(t)
    BY DEF HeldOps
  <1>1. PICK e \in asg[s] : TagOf(e) = r
    BY DEF WholeInv, RowsWhole
  <1>2. e \in signed /\ e.origin \in Server
    <2>1. e \in signed
      BY DEF WholeInv, NoForgery
    <2> QED
      BY <2>1, EnvFacts DEF WholeInv, TypeOK
  <1>3. SeqNo(e) <= Known(t, e.origin)
    BY <1>2, KnownMeans DEF Intact
  <1> QED
    BY <1>1, <1>2, <1>3, WholeNoHoles DEF NoHoles

\* A replica misses no operation an origin assigned up to the head it holds of the origin:
\* apply_envelopes, plan_pull and plan_push never let a record in before those in front of it.
\* It is so on servers whose chains are not cut or half written, that refuse no record by rule
\* and answer within the byte budget, and where no third server relays an operation that two
\* servers committed.
THEOREM NothingPassedOver == Intact /\ NoRelayedTwins => (Spec => []NoHoles)
  <1> SUFFICES ASSUME Intact, NoRelayedTwins PROVE Spec => []NoHoles
    OBVIOUS
  <1>1. WholeInv => NoHoles
    BY WholeNoHoles
  <1> QED
    BY <1>1, WholeHolds, PTL

\* What anti-entropy rests on (storage::heads, peer_connection::start_pulls): replicas that state
\* equal heads hold the same operations, so that there is nothing to pull.  Same hypotheses.
THEOREM EqualHeadsEqualOps == Intact /\ NoRelayedTwins => (Spec => []SameHeadsSameOps)
  <1> SUFFICES ASSUME Intact, NoRelayedTwins PROVE Spec => []SameHeadsSameOps
    OBVIOUS
  <1>1. WholeInv => SameHeadsSameOps
    BY WholeSameOps
  <1> QED
    BY <1>1, WholeHolds, PTL

=============================================================================
