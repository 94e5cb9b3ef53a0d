---------------------------- MODULE ChiL2Coherent ----------------------------
(***************************************************************************)
(* The engine with the contents of the L1 caches (RN-Fs), to ask what a    *)
(* program sees.  The data of a line is the number of writes it has seen;  *)
(* latest counts the writes made.                                          *)
(*                                                                         *)
(* The peers are external, and behave as the repository's tables of CHI    *)
(* transactions say: SnpNotSharedDirty leaves a shared copy and the other  *)
(* snoops none; a holder gives its data when it is dirty or asked for it;  *)
(* a unique line is written without telling anybody.  Messages overtake    *)
(* each other freely.                                                      *)
(*                                                                         *)
(* Unless Overlap, requests for a line come one at a time, each after the  *)
(* messages of the one before it have arrived: the engine does not order   *)
(* those that overlap.  An id is used again once its request is over.  A   *)
(* line is one beat, since beats change what is counted, not what is       *)
(* stored.                                                                 *)
(***************************************************************************)
EXTENDS Gem5Messages, SequencesExt

CONSTANTS
    Addrs,          \* the line addresses requested
    Workload,       \* who requests what: a set of <<RN-F, address, gem5 type>>
    Overlap,        \* may requests for one line overlap
    IdsPerNode,     \* may two RN-Fs use one id at the same time
    MaxRequests     \* bound on the number of requests

ASSUME AddrsAssumption == Addrs \subseteq Addr
ASSUME WorkloadAssumption ==
    Workload \subseteq Nodes \X Addrs \X {"ReadShared", "ReadNotSharedDirty",
        "ReadOnce", "ReadUnique", "CleanUnique", "WriteBackFull", "Evict"}
ASSUME UpgradesComeAlone ==
    Overlap => \A w \in Workload : w[3] # "CleanUnique"
ASSUME OneBeatAssumption == Beats = 1
ASSUME VersionsAssumption == Data \subseteq Nat /\ ZeroData = 0
ASSUME PeersAssumption == Overlap \in BOOLEAN /\ IdsPerNode \in BOOLEAN
ASSUME MaxRequestsAssumption == MaxRequests \in Nat

VARIABLES
    l1,         \* the line of an address in an RN-F's cache
    latest,     \* the number of writes made to a line
    requests,   \* the requests that have not been answered
    sent,       \* the number of requests so far
    net,        \* messages on their way from the L2
    rspIn,      \* ids of dataless responses on their way to the L2
    datIn       \* data messages on their way to the L2

world == <<l1, latest>>
vars == <<engineVars, world, requests, sent, net, rspIn, datIn>>

L1State == {"I", "SC", "UC", "UD"}

Requests ==
    {[srcNodeID |-> w[1], addr |-> w[2], type |-> w[3], txnID |-> id] :
        w \in Workload, id \in L1TxnIds}

L1Line(state, data) == [state |-> state, data |-> data]
NoLine == L1Line("I", 0)

Init ==
    /\ EngineInit
    /\ l1 = [n \in Nodes |-> [a \in Addrs |-> NoLine]]
    /\ latest = [a \in Addrs |-> 0]
    /\ requests = {}
    /\ sent = 0
    /\ net = {} /\ rspIn = {} /\ datIn = {}

-----------------------------------------------------------------------------
(* Calls of the engine *)

Sent == UNION {ToSet(MessagesOf(actions'[k])) : k \in DOMAIN actions'}

TxnOf(r) == [opcode |-> Gem5ToOpcode[r.type], addr |-> r.addr,
             srcNodeID |-> r.srcNodeID, txnID |-> r.txnID]

\* The states of its own line in which an RN-F sends a request.
SentIn ==
    [ReadShared |-> {"I"}, ReadNotSharedDirty |-> {"I"}, ReadOnce |-> {"I"},
     ReadUnique |-> {"I", "SC"}, CleanUnique |-> {"SC"},
     WriteBackFull |-> {"UD"}, Evict |-> {"SC", "UC"}]

\* Nothing of an earlier request for the line is under way.
LineQuiet(addr) ==
    /\ \A r \in requests : r.addr # addr
    /\ \A m \in net : m.action.addr # addr
    /\ \A d \in datIn : d.addr # addr

\* Neither the id nor the data that an RN-F sends under it is on its way.
IdFree(node, id) ==
    /\ \A r \in requests : r.txnID = id => IdsPerNode /\ r.srcNodeID # node
    /\ \A d \in datIn : d.txnId = id => IdsPerNode /\ d.from # node

NewRequest(r) ==
    /\ fault = "none"
    /\ sent < MaxRequests
    /\ sent' = sent + 1
    /\ l1[r.srcNodeID][r.addr].state \in SentIn[r.type]
    /\ Overlap \/ LineQuiet(r.addr)
    /\ IdFree(r.srcNodeID, r.txnID)

Request(r) ==
    /\ NewRequest(r)
    /\ r.type # "Evict"
    /\ RecvRequest(TxnOf(r))
    /\ requests' = requests \cup {r}
    /\ net' = net \cup Sent
    /\ UNCHANGED <<world, rspIn, datIn>>

\* Nothing depends on the answer (Comp_I).
Evict(r) ==
    /\ NewRequest(r)
    /\ r.type = "Evict"
    /\ InvalidateLine(r.addr)
    /\ l1' = [l1 EXCEPT ![r.srcNodeID][r.addr] = NoLine]
    /\ UNCHANGED <<latest, requests, net, rspIn, datIn>>

DeliverData(d) ==
    /\ RecvData(d.txnId, d.addr, d.data)
    /\ datIn' = datIn \ {d}
    /\ net' = net \cup Sent
    /\ UNCHANGED <<world, requests, sent, rspIn>>

DeliverResponse(id) ==
    /\ RecvResponse(id)
    /\ rspIn' = rspIn \ {id}
    /\ net' = net \cup Sent
    /\ UNCHANGED <<world, requests, sent, datIn>>

-----------------------------------------------------------------------------
(* The peers *)

Memory == "memory"

\* The middleware does not look at the sender of data.
DataMessage(from, action, data) ==
    [from |-> from, txnId |-> action.txnId, addr |-> action.addr, data |-> data]

GrantedState == [CompData_SC |-> "SC", CompData_UC |-> "UC", CompData_UD_PD |-> "UD"]

\* The request that m answers.
Answered(m) ==
    {r \in requests : /\ r.txnID = m.action.txnId
                      /\ r.srcNodeID = m.action.destNode}

Over(m) == requests' = requests \ Answered(m)

\* A ReadOnce uses the data and does not keep the line.
ReceiveLine(m) ==
    /\ m.type \in DOMAIN GrantedState
    /\ Over(m)
    /\ LET kept == {r \in Answered(m) : r.type # "ReadOnce"}
       IN l1' = [l1 EXCEPT ![m.action.destNode][m.action.addr] =
                    IF kept # {} THEN L1Line(GrantedState[m.type], m.action.data)
                    ELSE @]
    /\ net' = net \ {m}
    /\ UNCHANGED <<latest, rspIn, datIn>>

\* The answer to a CleanUnique makes the copy unique, if it is still there.
ReceiveUpgrade(m) ==
    /\ m.type = "Comp_UC"
    /\ Over(m)
    /\ l1' = [l1 EXCEPT ![m.action.destNode][m.action.addr] =
                 IF @.state = "SC" THEN L1Line("UC", @.data) ELSE @]
    /\ net' = net \ {m}
    /\ UNCHANGED <<latest, rspIn, datIn>>

AnswerSnoop(m) ==
    /\ m.channel = "snp"
    /\ LET n    == m.action.destNode
           line == l1[n][m.action.addr]
       IN /\ l1' = [l1 EXCEPT ![n][m.action.addr] =
                       IF m.type = "SnpNotSharedDirtyFwd" /\ line.state # "I"
                       THEN L1Line("SC", line.data) ELSE NoLine]
          /\ IF line.state = "UD" \/ (line.state # "I" /\ m.action.retToSrc)
             THEN /\ datIn' = datIn \cup {DataMessage(n, m.action, line.data)}
                  /\ UNCHANGED rspIn
             ELSE /\ rspIn' = rspIn \cup {m.action.txnId}
                  /\ UNCHANGED datIn
    /\ net' = net \ {m}
    /\ UNCHANGED <<latest, requests>>

\* A write-back gives the line up.
SendWriteData(m) ==
    /\ m.type = "CompDBIDResp"
    /\ Over(m)
    /\ datIn' = datIn \cup
          {DataMessage(m.action.destNode, m.action,
                       l1[m.action.destNode][m.action.addr].data)}
    /\ l1' = [l1 EXCEPT ![m.action.destNode][m.action.addr] = NoLine]
    /\ net' = net \ {m}
    /\ UNCHANGED <<latest, rspIn>>

\* Memory has the initial data for ever: only a CleanUnique that finds the line in
\* UD makes the L2 write to memory, and one that comes by itself does not.
AnswerRead(m) ==
    /\ m.type = "ReadNoSnp"
    /\ datIn' = datIn \cup {DataMessage(Memory, m.action, ZeroData)}
    /\ net' = net \ {m}
    /\ UNCHANGED <<world, requests, rspIn>>

Peer(m) ==
    /\ fault = "none"
    /\ \/ ReceiveLine(m)
       \/ ReceiveUpgrade(m)
       \/ AnswerSnoop(m)
       \/ SendWriteData(m)
       \/ AnswerRead(m)
    /\ UNCHANGED <<engineVars, sent>>

\* A program writes a line of which its cache has the unique copy, and which it is
\* not giving back.
Write(n, a) ==
    /\ fault = "none"
    /\ l1[n][a].state \in {"UC", "UD"}
    /\ \A q \in requests : <<q.srcNodeID, q.addr>> # <<n, a>>
    /\ latest[a] + 1 \in Data
    /\ latest' = [latest EXCEPT ![a] = @ + 1]
    /\ l1' = [l1 EXCEPT ![n][a] = L1Line("UD", latest[a] + 1)]
    /\ UNCHANGED <<engineVars, requests, sent, net, rspIn, datIn>>

Next ==
    \/ \E r \in Requests : Request(r)
    \/ \E r \in Requests : Evict(r)
    \/ \E d \in datIn : DeliverData(d)
    \/ \E id \in rspIn : DeliverResponse(id)
    \/ \E m \in net : Peer(m)
    \/ \E n \in Nodes, a \in Addrs : Write(n, a)

Spec == Init /\ [][Next]_vars

-----------------------------------------------------------------------------
(* The use of the lines for which the L2 keeps the caches coherent *)

\* Who requests what for this line: u one set of types, the others another.
UsedBy(a, u, own, others) ==
    \A w \in Workload : w[2] = a => w[3] \in IF w[1] = u THEN own ELSE others

\* Everybody reads and writes the line; nobody upgrades or evicts it.
SharedUse(a) ==
    \A w \in Workload : w[2] = a => w[3] \notin {"CleanUnique", "Evict"}

\* Only u shares the line and upgrades it; the others ask for it as unique.
UpgradedBy(a, u) ==
    UsedBy(a, u, {"ReadShared", "CleanUnique"},
           {"ReadUnique", "ReadNotSharedDirty", "WriteBackFull"})

\* Only u keeps the line, to read it, and evicts it.
EvictedBy(a, u) == UsedBy(a, u, {"ReadShared", "ReadOnce", "Evict"}, {"ReadOnce"})

\* Requests for a line come one at a time, ids are not shared and suffice, the
\* lines in use fit, and each is used in one of these ways.  The runs with other
\* workloads show what happens outside of this.
SafeUse ==
    /\ ~Overlap /\ ~IdsPerNode
    /\ \A a \in Addrs : a % LineSize = 0
    /\ \A i \in SetIndex :
          LET lines == {a \in Addrs : GetSetIndex(a) = i}
          IN IsFiniteSet(lines) /\ Cardinality(lines) <= NumWays
    /\ \A id \in L1TxnIds : id < SnoopIdBase
    /\ SnoopIdBase + MaxRequests * Cardinality(Nodes) <= MemIdBase
    /\ \A a \in Addrs :
          \/ SharedUse(a)
          \/ \E u \in Nodes : UpgradedBy(a, u) \/ EvictedBy(a, u)

-----------------------------------------------------------------------------
TypeOK ==
    /\ EngineTypeOK
    /\ l1 \in [Nodes -> [Addrs -> [state : L1State, data : Data]]]
    /\ latest \in [Addrs -> Data]
    /\ requests \subseteq Requests

Holds(n, a) == l1[n][a].state # "I"

\* Neither the assertion on dirty victims nor a copy from a line that has gone ends
\* the run, as long as the lines in use fit and only a sole holder evicts one.
NoFault == fault = "none"

\* A line that one RN-F may write is in no other RN-F's cache.
SingleWriter ==
    \A n, o \in Nodes : \A a \in Addrs :
        (n # o /\ l1[n][a].state \in {"UC", "UD"}) => ~Holds(o, a)

\* The directory knows of every copy, so that a snoop reaches all of them.
DirectoryCovers ==
    \A n \in Nodes : \A a \in Addrs :
        (Holds(n, a) /\ fault = "none")
            => Present(cache, a) /\ n \in GetSharers(cache, a)

\* A line that is given to an RN-F has the last write in it.
ReadsSeeLastWrite ==
    [][\A m \in net \ net' :
          m.type \in DOMAIN GrantedState => m.action.data = latest[m.action.addr]]_vars

\* The last write is never gone from the caches, memory and the messages.
LastWriteKept ==
    \A a \in Addrs :
        \/ latest[a] = ZeroData
        \/ \E n \in Nodes : Holds(n, a) /\ l1[n][a].data = latest[a]
        \/ Present(cache, a) /\ GetData(cache, a) = latest[a]
        \/ \E d \in datIn : d.addr = a /\ d.data = latest[a]
        \/ \E m \in net : /\ m.type \in DOMAIN GrantedState
                          /\ m.action.addr = a /\ m.action.data = latest[a]
=============================================================================
