--------------------------- MODULE ChiL2CoherentProofs ---------------------------
(***************************************************************************)
(* The L2 keeps the L1 caches coherent, for any number of RN-Fs, lines,    *)
(* sets, ways, ids and writes, when the lines are used as SafeUse says.    *)
(*                                                                         *)
(* What holds of a line depends on the request for it that is under way.   *)
(* The inductive invariant has one phase for each place that the only      *)
(* request for a line can have reached - a fetch from memory, snoops, an   *)
(* answer, the data of a write - and says for each phase which messages    *)
(* and table entries there are and what the copies of the line may be.     *)
(* A step is one of one line and leaves every other line's phase alone.    *)
(***************************************************************************)
EXTENDS ChiL2Coherent, ChiProtocolEngineProofs, SequenceTheorems

ReqsOf(a) == {r \in requests : r.addr = a}
NetOf(a) == {m \in net : m.action.addr = a}
DataOf(a) == {d \in datIn : d.addr = a}
EntriesOf(a) == {k \in DOMAIN pending : pending[k].origReq.addr = a}

\* The snoops of entry k, for line a, that the engine has no answer to yet.
OpenSnoops(a, k) ==
    {m.action.txnId : m \in NetOf(a)} \cup {d.txnId : d \in DataOf(a)}
        \cup (rspIn \cap SnoopIdsOf(k))

Writer(n, a) == l1[n][a].state \in {"UC", "UD"}
NoWriter(a) == \A n \in Nodes : ~Writer(n, a)

-----------------------------------------------------------------------------
(* The copies of a line *)

\* Every copy is known to the directory and holds the last write, and a copy that
\* may be written is the only one.
Copies(a) ==
    /\ \A n \in Nodes :
          Holds(n, a) => n \in GetSharers(cache, a) /\ l1[n][a].data = latest[a]
    /\ \A n, o \in Nodes : (n # o /\ Writer(n, a)) => ~Holds(o, a)
    /\ \A u \in Nodes : EvictedBy(a, u) => latest[a] = 0 /\ NoWriter(a)

\* Data in flight is the last write, and nobody can make another.
DataCurrent(a) ==
    /\ \A d \in DataOf(a) : d.data = latest[a]
    /\ DataOf(a) # {} => NoWriter(a)

\* The L2 has the last write, or it is on its way there or in a dirty copy.
L2Current(a) ==
    IF Present(cache, a)
    THEN \/ GetData(cache, a) = latest[a]
         \/ DataOf(a) # {}
         \/ \E n \in Nodes : l1[n][a].state = "UD"
    ELSE latest[a] = 0

\* What the directory may say of a line, by the way in which it is used.
Shaped(a, state, sharers) ==
    /\ \A u \in Nodes : UpgradedBy(a, u) =>
          /\ state # "SD"
          /\ state \in {"SC", "UC"} => sharers = {u}
          /\ state = "UD" => \E o \in Nodes \ {u} : sharers = {o}
    /\ \A u \in Nodes : EvictedBy(a, u) =>
          state \in {"I", "SC"} /\ sharers \subseteq {u}

Shape(a) ==
    /\ Shaped(a, GetState(cache, a), GetSharers(cache, a))
    /\ \A n \in Nodes : Writer(n, a) =>
          \/ GetState(cache, a) = "UD"
          \/ GetState(cache, a) = "UC" /\ UpgradedBy(a, n)

-----------------------------------------------------------------------------
(* The phases of a line *)

UniqueReads == {"ReadUnique", "ReadNotSharedDirty"}
Reads == UniqueReads \cup {"ReadShared", "ReadOnce"}

\* The state that a read which cannot be served at once leaves the line in.
Target(type) == IF type \in UniqueReads THEN "UD" ELSE "SC"

Idle(a) ==
    ReqsOf(a) = {} /\ NetOf(a) = {} /\ DataOf(a) = {} /\ EntriesOf(a) = {}

ReadMessage(a, k) == Message("req", "ReadNoSnp", 0, ReadNoSnp(a, k))

\* The line is being read from memory under the id k.
Fetching(a, r, k) ==
    /\ ~Present(cache, a)
    /\ r.type \in Reads
    /\ ReqsOf(a) = {r} /\ EntriesOf(a) = {k}
    /\ pending[k] = Waiting(TxnOf(r), "WaitMemData", Target(r.type), 0, 0)
    /\ \/ NetOf(a) = {ReadMessage(a, k)} /\ DataOf(a) = {}
       \/ /\ NetOf(a) = {}
          /\ DataOf(a) = {DataMessage(Memory, ReadNoSnp(a, k), ZeroData)}

\* A snoop under way: its kind, its id and where it goes.
SnoopInFlight(a, r, m) ==
    /\ m.channel = "snp" /\ m.type \in {"SnpCleanInvalid", "SnpUnique", "SnpOnce"}
    /\ m.action.destNode \in Nodes \ {r.srcNodeID}
    /\ m.action.txnId \in SnoopIdsOf(r.txnID)
    /\ m.action.txnId \notin rspIn
    /\ \A o \in NetOf(a) : o.action.txnId = m.action.txnId => o = m
    /\ \A d \in DataOf(a) : d.txnId # m.action.txnId

\* The other sharers are being asked; each that still holds the line has yet to
\* receive its snoop, and the entry counts the answers to come.
Snooping(a, r) ==
    /\ Present(cache, a)
    /\ r.type \in Reads
    /\ ReqsOf(a) = {r} /\ EntriesOf(a) = {r.txnID}
    /\ pending[r.txnID].origReq = TxnOf(r)
    /\ pending[r.txnID].state = "WaitSnoopResp"
    /\ pending[r.txnID].targetState = Target(r.type)
    /\ pending[r.txnID].pendingSnoopCount = Cardinality(OpenSnoops(a, r.txnID))
    /\ l1[r.srcNodeID][a].state \in SentIn[r.type]
    /\ \A m \in NetOf(a) : SnoopInFlight(a, r, m)
    /\ \A d \in DataOf(a) :
          /\ d.txnId \in SnoopIdsOf(r.txnID) /\ d.txnId \notin rspIn
          /\ \A e \in DataOf(a) : e.txnId = d.txnId => e = d
    /\ OpenSnoops(a, r.txnID) \cap snoopRespCounted = {}
    /\ \A n \in Nodes \ {r.srcNodeID} :
          Holds(n, a) => \E m \in NetOf(a) : m.action.destNode = n

\* The message m answers r from a line in this state and with these sharers.
Grants(r, m, state, sharers) ==
    /\ m.channel # "snp"
    /\ m.action.txnId = r.txnID /\ m.action.destNode = r.srcNodeID
    /\ \/ r.type = "ReadShared" /\ m.type = "CompData_SC" /\ r.srcNodeID \in sharers
       \/ /\ r.type \in UniqueReads /\ m.type = "CompData_UD_PD"
          /\ state = "UD" /\ sharers = {r.srcNodeID}
       \/ r.type = "ReadOnce" /\ m.type \in DOMAIN GrantedState
       \/ /\ r.type = "CleanUnique" /\ m.type = "Comp_UC"
          /\ state = "UC" /\ sharers = {r.srcNodeID}
          /\ UpgradedBy(r.addr, r.srcNodeID)

Granted(a, r, m) ==
    /\ Grants(r, m, GetState(cache, a), GetSharers(cache, a))
    /\ m.type # "Comp_UC" => m.action.data = latest[a]

\* The answer m to r is on its way.
Answering(a, r, m) ==
    /\ Present(cache, a)
    /\ ReqsOf(a) = {r} /\ EntriesOf(a) = {}
    /\ NetOf(a) = {m} /\ DataOf(a) = {}
    /\ NoWriter(a)
    /\ Granted(a, r, m)

WriteAnswer(txn) == Message("rsp", "CompDBIDResp", 0, CompDBIDResp(txn))

\* The entry k waits for the data of a write, which is asked for or on its way.
AwaitingWrite(a, k) ==
    LET txn == pending[k].origReq
        n   == txn.srcNodeID
    IN /\ EntriesOf(a) = {k}
       /\ pending[k].state = "WaitL1Data" /\ k = txn.txnID
       /\ GetState(cache, a) = "UD" /\ n \in GetSharers(cache, a)
       /\ \/ /\ \E r \in requests : ReqsOf(a) = {r} /\ TxnOf(r) = txn
             /\ NetOf(a) = {WriteAnswer(txn)} /\ DataOf(a) = {}
             /\ l1[n][a].state = "UD"
          \/ /\ ReqsOf(a) = {} /\ NetOf(a) = {}
             /\ \E d \in datIn : DataOf(a) = {d} /\ d.txnId = k

Unsnooped(a) ==
    \/ Idle(a)
    \/ \E r \in requests, k \in DOMAIN pending : Fetching(a, r, k)
    \/ \E r \in requests, m \in net : Answering(a, r, m)
    \/ \E k \in DOMAIN pending : AwaitingWrite(a, k)

LineInv(a) ==
    /\ Copies(a) /\ DataCurrent(a) /\ L2Current(a)
    /\ \/ \E r \in requests : Snooping(a, r)
       \/ Shape(a) /\ Unsnooped(a)

-----------------------------------------------------------------------------
(* The tables and the ids *)

IdsInv ==
    /\ \A k \in DOMAIN pending :
          /\ pending[k].origReq.addr \in Addrs
          /\ IF pending[k].state = "WaitMemData"
             THEN MemIdBase <= k /\ k < nextInternalTxnId
             ELSE k = pending[k].origReq.txnID
    /\ \A s \in DOMAIN snoopToOrig :
          /\ SnoopIdBase <= s /\ s < nextSnoopTxnId
          /\ snoopToOrig[s] \in DOMAIN pending
          /\ pending[snoopToOrig[s]].state = "WaitSnoopResp"
    /\ snoopRespCounted \subseteq DOMAIN snoopToOrig
    /\ rspIn \subseteq DOMAIN snoopToOrig
    /\ SnoopIdBase <= nextSnoopTxnId /\ MemIdBase <= nextInternalTxnId
    /\ sent \in Nat /\ sent <= MaxRequests
    /\ nextSnoopTxnId <= SnoopIdBase + sent * Cardinality(Nodes)

MessagesInv ==
    /\ \A r, q \in requests : r.txnID = q.txnID => r = q
    /\ \A m \in net : m.action.addr \in Addrs
    /\ \A d \in datIn : d.addr \in Addrs

\* The inductive invariant.
CInv ==
    /\ TypeOK
    /\ fault = "none"
    /\ Stores(cache, Addrs)
    /\ IdsInv
    /\ MessagesInv
    /\ \A a \in Addrs : LineInv(a)

-----------------------------------------------------------------------------
(* Assumptions *)

\* The lines are aligned and fit.
LEMMA SafeLines ==
    ASSUME SafeUse
    PROVE  Aligned(Addrs) /\ Fits(Addrs)
BY AddrsAssumption DEF SafeUse, Aligned, Fits

\* A request is one of the workload's.
LEMMA RequestTypes ==
    ASSUME NEW r \in Requests
    PROVE  /\ <<r.srcNodeID, r.addr, r.type>> \in Workload
           /\ r.srcNodeID \in Nodes /\ r.addr \in Addrs /\ r.txnID \in L1TxnIds
           /\ r.addr \in Addr
           /\ r.type \in {"ReadShared", "ReadNotSharedDirty", "ReadOnce", "ReadUnique",
                          "CleanUnique", "WriteBackFull", "Evict"}
           /\ \A a, u : a = r.addr => \A own, others : UsedBy(a, u, own, others) =>
                 r.type \in IF r.srcNodeID = u THEN own ELSE others
<1>1. PICK w \in Workload, id \in L1TxnIds :
          r = [srcNodeID |-> w[1], addr |-> w[2], type |-> w[3], txnID |-> id]
    BY DEF Requests
<1>2. w \in Nodes \X Addrs \X {"ReadShared", "ReadNotSharedDirty", "ReadOnce",
                               "ReadUnique", "CleanUnique", "WriteBackFull", "Evict"}
    BY WorkloadAssumption
<1>3. w = <<r.srcNodeID, r.addr, r.type>>
    BY <1>1, <1>2
<1>4. \A a, u : a = r.addr => \A own, others : UsedBy(a, u, own, others) =>
                 r.type \in IF r.srcNodeID = u THEN own ELSE others
    BY <1>1, <1>3 DEF UsedBy
<1> QED BY <1>1, <1>2, <1>3, <1>4, AddrsAssumption

-----------------------------------------------------------------------------
(* What is sent *)

\* A vector of one action puts its one message in flight, an empty one nothing.
LEMMA SentOne ==
    /\ \A txn, state, data : actions' = <<CompData(txn, state, data)>> =>
          Sent = {Message("dat", CompDataType(state), 1, CompData(txn, state, data))}
    /\ \A txn : actions' = <<Comp(txn)>> =>
          Sent = {Message("rsp", "Comp_UC", 0, Comp(txn))}
    /\ \A txn : actions' = <<CompDBIDResp(txn)>> => Sent = {WriteAnswer(txn)}
    /\ \A a, k : actions' = <<ReadNoSnp(a, k)>> => Sent = {ReadMessage(a, k)}
    /\ actions' = <<>> => Sent = {}
<1>1. ASSUME NEW x, NEW m, actions' = <<x>>, MessagesOf(x) = <<m>> PROVE Sent = {m}
    <2>1. \A k \in DOMAIN actions' : actions'[k] = x
        BY <1>1
    <2>2. DOMAIN actions' = {1}
        BY <1>1
    <2>3. Sent = ToSet(MessagesOf(x))
        BY <2>1, <2>2 DEF Sent
    <2> QED BY <1>1, <2>3 DEF ToSet
<1>2. ASSUME NEW txn, NEW state, NEW data
      PROVE  MessagesOf(CompData(txn, state, data)) =
                <<Message("dat", CompDataType(state), 1, CompData(txn, state, data))>>
    <2>1. /\ CompData(txn, state, data).type = "SendCompData"
          /\ CompData(txn, state, data).respState = state
        BY DEF CompData
    <2>2. MessagesOf(CompData(txn, state, data))
            = Line(CompDataType(state), CompData(txn, state, data))
        BY <2>1 DEF MessagesOf, SendCompData, SnoopTypes
    <2> QED BY <2>2, OneBeatAssumption DEF Line
<1>3. ASSUME NEW txn
      PROVE  MessagesOf(Comp(txn)) = <<Message("rsp", "Comp_UC", 0, Comp(txn))>>
    <2>1. Comp(txn).type = "SendComp"
        BY DEF Comp
    <2> QED BY <2>1 DEF MessagesOf, SendComp, SnoopTypes
<1>4. ASSUME NEW txn
      PROVE  MessagesOf(CompDBIDResp(txn)) = <<WriteAnswer(txn)>>
    <2>1. CompDBIDResp(txn).type = "SendCompDBIDResp"
        BY DEF CompDBIDResp
    <2> QED BY <2>1 DEF MessagesOf, SendCompDBIDResp, SnoopTypes, WriteAnswer
<1>5. ASSUME NEW a, NEW k
      PROVE  MessagesOf(ReadNoSnp(a, k)) = <<ReadMessage(a, k)>>
    <2>1. ReadNoSnp(a, k).type = "SendReadNoSnp"
        BY DEF ReadNoSnp
    <2> QED BY <2>1 DEF MessagesOf, SendReadNoSnp, SnoopTypes, ReadMessage
<1>6. actions' = <<>> => Sent = {}
    BY DEF Sent
<1> QED BY <1>1, <1>2, <1>3, <1>4, <1>5, <1>6

-----------------------------------------------------------------------------
(* A step leaves the other lines alone *)

\* Nothing that LineInv says of a line has changed.
Untouched(b) ==
    /\ SameLine(cache, cache', b)
    /\ \A n \in Nodes : l1'[n][b] = l1[n][b]
    /\ latest'[b] = latest[b]
    /\ ReqsOf(b)' = ReqsOf(b) /\ NetOf(b)' = NetOf(b) /\ DataOf(b)' = DataOf(b)
    /\ EntriesOf(b)' = EntriesOf(b)
    /\ \A k \in EntriesOf(b) :
          /\ pending'[k] = pending[k]
          /\ SnoopIdsOf(k)' = SnoopIdsOf(k)
          /\ \A s \in SnoopIdsOf(k) :
                /\ s \in rspIn' <=> s \in rspIn
                /\ s \in snoopRespCounted' <=> s \in snoopRespCounted

\* What is said of the copies, the data and the directory is kept.
LEMMA CopiesKept ==
    ASSUME NEW b, Untouched(b)
    PROVE  /\ Copies(b) => Copies(b)'
           /\ DataCurrent(b) => DataCurrent(b)'
           /\ L2Current(b) => L2Current(b)'
           /\ Shape(b) => Shape(b)'
<1>1. \A n \in Nodes : l1'[n][b] = l1[n][b]
    BY DEF Untouched
<1>2. latest'[b] = latest[b] /\ DataOf(b)' = DataOf(b)
    BY DEF Untouched
<1>3. /\ Present(cache, b)' <=> Present(cache, b)
      /\ GetState(cache, b)' = GetState(cache, b)
      /\ GetSharers(cache, b)' = GetSharers(cache, b)
      /\ Present(cache, b) => GetData(cache, b)' = GetData(cache, b)
    BY DEF Untouched, SameLine
<1>4. Copies(b) => Copies(b)'
    BY <1>1, <1>2, <1>3 DEF Copies, Holds, Writer, NoWriter
<1>5. DataCurrent(b) => DataCurrent(b)'
    BY <1>1, <1>2 DEF DataCurrent, NoWriter, Writer
<1>6. L2Current(b) => L2Current(b)'
    BY <1>1, <1>2, <1>3 DEF L2Current
<1>7. Shape(b) => Shape(b)'
    BY <1>1, <1>3 DEF Shape, Shaped, Writer
<1> QED BY <1>4, <1>5, <1>6, <1>7

\* The snoops of a line are still on their way.
LEMMA SnoopingKept ==
    ASSUME NEW b, Untouched(b), NEW r \in requests, Snooping(b, r),
           r.srcNodeID \in Nodes
    PROVE  r \in requests' /\ Snooping(b, r)'
<1> DEFINE k == r.txnID
<1>1. /\ ReqsOf(b) = {r} /\ EntriesOf(b) = {k}
      /\ ReqsOf(b)' = {r} /\ EntriesOf(b)' = {k}
    BY DEF Snooping, Untouched
<1>2. /\ NetOf(b)' = NetOf(b) /\ DataOf(b)' = DataOf(b)
      /\ pending'[k] = pending[k]
      /\ SnoopIdsOf(k)' = SnoopIdsOf(k)
      /\ \A s \in SnoopIdsOf(k) :
            /\ s \in rspIn' <=> s \in rspIn
            /\ s \in snoopRespCounted' <=> s \in snoopRespCounted
    BY <1>1 DEF Untouched
<1>3. OpenSnoops(b, k)' = OpenSnoops(b, k)
    BY <1>2 DEF OpenSnoops
<1>4. OpenSnoops(b, k) \subseteq SnoopIdsOf(k)
    BY DEF OpenSnoops, Snooping, SnoopInFlight
<1>5. Present(cache, b)' /\ \A n \in Nodes : l1'[n][b] = l1[n][b]
    BY DEF Untouched, SameLine, Snooping
<1>6. \A m \in NetOf(b) : SnoopInFlight(b, r, m)'
    BY <1>2 DEF Snooping, SnoopInFlight
<1>7. l1'[r.srcNodeID][b].state \in SentIn[r.type]
    BY <1>5 DEF Snooping
<1>8. r \in requests'
    BY <1>1 DEF ReqsOf
<1>9. \A s \in OpenSnoops(b, k) : s \notin snoopRespCounted'
    BY <1>2, <1>4 DEF Snooping
<1>10. \A d \in DataOf(b) : d.txnId \in SnoopIdsOf(k) /\ d.txnId \notin rspIn'
    BY <1>2 DEF Snooping
<1>11. \A n \in Nodes : Holds(n, b)' <=> Holds(n, b)
    BY <1>5 DEF Holds
<1> QED
    BY <1>1, <1>2, <1>3, <1>5, <1>6, <1>7, <1>8, <1>9, <1>10, <1>11 DEF Snooping

\* So are its fetch, its answer and the data of its write.
LEMMA UnsnoopedKept ==
    ASSUME NEW b, Untouched(b), Unsnooped(b),
           \A k \in DOMAIN pending :
               AwaitingWrite(b, k) => pending[k].origReq.srcNodeID \in Nodes
    PROVE  Unsnooped(b)'
<1>1. /\ Present(cache, b)' <=> Present(cache, b)
      /\ GetState(cache, b)' = GetState(cache, b)
      /\ GetSharers(cache, b)' = GetSharers(cache, b)
      /\ Present(cache, b) => GetData(cache, b)' = GetData(cache, b)
    BY DEF Untouched, SameLine
<1>2. /\ ReqsOf(b)' = ReqsOf(b) /\ NetOf(b)' = NetOf(b) /\ DataOf(b)' = DataOf(b)
      /\ EntriesOf(b)' = EntriesOf(b) /\ latest'[b] = latest[b]
      /\ \A n \in Nodes : l1'[n][b] = l1[n][b]
      /\ \A k \in EntriesOf(b) : pending'[k] = pending[k]
    BY DEF Untouched
<1>3. CASE Idle(b)
    BY <1>2, <1>3 DEF Idle, Unsnooped
<1>4. ASSUME NEW r \in requests, NEW k \in DOMAIN pending, Fetching(b, r, k)
      PROVE  Unsnooped(b)'
    <2>1. r \in requests' /\ k \in DOMAIN pending' /\ pending'[k] = pending[k]
        BY <1>2, <1>4 DEF Fetching, ReqsOf, EntriesOf
    <2>2. Fetching(b, r, k)'
        BY <1>1, <1>2, <1>4, <2>1 DEF Fetching
    <2> QED BY <2>1, <2>2 DEF Unsnooped
<1>5. ASSUME NEW r \in requests, NEW m \in net, Answering(b, r, m)
      PROVE  Unsnooped(b)'
    <2>1. r \in requests' /\ m \in net'
        BY <1>2, <1>5 DEF Answering, ReqsOf, NetOf
    <2>2. Granted(b, r, m)'
        BY <1>1, <1>2, <1>5 DEF Answering, Granted
    <2>3. NoWriter(b)'
        BY <1>2, <1>5 DEF Answering, NoWriter, Writer
    <2>4. Answering(b, r, m)'
        BY <1>1, <1>2, <1>5, <2>2, <2>3 DEF Answering
    <2> QED BY <2>1, <2>4 DEF Unsnooped
<1>6. ASSUME NEW k \in DOMAIN pending, AwaitingWrite(b, k)
      PROVE  Unsnooped(b)'
    <2>1. k \in DOMAIN pending' /\ pending'[k] = pending[k]
        BY <1>2, <1>6 DEF AwaitingWrite, EntriesOf
    <2>2. \A r \in requests : ReqsOf(b) = {r} => r \in requests'
        BY <1>2 DEF ReqsOf
    <2>3. \A d \in datIn : DataOf(b) = {d} => d \in datIn'
        BY <1>2 DEF DataOf
    <2>4. AwaitingWrite(b, k)'
        BY <1>1, <1>2, <1>6, <2>1, <2>2, <2>3 DEF AwaitingWrite
    <2> QED BY <2>1, <2>4 DEF Unsnooped
<1> QED BY <1>3, <1>4, <1>5, <1>6 DEF Unsnooped

\* A line that a step does not touch keeps its phase.
LEMMA LineKept ==
    ASSUME CInv, NEW b \in Addrs, Untouched(b)
    PROVE  LineInv(b)'
<1>1. LineInv(b)
    BY DEF CInv
<1>2. \A r \in requests : r.srcNodeID \in Nodes
    BY RequestTypes DEF CInv, TypeOK
<1>3. \A k \in DOMAIN pending : pending[k].origReq.srcNodeID \in Nodes
    BY PendingTypes DEF CInv, TypeOK
<1> QED
    BY <1>1, <1>2, <1>3, CopiesKept, SnoopingKept, UnsnoopedKept DEF LineInv

\* A step of one line preserves the invariant if it does so for this line.
LEMMA OneLineStep ==
    ASSUME CInv, NEW a \in Addrs,
           TypeOK', fault' = "none", Stores(cache, Addrs)', IdsInv', MessagesInv',
           \A b \in Addrs \ {a} : Untouched(b),
           LineInv(a)'
    PROVE  CInv'
BY LineKept DEF CInv

-----------------------------------------------------------------------------
(* Ids and entries *)

\* The ranges of ids of the RN-Fs' requests, of snoops and of memory requests do
\* not meet.
LEMMA IdRanges ==
    ASSUME SafeUse, CInv
    PROVE  /\ \A id \in L1TxnIds :
                 /\ id \in Nat /\ id < SnoopIdBase /\ id < MemIdBase
                 /\ id \notin DOMAIN snoopToOrig /\ id # nextInternalTxnId
           /\ SnoopIdBase <= MemIdBase
           /\ \A k \in DOMAIN snoopToOrig : k < MemIdBase
           /\ nextInternalTxnId \notin DOMAIN pending
           /\ Cardinality(Nodes) \in Nat
           /\ sent * Cardinality(Nodes) <= MaxRequests * Cardinality(Nodes)
           /\ MaxRequests * Cardinality(Nodes) \in Nat
           /\ sent * Cardinality(Nodes) \in Nat
<1> DEFINE c == Cardinality(Nodes)
<1>1. c \in Nat
    BY NodesAssumption, FS_CardinalityType
<1>2. /\ sent \in Nat /\ sent <= MaxRequests /\ MaxRequests \in Nat
      /\ SnoopIdBase \in Nat /\ MemIdBase \in Nat /\ L1TxnIds \subseteq Nat
      /\ nextSnoopTxnId \in Nat /\ nextInternalTxnId \in Nat
    BY MaxRequestsAssumption, IdsAssumption DEF CInv, IdsInv, TypeOK, EngineTypeOK
<1> HIDE DEF c
<1>3. /\ sent * c \in Nat /\ MaxRequests * c \in Nat
      /\ sent * c <= MaxRequests * c
    <2>1. \A x, y, z \in Nat : x <= y => x * z <= y * z /\ x * z \in Nat
        OBVIOUS
    <2> QED BY <1>1, <1>2, <2>1
<1>4. /\ SnoopIdBase + MaxRequests * c <= MemIdBase
      /\ nextSnoopTxnId <= SnoopIdBase + sent * c
      /\ MemIdBase <= nextInternalTxnId
      /\ \A id \in L1TxnIds : id < SnoopIdBase
    BY DEF SafeUse, CInv, IdsInv, c
<1>5. \A s \in DOMAIN snoopToOrig :
          s \in Nat /\ SnoopIdBase <= s /\ s < nextSnoopTxnId
    BY DEF CInv, IdsInv, TypeOK, EngineTypeOK
<1>6. SnoopIdBase <= MemIdBase /\ nextSnoopTxnId <= MemIdBase
    BY <1>2, <1>3, <1>4
<1>7. \A id \in L1TxnIds :
          /\ id \in Nat /\ id < SnoopIdBase /\ id < MemIdBase
          /\ id \notin DOMAIN snoopToOrig /\ id # nextInternalTxnId
    BY <1>2, <1>4, <1>5, <1>6
<1>8. \A s \in DOMAIN snoopToOrig : s < MemIdBase
    BY <1>2, <1>5, <1>6
<1>9. nextInternalTxnId \notin DOMAIN pending
    <2> SUFFICES ASSUME nextInternalTxnId \in DOMAIN pending PROVE FALSE
        OBVIOUS
    <2>1. pending[nextInternalTxnId].origReq.txnID \in L1TxnIds
        BY PendingTypes DEF CInv, TypeOK, ChiTransaction
    <2>2. nextInternalTxnId < nextInternalTxnId
            \/ nextInternalTxnId = pending[nextInternalTxnId].origReq.txnID
        BY DEF CInv, IdsInv
    <2> QED BY <1>2, <1>7, <2>1, <2>2
<1> QED BY <1>1, <1>3, <1>6, <1>7, <1>8, <1>9 DEF c

\* An id that an RN-F is free to use is not the key of an entry.
LEMMA FreshId ==
    ASSUME SafeUse, CInv, NEW r \in Requests, IdFree(r.srcNodeID, r.txnID)
    PROVE  r.txnID \notin DOMAIN pending
<1> SUFFICES ASSUME r.txnID \in DOMAIN pending PROVE FALSE
    OBVIOUS
<1> DEFINE k == r.txnID
           a == pending[k].origReq.addr
<1>1. /\ \A q \in requests : q.txnID # k
      /\ \A d \in datIn : d.txnId # k
    BY DEF IdFree, SafeUse
<1>2. a \in Addrs /\ k \in EntriesOf(a)
    BY DEF CInv, IdsInv, EntriesOf
<1>3. LineInv(a)
    BY <1>2 DEF CInv
<1> HIDE DEF a
<1>4. \A q \in requests : ~Snooping(a, q)
    BY <1>1, <1>2 DEF Snooping
<1>5. ~Idle(a) /\ \A q \in requests, m \in net : ~Answering(a, q, m)
    BY <1>2 DEF Idle, Answering
<1>6. ASSUME NEW q \in requests, NEW j \in DOMAIN pending, Fetching(a, q, j)
      PROVE  FALSE
    <2>1. pending[k].state = "WaitMemData"
        BY <1>2, <1>6 DEF Fetching, Waiting
    <2>2. MemIdBase <= k
        BY <2>1 DEF CInv, IdsInv
    <2>3. k \in L1TxnIds
        BY RequestTypes
    <2>4. k \in Nat /\ k < MemIdBase
        BY <2>3, IdRanges
    <2> HIDE DEF k
    <2> QED BY <2>2, <2>4, IdsAssumption
<1>7. ASSUME NEW j \in DOMAIN pending, AwaitingWrite(a, j)
      PROVE  FALSE
    <2>1. j = k /\ k = pending[k].origReq.txnID
        BY <1>2, <1>7 DEF AwaitingWrite
    <2>2. \A q \in requests : TxnOf(q) # pending[k].origReq
        BY <1>1, <2>1 DEF TxnOf
    <2> QED BY <1>1, <1>7, <2>1, <2>2 DEF AwaitingWrite
<1> QED BY <1>3, <1>4, <1>5, <1>6, <1>7 DEF LineInv, Unsnooped

\* A new entry for line a.
LEMMA PutEntry ==
    ASSUME NEW a, NEW k, k \notin DOMAIN pending, NEW v, v.origReq.addr = a,
           EntriesOf(a) = {}, pending' = Put(pending, k, v)
    PROVE  /\ DOMAIN pending' = DOMAIN pending \cup {k}
           /\ pending'[k] = v
           /\ \A j \in DOMAIN pending : pending'[j] = pending[j]
           /\ EntriesOf(a)' = {k}
           /\ \A b : b # a =>
                 /\ EntriesOf(b)' = EntriesOf(b)
                 /\ \A j \in EntriesOf(b) : pending'[j] = pending[j]
<1>1. /\ DOMAIN pending' = DOMAIN pending \cup {k}
      /\ pending'[k] = v
      /\ \A j \in DOMAIN pending : pending'[j] = pending[j]
    BY DEF Put
<1>2. EntriesOf(a)' = {k}
    BY <1>1 DEF EntriesOf
<1>3. ASSUME NEW b, b # a
      PROVE  /\ EntriesOf(b)' = EntriesOf(b)
             /\ \A j \in EntriesOf(b) : pending'[j] = pending[j]
    BY <1>1, <1>3 DEF EntriesOf
<1> QED BY <1>1, <1>2, <1>3

\* The entry of line a goes.
LEMMA EraseEntry ==
    ASSUME NEW a, NEW k \in DOMAIN pending, EntriesOf(a) = {k},
           pending' = Erase(pending, {k})
    PROVE  /\ DOMAIN pending' = DOMAIN pending \ {k}
           /\ \A j \in DOMAIN pending' : pending'[j] = pending[j]
           /\ EntriesOf(a)' = {}
           /\ \A b : b # a =>
                 /\ EntriesOf(b)' = EntriesOf(b)
                 /\ k \notin EntriesOf(b)
                 /\ \A j \in EntriesOf(b) : pending'[j] = pending[j]
<1>1. /\ DOMAIN pending' = DOMAIN pending \ {k}
      /\ \A j \in DOMAIN pending' : pending'[j] = pending[j]
    BY DEF Erase
<1>2. pending[k].origReq.addr = a /\ EntriesOf(a)' = {}
    BY <1>1 DEF EntriesOf
<1>3. ASSUME NEW b, b # a
      PROVE  /\ EntriesOf(b)' = EntriesOf(b)
             /\ k \notin EntriesOf(b)
             /\ \A j \in EntriesOf(b) : pending'[j] = pending[j]
    BY <1>1, <1>2, <1>3 DEF EntriesOf
<1> QED BY <1>1, <1>2, <1>3

-----------------------------------------------------------------------------
(* Requests *)

\* A line with no request and no message has no entry either.
LEMMA QuietIdle ==
    ASSUME CInv, NEW a \in Addrs, LineQuiet(a)
    PROVE  Idle(a) /\ Copies(a) /\ L2Current(a) /\ Shape(a)
<1>1. ReqsOf(a) = {} /\ NetOf(a) = {} /\ DataOf(a) = {}
    BY DEF LineQuiet, ReqsOf, NetOf, DataOf
<1>2. LineInv(a)
    BY DEF CInv
<1> QED BY <1>1, <1>2 DEF LineInv, Snooping, Unsnooped, Fetching, Answering, AwaitingWrite

\* What a request changes outside of the engine.
Requested(r, M) ==
    /\ r \in Requests /\ NewRequest(r)
    /\ requests' = requests \cup {r}
    /\ \A m \in M : m.action.addr = r.addr
    /\ net' = net \cup M
    /\ UNCHANGED <<world, rspIn, datIn>>

\* The line of the request was idle; the others notice nothing.
LEMMA RequestMade ==
    ASSUME SafeUse, CInv, NEW r, NEW M, Requested(r, M)
    PROVE  /\ Idle(r.addr) /\ Copies(r.addr) /\ L2Current(r.addr) /\ Shape(r.addr)
           /\ r.txnID \notin DOMAIN pending
           /\ r \in requests' /\ ReqsOf(r.addr)' = {r}
           /\ NetOf(r.addr)' = M /\ DataOf(r.addr)' = {}
           /\ \A b : b # r.addr =>
                 /\ ReqsOf(b)' = ReqsOf(b) /\ NetOf(b)' = NetOf(b)
                 /\ DataOf(b)' = DataOf(b)
           /\ l1' = l1 /\ latest' = latest /\ rspIn' = rspIn
           /\ l1[r.srcNodeID][r.addr].state \in SentIn[r.type]
           /\ requests' \subseteq Requests
           /\ MessagesInv'
           /\ sent' = sent + 1 /\ sent' \in Nat /\ sent' <= MaxRequests
           /\ sent' * Cardinality(Nodes)
                = sent * Cardinality(Nodes) + Cardinality(Nodes)
<1> DEFINE a == r.addr
<1>1. /\ r \in Requests /\ NewRequest(r) /\ a \in Addrs
      /\ r.srcNodeID \in Nodes
    BY RequestTypes DEF Requested
<1>2. LineQuiet(a) /\ IdFree(r.srcNodeID, r.txnID) /\ sent' = sent + 1 /\ sent < MaxRequests
    BY <1>1 DEF NewRequest, SafeUse
<1>3. Idle(a) /\ Copies(a) /\ L2Current(a) /\ Shape(a)
    BY <1>1, <1>2, QuietIdle
<1>4. r.txnID \notin DOMAIN pending
    BY <1>1, <1>2, FreshId
<1>5. /\ requests' = requests \cup {r} /\ net' = net \cup M /\ datIn' = datIn
      /\ \A m \in M : m.action.addr = a
      /\ l1' = l1 /\ latest' = latest /\ rspIn' = rspIn
    BY DEF Requested, world
<1>6. /\ r \in requests' /\ ReqsOf(a)' = {r}
      /\ NetOf(a)' = M /\ DataOf(a)' = {}
    BY <1>3, <1>5 DEF Idle, ReqsOf, NetOf, DataOf
<1>7. \A b : b # a =>
          /\ ReqsOf(b)' = ReqsOf(b) /\ NetOf(b)' = NetOf(b)
          /\ DataOf(b)' = DataOf(b)
    BY <1>5 DEF ReqsOf, NetOf, DataOf
<1>8. requests' \subseteq Requests
    BY <1>1, <1>5 DEF CInv, TypeOK
<1>9. \A q \in requests : q.txnID # r.txnID
    BY <1>2 DEF IdFree, SafeUse
<1>10. MessagesInv'
    BY <1>1, <1>5, <1>9 DEF CInv, MessagesInv
<1>11. sent \in Nat /\ sent' \in Nat /\ sent' <= MaxRequests
    BY <1>2, MaxRequestsAssumption DEF CInv, IdsInv
<1>12. sent' * Cardinality(Nodes) = sent * Cardinality(Nodes) + Cardinality(Nodes)
    <2>1. \A x, y \in Nat : (x + 1) * y = x * y + y
        OBVIOUS
    <2>2. Cardinality(Nodes) \in Nat
        BY IdRanges
    <2> QED BY <1>2, <1>11, <2>1, <2>2
<1>13. l1[r.srcNodeID][a].state \in SentIn[r.type]
    BY <1>1 DEF NewRequest
<1> QED
    BY <1>2, <1>3, <1>4, <1>5, <1>6, <1>7, <1>8, <1>10, <1>11, <1>12, <1>13

\* The ids and the tables when the engine changes neither.
LEMMA IdsKept ==
    ASSUME SafeUse, CInv, UNCHANGED <<tables, counters, rspIn>>, sent' \in Nat,
           sent <= sent', sent' <= MaxRequests,
           sent * Cardinality(Nodes) <= sent' * Cardinality(Nodes),
           sent' * Cardinality(Nodes) \in Nat
    PROVE  IdsInv'
<1>1. sent * Cardinality(Nodes) \in Nat /\ nextSnoopTxnId \in Nat
    BY IdRanges DEF CInv, TypeOK, EngineTypeOK
<1>2. nextSnoopTxnId' <= SnoopIdBase + sent' * Cardinality(Nodes)
    BY <1>1, IdsAssumption DEF CInv, IdsInv, counters
<1> QED BY <1>2 DEF CInv, IdsInv, tables, counters

\* The engine's types when it changes only the cache.
LEMMA TypesKept ==
    ASSUME CInv, UNCHANGED <<tables, counters>>, fault' = "none",
           Stores(cache, Addrs)'
    PROVE  EngineTypeOK'
BY DEF CInv, TypeOK, EngineTypeOK, tables, counters, Stores

\* A line is untouched when neither its copies nor the engine's tables change.
LEMMA UntouchedByServe ==
    ASSUME UNCHANGED <<tables, rspIn>>, NEW b, SameLine(cache, cache', b),
           \A n \in Nodes : l1'[n][b] = l1[n][b],
           latest'[b] = latest[b],
           ReqsOf(b)' = ReqsOf(b), NetOf(b)' = NetOf(b), DataOf(b)' = DataOf(b)
    PROVE  Untouched(b)
BY DEF Untouched, EntriesOf, SnoopIdsOf, tables

\* A line with an answer on its way.
LEMMA AnswerOnItsWay ==
    ASSUME NEW a, NEW r, NEW m,
           r \in requests', ReqsOf(a)' = {r}, EntriesOf(a)' = {},
           NetOf(a)' = {m}, DataOf(a)' = {},
           Present(cache, a)', (GetData(cache, a) = latest[a])',
           NoWriter(a)', Copies(a)', Shape(a)', Granted(a, r, m)'
    PROVE  LineInv(a)'
<1>1. m \in net'
    BY DEF NetOf
<1>2. Answering(a, r, m)'
    BY DEF Answering
<1>3. DataCurrent(a)' /\ L2Current(a)'
    BY DEF DataCurrent, L2Current
<1>4. Unsnooped(a)'
    BY <1>1, <1>2 DEF Unsnooped
<1> QED BY <1>3, <1>4 DEF LineInv

\* A request that is answered at once.
LEMMA RequestAnswered ==
    ASSUME SafeUse, CInv, NEW r, NEW m, Requested(r, {m}),
           UNCHANGED <<tables, counters, fault>>,
           NEW state, NEW sharers,
           Becomes(cache, cache', Addrs, r.addr, state, sharers,
                   GetData(cache, r.addr)),
           GetData(cache, r.addr) = latest[r.addr],
           NoWriter(r.addr), Copies(r.addr)', Shape(r.addr)', Granted(r.addr, r, m)'
    PROVE  CInv'
<1> DEFINE a == r.addr
<1>1. /\ Idle(a) /\ r \in requests' /\ ReqsOf(a)' = {r}
      /\ NetOf(a)' = {m} /\ DataOf(a)' = {}
      /\ \A b : b # a =>
            /\ ReqsOf(b)' = ReqsOf(b) /\ NetOf(b)' = NetOf(b)
            /\ DataOf(b)' = DataOf(b)
      /\ l1' = l1 /\ latest' = latest /\ rspIn' = rspIn
      /\ requests' \subseteq Requests /\ MessagesInv'
      /\ sent' = sent + 1 /\ sent' \in Nat /\ sent' <= MaxRequests
      /\ sent' * Cardinality(Nodes)
           = sent * Cardinality(Nodes) + Cardinality(Nodes)
    BY RequestMade
<1>2. a \in Addrs
    BY RequestTypes DEF Requested
<1>3. /\ Stores(cache, Addrs)' /\ Present(cache, a)'
      /\ GetData(cache, a)' = GetData(cache, a)
      /\ \A b \in Addrs \ {a} : SameLine(cache, cache', b)
    BY DEF Becomes
<1>4. fault' = "none"
    BY DEF CInv
<1>5. TypeOK'
    BY <1>1, <1>3, <1>4, TypesKept DEF CInv, TypeOK
<1>6. IdsInv'
    <2>1. sent \in Nat /\ sent * Cardinality(Nodes) \in Nat /\ Cardinality(Nodes) \in Nat
        BY IdRanges DEF CInv, IdsInv
    <2>2. /\ sent <= sent'
          /\ sent * Cardinality(Nodes) <= sent' * Cardinality(Nodes)
          /\ sent' * Cardinality(Nodes) \in Nat
        BY <1>1, <2>1
    <2> QED BY <1>1, <2>2, IdsKept
<1>7. \A b \in Addrs \ {a} : Untouched(b)
    BY <1>1, <1>3, UntouchedByServe
<1>8. EntriesOf(a)' = {}
    BY <1>1 DEF Idle, EntriesOf, tables
<1>9. NoWriter(a)'
    BY <1>1 DEF NoWriter, Writer
<1>10. LineInv(a)'
    BY <1>1, <1>3, <1>8, <1>9, AnswerOnItsWay
<1> QED BY <1>1, <1>2, <1>3, <1>4, <1>5, <1>6, <1>7, <1>10, OneLineStep

\* A new entry is one of the engine's, and leaves the ids of the others alone.
LEMMA EntryTypes ==
    ASSUME SafeUse, CInv, NEW r \in Requests, r.type # "Evict", NEW k \in Nat,
           NEW state \in PendingState, NEW target \in LineState,
           NEW count \in Int, NEW dataCount \in Int,
           k \notin DOMAIN pending,
           pending' = Put(pending, k, Waiting(TxnOf(r), state, target, count, dataCount))
    PROVE  /\ DOMAIN pending' \subseteq Nat
           /\ \A j \in DOMAIN pending' : pending'[j] \in PendingTxn
           /\ Waiting(TxnOf(r), state, target, count, dataCount).origReq = TxnOf(r)
           /\ TxnOf(r).addr = r.addr /\ TxnOf(r).txnID = r.txnID
           /\ TxnOf(r).srcNodeID = r.srcNodeID
           /\ TxnOf(r) \in ChiTransaction
<1> DEFINE v == Waiting(TxnOf(r), state, target, count, dataCount)
<1>1. TxnOf(r) \in ChiTransaction
    <2>1. /\ r.srcNodeID \in Nodes /\ r.addr \in Addr /\ r.txnID \in L1TxnIds
          /\ r.type \in {"ReadShared", "ReadNotSharedDirty", "ReadOnce", "ReadUnique",
                         "CleanUnique", "WriteBackFull"}
        BY RequestTypes
    <2>2. Gem5ToOpcode[r.type] \in Opcode
        BY <2>1 DEF Gem5ToOpcode, Opcode, ReadOps, WriteOps
    <2> QED BY <2>1, <2>2 DEF TxnOf, ChiTransaction
<1>2. v \in PendingTxn
    BY <1>1 DEF Waiting, PendingTxn
<1>3. /\ DOMAIN pending \subseteq Nat
      /\ \A j \in DOMAIN pending : pending[j] \in PendingTxn
    BY DEF CInv, TypeOK, EngineTypeOK
<1> QED BY <1>1, <1>2, <1>3 DEF Put, Waiting, TxnOf

\* A request that opens an entry under key k.
LEMMA RequestOpens ==
    ASSUME SafeUse, CInv, NEW r, NEW M, Requested(r, M), r.type # "Evict",
           NEW k \in Nat, NEW state \in PendingState, NEW target \in LineState,
           NEW count \in Int, NEW dataCount \in Int,
           k \notin DOMAIN pending,
           pending' = Put(pending, k, Waiting(TxnOf(r), state, target, count, dataCount)),
           IF state = "WaitMemData"
           THEN MemIdBase <= k /\ k < nextInternalTxnId' ELSE k = r.txnID,
           Stores(cache, Addrs)', \A b \in Addrs \ {r.addr} : SameLine(cache, cache', b),
           DOMAIN memToOrig' \subseteq Nat,
           \A s \in DOMAIN memToOrig' : memToOrig'[s] \in L1TxnIds,
           \A j \in DOMAIN pending : SnoopIdsOf(j)' = SnoopIdsOf(j),
           \A s \in DOMAIN snoopToOrig' :
               /\ SnoopIdBase <= s /\ s < nextSnoopTxnId' /\ s \in Nat
               /\ \/ s \in DOMAIN snoopToOrig /\ snoopToOrig'[s] = snoopToOrig[s]
                  \/ snoopToOrig'[s] = r.txnID /\ k = r.txnID /\ state = "WaitSnoopResp",
           DOMAIN snoopToOrig \subseteq DOMAIN snoopToOrig',
           snoopRespCounted' = snoopRespCounted, fault' = fault,
           nextSnoopTxnId <= nextSnoopTxnId', nextSnoopTxnId' \in Nat,
           nextSnoopTxnId' <= nextSnoopTxnId + Cardinality(Nodes),
           nextInternalTxnId <= nextInternalTxnId', nextInternalTxnId' \in Nat,
           LineInv(r.addr)'
    PROVE  CInv'
<1> DEFINE a == r.addr
           v == Waiting(TxnOf(r), state, target, count, dataCount)
           c == Cardinality(Nodes)
<1>1. r \in Requests /\ a \in Addrs /\ r.txnID \in L1TxnIds
    BY RequestTypes DEF Requested
<1>2. /\ Idle(a)
      /\ \A b : b # a =>
            /\ ReqsOf(b)' = ReqsOf(b) /\ NetOf(b)' = NetOf(b)
            /\ DataOf(b)' = DataOf(b)
      /\ l1' = l1 /\ latest' = latest /\ rspIn' = rspIn
      /\ requests' \subseteq Requests /\ MessagesInv'
      /\ sent' \in Nat /\ sent' <= MaxRequests
      /\ sent' * c = sent * c + c
    BY RequestMade
<1>3. /\ DOMAIN pending' \subseteq Nat
      /\ \A j \in DOMAIN pending' : pending'[j] \in PendingTxn
      /\ v.origReq = TxnOf(r) /\ TxnOf(r).addr = a /\ TxnOf(r).txnID = r.txnID
    BY <1>1, EntryTypes
<1>4. v.state = state
    BY DEF Waiting
<1>5. /\ DOMAIN pending' = DOMAIN pending \cup {k}
      /\ pending'[k] = v
      /\ \A j \in DOMAIN pending : pending'[j] = pending[j]
      /\ \A b : b # a =>
            /\ EntriesOf(b)' = EntriesOf(b)
            /\ \A j \in EntriesOf(b) : pending'[j] = pending[j]
    <2>1. EntriesOf(a) = {}
        BY <1>2 DEF Idle
    <2>2. v.origReq.addr = a
        BY <1>3
    <2>3. pending' = Put(pending, k, v)
        OBVIOUS
    <2> HIDE DEF v, a
    <2>4. k \notin DOMAIN pending
        OBVIOUS
    <2> QED BY ONLY <2>1, <2>2, <2>3, <2>4, PutEntry
<1> HIDE DEF v, c
<1>6. fault' = "none"
    BY DEF CInv
<1>7. TypeOK'
    <2>1. EngineTypeOK'
        <3>1. /\ cache' \in Caches
              /\ snoopRespCounted' \subseteq Nat
              /\ DOMAIN snoopToOrig' \subseteq Nat
            BY DEF CInv, TypeOK, EngineTypeOK, Stores
        <3>2. \A s \in DOMAIN snoopToOrig' : snoopToOrig'[s] \in L1TxnIds
            BY <1>1 DEF CInv, TypeOK, EngineTypeOK
        <3> QED BY <1>3, <1>6, <3>1, <3>2 DEF EngineTypeOK
    <2> QED BY <1>2, <2>1 DEF CInv, TypeOK
<1>8. IdsInv'
    <2>1. \A j \in DOMAIN pending' :
              /\ pending'[j].origReq.addr \in Addrs
              /\ IF pending'[j].state = "WaitMemData"
                 THEN MemIdBase <= j /\ j < nextInternalTxnId'
                 ELSE j = pending'[j].origReq.txnID
        <3> TAKE j \in DOMAIN pending'
        <3>1. CASE j = k
            BY <1>1, <1>3, <1>4, <1>5, <3>1
        <3>2. CASE j # k
            <4>1. j \in DOMAIN pending /\ pending'[j] = pending[j] /\ j \in Nat
                BY <1>5, <3>2 DEF CInv, TypeOK, EngineTypeOK
            <4>2. nextInternalTxnId \in Nat
                BY DEF CInv, TypeOK, EngineTypeOK
            <4> QED BY <4>1, <4>2 DEF CInv, IdsInv
        <3> QED BY <3>1, <3>2
    <2>2. \A s \in DOMAIN snoopToOrig' :
              /\ SnoopIdBase <= s /\ s < nextSnoopTxnId'
              /\ snoopToOrig'[s] \in DOMAIN pending'
              /\ pending'[snoopToOrig'[s]].state = "WaitSnoopResp"
        BY <1>4, <1>5 DEF CInv, IdsInv
    <2>3. /\ snoopRespCounted' \subseteq DOMAIN snoopToOrig'
          /\ rspIn' \subseteq DOMAIN snoopToOrig'
        BY <1>2 DEF CInv, IdsInv
    <2>4. /\ SnoopIdBase <= nextSnoopTxnId' /\ MemIdBase <= nextInternalTxnId'
        BY IdsAssumption DEF CInv, IdsInv, TypeOK, EngineTypeOK
    <2>5. nextSnoopTxnId' <= SnoopIdBase + sent' * c
        <3>1. /\ sent * c \in Nat /\ c \in Nat /\ nextSnoopTxnId \in Nat
              /\ nextSnoopTxnId <= SnoopIdBase + sent * c
            BY IdRanges DEF CInv, IdsInv, TypeOK, EngineTypeOK, c
        <3>2. nextSnoopTxnId' <= nextSnoopTxnId + c
            BY DEF c
        <3> DEFINE s == sent * c
                   t == sent' * c
        <3>3. t = s + c
            BY <1>2
        <3> HIDE DEF s, t
        <3>4. nextSnoopTxnId' <= SnoopIdBase + t
            BY <3>1, <3>2, <3>3, IdsAssumption DEF s
        <3> QED BY <3>4 DEF t
    <2> QED BY <1>2, <2>1, <2>2, <2>3, <2>4, <2>5 DEF IdsInv, c
<1>9. ASSUME NEW b \in Addrs \ {a} PROVE Untouched(b)
    <2>1. EntriesOf(b) \subseteq DOMAIN pending
        BY DEF EntriesOf
    <2> QED BY <1>2, <1>5, <2>1 DEF Untouched
<1> QED BY <1>1, <1>2, <1>6, <1>7, <1>8, <1>9, OneLineStep

\* A read of a line that is not there goes to memory.
LEMMA RequestFetched ==
    ASSUME SafeUse, CInv, NEW r, r.type \in Reads,
           NEW CONSTANT k, k = nextInternalTxnId, Requested(r, {ReadMessage(r.addr, k)}),
           FetchFromMemory(TxnOf(r), Target(r.type)), ~Present(cache, r.addr)
    PROVE  CInv'
<1> DEFINE a == r.addr
           v == Waiting(TxnOf(r), "WaitMemData", Target(r.type), 0, 0)
<1>1. r \in Requests /\ a \in Addrs /\ r.txnID \in L1TxnIds
    BY RequestTypes DEF Requested
<1>2. /\ Idle(a) /\ Copies(a) /\ L2Current(a) /\ Shape(a)
      /\ r \in requests' /\ ReqsOf(a)' = {r}
      /\ NetOf(a)' = {ReadMessage(a, k)} /\ DataOf(a)' = {}
      /\ l1' = l1 /\ latest' = latest
    BY RequestMade
<1>3. /\ pending' = Put(pending, k, v)
      /\ memToOrig' = Put(memToOrig, k, r.txnID)
      /\ nextInternalTxnId' = k + 1
      /\ snoopToOrig' = snoopToOrig /\ snoopRespCounted' = snoopRespCounted
      /\ nextSnoopTxnId' = nextSnoopTxnId /\ fault' = fault /\ cache' = cache
    BY DEF FetchFromMemory, OpenMemTxn, TxnOf
<1>4. k \notin DOMAIN pending /\ k \in Nat /\ nextSnoopTxnId \in Nat
    BY IdRanges DEF CInv, TypeOK, EngineTypeOK
<1>5. Target(r.type) \in LineState /\ "WaitMemData" \in PendingState
    BY DEF Target, LineState, PendingState
<1>6. /\ DOMAIN memToOrig' \subseteq Nat
      /\ \A s \in DOMAIN memToOrig' : memToOrig'[s] \in L1TxnIds
    BY <1>1, <1>3, <1>4 DEF Put, CInv, TypeOK, EngineTypeOK
<1>7. Stores(cache, Addrs)' /\ \A b : SameLine(cache, cache', b)
    BY <1>3 DEF CInv, SameLine
<1>8. EntriesOf(a)' = {k} /\ k \in DOMAIN pending' /\ pending'[k] = v
    <2>1. EntriesOf(a) = {}
        BY <1>2 DEF Idle
    <2>2. v.origReq.addr = a
        BY DEF Waiting, TxnOf
    <2> HIDE DEF v, a
    <2>3. k \notin DOMAIN pending
        BY <1>4
    <2>4. pending' = Put(pending, k, v)
        BY <1>3
    <2> QED BY ONLY <2>1, <2>2, <2>3, <2>4, PutEntry
<1>9. LineInv(a)'
    <2>1. Copies(a)' /\ L2Current(a)' /\ Shape(a)'
        <3>1. L2Current(a)'
            BY <1>2, <1>3 DEF L2Current
        <3>2. Copies(a)' /\ Shape(a)'
            BY <1>2, <1>3 DEF Copies, Shape, Shaped, Holds, Writer, NoWriter
        <3> QED BY <3>1, <3>2
    <2>2. DataCurrent(a)'
        BY <1>2 DEF DataCurrent
    <2>3. Fetching(a, r, k)'
        BY <1>2, <1>3, <1>8 DEF Fetching
    <2>4. Unsnooped(a)'
        BY <1>2, <1>8, <2>3 DEF Unsnooped
    <2> QED BY <2>1, <2>2, <2>4 DEF LineInv
<1>10. \A j : SnoopIdsOf(j)' = SnoopIdsOf(j)
    BY <1>3 DEF SnoopIdsOf
<1>11. \A s \in DOMAIN snoopToOrig' :
           /\ SnoopIdBase <= s /\ s < nextSnoopTxnId' /\ s \in Nat
           /\ s \in DOMAIN snoopToOrig /\ snoopToOrig'[s] = snoopToOrig[s]
    BY <1>3 DEF CInv, IdsInv, TypeOK, EngineTypeOK
<1>12. MemIdBase <= k /\ k < nextInternalTxnId'
    BY <1>3, <1>4 DEF CInv, IdsInv
<1>13. Cardinality(Nodes) \in Nat
    BY IdRanges
<1>14. r.type # "Evict"
    BY DEF Reads, UniqueReads
<1>15. /\ nextSnoopTxnId <= nextSnoopTxnId' /\ nextSnoopTxnId' \in Nat
       /\ nextSnoopTxnId' <= nextSnoopTxnId + Cardinality(Nodes)
    BY <1>3, <1>4, <1>13
<1>16. nextInternalTxnId <= nextInternalTxnId' /\ nextInternalTxnId' \in Nat
    BY <1>3, <1>4
<1>17. pending' = Put(pending, k, Waiting(TxnOf(r), "WaitMemData", Target(r.type), 0, 0))
    BY <1>3
<1>18. DOMAIN snoopToOrig \subseteq DOMAIN snoopToOrig'
       /\ snoopRespCounted' = snoopRespCounted /\ fault' = fault
    BY <1>3
<1> QED
    BY <1>4, <1>5, <1>6, <1>7, <1>9, <1>10, <1>11, <1>12, <1>14, <1>15, <1>16,
       <1>17, <1>18, RequestOpens

\* A write-back waits for its data.
LEMMA RequestWrites ==
    ASSUME SafeUse, CInv, NEW r, r.type = "WriteBackFull",
           Requested(r, {WriteAnswer(TxnOf(r))}),
           pending' = Put(pending, r.txnID, Waiting(TxnOf(r), "WaitL1Data", "I", 0, 0)),
           UNCHANGED <<cache, snoopToOrig, memToOrig, snoopRespCounted, counters, fault>>
    PROVE  CInv'
<1> DEFINE a == r.addr
           k == r.txnID
           n == r.srcNodeID
           v == Waiting(TxnOf(r), "WaitL1Data", "I", 0, 0)
<1>1. /\ r \in Requests /\ a \in Addrs /\ k \in L1TxnIds /\ n \in Nodes /\ k \in Nat
      /\ \A own, others, u : UsedBy(a, u, own, others) =>
            r.type \in IF n = u THEN own ELSE others
    BY RequestTypes, IdRanges DEF Requested
<1>2. /\ Idle(a) /\ Copies(a) /\ L2Current(a) /\ Shape(a)
      /\ r \in requests' /\ ReqsOf(a)' = {r} /\ k \notin DOMAIN pending
      /\ NetOf(a)' = {WriteAnswer(TxnOf(r))} /\ DataOf(a)' = {}
      /\ l1' = l1 /\ latest' = latest
      /\ l1[n][a].state \in SentIn[r.type]
    BY RequestMade
<1>3. l1[n][a].state = "UD"
    BY <1>2 DEF SentIn
<1>4. ~UpgradedBy(a, n)
    BY <1>1 DEF UpgradedBy
<1>5. GetState(cache, a) = "UD" /\ n \in GetSharers(cache, a)
    BY <1>1, <1>2, <1>3, <1>4 DEF Shape, Shaped, Copies, Writer, Holds
<1>6. EntriesOf(a)' = {k} /\ k \in DOMAIN pending' /\ pending'[k] = v
    <2>1. EntriesOf(a) = {}
        BY <1>2 DEF Idle
    <2>2. v.origReq.addr = a
        BY DEF Waiting, TxnOf
    <2>3. k \notin DOMAIN pending
        BY <1>2
    <2>4. pending' = Put(pending, k, v)
        OBVIOUS
    <2> HIDE DEF v, a, k
    <2> QED BY ONLY <2>1, <2>2, <2>3, <2>4, PutEntry
<1>7. LineInv(a)'
    <2>1. L2Current(a)'
        BY <1>2 DEF L2Current, Idle
    <2>2. Copies(a)' /\ Shape(a)'
        BY <1>2 DEF Copies, Shape, Shaped, Holds, Writer, NoWriter
    <2>3. DataCurrent(a)'
        BY <1>2 DEF DataCurrent
    <2>4. /\ v.origReq = TxnOf(r) /\ v.state = "WaitL1Data"
          /\ TxnOf(r).srcNodeID = n /\ TxnOf(r).txnID = k
        BY DEF Waiting, TxnOf
    <2>5. AwaitingWrite(a, k)'
        <3> HIDE DEF v, k, n, a
        <3> QED BY <1>2, <1>3, <1>5, <1>6, <2>4 DEF AwaitingWrite
    <2>6. Unsnooped(a)'
        BY <1>6, <2>5 DEF Unsnooped
    <2> QED BY <2>1, <2>2, <2>3, <2>6 DEF LineInv
<1>8. Stores(cache, Addrs)' /\ \A b : SameLine(cache, cache', b)
    BY DEF CInv, SameLine
<1>9. \A j : SnoopIdsOf(j)' = SnoopIdsOf(j)
    BY DEF SnoopIdsOf
<1>10. \A s \in DOMAIN snoopToOrig' :
           /\ SnoopIdBase <= s /\ s < nextSnoopTxnId' /\ s \in Nat
           /\ s \in DOMAIN snoopToOrig /\ snoopToOrig'[s] = snoopToOrig[s]
    BY DEF CInv, IdsInv, TypeOK, EngineTypeOK, counters
<1>11. /\ nextSnoopTxnId' = nextSnoopTxnId /\ nextSnoopTxnId \in Nat
       /\ nextInternalTxnId' = nextInternalTxnId /\ nextInternalTxnId \in Nat
       /\ Cardinality(Nodes) \in Nat
    BY IdRanges DEF counters, CInv, TypeOK, EngineTypeOK
<1>12. /\ nextSnoopTxnId <= nextSnoopTxnId' /\ nextSnoopTxnId' \in Nat
       /\ nextSnoopTxnId' <= nextSnoopTxnId + Cardinality(Nodes)
       /\ nextInternalTxnId <= nextInternalTxnId' /\ nextInternalTxnId' \in Nat
    BY <1>11
<1>13. /\ DOMAIN memToOrig' \subseteq Nat
       /\ \A s \in DOMAIN memToOrig' : memToOrig'[s] \in L1TxnIds
    BY DEF CInv, TypeOK, EngineTypeOK
<1>14. "I" \in LineState /\ "WaitL1Data" \in PendingState
    BY DEF LineState, PendingState
<1> HIDE DEF k
<1>15. pending' = Put(pending, k, Waiting(TxnOf(r), "WaitL1Data", "I", 0, 0)) /\ k = r.txnID
    BY DEF k
<1> QED
    BY <1>1, <1>2, <1>7, <1>8, <1>9, <1>10, <1>12, <1>13, <1>14, <1>15, RequestOpens

Lists(node, S) == node \in [1 .. Cardinality(S) -> S] /\ Ascending(node)

\* Nodes listed in ascending order are listed once, and when there are as many as
\* there are to list, all are.
LEMMA AscendingCovers ==
    ASSUME NEW S \in SUBSET Nat, IsFiniteSet(S), NEW node, Lists(node, S)
    PROVE  \A x \in S : \E j \in 1 .. Cardinality(S) : node[j] = x
<1> DEFINE c == Cardinality(S)
<1>1. c \in Nat
    BY FS_CardinalityType
<1>2. IsFiniteSet(1 .. c) /\ Cardinality(1 .. c) = c
    BY <1>1, FS_Interval
<1>3. node \in [1 .. c -> S] /\ Ascending(node) /\ c = Cardinality(S)
    BY DEF Lists
<1> HIDE DEF c
<1>4. \A j, k \in 1 .. c : node[j] = node[k] => j = k
    <2>1. \A j \in 1 .. c : node[j] \in S
        BY <1>3
    <2>2. \A j, k \in 1 .. c : j < k => node[j] < node[k]
        BY <1>3 DEF Ascending
    <2> SUFFICES ASSUME NEW j \in 1 .. c, NEW k \in 1 .. c, node[j] = node[k]
                 PROVE  j = k
        OBVIOUS
    <2>3. node[j] \in S
        BY <2>1
    <2>4. node[j] \in Nat
        BY <2>3
    <2>5. \A x \in Nat : ~(x < x)
        OBVIOUS
    <2>6. ~(node[j] < node[j])
        BY <2>4, <2>5
    <2>7. ~(node[j] < node[k]) /\ ~(node[k] < node[j])
        BY <2>6
    <2>8. ~(j < k) /\ ~(k < j) /\ j \in Int /\ k \in Int
        BY <1>1, <2>2, <2>7
    <2> QED BY <2>8
<1>5. node \in Injection(1 .. c, S)
    BY <1>3, <1>4 DEF Injection, IsInjective
<1>6. node \in Surjection(1 .. c, S)
    BY <1>2, <1>3, <1>5, FS_Injection
<1>7. \A x \in S : \E j \in 1 .. c : node[j] = x
    BY <1>6 DEF Surjection
<1> QED BY <1>7 DEF c

\* A request that snoops: one snoop for each other sharer is under way.
LEMMA RequestSnoops ==
    ASSUME SafeUse, CInv, NEW r, r.type \in Reads,
           NEW CONSTANT M, M = Sent, Requested(r, M),
           NEW type \in {"SendSnpCleanInvalid", "SendSnpUnique", "SendSnpOnce"},
           NEW retToSrc, Present(cache, r.addr),
           SnoopOthers(TxnOf(r), type, retToSrc, Target(r.type))
    PROVE  CInv'
<1> DEFINE a == r.addr
           k == r.txnID
           n == r.srcNodeID
           txn == TxnOf(r)
           others == OtherSharers(txn)
           count == Cardinality(others)
           dataCount == IF retToSrc THEN count ELSE 0
<1>1. /\ r \in Requests /\ a \in Addrs /\ k \in L1TxnIds /\ n \in Nodes /\ a \in Addr
      /\ r.type # "Evict"
    BY RequestTypes DEF Requested, Reads, UniqueReads
<1>2. txn.addr = a /\ txn.srcNodeID = n /\ txn.txnID = k
    BY DEF TxnOf
<1>3. others = GetSharers(cache, a) \ {n}
    BY <1>2 DEF OtherSharers
<1>4. PICK first : first = nextSnoopTxnId
    OBVIOUS
<1>5. first \in Nat /\ k \in Nat
    BY <1>1, <1>4, IdRanges DEF CInv, TypeOK, EngineTypeOK
<1>6. /\ others \subseteq Nodes /\ IsFiniteSet(others) /\ count \in Nat
      /\ count <= Cardinality(Nodes) /\ Cardinality(Nodes) \in Nat
    <2>1. GetSharers(cache, a) \subseteq Nodes
        BY <1>1, SafeLines, UpdatesSee DEF CInv
    <2>2. IsFiniteSet(Nodes) /\ others \in SUBSET Nodes
        BY <1>3, <2>1, NodesAssumption
    <2> HIDE DEF others
    <2> QED BY <2>2, FS_Subset, FS_CardinalityType
<1> DEFINE ids == first .. first + count - 1
           v == Waiting(txn, "WaitSnoopResp", Target(r.type), count, dataCount)
<1>7. PICK node :
          /\ node \in [1 .. count -> others] /\ Ascending(node)
          /\ cache' = Lookup(cache, a)
          /\ pending' = Put(pending, k, v)
          /\ snoopToOrig' = [id \in DOMAIN snoopToOrig \cup ids |->
                                IF id \in ids THEN k ELSE snoopToOrig[id]]
          /\ nextSnoopTxnId' = first + count
          /\ actions' = [j \in 1 .. count |->
                            Snoop(type, a, first + j - 1, node[j], retToSrc)]
          /\ memToOrig' = memToOrig /\ snoopRespCounted' = snoopRespCounted
          /\ nextInternalTxnId' = nextInternalTxnId /\ fault' = fault
    <2>1. PICK node \in [1 .. count -> others] :
              /\ Ascending(node)
              /\ cache' = Lookup(cache, txn.addr)
              /\ pending' = Put(pending, txn.txnID, v)
              /\ snoopToOrig' =
                    [id \in DOMAIN snoopToOrig
                        \cup (nextSnoopTxnId .. nextSnoopTxnId + count - 1) |->
                        IF id \in nextSnoopTxnId .. nextSnoopTxnId + count - 1
                        THEN txn.txnID ELSE snoopToOrig[id]]
              /\ nextSnoopTxnId' = nextSnoopTxnId + count
              /\ actions' = [j \in 1 .. count |->
                                Snoop(type, txn.addr, nextSnoopTxnId + j - 1, node[j],
                                      retToSrc)]
              /\ UNCHANGED <<memToOrig, snoopRespCounted, nextInternalTxnId, fault>>
        BY Zenon DEF SnoopOthers
    <2> HIDE DEF others, txn, v, count
    <2> QED BY <1>2, <1>4, <2>1
<1> DEFINE msg(j) == Message("snp", SnoopType[type], 0,
                             Snoop(type, a, first + j - 1, node[j], retToSrc))
<1>8. M = {msg(j) : j \in 1 .. count}
    <2> DEFINE snoop(j) == Snoop(type, a, first + j - 1, node[j], retToSrc)
    <2>1. \A j \in 1 .. count : MessagesOf(snoop(j)) = <<msg(j)>>
        <3> TAKE j \in 1 .. count
        <3>1. snoop(j).type = type
            BY DEF Snoop
        <3> HIDE DEF snoop
        <3> QED BY <3>1 DEF MessagesOf, SendSnoop, SnoopTypes, snoop
    <2> HIDE DEF count
    <2>2. DOMAIN actions' = 1 .. count /\ \A j \in 1 .. count : actions'[j] = snoop(j)
        BY <1>7
    <2> HIDE DEF snoop, msg
    <2>3. \A j \in 1 .. count : ToSet(MessagesOf(actions'[j])) = {msg(j)}
        BY <2>1, <2>2 DEF ToSet
    <2>4. Sent = UNION {ToSet(MessagesOf(actions'[j])) : j \in 1 .. count}
        BY <2>2 DEF Sent
    <2>5. \A x : x \in Sent <=> \E j \in 1 .. count : x = msg(j)
        BY <2>3, <2>4
    <2> QED BY <2>5
<1>9. /\ Idle(a) /\ Copies(a) /\ L2Current(a) /\ Shape(a)
      /\ r \in requests' /\ ReqsOf(a)' = {r} /\ k \notin DOMAIN pending
      /\ NetOf(a)' = M /\ DataOf(a)' = {}
      /\ l1' = l1 /\ latest' = latest /\ rspIn' = rspIn
      /\ l1[n][a].state \in SentIn[r.type]
    BY RequestMade
<1>10. /\ \A j \in 1 .. count :
              /\ msg(j).channel = "snp"
              /\ msg(j).type \in {"SnpCleanInvalid", "SnpUnique", "SnpOnce"}
              /\ msg(j).action.destNode = node[j]
              /\ msg(j).action.txnId = first + j - 1
    BY DEF Message, Snoop, SnoopType
<1>11. EntriesOf(a)' = {k} /\ k \in DOMAIN pending' /\ pending'[k] = v
    <2>1. EntriesOf(a) = {}
        BY <1>9 DEF Idle
    <2>2. v.origReq.addr = a
        BY DEF Waiting, TxnOf
    <2>3. k \notin DOMAIN pending
        BY <1>9
    <2>4. pending' = Put(pending, k, v)
        BY <1>7
    <2> HIDE DEF v, a, k
    <2> QED BY ONLY <2>1, <2>2, <2>3, <2>4, PutEntry
<1>12. /\ Stores(cache, Addrs)' /\ \A b \in Addrs : SameLine(cache, cache', b)
    BY <1>1, <1>7, SafeLines, LookupSees DEF CInv
<1>13. \A s \in DOMAIN snoopToOrig :
           s \in Nat /\ SnoopIdBase <= s /\ s < first /\ snoopToOrig[s] # k
    BY <1>4, <1>9 DEF CInv, IdsInv, TypeOK, EngineTypeOK
<1>14. \A s \in ids : s \in Nat /\ SnoopIdBase <= s /\ s < first + count
                       /\ s \notin DOMAIN snoopToOrig
    <2>1. SnoopIdBase \in Nat /\ SnoopIdBase <= first
        BY <1>4, IdsAssumption DEF CInv, IdsInv
    <2> HIDE DEF count
    <2> QED BY <1>5, <1>6, <1>13, <2>1
<1> HIDE DEF msg, count, ids
<1>15. SnoopIdsOf(k)' = ids
    BY <1>7, <1>13 DEF SnoopIdsOf
<1>16. \A j \in DOMAIN pending : SnoopIdsOf(j)' = SnoopIdsOf(j)
    BY <1>7, <1>9, <1>14 DEF SnoopIdsOf
<1>17. {m.action.txnId : m \in {msg(j) : j \in 1 .. count}} = ids
    <2>1. \A j \in 1 .. count : first + j - 1 \in ids
        BY <1>5, <1>6 DEF ids
    <2>2. \A s \in ids : s - first + 1 \in 1 .. count /\ first + (s - first + 1) - 1 = s
        BY <1>5, <1>6 DEF ids
    <2>3. \A s : s \in ids => \E j \in 1 .. count : msg(j).action.txnId = s
        BY <1>10, <2>2
    <2>4. \A j \in 1 .. count : msg(j).action.txnId \in ids
        BY <1>10, <2>1
    <2> QED BY <2>3, <2>4
<1>18. rspIn' \cap ids = {} /\ snoopRespCounted' \cap ids = {}
    BY <1>7, <1>9, <1>14 DEF CInv, IdsInv
<1>19. OpenSnoops(a, k)' = ids
    BY <1>8, <1>9, <1>15, <1>17, <1>18 DEF OpenSnoops
<1>20. Cardinality(ids) = count
    <2> DEFINE last == first + count - 1
    <2>1. last \in Int /\ first \in Int
        BY <1>5, <1>6
    <2> HIDE DEF last
    <2>2. Cardinality(first .. last) = IF first > last THEN 0 ELSE last - first + 1
        BY <2>1, FS_Interval
    <2> QED BY <1>5, <1>6, <2>2 DEF ids, last
<1>21. Snooping(a, r)'
    <2>1. Present(cache, a)'
        BY <1>1, <1>12 DEF SameLine
    <2>2. /\ v.origReq = TxnOf(r) /\ v.state = "WaitSnoopResp"
          /\ v.targetState = Target(r.type) /\ v.pendingSnoopCount = count
        BY DEF Waiting
    <2>3. \A m \in M : SnoopInFlight(a, r, m)'
        <3> SUFFICES ASSUME NEW m \in M PROVE SnoopInFlight(a, r, m)'
            OBVIOUS
        <3>1. PICK j \in 1 .. count : m = msg(j)
            BY <1>8
        <3>2. /\ m.channel = "snp" /\ m.type \in {"SnpCleanInvalid", "SnpUnique", "SnpOnce"}
              /\ m.action.destNode = node[j] /\ m.action.txnId = first + j - 1
            BY <1>10, <3>1
        <3>3. node[j] \in Nodes \ {n}
            BY <1>3, <1>6, <1>7
        <3>4. m.action.txnId \in ids
            BY <1>8, <1>17
        <3>5. \A o \in M : o.action.txnId = m.action.txnId => o = m
            <4> SUFFICES ASSUME NEW o \in M, o.action.txnId = m.action.txnId PROVE o = m
                OBVIOUS
            <4>1. PICK i \in 1 .. count : o = msg(i)
                BY <1>8
            <4>2. i = j
                BY <1>5, <1>6, <1>10, <3>2, <4>1
            <4> QED BY <3>1, <4>1, <4>2
        <3> QED BY <1>9, <1>15, <1>18, <3>2, <3>3, <3>4, <3>5 DEF SnoopInFlight
    <2>4. ASSUME NEW x \in Nodes \ {n}, Holds(x, a)'
          PROVE  \E m \in M : m.action.destNode = x
        <3>1. x \in others
            BY <1>3, <1>9, <2>4 DEF Copies, Holds
        <3>2. PICK j \in 1 .. count : node[j] = x
            <4>1. PICK S : S = others
                OBVIOUS
            <4>2. S \in SUBSET Nat /\ IsFiniteSet(S) /\ count = Cardinality(S) /\ x \in S
                BY <1>6, <3>1, <4>1, NodesAssumption DEF count
            <4>3. Lists(node, S)
                BY <1>7, <4>1, <4>2 DEF Lists
            <4>4. \A y \in S : \E j \in 1 .. Cardinality(S) : node[j] = y
                BY ONLY <4>2, <4>3, AscendingCovers
            <4> QED BY <4>2, <4>4
        <3> QED BY <1>8, <1>10, <3>2
    <2> HIDE DEF v
    <2> QED
        BY <1>9, <1>11, <1>15, <1>18, <1>19, <1>20, <2>1, <2>2, <2>3, <2>4 DEF Snooping
<1>22. LineInv(a)'
    <2>1. /\ Present(cache, a)' <=> Present(cache, a)
          /\ GetState(cache, a)' = GetState(cache, a)
          /\ GetSharers(cache, a)' = GetSharers(cache, a)
          /\ Present(cache, a) => GetData(cache, a)' = GetData(cache, a)
        BY <1>1, <1>12 DEF SameLine
    <2>2. Copies(a)'
        BY <1>9, <2>1 DEF Copies, Holds, Writer, NoWriter
    <2>3. L2Current(a)'
        BY <1>9, <2>1 DEF L2Current, Idle
    <2>4. DataCurrent(a)'
        BY <1>9 DEF DataCurrent
    <2> QED BY <1>9, <1>21, <2>2, <2>3, <2>4 DEF LineInv
<1>23. \A s \in DOMAIN snoopToOrig' :
           /\ SnoopIdBase <= s /\ s < nextSnoopTxnId' /\ s \in Nat
           /\ \/ s \in DOMAIN snoopToOrig /\ snoopToOrig'[s] = snoopToOrig[s]
              \/ /\ snoopToOrig'[s] = r.txnID /\ k = r.txnID
                 /\ "WaitSnoopResp" = "WaitSnoopResp"
    BY <1>5, <1>6, <1>7, <1>13, <1>14
<1>24. /\ nextSnoopTxnId <= nextSnoopTxnId' /\ nextSnoopTxnId' \in Nat
       /\ nextSnoopTxnId' <= nextSnoopTxnId + Cardinality(Nodes)
       /\ nextInternalTxnId <= nextInternalTxnId' /\ nextInternalTxnId' \in Nat
    BY <1>4, <1>5, <1>6, <1>7 DEF CInv, TypeOK, EngineTypeOK
<1>25. /\ DOMAIN memToOrig' \subseteq Nat
       /\ \A s \in DOMAIN memToOrig' : memToOrig'[s] \in L1TxnIds
    BY <1>7 DEF CInv, TypeOK, EngineTypeOK
<1>26. Target(r.type) \in LineState /\ "WaitSnoopResp" \in PendingState
    BY DEF Target, LineState, PendingState
<1>27. dataCount \in Int /\ count \in Int
    BY <1>6
<1>28. DOMAIN snoopToOrig \subseteq DOMAIN snoopToOrig'
    BY <1>7
<1>29. pending' = Put(pending, k, Waiting(TxnOf(r), "WaitSnoopResp", Target(r.type),
                                          count, dataCount))
    BY <1>7
<1>30. /\ fault' = fault /\ snoopRespCounted' = snoopRespCounted
       /\ \A b \in Addrs \ {a} : SameLine(cache, cache', b)
       /\ k \notin DOMAIN pending /\ Stores(cache, Addrs)' /\ k = r.txnID
    BY <1>7, <1>9, <1>12
<1> HIDE DEF dataCount, k, others, v
<1> QED
    BY <1>1, <1>5, <1>16, <1>22, <1>23, <1>24, <1>25, <1>26, <1>27, <1>28, <1>29,
       <1>30, RequestOpens

-----------------------------------------------------------------------------
(* The handlers of requests *)

\* What the line becomes in the caches that the handlers answer from.
LEMMA ServedLines ==
    ASSUME SafeUse, Stores(cache, Addrs), NEW txn, txn.addr \in Addrs,
           txn.srcNodeID \in Nodes, Present(cache, txn.addr)
    PROVE  LET a == txn.addr
               n == txn.srcNodeID
               c == Lookup(cache, a)
               s == GetSharers(cache, a)
               t == GetData(cache, a)
           IN /\ GetState(cache, a) \in LineState \ {"I"} /\ s \subseteq Nodes /\ t \in Data
              /\ Becomes(cache, c, Addrs, a, GetState(cache, a), s, t)
              /\ \A state \in LineState \ {"I"} :
                    /\ Becomes(cache, SetState(AddSharer(c, a, n), a, state), Addrs, a,
                               state, s \cup {n}, t)
                    /\ Becomes(cache, GrantAlone(c, txn, state), Addrs, a,
                               state, {n}, t)
<1> DEFINE a == txn.addr
           n == txn.srcNodeID
           c == Lookup(cache, a)
           s == GetSharers(cache, a)
           t == GetData(cache, a)
           q == GetState(cache, a)
<1>1. Aligned(Addrs)
    BY SafeLines
<1>2. Stores(c, Addrs) /\ \A b \in Addrs : SameLine(cache, c, b)
    BY <1>1, LookupSees
<1>3. q \in LineState \ {"I"} /\ s \subseteq Nodes /\ t \in Data
    BY <1>1, UpdatesSee
<1>4. /\ Present(c, a) /\ GetState(c, a) = q /\ GetSharers(c, a) = s
      /\ GetData(c, a) = t
    BY <1>2 DEF SameLine
<1>5. Becomes(cache, c, Addrs, a, q, s, t)
    BY <1>2, <1>4 DEF Becomes
<1> HIDE DEF a, n, c, s, t, q
<1>6. a \in Addrs /\ n \in Nodes
    BY DEF a, n
<1>7. ASSUME NEW state \in LineState \ {"I"}
      PROVE  Becomes(cache, SetState(AddSharer(c, a, n), a, state), Addrs, a,
                     state, s \cup {n}, t)
    <2> DEFINE d == AddSharer(c, a, n)
    <2>1. Becomes(c, d, Addrs, a, q, s \cup {n}, t)
        BY <1>1, <1>2, <1>4, <1>6, UpdatesSee
    <2> HIDE DEF d
    <2>2. /\ Stores(d, Addrs) /\ Present(d, a) /\ GetSharers(d, a) = s \cup {n}
          /\ GetData(d, a) = t
        BY <2>1 DEF Becomes
    <2>3. Becomes(d, SetState(d, a, state), Addrs, a, state, s \cup {n}, t)
        BY <1>1, <1>6, <2>2, UpdatesSee
    <2>4. Becomes(c, SetState(d, a, state), Addrs, a, state, s \cup {n}, t)
        BY <2>1, <2>3, BecomesTwice
    <2> QED BY <1>2, <2>4, BecomesAfterLookup DEF d
<1>8. ASSUME NEW state \in LineState \ {"I"}
      PROVE  Becomes(cache, AddSharer(ClearSharers(SetState(c, a, state), a), a, n),
                     Addrs, a, state, {n}, t)
    <2> DEFINE d == SetState(c, a, state)
               e == ClearSharers(d, a)
    <2>1. Becomes(c, d, Addrs, a, state, s, t)
        BY <1>1, <1>2, <1>4, <1>6, UpdatesSee
    <2> HIDE DEF d
    <2>2. Stores(d, Addrs) /\ Present(d, a) /\ GetState(d, a) = state /\ GetData(d, a) = t
        BY <2>1 DEF Becomes
    <2>3. Becomes(d, e, Addrs, a, state, {}, t)
        BY <1>1, <1>6, <2>2, UpdatesSee
    <2> HIDE DEF e
    <2>4. /\ Stores(e, Addrs) /\ Present(e, a) /\ GetState(e, a) = state
          /\ GetSharers(e, a) = {} /\ GetData(e, a) = t
        BY <2>3 DEF Becomes
    <2>5. Becomes(e, AddSharer(e, a, n), Addrs, a, state, {} \cup {n}, t)
        BY <1>1, <1>6, <2>4, UpdatesSee
    <2>6. {} \cup {n} = {n}
        OBVIOUS
    <2>7. Becomes(c, e, Addrs, a, state, {}, t)
        BY <2>1, <2>3, BecomesTwice
    <2>8. Becomes(c, AddSharer(e, a, n), Addrs, a, state, {n}, t)
        BY <2>5, <2>6, <2>7, BecomesTwice
    <2> QED BY <1>2, <2>8, BecomesAfterLookup DEF d, e
<1>9. \A state : GrantAlone(c, txn, state)
                   = AddSharer(ClearSharers(SetState(c, a, state), a), a, n)
    BY DEF GrantAlone, a, n
<1> QED BY <1>3, <1>5, <1>7, <1>8, <1>9 DEF a, n, c, s, t, q

\* A miss is fetched: there is room for the line, so that nothing dirty has to go.
LEMMA ReadMissStep ==
    ASSUME SafeUse, CInv, NEW r, NEW CONSTANT M, M = Sent, Requested(r, M),
           r.type \in Reads, ReadMiss(TxnOf(r), Target(r.type))
    PROVE  CInv'
<1>1. r.addr \in Addrs /\ TxnOf(r).addr = r.addr
    BY RequestTypes DEF Requested, TxnOf
<1>2. ~Present(cache, r.addr)
    BY <1>1 DEF ReadMiss
<1>3. LookupResult(cache, r.addr) = "Miss"
    BY <1>1, <1>2, SafeLines, RoomForMiss DEF CInv
<1>4. FetchFromMemory(TxnOf(r), Target(r.type))
    BY <1>1, <1>3 DEF ReadMiss
<1>5. PICK k : k = nextInternalTxnId
    OBVIOUS
<1>6. actions' = <<ReadNoSnp(r.addr, k)>>
    BY <1>1, <1>4, <1>5 DEF FetchFromMemory
<1>7. M = {ReadMessage(r.addr, k)}
    BY <1>6, SentOne
<1> QED BY <1>2, <1>4, <1>5, <1>7, RequestFetched

\* What is known of a line that a request hits.
LEMMA HitLine ==
    ASSUME SafeUse, CInv, NEW r, NEW M, Requested(r, M), Present(cache, r.addr)
    PROVE  LET a == r.addr
               n == r.srcNodeID
               s == GetSharers(cache, a)
           IN /\ \A x \in Nodes : Holds(x, a) => x \in s
              /\ GetData(cache, a) = latest[a] \/ \E x \in Nodes : Writer(x, a)
              /\ \A x \in Nodes : Writer(x, a) =>
                    \/ GetState(cache, a) = "UD"
                    \/ GetState(cache, a) = "UC" /\ UpgradedBy(a, x)
              /\ GetState(cache, a) \in {"UC", "SC", "UD", "SD"}
              /\ HitDirty(TxnOf(r)) <=> GetState(cache, a) \in {"UD", "SD"}
              /\ Hit(TxnOf(r)) /\ HitState(TxnOf(r)) = GetState(cache, a)
              /\ OtherSharers(TxnOf(r)) = s \ {n}
<1>1. /\ r.addr \in Addrs /\ TxnOf(r).addr = r.addr
      /\ TxnOf(r).srcNodeID = r.srcNodeID /\ r.srcNodeID \in Nodes
    BY RequestTypes DEF Requested, TxnOf
<1>2. Copies(r.addr) /\ L2Current(r.addr) /\ Shape(r.addr) /\ Idle(r.addr)
    BY RequestMade
<1>3. GetState(cache, r.addr) \in {"UC", "SC", "UD", "SD"}
    BY <1>1, ServedLines DEF CInv, LineState
<1>4. HitDirty(TxnOf(r)) <=> GetState(cache, r.addr) \in {"UD", "SD"}
    BY <1>1 DEF HitDirty, NeedsWriteback, IsDirty, GetState
<1>5. GetData(cache, r.addr) = latest[r.addr] \/ \E x \in Nodes : Writer(x, r.addr)
    BY <1>2 DEF L2Current, Idle, Writer
<1> QED
    BY <1>1, <1>2, <1>3, <1>4, <1>5 DEF Copies, Shape, Shaped, Hit, HitState, OtherSharers

\* A request that is served from a cache in which the line has become (state,
\* sharers) and nothing else has changed.
LEMMA RequestServed ==
    ASSUME SafeUse, CInv, NEW r, NEW CONSTANT M, M = Sent, Requested(r, M),
           NEW m, M = {m}, UNCHANGED <<tables, counters, fault>>,
           NEW CONSTANT state, NEW CONSTANT sharers, GetSharers(cache, r.addr) \subseteq sharers,
           Becomes(cache, cache', Addrs, r.addr, state, sharers,
                   GetData(cache, r.addr)),
           GetData(cache, r.addr) = latest[r.addr], NoWriter(r.addr),
           Shaped(r.addr, state, sharers), Grants(r, m, state, sharers),
           m.type # "Comp_UC" => m.action.data = GetData(cache, r.addr)
    PROVE  CInv'
<1> DEFINE a == r.addr
<1>1. /\ GetState(cache, a)' = state /\ GetSharers(cache, a)' = sharers
      /\ l1' = l1 /\ latest' = latest
    BY RequestMade DEF Becomes
<1>2. Copies(a) /\ \A x \in Nodes : ~Writer(x, a) /\ ~Writer(x, a)'
    BY <1>1, RequestMade DEF NoWriter, Writer
<1>3. Copies(a)'
    BY <1>1, <1>2 DEF Copies, Holds, NoWriter
<1>4. Shape(a)'
    BY <1>1, <1>2 DEF Shape, Shaped
<1>5. Granted(a, r, m)'
    BY <1>1 DEF Granted
<1> QED BY <1>3, <1>4, <1>5, RequestAnswered

\* ReadShared: a dirty line has no other sharers, or they are asked for it.
LEMMA ReadSharedStep ==
    ASSUME SafeUse, CInv, NEW r, NEW CONSTANT M, M = Sent, Requested(r, M),
           r.type = "ReadShared", HandleReadShared(TxnOf(r))
    PROVE  CInv'
<1> DEFINE a == r.addr
           n == r.srcNodeID
           txn == TxnOf(r)
<1>1. /\ r \in Requests /\ a \in Addrs /\ n \in Nodes
      /\ txn.addr = a /\ txn.srcNodeID = n /\ txn.txnID = r.txnID
      /\ \A u, own, others : UsedBy(a, u, own, others) =>
            r.type \in IF n = u THEN own ELSE others
    BY RequestTypes DEF Requested, TxnOf
<1>2. r.type \in Reads /\ Target(r.type) = "SC"
    BY DEF Reads, Target, UniqueReads
<1>3. CASE ReadMiss(txn, "SC")
    BY <1>2, <1>3, ReadMissStep
<1>4. CASE /\ HitDirty(txn) /\ OtherSharers(txn) # {}
           /\ SnoopOthers(txn, "SendSnpCleanInvalid", TRUE, "SC")
    <2>1. Present(cache, a)
        BY <1>1, <1>4 DEF HitDirty, NeedsWriteback
    <2> QED BY <1>2, <1>4, <2>1, RequestSnoops
<1>5. CASE /\ Hit(txn)
           /\ HitDirty(txn) => OtherSharers(txn) = {}
           /\ LET shared == IF HitDirty(txn) THEN "SD" ELSE "SC"
                  c == SetState(AddSharer(Lookup(cache, txn.addr), txn.addr,
                                          txn.srcNodeID), txn.addr, shared)
              IN Serve(c, CompData(txn, shared, GetData(cache, txn.addr)))
    <2> DEFINE shared == IF HitDirty(txn) THEN "SD" ELSE "SC"
               s == GetSharers(cache, a)
               m == Message("dat", CompDataType(shared), 1,
                            CompData(txn, shared, GetData(cache, a)))
    <2>1. Present(cache, a)
        BY <1>1, <1>5 DEF Hit
    <2>2. /\ cache' = SetState(AddSharer(Lookup(cache, a), a, n), a, shared)
          /\ actions' = <<CompData(txn, shared, GetData(cache, a))>>
          /\ UNCHANGED <<tables, counters, fault>>
        BY <1>1, <1>5 DEF Serve
    <2>3. PICK q, sh, M0 : q = shared /\ sh = s \cup {n} /\ M0 = m
        OBVIOUS
    <2>4. M = {M0}
        BY <2>2, <2>3, SentOne
    <2>5. Becomes(cache, cache', Addrs, a, q, sh, GetData(cache, a))
        <3>1. shared \in LineState \ {"I"}
            BY DEF LineState
        <3> HIDE DEF shared, a, n, txn
        <3> QED BY <1>1, <2>1, <2>2, <2>3, <3>1, ServedLines DEF CInv
    <2>6. l1[n][a].state = "I"
        BY RequestMade DEF SentIn
    <2>7. /\ \A x \in Nodes : Holds(x, a) => x \in s
          /\ GetData(cache, a) = latest[a] \/ \E x \in Nodes : Writer(x, a)
          /\ \A x \in Nodes : Writer(x, a) =>
                \/ GetState(cache, a) = "UD"
                \/ GetState(cache, a) = "UC" /\ UpgradedBy(a, x)
          /\ GetState(cache, a) \in {"UC", "SC", "UD", "SD"}
          /\ HitDirty(txn) <=> GetState(cache, a) \in {"UD", "SD"}
          /\ OtherSharers(txn) = s \ {n}
        BY <2>1, HitLine
    <2>8. ASSUME NEW u \in Nodes, UpgradedBy(a, u)
          PROVE  n = u /\ q = "SC" /\ sh = {u} /\ ~HitDirty(txn)
        <3>1. n = u
            BY <1>1, <2>8 DEF UpgradedBy
        <3>2. Shape(a)
            BY RequestMade
        <3>3. GetState(cache, a) \notin {"SD", "UD"}
            BY <1>5, <2>7, <2>8, <3>1, <3>2 DEF Shape, Shaped
        <3>4. s = {u}
            BY <2>7, <2>8, <3>2, <3>3 DEF Shape, Shaped
        <3> QED BY <2>3, <2>7, <3>1, <3>3, <3>4
    <2>9. ASSUME NEW u \in Nodes, EvictedBy(a, u)
          PROVE  q = "SC" /\ sh \subseteq {u}
        <3>1. n = u
            BY <1>1, <2>9 DEF EvictedBy
        <3>2. GetState(cache, a) \in {"I", "SC"} /\ s \subseteq {u}
            BY <2>9, RequestMade DEF Shape, Shaped
        <3> QED BY <2>3, <2>7, <3>1, <3>2
    <2>10. NoWriter(a)
        <3> SUFFICES ASSUME NEW x \in Nodes, Writer(x, a) PROVE FALSE
            BY DEF NoWriter
        <3>1. x # n /\ Holds(x, a)
            BY <2>6 DEF Writer, Holds
        <3>2. x \in OtherSharers(txn)
            BY <2>7, <3>1
        <3>3. ~HitDirty(txn)
            BY <1>5, <3>2
        <3>4. UpgradedBy(a, x)
            BY <2>7, <3>3
        <3> QED BY <2>8, <3>1, <3>4
    <2>11. GetData(cache, a) = latest[a]
        BY <2>7, <2>10 DEF NoWriter
    <2>12. M0.action.data = GetData(cache, a)
        BY <2>3 DEF Message, CompData
    <2>13. Grants(r, M0, q, sh)
        <3>1. /\ M0.channel # "snp" /\ M0.action.txnId = r.txnID
              /\ M0.action.destNode = n /\ M0.type = "CompData_SC"
            BY <1>1, <2>3 DEF Message, CompData, CompDataType
        <3> QED BY <2>3, <3>1 DEF Grants
    <2>14. Shaped(a, q, sh)
        BY <2>8, <2>9 DEF Shaped
    <2>15. s \subseteq sh
        BY <2>3
    <2> HIDE DEF shared, m
    <2> QED
        BY <2>2, <2>4, <2>5, <2>10, <2>11, <2>12, <2>13, <2>14, <2>15, RequestServed
<1> QED BY <1>3, <1>4, <1>5, Zenon DEF HandleReadShared

\* ReadUnique and ReadNotSharedDirty: the requester is left alone with the line.
LEMMA ReadUniqueStep ==
    ASSUME SafeUse, CInv, NEW r, NEW CONSTANT M, M = Sent, Requested(r, M),
           r.type \in UniqueReads, HandleReadUnique(TxnOf(r))
    PROVE  CInv'
<1> DEFINE a == r.addr
           n == r.srcNodeID
           txn == TxnOf(r)
<1>1. /\ r \in Requests /\ a \in Addrs /\ n \in Nodes
      /\ txn.addr = a /\ txn.srcNodeID = n /\ txn.txnID = r.txnID
      /\ \A u, own, others : UsedBy(a, u, own, others) =>
            r.type \in IF n = u THEN own ELSE others
    BY RequestTypes DEF Requested, TxnOf
<1>2. r.type \in Reads /\ Target(r.type) = "UD"
    BY DEF Reads, Target
<1>3. CASE ReadMiss(txn, "UD")
    BY <1>2, <1>3, ReadMissStep
<1>4. CASE /\ Hit(txn) /\ OtherSharers(txn) # {}
           /\ SnoopOthers(txn, "SendSnpUnique", HitDirty(txn), "UD")
    <2>1. Present(cache, a)
        BY <1>1, <1>4 DEF Hit
    <2>2. PICK dirty : dirty = HitDirty(txn)
        OBVIOUS
    <2>3. SnoopOthers(txn, "SendSnpUnique", dirty, "UD")
        BY <1>4, <2>2
    <2> QED BY <1>2, <2>1, <2>3, RequestSnoops
<1>5. CASE /\ Hit(txn) /\ OtherSharers(txn) = {}
           /\ Serve(GrantAlone(Lookup(cache, txn.addr), txn, "UD"),
                    CompData(txn, "UD", GetData(cache, txn.addr)))
    <2> DEFINE s == GetSharers(cache, a)
               m == Message("dat", CompDataType("UD"), 1,
                            CompData(txn, "UD", GetData(cache, a)))
    <2>1. Present(cache, a)
        BY <1>1, <1>5 DEF Hit
    <2>2. /\ cache' = GrantAlone(Lookup(cache, a), txn, "UD")
          /\ actions' = <<CompData(txn, "UD", GetData(cache, a))>>
          /\ UNCHANGED <<tables, counters, fault>>
        BY <1>1, <1>5 DEF Serve
    <2>3. PICK M0 : M0 = m
        OBVIOUS
    <2>4. M = {M0}
        BY <2>2, <2>3, SentOne
    <2>5. Becomes(cache, cache', Addrs, a, "UD", {n}, GetData(cache, a))
        <3>1. "UD" \in LineState \ {"I"}
            BY DEF LineState
        <3> HIDE DEF a, n, txn
        <3> QED BY <1>1, <2>1, <2>2, <3>1, ServedLines DEF CInv
    <2>6. l1[n][a].state \in {"I", "SC"}
        BY RequestMade DEF SentIn, UniqueReads
    <2>7. /\ \A x \in Nodes : Holds(x, a) => x \in s
          /\ GetData(cache, a) = latest[a] \/ \E x \in Nodes : Writer(x, a)
          /\ OtherSharers(txn) = s \ {n}
        BY <2>1, HitLine
    <2>8. ASSUME NEW u \in Nodes, UpgradedBy(a, u)
          PROVE  n # u
        BY <1>1, <2>8 DEF UpgradedBy, UniqueReads
    <2>9. \A u \in Nodes : ~EvictedBy(a, u)
        BY <1>1 DEF EvictedBy, UniqueReads
    <2>10. NoWriter(a)
        <3> SUFFICES ASSUME NEW x \in Nodes, Writer(x, a) PROVE FALSE
            BY DEF NoWriter
        <3>1. x # n /\ Holds(x, a)
            BY <2>6 DEF Writer, Holds
        <3>2. x \in OtherSharers(txn)
            BY <2>7, <3>1
        <3> QED BY <1>5, <3>2
    <2>11. GetData(cache, a) = latest[a]
        BY <2>7, <2>10 DEF NoWriter
    <2>12. M0.action.data = GetData(cache, a)
        BY <2>3 DEF Message, CompData
    <2>13. Grants(r, M0, "UD", {n})
        <3>1. /\ M0.channel # "snp" /\ M0.action.txnId = r.txnID
              /\ M0.action.destNode = n /\ M0.type = "CompData_UD_PD"
            BY <1>1, <2>3 DEF Message, CompData, CompDataType
        <3> QED BY <3>1 DEF Grants
    <2>14. Shaped(a, "UD", {n})
        BY <1>1, <2>8, <2>9 DEF Shaped
    <2>15. s \subseteq {n}
        BY <1>5, <2>7
    <2>16. PICK sh : sh = {n}
        OBVIOUS
    <2> HIDE DEF m
    <2>17. /\ Becomes(cache, cache', Addrs, a, "UD", sh, GetData(cache, a))
           /\ Grants(r, M0, "UD", sh) /\ Shaped(a, "UD", sh) /\ s \subseteq sh
        BY <2>5, <2>13, <2>14, <2>15, <2>16
    <2> QED
        BY <2>2, <2>4, <2>10, <2>11, <2>12, <2>17, RequestServed
<1> QED BY <1>3, <1>4, <1>5, Zenon DEF HandleReadUnique

\* ReadOnce: the line stays as it is.
LEMMA ReadOnceStep ==
    ASSUME SafeUse, CInv, NEW r, NEW CONSTANT M, M = Sent, Requested(r, M),
           r.type = "ReadOnce", HandleReadOnce(TxnOf(r))
    PROVE  CInv'
<1> DEFINE a == r.addr
           n == r.srcNodeID
           txn == TxnOf(r)
<1>1. /\ r \in Requests /\ a \in Addrs /\ n \in Nodes
      /\ txn.addr = a /\ txn.srcNodeID = n /\ txn.txnID = r.txnID
      /\ \A u, own, others : UsedBy(a, u, own, others) =>
            r.type \in IF n = u THEN own ELSE others
    BY RequestTypes DEF Requested, TxnOf
<1>2. r.type \in Reads /\ Target(r.type) = "SC"
    BY DEF Reads, Target, UniqueReads
<1>3. CASE ReadMiss(txn, "SC")
    BY <1>2, <1>3, ReadMissStep
<1>4. CASE /\ HitDirty(txn) /\ OtherSharers(txn) # {}
           /\ SnoopOthers(txn, "SendSnpOnce", TRUE, "SC")
    <2>1. Present(cache, a)
        BY <1>1, <1>4 DEF HitDirty, NeedsWriteback
    <2> QED BY <1>2, <1>4, <2>1, RequestSnoops
<1>5. CASE /\ Hit(txn)
           /\ HitDirty(txn) => OtherSharers(txn) = {}
           /\ Serve(Lookup(cache, txn.addr),
                    CompData(txn, HitState(txn), GetData(cache, txn.addr)))
    <2> DEFINE m == Message("dat", CompDataType(GetState(cache, a)), 1,
                            CompData(txn, GetState(cache, a), GetData(cache, a)))
    <2>1. Present(cache, a)
        BY <1>1, <1>5 DEF Hit
    <2>2. /\ cache' = Lookup(cache, a)
          /\ actions' = <<CompData(txn, GetState(cache, a), GetData(cache, a))>>
          /\ UNCHANGED <<tables, counters, fault>>
        BY <1>1, <1>5 DEF Serve, HitState
    <2>3. PICK q, s, M0 : q = GetState(cache, a) /\ s = GetSharers(cache, a) /\ M0 = m
        OBVIOUS
    <2>4. M = {M0}
        BY <2>2, <2>3, SentOne
    <2>5. Becomes(cache, cache', Addrs, a, q, s, GetData(cache, a))
        <3> HIDE DEF a, n, txn
        <3> QED BY <1>1, <2>1, <2>2, <2>3, ServedLines DEF CInv
    <2>6. l1[n][a].state = "I"
        BY RequestMade DEF SentIn
    <2>7. /\ \A x \in Nodes : Holds(x, a) => x \in s
          /\ GetData(cache, a) = latest[a] \/ \E x \in Nodes : Writer(x, a)
          /\ \A x \in Nodes : Writer(x, a) =>
                \/ GetState(cache, a) = "UD"
                \/ GetState(cache, a) = "UC" /\ UpgradedBy(a, x)
          /\ HitDirty(txn) <=> GetState(cache, a) \in {"UD", "SD"}
          /\ OtherSharers(txn) = s \ {n}
        BY <2>1, <2>3, HitLine
    <2>8. ~UpgradedBy(a, n)
        BY <1>1 DEF UpgradedBy
    <2>9. \A u \in Nodes : ~UpgradedBy(a, u)
        BY <1>1, <2>8 DEF UpgradedBy
    <2>10. NoWriter(a)
        <3> SUFFICES ASSUME NEW x \in Nodes, Writer(x, a) PROVE FALSE
            BY DEF NoWriter
        <3>1. x # n /\ Holds(x, a)
            BY <2>6 DEF Writer, Holds
        <3>2. x \in OtherSharers(txn)
            BY <2>7, <3>1
        <3>3. ~HitDirty(txn)
            BY <1>5, <3>2
        <3> QED BY <2>7, <2>9, <3>3
    <2>11. GetData(cache, a) = latest[a]
        BY <2>7, <2>10 DEF NoWriter
    <2>12. M0.action.data = GetData(cache, a)
        BY <2>3 DEF Message, CompData
    <2>13. Grants(r, M0, q, s)
        <3>1. /\ M0.channel # "snp" /\ M0.action.txnId = r.txnID
              /\ M0.action.destNode = n
              /\ M0.type \in {"CompData_SC", "CompData_UC", "CompData_UD_PD"}
            BY <1>1, <2>3 DEF Message, CompData, CompDataType
        <3>2. DOMAIN GrantedState = {"CompData_SC", "CompData_UC", "CompData_UD_PD"}
            BY DEF GrantedState
        <3> QED BY <3>1, <3>2 DEF Grants
    <2>14. Shaped(a, q, s)
        BY <2>3, RequestMade DEF Shape
    <2>15. GetSharers(cache, a) \subseteq s
        BY <2>3
    <2> HIDE DEF m
    <2> QED
        BY <2>2, <2>4, <2>5, <2>10, <2>11, <2>12, <2>13, <2>14, <2>15, RequestServed
<1> QED BY <1>3, <1>4, <1>5, Zenon DEF HandleReadOnce

\* CleanUnique: it comes from the only one that has the line, which it finds clean.
LEMMA CleanUniqueStep ==
    ASSUME SafeUse, CInv, NEW r, NEW CONSTANT M, M = Sent, Requested(r, M),
           r.type = "CleanUnique", HandleCleanUnique(TxnOf(r))
    PROVE  CInv'
<1> DEFINE a == r.addr
           n == r.srcNodeID
           txn == TxnOf(r)
           m == Message("rsp", "Comp_UC", 0, Comp(txn))
<1>1. /\ r \in Requests /\ a \in Addrs /\ n \in Nodes
      /\ txn.addr = a /\ txn.srcNodeID = n /\ txn.txnID = r.txnID
      /\ <<n, a, r.type>> \in Workload
      /\ \A u, own, others : UsedBy(a, u, own, others) =>
            r.type \in IF n = u THEN own ELSE others
    BY RequestTypes DEF Requested, TxnOf
<1>2. l1[n][a].state = "SC" /\ Copies(a) /\ Shape(a) /\ L2Current(a) /\ Idle(a)
    BY RequestMade DEF SentIn
<1>3. ~SharedUse(a) /\ \A u \in Nodes : ~EvictedBy(a, u)
    <2>1. ~SharedUse(a)
        BY <1>1 DEF SharedUse
    <2> QED BY <1>1, <2>1 DEF EvictedBy
<1>4. UpgradedBy(a, n) /\ \A u \in Nodes : UpgradedBy(a, u) => u = n
    <2>1. \A u \in Nodes : UpgradedBy(a, u) => u = n
        BY <1>1 DEF UpgradedBy
    <2> QED BY <1>1, <1>3, <2>1 DEF SafeUse
<1>5. n \in GetSharers(cache, a) /\ Present(cache, a)
    BY <1>1, <1>2 DEF Copies, Holds, GetSharers
<1>6. /\ GetState(cache, a) \in {"SC", "UC"} /\ GetSharers(cache, a) = {n}
      /\ OtherSharers(txn) = {} /\ Hit(txn) /\ HitState(txn) = GetState(cache, a)
    <2>1. /\ GetState(cache, a) \in {"UC", "SC", "UD", "SD"}
          /\ Hit(txn) /\ HitState(txn) = GetState(cache, a)
          /\ OtherSharers(txn) = GetSharers(cache, a) \ {n}
        BY <1>5, HitLine
    <2>2. GetState(cache, a) \notin {"SD", "UD"}
        BY <1>1, <1>2, <1>4, <1>5 DEF Shape, Shaped
    <2>3. GetSharers(cache, a) = {n}
        BY <1>1, <1>2, <1>4, <2>1, <2>2 DEF Shape, Shaped
    <2> QED BY <2>1, <2>2, <2>3
<1>7. /\ actions' = <<Comp(txn)>> /\ UNCHANGED <<tables, counters, fault>>
      /\ \/ GetState(cache, a) = "UC" /\ cache' = Lookup(cache, a)
         \/ cache' = GrantAlone(Lookup(cache, a), txn, "UC")
    <2>1. ~ReadMiss(txn, "UC")
        BY <1>6 DEF ReadMiss, Hit
    <2>2. \/ HitState(txn) = "UC" /\ Serve(Lookup(cache, txn.addr), Comp(txn))
          \/ Serve(GrantAlone(Lookup(cache, txn.addr), txn, "UC"), Comp(txn))
        BY <1>6, <2>1 DEF HandleCleanUnique
    <2> QED BY <1>1, <1>6, <2>2 DEF Serve
<1>8. PICK M0, s, q : M0 = m /\ s = {n} /\ q = "UC"
    OBVIOUS
<1>9. M = {M0}
    BY <1>7, <1>8, SentOne
<1>10. Becomes(cache, cache', Addrs, a, q, s, GetData(cache, a))
    <2>1. "UC" \in LineState \ {"I"}
        BY DEF LineState
    <2> HIDE DEF a, n, txn, m
    <2>2. GetSharers(cache, a) = s
        BY <1>6, <1>8
    <2> QED BY <1>1, <1>5, <1>7, <1>8, <2>1, <2>2, ServedLines DEF CInv
<1>11. NoWriter(a)
    <2> SUFFICES ASSUME NEW x \in Nodes, Writer(x, a) PROVE FALSE
        BY DEF NoWriter
    <2>1. x \in GetSharers(cache, a) /\ x # n
        BY <1>2 DEF Copies, Holds, Writer
    <2> QED BY <1>6, <2>1
<1>12. GetData(cache, a) = latest[a]
    BY <1>2, <1>5, <1>11 DEF L2Current, Idle, NoWriter, Writer
<1>13. Grants(r, M0, q, s)
    <2>1. /\ M0.channel # "snp" /\ M0.action.txnId = r.txnID
          /\ M0.action.destNode = n /\ M0.type = "Comp_UC"
        BY <1>1, <1>8 DEF Message, Comp
    <2> QED BY <1>4, <1>8, <2>1 DEF Grants
<1>14. Shaped(a, q, s)
    BY <1>3, <1>4, <1>8 DEF Shaped
<1>15. GetSharers(cache, a) \subseteq s
    BY <1>6, <1>8
<1>16. M0.type = "Comp_UC"
    BY <1>8 DEF Message
<1> HIDE DEF m
<1> QED
    BY <1>7, <1>9, <1>10, <1>11, <1>12, <1>13, <1>14, <1>15, <1>16, RequestServed

ActionTypes ==
    SnoopTypes \cup {"SendReadNoSnp", "SendWriteNoSnp", "SendCompData", "SendComp",
                     "SendCompDBIDResp"}

\* The messages of an action bear it.
LEMMA MessagesBear ==
    ASSUME NEW x, x.type \in ActionTypes
    PROVE  \A m \in ToSet(MessagesOf(x)) : m.action = x
<1>1. ASSUME NEW channel, NEW type, NEW beat
      PROVE  Message(channel, type, beat, x).action = x
    BY DEF Message
<1>2. \A type : Line(type, x) = <<Message("dat", type, 1, x)>>
    BY OneBeatAssumption DEF Line
<1>3. CASE x.type = "SendReadNoSnp"
    BY <1>1, <1>3 DEF MessagesOf, SendReadNoSnp, SnoopTypes, ToSet
<1>4. CASE x.type = "SendWriteNoSnp"
    <2>1. PICK p, q : p = Message("req", "WriteNoSnp", 0, x) /\ q = Message("dat", "NCBWrData", 1, x)
        OBVIOUS
    <2>2. MessagesOf(x) = <<p>> \o <<q>>
        BY <1>2, <1>4, <2>1 DEF MessagesOf, SnoopTypes, SendWriteNoSnp
    <2>3. PICK s, t : s = <<p>> /\ t = <<q>>
        OBVIOUS
    <2>4. s \in Seq({p, q}) /\ t \in Seq({p, q})
        BY <2>3
    <2>5. s \o t \in Seq({p, q})
        BY ONLY <2>4, ConcatProperties
    <2> QED BY <1>1, <2>1, <2>2, <2>3, <2>5 DEF ToSet
<1>5. CASE x.type = "SendCompData"
    BY <1>1, <1>2, <1>5 DEF MessagesOf, SendCompData, SnoopTypes, ToSet
<1>6. CASE x.type = "SendComp"
    BY <1>1, <1>6 DEF MessagesOf, SendComp, SnoopTypes, ToSet
<1>7. CASE x.type = "SendCompDBIDResp"
    BY <1>1, <1>7 DEF MessagesOf, SendCompDBIDResp, SnoopTypes, ToSet
<1>8. CASE x.type \in SnoopTypes
    BY <1>1, <1>8 DEF MessagesOf, SendSnoop, SnoopTypes, ToSet
<1> QED BY <1>3, <1>4, <1>5, <1>6, <1>7, <1>8 DEF ActionTypes

\* All actions of the call are about the line.
About(a) ==
    \A j \in DOMAIN actions' : actions'[j].addr = a /\ actions'[j].type \in ActionTypes

\* So then are all messages.
LEMMA SentAbout ==
    ASSUME NEW a, About(a)
    PROVE  \A m \in Sent : m.action.addr = a
<1> SUFFICES ASSUME NEW m \in Sent PROVE m.action.addr = a
    OBVIOUS
<1>1. PICK j \in DOMAIN actions' : m \in ToSet(MessagesOf(actions'[j]))
    BY DEF Sent
<1>2. PICK x : x = actions'[j]
    OBVIOUS
<1>3. x.type \in ActionTypes /\ x.addr = a
    BY <1>2 DEF About
<1>4. m.action = x
    BY <1>1, <1>2, <1>3, MessagesBear
<1> QED BY <1>3, <1>4

\* The actions of a request are about its line.
LEMMA RequestAbout ==
    ASSUME NEW txn, RecvRequest(txn)
    PROVE  About(txn.addr)
<1>1. \A target : FetchFromMemory(txn, target) => About(txn.addr)
    BY DEF FetchFromMemory, ReadNoSnp, About, ActionTypes
<1>2. \A target : ReadMiss(txn, target) => About(txn.addr)
    BY <1>1 DEF ReadMiss, Fault, About
<1>3. \A type \in SnoopTypes : \A retToSrc, target :
          SnoopOthers(txn, type, retToSrc, target) => About(txn.addr)
    <2> SUFFICES ASSUME NEW type \in SnoopTypes, NEW retToSrc, NEW target,
                        SnoopOthers(txn, type, retToSrc, target)
                 PROVE  About(txn.addr)
        OBVIOUS
    <2>1. PICK node, count :
              actions' = [k \in 1 .. count |->
                             Snoop(type, txn.addr, nextSnoopTxnId + k - 1, node[k],
                                   retToSrc)]
        BY DEF SnoopOthers
    <2> QED BY <2>1 DEF Snoop, About, ActionTypes
<1>4. \A c, state, data : Serve(c, CompData(txn, state, data)) => About(txn.addr)
    BY DEF Serve, CompData, About, ActionTypes
<1>5. \A c : Serve(c, Comp(txn)) => About(txn.addr)
    BY DEF Serve, Comp, About, ActionTypes
<1>6. \A id, data : actions' = <<WriteNoSnp(txn.addr, id, data), Comp(txn)>>
                        => About(txn.addr)
    BY DEF WriteNoSnp, Comp, About, ActionTypes
<1>7. HandleReadShared(txn) => About(txn.addr)
    BY <1>2, <1>3, <1>4 DEF HandleReadShared, SnoopTypes
<1>8. HandleReadUnique(txn) => About(txn.addr)
    BY <1>2, <1>3, <1>4 DEF HandleReadUnique, SnoopTypes
<1>9. HandleReadOnce(txn) => About(txn.addr)
    BY <1>2, <1>3, <1>4 DEF HandleReadOnce, SnoopTypes
<1>10. HandleCleanUnique(txn) => About(txn.addr)
    BY <1>2, <1>3, <1>5, <1>6 DEF HandleCleanUnique, SnoopTypes
<1>11. HandleWrite(txn) => About(txn.addr)
    BY DEF HandleWrite, AwaitL1Data, CompDBIDResp, About, ActionTypes
<1>12. HandleWriteNoSnp(txn) => About(txn.addr)
    BY DEF HandleWriteNoSnp, AwaitL1Data, About
<1> QED
    BY <1>1, <1>7, <1>8, <1>9, <1>10, <1>11, <1>12
       DEF RecvRequest, HandleReadNotSharedDirty, HandleUnmapped

\* A request preserves the invariant.
LEMMA RequestStep ==
    ASSUME SafeUse, CInv, NEW r \in Requests, Request(r)
    PROVE  CInv'
<1> DEFINE txn == TxnOf(r)
<1>1. /\ NewRequest(r) /\ r.type # "Evict" /\ RecvRequest(txn)
      /\ requests' = requests \cup {r} /\ net' = net \cup Sent
      /\ UNCHANGED <<world, rspIn, datIn>>
    BY DEF Request
<1>2. PICK M : M = Sent
    OBVIOUS
<1>3. txn.addr = r.addr /\ r.type \in {"ReadShared", "ReadNotSharedDirty", "ReadOnce",
                                       "ReadUnique", "CleanUnique", "WriteBackFull"}
    BY <1>1, RequestTypes DEF TxnOf
<1>4. txn.opcode = r.type
    BY <1>3 DEF TxnOf, Gem5ToOpcode
<1>5. \/ r.type = "ReadShared" /\ HandleReadShared(txn)
      \/ r.type \in UniqueReads /\ HandleReadUnique(txn)
      \/ r.type = "ReadOnce" /\ HandleReadOnce(txn)
      \/ r.type = "CleanUnique" /\ HandleCleanUnique(txn)
      \/ r.type = "WriteBackFull" /\ HandleWrite(txn)
    <2> HIDE DEF txn
    <2> QED BY <1>1, <1>3, <1>4
               DEF RecvRequest, WriteOps, UniqueReads, HandleReadNotSharedDirty
<1>6. Requested(r, M)
    <2>1. \A m \in M : m.action.addr = r.addr
        BY <1>1, <1>2, <1>3, RequestAbout, SentAbout
    <2> QED BY <1>1, <1>2, <2>1 DEF Requested
<1>7. ASSUME r.type = "WriteBackFull", HandleWrite(txn)
      PROVE  CInv'
    <2>1. M = {WriteAnswer(txn)}
        BY <1>2, <1>7, SentOne DEF HandleWrite, AwaitL1Data
    <2>2. /\ pending' = Put(pending, r.txnID, Waiting(txn, "WaitL1Data", "I", 0, 0))
          /\ UNCHANGED <<cache, snoopToOrig, memToOrig, snoopRespCounted, counters, fault>>
        BY <1>7 DEF HandleWrite, AwaitL1Data, TxnOf
    <2> QED BY <1>6, <1>7, <2>1, <2>2, RequestWrites
<1>8. M = Sent
    BY <1>2
<1> QED
    BY <1>5, <1>6, <1>7, <1>8, ReadSharedStep, ReadUniqueStep, ReadOnceStep,
       CleanUniqueStep

-----------------------------------------------------------------------------
(* An eviction *)

\* An eviction comes from the only one that has the line, and leaves it nowhere.
LEMMA EvictStep ==
    ASSUME SafeUse, CInv, NEW r \in Requests, Evict(r)
    PROVE  CInv'
<1> DEFINE a == r.addr
           n == r.srcNodeID
<1>1. /\ NewRequest(r) /\ InvalidateLine(a)
      /\ r.type = "Evict"
      /\ l1' = [l1 EXCEPT ![n][a] = NoLine]
      /\ UNCHANGED <<latest, requests, net, rspIn, datIn>>
    BY DEF Evict
<1>2. /\ a \in Addrs /\ n \in Nodes /\ <<n, a, r.type>> \in Workload
      /\ \A u, own, others : UsedBy(a, u, own, others) =>
            r.type \in IF n = u THEN own ELSE others
    BY RequestTypes
<1>3. /\ LineQuiet(a) /\ sent' = sent + 1 /\ sent < MaxRequests
      /\ l1[n][a].state \in {"SC", "UC"}
    BY <1>1 DEF NewRequest, SafeUse, SentIn
<1>4. Idle(a) /\ Copies(a) /\ Shape(a)
    BY <1>2, <1>3, QuietIdle
<1>5. EvictedBy(a, n)
    <2>1. ~SharedUse(a) /\ \A u \in Nodes : ~UpgradedBy(a, u)
        BY <1>1, <1>2 DEF SharedUse, UpgradedBy
    <2>2. \A u \in Nodes : EvictedBy(a, u) => u = n
        BY <1>1, <1>2 DEF EvictedBy
    <2> QED BY <1>2, <2>1, <2>2 DEF SafeUse
<1>6. latest[a] = 0 /\ GetSharers(cache, a) \subseteq {n}
    BY <1>2, <1>4, <1>5 DEF Copies, Shape, Shaped
<1>7. Present(cache, a)
    BY <1>2, <1>3, <1>4 DEF Copies, Holds, GetSharers
<1>8. /\ Stores(cache, Addrs)' /\ ~Present(cache, a)'
      /\ \A b \in Addrs \ {a} : SameLine(cache, cache', b)
    <2>1. cache' = Invalidate(cache, a) /\ Stores(cache, Addrs)
        BY <1>1 DEF InvalidateLine, CInv
    <2> HIDE DEF a
    <2> QED BY <1>2, <1>7, <2>1, SafeLines, InvalidateSees
<1>9. UNCHANGED <<tables, counters>> /\ fault' = "none"
    BY <1>1 DEF InvalidateLine, CInv
<1>10. /\ \A x \in Nodes, b \in Addrs : <<x, b>> # <<n, a>> => l1'[x][b] = l1[x][b]
       /\ l1'[n][a] = NoLine
       /\ l1' \in [Nodes -> [Addrs -> [state : L1State, data : Data]]]
    <2>1. l1 \in [Nodes -> [Addrs -> [state : L1State, data : Data]]]
        BY DEF CInv, TypeOK
    <2>2. NoLine \in [state : L1State, data : Data]
        BY VersionsAssumption, DataAssumption DEF NoLine, L1Line, L1State
    <2> QED BY <1>1, <1>2, <2>1, <2>2
<1>11. TypeOK'
    BY <1>1, <1>8, <1>9, <1>10, TypesKept DEF CInv, TypeOK
<1>12. IdsInv'
    <2>1. /\ sent \in Nat /\ sent * Cardinality(Nodes) \in Nat
          /\ Cardinality(Nodes) \in Nat
        BY IdRanges DEF CInv, IdsInv
    <2>2. \A x, y \in Nat : (x + 1) * y = x * y + y
        OBVIOUS
    <2>3. /\ sent' \in Nat /\ sent <= sent' /\ sent' <= MaxRequests
          /\ sent' * Cardinality(Nodes)
               = sent * Cardinality(Nodes) + Cardinality(Nodes)
        BY <1>3, <2>1, <2>2, MaxRequestsAssumption
    <2>4. /\ sent * Cardinality(Nodes) <= sent' * Cardinality(Nodes)
          /\ sent' * Cardinality(Nodes) \in Nat
        BY <2>1, <2>3
    <2> QED BY <1>1, <1>9, <2>3, <2>4, IdsKept
<1>13. MessagesInv'
    BY <1>1 DEF CInv, MessagesInv
<1>14. \A b : /\ ReqsOf(b)' = ReqsOf(b) /\ NetOf(b)' = NetOf(b)
              /\ DataOf(b)' = DataOf(b) /\ EntriesOf(b)' = EntriesOf(b)
    BY <1>1, <1>9 DEF ReqsOf, NetOf, DataOf, EntriesOf, tables
<1>15. \A b \in Addrs \ {a} : Untouched(b)
    <2> TAKE b \in Addrs \ {a}
    <2>1. \A x \in Nodes : l1'[x][b] = l1[x][b]
        BY <1>10
    <2> QED BY <1>1, <1>8, <1>9, <1>14, <2>1, UntouchedByServe
<1>16. \A x \in Nodes : ~Holds(x, a)' /\ ~Writer(x, a)'
    <2> TAKE x \in Nodes
    <2>1. x # n => ~Holds(x, a)
        BY <1>4, <1>6 DEF Copies
    <2>2. l1'[x][a].state = "I"
        BY <1>2, <1>10, <2>1 DEF NoLine, L1Line, Holds
    <2> QED BY <2>2 DEF Holds, Writer
<1>17. LineInv(a)'
    <2>1. Copies(a)'
        BY <1>1, <1>6, <1>16 DEF Copies, NoWriter
    <2>2. DataCurrent(a)' /\ Idle(a)'
        BY <1>4, <1>14 DEF DataCurrent, Idle
    <2>3. L2Current(a)'
        BY <1>1, <1>6, <1>8 DEF L2Current
    <2>4. Shape(a)'
        BY <1>8, <1>16 DEF Shape, Shaped, GetState, GetSharers
    <2> QED BY <2>1, <2>2, <2>3, <2>4 DEF LineInv, Unsnooped
<1> QED
    BY <1>2, <1>8, <1>9, <1>11, <1>12, <1>13, <1>15, <1>17, OneLineStep

-----------------------------------------------------------------------------
(* Answers to the engine *)

\* The line of the entry that a snoop id belongs to is being snooped.
LEMMA SnoopPhase ==
    ASSUME CInv, NEW s \in DOMAIN snoopToOrig
    PROVE  \E a \in Addrs, r \in requests :
              Snooping(a, r) /\ snoopToOrig[s] = r.txnID /\ s \in SnoopIdsOf(r.txnID)
<1> DEFINE k == snoopToOrig[s]
           a == pending[k].origReq.addr
<1>1. k \in DOMAIN pending /\ pending[k].state = "WaitSnoopResp"
    BY DEF CInv, IdsInv
<1>2. a \in Addrs /\ k \in EntriesOf(a)
    BY <1>1 DEF CInv, IdsInv, EntriesOf
<1>3. LineInv(a)
    BY <1>2 DEF CInv
<1> HIDE DEF a, k
<1>4. ~Idle(a) /\ \A q \in requests, m \in net : ~Answering(a, q, m)
    BY <1>2 DEF Idle, Answering
<1>5. \A q \in requests, j \in DOMAIN pending : ~Fetching(a, q, j)
    <2> SUFFICES ASSUME NEW q \in requests, NEW j \in DOMAIN pending, Fetching(a, q, j)
                 PROVE  FALSE
        OBVIOUS
    <2>1. j = k /\ pending[j].state = "WaitMemData"
        BY <1>2 DEF Fetching, Waiting
    <2> QED BY <1>1, <2>1
<1>6. \A j \in DOMAIN pending : ~AwaitingWrite(a, j)
    <2> SUFFICES ASSUME NEW j \in DOMAIN pending, AwaitingWrite(a, j)
                 PROVE  FALSE
        OBVIOUS
    <2>1. j = k /\ pending[j].state = "WaitL1Data"
        BY <1>2 DEF AwaitingWrite
    <2> QED BY <1>1, <2>1
<1>7. PICK r \in requests : Snooping(a, r)
    BY <1>3, <1>4, <1>5, <1>6 DEF LineInv, Unsnooped
<1>8. k = r.txnID
    BY <1>2, <1>7 DEF Snooping
<1>9. s \in SnoopIdsOf(r.txnID) /\ snoopToOrig[s] = r.txnID
    BY <1>8 DEF SnoopIdsOf, k
<1> QED BY <1>2, <1>7, <1>9

\* The answer to a read for which the engine had to ask others.
CompDataMessage(r, data) ==
    Message("dat", CompDataType(Target(r.type)), 1, CompData(TxnOf(r), Target(r.type), data))

\* The line when all who were asked have answered: only the requester has it.
LEMMA LineCompleted ==
    ASSUME NEW r \in Requests, r.type \in Reads,
           r \in requests', ReqsOf(r.addr)' = {r}, EntriesOf(r.addr)' = {},
           NetOf(r.addr)' = {CompDataMessage(r, latest[r.addr])},
           DataOf(r.addr)' = {}, l1' = l1, latest' = latest,
           l1[r.srcNodeID][r.addr].state \in SentIn[r.type],
           Copies(r.addr),
           \A x \in Nodes \ {r.srcNodeID} : ~Holds(x, r.addr),
           Becomes(cache, cache', Addrs, r.addr, Target(r.type),
                   IF r.type = "ReadOnce" THEN {} ELSE {r.srcNodeID}, latest[r.addr])
    PROVE  LineInv(r.addr)'
<1> DEFINE a == r.addr
           n == r.srcNodeID
           t == Target(r.type)
           s == IF r.type = "ReadOnce" THEN {} ELSE {n}
<1>1. /\ a \in Addrs /\ n \in Nodes
      /\ \A u, own, others : UsedBy(a, u, own, others) =>
            r.type \in IF n = u THEN own ELSE others
    BY RequestTypes
<1>2. /\ Present(cache, a)' /\ GetState(cache, a)' = t
      /\ GetSharers(cache, a)' = s /\ GetData(cache, a)' = latest[a]
    BY DEF Becomes
<1>3. PICK m : m = CompDataMessage(r, latest[a])
    OBVIOUS
<1>4. /\ m.channel # "snp" /\ m.action.txnId = r.txnID /\ m.action.destNode = n
      /\ m.action.data = latest[a] /\ m.type = CompDataType(t)
    BY <1>3 DEF CompDataMessage, Message, CompData, TxnOf
<1>5. l1[n][a].state \in {"I", "SC"} /\ (r.type = "ReadOnce" => ~Holds(n, a))
    BY DEF SentIn, Reads, UniqueReads, Holds
<1>6. \A x \in Nodes : ~Writer(x, a) /\ (Holds(x, a) => x \in s)
    BY <1>5 DEF Writer, Holds
<1>7. /\ NoWriter(a)'
      /\ Copies(a)'
    <2>1. \A x \in Nodes : ~Writer(x, a)' /\ (Holds(x, a)' <=> Holds(x, a))
        BY <1>6 DEF Writer, Holds
    <2> QED BY <1>2, <1>6, <2>1 DEF Copies, NoWriter
<1>8. Shaped(a, t, s)
    <2>1. ASSUME NEW u \in Nodes, UpgradedBy(a, u)
          PROVE  IF n = u THEN t = "SC" /\ s = {u} ELSE t = "UD" /\ s = {n}
        <3>1. r.type \in IF n = u THEN {"ReadShared", "CleanUnique"}
                         ELSE {"ReadUnique", "ReadNotSharedDirty", "WriteBackFull"}
            BY <1>1, <2>1 DEF UpgradedBy
        <3> QED BY <3>1 DEF Target, UniqueReads, Reads
    <2>2. ASSUME NEW u \in Nodes, EvictedBy(a, u)
          PROVE  t = "SC" /\ s \subseteq {u}
        <3>1. r.type \in IF n = u THEN {"ReadShared", "ReadOnce", "Evict"} ELSE {"ReadOnce"}
            BY <1>1, <2>2 DEF EvictedBy
        <3> QED BY <3>1 DEF Target, UniqueReads, Reads
    <2> HIDE DEF t, s, n
    <2>3. ASSUME NEW u \in Nodes, UpgradedBy(a, u)
          PROVE  /\ t # "SD"
                 /\ t \in {"SC", "UC"} => s = {u}
                 /\ t = "UD" => \E o \in Nodes \ {u} : s = {o}
        <3>1. CASE n = u
            BY <2>1, <2>3, <3>1
        <3>2. CASE n # u
            BY <1>1, <2>1, <2>3, <3>2
        <3> QED BY <3>1, <3>2
    <2> QED BY <2>2, <2>3 DEF Shaped
<1>9. Shape(a)'
    BY <1>2, <1>7, <1>8 DEF Shape, Shaped, NoWriter
<1>10. Grants(r, m, t, s)
    <2>1. CASE r.type = "ReadShared"
        BY <1>4, <2>1 DEF Grants, Target, UniqueReads, CompDataType
    <2>2. CASE r.type \in UniqueReads
        BY <1>4, <2>2 DEF Grants, Target, UniqueReads, CompDataType
    <2>3. CASE r.type = "ReadOnce"
        <3>1. m.type = "CompData_SC"
            BY <1>4, <2>3 DEF Target, UniqueReads, CompDataType
        <3> QED BY <1>4, <2>3, <3>1 DEF Grants, GrantedState
    <2> QED BY <2>1, <2>2, <2>3 DEF Reads
<1>11. Granted(a, r, m)'
    <2>1. m.action.data = latest'[a]
        BY <1>4
    <2> HIDE DEF a, n, t, s
    <2>2. Grants(r, m, GetState(cache, a)', GetSharers(cache, a)')
        BY <1>2, <1>10
    <2> QED BY <2>1, <2>2 DEF Granted
<1>12. (GetData(cache, a) = latest[a])'
    BY <1>2
<1>13. NetOf(a)' = {m}
    BY <1>3
<1> HIDE DEF n, t, s
<1> QED BY <1>2, <1>7, <1>9, <1>11, <1>12, <1>13, AnswerOnItsWay

\* The engine is given the answer to the snoop id, made for r.
TakesAnswer(a, r, id) ==
    /\ a \in Addrs /\ r \in requests /\ Snooping(a, r)
    /\ id \in SnoopIdsOf(r.txnID)
    /\ UNCHANGED <<requests, l1, latest, sent>>
    /\ \/ id \in rspIn /\ rspIn' = rspIn \ {id} /\ datIn' = datIn
       \/ \E d \in DataOf(a) :
             d.txnId = id /\ rspIn' = rspIn /\ datIn' = datIn \ {d}

\* One snoop is over, and the others are not.
LEMMA AnswerTaken ==
    ASSUME CInv, NEW a, NEW r, NEW id, TakesAnswer(a, r, id)
    PROVE  LET k == r.txnID
               before == OpenSnoops(a, k)
               after == {m.action.txnId : m \in NetOf(a)} \cup
                           {d.txnId : d \in DataOf(a)'} \cup (rspIn' \cap SnoopIdsOf(k))
           IN /\ k \in DOMAIN pending /\ pending[k].origReq = TxnOf(r)
              /\ pending[k].state = "WaitSnoopResp"
              /\ pending[k].targetState = Target(r.type)
              /\ pending[k].pendingSnoopCount = Cardinality(before)
              /\ EntriesOf(a) = {k}
              /\ after = before \ {id}
              /\ id \in before /\ id \notin snoopRespCounted
              /\ before \subseteq SnoopIdsOf(k)
              /\ IsFiniteSet(before)
              /\ Cardinality(after) = Cardinality(before) - 1
              /\ Cardinality(before) \in Nat
              /\ DataOf(a)' \subseteq DataOf(a) /\ rspIn' \subseteq rspIn
              /\ \A b : b # a => DataOf(b)' = DataOf(b)
              /\ \A s : s # id => (s \in rspIn' <=> s \in rspIn)
<1> DEFINE k == r.txnID
           before == OpenSnoops(a, k)
           after == {m.action.txnId : m \in NetOf(a)} \cup
                       {d.txnId : d \in DataOf(a)'} \cup (rspIn' \cap SnoopIdsOf(k))
<1>1. Snooping(a, r) /\ id \in SnoopIdsOf(k)
    BY DEF TakesAnswer
<1>2. EntriesOf(a) = {k} /\ k \in DOMAIN pending
    BY <1>1 DEF Snooping, EntriesOf
<1>3. before \subseteq SnoopIdsOf(k)
    BY <1>1 DEF OpenSnoops, Snooping, SnoopInFlight
<1>4. IsFiniteSet(before)
    <2>1. SnoopIdsOf(k) \subseteq SnoopIdBase .. nextSnoopTxnId
        BY IdsAssumption DEF SnoopIdsOf, CInv, IdsInv, TypeOK, EngineTypeOK
    <2>2. IsFiniteSet(SnoopIdBase .. nextSnoopTxnId)
        BY FS_Interval, IdsAssumption DEF CInv, TypeOK, EngineTypeOK
    <2> QED BY <1>3, <2>1, <2>2, FS_Subset
<1>5. /\ id \in before /\ after = before \ {id}
      /\ DataOf(a)' \subseteq DataOf(a) /\ rspIn' \subseteq rspIn
      /\ \A b : b # a => DataOf(b)' = DataOf(b)
      /\ \A s : s # id => (s \in rspIn' <=> s \in rspIn)
    <2>1. CASE id \in rspIn /\ rspIn' = rspIn \ {id} /\ datIn' = datIn
        <3>1. id \in before
            BY <1>1, <2>1 DEF OpenSnoops
        <3>2. DataOf(a)' = DataOf(a) /\ \A b : DataOf(b)' = DataOf(b)
            BY <2>1 DEF DataOf
        <3>3. /\ \A m \in NetOf(a) : m.action.txnId # id
              /\ \A d \in DataOf(a) : d.txnId # id
            BY <1>1, <2>1 DEF Snooping, SnoopInFlight
        <3>4. after = before \ {id}
            BY <2>1, <3>2, <3>3 DEF OpenSnoops
        <3> QED BY <2>1, <3>1, <3>2, <3>4
    <2>2. ASSUME NEW d \in DataOf(a), d.txnId = id, rspIn' = rspIn, datIn' = datIn \ {d}
          PROVE  /\ id \in before /\ after = before \ {id}
                 /\ DataOf(a)' \subseteq DataOf(a)
                 /\ \A b : b # a => DataOf(b)' = DataOf(b)
        <3>1. id \in before
            BY <2>2 DEF OpenSnoops
        <3>2. DataOf(a)' = DataOf(a) \ {d} /\ \A b : b # a => DataOf(b)' = DataOf(b)
            BY <2>2 DEF DataOf
        <3>3. /\ \A m \in NetOf(a) : m.action.txnId # id
              /\ \A e \in DataOf(a) : e.txnId = id => e = d
              /\ id \notin rspIn
            BY <1>1, <2>2 DEF Snooping, SnoopInFlight
        <3>4. after = before \ {id}
            <4>1. {e.txnId : e \in DataOf(a)'} = {e.txnId : e \in DataOf(a)} \ {id}
                BY <2>2, <3>2, <3>3
            <4>2. {m.action.txnId : m \in NetOf(a)} = {m.action.txnId : m \in NetOf(a)} \ {id}
                BY <3>3
            <4> QED BY <2>2, <3>3, <4>1, <4>2 DEF OpenSnoops
        <3> QED BY <3>1, <3>2, <3>4
    <2> QED BY <2>1, <2>2 DEF TakesAnswer
<1>6. id \notin snoopRespCounted
    BY <1>1, <1>5 DEF Snooping
<1>7. /\ Cardinality(after) = Cardinality(before) - 1
      /\ Cardinality(before) \in Nat
    <2> HIDE DEF before, after
    <2> QED BY <1>4, <1>5, FS_CardinalityType, FS_RemoveElement
<1> HIDE DEF before, after
<1>8. /\ pending[k].origReq = TxnOf(r) /\ pending[k].state = "WaitSnoopResp"
      /\ pending[k].targetState = Target(r.type)
      /\ pending[k].pendingSnoopCount = Cardinality(before)
    BY <1>1 DEF Snooping, before
<1> QED BY <1>2, <1>3, <1>4, <1>5, <1>6, <1>7, <1>8 DEF before, after

\* Others have yet to answer.
LEMMA AnswerKept ==
    ASSUME SafeUse, CInv, NEW a, NEW r, NEW id, TakesAnswer(a, r, id),
           net' = net,
           NEW pt \in PendingTxn,
           pt.origReq = pending[r.txnID].origReq, pt.state = pending[r.txnID].state,
           pt.targetState = pending[r.txnID].targetState,
           pt.pendingSnoopCount = pending[r.txnID].pendingSnoopCount - 1,
           pending' = [pending EXCEPT ![r.txnID] = pt],
           UNCHANGED <<snoopToOrig, memToOrig, counters, fault>>,
           snoopRespCounted' \in {snoopRespCounted, snoopRespCounted \cup {id}},
           NEW state, NEW data,
           Becomes(cache, cache', Addrs, a, state, GetSharers(cache, a), data),
           data = latest[a] \/ (data = GetData(cache, a) /\ datIn' = datIn)
    PROVE  CInv'
<1> DEFINE k == r.txnID
           before == OpenSnoops(a, k)
           after == {m.action.txnId : m \in NetOf(a)} \cup
                       {d.txnId : d \in DataOf(a)'} \cup (rspIn' \cap SnoopIdsOf(k))
<1>1. /\ a \in Addrs /\ r \in requests /\ Snooping(a, r)
      /\ id \in SnoopIdsOf(k)
      /\ UNCHANGED <<requests, l1, latest, sent>>
    BY DEF TakesAnswer
<1>2. /\ k \in DOMAIN pending
      /\ pending[k].pendingSnoopCount = Cardinality(before)
      /\ EntriesOf(a) = {k}
      /\ after = before \ {id}
      /\ before \subseteq SnoopIdsOf(k)
      /\ Cardinality(after) = Cardinality(before) - 1
      /\ DataOf(a)' \subseteq DataOf(a) /\ rspIn' \subseteq rspIn
      /\ \A b : b # a => DataOf(b)' = DataOf(b)
      /\ \A s : s # id => (s \in rspIn' <=> s \in rspIn)
    BY AnswerTaken
<1>3. /\ DOMAIN pending' = DOMAIN pending
      /\ pending'[k] = pt
      /\ \A j \in DOMAIN pending : j # k => pending'[j] = pending[j]
      /\ \A j \in DOMAIN pending : /\ pending'[j].origReq = pending[j].origReq
                                   /\ pending'[j].state = pending[j].state
    BY <1>2
<1>4. \A b : /\ ReqsOf(b)' = ReqsOf(b) /\ NetOf(b)' = NetOf(b)
             /\ EntriesOf(b)' = EntriesOf(b)
    BY <1>1, <1>3 DEF ReqsOf, NetOf, EntriesOf
<1>5. \A j : SnoopIdsOf(j)' = SnoopIdsOf(j)
    BY DEF SnoopIdsOf
<1>6. /\ Stores(cache, Addrs)' /\ Present(cache, a)'
      /\ GetSharers(cache, a)' = GetSharers(cache, a) /\ GetData(cache, a)' = data
      /\ \A b \in Addrs \ {a} : SameLine(cache, cache', b)
    BY DEF Becomes
<1>7. id \in DOMAIN snoopToOrig /\ snoopToOrig[id] = k /\ id \in Nat
    BY <1>1 DEF SnoopIdsOf, CInv, TypeOK, EngineTypeOK
<1>8. TypeOK'
    <2>1. cache' \in Caches /\ fault' = "none"
        BY <1>6 DEF Stores, CInv
    <2>2. EngineTypeOK'
        BY <1>3, <1>7, <2>1 DEF CInv, TypeOK, EngineTypeOK, counters
    <2> QED BY <1>1, <2>2 DEF CInv, TypeOK
<1>9. IdsInv'
    BY <1>1, <1>2, <1>3, <1>7 DEF CInv, IdsInv, counters
<1>10. MessagesInv'
    BY <1>1 DEF CInv, MessagesInv, TakesAnswer
<1>11. ASSUME NEW b \in Addrs \ {a} PROVE Untouched(b)
    <2>1. \A j \in EntriesOf(b) : j \in DOMAIN pending /\ j # k /\ pending'[j] = pending[j]
        BY <1>2, <1>3 DEF EntriesOf
    <2>2. \A j \in EntriesOf(b) : id \notin SnoopIdsOf(j)
        BY <1>7, <2>1 DEF SnoopIdsOf
    <2> QED BY <1>1, <1>2, <1>4, <1>5, <1>6, <2>1, <2>2 DEF Untouched
<1>12. LineInv(a)'
    <2>1. Copies(a) /\ DataCurrent(a) /\ L2Current(a)
        BY <1>1 DEF CInv, LineInv
    <2>2. \A x \in Nodes : (Writer(x, a)' <=> Writer(x, a)) /\ (Holds(x, a)' <=> Holds(x, a))
        BY <1>1 DEF Writer, Holds
    <2>3. Copies(a)'
        BY <1>1, <1>6, <2>1, <2>2 DEF Copies, NoWriter
    <2>4. DataCurrent(a)'
        BY <1>1, <1>2, <2>1, <2>2 DEF DataCurrent, NoWriter
    <2>5. L2Current(a)'
        <3>1. CASE data = latest[a]
            BY <1>1, <1>6, <3>1 DEF L2Current
        <3>2. CASE data = GetData(cache, a) /\ datIn' = datIn
            <4>1. DataOf(a)' = DataOf(a) /\ Present(cache, a)
                BY <1>1, <3>2 DEF DataOf, Snooping
            <4> QED BY <1>1, <1>6, <2>1, <3>2, <4>1 DEF L2Current
        <3> QED BY <3>1, <3>2
    <2>6. OpenSnoops(a, k)' = after
        BY <1>4, <1>5 DEF OpenSnoops
    <2>7. pending'[k].pendingSnoopCount = Cardinality(after)
        BY <1>2, <1>3
    <2>8. after \cap snoopRespCounted' = {}
        BY <1>1, <1>2 DEF Snooping
    <2>9. \A m \in NetOf(a) : SnoopInFlight(a, r, m)'
        BY <1>1, <1>2, <1>4, <1>5 DEF Snooping, SnoopInFlight
    <2>10. \A d \in DataOf(a)' :
              /\ d.txnId \in SnoopIdsOf(k) /\ d.txnId \notin rspIn'
              /\ \A e \in DataOf(a)' : e.txnId = d.txnId => e = d
        BY <1>1, <1>2 DEF Snooping
    <2> HIDE DEF after, before
    <2>11. Snooping(a, r)'
        BY <1>1, <1>3, <1>4, <1>5, <1>6, <2>2, <2>6, <2>7, <2>8, <2>9, <2>10 DEF Snooping
    <2> QED BY <1>1, <2>3, <2>4, <2>5, <2>11 DEF LineInv
<1>13. fault' = "none"
    BY DEF CInv
<1> HIDE DEF k, before, after
<1> QED BY <1>1, <1>6, <1>8, <1>9, <1>10, <1>11, <1>12, <1>13, OneLineStep

\* Nobody has: the requester is answered.
LEMMA AnswerCompletes ==
    ASSUME SafeUse, CInv, NEW a, NEW r, NEW id, TakesAnswer(a, r, id),
           net' = net \cup Sent,
           pending[r.txnID].pendingSnoopCount - 1 <= 0,
           NEW c, CompletePending(r.txnID, c),
           NEW state, Becomes(cache, c, Addrs, a, state, GetSharers(cache, a), latest[a])
               \/ (c = cache /\ datIn' = datIn)
    PROVE  CInv'
<1> DEFINE k == r.txnID
           n == r.srcNodeID
           before == OpenSnoops(a, k)
           after == {m.action.txnId : m \in NetOf(a)} \cup
                       {d.txnId : d \in DataOf(a)'} \cup (rspIn' \cap SnoopIdsOf(k))
<1>1. /\ a \in Addrs /\ r \in requests /\ Snooping(a, r)
      /\ id \in SnoopIdsOf(k)
      /\ UNCHANGED <<requests, l1, latest, sent>>
    BY DEF TakesAnswer
<1>2. /\ k \in DOMAIN pending /\ pending[k].origReq = TxnOf(r)
      /\ pending[k].targetState = Target(r.type)
      /\ pending[k].pendingSnoopCount = Cardinality(before)
      /\ EntriesOf(a) = {k}
      /\ after = before \ {id}
      /\ id \in before /\ IsFiniteSet(before)
      /\ Cardinality(after) = Cardinality(before) - 1
      /\ Cardinality(before) \in Nat
      /\ rspIn' \subseteq rspIn
      /\ \A b : b # a => DataOf(b)' = DataOf(b)
      /\ \A s : s # id => (s \in rspIn' <=> s \in rspIn)
    BY AnswerTaken
<1>3. after = {}
    <2>1. IsFiniteSet(after)
        BY <1>2, FS_Subset
    <2>2. Cardinality(after) \in Nat /\ Cardinality(after) <= 0
        BY <1>2, <2>1, FS_CardinalityType
    <2> HIDE DEF after
    <2> QED BY <2>1, <2>2, FS_EmptySet
<1>4. /\ NetOf(a) = {} /\ DataOf(a)' = {} /\ rspIn' \cap SnoopIdsOf(k) = {}
    BY <1>3
<1>5. /\ r \in Requests /\ r.addr = a /\ n \in Nodes /\ k \in L1TxnIds
      /\ TxnOf(r).addr = a /\ TxnOf(r).srcNodeID = n /\ r.type \in Reads
      /\ l1[n][a].state \in SentIn[r.type]
      /\ \A x \in Nodes \ {n} : ~Holds(x, a)
    <2>1. r \in Requests /\ r.addr = a
        BY <1>1 DEF CInv, TypeOK, Snooping, ReqsOf
    <2> QED BY <1>1, <1>4, <2>1, RequestTypes DEF Snooping, TxnOf
<1>6. Copies(a) /\ DataCurrent(a) /\ L2Current(a) /\ Present(cache, a)
    BY <1>1 DEF CInv, LineInv, Snooping
<1>7. PICK q : Becomes(cache, c, Addrs, a, q, GetSharers(cache, a), latest[a])
    <2>1. CASE c = cache /\ datIn' = datIn
        <3>1. DataOf(a) = {}
            BY <1>4, <2>1 DEF DataOf
        <3>2. \A x \in Nodes : l1[x][a].state # "UD"
            BY <1>5 DEF Holds, SentIn, Reads, UniqueReads
        <3>3. GetData(cache, a) = latest[a]
            BY <1>6, <3>1, <3>2 DEF L2Current
        <3>4. Becomes(cache, c, Addrs, a, GetState(cache, a), GetSharers(cache, a), latest[a])
            BY <1>6, <2>1, <3>3 DEF Becomes, SameLine, CInv
        <3> QED BY <3>4
    <2> QED BY <2>1
<1> DEFINE t == Target(r.type)
           s == IF r.type = "ReadOnce" THEN {} ELSE {n}
<1>8. Becomes(cache, cache', Addrs, a, t, s, latest[a])
    <2>1. t \in LineState \ {"I"}
        BY DEF Target, LineState
    <2>2. TxnOf(r).opcode = r.type
        BY <1>5 DEF TxnOf, Gem5ToOpcode, Reads, UniqueReads
    <2> DEFINE c1 == ClearSharers(c, a)
               c2 == SetState(c1, a, t)
    <2>3. cache' = IF r.type = "ReadOnce" THEN c2 ELSE AddSharer(c2, a, n)
        BY <1>2, <1>5, <2>2 DEF CompletePending
    <2> HIDE DEF t
    <2>4. Becomes(c, c1, Addrs, a, q, {}, latest[a])
        BY <1>1, <1>7, SafeLines, UpdatesSee DEF Becomes
    <2> HIDE DEF c1
    <2>5. Becomes(c1, c2, Addrs, a, t, {}, latest[a])
        BY <1>1, <2>1, <2>4, SafeLines, UpdatesSee DEF Becomes
    <2> HIDE DEF c2
    <2>6. Becomes(cache, c2, Addrs, a, t, {}, latest[a])
        BY <1>7, <2>4, <2>5, BecomesTwice
    <2>7. Becomes(c2, AddSharer(c2, a, n), Addrs, a, t, {} \cup {n}, latest[a])
        BY <1>1, <1>5, <2>5, SafeLines, UpdatesSee DEF Becomes
    <2>8. Becomes(c2, AddSharer(c2, a, n), Addrs, a, t, {n}, latest[a])
        BY <2>7
    <2>9. Becomes(cache, AddSharer(c2, a, n), Addrs, a, t, {n}, latest[a])
        BY <2>6, <2>8, BecomesTwice
    <2> QED BY <2>3, <2>6, <2>9
<1>9. /\ Stores(cache, Addrs)'
      /\ \A b \in Addrs \ {a} : SameLine(cache, cache', b)
    BY <1>8 DEF Becomes
<1>10. /\ pending' = Erase(pending, {k})
       /\ snoopToOrig' = Erase(snoopToOrig, SnoopIdsOf(k))
       /\ snoopRespCounted' = snoopRespCounted \ SnoopIdsOf(k)
       /\ UNCHANGED <<memToOrig, counters, fault>>
       /\ actions' = <<CompData(TxnOf(r), t, latest[a])>>
    <2>1. TxnOf(r).opcode = r.type /\ r.type # "CleanUnique"
        BY <1>5 DEF TxnOf, Gem5ToOpcode, Reads, UniqueReads
    <2>2. GetData(c, a) = latest[a]
        BY <1>7 DEF Becomes
    <2> QED BY <1>2, <1>5, <2>1, <2>2 DEF CompletePending
<1>11. Sent = {CompDataMessage(r, latest[a])}
    <2>1. PICK txn, data, target : txn = TxnOf(r) /\ data = latest[a] /\ target = t
        OBVIOUS
    <2>2. actions' = <<CompData(txn, target, data)>>
        BY <1>10, <2>1
    <2>3. Sent = {Message("dat", CompDataType(target), 1, CompData(txn, target, data))}
        BY <2>2, SentOne
    <2> QED BY <2>1, <2>3 DEF CompDataMessage
<1>12. /\ DOMAIN pending' = DOMAIN pending \ {k}
       /\ \A j \in DOMAIN pending' : pending'[j] = pending[j]
       /\ EntriesOf(a)' = {}
       /\ \A b : b # a =>
             /\ EntriesOf(b)' = EntriesOf(b)
             /\ k \notin EntriesOf(b)
             /\ \A j \in EntriesOf(b) : pending'[j] = pending[j]
    BY <1>2, <1>10, EraseEntry
<1>13. /\ DOMAIN snoopToOrig' = DOMAIN snoopToOrig \ SnoopIdsOf(k)
       /\ \A x \in DOMAIN snoopToOrig' : snoopToOrig'[x] = snoopToOrig[x] /\ snoopToOrig[x] # k
       /\ \A j : j # k => SnoopIdsOf(j)' = SnoopIdsOf(j) /\ SnoopIdsOf(j) \cap SnoopIdsOf(k) = {}
    BY <1>10 DEF Erase, SnoopIdsOf
<1>14. \A m \in Sent : m.action.addr = a
    BY <1>5, <1>11 DEF CompDataMessage, Message, CompData
<1>15. /\ \A b : ReqsOf(b)' = ReqsOf(b)
       /\ \A b : b # a => NetOf(b)' = NetOf(b)
       /\ NetOf(a)' = Sent
    <2>1. PICK M : M = Sent
        OBVIOUS
    <2>2. net' = net \cup M /\ \A m \in M : m.action.addr = a
        BY <1>14, <2>1
    <2> QED BY <1>1, <1>4, <2>1, <2>2 DEF ReqsOf, NetOf
<1>16. TypeOK'
    <2>1. cache' \in Caches /\ fault' = "none"
        BY <1>9, <1>10 DEF Stores, CInv
    <2>2. EngineTypeOK'
        BY <1>10, <1>12, <1>13, <2>1 DEF CInv, TypeOK, EngineTypeOK, counters
    <2> QED BY <1>1, <2>2 DEF CInv, TypeOK
<1>17. IdsInv'
    <2>1. rspIn' \subseteq DOMAIN snoopToOrig'
        BY <1>2, <1>4, <1>13 DEF CInv, IdsInv
    <2>2. snoopRespCounted' \subseteq DOMAIN snoopToOrig'
        BY <1>10, <1>13 DEF CInv, IdsInv
    <2>3. \A x \in DOMAIN snoopToOrig' :
              /\ SnoopIdBase <= x /\ x < nextSnoopTxnId'
              /\ snoopToOrig'[x] \in DOMAIN pending'
              /\ pending'[snoopToOrig'[x]].state = "WaitSnoopResp"
        <3> TAKE x \in DOMAIN snoopToOrig'
        <3>1. /\ x \in DOMAIN snoopToOrig
              /\ snoopToOrig'[x] = snoopToOrig[x] /\ snoopToOrig[x] # k
            BY <1>13
        <3>2. /\ SnoopIdBase <= x /\ x < nextSnoopTxnId
              /\ snoopToOrig[x] \in DOMAIN pending
              /\ pending[snoopToOrig[x]].state = "WaitSnoopResp"
            BY <3>1 DEF CInv, IdsInv
        <3>3. snoopToOrig[x] \in DOMAIN pending'
            BY <1>12, <3>1, <3>2
        <3>4. pending'[snoopToOrig[x]] = pending[snoopToOrig[x]]
            BY <1>12, <3>3
        <3> QED BY <1>10, <3>1, <3>2, <3>3, <3>4 DEF counters
    <2>4. \A j \in DOMAIN pending' :
              /\ pending'[j].origReq.addr \in Addrs
              /\ IF pending'[j].state = "WaitMemData"
                 THEN MemIdBase <= j /\ j < nextInternalTxnId'
                 ELSE j = pending'[j].origReq.txnID
        BY <1>10, <1>12 DEF CInv, IdsInv, counters
    <2>5. /\ SnoopIdBase <= nextSnoopTxnId' /\ MemIdBase <= nextInternalTxnId'
          /\ sent' \in Nat /\ sent' <= MaxRequests
          /\ nextSnoopTxnId' <= SnoopIdBase + sent' * Cardinality(Nodes)
        BY <1>1, <1>10 DEF CInv, IdsInv, counters
    <2> QED BY <2>1, <2>2, <2>3, <2>4, <2>5 DEF IdsInv
<1>18. MessagesInv'
    BY <1>1, <1>14 DEF CInv, MessagesInv, TakesAnswer
<1>19. ASSUME NEW b \in Addrs \ {a} PROVE Untouched(b)
    <2>1. \A j \in EntriesOf(b) : j # k
        BY <1>12
    <2> QED BY <1>1, <1>2, <1>9, <1>10, <1>12, <1>13, <1>15, <2>1 DEF Untouched
<1>20. LineInv(a)'
    <2>1. r \in requests' /\ ReqsOf(a)' = {r}
        BY <1>1, <1>15 DEF Snooping
    <2>2. NetOf(a)' = {CompDataMessage(r, latest[a])}
        BY <1>11, <1>15
    <2> HIDE DEF k, before, after
    <2> QED
        BY <1>1, <1>4, <1>5, <1>6, <1>8, <1>12, <2>1, <2>2, LineCompleted
<1>21. fault' = "none"
    BY <1>10 DEF CInv
<1> HIDE DEF k, n, t, s, before, after
<1> QED BY <1>1, <1>9, <1>16, <1>17, <1>18, <1>19, <1>20, <1>21, OneLineStep

\* The entry of a snooped line when a response, and perhaps data, is counted.
LEMMA CountedEntry ==
    ASSUME CInv, NEW k \in DOMAIN pending, NEW pt,
           pt = [pending[k] EXCEPT !.pendingSnoopCount = @ - 1]
           \/ pt = [pending[k] EXCEPT !.pendingSnoopDataCount = @ - 1,
                                      !.pendingSnoopCount = @ - 1]
    PROVE  /\ pt \in PendingTxn
           /\ pt.origReq = pending[k].origReq /\ pt.state = pending[k].state
           /\ pt.targetState = pending[k].targetState
           /\ pt.pendingSnoopCount = pending[k].pendingSnoopCount - 1
<1>1. pending[k] \in PendingTxn
    BY DEF CInv, TypeOK, EngineTypeOK
<1>2. PICK p : p = pending[k]
    OBVIOUS
<1>3. /\ p \in PendingTxn /\ p.pendingSnoopCount \in Int /\ p.pendingSnoopDataCount \in Int
    BY <1>1, <1>2 DEF PendingTxn
<1>4. ASSUME pt = [p EXCEPT !.pendingSnoopCount = @ - 1]
      PROVE  /\ pt \in PendingTxn
             /\ pt.origReq = p.origReq /\ pt.state = p.state
             /\ pt.targetState = p.targetState
             /\ pt.pendingSnoopCount = p.pendingSnoopCount - 1
    BY <1>3, <1>4 DEF PendingTxn
<1>5. ASSUME pt = [p EXCEPT !.pendingSnoopDataCount = @ - 1, !.pendingSnoopCount = @ - 1]
      PROVE  /\ pt \in PendingTxn
             /\ pt.origReq = p.origReq /\ pt.state = p.state
             /\ pt.targetState = p.targetState
             /\ pt.pendingSnoopCount = p.pendingSnoopCount - 1
    <2> DEFINE x == p.pendingSnoopCount - 1
               y == p.pendingSnoopDataCount - 1
    <2>1. x \in Int /\ y \in Int
        BY <1>3
    <2>2. [p EXCEPT !.pendingSnoopCount = x, !.pendingSnoopDataCount = y]
            = [p EXCEPT !.pendingSnoopDataCount = @ - 1, !.pendingSnoopCount = @ - 1]
        BY <1>3 DEF PendingTxn
    <2>3. pt = [p EXCEPT !.pendingSnoopCount = x, !.pendingSnoopDataCount = y]
        BY <1>5, <2>2
    <2>4. pt.pendingSnoopCount = x
        BY <1>3, <2>1, <2>3 DEF PendingTxn
    <2> HIDE DEF x, y
    <2>5. /\ pt \in PendingTxn
          /\ pt.origReq = p.origReq /\ pt.state = p.state
          /\ pt.targetState = p.targetState
        BY <1>3, <2>1, <2>3 DEF PendingTxn
    <2> QED BY <2>4, <2>5 DEF x
<1> QED BY <1>2, <1>4, <1>5

\* A response to a snoop.
LEMMA ResponseStep ==
    ASSUME SafeUse, CInv, NEW id \in rspIn, DeliverResponse(id)
    PROVE  CInv'
<1>1. /\ RecvResponse(id) /\ rspIn' = rspIn \ {id} /\ net' = net \cup Sent
      /\ UNCHANGED <<requests, l1, latest, sent, datIn>>
    BY DEF DeliverResponse, world
<1>2. id \in DOMAIN snoopToOrig
    BY DEF CInv, IdsInv
<1>3. PICK a \in Addrs, r \in requests :
          Snooping(a, r) /\ snoopToOrig[id] = r.txnID /\ id \in SnoopIdsOf(r.txnID)
    BY <1>2, SnoopPhase
<1>4. TakesAnswer(a, r, id)
    BY <1>1, <1>3 DEF TakesAnswer
<1>5. PICK k : k = r.txnID
    OBVIOUS
<1>6. k \in DOMAIN pending /\ pending[k].origReq = TxnOf(r) /\ Present(cache, a)
      /\ TxnOf(r).addr = a
    <2>1. r.addr = a
        BY <1>3 DEF Snooping, ReqsOf
    <2> QED BY <1>3, <1>5, <2>1 DEF Snooping, EntriesOf, TxnOf
<1>7. PICK pt : pt = [pending[k] EXCEPT !.pendingSnoopCount = @ - 1]
    OBVIOUS
<1>8. /\ pt \in PendingTxn
      /\ pt.origReq = pending[k].origReq /\ pt.state = pending[k].state
      /\ pt.targetState = pending[k].targetState
      /\ pt.pendingSnoopCount = pending[k].pendingSnoopCount - 1
    BY <1>6, <1>7, CountedEntry
<1>9. \/ KeepWaiting(k, pt, cache) /\ UNCHANGED snoopRespCounted
      \/ AllAnswered(pt) /\ CompletePending(k, cache)
    <2>1. RecvSnoopResp(id)
        BY <1>1, <1>2 DEF RecvResponse
    <2> QED BY <1>3, <1>5, <1>6, <1>7, <1>8, <2>1 DEF RecvSnoopResp
<1>10. CASE KeepWaiting(k, pt, cache) /\ UNCHANGED snoopRespCounted
    <2>1. /\ pending' = [pending EXCEPT ![k] = pt] /\ cache' = cache /\ actions' = <<>>
          /\ UNCHANGED <<snoopToOrig, memToOrig, counters, fault, snoopRespCounted>>
        BY <1>10 DEF KeepWaiting
    <2>2. net' = net
        BY <1>1, <2>1, SentOne
    <2>3. Becomes(cache, cache', Addrs, a, GetState(cache, a), GetSharers(cache, a),
                  GetData(cache, a))
        BY <1>6, <2>1 DEF Becomes, SameLine, CInv
    <2> QED BY <1>1, <1>4, <1>5, <1>8, <2>1, <2>2, <2>3, AnswerKept
<1>11. CASE AllAnswered(pt) /\ CompletePending(k, cache)
    <2>1. pending[k].pendingSnoopCount - 1 <= 0
        BY <1>8, <1>11 DEF AllAnswered
    <2> QED BY <1>1, <1>4, <1>5, <1>11, <2>1, AnswerCompletes
<1> QED BY <1>9, <1>10, <1>11

\* Data for a snoop.
LEMMA SnoopDataStep ==
    ASSUME SafeUse, CInv, NEW d \in datIn, DeliverData(d),
           NEW a \in Addrs, d.addr = a, NEW r \in requests, Snooping(a, r)
    PROVE  CInv'
<1>1. /\ RecvData(d.txnId, a, d.data) /\ datIn' = datIn \ {d} /\ net' = net \cup Sent
      /\ UNCHANGED <<requests, l1, latest, sent, rspIn>>
    BY DEF DeliverData, world
<1>2. PICK k, id, data : k = r.txnID /\ id = d.txnId /\ data = d.data
    OBVIOUS
<1>3. /\ d \in DataOf(a) /\ id \in SnoopIdsOf(k)
      /\ Copies(a) /\ DataCurrent(a)
    BY <1>2 DEF DataOf, Snooping, CInv, LineInv
<1>4. data = latest[a] /\ data \in Data
    BY <1>2, <1>3 DEF DataCurrent, CInv, TypeOK
<1>5. TakesAnswer(a, r, id)
    BY <1>1, <1>2, <1>3 DEF TakesAnswer
<1>6. /\ k \in DOMAIN pending /\ pending[k].origReq = TxnOf(r)
      /\ pending[k].origReq.addr = a
      /\ pending[k].targetState = Target(r.type)
      /\ id \notin snoopRespCounted
      /\ Present(cache, a)
    <2>1. r.addr = a
        BY DEF Snooping, ReqsOf
    <2>2. TxnOf(r).addr = a
        BY <2>1 DEF TxnOf
    <2> QED BY <1>2, <1>5, <2>2, AnswerTaken DEF Snooping
<1>7. id \in DOMAIN snoopToOrig /\ snoopToOrig[id] = k
    BY <1>3 DEF SnoopIdsOf
<1>8. PICK pt : pt = [pending[k] EXCEPT !.pendingSnoopDataCount = @ - 1,
                                        !.pendingSnoopCount = @ - 1]
    OBVIOUS
<1>9. /\ pt \in PendingTxn
      /\ pt.origReq = pending[k].origReq /\ pt.state = pending[k].state
      /\ pt.targetState = pending[k].targetState
      /\ pt.pendingSnoopCount = pending[k].pendingSnoopCount - 1
    BY <1>6, <1>8, CountedEntry
<1>10. PICK c : c = Fill(cache, a, Target(r.type), data)
    OBVIOUS
<1>11. \/ KeepWaiting(k, pt, c) /\ snoopRespCounted' = snoopRespCounted \cup {id}
       \/ AllAnswered(pt) /\ CompletePending(k, c)
    <2>1. RecvSnoopData(id, data)
        BY <1>1, <1>2, <1>7 DEF RecvData
    <2>2. [pending[k] EXCEPT !.pendingSnoopDataCount = @ - 1,
                             !.pendingSnoopCount = IF TRUE THEN @ - 1 ELSE @] = pt
        BY <1>8, Zenon
    <2>3. FirstBeat(id) = TRUE
        BY <1>6 DEF FirstBeat
    <2>4. IF AllAnswered(pt)
          THEN CompletePending(k, Fill(cache, pt.origReq.addr, pt.targetState, data))
          ELSE /\ KeepWaiting(k, pt, Fill(cache, pt.origReq.addr, pt.targetState, data))
               /\ snoopRespCounted' = snoopRespCounted \cup {id}
        BY <1>6, <1>7, <2>1, <2>2, <2>3, Zenon DEF RecvSnoopData
    <2>5. Fill(cache, pt.origReq.addr, pt.targetState, data) = c
        BY <1>6, <1>9, <1>10
    <2> QED BY <2>4, <2>5
<1>12. Becomes(cache, c, Addrs, a, Target(r.type), GetSharers(cache, a), data)
    <2>1. Target(r.type) \in LineState \ {"I"}
        BY DEF Target, LineState
    <2> QED BY <1>4, <1>6, <1>10, <2>1, SafeLines, FillSees DEF CInv
<1>13. CASE KeepWaiting(k, pt, c) /\ snoopRespCounted' = snoopRespCounted \cup {id}
    <2>1. /\ pending' = [pending EXCEPT ![k] = pt] /\ cache' = c /\ actions' = <<>>
          /\ UNCHANGED <<snoopToOrig, memToOrig, counters, fault>>
        BY <1>13 DEF KeepWaiting
    <2>2. net' = net
        BY <1>1, <2>1, SentOne
    <2> QED BY <1>2, <1>4, <1>5, <1>9, <1>12, <1>13, <2>1, <2>2, AnswerKept
<1>14. CASE AllAnswered(pt) /\ CompletePending(k, c)
    <2>1. pending[k].pendingSnoopCount - 1 <= 0
        BY <1>9, <1>14 DEF AllAnswered
    <2> QED BY <1>1, <1>2, <1>4, <1>5, <1>12, <1>14, <2>1, AnswerCompletes
<1> QED BY <1>11, <1>13, <1>14

\* Data that closes the entry of a line that is not snooped.
LEMMA EntryCloses ==
    ASSUME SafeUse, CInv, NEW d \in datIn, DeliverData(d),
           NEW a \in Addrs, d.addr = a, NEW k \in DOMAIN pending, EntriesOf(a) = {k},
           pending[k].state # "WaitSnoopResp",
           pending' = Erase(pending, {k}),
           UNCHANGED <<snoopToOrig, snoopRespCounted, counters, fault>>,
           DOMAIN memToOrig' \subseteq DOMAIN memToOrig,
           \A x \in DOMAIN memToOrig' : memToOrig'[x] = memToOrig[x],
           NEW M, \A m \in M : m.action.addr = a, net' = net \cup M,
           NEW state, NEW sharers, NEW data,
           Becomes(cache, cache', Addrs, a, state, sharers, data),
           LineInv(a)'
    PROVE  CInv'
<1>1. /\ datIn' = datIn \ {d}
      /\ UNCHANGED <<requests, l1, latest, sent, rspIn>>
    BY DEF DeliverData, world
<1>2. /\ Stores(cache, Addrs)'
      /\ \A b \in Addrs \ {a} : SameLine(cache, cache', b)
    BY DEF Becomes
<1>3. /\ DOMAIN pending' = DOMAIN pending \ {k}
      /\ \A j \in DOMAIN pending' : pending'[j] = pending[j]
      /\ \A b : b # a =>
            /\ EntriesOf(b)' = EntriesOf(b)
            /\ \A j \in EntriesOf(b) : pending'[j] = pending[j]
    BY EraseEntry
<1>4. TypeOK'
    <2>1. cache' \in Caches /\ fault' = "none"
        BY <1>2 DEF Stores, CInv
    <2>2. EngineTypeOK'
        BY <1>3, <2>1 DEF CInv, TypeOK, EngineTypeOK, counters
    <2> QED BY <1>1, <2>2 DEF CInv, TypeOK
<1>5. IdsInv'
    <2>1. \A x \in DOMAIN snoopToOrig' :
              /\ SnoopIdBase <= x /\ x < nextSnoopTxnId'
              /\ snoopToOrig'[x] \in DOMAIN pending'
              /\ pending'[snoopToOrig'[x]].state = "WaitSnoopResp"
        BY <1>3 DEF CInv, IdsInv, counters
    <2>2. \A j \in DOMAIN pending' :
              /\ pending'[j].origReq.addr \in Addrs
              /\ IF pending'[j].state = "WaitMemData"
                 THEN MemIdBase <= j /\ j < nextInternalTxnId'
                 ELSE j = pending'[j].origReq.txnID
        BY <1>3 DEF CInv, IdsInv, counters
    <2>3. /\ SnoopIdBase <= nextSnoopTxnId' /\ MemIdBase <= nextInternalTxnId'
          /\ sent' \in Nat /\ sent' <= MaxRequests
          /\ nextSnoopTxnId' <= SnoopIdBase + sent' * Cardinality(Nodes)
        BY <1>1 DEF CInv, IdsInv, counters
    <2> QED BY <1>1, <2>1, <2>2, <2>3 DEF CInv, IdsInv
<1>6. MessagesInv'
    BY <1>1 DEF CInv, MessagesInv
<1>7. ASSUME NEW b \in Addrs \ {a} PROVE Untouched(b)
    <2>1. ReqsOf(b)' = ReqsOf(b) /\ NetOf(b)' = NetOf(b) /\ DataOf(b)' = DataOf(b)
        BY <1>1 DEF ReqsOf, NetOf, DataOf
    <2>2. \A j : SnoopIdsOf(j)' = SnoopIdsOf(j)
        BY DEF SnoopIdsOf
    <2> QED BY <1>1, <1>2, <1>3, <2>1, <2>2 DEF Untouched
<1>8. fault' = "none"
    BY DEF CInv
<1> QED BY <1>2, <1>4, <1>5, <1>6, <1>7, <1>8, OneLineStep

\* Data from memory: the line goes to the requester.
LEMMA MemDataStep ==
    ASSUME SafeUse, CInv, NEW d \in datIn, DeliverData(d),
           NEW a \in Addrs, d.addr = a, NEW r \in requests, NEW k \in DOMAIN pending,
           Fetching(a, r, k)
    PROVE  CInv'
<1> DEFINE n == r.srcNodeID
           t == Target(r.type)
           s == IF r.type = "ReadOnce" THEN {} ELSE {n}
<1>1. /\ RecvData(d.txnId, a, d.data) /\ datIn' = datIn \ {d} /\ net' = net \cup Sent
      /\ UNCHANGED <<requests, l1, latest, sent, rspIn>>
    BY DEF DeliverData, world
<1>2. d \in DataOf(a)
    BY DEF DataOf
<1>3. /\ NetOf(a) = {} /\ DataOf(a) = {d} /\ d.txnId = k /\ d.data = ZeroData
    BY <1>2 DEF Fetching, DataMessage, ReadNoSnp
<1>4. /\ ~Present(cache, a) /\ r.type \in Reads /\ ReqsOf(a) = {r} /\ EntriesOf(a) = {k}
      /\ pending[k].origReq = TxnOf(r) /\ pending[k].state = "WaitMemData"
      /\ pending[k].targetState = t
    BY DEF Fetching, Waiting
<1>5. /\ r \in Requests /\ r.addr = a /\ n \in Nodes
      /\ TxnOf(r).addr = a /\ TxnOf(r).srcNodeID = n
      /\ TxnOf(r).opcode = r.type
    <2>1. r \in Requests /\ r.addr = a
        BY <1>4 DEF CInv, TypeOK, ReqsOf
    <2>2. Gem5ToOpcode[r.type] = r.type
        BY <1>4 DEF Gem5ToOpcode, Reads, UniqueReads
    <2> QED BY <2>1, <2>2, RequestTypes DEF TxnOf
<1>6. k \notin DOMAIN snoopToOrig
    <2>1. MemIdBase <= k
        BY <1>4 DEF CInv, IdsInv
    <2>2. k \in DOMAIN snoopToOrig => k < MemIdBase /\ k \in Nat
        BY IdRanges DEF CInv, TypeOK, EngineTypeOK
    <2> QED BY <2>1, <2>2, IdsAssumption
<1>7. RecvMemData(k, ZeroData)
    <2>1. WriteDataEntries(k, a) = {}
        BY <1>4 DEF WriteDataEntries
    <2>2. AwaitsMemData(k)
        BY <1>4 DEF AwaitsMemData
    <2> QED BY <1>1, <1>3, <1>6, <2>1, <2>2 DEF RecvData
<1>8. Copies(a) /\ latest[a] = ZeroData
    BY <1>4, VersionsAssumption DEF CInv, LineInv, L2Current
<1>9. \A x \in Nodes : ~Holds(x, a)
    BY <1>4, <1>8 DEF Copies, GetSharers
<1>10. Becomes(cache, cache', Addrs, a, t, s, ZeroData)
    <2>1. t \in LineState \ {"I"}
        BY DEF Target, LineState
    <2>2. ZeroData \in Data
        BY DataAssumption
    <2> DEFINE c == Fill(cache, a, t, ZeroData)
    <2>3. cache' = IF r.type = "ReadOnce" THEN c ELSE AddSharer(c, a, n)
        BY <1>4, <1>5, <1>7 DEF RecvMemData
    <2>4. FindInvalid(SetOf(cache, a)) # NoWay /\ GetSharers(cache, a) = {}
        BY <1>4, SafeLines, RoomForMiss DEF CInv, GetSharers
    <2> HIDE DEF t
    <2>5. Becomes(cache, c, Addrs, a, t, {}, ZeroData)
        <3>1. Becomes(cache, c, Addrs, a, t, GetSharers(cache, a), ZeroData)
            BY <2>1, <2>2, <2>4, SafeLines, FillSees DEF CInv
        <3> QED BY <2>4, <3>1
    <2> HIDE DEF c
    <2>6. Becomes(c, AddSharer(c, a, n), Addrs, a, t, {} \cup {n}, ZeroData)
        BY <1>5, <2>5, SafeLines, UpdatesSee DEF Becomes
    <2>7. Becomes(c, AddSharer(c, a, n), Addrs, a, t, {n}, ZeroData)
        BY <2>6
    <2>8. Becomes(cache, AddSharer(c, a, n), Addrs, a, t, {n}, ZeroData)
        BY <2>5, <2>7, BecomesTwice
    <2> QED BY <2>3, <2>5, <2>8
<1>11. Sent = {CompDataMessage(r, latest[a])}
    <2>1. actions' = <<CompData(TxnOf(r), t, ZeroData)>>
        <3>1. r.type # "CleanUnique"
            BY <1>4 DEF Reads, UniqueReads
        <3> QED BY <1>4, <1>5, <1>7, <3>1 DEF RecvMemData
    <2>2. PICK txn, data, target : txn = TxnOf(r) /\ data = latest[a] /\ target = t
        OBVIOUS
    <2>3. actions' = <<CompData(txn, target, data)>>
        BY <1>8, <2>1, <2>2
    <2>4. Sent = {Message("dat", CompDataType(target), 1, CompData(txn, target, data))}
        BY <2>3, SentOne
    <2> QED BY <2>2, <2>4 DEF CompDataMessage
<1>12. \A m \in Sent : m.action.addr = a
    BY <1>5, <1>11 DEF CompDataMessage, Message, CompData
<1>13. /\ pending' = Erase(pending, {k})
       /\ memToOrig' = Erase(memToOrig,
                             {x \in DOMAIN memToOrig : memToOrig[x] = TxnOf(r).txnID})
       /\ UNCHANGED <<snoopToOrig, snoopRespCounted, counters, fault>>
    BY <1>4, <1>7 DEF RecvMemData
<1>14. /\ DOMAIN memToOrig' \subseteq DOMAIN memToOrig
       /\ \A x \in DOMAIN memToOrig' : memToOrig'[x] = memToOrig[x]
    BY <1>13 DEF Erase
<1>15. LineInv(a)'
    <2>1. r \in requests' /\ ReqsOf(a)' = {r} /\ DataOf(a)' = {}
        BY <1>1, <1>3, <1>4 DEF ReqsOf, DataOf
    <2>2. EntriesOf(a)' = {}
        BY <1>4, <1>13, EraseEntry
    <2>3. NetOf(a)' = {CompDataMessage(r, latest[a])}
        <3>1. PICK M : M = Sent
            OBVIOUS
        <3>2. net' = net \cup M /\ \A m \in M : m.action.addr = a
            BY <1>1, <1>12, <3>1
        <3>3. NetOf(a)' = M
            BY <1>3, <3>2 DEF NetOf
        <3> QED BY <1>11, <3>1, <3>3
    <2>4. l1[n][a].state \in SentIn[r.type]
        BY <1>4, <1>5, <1>9 DEF Holds, SentIn, Reads, UniqueReads
    <2> QED
        BY <1>1, <1>4, <1>5, <1>8, <1>9, <1>10, <2>1, <2>2, <2>3, <2>4, LineCompleted
<1>16. PICK M : M = Sent
    OBVIOUS
<1>17. net' = net \cup M /\ \A m \in M : m.action.addr = a
    BY <1>1, <1>12, <1>16
<1>18. pending[k].state # "WaitSnoopResp"
    BY <1>4
<1> HIDE DEF n, t, s
<1> QED BY <1>4, <1>10, <1>13, <1>14, <1>15, <1>17, <1>18, EntryCloses

\* The data of a write: the L2 has the line of the writer, who gave it up.
LEMMA WriteDataStep ==
    ASSUME SafeUse, CInv, NEW d \in datIn, DeliverData(d),
           NEW a \in Addrs, d.addr = a, NEW k \in DOMAIN pending,
           AwaitingWrite(a, k), Copies(a), DataCurrent(a), L2Current(a), Shape(a)
    PROVE  CInv'
<1>1. PICK txn, n : txn = pending[k].origReq /\ n = txn.srcNodeID
    OBVIOUS
<1>2. /\ RecvData(d.txnId, a, d.data) /\ datIn' = datIn \ {d} /\ net' = net \cup Sent
      /\ UNCHANGED <<requests, l1, latest, sent, rspIn>>
    BY DEF DeliverData, world
<1>3. d \in DataOf(a)
    BY DEF DataOf
<1>4. /\ EntriesOf(a) = {k} /\ pending[k].state = "WaitL1Data" /\ k = txn.txnID
      /\ GetState(cache, a) = "UD" /\ n \in GetSharers(cache, a)
      /\ ReqsOf(a) = {} /\ NetOf(a) = {} /\ DataOf(a) = {d} /\ d.txnId = k
    BY <1>1, <1>3 DEF AwaitingWrite
<1>5. k \in L1TxnIds /\ n \in Nodes /\ txn.addr = a
    <2>1. txn \in ChiTransaction
        BY <1>1, PendingTypes DEF CInv, TypeOK
    <2> QED BY <1>1, <1>4, <2>1 DEF ChiTransaction, EntriesOf
<1>6. k \notin DOMAIN snoopToOrig
    BY <1>5, IdRanges
<1>7. d.data = latest[a] /\ latest[a] \in Data /\ Present(cache, a)
    BY <1>3, <1>4 DEF DataCurrent, CInv, TypeOK, GetState
<1>8. RecvWriteData(k, latest[a])
    <2>1. WriteDataEntries(k, a) = {k}
        BY <1>4 DEF WriteDataEntries
    <2>2. ~AwaitsMemData(k)
        BY <1>4 DEF AwaitsMemData
    <2> QED BY <1>2, <1>4, <1>6, <1>7, <2>1, <2>2 DEF RecvData
<1>9. /\ cache' = AddSharer(Fill(cache, a, "UD", latest[a]), a, n)
      /\ pending' = Erase(pending, {k}) /\ actions' = <<>>
      /\ UNCHANGED <<snoopToOrig, memToOrig, snoopRespCounted, counters, fault>>
    BY <1>1, <1>5, <1>8 DEF RecvWriteData
<1>10. Becomes(cache, cache', Addrs, a, "UD", GetSharers(cache, a), latest[a])
    <2> DEFINE c == Fill(cache, a, "UD", latest[a])
               s == GetSharers(cache, a)
    <2>1. "UD" \in LineState \ {"I"}
        BY DEF LineState
    <2>2. Becomes(cache, c, Addrs, a, "UD", s, latest[a])
        BY <1>7, <2>1, SafeLines, FillSees DEF CInv
    <2> HIDE DEF c
    <2>3. Becomes(c, AddSharer(c, a, n), Addrs, a, "UD", s \cup {n}, latest[a])
        BY <1>5, <2>2, SafeLines, UpdatesSee DEF Becomes
    <2>4. s \cup {n} = s
        BY <1>4
    <2>5. Becomes(c, AddSharer(c, a, n), Addrs, a, "UD", s, latest[a])
        BY <2>3, <2>4
    <2>6. Becomes(cache, AddSharer(c, a, n), Addrs, a, "UD", s, latest[a])
        BY <2>2, <2>5, BecomesTwice
    <2> QED BY <1>9, <2>6 DEF c
<1>11. /\ Present(cache, a)' /\ GetState(cache, a)' = GetState(cache, a)
       /\ GetSharers(cache, a)' = GetSharers(cache, a) /\ GetData(cache, a)' = latest[a]
    BY <1>4, <1>10 DEF Becomes
<1>12. Sent = {} /\ net' = net
    BY <1>2, <1>9, SentOne
<1>13. LineInv(a)'
    <2>1. Idle(a)'
        <3>1. EntriesOf(a)' = {}
            BY <1>4, <1>9, EraseEntry
        <3> QED BY <1>2, <1>4, <1>12, <3>1 DEF Idle, ReqsOf, NetOf, DataOf
    <2>2. \A x \in Nodes : (Writer(x, a)' <=> Writer(x, a)) /\ (Holds(x, a)' <=> Holds(x, a))
        BY <1>2 DEF Writer, Holds
    <2>3. Copies(a)'
        BY <1>2, <1>11, <2>2 DEF Copies, NoWriter
    <2>4. DataCurrent(a)'
        BY <2>1 DEF DataCurrent, Idle
    <2>5. L2Current(a)'
        BY <1>2, <1>11 DEF L2Current
    <2>6. Shape(a)'
        BY <1>11, <2>2 DEF Shape, Shaped
    <2> QED BY <2>1, <2>3, <2>4, <2>5, <2>6 DEF LineInv, Unsnooped
<1>14. PICK M : M = {}
    OBVIOUS
<1>15. net' = net \cup M /\ \A m \in M : m.action.addr = a
    BY <1>12, <1>14
<1>16. pending[k].state # "WaitSnoopResp"
    BY <1>4
<1> QED BY <1>4, <1>9, <1>10, <1>13, <1>15, <1>16, EntryCloses

\* Data for the engine.
LEMMA DataStep ==
    ASSUME SafeUse, CInv, NEW d \in datIn, DeliverData(d)
    PROVE  CInv'
<1>1. PICK a \in Addrs : d.addr = a
    BY DEF CInv, MessagesInv
<1>2. LineInv(a) /\ d \in DataOf(a)
    BY <1>1 DEF CInv, DataOf
<1>3. ~Idle(a) /\ \A r \in requests, m \in net : ~Answering(a, r, m)
    BY <1>2 DEF Idle, Answering
<1>4. \/ \E r \in requests : Snooping(a, r)
      \/ \E r \in requests, k \in DOMAIN pending : Fetching(a, r, k)
      \/ Shape(a) /\ \E k \in DOMAIN pending : AwaitingWrite(a, k)
    BY <1>2, <1>3 DEF LineInv, Unsnooped
<1>5. Copies(a) /\ DataCurrent(a) /\ L2Current(a)
    BY <1>2 DEF LineInv
<1> QED BY <1>1, <1>4, <1>5, SnoopDataStep, MemDataStep, WriteDataStep

-----------------------------------------------------------------------------
(* Steps of the peers *)

\* A step of a peer or a program that the engine takes no part in.
LEMMA OutsideStep ==
    ASSUME SafeUse, CInv, UNCHANGED <<engineVars, sent>>, NEW a \in Addrs,
           l1' \in [Nodes -> [Addrs -> [state : L1State, data : Data]]],
           latest' \in [Addrs -> Data],
           \A n \in Nodes, b \in Addrs \ {a} : l1'[n][b] = l1[n][b],
           \A b \in Addrs \ {a} : latest'[b] = latest[b],
           requests' \subseteq requests,
           \A r \in requests : r.addr # a => r \in requests',
           \A m \in net' \cup net : m.action.addr = a \/ (m \in net /\ m \in net'),
           \A m \in net' : m.action.addr \in Addrs,
           \A d \in datIn' \cup datIn : d.addr = a \/ (d \in datIn /\ d \in datIn'),
           \A d \in datIn' : d.addr \in Addrs,
           NEW ids \in SUBSET DOMAIN snoopToOrig, rspIn' = rspIn \cup ids,
           \A s \in ids : snoopToOrig[s] \in EntriesOf(a),
           LineInv(a)'
    PROVE  CInv'
<1>1. /\ UNCHANGED <<cache, pending, snoopToOrig, memToOrig, snoopRespCounted,
                     nextSnoopTxnId, nextInternalTxnId, fault>>
      /\ sent' = sent
    BY DEF engineVars, tables, counters
<1>2. TypeOK'
    <2>1. EngineTypeOK'
        BY <1>1 DEF CInv, TypeOK, EngineTypeOK
    <2> QED BY <2>1 DEF CInv, TypeOK
<1>3. fault' = "none" /\ Stores(cache, Addrs)'
    BY <1>1 DEF CInv
<1>4. IdsInv'
    BY <1>1 DEF CInv, IdsInv
<1>5. MessagesInv'
    BY DEF CInv, MessagesInv
<1>6. ASSUME NEW b \in Addrs \ {a} PROVE Untouched(b)
    <2>1. ReqsOf(b)' = ReqsOf(b)
        BY DEF ReqsOf
    <2>2. NetOf(b)' = NetOf(b)
        BY DEF NetOf
    <2>3. DataOf(b)' = DataOf(b)
        BY DEF DataOf
    <2>4. EntriesOf(b)' = EntriesOf(b) /\ \A j : SnoopIdsOf(j)' = SnoopIdsOf(j)
        BY <1>1 DEF EntriesOf, SnoopIdsOf
    <2>5. \A j \in EntriesOf(b) : SnoopIdsOf(j) \cap ids = {}
        BY DEF EntriesOf, SnoopIdsOf
    <2>6. SameLine(cache, cache', b)
        BY <1>1 DEF SameLine
    <2> QED BY <1>1, <2>1, <2>2, <2>3, <2>4, <2>5, <2>6 DEF Untouched
<1> QED BY <1>2, <1>3, <1>4, <1>5, <1>6, OneLineStep

\* RN-F n has this copy of line a now.
Gets(n, a, copy) == l1' = [l1 EXCEPT ![n][a] = copy]

\* One line of one RN-F changes.
LEMMA CopyChanged ==
    ASSUME TypeOK, NEW n \in Nodes, NEW a \in Addrs,
           NEW copy \in [state : L1State, data : Data], Gets(n, a, copy)
    PROVE  /\ l1' \in [Nodes -> [Addrs -> [state : L1State, data : Data]]]
           /\ l1'[n][a] = copy
           /\ \A x \in Nodes, b \in Addrs : (x # n \/ b # a) => l1'[x][b] = l1[x][b]
BY DEF TypeOK, Gets

\* An RN-F that has no line left, or gives one up, has a line of that kind.
LEMMA CopyTypes ==
    ASSUME TypeOK
    PROVE  /\ NoLine \in [state : L1State, data : Data]
           /\ \A state \in L1State, data \in Data :
                 L1Line(state, data) \in [state : L1State, data : Data]
           /\ \A n \in Nodes, a \in Addrs : /\ l1[n][a] \in [state : L1State, data : Data]
                                            /\ l1[n][a].state \in L1State
                                            /\ l1[n][a].data \in Data
<1>1. \A n \in Nodes, a \in Addrs : l1[n][a] \in [state : L1State, data : Data]
    BY DEF TypeOK
<1>2. NoLine \in [state : L1State, data : Data]
    BY VersionsAssumption, DataAssumption DEF NoLine, L1Line, L1State
<1> QED BY <1>1, <1>2 DEF L1Line

\* A snoop takes the copy away; dirty or asked for, it goes to the L2.
LEMMA AnswerSnoopStep ==
    ASSUME SafeUse, CInv, NEW m \in net, AnswerSnoop(m), UNCHANGED <<engineVars, sent>>,
           NEW a \in Addrs, m.action.addr = a, NEW r \in requests, Snooping(a, r)
    PROVE  CInv'
<1> DEFINE k == r.txnID
           before == OpenSnoops(a, k)
<1>1. PICK n, id : n = m.action.destNode /\ id = m.action.txnId
    OBVIOUS
<1>2. /\ m \in NetOf(a) /\ SnoopInFlight(a, r, m)
      /\ Copies(a) /\ DataCurrent(a) /\ L2Current(a)
    BY DEF NetOf, Snooping, CInv, LineInv
<1>3. /\ n \in Nodes \ {r.srcNodeID} /\ id \in SnoopIdsOf(k) /\ id \notin rspIn
      /\ m.type # "SnpNotSharedDirtyFwd"
      /\ \A o \in NetOf(a) : o.action.txnId = id => o = m
      /\ \A d \in DataOf(a) : d.txnId # id
    BY <1>1, <1>2 DEF SnoopInFlight
<1>4. /\ l1' = [l1 EXCEPT ![n][a] = NoLine]
      /\ net' = net \ {m} /\ latest' = latest /\ requests' = requests
      /\ \/ /\ l1[n][a].state # "I"
            /\ datIn' = datIn \cup {DataMessage(n, m.action, l1[n][a].data)}
            /\ rspIn' = rspIn
         \/ /\ l1[n][a].state # "UD"
            /\ rspIn' = rspIn \cup {id} /\ datIn' = datIn
    BY <1>1, <1>3 DEF AnswerSnoop
<1>5. /\ l1' \in [Nodes -> [Addrs -> [state : L1State, data : Data]]]
      /\ l1'[n][a] = NoLine
      /\ \A x \in Nodes, b \in Addrs : (x # n \/ b # a) => l1'[x][b] = l1[x][b]
    <2>1. TypeOK /\ n \in Nodes /\ Gets(n, a, NoLine)
        BY <1>3, <1>4 DEF CInv, Gets
    <2>2. NoLine \in [state : L1State, data : Data]
        BY <2>1, CopyTypes
    <2> QED BY <2>1, <2>2, CopyChanged
<1>6. UNCHANGED <<cache, pending, snoopToOrig, memToOrig, snoopRespCounted,
                  nextSnoopTxnId, nextInternalTxnId, fault>>
    BY DEF engineVars, tables, counters
<1>7. /\ NetOf(a)' = NetOf(a) \ {m} /\ ReqsOf(a)' = ReqsOf(a)
      /\ EntriesOf(a)' = EntriesOf(a) /\ \A j : SnoopIdsOf(j)' = SnoopIdsOf(j)
    BY <1>4, <1>6 DEF NetOf, ReqsOf, EntriesOf, SnoopIdsOf
<1>8. /\ ~Holds(n, a)' /\ ~Writer(n, a)'
      /\ \A x \in Nodes \ {n} : (Holds(x, a)' <=> Holds(x, a)) /\ (Writer(x, a)' <=> Writer(x, a))
    BY <1>5 DEF Holds, Writer, NoLine, L1Line
<1>9. id \in DOMAIN snoopToOrig /\ snoopToOrig[id] = k /\ k \in EntriesOf(a)
    BY <1>3 DEF SnoopIdsOf, Snooping
<1>10. Copies(a)'
    BY <1>2, <1>4, <1>5, <1>6, <1>8 DEF Copies, NoWriter
<1>11. {o.action.txnId : o \in NetOf(a)} = {o.action.txnId : o \in NetOf(a)'} \cup {id}
    BY <1>1, <1>2, <1>7
<1>12. id \notin {o.action.txnId : o \in NetOf(a)'}
    BY <1>3, <1>7
<1>13. ASSUME NEW d, d = DataMessage(n, m.action, l1[n][a].data),
              l1[n][a].state # "I", datIn' = datIn \cup {d}, rspIn' = rspIn
       PROVE  CInv'
    <2>1. d.txnId = id /\ d.addr = a /\ d.data = latest[a]
        <3>1. l1[n][a].data = latest[a]
            BY <1>2, <1>3, <1>13 DEF Copies, Holds
        <3> QED BY <1>1, <1>13, <3>1 DEF DataMessage
    <2>2. DataOf(a)' = DataOf(a) \cup {d}
        BY <1>13, <2>1 DEF DataOf
    <2>3. NoWriter(a)'
        <3>1. Holds(n, a)
            BY <1>13 DEF Holds
        <3>2. \A x \in Nodes \ {n} : ~Writer(x, a)
            BY <1>2, <1>3, <3>1 DEF Copies
        <3> QED BY <1>8, <3>2 DEF NoWriter
    <2>4. DataCurrent(a)' /\ L2Current(a)'
        <3>1. Present(cache, a)
            BY DEF Snooping
        <3>2. Present(cache, a)'
            BY <1>6, <3>1
        <3>3. DataCurrent(a)'
            BY <1>2, <1>4, <2>1, <2>2, <2>3 DEF DataCurrent
        <3> QED BY <2>2, <3>2, <3>3 DEF L2Current
    <2>5. OpenSnoops(a, k)' = before
        <3>1. {e.txnId : e \in DataOf(a)'} = {e.txnId : e \in DataOf(a)} \cup {id}
            BY <2>1, <2>2
        <3> QED BY <1>7, <1>11, <1>13, <3>1 DEF OpenSnoops
    <2>6. \A o \in NetOf(a)' : SnoopInFlight(a, r, o)'
        <3> SUFFICES ASSUME NEW o \in NetOf(a)' PROVE SnoopInFlight(a, r, o)'
            OBVIOUS
        <3>1. o \in NetOf(a) /\ o.action.txnId # id
            BY <1>7, <1>12
        <3>2. SnoopInFlight(a, r, o)
            BY <3>1 DEF Snooping
        <3> QED BY <1>7, <1>13, <2>1, <2>2, <3>1, <3>2 DEF SnoopInFlight
    <2>7. \A e \in DataOf(a)' :
              /\ e.txnId \in SnoopIdsOf(k) /\ e.txnId \notin rspIn'
              /\ \A f \in DataOf(a)' : f.txnId = e.txnId => f = e
        BY <1>3, <1>13, <2>1, <2>2 DEF Snooping
    <2>8. Snooping(a, r)'
        <3>1. pending'[k] = pending[k] /\ Present(cache, a)' /\ r.srcNodeID # n
            BY <1>3, <1>6 DEF Snooping
        <3>2. l1'[r.srcNodeID][a].state \in SentIn[r.type]
            <4>1. r.srcNodeID \in Nodes
                BY RequestTypes DEF CInv, TypeOK
            <4> QED BY <1>5, <3>1, <4>1 DEF Snooping
        <3>3. \A x \in Nodes \ {r.srcNodeID} :
                  Holds(x, a)' => \E o \in NetOf(a)' : o.action.destNode = x
            BY <1>1, <1>7, <1>8 DEF Snooping
        <3> HIDE DEF k, before
        <3>4. pending'[k].pendingSnoopCount = Cardinality(OpenSnoops(a, k)')
            BY <2>5, <3>1 DEF Snooping, before, k
        <3>5. OpenSnoops(a, k)' \cap snoopRespCounted' = {}
            BY <1>6, <2>5 DEF Snooping, before, k
        <3> QED BY <1>6, <1>7, <2>6, <2>7, <3>1, <3>2, <3>3, <3>4, <3>5 DEF Snooping, k
    <2>9. LineInv(a)'
        BY <1>4, <1>10, <2>4, <2>8 DEF LineInv
    <2>10. PICK ids \in SUBSET DOMAIN snoopToOrig : ids = {}
        OBVIOUS
    <2>11. rspIn' = rspIn \cup ids /\ \A s \in ids : snoopToOrig[s] \in EntriesOf(a)
        BY <1>13, <2>10
    <2>12. /\ \A o \in net' \cup net : o.action.addr = a \/ (o \in net /\ o \in net')
           /\ \A o \in net' : o.action.addr \in Addrs
           /\ \A e \in datIn' \cup datIn : e.addr = a \/ (e \in datIn /\ e \in datIn')
           /\ \A e \in datIn' : e.addr \in Addrs
        BY <1>4, <1>13, <2>1 DEF CInv, MessagesInv
    <2>13. /\ \A x \in Nodes, b \in Addrs \ {a} : l1'[x][b] = l1[x][b]
           /\ latest' \in [Addrs -> Data] /\ \A b \in Addrs \ {a} : latest'[b] = latest[b]
           /\ requests' \subseteq requests /\ \A q \in requests : q.addr # a => q \in requests'
        BY <1>4, <1>5 DEF CInv, TypeOK
    <2> QED BY <1>5, <2>9, <2>10, <2>11, <2>12, <2>13, OutsideStep
<1>14. ASSUME l1[n][a].state # "UD", rspIn' = rspIn \cup {id}, datIn' = datIn
       PROVE  CInv'
    <2>1. DataOf(a)' = DataOf(a)
        BY <1>14 DEF DataOf
    <2>2. DataCurrent(a)'
        BY <1>2, <1>4, <1>8, <2>1 DEF DataCurrent, NoWriter
    <2>3. L2Current(a)'
        <3>1. Present(cache, a)
            BY DEF Snooping
        <3>2. \A x \in Nodes : l1[x][a].state = "UD" => l1'[x][a].state = "UD"
            BY <1>5, <1>14
        <3> QED BY <1>2, <1>4, <1>6, <2>1, <3>1, <3>2 DEF L2Current
    <2>4. OpenSnoops(a, k)' = before
        BY <1>3, <1>7, <1>11, <1>14, <2>1 DEF OpenSnoops
    <2>5. \A o \in NetOf(a)' : SnoopInFlight(a, r, o)'
        <3> SUFFICES ASSUME NEW o \in NetOf(a)' PROVE SnoopInFlight(a, r, o)'
            OBVIOUS
        <3>1. o \in NetOf(a) /\ o.action.txnId # id
            BY <1>7, <1>12
        <3>2. SnoopInFlight(a, r, o)
            BY <3>1 DEF Snooping
        <3> QED BY <1>7, <1>14, <2>1, <3>1, <3>2 DEF SnoopInFlight
    <2>6. \A e \in DataOf(a)' :
              /\ e.txnId \in SnoopIdsOf(k) /\ e.txnId \notin rspIn'
              /\ \A f \in DataOf(a)' : f.txnId = e.txnId => f = e
        BY <1>3, <1>14, <2>1 DEF Snooping
    <2>7. Snooping(a, r)'
        <3>1. pending'[k] = pending[k] /\ Present(cache, a)' /\ r.srcNodeID # n
            BY <1>3, <1>6 DEF Snooping
        <3>2. l1'[r.srcNodeID][a].state \in SentIn[r.type]
            <4>1. r.srcNodeID \in Nodes
                BY RequestTypes DEF CInv, TypeOK
            <4> QED BY <1>5, <3>1, <4>1 DEF Snooping
        <3>3. \A x \in Nodes \ {r.srcNodeID} :
                  Holds(x, a)' => \E o \in NetOf(a)' : o.action.destNode = x
            BY <1>1, <1>7, <1>8 DEF Snooping
        <3> HIDE DEF k, before
        <3>4. pending'[k].pendingSnoopCount = Cardinality(OpenSnoops(a, k)')
            BY <2>4, <3>1 DEF Snooping, before, k
        <3>5. OpenSnoops(a, k)' \cap snoopRespCounted' = {}
            BY <1>6, <2>4 DEF Snooping, before, k
        <3> QED BY <1>6, <1>7, <2>5, <2>6, <3>1, <3>2, <3>3, <3>4, <3>5 DEF Snooping, k
    <2>8. LineInv(a)'
        BY <1>4, <1>10, <2>2, <2>3, <2>7 DEF LineInv
    <2>9. PICK ids \in SUBSET DOMAIN snoopToOrig : ids = {id}
        BY <1>9
    <2>10. rspIn' = rspIn \cup ids /\ \A s \in ids : snoopToOrig[s] \in EntriesOf(a)
        BY <1>9, <1>14, <2>9
    <2>11. /\ \A o \in net' \cup net : o.action.addr = a \/ (o \in net /\ o \in net')
           /\ \A o \in net' : o.action.addr \in Addrs
           /\ \A e \in datIn' \cup datIn : e.addr = a \/ (e \in datIn /\ e \in datIn')
           /\ \A e \in datIn' : e.addr \in Addrs
        BY <1>4, <1>14 DEF CInv, MessagesInv
    <2>12. /\ \A x \in Nodes, b \in Addrs \ {a} : l1'[x][b] = l1[x][b]
           /\ latest' \in [Addrs -> Data] /\ \A b \in Addrs \ {a} : latest'[b] = latest[b]
           /\ requests' \subseteq requests /\ \A q \in requests : q.addr # a => q \in requests'
        BY <1>4, <1>5 DEF CInv, TypeOK
    <2> QED BY <1>5, <2>8, <2>9, <2>10, <2>11, <2>12, OutsideStep
<1> QED BY <1>4, <1>13, <1>14

\* Memory answers a read of a line that only it has.
LEMMA AnswerReadStep ==
    ASSUME SafeUse, CInv, NEW m \in net, AnswerRead(m), UNCHANGED <<engineVars, sent>>,
           NEW a \in Addrs, m.action.addr = a, NEW r \in requests, NEW k \in DOMAIN pending,
           Fetching(a, r, k)
    PROVE  CInv'
<1>1. PICK d : d = DataMessage(Memory, ReadNoSnp(a, k), ZeroData)
    OBVIOUS
<1>2. /\ NetOf(a) = {m} /\ DataOf(a) = {} /\ m = ReadMessage(a, k)
    BY DEF NetOf, Fetching
<1>3. m.action = ReadNoSnp(a, k)
    BY <1>2 DEF ReadMessage, Message
<1>4. /\ net' = net \ {m} /\ datIn' = datIn \cup {d}
      /\ UNCHANGED <<l1, latest, requests, rspIn>>
    BY <1>1, <1>3 DEF AnswerRead, world
<1>5. d.addr = a /\ d.data = 0
    BY <1>1, VersionsAssumption DEF DataMessage, ReadNoSnp
<1>6. /\ NetOf(a)' = {} /\ DataOf(a)' = {d} /\ ReqsOf(a)' = ReqsOf(a)
    BY <1>2, <1>4, <1>5 DEF NetOf, DataOf, ReqsOf
<1>7. UNCHANGED <<cache, pending, snoopToOrig, memToOrig, snoopRespCounted,
                  nextSnoopTxnId, nextInternalTxnId, fault>>
    BY DEF engineVars, tables, counters
<1>8. ~Present(cache, a) /\ Copies(a) /\ latest[a] = 0 /\ Shape(a)
    <2>1. LineInv(a) /\ ~Present(cache, a)
        BY DEF CInv, Fetching
    <2> QED BY <2>1 DEF LineInv, L2Current, Snooping
<1>9. \A x \in Nodes : ~Holds(x, a) /\ ~Writer(x, a)
    BY <1>8 DEF Copies, GetSharers, Holds, Writer
<1>10. LineInv(a)'
    <2>1. Copies(a)' /\ Shape(a)'
        BY <1>4, <1>7, <1>8 DEF Copies, Shape, Shaped, Holds, Writer, NoWriter
    <2>2. DataCurrent(a)'
        BY <1>4, <1>5, <1>6, <1>8, <1>9 DEF DataCurrent, NoWriter, Writer
    <2>3. L2Current(a)'
        BY <1>4, <1>7, <1>8 DEF L2Current
    <2>4. Fetching(a, r, k)'
        <3>1. EntriesOf(a)' = EntriesOf(a) /\ pending'[k] = pending[k] /\ ~Present(cache, a)'
            BY <1>7, <1>8 DEF EntriesOf
        <3> QED BY <1>1, <1>6, <3>1 DEF Fetching
    <2>5. Unsnooped(a)'
        <3>1. r \in requests' /\ k \in DOMAIN pending'
            BY <1>4, <1>7
        <3> QED BY <2>4, <3>1 DEF Unsnooped
    <2> QED BY <2>1, <2>2, <2>3, <2>5 DEF LineInv
<1>11. PICK ids \in SUBSET DOMAIN snoopToOrig : ids = {}
    OBVIOUS
<1>12. rspIn' = rspIn \cup ids /\ \A s \in ids : snoopToOrig[s] \in EntriesOf(a)
    BY <1>4, <1>11
<1>13. /\ \A o \in net' \cup net : o.action.addr = a \/ (o \in net /\ o \in net')
       /\ \A o \in net' : o.action.addr \in Addrs
       /\ \A e \in datIn' \cup datIn : e.addr = a \/ (e \in datIn /\ e \in datIn')
       /\ \A e \in datIn' : e.addr \in Addrs
    BY <1>4, <1>5 DEF CInv, MessagesInv
<1>14. /\ \A x \in Nodes, b \in Addrs \ {a} : l1'[x][b] = l1[x][b]
       /\ l1' \in [Nodes -> [Addrs -> [state : L1State, data : Data]]]
       /\ latest' \in [Addrs -> Data] /\ \A b \in Addrs \ {a} : latest'[b] = latest[b]
       /\ requests' \subseteq requests /\ \A q \in requests : q.addr # a => q \in requests'
    BY <1>4 DEF CInv, TypeOK
<1> QED BY <1>10, <1>11, <1>12, <1>13, <1>14, OutsideStep

\* An answer ends its request, and no other.
LEMMA OnlyAnswered ==
    ASSUME CInv, NEW m \in net, NEW r \in requests, NEW a \in Addrs, ReqsOf(a) = {r},
           m.action.txnId = r.txnID, m.action.destNode = r.srcNodeID, Over(m)
    PROVE  /\ Answered(m) = {r} /\ requests' = requests \ {r}
           /\ ReqsOf(a)' = {} /\ r.addr = a
<1>1. \A q \in requests : q.txnID = r.txnID => q = r
    BY DEF CInv, MessagesInv
<1>2. Answered(m) = {r}
    BY <1>1 DEF Answered
<1> QED BY <1>2 DEF Over, ReqsOf

\* The requester receives what it was granted.
LEMMA ReceiveStep ==
    ASSUME SafeUse, CInv, NEW m \in net, ReceiveLine(m) \/ ReceiveUpgrade(m),
           UNCHANGED <<engineVars, sent>>,
           NEW a \in Addrs, m.action.addr = a, NEW r \in requests, Answering(a, r, m)
    PROVE  CInv'
<1>1. PICK n : n = r.srcNodeID
    OBVIOUS
<1>2. /\ Present(cache, a) /\ ReqsOf(a) = {r} /\ EntriesOf(a) = {}
      /\ NetOf(a) = {m} /\ DataOf(a) = {} /\ NoWriter(a)
      /\ Grants(r, m, GetState(cache, a), GetSharers(cache, a))
      /\ m.type # "Comp_UC" => m.action.data = latest[a]
    BY DEF Answering, Granted
<1>3. m.action.txnId = r.txnID /\ m.action.destNode = n
    BY <1>1, <1>2 DEF Grants
<1>4. Over(m) /\ net' = net \ {m} /\ UNCHANGED <<latest, rspIn, datIn>>
    BY DEF ReceiveLine, ReceiveUpgrade
<1>5. Answered(m) = {r} /\ requests' = requests \ {r} /\ ReqsOf(a)' = {} /\ r.addr = a
    BY <1>1, <1>2, <1>3, <1>4, OnlyAnswered
<1>6. n \in Nodes
    BY <1>1, RequestTypes DEF CInv, TypeOK
<1>7. /\ l1[n][a] \in [state : L1State, data : Data] /\ latest[a] \in Data
      /\ \A state \in L1State : L1Line(state, latest[a]) \in [state : L1State, data : Data]
    BY <1>6, CopyTypes DEF CInv, TypeOK
<1>8. Copies(a) /\ Shape(a) /\ GetData(cache, a) = latest[a]
    <2>1. LineInv(a) /\ \A q \in requests : ~Snooping(a, q)
        BY <1>2 DEF CInv, Snooping
    <2>2. Copies(a) /\ Shape(a) /\ L2Current(a)
        BY <2>1 DEF LineInv
    <2> QED BY <1>2, <2>2 DEF L2Current, NoWriter, Writer
<1>9. PICK copy : /\ copy \in [state : L1State, data : Data] /\ Gets(n, a, copy)
                  /\ \/ copy = l1[n][a]
                     \/ /\ copy = L1Line("SC", latest[a]) /\ n \in GetSharers(cache, a)
                     \/ /\ copy = L1Line("UD", latest[a])
                        /\ GetState(cache, a) = "UD" /\ GetSharers(cache, a) = {n}
                     \/ /\ copy = L1Line("UC", latest[a]) /\ UpgradedBy(a, n)
                        /\ GetState(cache, a) = "UC" /\ GetSharers(cache, a) = {n}
    <2>1. CASE ReceiveUpgrade(m)
        <3>1. m.type = "Comp_UC"
            BY <2>1 DEF ReceiveUpgrade
        <3>2. /\ UpgradedBy(a, n)
              /\ GetState(cache, a) = "UC" /\ GetSharers(cache, a) = {n}
            BY <1>1, <1>2, <1>5, <3>1 DEF Grants, GrantedState
        <3>3. l1' = [l1 EXCEPT ![n][a] =
                        IF @.state = "SC" THEN L1Line("UC", @.data) ELSE @]
            BY <1>3, <2>1 DEF ReceiveUpgrade
        <3> DEFINE copy == IF l1[n][a].state = "SC" THEN L1Line("UC", l1[n][a].data)
                           ELSE l1[n][a]
        <3>4. Gets(n, a, copy)
            BY <3>3, Zenon DEF Gets
        <3>5. CASE l1[n][a].state = "SC"
            <4>1. l1[n][a].data = latest[a]
                BY <1>6, <1>8, <3>5 DEF Copies, Holds
            <4>2. copy = L1Line("UC", latest[a]) /\ "UC" \in L1State
                BY <3>5, <4>1 DEF L1State
            <4> QED BY <1>7, <3>2, <3>4, <4>2
        <3>6. CASE l1[n][a].state # "SC"
            <4>1. copy = l1[n][a]
                BY <3>6
            <4> QED BY <1>7, <3>4, <4>1
        <3> QED BY <3>5, <3>6
    <2>2. CASE ReceiveLine(m)
        <3>1. m.type \in DOMAIN GrantedState /\ m.type # "Comp_UC"
            BY <2>2 DEF ReceiveLine, GrantedState
        <3>2. m.action.data = latest[a]
            BY <1>2, <3>1
        <3>3. l1' = [l1 EXCEPT ![n][a] =
                        IF {q \in Answered(m) : q.type # "ReadOnce"} # {}
                        THEN L1Line(GrantedState[m.type], latest[a]) ELSE @]
            BY <1>3, <2>2, <3>2 DEF ReceiveLine
        <3>4. CASE r.type = "ReadOnce"
            <4>1. {q \in Answered(m) : q.type # "ReadOnce"} = {}
                BY <1>5, <3>4
            <4>2. l1' = [l1 EXCEPT ![n][a] = @]
                BY <3>3, <4>1
            <4>3. Gets(n, a, l1[n][a])
                BY <4>2, Zenon DEF Gets
            <4> QED BY <1>7, <4>3
        <3>5. CASE r.type # "ReadOnce"
            <4>1. {q \in Answered(m) : q.type # "ReadOnce"} # {}
                BY <1>5, <3>5
            <4>2. Gets(n, a, L1Line(GrantedState[m.type], latest[a]))
                BY <3>3, <4>1 DEF Gets
            <4>3. \/ m.type = "CompData_SC" /\ n \in GetSharers(cache, a)
                  \/ /\ m.type = "CompData_UD_PD"
                     /\ GetState(cache, a) = "UD" /\ GetSharers(cache, a) = {n}
                BY <1>1, <1>2, <3>1, <3>5 DEF Grants
            <4>4. /\ GrantedState["CompData_SC"] = "SC"
                  /\ GrantedState["CompData_UD_PD"] = "UD"
                  /\ {"SC", "UD"} \subseteq L1State
                BY DEF GrantedState, L1State
            <4> QED BY <1>7, <4>2, <4>3, <4>4
        <3> QED BY <3>4, <3>5
    <2> QED BY <2>1, <2>2
<1>10. /\ l1' \in [Nodes -> [Addrs -> [state : L1State, data : Data]]]
       /\ l1'[n][a] = copy
       /\ \A x \in Nodes, b \in Addrs : (x # n \/ b # a) => l1'[x][b] = l1[x][b]
    <2>1. TypeOK
        BY DEF CInv
    <2> QED BY <1>6, <1>9, <2>1, CopyChanged
<1>11. UNCHANGED <<cache, pending, snoopToOrig, memToOrig, snoopRespCounted,
                   nextSnoopTxnId, nextInternalTxnId, fault>>
    BY DEF engineVars, tables, counters
<1>12. LineInv(a)'
    <2>1. Idle(a)'
        BY <1>2, <1>4, <1>5, <1>11 DEF Idle, NetOf, DataOf, EntriesOf
    <2>2. DataCurrent(a)'
        BY <2>1 DEF DataCurrent, Idle
    <2>3. L2Current(a)'
        <3>1. Present(cache, a)' /\ GetData(cache, a)' = latest'[a]
            BY <1>2, <1>4, <1>8, <1>11
        <3> QED BY <3>1 DEF L2Current
    <2>4. \A x \in Nodes \ {n} : l1'[x][a] = l1[x][a] /\ ~Writer(x, a)'
        BY <1>2, <1>10 DEF NoWriter, Writer
    <2>5. CASE copy = l1[n][a]
        <3>1. \A x \in Nodes : l1'[x][a] = l1[x][a]
            BY <1>10, <2>4, <2>5
        <3>2. \A x \in Nodes : (Holds(x, a)' <=> Holds(x, a)) /\ ~Writer(x, a)'
            BY <1>2, <3>1 DEF NoWriter, Writer, Holds
        <3>3. Copies(a)' /\ Shape(a)'
            BY <1>4, <1>8, <1>11, <3>1, <3>2 DEF Copies, Shape, Shaped, NoWriter
        <3> QED BY <2>1, <2>2, <2>3, <3>3 DEF LineInv, Unsnooped
    <2>6. CASE copy = L1Line("SC", latest[a]) /\ n \in GetSharers(cache, a)
        <3>1. l1'[n][a].state = "SC" /\ l1'[n][a].data = latest[a]
            BY <1>10, <2>6 DEF L1Line
        <3>2. NoWriter(a)'
            BY <2>4, <3>1 DEF NoWriter, Writer
        <3>3. Copies(a)'
            BY <1>4, <1>8, <1>11, <2>4, <2>6, <3>1, <3>2 DEF Copies, NoWriter, Holds
        <3>4. Shape(a)'
            BY <1>8, <1>11, <3>2 DEF Shape, Shaped, NoWriter
        <3> QED BY <2>1, <2>2, <2>3, <3>3, <3>4 DEF LineInv, Unsnooped
    <2>7. ASSUME NEW state \in {"UC", "UD"}, copy = L1Line(state, latest[a]),
                 GetState(cache, a) = state, GetSharers(cache, a) = {n},
                 state = "UC" => UpgradedBy(a, n)
          PROVE  LineInv(a)'
        <3>1. l1'[n][a].state = state /\ l1'[n][a].data = latest[a]
            BY <1>10, <2>7 DEF L1Line
        <3>2. \A x \in Nodes \ {n} : ~Holds(x, a)'
            BY <1>8, <2>4, <2>7 DEF Copies, Holds
        <3>3. \A u \in Nodes : ~EvictedBy(a, u)
            BY <1>8, <2>7 DEF Shape, Shaped
        <3>4. Copies(a)'
            BY <1>4, <1>11, <2>4, <2>7, <3>1, <3>2, <3>3 DEF Copies
        <3>5. Shape(a)'
            BY <1>8, <1>11, <2>4, <2>7, <3>3 DEF Shape, Shaped
        <3> QED BY <2>1, <2>2, <2>3, <3>4, <3>5 DEF LineInv, Unsnooped
    <2> QED BY <1>9, <2>5, <2>6, <2>7
<1>13. PICK ids \in SUBSET DOMAIN snoopToOrig : ids = {}
    OBVIOUS
<1>14. rspIn' = rspIn \cup ids /\ \A s \in ids : snoopToOrig[s] \in EntriesOf(a)
    BY <1>4, <1>13
<1>15. /\ \A o \in net' \cup net : o.action.addr = a \/ (o \in net /\ o \in net')
       /\ \A o \in net' : o.action.addr \in Addrs
       /\ \A e \in datIn' \cup datIn : e.addr = a \/ (e \in datIn /\ e \in datIn')
       /\ \A e \in datIn' : e.addr \in Addrs
    BY <1>4 DEF CInv, MessagesInv
<1>16. /\ \A x \in Nodes, b \in Addrs \ {a} : l1'[x][b] = l1[x][b]
       /\ latest' \in [Addrs -> Data] /\ \A b \in Addrs \ {a} : latest'[b] = latest[b]
       /\ requests' \subseteq requests /\ \A q \in requests : q.addr # a => q \in requests'
    BY <1>4, <1>5, <1>10 DEF CInv, TypeOK
<1> QED BY <1>10, <1>12, <1>13, <1>14, <1>15, <1>16, OutsideStep

\* The writer answers with its copy and gives it up.
LEMMA SendWriteDataStep ==
    ASSUME SafeUse, CInv, NEW m \in net, SendWriteData(m), UNCHANGED <<engineVars, sent>>,
           NEW a \in Addrs, m.action.addr = a, NEW k \in DOMAIN pending, AwaitingWrite(a, k)
    PROVE  CInv'
<1>1. PICK txn, n : txn = pending[k].origReq /\ n = txn.srcNodeID
    OBVIOUS
<1>2. m \in NetOf(a)
    BY DEF NetOf
<1>3. /\ EntriesOf(a) = {k} /\ pending[k].state = "WaitL1Data" /\ k = txn.txnID
      /\ GetState(cache, a) = "UD" /\ n \in GetSharers(cache, a)
      /\ NetOf(a) = {m} /\ m = WriteAnswer(txn) /\ DataOf(a) = {}
      /\ l1[n][a].state = "UD"
    BY <1>1, <1>2 DEF AwaitingWrite
<1>4. PICK r \in requests : ReqsOf(a) = {r} /\ TxnOf(r) = txn
    BY <1>1, <1>2 DEF AwaitingWrite
<1>5. /\ r.addr = a /\ r.srcNodeID = n /\ r.txnID = k /\ n \in Nodes
      /\ m.action = CompDBIDResp(txn)
      /\ m.action.txnId = k /\ m.action.destNode = n /\ txn.addr = a
    <2>1. r.addr = a /\ r.srcNodeID = n /\ r.txnID = k
        BY <1>1, <1>3, <1>4 DEF TxnOf, ReqsOf
    <2>2. r.srcNodeID \in Nodes
        BY RequestTypes DEF CInv, TypeOK
    <2>3. txn.addr = a
        BY <1>4, <2>1 DEF TxnOf
    <2> QED BY <1>1, <1>3, <2>1, <2>2, <2>3 DEF WriteAnswer, Message, CompDBIDResp
<1>6. PICK d : d = DataMessage(n, m.action, l1[n][a].data)
    OBVIOUS
<1>7. /\ Over(m) /\ net' = net \ {m} /\ datIn' = datIn \cup {d}
      /\ Gets(n, a, NoLine) /\ UNCHANGED <<latest, rspIn>>
    BY <1>5, <1>6 DEF SendWriteData, Gets
<1>8. requests' = requests \ {r} /\ ReqsOf(a)' = {}
    BY <1>4, <1>5, <1>7, OnlyAnswered
<1>9. /\ l1' \in [Nodes -> [Addrs -> [state : L1State, data : Data]]]
      /\ l1'[n][a] = NoLine
      /\ \A x \in Nodes, b \in Addrs : (x # n \/ b # a) => l1'[x][b] = l1[x][b]
    <2>1. TypeOK
        BY DEF CInv
    <2>2. NoLine \in [state : L1State, data : Data]
        BY <2>1, CopyTypes
    <2> QED BY <1>5, <1>7, <2>1, <2>2, CopyChanged
<1>10. /\ cache' = cache /\ pending' = pending /\ EntriesOf(a)' = EntriesOf(a)
    BY DEF engineVars, tables, counters, EntriesOf
<1>11. Copies(a) /\ Shape(a)
    <2>1. LineInv(a) /\ \A q \in requests : ~Snooping(a, q)
        BY <1>3 DEF CInv, Snooping
    <2> QED BY <2>1 DEF LineInv
<1>12. d.txnId = k /\ d.addr = a /\ d.data = latest[a]
    <2>1. l1[n][a].data = latest[a]
        BY <1>3, <1>5, <1>11 DEF Copies, Holds
    <2> QED BY <1>5, <1>6, <2>1 DEF DataMessage, CompDBIDResp
<1>13. NetOf(a)' = {} /\ DataOf(a)' = {d} /\ d \in datIn'
    BY <1>3, <1>7, <1>12 DEF NetOf, DataOf
<1>14. \A x \in Nodes : ~Holds(x, a)' /\ ~Writer(x, a)'
    <2>1. \A x \in Nodes \ {n} : ~Holds(x, a)
        BY <1>3, <1>5, <1>11 DEF Copies, Writer
    <2>2. \A x \in Nodes : l1'[x][a].state = "I"
        BY <1>9, <2>1 DEF Holds, NoLine, L1Line
    <2> QED BY <2>2 DEF Holds, Writer
<1>15. LineInv(a)'
    <2>1. Copies(a)'
        BY <1>7, <1>11, <1>14 DEF Copies, NoWriter
    <2>2. DataCurrent(a)'
        BY <1>7, <1>12, <1>13, <1>14 DEF DataCurrent, NoWriter
    <2>3. L2Current(a)'
        <3>1. Present(cache, a)'
            BY <1>3, <1>10 DEF GetState
        <3> QED BY <1>13, <3>1 DEF L2Current
    <2>4. Shape(a)'
        BY <1>10, <1>11, <1>14 DEF Shape, Shaped
    <2>5. AwaitingWrite(a, k)'
        BY <1>1, <1>3, <1>8, <1>10, <1>12, <1>13 DEF AwaitingWrite
    <2>6. Unsnooped(a)'
        BY <1>10, <2>5 DEF Unsnooped
    <2> QED BY <2>1, <2>2, <2>3, <2>4, <2>6 DEF LineInv
<1>16. PICK ids \in SUBSET DOMAIN snoopToOrig : ids = {}
    OBVIOUS
<1>17. rspIn' = rspIn \cup ids /\ \A s \in ids : snoopToOrig[s] \in EntriesOf(a)
    BY <1>7, <1>16
<1>18. /\ \A o \in net' \cup net : o.action.addr = a \/ (o \in net /\ o \in net')
       /\ \A o \in net' : o.action.addr \in Addrs
       /\ \A e \in datIn' \cup datIn : e.addr = a \/ (e \in datIn /\ e \in datIn')
       /\ \A e \in datIn' : e.addr \in Addrs
    BY <1>7, <1>12 DEF CInv, MessagesInv
<1>19. /\ \A x \in Nodes, b \in Addrs \ {a} : l1'[x][b] = l1[x][b]
       /\ latest' \in [Addrs -> Data] /\ \A b \in Addrs \ {a} : latest'[b] = latest[b]
       /\ requests' \subseteq requests /\ \A q \in requests : q.addr # a => q \in requests'
    BY <1>5, <1>7, <1>8, <1>9 DEF CInv, TypeOK
<1> QED BY <1>9, <1>15, <1>16, <1>17, <1>18, <1>19, OutsideStep

\* What each phase has in flight from the L2, by kind.
LEMMA PeerPhase ==
    ASSUME CInv, NEW m \in net, NEW a \in Addrs, m.action.addr = a
    PROVE  \/ \E r \in requests :
                 /\ Snooping(a, r) /\ m.channel = "snp"
                 /\ m.type \in {"SnpCleanInvalid", "SnpUnique", "SnpOnce"}
           \/ \E r \in requests, k \in DOMAIN pending :
                 /\ Fetching(a, r, k) /\ m.channel = "req" /\ m.type = "ReadNoSnp"
           \/ \E r \in requests :
                 /\ Answering(a, r, m) /\ m.channel # "snp"
                 /\ m.type \in {"CompData_SC", "CompData_UC", "CompData_UD_PD", "Comp_UC"}
           \/ \E k \in DOMAIN pending :
                 /\ AwaitingWrite(a, k) /\ m.channel = "rsp" /\ m.type = "CompDBIDResp"
<1>1. LineInv(a) /\ m \in NetOf(a)
    BY DEF CInv, NetOf
<1>2. ASSUME NEW r \in requests, Snooping(a, r)
      PROVE  m.channel = "snp" /\ m.type \in {"SnpCleanInvalid", "SnpUnique", "SnpOnce"}
    BY <1>1, <1>2 DEF Snooping, SnoopInFlight
<1>3. ASSUME NEW r \in requests, NEW k \in DOMAIN pending, Fetching(a, r, k)
      PROVE  m.channel = "req" /\ m.type = "ReadNoSnp"
    <2>1. m = ReadMessage(a, k)
        BY <1>1, <1>3 DEF Fetching
    <2> QED BY <2>1 DEF ReadMessage, Message
<1>4. ASSUME NEW r \in requests, NEW o \in net, Answering(a, r, o)
      PROVE  /\ m = o /\ m.channel # "snp"
             /\ m.type \in {"CompData_SC", "CompData_UC", "CompData_UD_PD", "Comp_UC"}
    <2>1. m = o /\ Granted(a, r, o)
        BY <1>1, <1>4 DEF Answering
    <2>2. DOMAIN GrantedState = {"CompData_SC", "CompData_UC", "CompData_UD_PD"}
        BY DEF GrantedState
    <2> QED BY <2>1, <2>2 DEF Granted, Grants
<1>5. ASSUME NEW k \in DOMAIN pending, AwaitingWrite(a, k)
      PROVE  m.channel = "rsp" /\ m.type = "CompDBIDResp"
    <2>1. m = WriteAnswer(pending[k].origReq)
        BY <1>1, <1>5 DEF AwaitingWrite
    <2> QED BY <2>1 DEF WriteAnswer, Message
<1>6. ~Idle(a)
    BY <1>1 DEF Idle
<1> QED BY <1>1, <1>2, <1>3, <1>4, <1>5, <1>6 DEF LineInv, Unsnooped

\* A step of a peer.
LEMMA PeerStep ==
    ASSUME SafeUse, CInv, NEW m \in net, Peer(m)
    PROVE  CInv'
<1>1. PICK a \in Addrs : m.action.addr = a
    BY DEF CInv, MessagesInv
<1>2. UNCHANGED <<engineVars, sent>>
    BY DEF Peer
<1>3. CASE ReceiveLine(m) \/ ReceiveUpgrade(m)
    <2>1. m.type \in {"CompData_SC", "CompData_UC", "CompData_UD_PD", "Comp_UC"}
        BY <1>3 DEF ReceiveLine, ReceiveUpgrade, GrantedState
    <2>2. PICK r \in requests : Answering(a, r, m)
        BY <1>1, <2>1, PeerPhase
    <2> QED BY <1>1, <1>2, <1>3, <2>2, ReceiveStep
<1>4. CASE AnswerSnoop(m)
    <2>1. m.channel = "snp"
        BY <1>4 DEF AnswerSnoop
    <2>2. PICK r \in requests : Snooping(a, r)
        BY <1>1, <2>1, PeerPhase
    <2> QED BY <1>1, <1>2, <1>4, <2>2, AnswerSnoopStep
<1>5. CASE SendWriteData(m)
    <2>1. m.type = "CompDBIDResp"
        BY <1>5 DEF SendWriteData
    <2>2. PICK k \in DOMAIN pending : AwaitingWrite(a, k)
        BY <1>1, <2>1, PeerPhase
    <2> QED BY <1>1, <1>2, <1>5, <2>2, SendWriteDataStep
<1>6. CASE AnswerRead(m)
    <2>1. m.type = "ReadNoSnp"
        BY <1>6 DEF AnswerRead
    <2>2. PICK r \in requests, k \in DOMAIN pending : Fetching(a, r, k)
        BY <1>1, <2>1, PeerPhase
    <2> QED BY <1>1, <1>2, <1>6, <2>2, AnswerReadStep
<1> QED BY <1>3, <1>4, <1>5, <1>6 DEF Peer

\* A program writes a line that is its own, and the L2 has no more of its data.
LEMMA WriteStep ==
    ASSUME SafeUse, CInv, NEW n \in Nodes, NEW a \in Addrs, Write(n, a)
    PROVE  CInv'
<1>1. PICK copy : copy = L1Line("UD", latest[a] + 1)
    OBVIOUS
<1>2. /\ Writer(n, a) /\ latest[a] + 1 \in Data
      /\ \A q \in requests : <<q.srcNodeID, q.addr>> # <<n, a>>
      /\ latest' = [latest EXCEPT ![a] = @ + 1] /\ Gets(n, a, copy)
      /\ UNCHANGED <<engineVars, requests, sent, net, rspIn, datIn>>
    BY <1>1 DEF Write, Writer, Gets
<1>3. /\ copy \in [state : L1State, data : Data]
      /\ copy.state = "UD" /\ copy.data = latest[a] + 1
    BY <1>1, <1>2 DEF L1Line, L1State
<1>4. /\ l1' \in [Nodes -> [Addrs -> [state : L1State, data : Data]]]
      /\ l1'[n][a] = copy
      /\ \A x \in Nodes, b \in Addrs : (x # n \/ b # a) => l1'[x][b] = l1[x][b]
    <2>1. TypeOK
        BY DEF CInv
    <2> QED BY <1>2, <1>3, <2>1, CopyChanged
<1>5. latest' \in [Addrs -> Data] /\ latest'[a] = latest[a] + 1
    BY <1>2 DEF CInv, TypeOK
<1>6. /\ cache' = cache /\ pending' = pending /\ snoopToOrig' = snoopToOrig
      /\ snoopRespCounted' = snoopRespCounted
      /\ ReqsOf(a)' = ReqsOf(a) /\ NetOf(a)' = NetOf(a) /\ DataOf(a)' = DataOf(a)
      /\ EntriesOf(a)' = EntriesOf(a) /\ \A j : SnoopIdsOf(j)' = SnoopIdsOf(j)
    BY <1>2 DEF engineVars, tables, ReqsOf, NetOf, DataOf, EntriesOf, SnoopIdsOf
<1>7. Copies(a) /\ DataCurrent(a) /\ LineInv(a)
    BY DEF CInv, LineInv
<1>8. /\ ~NoWriter(a) /\ DataOf(a) = {} /\ Holds(n, a) /\ n \in GetSharers(cache, a)
      /\ Present(cache, a)
      /\ \A x \in Nodes \ {n} : ~Holds(x, a)
      /\ \A u \in Nodes : ~EvictedBy(a, u)
    <2>1. ~NoWriter(a) /\ Holds(n, a)
        BY <1>2 DEF NoWriter, Writer, Holds
    <2> QED BY <1>2, <1>7, <2>1 DEF Copies, DataCurrent, GetSharers
<1>9. \A x \in Nodes : (Holds(x, a)' <=> Holds(x, a)) /\ (Writer(x, a)' <=> Writer(x, a))
    <2>1. Holds(n, a)' /\ Writer(n, a)'
        BY <1>3, <1>4 DEF Holds, Writer
    <2> QED BY <1>2, <1>4, <1>8, <2>1 DEF Holds, Writer
<1>10. Copies(a)'
    <2>1. \A x \in Nodes : Holds(x, a)' =>
              x \in GetSharers(cache, a)' /\ l1'[x][a].data = latest'[a]
        BY <1>3, <1>4, <1>5, <1>6, <1>8, <1>9
    <2>2. \A x, o \in Nodes : (x # o /\ Writer(x, a)') => ~Holds(o, a)'
        <3>1. \A x \in Nodes : Writer(x, a) => Holds(x, a)
            BY DEF Writer, Holds
        <3> QED BY <1>8, <1>9, <3>1
    <2> QED BY <1>8, <2>1, <2>2 DEF Copies
<1>11. DataCurrent(a)' /\ L2Current(a)'
    <2>1. Present(cache, a)' /\ l1'[n][a].state = "UD"
        BY <1>3, <1>4, <1>6, <1>8
    <2> QED BY <1>6, <1>8, <2>1 DEF DataCurrent, L2Current
<1>12. ASSUME \E r \in requests : Snooping(a, r)
       PROVE  LineInv(a)'
    <2>1. PICK r \in requests : Snooping(a, r)
        BY <1>12
    <2>2. r.srcNodeID \in Nodes \ {n}
        <3>1. r.srcNodeID \in Nodes /\ r.addr = a
            BY <2>1, RequestTypes DEF CInv, TypeOK, Snooping, ReqsOf
        <3> QED BY <1>2, <3>1
    <2>3. PICK k : k = r.txnID
        OBVIOUS
    <2>4. OpenSnoops(a, k)' = OpenSnoops(a, k)
        BY <1>2, <1>6 DEF OpenSnoops
    <2>5. \A m \in NetOf(a) : SnoopInFlight(a, r, m)'
        BY <1>2, <1>6, <2>1 DEF Snooping, SnoopInFlight
    <2>6. l1'[r.srcNodeID][a].state \in SentIn[r.type]
        BY <1>4, <2>1, <2>2 DEF Snooping
    <2>7. \A x \in Nodes \ {r.srcNodeID} : Holds(x, a)' => \E m \in NetOf(a) : m.action.destNode = x
        BY <1>9, <2>1 DEF Snooping
    <2>8. Snooping(a, r)'
        <3>1. /\ Present(cache, a)' /\ pending'[k] = pending[k]
            BY <1>6, <1>8
        <3>2. \A d \in DataOf(a)' : FALSE
            BY <1>6, <1>8
        <3> QED BY <1>6, <2>1, <2>3, <2>4, <2>5, <2>6, <2>7, <3>1, <3>2 DEF Snooping
    <2> QED BY <1>2, <1>10, <1>11, <2>8 DEF LineInv
<1>13. ASSUME Shape(a), Unsnooped(a)
       PROVE  LineInv(a)'
    <2>1. Shape(a)'
        BY <1>6, <1>9, <1>13 DEF Shape, Shaped
    <2>2. \A r \in requests, k \in DOMAIN pending : ~Fetching(a, r, k)
        BY <1>8 DEF Fetching
    <2>3. \A r \in requests, m \in net : ~Answering(a, r, m)
        BY <1>8 DEF Answering
    <2>4. \A k \in DOMAIN pending : ~AwaitingWrite(a, k)
        <3> SUFFICES ASSUME NEW k \in DOMAIN pending, AwaitingWrite(a, k) PROVE FALSE
            OBVIOUS
        <3>1. PICK txn : txn = pending[k].origReq
            OBVIOUS
        <3>2. PICK r \in requests : ReqsOf(a) = {r} /\ TxnOf(r) = txn
            BY <1>8, <3>1 DEF AwaitingWrite
        <3>3. r.addr = a /\ r.srcNodeID = txn.srcNodeID /\ r.srcNodeID \in Nodes
            BY <3>2, RequestTypes DEF ReqsOf, TxnOf, CInv, TypeOK
        <3>4. l1[txn.srcNodeID][a].state = "UD"
            BY <1>8, <3>1 DEF AwaitingWrite
        <3>5. Holds(r.srcNodeID, a)
            BY <3>3, <3>4 DEF Holds
        <3> QED BY <1>2, <1>8, <3>3, <3>5
    <2>5. Idle(a)
        BY <1>13, <2>2, <2>3, <2>4 DEF Unsnooped
    <2>6. Idle(a)'
        BY <1>6, <2>5 DEF Idle
    <2> QED BY <1>10, <1>11, <2>1, <2>6 DEF LineInv, Unsnooped
<1>14. LineInv(a)'
    BY <1>7, <1>12, <1>13 DEF LineInv
<1>15. PICK ids \in SUBSET DOMAIN snoopToOrig : ids = {}
    OBVIOUS
<1>16. rspIn' = rspIn \cup ids /\ \A s \in ids : snoopToOrig[s] \in EntriesOf(a)
    BY <1>2, <1>15
<1>17. /\ \A o \in net' \cup net : o.action.addr = a \/ (o \in net /\ o \in net')
       /\ \A o \in net' : o.action.addr \in Addrs
       /\ \A e \in datIn' \cup datIn : e.addr = a \/ (e \in datIn /\ e \in datIn')
       /\ \A e \in datIn' : e.addr \in Addrs
    BY <1>2 DEF CInv, MessagesInv
<1>18. /\ \A x \in Nodes, b \in Addrs \ {a} : l1'[x][b] = l1[x][b]
       /\ \A b \in Addrs \ {a} : latest'[b] = latest[b]
       /\ requests' \subseteq requests /\ \A q \in requests : q.addr # a => q \in requests'
    BY <1>2, <1>4 DEF CInv, TypeOK
<1>19. UNCHANGED <<engineVars, sent>>
    BY <1>2
<1> QED BY <1>4, <1>5, <1>14, <1>15, <1>16, <1>17, <1>18, <1>19, OutsideStep

-----------------------------------------------------------------------------
(* The whole *)

\* At the start no line is anywhere.
LEMMA EmptyCacheSees ==
    /\ EmptyCache \in Caches
    /\ Stores(EmptyCache, Addrs)
    /\ \A a \in Addrs : ~Present(EmptyCache, a)
<1>1. \A i \in SetIndex, w \in Way : EmptyCache[i].lines[w] = ClearedLine
    BY DEF EmptyCache, EmptySet
<1>2. ~IsValid(ClearedLine)
    BY DEF IsValid, ClearedLine
<1>3. EmptyCache \in Caches
    <2>1. EmptySet \in CacheSets
        BY NumWaysAssumption, DataAssumption DEF EmptySet, CacheSets, ClearedLine, CacheLine, LineState, Way
    <2> QED BY <2>1 DEF EmptyCache, Caches
<1>4. \A i \in SetIndex : TagsDistinct(EmptyCache[i].lines)
    BY <1>1, <1>2 DEF TagsDistinct
<1>5. Stores(EmptyCache, Addrs)
    BY <1>1, <1>2, <1>3, <1>4 DEF Stores
<1>6. ASSUME NEW a \in Addrs PROVE ~Present(EmptyCache, a)
    <2>1. a \in Addr /\ GetSetIndex(a) \in SetIndex
        BY AddrsAssumption, AddrTypes
    <2>2. Matches(EmptyCache, a) = {}
        BY <1>1, <1>2, <2>1 DEF Matches, SetOf
    <2> QED BY <1>3, <2>1, <2>2, OneMatch
<1> QED BY <1>3, <1>5, <1>6

\* The initial state satisfies the invariant.
LEMMA CoherentInit == Init => CInv
<1> SUFFICES ASSUME Init PROVE CInv
    OBVIOUS
<1>1. /\ cache = EmptyCache /\ pending = <<>> /\ snoopToOrig = <<>>
      /\ memToOrig = <<>> /\ snoopRespCounted = {}
      /\ nextSnoopTxnId = SnoopIdBase /\ nextInternalTxnId = MemIdBase
      /\ fault = "none"
      /\ l1 = [n \in Nodes |-> [a \in Addrs |-> NoLine]]
      /\ latest = [a \in Addrs |-> 0]
      /\ requests = {} /\ sent = 0 /\ net = {} /\ rspIn = {} /\ datIn = {}
    BY DEF Init, EngineInit
<1>2. DOMAIN pending = {} /\ DOMAIN snoopToOrig = {} /\ DOMAIN memToOrig = {}
    BY <1>1
<1>3. Stores(cache, Addrs) /\ cache \in Caches /\ \A a \in Addrs : ~Present(cache, a)
    BY <1>1, EmptyCacheSees
<1>4. 0 \in Data /\ NoLine \in [state : L1State, data : Data]
    BY VersionsAssumption, DataAssumption DEF NoLine, L1Line, L1State
<1>5. TypeOK
    <2>1. EngineTypeOK
        BY <1>1, <1>2, <1>3, IdsAssumption DEF EngineTypeOK
    <2> QED BY <1>1, <1>4, <2>1 DEF TypeOK
<1>6. IdsInv
    <2>1. 0 * Cardinality(Nodes) = 0
        BY NodesAssumption, FS_CardinalityType
    <2> QED BY <1>1, <1>2, <2>1, IdsAssumption, MaxRequestsAssumption DEF IdsInv
<1>7. MessagesInv
    BY <1>1 DEF MessagesInv
<1>8. ASSUME NEW a \in Addrs PROVE LineInv(a)
    <2>1. \A n \in Nodes : ~Holds(n, a) /\ ~Writer(n, a) /\ l1[n][a].state # "UD"
        BY <1>1 DEF Holds, Writer, NoLine, L1Line
    <2>2. /\ GetState(cache, a) = "I" /\ GetSharers(cache, a) = {} /\ latest[a] = 0
          /\ ~Present(cache, a)
        BY <1>1, <1>3 DEF GetState, GetSharers
    <2>3. Idle(a)
        BY <1>1, <1>2 DEF Idle, ReqsOf, NetOf, DataOf, EntriesOf
    <2>4. Copies(a) /\ DataCurrent(a) /\ L2Current(a)
        BY <2>1, <2>2, <2>3 DEF Copies, DataCurrent, L2Current, NoWriter, Idle
    <2>5. Shape(a)
        BY <2>1, <2>2 DEF Shape, Shaped
    <2> QED BY <2>3, <2>4, <2>5 DEF LineInv, Unsnooped
<1> QED BY <1>1, <1>3, <1>5, <1>6, <1>7, <1>8 DEF CInv

\* Every step preserves it.
LEMMA CoherentNext == ASSUME SafeUse PROVE CInv /\ [Next]_vars => CInv'
<1> SUFFICES ASSUME CInv, [Next]_vars PROVE CInv'
    OBVIOUS
<1>1. ASSUME NEW r \in Requests, Request(r) PROVE CInv'
    BY <1>1, RequestStep
<1>2. ASSUME NEW r \in Requests, Evict(r) PROVE CInv'
    BY <1>2, EvictStep
<1>3. ASSUME NEW d \in datIn, DeliverData(d) PROVE CInv'
    BY <1>3, DataStep
<1>4. ASSUME NEW id \in rspIn, DeliverResponse(id) PROVE CInv'
    BY <1>4, ResponseStep
<1>5. ASSUME NEW m \in net, Peer(m) PROVE CInv'
    BY <1>5, PeerStep
<1>6. ASSUME NEW n \in Nodes, NEW a \in Addrs, Write(n, a) PROVE CInv'
    BY <1>6, WriteStep
<1>7. CASE UNCHANGED vars
    <2>1. /\ UNCHANGED <<cache, pending, snoopToOrig, memToOrig, snoopRespCounted,
                         nextSnoopTxnId, nextInternalTxnId, fault>>
          /\ UNCHANGED <<l1, latest, requests, sent, net, rspIn, datIn>>
        BY <1>7 DEF vars, world, engineVars, tables, counters
    <2>2. TypeOK' /\ fault' = "none" /\ Stores(cache, Addrs)'
        BY <2>1 DEF CInv, TypeOK, EngineTypeOK
    <2>3. IdsInv' /\ MessagesInv'
        BY <2>1 DEF CInv, IdsInv, MessagesInv
    <2>4. \A b \in Addrs : Untouched(b)
        BY <2>1 DEF Untouched, SameLine, ReqsOf, NetOf, DataOf, EntriesOf, SnoopIdsOf
    <2>5. \A b \in Addrs : LineInv(b)'
        BY <2>4, LineKept
    <2> QED BY <2>2, <2>3, <2>5 DEF CInv
<1> QED BY <1>1, <1>2, <1>3, <1>4, <1>5, <1>6, <1>7 DEF Next

\* What the engine and the L1 caches hold, the last writes and the open requests are
\* never out of range.
THEOREM CoherentTypes == ASSUME SafeUse PROVE Spec => []TypeOK
<1>1. CInv => TypeOK
    BY DEF CInv
<1> QED BY <1>1, CoherentInit, CoherentNext, PTL DEF Spec

\* The invariant holds throughout.
LEMMA CoherentAlways == ASSUME SafeUse PROVE Spec => []CInv
BY CoherentInit, CoherentNext, PTL DEF Spec

\* No request meets a dirty victim and no answer finds its line gone.
THEOREM NeverFaults == ASSUME SafeUse PROVE Spec => []NoFault
<1>1. CInv => NoFault
    BY DEF CInv, NoFault
<1> QED BY <1>1, CoherentAlways, PTL

\* An RN-F that may write a line is alone with it.
THEOREM WritersAreAlone == ASSUME SafeUse PROVE Spec => []SingleWriter
<1>1. CInv => SingleWriter
    BY DEF CInv, LineInv, Copies, Writer, SingleWriter
<1> QED BY <1>1, CoherentAlways, PTL

\* The directory knows of every copy.
THEOREM CopiesAreKnown == ASSUME SafeUse PROVE Spec => []DirectoryCovers
<1>1. CInv => DirectoryCovers
    <2>1. ASSUME CInv, NEW n \in Nodes, NEW a \in Addrs, Holds(n, a)
          PROVE  Present(cache, a) /\ n \in GetSharers(cache, a)
        BY <2>1 DEF CInv, LineInv, Copies, GetSharers
    <2> QED BY <2>1 DEF DirectoryCovers
<1> QED BY <1>1, CoherentAlways, PTL

\* The last write is in a cache, in memory or in a message.
THEOREM WritesAreKept == ASSUME SafeUse PROVE Spec => []LastWriteKept
<1>1. CInv => LastWriteKept
    <2> SUFFICES ASSUME CInv, NEW a \in Addrs, latest[a] # ZeroData
                 PROVE  \/ \E n \in Nodes : Holds(n, a) /\ l1[n][a].data = latest[a]
                        \/ Present(cache, a) /\ GetData(cache, a) = latest[a]
                        \/ \E d \in datIn : d.addr = a /\ d.data = latest[a]
        BY DEF LastWriteKept
    <2>1. Copies(a) /\ DataCurrent(a) /\ L2Current(a)
        BY DEF CInv, LineInv
    <2>2. Present(cache, a)
        BY <2>1, VersionsAssumption DEF L2Current
    <2>3. CASE DataOf(a) # {}
        BY <2>1, <2>3 DEF DataCurrent, DataOf
    <2>4. ASSUME NEW n \in Nodes, l1[n][a].state = "UD"
          PROVE  Holds(n, a) /\ l1[n][a].data = latest[a]
        BY <2>1, <2>4 DEF Copies, Holds
    <2> QED BY <2>1, <2>2, <2>3, <2>4 DEF L2Current
<1> QED BY <1>1, CoherentAlways, PTL

\* A step that hands a line to an RN-F hands over the last write.
THEOREM ReadersSeeLastWrite == ASSUME SafeUse PROVE Spec => ReadsSeeLastWrite
<1>1. ASSUME CInv, NEW m \in net \ net', m.type \in DOMAIN GrantedState, [Next]_vars
      PROVE  m.action.data = latest[m.action.addr]
    <2>1. PICK a \in Addrs : m.action.addr = a
        BY <1>1 DEF CInv, MessagesInv
    <2>2. m.type \in {"CompData_SC", "CompData_UC", "CompData_UD_PD"}
        BY <1>1 DEF GrantedState
    <2>3. PICK r \in requests : Answering(a, r, m)
        BY <1>1, <2>1, <2>2, PeerPhase
    <2> QED BY <2>1, <2>2, <2>3 DEF Answering, Granted
<1>2. CInv /\ [Next]_vars =>
          [\A m \in net \ net' :
              m.type \in DOMAIN GrantedState => m.action.data = latest[m.action.addr]]_vars
    BY <1>1
<1> QED BY <1>2, CoherentAlways, PTL DEF Spec, ReadsSeeLastWrite
=============================================================================
