----------------------------- MODULE ChiL2System -----------------------------
(***************************************************************************)
(* The protocol engine between its RN-Fs (the L1 caches) and memory.  The  *)
(* peers are external: of them the model keeps only what messages they owe *)
(* in return for the engine's, and leaves open when, in which order and    *)
(* with what data these arrive.  Channels are sets of messages in flight.  *)
(*                                                                         *)
(*  - An RN-F gives each request an id no earlier request has used.        *)
(*  - A snoop is answered once: by a response without data, or by the      *)
(*    Beats data messages into which a line is cut.                        *)
(*  - Memory answers a read with Beats data messages, a write with an ack. *)
(*  - CompDBIDResp is answered with Beats messages of write data, whose id *)
(*    is that of the request or one of AnonymousIds (the engine's fallback *)
(*    search is there for data that arrives under id 0).                   *)
(***************************************************************************)
EXTENDS ChiProtocolEngine

CONSTANTS
    Addrs,          \* the line addresses requested
    Opcodes,        \* the opcodes requested
    Beats,          \* data messages per line
    AnonymousIds,   \* ids, other than the request's, that write data may bear
    SilentAnswers,  \* when may an RN-F that owes data answer without any:
                    \* "never", "afterWriteBack" of that line, or "anytime"
    GrantedOps,     \* write opcodes that an RN-F uses only for a line it was granted
    MaxEvicts       \* bound on the Evict messages the RN-Fs send

ASSUME AddrsAssumption == Addrs \subseteq Addr
ASSUME OpcodesAssumption == Opcodes \subseteq Opcode
ASSUME BeatsAssumption == Beats \in Nat \ {0}
ASSUME AnonymousIdsAssumption == AnonymousIds \subseteq Nat
ASSUME DisjointIdsAssumption ==
    /\ \A id \in L1TxnIds \cup AnonymousIds : id < SnoopIdBase
    /\ SnoopIdBase <= MemIdBase
ASSUME SilentAnswersAssumption ==
    SilentAnswers \in {"never", "afterWriteBack", "anytime"}
ASSUME GrantedOpsAssumption == GrantedOps \subseteq WriteOps
ASSUME MaxEvictsAssumption == MaxEvicts \in Nat

VARIABLES
    issued,     \* the requests made so far
    completed,  \* ids of the requests answered with Comp or CompData
    snpOut,     \* snoops that an RN-F has yet to answer
    reqOut,     \* reads and writes that memory has yet to answer
    dbidOut,    \* requests for write data that an RN-F has yet to answer
    rspIn,      \* ids of dataless responses on their way to the engine
    datIn,      \* data messages on their way to the engine
    evicts      \* number of Evict messages so far

channels == <<snpOut, reqOut, dbidOut, rspIn, datIn>>
vars == <<engineVars, issued, completed, channels, evicts>>

Requests == [opcode : Opcodes, addr : Addrs, srcNodeID : Nodes, txnID : L1TxnIds]

\* cause is the id of the message or request that this data answers; the engine
\* does not see it.
DataMsgs == [txnId : Nat, addr : Addr, data : Data, beat : 1 .. Beats, cause : Nat]

Beat(id, addr, data, cause) ==
    {[txnId |-> id, addr |-> addr, data |-> data, beat |-> b, cause |-> cause] :
        b \in 1 .. Beats}

-----------------------------------------------------------------------------
(* What the vector returned by a call puts in flight *)

Sent(types) == {actions'[k] : k \in {j \in DOMAIN actions' : actions'[j].type \in types}}

\* The middleware sends every action of the vector.
ExecuteActions ==
    /\ snpOut' = snpOut \cup Sent(SnoopTypes)
    /\ reqOut' = reqOut \cup Sent({"SendReadNoSnp", "SendWriteNoSnp"})
    /\ dbidOut' = dbidOut \cup Sent({"SendCompDBIDResp"})
    /\ completed' = completed \cup
                       {a.txnId : a \in Sent({"SendComp", "SendCompData"})}

\* A step of a peer: the engine does not move.
EngineIdle ==
    /\ actions' = <<>>
    /\ UNCHANGED <<cache, tables, counters, fault, issued, completed, evicts>>

-----------------------------------------------------------------------------
Init ==
    /\ EngineInit
    /\ issued = {}
    /\ completed = {}
    /\ snpOut = {} /\ reqOut = {} /\ dbidOut = {} /\ rspIn = {} /\ datIn = {}
    /\ evicts = 0

FreshId(txn) == \A earlier \in issued : earlier.txnID # txn.txnID

\* An RN-F has one transaction at a time for a line.
InProgress(txn) ==
    IF txn.opcode \in WriteOps \cup {"WriteNoSnp"}
    THEN \E m \in dbidOut : m.txnId = txn.txnID
    ELSE txn.txnID \notin completed

LineFree(txn) ==
    \A earlier \in issued :
        (earlier.srcNodeID = txn.srcNodeID /\ earlier.addr = txn.addr)
            => ~InProgress(earlier)

\* An RN-F writes a line back only after it has been granted the line.
MayWriteBack(txn) ==
    txn.opcode \in GrantedOps =>
        \E earlier \in issued :
            /\ earlier.srcNodeID = txn.srcNodeID
            /\ earlier.addr = txn.addr
            /\ earlier.opcode \in {"ReadUnique", "ReadNotSharedDirty",
                                  "CleanUnique", "ReadShared"}
            /\ earlier.txnID \in completed

\* Snoop ids count up without a limit and would in the end reach the memory ids;
\* the system is studied up to that point.
SnoopIdsLeft == nextSnoopTxnId + Cardinality(Nodes) <= MemIdBase

\* An RN-F's request reaches the engine; a posted write has its data under way.
Request(txn) ==
    /\ RecvRequest(txn)
    /\ ExecuteActions
    /\ issued' = issued \cup {txn}
    /\ IF txn.opcode = "WriteNoSnp"
       THEN \E d \in Data :
               datIn' = datIn \cup Beat(txn.txnID, txn.addr, d, txn.txnID)
       ELSE UNCHANGED datIn
    /\ UNCHANGED <<rspIn, evicts>>

\* The middleware drops the line and answers at once; no later step of an RN-F
\* depends on that answer (Comp_I).
Evict(addr) ==
    /\ evicts < MaxEvicts
    /\ InvalidateLine(addr)
    /\ evicts' = evicts + 1
    /\ UNCHANGED <<issued, completed, channels>>

\* An RN-F that has written the line back need not have it any more, though the
\* engine still records it as a sharer.
MayAnswerSilently(m) ==
    \/ ~m.retToSrc
    \/ SilentAnswers = "anytime"
    \/ /\ SilentAnswers = "afterWriteBack"
       /\ \E txn \in issued :
             /\ txn.opcode \in {"WriteBackFull", "WriteEvictFull"}
             /\ txn.srcNodeID = m.destNode
             /\ txn.addr = m.addr
             /\ ~InProgress(txn)

\* gem5 writes the program's memory image for debugging, in the L2 as well.
FunctionalWrite(addr, data) ==
    /\ fault = "none"
    /\ Present(cache, addr)
    /\ cache' = WriteData(cache, addr, data)
    /\ actions' = <<>>
    /\ UNCHANGED <<tables, counters, fault, issued, completed, channels, evicts>>

AnswerSnoop(m) ==
    /\ fault = "none"
    /\ snpOut' = snpOut \ {m}
    /\ \/ /\ MayAnswerSilently(m)
          /\ rspIn' = rspIn \cup {m.txnId}
          /\ UNCHANGED datIn
       \/ /\ \E d \in Data : datIn' = datIn \cup Beat(m.txnId, m.addr, d, m.txnId)
          /\ UNCHANGED rspIn
    /\ EngineIdle
    /\ UNCHANGED <<reqOut, dbidOut>>

AnswerMemRequest(m) ==
    /\ fault = "none"
    /\ reqOut' = reqOut \ {m}
    /\ \/ /\ m.type = "SendReadNoSnp"
          /\ \E d \in Data : datIn' = datIn \cup Beat(m.txnId, m.addr, d, m.txnId)
          /\ UNCHANGED rspIn
       \/ /\ m.type = "SendWriteNoSnp"
          /\ rspIn' = rspIn \cup {m.txnId}
          /\ UNCHANGED datIn
    /\ EngineIdle
    /\ UNCHANGED <<snpOut, dbidOut>>

SendWriteData(m) ==
    /\ fault = "none"
    /\ dbidOut' = dbidOut \ {m}
    /\ \E id \in {m.txnId} \cup AnonymousIds, d \in Data :
          datIn' = datIn \cup Beat(id, m.addr, d, m.txnId)
    /\ EngineIdle
    /\ UNCHANGED <<snpOut, reqOut, rspIn>>

DeliverData(m) ==
    /\ RecvData(m.txnId, m.addr, m.data)
    /\ ExecuteActions
    /\ datIn' = datIn \ {m}
    /\ UNCHANGED <<issued, rspIn, evicts>>

DeliverResponse(id) ==
    /\ RecvResponse(id)
    /\ ExecuteActions
    /\ rspIn' = rspIn \ {id}
    /\ UNCHANGED <<issued, datIn, evicts>>

NewRequest ==
    \E txn \in Requests :
        /\ FreshId(txn) /\ LineFree(txn) /\ MayWriteBack(txn) /\ SnoopIdsLeft
        /\ Request(txn)

\* A message reaches the peer it was sent to, which answers, or the engine.
Deliver ==
    \/ \E m \in snpOut : AnswerSnoop(m)
    \/ \E m \in reqOut : AnswerMemRequest(m)
    \/ \E m \in dbidOut : SendWriteData(m)
    \/ \E m \in datIn : DeliverData(m)
    \/ \E id \in rspIn : DeliverResponse(id)

Next ==
    \/ NewRequest
    \/ \E addr \in Addrs : Evict(addr)
    \/ \E addr \in Addrs, data \in Data : FunctionalWrite(addr, data)
    \/ Deliver

Spec == Init /\ [][Next]_vars

-----------------------------------------------------------------------------
TypeOK ==
    /\ EngineTypeOK
    /\ issued \subseteq ChiTransaction
    /\ completed \subseteq L1TxnIds
    /\ rspIn \subseteq Nat
    /\ datIn \subseteq DataMsgs
    /\ evicts \in Nat

-----------------------------------------------------------------------------
(* Safety *)

\* A snoop id is unanswered while the snoop or its response is in flight, or data
\* for it is and no beat of that data has been counted as the response.
Unanswered(s) ==
    \/ \E m \in snpOut : m.txnId = s
    \/ s \in rspIn
    \/ s \notin snoopRespCounted /\ \E m \in datIn : m.txnId = s

\* The count kept for a snooping transaction is the number of its snoops still
\* unanswered: neither the second beat of snooped data, nor a response that
\* overtakes another, nor the combined data and response of recvData is counted
\* twice or missed (recvData's and recvResponse's decrements).
SnoopAccounting ==
    \A id \in DOMAIN pending :
        (fault = "none" /\ pending[id].state = "WaitSnoopResp") =>
            pending[id].pendingSnoopCount =
                Cardinality({s \in SnoopIdsOf(id) : Unanswered(s)})

\* The three tables agree: a snoop id leads to a transaction that waits for
\* snoops, a counted response belongs to a live snoop id, and no entry survives
\* the completion that should have erased it (completePending's cleanup).
SnoopTablesAgree ==
    /\ \A s \in DOMAIN snoopToOrig :
          /\ snoopToOrig[s] \in DOMAIN pending
          /\ pending[snoopToOrig[s]].state = "WaitSnoopResp"
    /\ snoopRespCounted \subseteq DOMAIN snoopToOrig

\* With nothing in flight nothing is pending: no message is dropped, sent to the
\* wrong entry or left uncounted in a way that strands a transaction, and the
\* tables are empty again.
QuiescentMeansIdle ==
    (fault = "none" /\ snpOut = {} /\ reqOut = {} /\ dbidOut = {}
        /\ rspIn = {} /\ datIn = {}) =>
    /\ DOMAIN pending = {}
    /\ DOMAIN snoopToOrig = {}
    /\ DOMAIN memToOrig = {}
    /\ snoopRespCounted = {}

\* A line in SD has at most one recorded sharer, whichever way requests, snoop
\* answers, write data and evictions interleave: SD means that a dirty line was read
\* by an RN-F that shares it with no other.  handleCleanUnique relies on it.  It
\* snoops the other sharers of a line in SD with SnpNotSharedDirty, which leaves them
\* a copy, and completePending then forgets them and grants UC; no harm is done as
\* long as the only sharer of the line is the one that upgrades it.
\* This is what the code does and not what is written about it.  By
\* openspec/specs/cache-coherence/spec.md:61-62 a ReadShared of a line in UD or SD is
\* served directly, leaves SD and adds the requester to the sharers; the code asks
\* the other sharers for the line first and leaves SC with the requester alone.
\* docs/design/2026-05-06-dual-core-validation-design.md:84-102 reads a dirty line
\* into SD with two cores, and test/test_protocol_engine.cc:279-281, 346-348 and
\* 365-367 fill lines in SD and add two sharers, a state that by this property no
\* calls of the engine lead to.
SharedDirtySingleSharer ==
    \A i \in SetIndex, w \in Way :
        LET line == cache[i].lines[w]
        IN line.state = "SD" => \A m, n \in line.sharers : m = n

-----------------------------------------------------------------------------
(* What a step may never do *)

Completions == Sent({"SendComp", "SendCompData"})

Answers(a, txn) ==
    /\ a.txnId = txn.txnID
    /\ a.destNode = txn.srcNodeID
    /\ a.addr = txn.addr
    /\ txn.opcode = "CleanUnique" <=> a.type = "SendComp"

CompletesOpenRequests ==
    \A a \in Completions :
        /\ a.txnId \notin completed
        /\ \E txn \in issued' : Answers(a, txn)

\* A completion answers a request that was made and not completed before, at the
\* node that made it and for its address, with data unless it was a CleanUnique:
\* the second beat of memory data or a late snoop answer completes nothing again.
CompletesOnce == [][CompletesOpenRequests]_vars

CompletesWithLastAnswer ==
    \A a \in Completions : \A s \in SnoopIdsOf(a.txnId) :
        Unanswered(s) =>
            \/ s \in rspIn /\ s \notin rspIn'
            \/ \E m \in datIn : m.txnId = s /\ m \notin datIn'

\* A transaction that snooped is completed only by the last answer: a snoop of it
\* that is unanswered before the completing step is answered by the very message
\* that this step delivers.
NoEarlyCompletion == [][CompletesWithLastAnswer]_vars

-----------------------------------------------------------------------------
(* What the repository's documents and comments say and the code does not do *)

\* A transaction whose snoops have all responded has been completed (the response
\* count "to zero, completePending").
ZeroMeansComplete ==
    \A id \in DOMAIN pending :
        (fault = "none" /\ pending[id].state = "WaitSnoopResp")
            => pending[id].pendingSnoopCount > 0

\* A dirty line is not displaced by a fill: the handlers' assertion stops the run
\* before that.
AssertionProtectsDirtyLines ==
    [][\A i \in SetIndex, w \in Way :
          LET line == cache[i].lines[w]
          IN IsDirty(line) =>
                \/ Present(cache', MakeAddr(line.tag, i))
                \/ evicts' # evicts]_vars

\* The wait for a write's data is ended by that data only.  With whole lines given
\* to the engine ("the complete cache line is collected" first) nothing else could
\* end it; but a beat that comes after the transaction it belongs to is over, of
\* memory or snoop data, is taken for write data of the same line.
OnlyWriteDataEndsWait ==
    [][\A m \in datIn \ datIn', k \in DOMAIN pending \ DOMAIN pending' :
          pending[k].state = "WaitL1Data" => m.cause = k]_vars
=============================================================================
