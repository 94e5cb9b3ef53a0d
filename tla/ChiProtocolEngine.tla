-------------------------- MODULE ChiProtocolEngine --------------------------
(***************************************************************************)
(* The protocol engine of the L2 (chi_protocol_engine.cc), driven from     *)
(* outside by its four entry points: RecvRequest, RecvData, RecvResponse   *)
(* and InvalidateLine.  A call is atomic, as in the code, and leaves in    *)
(* the variable actions the vector it returns: what the middleware must    *)
(* now send.                                                               *)
(*                                                                         *)
(* The maps pending_, snoopToOrig_ and memToOrig_ are functions whose      *)
(* domain is the set of keys present.  A call that ends in a failed        *)
(* assertion, or copies a line from a null pointer, ends the simulator:    *)
(* fault says which, and nothing happens afterwards.                       *)
(***************************************************************************)
EXTENDS L2Cache, Sequences

CONSTANTS
    L1TxnIds,       \* transaction ids the RN-Fs give to their requests
    SnoopIdBase,    \* first id given to a snoop (10000 in the code)
    MemIdBase       \* first id given to a memory request (20000 in the code)

ASSUME IdsAssumption ==
    L1TxnIds \subseteq Nat /\ SnoopIdBase \in Nat /\ MemIdBase \in Nat

VARIABLES
    cache,                  \* cache_
    pending,                \* pending_: txn id -> PendingTxn
    snoopToOrig,            \* snoopToOrig_: snoop id -> L1 txn id
    memToOrig,              \* memToOrig_: memory id -> L1 txn id
    snoopRespCounted,       \* snoopRespCounted_: a set of snoop ids
    nextSnoopTxnId,         \* nextSnoopTxnId_
    nextInternalTxnId,      \* nextInternalTxnId_
    fault,                  \* what ended the simulator, or "none"
    actions                 \* the vector returned by the call just made

tables == <<pending, snoopToOrig, memToOrig, snoopRespCounted>>
counters == <<nextSnoopTxnId, nextInternalTxnId>>
engineVars == <<cache, tables, counters, fault, actions>>

-----------------------------------------------------------------------------
(* Requests, pending transactions and actions *)

ReadOps  == {"ReadShared", "ReadUnique", "ReadNotSharedDirty", "ReadOnce",
             "ReadNoSnp"}
WriteOps == {"WriteBackFull", "WriteUniqueFull", "WriteEvictFull"}

\* "Unmapped" stands for every opcode that recvRequest passes through.
Opcode == ReadOps \cup WriteOps \cup {"CleanUnique", "WriteNoSnp", "Unmapped"}

ChiTransaction ==
    [opcode : Opcode, addr : Addr, srcNodeID : Nodes, txnID : L1TxnIds]

PendingState ==
    {"WaitMemData", "WaitMemWriteAck", "WaitSnoopResp", "WaitL1Data"}

PendingTxn ==
    [origReq : ChiTransaction, state : PendingState, targetState : LineState,
     pendingSnoopCount : Int, pendingSnoopDataCount : Int]

SnoopTypes == {"SendSnpCleanInvalid", "SendSnpUnique", "SendSnpNotSharedDirty",
               "SendSnpOnce"}

ReadNoSnp(addr, id) ==
    [type |-> "SendReadNoSnp", addr |-> addr, txnId |-> id]

WriteNoSnp(addr, id, data) ==
    [type |-> "SendWriteNoSnp", addr |-> addr, txnId |-> id, data |-> data]

CompData(txn, state, data) ==
    [type |-> "SendCompData", addr |-> txn.addr, txnId |-> txn.txnID,
     destNode |-> txn.srcNodeID, respState |-> state, data |-> data]

Comp(txn) ==
    [type |-> "SendComp", addr |-> txn.addr, txnId |-> txn.txnID,
     destNode |-> txn.srcNodeID]

CompDBIDResp(txn) ==
    [type |-> "SendCompDBIDResp", addr |-> txn.addr, txnId |-> txn.txnID,
     destNode |-> txn.srcNodeID]

Snoop(type, addr, id, node, retToSrc) ==
    [type |-> type, addr |-> addr, txnId |-> id, destNode |-> node,
     retToSrc |-> retToSrc]

\* map[key] = value, and erase.
Put(map, key, value) ==
    [k \in DOMAIN map \cup {key} |-> IF k = key THEN value ELSE map[k]]
Erase(map, keys) == [k \in DOMAIN map \ keys |-> map[k]]

Waiting(txn, state, target, count, dataCount) ==
    [origReq |-> txn, state |-> state, targetState |-> target,
     pendingSnoopCount |-> count, pendingSnoopDataCount |-> dataCount]

Fault(what) ==
    /\ fault' = what
    /\ actions' = <<>>
    /\ UNCHANGED <<cache, tables, counters>>

-----------------------------------------------------------------------------
(* Steps that several handlers share *)

\* Remember a transaction with memory under the next internal id.
OpenMemTxn(txn, state, target) ==
    /\ pending' = Put(pending, nextInternalTxnId,
                      Waiting(txn, state, target, 0, 0))
    /\ memToOrig' = Put(memToOrig, nextInternalTxnId, txn.txnID)
    /\ nextInternalTxnId' = nextInternalTxnId + 1
    /\ UNCHANGED <<snoopToOrig, snoopRespCounted, nextSnoopTxnId, fault>>

FetchFromMemory(txn, target) ==
    /\ OpenMemTxn(txn, "WaitMemData", target)
    /\ actions' = <<ReadNoSnp(txn.addr, nextInternalTxnId)>>
    /\ UNCHANGED cache

\* A miss goes to memory, but a dirty victim fails the handler's assertion.
ReadMiss(txn, target) ==
    /\ ~Present(cache, txn.addr)
    /\ IF LookupResult(cache, txn.addr) = "MissEvictDirty"
       THEN Fault("MissEvictDirty")
       ELSE FetchFromMemory(txn, target)

OtherSharers(txn) == GetSharers(cache, txn.addr) \ {txn.srcNodeID}

Ascending(seq) == \A j, k \in DOMAIN seq : j < k => seq[j] < seq[k]

\* Snoop the other sharers, in the order of their node ids, each under an id of
\* its own, and wait for them; either every one of them owes data or none does.
SnoopOthers(txn, type, retToSrc, target) ==
    LET others == OtherSharers(txn)
        count  == Cardinality(others)
        ids    == nextSnoopTxnId .. nextSnoopTxnId + count - 1
    IN \E node \in [1 .. count -> others] :
          /\ Ascending(node)
          /\ cache' = Lookup(cache, txn.addr)
          /\ pending' = Put(pending, txn.txnID,
                            Waiting(txn, "WaitSnoopResp", target, count,
                                    IF retToSrc THEN count ELSE 0))
          /\ snoopToOrig' =
                [id \in DOMAIN snoopToOrig \cup ids |->
                    IF id \in ids THEN txn.txnID ELSE snoopToOrig[id]]
          /\ nextSnoopTxnId' = nextSnoopTxnId + count
          /\ actions' =
                [k \in 1 .. count |->
                    Snoop(type, txn.addr, nextSnoopTxnId + k - 1, node[k],
                          retToSrc)]
          /\ UNCHANGED <<memToOrig, snoopRespCounted, nextInternalTxnId, fault>>

\* Answer at once from a cache that the handler has brought to value c.
Serve(c, answer) ==
    /\ cache' = c
    /\ actions' = <<answer>>
    /\ UNCHANGED <<tables, counters, fault>>

\* Mutant: the sharers are cleared last.
GrantAloneCleared(c, txn, state) ==
    ClearSharers(AddSharer(SetState(c, txn.addr, state), txn.addr, txn.srcNodeID),
                 txn.addr)

\* c with the requester as the only sharer of the line, in the given state.
GrantAlone(c, txn, state) ==
    AddSharer(ClearSharers(SetState(c, txn.addr, state), txn.addr),
              txn.addr, txn.srcNodeID)

Hit(txn) == Present(cache, txn.addr)
HitState(txn) == GetState(cache, txn.addr)
HitDirty(txn) == NeedsWriteback(cache, txn.addr)

-----------------------------------------------------------------------------
(* recvRequest: one handler per opcode *)

\* Mutant: a dirty line is served without asking its other sharers, as
\* cache-coherence/spec.md:61-62 describes it.
HandleReadSharedUnasked(txn) ==
    \/ ReadMiss(txn, "SC")
    \/ /\ Hit(txn)
       /\ LET shared == IF HitDirty(txn) THEN "SD" ELSE "SC"
              c == SetState(AddSharer(Lookup(cache, txn.addr), txn.addr,
                                      txn.srcNodeID), txn.addr, shared)
          IN Serve(c, CompData(txn, shared, GetData(cache, txn.addr)))

\* A dirty line with other sharers is asked back from them first.
HandleReadShared(txn) ==
    \/ ReadMiss(txn, "SC")
    \/ /\ HitDirty(txn)
       /\ OtherSharers(txn) # {}
       /\ SnoopOthers(txn, "SendSnpCleanInvalid", TRUE, "SC")
    \/ /\ Hit(txn)
       /\ HitDirty(txn) => OtherSharers(txn) = {}
       /\ LET shared == IF HitDirty(txn) THEN "SD" ELSE "SC"
              c == SetState(AddSharer(Lookup(cache, txn.addr), txn.addr,
                                      txn.srcNodeID), txn.addr, shared)
          IN Serve(c, CompData(txn, shared, GetData(cache, txn.addr)))

\* ReadUnique and ReadNotSharedDirty have the same body.
HandleReadUnique(txn) ==
    \/ ReadMiss(txn, "UD")
    \/ /\ Hit(txn)
       /\ OtherSharers(txn) = {}
       /\ Serve(GrantAlone(Lookup(cache, txn.addr), txn, "UD"),
                CompData(txn, "UD", GetData(cache, txn.addr)))
    \/ /\ Hit(txn)
       /\ OtherSharers(txn) # {}
       /\ SnoopOthers(txn, "SendSnpUnique", HitDirty(txn), "UD")

HandleReadNotSharedDirty(txn) == HandleReadUnique(txn)

\* The requester of a ReadOnce is never recorded as a sharer.
HandleReadOnce(txn) ==
    \/ ReadMiss(txn, "SC")
    \/ /\ HitDirty(txn)
       /\ OtherSharers(txn) # {}
       /\ SnoopOthers(txn, "SendSnpOnce", TRUE, "SC")
    \/ /\ Hit(txn)
       /\ HitDirty(txn) => OtherSharers(txn) = {}
       /\ Serve(Lookup(cache, txn.addr),
                CompData(txn, HitState(txn), GetData(cache, txn.addr)))

\* UC answers at once whoever asks; UD writes the line to memory and answers
\* without waiting; SC and SD first get rid of the other sharers.
HandleCleanUnique(txn) ==
    \/ ReadMiss(txn, "UC")
    \/ /\ HitState(txn) = "UC"
       /\ Serve(Lookup(cache, txn.addr), Comp(txn))
    \/ /\ HitState(txn) = "UD"
       /\ OpenMemTxn(txn, "WaitMemWriteAck", "UC")
       /\ cache' = SetState(Lookup(cache, txn.addr), txn.addr, "UC")
       /\ actions' = <<WriteNoSnp(txn.addr, nextInternalTxnId,
                                  GetData(cache, txn.addr)),
                       Comp(txn)>>
    \/ /\ HitState(txn) \in {"SC", "SD"}
       /\ OtherSharers(txn) = {}
       /\ Serve(GrantAlone(Lookup(cache, txn.addr), txn, "UC"), Comp(txn))
    \/ /\ HitState(txn) = "SC"
       /\ OtherSharers(txn) # {}
       /\ SnoopOthers(txn, "SendSnpCleanInvalid", FALSE, "UC")
    \/ /\ HitState(txn) = "SD"
       /\ OtherSharers(txn) # {}
       /\ SnoopOthers(txn, "SendSnpNotSharedDirty", TRUE, "UC")

\* Wait for write data; targetState is left uninitialised by the code and not
\* read in this state.
AwaitL1Data(txn, answer) ==
    /\ pending' = Put(pending, txn.txnID, Waiting(txn, "WaitL1Data", "I", 0, 0))
    /\ actions' = answer
    /\ UNCHANGED <<cache, snoopToOrig, memToOrig, snoopRespCounted, counters,
                   fault>>

HandleWrite(txn) == AwaitL1Data(txn, <<CompDBIDResp(txn)>>)

\* Mutant: a posted write is answered.
HandleWriteNoSnpAnswered(txn) == AwaitL1Data(txn, <<Comp(txn)>>)

\* A posted write: its data comes without being asked for.
HandleWriteNoSnp(txn) == AwaitL1Data(txn, <<>>)

\* Unknown opcodes pass through to memory without a lookup.
HandleUnmapped(txn) == FetchFromMemory(txn, "SC")

RecvRequest(txn) ==
    /\ fault = "none"
    /\ \/ txn.opcode \in {"ReadShared", "ReadNoSnp"} /\ HandleReadShared(txn)
       \/ txn.opcode = "ReadUnique" /\ HandleReadUnique(txn)
       \/ txn.opcode = "ReadNotSharedDirty" /\ HandleReadNotSharedDirty(txn)
       \/ txn.opcode = "ReadOnce" /\ HandleReadOnce(txn)
       \/ txn.opcode = "CleanUnique" /\ HandleCleanUnique(txn)
       \/ txn.opcode \in WriteOps /\ HandleWrite(txn)
       \/ txn.opcode = "WriteNoSnp" /\ HandleWriteNoSnp(txn)
       \/ txn.opcode = "Unmapped" /\ HandleUnmapped(txn)

-----------------------------------------------------------------------------
(* completePending *)

\* Mutant: the search for the snoops of a transaction stops at the first.
SnoopIdsOfFirst(id) ==
    {s \in DOMAIN snoopToOrig :
        /\ snoopToOrig[s] = id
        /\ \A t \in DOMAIN snoopToOrig : snoopToOrig[t] = id => s <= t}

\* The snoop ids that belong to a transaction.
SnoopIdsOf(id) == {s \in DOMAIN snoopToOrig : snoopToOrig[s] = id}

\* Transaction id has all it waited for; c is the cache at this point.
CompletePending(id, c) ==
    LET pt    == pending[id]
        txn   == pt.origReq
        alone == SetState(ClearSharers(c, txn.addr), txn.addr, pt.targetState)
    IN /\ cache' = IF txn.opcode = "ReadOnce" THEN alone
                   ELSE AddSharer(alone, txn.addr, txn.srcNodeID)
       /\ snoopToOrig' = Erase(snoopToOrig, SnoopIdsOf(id))
       /\ snoopRespCounted' = snoopRespCounted \ SnoopIdsOf(id)
       /\ pending' = Erase(pending, {id})
       /\ actions' = <<IF txn.opcode = "CleanUnique" THEN Comp(txn)
                       ELSE CompData(txn, pt.targetState, GetData(c, txn.addr))>>
       /\ UNCHANGED <<memToOrig, counters, fault>>

\* Mutant: the counts are changed in a copy of the entry.
KeepWaitingOnCopy(id, pt, c) ==
    /\ cache' = c
    /\ actions' = <<>>
    /\ UNCHANGED <<pending, snoopToOrig, memToOrig, counters, fault>>

\* Keep waiting with the counts of pt.
KeepWaiting(id, pt, c) ==
    /\ cache' = c
    /\ pending' = [pending EXCEPT ![id] = pt]
    /\ actions' = <<>>
    /\ UNCHANGED <<snoopToOrig, memToOrig, counters, fault>>

\* Mutant: off by one.
AllAnsweredBelowZero(pt) ==
    pt.pendingSnoopCount < 0 /\ pt.pendingSnoopDataCount < 0

\* Neither a response nor data is still expected.
AllAnswered(pt) ==
    pt.pendingSnoopCount <= 0 /\ pt.pendingSnoopDataCount <= 0

NothingToDo ==
    /\ actions' = <<>>
    /\ UNCHANGED <<cache, tables, counters, fault>>

-----------------------------------------------------------------------------
(* recvData: snooped data, write data from an RN-F, data from memory *)

\* Mutant: every beat counts as a response.
FirstBeatAlways(id) == TRUE

\* No data under this snoop id has been counted as its response.
FirstBeat(id) == id \notin snoopRespCounted

\* Every beat fills the line; only the first one of a snoop id counts as the
\* response as well, and every beat counts as data.
RecvSnoopData(id, data) ==
    LET orig == snoopToOrig[id]
    IN \/ orig \notin DOMAIN pending /\ NothingToDo
       \/ /\ orig \in DOMAIN pending
          /\ LET first == FirstBeat(id)
                 pt == [pending[orig] EXCEPT
                          !.pendingSnoopDataCount = @ - 1,
                          !.pendingSnoopCount = IF first THEN @ - 1 ELSE @]
                 c == Fill(cache, pt.origReq.addr, pt.targetState, data)
             IN IF AllAnswered(pt)
                THEN CompletePending(orig, c)
                ELSE /\ KeepWaiting(orig, pt, c)
                     /\ snoopRespCounted' = snoopRespCounted \cup {id}

\* Mutant: the search by address takes an entry in any state.
WriteDataEntriesAnyState(id, addr) ==
    IF id \in DOMAIN pending
    THEN {k \in {id} : pending[k].state = "WaitL1Data"}
    ELSE {k \in DOMAIN pending : pending[k].origReq.addr = addr}

\* Mutant: there is no search by address.
WriteDataEntriesById(id, addr) ==
    {k \in DOMAIN pending \cap {id} : pending[k].state = "WaitL1Data"}

\* The entries that write data under this id may belong to: its own, or when
\* there is none, any entry for the address that waits for write data.
WriteDataEntries(id, addr) ==
    {k \in IF id \in DOMAIN pending THEN {id} ELSE DOMAIN pending :
        /\ pending[k].state = "WaitL1Data"
        /\ id = k \/ pending[k].origReq.addr = addr}

\* Mutant: the data is dropped and only the state of the line is set.
RecvWriteDataDropped(k, data) ==
    LET txn == pending[k].origReq
    IN /\ cache' = AddSharer(SetState(cache, txn.addr, "UD"),
                             txn.addr, txn.srcNodeID)
       /\ pending' = Erase(pending, {k})
       /\ actions' = <<>>
       /\ UNCHANGED <<snoopToOrig, memToOrig, snoopRespCounted, counters, fault>>

RecvWriteData(k, data) ==
    LET txn == pending[k].origReq
    IN /\ cache' = AddSharer(Fill(cache, txn.addr, "UD", data),
                             txn.addr, txn.srcNodeID)
       /\ pending' = Erase(pending, {k})
       /\ actions' = <<>>
       /\ UNCHANGED <<snoopToOrig, memToOrig, snoopRespCounted, counters, fault>>

\* Mutant: the entry stays after the line has been delivered.
RecvMemDataUnerased(id, data) ==
    LET txn == pending[id].origReq
        c   == Fill(cache, txn.addr, pending[id].targetState, data)
    IN /\ cache' = AddSharer(c, txn.addr, txn.srcNodeID)
       /\ actions' = <<CompData(txn, pending[id].targetState, data)>>
       /\ UNCHANGED <<tables, counters, fault>>

\* The line arrives and the requester is answered.
RecvMemData(id, data) ==
    LET pt   == pending[id]
        txn  == pt.origReq
        c    == Fill(cache, txn.addr, pt.targetState, data)
    IN /\ cache' = IF txn.opcode = "ReadOnce" THEN c
                   ELSE AddSharer(c, txn.addr, txn.srcNodeID)
       /\ pending' = Erase(pending, {id})
       /\ memToOrig' = Erase(memToOrig,
                             {m \in DOMAIN memToOrig : memToOrig[m] = txn.txnID})
       /\ actions' = <<IF txn.opcode = "CleanUnique" THEN Comp(txn)
                       ELSE CompData(txn, pt.targetState, data)>>
       /\ UNCHANGED <<snoopToOrig, snoopRespCounted, counters, fault>>

AwaitsMemData(id) ==
    id \in DOMAIN pending /\ pending[id].state = "WaitMemData"

RecvData(id, addr, data) ==
    /\ fault = "none"
    /\ \/ id \in DOMAIN snoopToOrig /\ RecvSnoopData(id, data)
       \/ /\ id \notin DOMAIN snoopToOrig
          /\ \/ \E k \in WriteDataEntries(id, addr) : RecvWriteData(k, data)
             \/ AwaitsMemData(id) /\ RecvMemData(id, data)
             \/ /\ WriteDataEntries(id, addr) = {}
                /\ ~AwaitsMemData(id)
                /\ NothingToDo      \* unsolicited or already processed

-----------------------------------------------------------------------------
(* recvResponse: a snoop response without data, or memory's write ack *)

\* completePending copies the line out even when it is no longer there.
RecvSnoopResp(id) ==
    LET orig == snoopToOrig[id]
    IN \/ orig \notin DOMAIN pending /\ NothingToDo
       \/ /\ orig \in DOMAIN pending
          /\ LET pt  == [pending[orig] EXCEPT !.pendingSnoopCount = @ - 1]
                 txn == pt.origReq
             IN \/ /\ ~AllAnswered(pt)
                   /\ KeepWaiting(orig, pt, cache)
                   /\ UNCHANGED snoopRespCounted
                \/ /\ AllAnswered(pt)
                   /\ txn.opcode = "CleanUnique" \/ Present(cache, txn.addr)
                   /\ CompletePending(orig, cache)
                \/ /\ AllAnswered(pt)
                   /\ txn.opcode # "CleanUnique" /\ ~Present(cache, txn.addr)
                   /\ Fault("NullData")

RecvWriteAck(id) ==
    /\ pending' = Erase(pending, {id})
    /\ memToOrig' = Erase(memToOrig, {m \in DOMAIN memToOrig :
                                        m = id \/ memToOrig[m] = id})
    /\ actions' = <<>>
    /\ UNCHANGED <<cache, snoopToOrig, snoopRespCounted, counters, fault>>

AwaitsWriteAck(id) ==
    id \in DOMAIN pending /\ pending[id].state = "WaitMemWriteAck"

RecvResponse(id) ==
    /\ fault = "none"
    /\ \/ id \in DOMAIN snoopToOrig /\ RecvSnoopResp(id)
       \/ /\ id \notin DOMAIN snoopToOrig
          /\ \/ AwaitsWriteAck(id) /\ RecvWriteAck(id)
             \/ ~AwaitsWriteAck(id) /\ NothingToDo

\* The middleware's Evict drops the line, whoever else shares it.
InvalidateLine(addr) ==
    /\ fault = "none"
    /\ cache' = Invalidate(cache, addr)
    /\ actions' = <<>>
    /\ UNCHANGED <<tables, counters, fault>>

EngineInit ==
    /\ cache = EmptyCache
    /\ pending = <<>>
    /\ snoopToOrig = <<>>
    /\ memToOrig = <<>>
    /\ snoopRespCounted = {}
    /\ nextSnoopTxnId = SnoopIdBase
    /\ nextInternalTxnId = MemIdBase
    /\ fault = "none"
    /\ actions = <<>>

EngineTypeOK ==
    /\ cache \in Caches
    /\ DOMAIN pending \subseteq Nat
    /\ \A k \in DOMAIN pending : pending[k] \in PendingTxn
    /\ DOMAIN snoopToOrig \subseteq Nat
    /\ \A s \in DOMAIN snoopToOrig : snoopToOrig[s] \in L1TxnIds
    /\ DOMAIN memToOrig \subseteq Nat
    /\ \A m \in DOMAIN memToOrig : memToOrig[m] \in L1TxnIds
    /\ snoopRespCounted \subseteq Nat
    /\ nextSnoopTxnId \in Nat
    /\ nextInternalTxnId \in Nat
    /\ fault \in {"none", "MissEvictDirty", "NullData"}
=============================================================================
