------------------------ MODULE ChiProtocolEngineProofs ------------------------
(***************************************************************************)
(* What a call of the engine does to its tables, for every value of the    *)
(* constants: each handler makes one of a few moves.  The proofs about the *)
(* system reason about these moves and never look at the cache.            *)
(***************************************************************************)
EXTENDS ChiProtocolEngine, L2CacheProofs

\* The actions of the call send nothing to the RN-Fs' snoop ports.
SendsNoSnoop == \A j \in DOMAIN actions' : actions'[j].type \notin SnoopTypes

\* Every action is about an address, under the id that its receiver expects.
ActionsInRange ==
    \A j \in DOMAIN actions' :
        /\ actions'[j].addr \in Addr
        /\ actions'[j].type \in {"SendReadNoSnp", "SendWriteNoSnp"} =>
              /\ actions'[j].txnId = nextInternalTxnId
              /\ nextInternalTxnId' = nextInternalTxnId + 1
        /\ actions'[j].type \in {"SendComp", "SendCompData", "SendCompDBIDResp"} =>
              actions'[j].txnId \in L1TxnIds

Stay == UNCHANGED <<tables, counters>> /\ SendsNoSnoop

OpensMem(txn) ==
    /\ \E state \in {"WaitMemData", "WaitMemWriteAck"}, target \in LineState :
          OpenMemTxn(txn, state, target)
    /\ SendsNoSnoop

Awaits(txn) ==
    /\ pending' = Put(pending, txn.txnID, Waiting(txn, "WaitL1Data", "I", 0, 0))
    /\ UNCHANGED <<snoopToOrig, memToOrig, snoopRespCounted, counters>>
    /\ SendsNoSnoop

Snoops(txn) ==
    \E type \in SnoopTypes, retToSrc \in BOOLEAN, target \in LineState :
        SnoopOthers(txn, type, retToSrc, target)

Completes(id) ==
    /\ id \in DOMAIN pending
    /\ pending' = Erase(pending, {id})
    /\ snoopToOrig' = Erase(snoopToOrig, SnoopIdsOf(id))
    /\ snoopRespCounted' = snoopRespCounted \ SnoopIdsOf(id)
    /\ UNCHANGED <<memToOrig, counters>>
    /\ SendsNoSnoop

\* Keep waiting for the snoops of id, with this many still to answer.
Keeps(id, count, counted) ==
    /\ id \in DOMAIN pending
    /\ \E dataCount \in Int :
          pending' = [pending EXCEPT ![id] =
                        [pending[id] EXCEPT !.pendingSnoopCount = count,
                                            !.pendingSnoopDataCount = dataCount]]
    /\ snoopRespCounted' = counted
    /\ UNCHANGED <<snoopToOrig, memToOrig, counters>>
    /\ SendsNoSnoop

Drops(k) ==
    /\ k \in DOMAIN pending
    /\ pending[k].state # "WaitSnoopResp"
    /\ pending' = Erase(pending, {k})
    /\ DOMAIN memToOrig' \subseteq DOMAIN memToOrig
    /\ \A m \in DOMAIN memToOrig' : memToOrig'[m] = memToOrig[m]
    /\ UNCHANGED <<snoopToOrig, snoopRespCounted, counters>>
    /\ SendsNoSnoop

-----------------------------------------------------------------------------
(* Shapes of the vector returned *)

\* An empty vector sends nothing.
LEMMA SendsNothing ==
    ASSUME actions' = <<>>
    PROVE  SendsNoSnoop /\ ActionsInRange
BY DEF SendsNoSnoop, ActionsInRange

\* A single answer to an RN-F.
LEMMA SendsAnswer ==
    ASSUME NEW txn \in ChiTransaction, NEW answer, actions' = <<answer>>,
           \/ answer = Comp(txn)
           \/ answer = CompDBIDResp(txn)
           \/ \E state, data : answer = CompData(txn, state, data)
    PROVE  SendsNoSnoop /\ ActionsInRange
<1>1. txn.addr \in Addr /\ txn.txnID \in L1TxnIds
    BY DEF ChiTransaction
<1>2. answer.addr \in Addr /\ answer.txnId \in L1TxnIds
        /\ answer.type \in {"SendComp", "SendCompDBIDResp", "SendCompData"}
    BY <1>1 DEF Comp, CompDBIDResp, CompData
<1>3. \A j \in DOMAIN actions' : actions'[j] = answer
    OBVIOUS
<1> QED BY <1>2, <1>3 DEF SendsNoSnoop, ActionsInRange, SnoopTypes

-----------------------------------------------------------------------------
(* recvRequest *)

\* A step that ends the simulator moves nothing.
LEMMA FaultMoves ==
    ASSUME EngineTypeOK, NEW what \in {"MissEvictDirty", "NullData"}, Fault(what)
    PROVE  /\ cache' \in Caches
           /\ fault' \in {"none", "MissEvictDirty", "NullData"}
           /\ ActionsInRange
           /\ Stay
BY SendsNothing DEF Fault, Stay, EngineTypeOK

\* A fetch from memory opens one transaction there.
LEMMA FetchMoves ==
    ASSUME EngineTypeOK, NEW txn \in ChiTransaction, NEW target \in LineState,
           FetchFromMemory(txn, target)
    PROVE  /\ cache' \in Caches
           /\ fault' = fault
           /\ ActionsInRange
           /\ OpensMem(txn)
<1>1. txn.addr \in Addr
    BY DEF ChiTransaction
<1>2. actions' = <<ReadNoSnp(txn.addr, nextInternalTxnId)>>
        /\ OpenMemTxn(txn, "WaitMemData", target)
        /\ nextInternalTxnId' = nextInternalTxnId + 1
    BY DEF FetchFromMemory, OpenMemTxn
<1>3. \A j \in DOMAIN actions' : actions'[j] = ReadNoSnp(txn.addr, nextInternalTxnId)
    BY <1>2
<1>4. SendsNoSnoop /\ ActionsInRange
    BY <1>1, <1>2, <1>3 DEF SendsNoSnoop, ActionsInRange, ReadNoSnp, SnoopTypes
<1> QED BY <1>2, <1>4 DEF OpensMem, FetchFromMemory, OpenMemTxn, EngineTypeOK

\* A miss ends the simulator or fetches the line.
LEMMA MissMoves ==
    ASSUME EngineTypeOK, NEW txn \in ChiTransaction, NEW target \in LineState,
           ReadMiss(txn, target)
    PROVE  /\ cache' \in Caches
           /\ fault' \in {"none", "MissEvictDirty", "NullData"}
           /\ ActionsInRange
           /\ Stay \/ OpensMem(txn)
BY FaultMoves, FetchMoves DEF ReadMiss, EngineTypeOK

\* Snooping touches the line and sends one snoop for each id reserved.
LEMMA SnoopMoves ==
    ASSUME EngineTypeOK, NEW txn \in ChiTransaction, NEW type \in SnoopTypes,
           NEW retToSrc \in BOOLEAN, NEW target \in LineState,
           SnoopOthers(txn, type, retToSrc, target)
    PROVE  /\ cache' \in Caches
           /\ fault' = fault
           /\ ActionsInRange
           /\ Snoops(txn)
<1>1. txn.addr \in Addr
    BY DEF ChiTransaction
<1>2. cache' \in Caches
    BY <1>1, LookupType DEF SnoopOthers, EngineTypeOK
<1>3. \A j \in DOMAIN actions' :
          actions'[j].addr = txn.addr /\ actions'[j].type = type
    BY DEF SnoopOthers, Snoop
<1>4. ActionsInRange
    BY <1>1, <1>3 DEF ActionsInRange, SnoopTypes
<1>5. fault' = fault
    BY DEF SnoopOthers
<1> QED BY <1>2, <1>4, <1>5 DEF Snoops

\* An answer from the cache leaves the tables alone.
LEMMA ServeMoves ==
    ASSUME EngineTypeOK, NEW txn \in ChiTransaction, NEW c \in Caches, NEW answer,
           Serve(c, answer),
           answer = Comp(txn) \/ \E state, data : answer = CompData(txn, state, data)
    PROVE  /\ cache' \in Caches
           /\ fault' = fault
           /\ ActionsInRange
           /\ Stay
BY SendsAnswer DEF Serve, Stay

\* The cache values that the handlers answer from are caches.
LEMMA ServedCaches ==
    ASSUME EngineTypeOK, NEW txn \in ChiTransaction, NEW state \in LineState
    PROVE  LET c == Lookup(cache, txn.addr)
           IN /\ c \in Caches
              /\ SetState(c, txn.addr, state) \in Caches
              /\ SetState(AddSharer(c, txn.addr, txn.srcNodeID), txn.addr, state)
                    \in Caches
              /\ GrantAlone(c, txn, state) \in Caches
<1> DEFINE c == Lookup(cache, txn.addr)
<1>1. txn.addr \in Addr /\ txn.srcNodeID \in Nodes
    BY DEF ChiTransaction
<1>2. c \in Caches
    BY <1>1, LookupType DEF EngineTypeOK
<1> HIDE DEF c
<1>3. SetState(c, txn.addr, state) \in Caches
    BY <1>1, <1>2, UpdateTypes
<1>4. AddSharer(c, txn.addr, txn.srcNodeID) \in Caches
    BY <1>1, <1>2, UpdateTypes
<1>5. SetState(AddSharer(c, txn.addr, txn.srcNodeID), txn.addr, state) \in Caches
    BY <1>1, <1>4, UpdateTypes
<1>6. ClearSharers(SetState(c, txn.addr, state), txn.addr) \in Caches
    BY <1>1, <1>3, UpdateTypes
<1>7. GrantAlone(c, txn, state) \in Caches
    BY <1>1, <1>6, UpdateTypes DEF GrantAlone
<1> QED BY <1>2, <1>3, <1>5, <1>7 DEF c

\* What every request handler does: the cache stays a cache and the tables make
\* one of four moves.
RequestMove(txn) ==
    /\ cache' \in Caches
    /\ fault' \in {"none", "MissEvictDirty", "NullData"}
    /\ ActionsInRange
    /\ Stay \/ OpensMem(txn) \/ Awaits(txn) \/ Snoops(txn)

\* The three pieces the handlers are made of are request moves.
LEMMA PiecesMove ==
    ASSUME EngineTypeOK, NEW txn \in ChiTransaction
    PROVE  /\ \A target \in LineState : ReadMiss(txn, target) => RequestMove(txn)
           /\ \A type \in SnoopTypes, retToSrc \in BOOLEAN, target \in LineState :
                 SnoopOthers(txn, type, retToSrc, target) => RequestMove(txn)
           /\ \A c \in Caches : \A state, data :
                 Serve(c, CompData(txn, state, data)) => RequestMove(txn)
           /\ \A c \in Caches : Serve(c, Comp(txn)) => RequestMove(txn)
<1>1. fault \in {"none", "MissEvictDirty", "NullData"}
    BY DEF EngineTypeOK
<1>2. ASSUME NEW target \in LineState, ReadMiss(txn, target)
      PROVE  RequestMove(txn)
    BY <1>2, MissMoves DEF RequestMove
<1>3. ASSUME NEW type \in SnoopTypes, NEW retToSrc \in BOOLEAN,
             NEW target \in LineState, SnoopOthers(txn, type, retToSrc, target)
      PROVE  RequestMove(txn)
    BY <1>1, <1>3, SnoopMoves DEF RequestMove
<1>4. ASSUME NEW c \in Caches, NEW state, NEW data,
             Serve(c, CompData(txn, state, data))
      PROVE  RequestMove(txn)
    BY <1>1, <1>4, ServeMoves DEF RequestMove
<1>5. ASSUME NEW c \in Caches, Serve(c, Comp(txn))
      PROVE  RequestMove(txn)
    BY <1>1, <1>5, ServeMoves DEF RequestMove
<1> QED BY <1>2, <1>3, <1>4, <1>5

\* handleReadShared.
LEMMA ReadSharedMoves ==
    ASSUME EngineTypeOK, NEW txn \in ChiTransaction, HandleReadShared(txn)
    PROVE  RequestMove(txn)
<1> DEFINE shared == IF HitDirty(txn) THEN "SD" ELSE "SC"
           c == SetState(AddSharer(Lookup(cache, txn.addr), txn.addr,
                                   txn.srcNodeID), txn.addr, shared)
<1>1. shared \in LineState /\ "SC" \in LineState /\ "SendSnpCleanInvalid" \in SnoopTypes
    BY DEF LineState, SnoopTypes
<1>2. c \in Caches
    <2> HIDE DEF shared
    <2> QED BY <1>1, ServedCaches
<1>3. \/ ReadMiss(txn, "SC")
      \/ SnoopOthers(txn, "SendSnpCleanInvalid", TRUE, "SC")
      \/ Serve(c, CompData(txn, shared, GetData(cache, txn.addr)))
    BY DEF HandleReadShared
<1> HIDE DEF c, shared
<1> QED BY <1>1, <1>2, <1>3, PiecesMove

\* handleReadUnique and handleReadNotSharedDirty.
LEMMA ReadUniqueMoves ==
    ASSUME EngineTypeOK, NEW txn \in ChiTransaction, HandleReadUnique(txn)
    PROVE  RequestMove(txn)
<1> DEFINE c == GrantAlone(Lookup(cache, txn.addr), txn, "UD")
<1>1. "UD" \in LineState /\ "SendSnpUnique" \in SnoopTypes
    BY DEF LineState, SnoopTypes
<1>2. c \in Caches
    BY <1>1, ServedCaches
<1>3. HitDirty(txn) \in BOOLEAN
    BY DEF HitDirty, NeedsWriteback, Present, IsDirty
<1>4. \/ ReadMiss(txn, "UD")
      \/ SnoopOthers(txn, "SendSnpUnique", HitDirty(txn), "UD")
      \/ Serve(c, CompData(txn, "UD", GetData(cache, txn.addr)))
    BY DEF HandleReadUnique
<1> HIDE DEF c
<1> QED BY <1>1, <1>2, <1>3, <1>4, PiecesMove

\* handleReadOnce.
LEMMA ReadOnceMoves ==
    ASSUME EngineTypeOK, NEW txn \in ChiTransaction, HandleReadOnce(txn)
    PROVE  RequestMove(txn)
<1> DEFINE c == Lookup(cache, txn.addr)
<1>1. "SC" \in LineState /\ "SendSnpOnce" \in SnoopTypes
    BY DEF LineState, SnoopTypes
<1>2. c \in Caches
    BY <1>1, ServedCaches
<1>3. \/ ReadMiss(txn, "SC")
      \/ SnoopOthers(txn, "SendSnpOnce", TRUE, "SC")
      \/ Serve(c, CompData(txn, HitState(txn), GetData(cache, txn.addr)))
    BY DEF HandleReadOnce
<1> HIDE DEF c
<1> QED BY <1>1, <1>2, <1>3, PiecesMove

\* handleCleanUnique.
LEMMA CleanUniqueMoves ==
    ASSUME EngineTypeOK, NEW txn \in ChiTransaction, HandleCleanUnique(txn)
    PROVE  RequestMove(txn)
<1> DEFINE c == Lookup(cache, txn.addr)
           clean == SetState(c, txn.addr, "UC")
           alone == GrantAlone(c, txn, "UC")
           data == GetData(cache, txn.addr)
<1>1. "UC" \in LineState
        /\ {"SendSnpCleanInvalid", "SendSnpNotSharedDirty"} \subseteq SnoopTypes
    BY DEF LineState, SnoopTypes
<1>2. c \in Caches /\ clean \in Caches /\ alone \in Caches
    BY <1>1, ServedCaches
<1>3. CASE /\ OpenMemTxn(txn, "WaitMemWriteAck", "UC")
           /\ cache' = clean
           /\ actions' = <<WriteNoSnp(txn.addr, nextInternalTxnId, data), Comp(txn)>>
    <2>1. txn.addr \in Addr /\ txn.txnID \in L1TxnIds
        BY DEF ChiTransaction
    <2>2. \A j \in DOMAIN actions' :
              \/ actions'[j] = WriteNoSnp(txn.addr, nextInternalTxnId, data)
              \/ actions'[j] = Comp(txn)
        BY <1>3
    <2>3. nextInternalTxnId' = nextInternalTxnId + 1 /\ fault' = fault
        BY <1>3 DEF OpenMemTxn
    <2>4. SendsNoSnoop /\ ActionsInRange
        BY <2>1, <2>2, <2>3
           DEF SendsNoSnoop, ActionsInRange, WriteNoSnp, Comp, SnoopTypes
    <2>5. OpensMem(txn)
        BY <1>1, <1>3, <2>4 DEF OpensMem
    <2> QED BY <1>2, <1>3, <2>3, <2>4, <2>5 DEF RequestMove, EngineTypeOK
<1>4. \/ ReadMiss(txn, "UC")
      \/ Serve(c, Comp(txn))
      \/ /\ OpenMemTxn(txn, "WaitMemWriteAck", "UC")
         /\ cache' = clean
         /\ actions' = <<WriteNoSnp(txn.addr, nextInternalTxnId, data), Comp(txn)>>
      \/ Serve(alone, Comp(txn))
      \/ SnoopOthers(txn, "SendSnpCleanInvalid", FALSE, "UC")
      \/ SnoopOthers(txn, "SendSnpNotSharedDirty", TRUE, "UC")
    BY DEF HandleCleanUnique
<1> HIDE DEF c, clean, alone, data
<1> QED BY <1>1, <1>2, <1>3, <1>4, PiecesMove

\* The write handlers wait for the RN-F's data.
LEMMA WriteMoves ==
    ASSUME EngineTypeOK, NEW txn \in ChiTransaction,
           HandleWrite(txn) \/ HandleWriteNoSnp(txn)
    PROVE  RequestMove(txn)
<1>1. SendsNoSnoop /\ ActionsInRange
    BY SendsNothing, SendsAnswer DEF HandleWrite, HandleWriteNoSnp, AwaitL1Data
<1>2. Awaits(txn) /\ UNCHANGED <<cache, fault>>
    BY <1>1 DEF HandleWrite, HandleWriteNoSnp, AwaitL1Data, Awaits
<1> QED BY <1>1, <1>2 DEF RequestMove, EngineTypeOK

\* recvRequest, whatever the opcode.
LEMMA RequestMoves ==
    ASSUME EngineTypeOK, NEW txn \in ChiTransaction, RecvRequest(txn)
    PROVE  RequestMove(txn)
<1>1. HandleUnmapped(txn) => RequestMove(txn)
    BY FetchMoves DEF HandleUnmapped, RequestMove, EngineTypeOK, LineState
<1> QED BY <1>1, ReadSharedMoves, ReadUniqueMoves, ReadOnceMoves,
           CleanUniqueMoves, WriteMoves
        DEF RecvRequest, HandleReadNotSharedDirty

-----------------------------------------------------------------------------
(* recvData and recvResponse *)

\* What an answer under id does when its transaction then has count snoops to
\* wait for, and counted are the snoops whose response has been counted: the
\* transaction is completed, which takes a count of zero, or waits on.
SnoopMove(id, count, counted) ==
    /\ id \in DOMAIN snoopToOrig
    /\ \/ Completes(snoopToOrig[id]) /\ count <= 0
       \/ Keeps(snoopToOrig[id], count, counted)

\* An answer under an id that is no snoop's ends at most one other transaction.
OtherMove(id) ==
    /\ id \notin DOMAIN snoopToOrig
    /\ Stay \/ \E k \in DOMAIN pending : Drops(k)

\* An answer to a snoop whose transaction is gone has no effect.
LateMove(id) ==
    /\ id \in DOMAIN snoopToOrig
    /\ snoopToOrig[id] \notin DOMAIN pending
    /\ Stay

CountOf(id) == pending[snoopToOrig[id]].pendingSnoopCount

\* A pending entry's request, the parts the handlers use.
LEMMA PendingTypes ==
    ASSUME EngineTypeOK, NEW k \in DOMAIN pending
    PROVE  /\ pending[k].origReq \in ChiTransaction
           /\ pending[k].origReq.addr \in Addr
           /\ pending[k].origReq.srcNodeID \in Nodes
           /\ pending[k].targetState \in LineState
           /\ pending[k].pendingSnoopCount \in Int
           /\ pending[k].pendingSnoopDataCount \in Int
<1>1. pending[k] \in PendingTxn
    BY DEF EngineTypeOK
<1> QED BY <1>1 DEF PendingTxn, ChiTransaction

\* completePending, from any cache value.
LEMMA CompleteMoves ==
    ASSUME EngineTypeOK, NEW id \in DOMAIN pending, NEW c \in Caches,
           CompletePending(id, c)
    PROVE  /\ cache' \in Caches
           /\ ActionsInRange
           /\ Completes(id)
           /\ fault' = fault
<1> DEFINE pt == pending[id]
           txn == pt.origReq
           alone == SetState(ClearSharers(c, txn.addr), txn.addr, pt.targetState)
<1>1. txn \in ChiTransaction /\ txn.addr \in Addr /\ txn.srcNodeID \in Nodes
        /\ pt.targetState \in LineState
    BY PendingTypes
<1>2. alone \in Caches
    <2>1. ClearSharers(c, txn.addr) \in Caches
        <3> HIDE DEF txn
        <3> QED BY <1>1, UpdateTypes
    <2> HIDE DEF txn
    <2> QED BY <1>1, <2>1, UpdateTypes
<1>3. AddSharer(alone, txn.addr, txn.srcNodeID) \in Caches
    <2> HIDE DEF txn, alone
    <2> QED BY <1>1, <1>2, UpdateTypes
<1>4. cache' \in {alone, AddSharer(alone, txn.addr, txn.srcNodeID)}
    BY DEF CompletePending
<1>5. \E answer :
        /\ actions' = <<answer>>
        /\ answer = Comp(txn) \/ \E state, data : answer = CompData(txn, state, data)
    BY DEF CompletePending
<1>6. SendsNoSnoop /\ ActionsInRange
    <2> HIDE DEF txn
    <2> QED BY <1>1, <1>5, SendsAnswer
<1> QED BY <1>2, <1>3, <1>4, <1>6 DEF CompletePending, Completes

\* Waiting on with a new count.
LEMMA KeepMoves ==
    ASSUME EngineTypeOK, NEW id \in DOMAIN pending, NEW c \in Caches,
           NEW count \in Int, NEW dataCount \in Int,
           KeepWaiting(id, [pending[id] EXCEPT !.pendingSnoopCount = count,
                                               !.pendingSnoopDataCount = dataCount],
                       c)
    PROVE  /\ cache' \in Caches
           /\ ActionsInRange
           /\ Keeps(id, count, snoopRespCounted')
           /\ fault' = fault
BY SendsNothing DEF KeepWaiting, Keeps

\* Data under a snoop id counts as the response only when it is the first.
LEMMA SnoopDataMoves ==
    ASSUME EngineTypeOK, NEW id \in DOMAIN snoopToOrig, NEW data \in Data,
           RecvSnoopData(id, data)
    PROVE  /\ cache' \in Caches
           /\ fault' = fault
           /\ ActionsInRange
           /\ \/ LateMove(id)
              \/ SnoopMove(id, IF id \in snoopRespCounted THEN CountOf(id)
                               ELSE CountOf(id) - 1,
                           snoopRespCounted \cup {id})
<1> DEFINE orig == snoopToOrig[id]
<1>1. CASE orig \notin DOMAIN pending
    <2>1. NothingToDo
        BY <1>1 DEF RecvSnoopData
    <2> QED BY <1>1, <2>1, SendsNothing
            DEF NothingToDo, LateMove, Stay, EngineTypeOK
<1>2. CASE orig \in DOMAIN pending
    <2> DEFINE first == id \notin snoopRespCounted
               count == IF first THEN CountOf(id) - 1 ELSE CountOf(id)
               dataCount == pending[orig].pendingSnoopDataCount - 1
               pt == [pending[orig] EXCEPT !.pendingSnoopCount = count,
                                           !.pendingSnoopDataCount = dataCount]
               c == Fill(cache, pending[orig].origReq.addr,
                         pending[orig].targetState, data)
    <2>1. count \in Int /\ dataCount \in Int
        BY <1>2, PendingTypes DEF CountOf
    <2>2. c \in Caches
        <3>1. /\ pending[orig].origReq.addr \in Addr
              /\ pending[orig].targetState \in LineState
              /\ cache \in Caches
            BY <1>2, PendingTypes DEF EngineTypeOK
        <3> QED BY <3>1, FillType
    <2>3. pending[orig] \in PendingTxn
        BY <1>2 DEF EngineTypeOK
    <2>4. pt = [pending[orig] EXCEPT !.pendingSnoopDataCount = @ - 1,
                                     !.pendingSnoopCount = IF first THEN @ - 1 ELSE @]
        BY <2>3 DEF PendingTxn, CountOf
    <2>5. pt.pendingSnoopCount = count /\ pt.origReq = pending[orig].origReq
            /\ pt.targetState = pending[orig].targetState
        BY <2>3 DEF PendingTxn
    <2>6. IF AllAnswered(pt)
          THEN CompletePending(orig, c)
          ELSE /\ KeepWaiting(orig, pt, c)
               /\ snoopRespCounted' = snoopRespCounted \cup {id}
        BY <1>2, <2>4, <2>5 DEF RecvSnoopData, FirstBeat
    <2>7. CASE AllAnswered(pt)
        <3>1. CompletePending(orig, c) /\ count <= 0
            BY <2>5, <2>6, <2>7 DEF AllAnswered
        <3> HIDE DEF c, count, orig
        <3>2. cache' \in Caches /\ ActionsInRange /\ Completes(orig) /\ fault' = fault
            BY <1>2, <2>2, <3>1, CompleteMoves
        <3> QED BY <3>1, <3>2 DEF SnoopMove, orig, count
    <2>8. CASE ~AllAnswered(pt)
        <3>1. KeepWaiting(orig, pt, c) /\ snoopRespCounted' = snoopRespCounted \cup {id}
            BY <2>6, <2>8
        <3>2. /\ cache' \in Caches
              /\ ActionsInRange
              /\ Keeps(orig, count, snoopRespCounted')
              /\ fault' = fault
            <4> HIDE DEF c, count, dataCount, orig
            <4> QED BY <1>2, <2>1, <2>2, <3>1, KeepMoves
        <3> QED BY <3>1, <3>2 DEF SnoopMove
    <2> QED BY <2>7, <2>8
<1> QED BY <1>1, <1>2

\* Data under any other id ends the write or the fetch that waits for it.
LEMMA OtherDataMoves ==
    ASSUME EngineTypeOK, NEW id, NEW addr, NEW data \in Data,
           id \notin DOMAIN snoopToOrig, RecvData(id, addr, data)
    PROVE  /\ cache' \in Caches
           /\ fault' = fault
           /\ ActionsInRange
           /\ OtherMove(id)
<1>1. ASSUME NEW k \in WriteDataEntries(id, addr), RecvWriteData(k, data)
      PROVE  cache' \in Caches /\ fault' = fault /\ ActionsInRange /\ OtherMove(id)
    <2> DEFINE txn == pending[k].origReq
    <2>1. k \in DOMAIN pending /\ pending[k].state # "WaitSnoopResp"
        BY DEF WriteDataEntries
    <2>2. txn.addr \in Addr /\ txn.srcNodeID \in Nodes
        BY <2>1, PendingTypes
    <2>3. Fill(cache, txn.addr, "UD", data) \in Caches
        <3> HIDE DEF txn
        <3> QED BY <2>2, FillType DEF EngineTypeOK, LineState
    <2>4. cache' \in Caches
        <3> HIDE DEF txn
        <3> QED BY <1>1, <2>2, <2>3, UpdateTypes DEF RecvWriteData, txn
    <2> QED BY <1>1, <2>1, <2>4, SendsNothing
            DEF RecvWriteData, OtherMove, Drops
<1>2. ASSUME AwaitsMemData(id), RecvMemData(id, data)
      PROVE  cache' \in Caches /\ fault' = fault /\ ActionsInRange /\ OtherMove(id)
    <2> DEFINE txn == pending[id].origReq
               c == Fill(cache, txn.addr, pending[id].targetState, data)
    <2>1. id \in DOMAIN pending /\ pending[id].state # "WaitSnoopResp"
        BY <1>2 DEF AwaitsMemData
    <2>2. txn \in ChiTransaction /\ txn.addr \in Addr /\ txn.srcNodeID \in Nodes
            /\ pending[id].targetState \in LineState
        BY <2>1, PendingTypes
    <2>3. c \in Caches
        <3> HIDE DEF txn
        <3> QED BY <2>2, FillType DEF EngineTypeOK
    <2>4. AddSharer(c, txn.addr, txn.srcNodeID) \in Caches
        <3> HIDE DEF txn, c
        <3> QED BY <2>2, <2>3, UpdateTypes
    <2>5. cache' \in {c, AddSharer(c, txn.addr, txn.srcNodeID)}
        BY <1>2 DEF RecvMemData
    <2>6. \E answer :
            /\ actions' = <<answer>>
            /\ answer = Comp(txn) \/ \E state, d : answer = CompData(txn, state, d)
        BY <1>2 DEF RecvMemData
    <2>7. SendsNoSnoop /\ ActionsInRange
        <3> HIDE DEF txn
        <3> QED BY <2>2, <2>6, SendsAnswer
    <2> QED BY <1>2, <2>1, <2>3, <2>4, <2>5, <2>7 DEF RecvMemData, OtherMove, Drops, Erase
<1>3. ASSUME NothingToDo
      PROVE  cache' \in Caches /\ fault' = fault /\ ActionsInRange /\ OtherMove(id)
    BY <1>3, SendsNothing DEF NothingToDo, OtherMove, Stay, EngineTypeOK
<1> QED BY <1>1, <1>2, <1>3 DEF RecvData

\* recvData.
LEMMA DataMoves ==
    ASSUME EngineTypeOK, NEW id, NEW addr, NEW data \in Data,
           RecvData(id, addr, data)
    PROVE  /\ cache' \in Caches
           /\ fault' = "none"
           /\ ActionsInRange
           /\ \/ LateMove(id)
              \/ SnoopMove(id, IF id \in snoopRespCounted THEN CountOf(id)
                               ELSE CountOf(id) - 1,
                           snoopRespCounted \cup {id})
              \/ OtherMove(id)
<1>1. fault = "none"
    BY DEF RecvData
<1>2. CASE id \in DOMAIN snoopToOrig
    BY <1>1, <1>2, SnoopDataMoves DEF RecvData
<1>3. CASE id \notin DOMAIN snoopToOrig
    BY <1>1, <1>3, OtherDataMoves
<1> QED BY <1>2, <1>3

\* recvResponse: a snoop response always counts; the copy from a line that has
\* gone ends the simulator.
LEMMA ResponseMoves ==
    ASSUME EngineTypeOK, NEW id, RecvResponse(id)
    PROVE  /\ cache' \in Caches
           /\ fault' \in {"none", "NullData"}
           /\ ActionsInRange
           /\ \/ fault' # "none" /\ Stay
              \/ LateMove(id)
              \/ SnoopMove(id, CountOf(id) - 1, snoopRespCounted)
              \/ OtherMove(id)
<1>1. fault = "none" /\ cache \in Caches
    BY DEF RecvResponse, EngineTypeOK
<1>2. CASE id \in DOMAIN snoopToOrig /\ snoopToOrig[id] \notin DOMAIN pending
    <2>1. NothingToDo
        BY <1>2 DEF RecvResponse, RecvSnoopResp
    <2> QED BY <1>1, <1>2, <2>1, SendsNothing DEF NothingToDo, LateMove, Stay
<1>3. CASE id \notin DOMAIN snoopToOrig /\ AwaitsWriteAck(id) /\ RecvWriteAck(id)
    <2>1. id \in DOMAIN pending /\ pending[id].state # "WaitSnoopResp"
        BY <1>3 DEF AwaitsWriteAck
    <2> QED BY <1>1, <1>3, <2>1, SendsNothing
            DEF RecvWriteAck, OtherMove, Drops, Erase
<1>4. CASE id \in DOMAIN snoopToOrig /\ snoopToOrig[id] \in DOMAIN pending
    <2> DEFINE orig == snoopToOrig[id]
               count == CountOf(id) - 1
               pt == [pending[orig] EXCEPT !.pendingSnoopCount = count]
    <2>1. pending[orig] \in PendingTxn
        BY <1>4 DEF EngineTypeOK
    <2>2. pt = [pending[orig] EXCEPT !.pendingSnoopCount = @ - 1]
            /\ pt.pendingSnoopCount = count /\ pt.origReq = pending[orig].origReq
        BY <2>1 DEF PendingTxn, CountOf
    <2>3. \/ KeepWaiting(orig, pt, cache) /\ UNCHANGED snoopRespCounted
          \/ AllAnswered(pt) /\ CompletePending(orig, cache)
          \/ Fault("NullData")
        BY <1>4, <2>2 DEF RecvResponse, RecvSnoopResp
    <2>4. CASE KeepWaiting(orig, pt, cache) /\ UNCHANGED snoopRespCounted
        <3> DEFINE dataCount == pending[orig].pendingSnoopDataCount
        <3>1. count \in Int /\ dataCount \in Int
            BY <1>4, PendingTypes DEF CountOf
        <3>2. pt = [pending[orig] EXCEPT !.pendingSnoopCount = count,
                                         !.pendingSnoopDataCount = dataCount]
            BY <2>1 DEF PendingTxn
        <3>3. cache' \in Caches /\ ActionsInRange /\ fault' = fault
                /\ Keeps(orig, count, snoopRespCounted')
            <4> HIDE DEF orig, count, dataCount, pt
            <4> QED BY <1>1, <1>4, <2>4, <3>1, <3>2, KeepMoves DEF orig
        <3> QED BY <1>1, <1>4, <2>4, <3>3 DEF SnoopMove
    <2>5. CASE AllAnswered(pt) /\ CompletePending(orig, cache)
        <3>1. count <= 0
            BY <2>2, <2>5 DEF AllAnswered
        <3>2. cache' \in Caches /\ ActionsInRange /\ Completes(orig) /\ fault' = fault
            <4> HIDE DEF orig
            <4> QED BY <1>1, <1>4, <2>5, CompleteMoves DEF orig
        <3> QED BY <1>1, <1>4, <3>1, <3>2 DEF SnoopMove
    <2>6. CASE Fault("NullData")
        BY <1>1, <2>6, FaultMoves DEF Fault
    <2> QED BY <2>3, <2>4, <2>5, <2>6
<1>5. CASE id \notin DOMAIN snoopToOrig /\ NothingToDo
    BY <1>1, <1>5, SendsNothing DEF NothingToDo, OtherMove, Stay
<1> QED BY <1>2, <1>3, <1>4, <1>5 DEF RecvResponse

\* The tables only lose entries, and those kept are for the same request.
Shrinks ==
    /\ UNCHANGED counters
    /\ DOMAIN pending' \subseteq DOMAIN pending
    /\ \A k \in DOMAIN pending' :
          /\ pending'[k] \in PendingTxn
          /\ pending'[k].origReq = pending[k].origReq
          /\ pending'[k].state = pending[k].state
    /\ DOMAIN snoopToOrig' \subseteq DOMAIN snoopToOrig
    /\ \A s \in DOMAIN snoopToOrig' : snoopToOrig'[s] = snoopToOrig[s]
    /\ DOMAIN memToOrig' \subseteq DOMAIN memToOrig
    /\ \A m \in DOMAIN memToOrig' : memToOrig'[m] = memToOrig[m]
    /\ SendsNoSnoop

\* Every move that an answer can make shrinks the tables.
LEMMA MovesShrink ==
    ASSUME EngineTypeOK, NEW id, NEW count \in Int, NEW counted,
           \/ Stay
           \/ SnoopMove(id, count, counted)
           \/ OtherMove(id)
    PROVE  Shrinks
<1>1. CASE Stay
    BY <1>1 DEF Stay, Shrinks, tables, counters, EngineTypeOK
<1>2. ASSUME NEW k, Completes(k) PROVE Shrinks
    BY <1>2 DEF Completes, Shrinks, Erase, EngineTypeOK
<1>3. ASSUME NEW k, Keeps(k, count, counted) PROVE Shrinks
    <2>1. PICK dataCount \in Int :
              pending' = [pending EXCEPT ![k] =
                            [pending[k] EXCEPT !.pendingSnoopCount = count,
                                               !.pendingSnoopDataCount = dataCount]]
        BY <1>3 DEF Keeps
    <2>2. pending[k] \in PendingTxn
        BY <1>3 DEF Keeps, EngineTypeOK
    <2> DEFINE pt == [pending[k] EXCEPT !.pendingSnoopCount = count,
                                        !.pendingSnoopDataCount = dataCount]
    <2>3. pt \in PendingTxn /\ pt.origReq = pending[k].origReq
            /\ pt.state = pending[k].state
        BY <2>2 DEF PendingTxn
    <2> HIDE DEF pt
    <2>4. /\ DOMAIN pending' = DOMAIN pending
          /\ \A j \in DOMAIN pending' : pending'[j] = IF j = k THEN pt ELSE pending[j]
        BY <2>1 DEF pt
    <2> QED BY <1>3, <2>3, <2>4 DEF Keeps, Shrinks, EngineTypeOK
<1>4. ASSUME NEW k, Drops(k) PROVE Shrinks
    BY <1>4 DEF Drops, Shrinks, Erase, EngineTypeOK
<1> QED BY <1>1, <1>2, <1>3, <1>4 DEF SnoopMove, OtherMove

\* An answer keeps the engine's types.
LEMMA ShrinkKeepsTypes ==
    ASSUME EngineTypeOK, Shrinks, cache' \in Caches,
           fault' \in {"none", "MissEvictDirty", "NullData"},
           snoopRespCounted' \subseteq Nat
    PROVE  EngineTypeOK'
BY DEF EngineTypeOK, Shrinks, counters

\* A snoop's answer is counted for a transaction that is pending.
LEMMA CountType ==
    ASSUME EngineTypeOK, NEW id, NEW count, NEW counted, SnoopMove(id, count, counted)
    PROVE  CountOf(id) \in Int /\ id \in Nat
<1>1. snoopToOrig[id] \in DOMAIN pending /\ id \in DOMAIN snoopToOrig
    BY DEF SnoopMove, Completes, Keeps
<1> QED BY <1>1, PendingTypes DEF CountOf, EngineTypeOK

\* recvData and recvResponse keep the engine's types, and shrink its tables.
LEMMA AnswersKeepEngine ==
    ASSUME EngineTypeOK, NEW id,
           \/ \E addr : \E data \in Data : RecvData(id, addr, data)
           \/ RecvResponse(id)
    PROVE  EngineTypeOK' /\ ActionsInRange /\ Shrinks
<1>1. ASSUME NEW count, NEW counted,
             \/ Stay
             \/ SnoopMove(id, count, counted) /\ count \in Int /\ counted \subseteq Nat
             \/ OtherMove(id)
      PROVE  Shrinks /\ snoopRespCounted' \subseteq Nat
    <2>1. Shrinks
        <3>1. CASE count \in Int
            BY <1>1, <3>1, MovesShrink
        <3>2. CASE Stay \/ OtherMove(id)
            <4>1. 0 \in Int
                OBVIOUS
            <4> QED BY <3>2, <4>1, MovesShrink
        <3> QED BY <1>1, <3>1, <3>2
    <2>2. snoopRespCounted' \subseteq snoopRespCounted \cup {x \in Nat : x \in counted}
        BY <1>1 DEF Stay, SnoopMove, OtherMove, Completes, Keeps, Drops, tables
    <2> QED BY <2>1, <2>2 DEF EngineTypeOK
<1>2. ASSUME NEW addr, NEW data \in Data, RecvData(id, addr, data)
      PROVE  EngineTypeOK' /\ ActionsInRange /\ Shrinks
    <2>1. PICK count, counted :
              /\ count = IF id \in snoopRespCounted THEN CountOf(id) ELSE CountOf(id) - 1
              /\ counted = snoopRespCounted \cup {id}
        OBVIOUS
    <2>2. /\ cache' \in Caches /\ fault' = "none" /\ ActionsInRange
          /\ LateMove(id) \/ SnoopMove(id, count, counted) \/ OtherMove(id)
        BY <1>2, <2>1, DataMoves
    <2>3. ASSUME SnoopMove(id, count, counted)
          PROVE  count \in Int /\ counted \subseteq Nat
        <3>1. CountOf(id) \in Int /\ id \in Nat
            BY <2>3, CountType
        <3>2. snoopRespCounted \subseteq Nat
            BY DEF EngineTypeOK
        <3> QED BY ONLY <2>1, <3>1, <3>2
    <2>4. Shrinks /\ snoopRespCounted' \subseteq Nat
        BY <1>1, <2>2, <2>3 DEF LateMove
    <2> QED BY <2>2, <2>4, ShrinkKeepsTypes
<1>3. CASE RecvResponse(id)
    <2>1. PICK count : count = CountOf(id) - 1
        OBVIOUS
    <2>2. /\ cache' \in Caches /\ fault' \in {"none", "NullData"} /\ ActionsInRange
          /\ Stay \/ SnoopMove(id, count, snoopRespCounted) \/ OtherMove(id)
        BY <1>3, <2>1, ResponseMoves DEF LateMove
    <2>3. ASSUME SnoopMove(id, count, snoopRespCounted)
          PROVE  count \in Int /\ snoopRespCounted \subseteq Nat
        <3>1. CountOf(id) \in Int
            BY <2>3, CountType
        <3>2. snoopRespCounted \subseteq Nat
            BY DEF EngineTypeOK
        <3> QED BY ONLY <2>1, <3>1, <3>2
    <2>4. Shrinks /\ snoopRespCounted' \subseteq Nat
        BY <1>1, <2>2, <2>3
    <2> QED BY <2>2, <2>4, ShrinkKeepsTypes
<1> QED BY <1>2, <1>3

\* There are finitely many other sharers.
LEMMA OtherSharersCount ==
    ASSUME EngineTypeOK, NEW txn \in ChiTransaction
    PROVE  /\ Cardinality(OtherSharers(txn)) \in Nat
           /\ Cardinality(Nodes) \in Nat
           /\ Cardinality(OtherSharers(txn)) <= Cardinality(Nodes)
<1>1. txn.addr \in Addr /\ cache \in Caches
    BY DEF ChiTransaction, EngineTypeOK
<1>2. GetSharers(cache, txn.addr) \subseteq Nodes
    BY <1>1, HitWay DEF GetSharers, CacheLine
<1>3. PICK others \in SUBSET Nodes : others = OtherSharers(txn)
    BY <1>2 DEF OtherSharers
<1>4. IsFiniteSet(Nodes)
    BY NodesAssumption
<1> QED BY ONLY <1>3, <1>4, FS_Subset, FS_CardinalityType

\* A request keeps the engine's types.
LEMMA RequestKeepsEngine ==
    ASSUME EngineTypeOK, NEW txn \in ChiTransaction, RequestMove(txn)
    PROVE  EngineTypeOK'
<1>1. /\ txn.txnID \in L1TxnIds /\ txn.txnID \in Nat
      /\ nextInternalTxnId \in Nat /\ nextSnoopTxnId \in Nat
    BY IdsAssumption DEF ChiTransaction, EngineTypeOK
<1>2. CASE Stay
    BY <1>2 DEF RequestMove, Stay, EngineTypeOK, tables, counters
<1>3. ASSUME NEW key \in Nat, NEW state \in PendingState, NEW target \in LineState,
             NEW count \in Int, NEW dataCount \in Int,
             pending' = Put(pending, key, Waiting(txn, state, target, count, dataCount))
      PROVE  /\ DOMAIN pending' \subseteq Nat
             /\ \A k \in DOMAIN pending' : pending'[k] \in PendingTxn
    <2> DEFINE pt == Waiting(txn, state, target, count, dataCount)
    <2>1. pt \in PendingTxn
        BY DEF Waiting, PendingTxn
    <2> HIDE DEF pt
    <2>2. /\ DOMAIN pending' = DOMAIN pending \cup {key}
          /\ \A k \in DOMAIN pending' : pending'[k] = IF k = key THEN pt ELSE pending[k]
        BY <1>3 DEF Put, pt
    <2> QED BY <2>1, <2>2 DEF EngineTypeOK
<1>4. CASE Awaits(txn)
    <2>1. "WaitL1Data" \in PendingState /\ "I" \in LineState
        BY DEF PendingState, LineState
    <2>2. /\ DOMAIN pending' \subseteq Nat
          /\ \A k \in DOMAIN pending' : pending'[k] \in PendingTxn
        BY <1>1, <1>3, <1>4, <2>1 DEF Awaits
    <2> QED BY <1>4, <2>2 DEF RequestMove, Awaits, EngineTypeOK, counters
<1>5. CASE OpensMem(txn)
    <2>1. PICK state \in {"WaitMemData", "WaitMemWriteAck"}, target \in LineState :
              OpenMemTxn(txn, state, target)
        BY <1>5 DEF OpensMem
    <2>2. state \in PendingState
        BY DEF PendingState
    <2>3. /\ DOMAIN pending' \subseteq Nat
          /\ \A k \in DOMAIN pending' : pending'[k] \in PendingTxn
        BY <1>1, <1>3, <2>1, <2>2 DEF OpenMemTxn
    <2>4. /\ DOMAIN memToOrig' \subseteq Nat
          /\ \A k \in DOMAIN memToOrig' : memToOrig'[k] \in L1TxnIds
        BY <1>1, <2>1 DEF OpenMemTxn, Put, EngineTypeOK
    <2> QED BY <1>1, <2>1, <2>3, <2>4 DEF RequestMove, OpenMemTxn, EngineTypeOK
<1>6. CASE Snoops(txn)
    <2>1. PICK type \in SnoopTypes, retToSrc \in BOOLEAN, target \in LineState :
              SnoopOthers(txn, type, retToSrc, target)
        BY <1>6 DEF Snoops
    <2>2. PICK count \in Nat : count = Cardinality(OtherSharers(txn))
        BY OtherSharersCount
    <2>3. PICK ids : ids = nextSnoopTxnId .. nextSnoopTxnId + count - 1
        OBVIOUS
    <2>4. ids \subseteq Nat
        BY <1>1, <2>3
    <2>5. "WaitSnoopResp" \in PendingState
        BY DEF PendingState
    <2>6. PICK dataCount \in Int :
              pending' = Put(pending, txn.txnID,
                             Waiting(txn, "WaitSnoopResp", target, count, dataCount))
        <3>1. (IF retToSrc THEN count ELSE 0) \in Int
            OBVIOUS
        <3> QED BY <2>1, <2>2, <3>1 DEF SnoopOthers
    <2>7. /\ DOMAIN pending' \subseteq Nat
          /\ \A k \in DOMAIN pending' : pending'[k] \in PendingTxn
        BY <1>1, <1>3, <2>5, <2>6
    <2>8. snoopToOrig' = [s \in DOMAIN snoopToOrig \cup ids |->
                             IF s \in ids THEN txn.txnID ELSE snoopToOrig[s]]
        BY <2>1, <2>2, <2>3 DEF SnoopOthers
    <2>9. nextSnoopTxnId' = nextSnoopTxnId + count
        BY <2>1, <2>2 DEF SnoopOthers
    <2>10. UNCHANGED <<memToOrig, snoopRespCounted, nextInternalTxnId>>
        BY <2>1 DEF SnoopOthers
    <2>11. /\ DOMAIN snoopToOrig' \subseteq Nat
           /\ \A s \in DOMAIN snoopToOrig' : snoopToOrig'[s] \in L1TxnIds
        BY <1>1, <2>4, <2>8 DEF EngineTypeOK
    <2>12. nextSnoopTxnId' \in Nat
        BY <1>1, <2>9
    <2> QED BY <2>7, <2>10, <2>11, <2>12 DEF RequestMove, EngineTypeOK
<1> QED BY <1>2, <1>4, <1>5, <1>6 DEF RequestMove
=============================================================================
