--------------------------- MODULE ChiL2SafetyProofs ---------------------------
(***************************************************************************)
(* Three invariants beyond that of ChiL2SystemProofs, and what they prove  *)
(* for any number of RN-Fs, lines, ways, requests and beats.               *)
(*                                                                         *)
(*  - CInv: requests are completed once, and not before the last answer to *)
(*    their snoops.  It needs that no two pending entries are for one      *)
(*    request, since an entry opened for memory and one that waits for     *)
(*    snoops are kept under keys of different kinds.                       *)
(*  - DInv: the directory never records two sharers of a line in SD.  What *)
(*    makes it inductive is that no transaction waits with SD as the state *)
(*    to give to its line, so a line becomes SD only in handleReadShared,  *)
(*    with one sharer recorded, and every other step that adds a sharer    *)
(*    has taken the line out of SD.                                        *)
(*  - QInv: nothing is pending that no message in flight will end.  Write  *)
(*    data need not end the entry of its own request, so what is kept is a *)
(*    count, line by line: as many requests with write data under way as   *)
(*    entries that wait for some.                                          *)
(***************************************************************************)
EXTENDS ChiL2SystemProofs

-----------------------------------------------------------------------------
(* Completions *)

\* The states of an entry whose end completes the request.
Open == {"WaitMemData", "WaitSnoopResp"}

OneEntryPerRequest ==
    \A j, k \in DOMAIN pending :
        pending[j].origReq.txnID = pending[k].origReq.txnID => j = k

CompletedOnlyOnce ==
    /\ \A id \in completed : \E txn \in issued : txn.txnID = id
    /\ \A k \in DOMAIN pending :
          pending[k].state \in Open => pending[k].origReq.txnID \notin completed

\* The inductive invariant, with IInv.
CInv == OneEntryPerRequest /\ CompletedOnlyOnce

-----------------------------------------------------------------------------
(* recvRequest *)

\* A request is completed at once, or an entry is opened for it, or both if the
\* entry waits for memory's acknowledgement only.
RequestAnswered(txn) ==
    /\ \A a \in Completions : Answers(a, txn)
    /\ \E key : \A k \in DOMAIN pending' :
          \/ k \in DOMAIN pending /\ pending'[k] = pending[k]
          \/ /\ k = key
             /\ pending'[k].origReq = txn
             /\ pending'[k].state \in Open => Completions = {}

\* A vector that has neither Comp nor CompData completes nothing.
LEMMA NothingCompleted ==
    ASSUME \A j \in DOMAIN actions' :
               actions'[j].type \notin {"SendComp", "SendCompData"}
    PROVE  Completions = {}
BY DEF Completions, Sent

\* A new entry in the table.
LEMMA EntryPut ==
    ASSUME NEW txn, NEW key, NEW state, NEW target, NEW count, NEW dataCount,
           pending' = Put(pending, key, Waiting(txn, state, target, count, dataCount)),
           \A a \in Completions : Answers(a, txn),
           state \in Open => Completions = {}
    PROVE  RequestAnswered(txn)
<1>1. \A k \in DOMAIN pending' :
          \/ k \in DOMAIN pending /\ pending'[k] = pending[k]
          \/ /\ k = key
             /\ pending'[k].origReq = txn
             /\ pending'[k].state \in Open => Completions = {}
    BY DEF Put, Waiting
<1> QED BY <1>1 DEF RequestAnswered

\* A miss completes nothing yet.
LEMMA MissAnswered ==
    ASSUME NEW txn, NEW target, ReadMiss(txn, target) \/ FetchFromMemory(txn, target)
    PROVE  RequestAnswered(txn)
<1>1. CASE FetchFromMemory(txn, target)
    <2>1. Completions = {}
        <3>1. actions' = <<ReadNoSnp(txn.addr, nextInternalTxnId)>>
            BY <1>1 DEF FetchFromMemory
        <3> QED BY <3>1, NothingCompleted DEF ReadNoSnp
    <2> QED BY <1>1, <2>1, EntryPut DEF FetchFromMemory, OpenMemTxn
<1>2. ASSUME NEW what, Fault(what) PROVE RequestAnswered(txn)
    <2>1. Completions = {} /\ pending' = pending
        BY <1>2, NothingCompleted DEF Fault, tables
    <2> QED BY <2>1 DEF RequestAnswered
<1> QED BY <1>1, <1>2 DEF ReadMiss

\* Nor does a request that snoops.
LEMMA SnoopAnswered ==
    ASSUME NEW txn, NEW type \in SnoopTypes, NEW retToSrc, NEW target,
           SnoopOthers(txn, type, retToSrc, target)
    PROVE  RequestAnswered(txn)
<1>1. \A j \in DOMAIN actions' : actions'[j].type = type
    BY DEF SnoopOthers, Snoop
<1>2. Completions = {}
    BY <1>1, NothingCompleted DEF SnoopTypes
<1>3. \E count, dataCount :
          pending' = Put(pending, txn.txnID,
                         Waiting(txn, "WaitSnoopResp", target, count, dataCount))
    BY DEF SnoopOthers
<1> QED BY <1>2, <1>3, EntryPut

\* A single answer of the kind that the opcode calls for.
LEMMA AnswerFits ==
    ASSUME NEW txn, NEW answer, actions' = <<answer>>,
           \/ txn.opcode = "CleanUnique" /\ answer = Comp(txn)
           \/ /\ txn.opcode # "CleanUnique"
              /\ \E state, data : answer = CompData(txn, state, data)
    PROVE  \A a \in Completions : Answers(a, txn)
<1>1. \A a \in Completions : a = answer
    BY DEF Completions, Sent
<1> QED BY <1>1 DEF Answers, Comp, CompData

\* A hit that is served completes the request and opens nothing.
LEMMA ServeAnswered ==
    ASSUME NEW txn, NEW c, NEW answer, Serve(c, answer),
           \/ txn.opcode = "CleanUnique" /\ answer = Comp(txn)
           \/ /\ txn.opcode # "CleanUnique"
              /\ \E state, data : answer = CompData(txn, state, data)
    PROVE  RequestAnswered(txn)
<1>1. actions' = <<answer>> /\ pending' = pending
    BY DEF Serve, tables
<1> QED BY <1>1, AnswerFits DEF RequestAnswered

\* handleCleanUnique, the case that writes the line to memory: what is left
\* pending is not what completes the request.
LEMMA CleanUniqueAnswered ==
    ASSUME NEW txn, txn.opcode = "CleanUnique", HandleCleanUnique(txn)
    PROVE  RequestAnswered(txn)
<1>1. ASSUME NEW data, OpenMemTxn(txn, "WaitMemWriteAck", "UC"),
             actions' = <<WriteNoSnp(txn.addr, nextInternalTxnId, data), Comp(txn)>>
      PROVE  RequestAnswered(txn)
    <2>1. \A j \in DOMAIN actions' :
              \/ actions'[j] = WriteNoSnp(txn.addr, nextInternalTxnId, data)
              \/ actions'[j] = Comp(txn)
        BY <1>1
    <2>2. \A a \in Completions : a = Comp(txn)
        BY <2>1 DEF Completions, Sent, WriteNoSnp
    <2>3. \A a \in Completions : Answers(a, txn)
        BY <2>2 DEF Answers, Comp
    <2> QED BY <1>1, <2>3, EntryPut DEF OpenMemTxn, Open
<1>2. \A type \in SnoopTypes : \A retToSrc, target :
          SnoopOthers(txn, type, retToSrc, target) => RequestAnswered(txn)
    BY SnoopAnswered
<1>3. {"SendSnpCleanInvalid", "SendSnpNotSharedDirty"} \subseteq SnoopTypes
    BY DEF SnoopTypes
<1> QED BY <1>1, <1>2, <1>3, MissAnswered, ServeAnswered DEF HandleCleanUnique

\* recvRequest, whatever the opcode.
LEMMA RequestCompletes ==
    ASSUME NEW txn, RecvRequest(txn)
    PROVE  RequestAnswered(txn)
<1>1. \A type \in SnoopTypes : \A retToSrc, target :
          SnoopOthers(txn, type, retToSrc, target) => RequestAnswered(txn)
    BY SnoopAnswered
<1>2. {"SendSnpCleanInvalid", "SendSnpUnique", "SendSnpOnce"} \subseteq SnoopTypes
    BY DEF SnoopTypes
<1>3. ASSUME txn.opcode # "CleanUnique"
      PROVE  \A c, state, data :
                 Serve(c, CompData(txn, state, data)) => RequestAnswered(txn)
    BY <1>3, ServeAnswered
<1>4. CASE txn.opcode = "CleanUnique"
    BY <1>4, CleanUniqueAnswered DEF RecvRequest, WriteOps
<1>5. CASE txn.opcode # "CleanUnique" /\ HandleReadShared(txn)
    BY <1>1, <1>2, <1>3, <1>5, MissAnswered DEF HandleReadShared
<1>6. CASE txn.opcode # "CleanUnique" /\ HandleReadUnique(txn)
    BY <1>1, <1>2, <1>3, <1>6, MissAnswered DEF HandleReadUnique
<1>7. CASE txn.opcode # "CleanUnique" /\ HandleReadOnce(txn)
    BY <1>1, <1>2, <1>3, <1>7, MissAnswered DEF HandleReadOnce
<1>8. ASSUME NEW answer, AwaitL1Data(txn, answer),
             answer = <<>> \/ answer = <<CompDBIDResp(txn)>>
      PROVE  RequestAnswered(txn)
    <2>1. Completions = {}
        <3>1. \A j \in DOMAIN actions' : actions'[j] = CompDBIDResp(txn)
            BY <1>8 DEF AwaitL1Data
        <3> QED BY <3>1, NothingCompleted DEF CompDBIDResp
    <2> QED BY <1>8, <2>1, EntryPut DEF AwaitL1Data
<1>9. CASE HandleWrite(txn) \/ HandleWriteNoSnp(txn)
    BY <1>8, <1>9 DEF HandleWrite, HandleWriteNoSnp
<1>10. CASE HandleUnmapped(txn)
    BY <1>10, MissAnswered DEF HandleUnmapped
<1> QED BY <1>4, <1>5, <1>6, <1>7, <1>9, <1>10
        DEF RecvRequest, HandleReadNotSharedDirty
-----------------------------------------------------------------------------
(* recvData and recvResponse *)

\* Entry k is ended by an answer to its request.
EndsWith(k, a) ==
    /\ k \in DOMAIN pending
    /\ k \notin DOMAIN pending'
    /\ Answers(a, pending[k].origReq)

\* completePending answers the request that has waited.
LEMMA CompletePendingEnds ==
    ASSUME NEW k \in DOMAIN pending, NEW c, CompletePending(k, c),
           NEW a \in Completions
    PROVE  EndsWith(k, a)
<1> DEFINE txn == pending[k].origReq
<1>1. \E answer :
        /\ actions' = <<answer>>
        /\ \/ txn.opcode = "CleanUnique" /\ answer = Comp(txn)
           \/ /\ txn.opcode # "CleanUnique"
              /\ \E state, data : answer = CompData(txn, state, data)
    BY DEF CompletePending
<1>2. Answers(a, txn)
    <2> HIDE DEF txn
    <2> QED BY <1>1, AnswerFits
<1> QED BY <1>2 DEF EndsWith, CompletePending, Erase

\* A call that returns nothing completes nothing.
LEMMA EmptyCompletes ==
    ASSUME actions' = <<>>
    PROVE  Completions = {}
BY DEF Completions, Sent

\* Data completes the transaction whose snoop it answers or, when no snoop has its
\* id, the one that waits for memory under it.
LEMMA DataCompletes ==
    ASSUME NEW id, NEW addr, NEW data, RecvData(id, addr, data),
           NEW a \in Completions
    PROVE  \/ id \in DOMAIN snoopToOrig /\ EndsWith(snoopToOrig[id], a)
           \/ id \notin DOMAIN snoopToOrig /\ AwaitsMemData(id) /\ EndsWith(id, a)
<1>1. CASE id \in DOMAIN snoopToOrig
    <2>1. RecvSnoopData(id, data)
        BY <1>1 DEF RecvData
    <2>2. \E c : CompletePending(snoopToOrig[id], c) /\ snoopToOrig[id] \in DOMAIN pending
        BY <2>1, EmptyCompletes DEF RecvSnoopData, NothingToDo, KeepWaiting
    <2> QED BY <1>1, <2>2, CompletePendingEnds
<1>2. CASE id \notin DOMAIN snoopToOrig
    <2> DEFINE txn == pending[id].origReq
    <2>1. AwaitsMemData(id) /\ RecvMemData(id, data)
        BY <1>2, EmptyCompletes DEF RecvData, RecvWriteData, NothingToDo
    <2>2. \E answer :
            /\ actions' = <<answer>>
            /\ \/ txn.opcode = "CleanUnique" /\ answer = Comp(txn)
               \/ /\ txn.opcode # "CleanUnique"
                  /\ \E state, d : answer = CompData(txn, state, d)
        BY <2>1 DEF RecvMemData
    <2>3. Answers(a, txn)
        <3> HIDE DEF txn
        <3> QED BY <2>2, AnswerFits
    <2>4. id \in DOMAIN pending /\ id \notin DOMAIN pending'
        BY <2>1 DEF AwaitsMemData, RecvMemData, Erase
    <2> QED BY <1>2, <2>1, <2>3, <2>4 DEF EndsWith
<1> QED BY <1>1, <1>2

\* A response completes only the transaction whose snoop it answers.
LEMMA ResponseCompletes ==
    ASSUME NEW id, RecvResponse(id), NEW a \in Completions
    PROVE  id \in DOMAIN snoopToOrig /\ EndsWith(snoopToOrig[id], a)
<1>1. id \in DOMAIN snoopToOrig /\ RecvSnoopResp(id)
    BY EmptyCompletes DEF RecvResponse, RecvWriteAck, NothingToDo
<1>2. CompletePending(snoopToOrig[id], cache) /\ snoopToOrig[id] \in DOMAIN pending
    BY <1>1, EmptyCompletes DEF RecvSnoopResp, NothingToDo, KeepWaiting, Fault
<1> QED BY <1>1, <1>2, CompletePendingEnds

-----------------------------------------------------------------------------
(* The steps of the system *)

\* The entry that an answer under id ends, if it completes a request.
Ended(id) == IF id \in DOMAIN snoopToOrig THEN snoopToOrig[id] ELSE id

\* Every delivery ends at most one entry and keeps the others.
LEMMA DeliveryFacts ==
    ASSUME IInv, NEW id,
           \/ \E m \in datIn : m.txnId = id /\ DeliverData(m)
           \/ id \in rspIn /\ DeliverResponse(id)
    PROVE  /\ issued' = issued
           /\ completed' = completed \cup {a.txnId : a \in Completions}
           /\ Shrinks
           /\ \A a \in Completions :
                 /\ EndsWith(Ended(id), a)
                 /\ pending[Ended(id)].state \in Open
                 /\ id \in DOMAIN snoopToOrig
                       => pending[Ended(id)].state = "WaitSnoopResp"
                 /\ id \notin DOMAIN snoopToOrig
                       => pending[Ended(id)].state = "WaitMemData"
<1>1. EngineTypeOK
    BY DEF IInv, TypeOK
<1>2. \A s \in DOMAIN snoopToOrig : snoopToOrig[s] \in DOMAIN pending
            => CountOf(s) \in Int
    BY <1>1, PendingTypes DEF CountOf
<1>3. ASSUME NEW m \in datIn, m.txnId = id, DeliverData(m)
      PROVE  /\ Shrinks
             /\ issued' = issued
             /\ ExecuteActions
             /\ \A a \in Completions :
                   \/ id \in DOMAIN snoopToOrig /\ EndsWith(snoopToOrig[id], a)
                   \/ /\ id \notin DOMAIN snoopToOrig
                      /\ AwaitsMemData(id)
                      /\ EndsWith(id, a)
    <2>1. RecvData(id, m.addr, m.data) /\ m.data \in Data
        BY <1>3 DEF DeliverData, IInv, TypeOK, DataMsgs
    <2>2. Shrinks
        <3>1. CASE LateMove(id) \/ OtherMove(id)
            BY <1>1, <3>1, MovesShrink DEF LateMove
        <3>2. ASSUME NEW count, SnoopMove(id, count, snoopRespCounted \cup {id}),
                     count \in {CountOf(id), CountOf(id) - 1}
              PROVE  Shrinks
            <4>1. snoopToOrig[id] \in DOMAIN pending /\ id \in DOMAIN snoopToOrig
                BY <3>2 DEF SnoopMove, Completes, Keeps
            <4>2. count \in Int
                BY <1>2, <3>2, <4>1
            <4> QED BY <1>1, <3>2, <4>2, MovesShrink
        <3> QED BY <1>1, <2>1, <3>1, <3>2, DataMoves
    <2> QED BY <1>3, <2>1, <2>2, DataCompletes DEF DeliverData
<1>4. ASSUME id \in rspIn, DeliverResponse(id)
      PROVE  /\ Shrinks
             /\ issued' = issued
             /\ ExecuteActions
             /\ \A a \in Completions :
                   id \in DOMAIN snoopToOrig /\ EndsWith(snoopToOrig[id], a)
    <2>1. RecvResponse(id)
        BY <1>4 DEF DeliverResponse
    <2>2. Shrinks
        <3>1. CASE LateMove(id) \/ OtherMove(id) \/ Stay
            BY <1>1, <3>1, MovesShrink DEF LateMove
        <3>2. ASSUME SnoopMove(id, CountOf(id) - 1, snoopRespCounted)
              PROVE  Shrinks
            <4>1. snoopToOrig[id] \in DOMAIN pending /\ id \in DOMAIN snoopToOrig
                BY <3>2 DEF SnoopMove, Completes, Keeps
            <4>2. CountOf(id) - 1 \in Int
                BY <1>2, <4>1
            <4> QED BY <1>1, <3>2, <4>2, MovesShrink
        <3> QED BY <1>1, <2>1, <3>1, <3>2, ResponseMoves
    <2> QED BY <1>4, <2>1, <2>2, ResponseCompletes DEF DeliverResponse
<1>5. ExecuteActions => completed' = completed \cup {a.txnId : a \in Completions}
    BY DEF ExecuteActions, Completions
<1>6. \A k \in DOMAIN pending : k = Ended(id) /\ id \in DOMAIN snoopToOrig
          => pending[k].state = "WaitSnoopResp"
    BY DEF Ended, IInv, SnoopTablesAgree
<1> QED BY <1>3, <1>4, <1>5, <1>6 DEF Ended, EndsWith, Open, AwaitsMemData

\* A step that is neither a request nor a delivery completes nothing.
LEMMA QuietStep ==
    ASSUME [Next]_vars, ~NewRequest,
           \A m \in datIn : ~DeliverData(m), \A id \in rspIn : ~DeliverResponse(id)
    PROVE  \/ UNCHANGED vars
           \/ Completions = {} /\ UNCHANGED <<pending, issued, completed>>
<1>1. ASSUME NEW addr, Evict(addr)
      PROVE  actions' = <<>> /\ UNCHANGED <<pending, issued, completed>>
    BY <1>1 DEF Evict, InvalidateLine, tables
<1>2. ASSUME NEW addr, NEW data, FunctionalWrite(addr, data)
      PROVE  actions' = <<>> /\ UNCHANGED <<pending, issued, completed>>
    BY <1>2 DEF FunctionalWrite, tables
<1>3. ASSUME NEW m, AnswerSnoop(m) \/ AnswerMemRequest(m) \/ SendWriteData(m)
      PROVE  actions' = <<>> /\ UNCHANGED <<pending, issued, completed>>
    BY <1>3 DEF AnswerSnoop, AnswerMemRequest, SendWriteData, EngineIdle, tables
<1> QED BY <1>1, <1>2, <1>3, EmptyCompletes DEF Next, Deliver

\* A delivery keeps the uniqueness of entries and completions.
LEMMA DeliveryKeepsCInv ==
    ASSUME IInv, CInv, NEW id,
           \/ \E m \in datIn : m.txnId = id /\ DeliverData(m)
           \/ id \in rspIn /\ DeliverResponse(id)
    PROVE  CInv'
<1>1. \A k \in DOMAIN pending' :
          /\ k \in DOMAIN pending
          /\ pending'[k].origReq = pending[k].origReq
          /\ pending'[k].state = pending[k].state
    BY DeliveryFacts DEF Shrinks
<1>2. OneEntryPerRequest'
    BY <1>1 DEF OneEntryPerRequest, CInv
<1>3. \A a \in Completions :
          /\ EndsWith(Ended(id), a)
          /\ pending[Ended(id)].origReq \in issued
    BY DeliveryFacts DEF EndsWith, IInv, IdRanges
<1>4. \A x \in completed' : \E txn \in issued' : txn.txnID = x
    BY <1>3, DeliveryFacts DEF CInv, CompletedOnlyOnce, EndsWith, Answers
<1>5. ASSUME NEW k \in DOMAIN pending', pending'[k].state \in Open
      PROVE  pending'[k].origReq.txnID \notin completed'
    <2>1. pending'[k].origReq.txnID \notin completed
        BY <1>1, <1>5 DEF CInv, CompletedOnlyOnce
    <2>2. ASSUME NEW a \in Completions PROVE a.txnId # pending'[k].origReq.txnID
        <3>1. k # Ended(id) /\ Ended(id) \in DOMAIN pending
                /\ a.txnId = pending[Ended(id)].origReq.txnID
            BY <1>3 DEF EndsWith, Answers
        <3> QED BY <1>1, <3>1 DEF CInv, OneEntryPerRequest
    <2> QED BY <2>1, <2>2, DeliveryFacts
<1> QED BY <1>2, <1>4, <1>5 DEF CInv, CompletedOnlyOnce

\* And so does a request, whose id is new.
LEMMA RequestKeepsCInv ==
    ASSUME IInv, CInv, NewRequest
    PROVE  CInv' /\ CompletesOpenRequests /\ CompletesWithLastAnswer
<1>1. PICK txn \in Requests : FreshId(txn) /\ Request(txn)
    BY DEF NewRequest
<1>2. txn \in ChiTransaction
    BY OpcodesAssumption, AddrsAssumption DEF Requests, ChiTransaction
<1>3. /\ \A a \in Completions : Answers(a, txn)
      /\ issued' = issued \cup {txn}
      /\ completed' = completed \cup {a.txnId : a \in Completions}
    BY <1>1, RequestCompletes
       DEF Request, RequestAnswered, ExecuteActions, Completions
<1>4. PICK key : \A k \in DOMAIN pending' :
          \/ k \in DOMAIN pending /\ pending'[k] = pending[k]
          \/ /\ k = key
             /\ pending'[k].origReq = txn
             /\ pending'[k].state \in Open => Completions = {}
    BY <1>1, RequestCompletes DEF Request, RequestAnswered
<1>5. \A k \in DOMAIN pending : pending[k].origReq.txnID # txn.txnID
    BY <1>1 DEF FreshId, IInv, IdRanges
<1>6. txn.txnID \notin completed
    BY <1>1 DEF FreshId, CInv, CompletedOnlyOnce
<1>7. OneEntryPerRequest'
    BY <1>4, <1>5 DEF OneEntryPerRequest, CInv
<1>8. \A a \in Completions : a.txnId = txn.txnID
    BY <1>3 DEF Answers
<1>9. CompletedOnlyOnce'
    BY <1>3, <1>4, <1>5, <1>6, <1>8 DEF CompletedOnlyOnce, CInv
<1>10. CompletesOpenRequests
    BY <1>3, <1>6, <1>8 DEF CompletesOpenRequests
<1>11. SnoopIdsOf(txn.txnID) = {}
    BY <1>1, <1>2, FreshNotPending DEF SnoopIdsOf
<1>12. CompletesWithLastAnswer
    BY <1>8, <1>11 DEF CompletesWithLastAnswer
<1> QED BY <1>7, <1>9, <1>10, <1>12 DEF CInv

\* A delivery completes a request that was made and is open.
LEMMA DeliveryCompletesOpen ==
    ASSUME IInv, CInv, NEW id,
           \/ \E m \in datIn : m.txnId = id /\ DeliverData(m)
           \/ id \in rspIn /\ DeliverResponse(id)
    PROVE  CompletesOpenRequests
<1> SUFFICES ASSUME NEW a \in Completions
             PROVE  a.txnId \notin completed /\ \E txn \in issued' : Answers(a, txn)
    BY DEF CompletesOpenRequests
<1>1. /\ issued' = issued
      /\ Ended(id) \in DOMAIN pending
      /\ pending[Ended(id)].state \in Open
      /\ Answers(a, pending[Ended(id)].origReq)
    BY DeliveryFacts DEF EndsWith
<1>2. pending[Ended(id)].origReq \in issued
    BY <1>1 DEF IInv, IdRanges
<1> QED BY <1>1, <1>2 DEF CInv, CompletedOnlyOnce, Answers

\* An answer that is no snoop's completes a request that has no snoops.
LEMMA FetchHasNoSnoops ==
    ASSUME IInv, CInv, NEW k \in DOMAIN pending, pending[k].state = "WaitMemData"
    PROVE  SnoopIdsOf(pending[k].origReq.txnID) = {}
<1> SUFFICES ASSUME NEW s \in DOMAIN snoopToOrig,
                    snoopToOrig[s] = pending[k].origReq.txnID
             PROVE  FALSE
    BY DEF SnoopIdsOf
<1> DEFINE o == snoopToOrig[s]
<1>1. o \in DOMAIN pending /\ pending[o].state = "WaitSnoopResp"
    BY DEF IInv, SnoopTablesAgree
<1>2. pending[o].origReq.txnID = o
    BY <1>1 DEF IInv, IdRanges
<1> QED BY <1>1, <1>2 DEF CInv, OneEntryPerRequest

\* With at most one snoop unanswered the answer at hand is the last.
LEMMA LastUnanswered ==
    ASSUME IInv, NEW k, NEW x \in UnansweredOf(k), Cardinality(UnansweredOf(k)) <= 1
    PROVE  UnansweredOf(k) = {x}
<1>1. IsFiniteSet(UnansweredOf(k))
    BY SnoopIdsFinite
<1>2. Cardinality(UnansweredOf(k) \ {x}) = Cardinality(UnansweredOf(k)) - 1
        /\ IsFiniteSet(UnansweredOf(k) \ {x})
    BY <1>1, FS_RemoveElement
<1>3. Cardinality(UnansweredOf(k) \ {x}) \in Nat /\ Cardinality(UnansweredOf(k)) \in Nat
    BY <1>1, <1>2, FS_CardinalityType
<1>4. Cardinality(UnansweredOf(k) \ {x}) = 0
    BY <1>2, <1>3
<1>5. UnansweredOf(k) \ {x} = {}
    BY <1>2, <1>4, FS_EmptySet
<1> QED BY <1>5

\* Snooped data that completes a transaction was the last answer it waited for.
LEMMA DataIsLastAnswer ==
    ASSUME IInv, CInv, NEW m \in datIn, DeliverData(m)
    PROVE  CompletesWithLastAnswer
<1> DEFINE id == m.txnId
           k == snoopToOrig[id]
<1> SUFFICES ASSUME NEW a \in Completions, NEW s \in SnoopIdsOf(a.txnId), Unanswered(s)
             PROVE  s = id /\ m \notin datIn'
    BY DEF CompletesWithLastAnswer
<1>1. RecvData(id, m.addr, m.data) /\ m.data \in Data /\ m \notin datIn'
    BY DEF DeliverData, IInv, TypeOK, DataMsgs
<1>2. EndsWith(Ended(id), a)
    BY DeliveryFacts
<1>3. id \in DOMAIN snoopToOrig
    <2>1. SUFFICES ASSUME id \notin DOMAIN snoopToOrig PROVE FALSE
        OBVIOUS
    <2>2. pending[Ended(id)].state = "WaitMemData"
        BY <2>1, DeliveryFacts
    <2> QED BY <1>2, <2>2, FetchHasNoSnoops DEF EndsWith, Answers
<1>4. k \in DOMAIN pending /\ k \notin DOMAIN pending'
        /\ pending[k].state = "WaitSnoopResp"
    BY <1>2, <1>3 DEF Ended, EndsWith, IInv, SnoopTablesAgree
<1>5. a.txnId = k
    BY <1>2, <1>3, <1>4 DEF Ended, EndsWith, Answers, IInv, IdRanges
<1>6. (IF id \in snoopRespCounted THEN CountOf(id) ELSE CountOf(id) - 1) <= 0
    <2>1. ~LateMove(id) /\ ~OtherMove(id)
        BY <1>3, <1>4 DEF LateMove, OtherMove
    <2>2. \A count, counted : ~Keeps(k, count, counted)
        BY <1>4 DEF Keeps
    <2> QED BY <1>1, <2>1, <2>2, DataMoves DEF SnoopMove, IInv, TypeOK
<1>7. CountOf(id) = Cardinality(UnansweredOf(k))
    BY <1>1, <1>4 DEF CountOf, UnansweredOf, IInv, SnoopAccounting, RecvData
<1>8. s \in UnansweredOf(k)
    BY <1>5 DEF UnansweredOf
<1>9. CountOf(id) \in Int
    BY <1>4, PendingTypes DEF CountOf, IInv, TypeOK
<1>10. UnansweredOf(k) = {s}
    BY <1>6, <1>7, <1>8, <1>9, LastUnanswered
<1>11. id \notin snoopRespCounted
    BY <1>6, <1>7, <1>10, FS_Singleton
<1>12. id \in UnansweredOf(k)
    BY <1>3, <1>11 DEF UnansweredOf, SnoopIdsOf, Unanswered
<1> QED BY <1>1, <1>10, <1>12

\* So was a response without data.
LEMMA ResponseIsLastAnswer ==
    ASSUME IInv, CInv, NEW id \in rspIn, DeliverResponse(id)
    PROVE  CompletesWithLastAnswer
<1> DEFINE k == snoopToOrig[id]
<1> SUFFICES ASSUME NEW a \in Completions, NEW s \in SnoopIdsOf(a.txnId), Unanswered(s)
             PROVE  s = id /\ id \notin rspIn'
    BY DEF CompletesWithLastAnswer
<1>1. RecvResponse(id) /\ id \notin rspIn'
    BY DEF DeliverResponse
<1>2. id \in DOMAIN snoopToOrig /\ EndsWith(k, a)
    BY <1>1, ResponseCompletes
<1>3. k \in DOMAIN pending /\ k \notin DOMAIN pending'
        /\ pending[k].state = "WaitSnoopResp"
    BY <1>2 DEF EndsWith, IInv, SnoopTablesAgree
<1>4. a.txnId = k
    BY <1>2, <1>3 DEF EndsWith, Answers, IInv, IdRanges
<1>5. CountOf(id) - 1 <= 0
    <2>1. ~LateMove(id) /\ ~OtherMove(id) /\ ~Stay
        BY <1>2, <1>3 DEF LateMove, OtherMove, Stay, tables
    <2>2. \A count, counted : ~Keeps(k, count, counted)
        BY <1>3 DEF Keeps
    <2> QED BY <1>1, <2>1, <2>2, ResponseMoves DEF SnoopMove, IInv, TypeOK
<1>6. CountOf(id) = Cardinality(UnansweredOf(k))
    BY <1>1, <1>3 DEF CountOf, UnansweredOf, IInv, SnoopAccounting, RecvResponse
<1>7. s \in UnansweredOf(k) /\ id \in UnansweredOf(k)
    BY <1>2, <1>4 DEF UnansweredOf, SnoopIdsOf, Unanswered
<1>8. CountOf(id) \in Int
    BY <1>3, PendingTypes DEF CountOf, IInv, TypeOK
<1>9. UnansweredOf(k) = {s}
    BY <1>5, <1>6, <1>7, <1>8, LastUnanswered
<1> QED BY <1>1, <1>7, <1>9

\* Every step keeps the invariant and completes what it may.
LEMMA StepCompletes ==
    ASSUME IInv, CInv, [Next]_vars
    PROVE  CInv' /\ [CompletesOpenRequests]_vars /\ [CompletesWithLastAnswer]_vars
<1>1. CASE NewRequest
    BY <1>1, RequestKeepsCInv
<1>2. CASE \E m \in datIn : DeliverData(m)
    BY <1>2, DeliveryKeepsCInv, DeliveryCompletesOpen, DataIsLastAnswer
<1>3. CASE \E id \in rspIn : DeliverResponse(id)
    BY <1>3, DeliveryKeepsCInv, DeliveryCompletesOpen, ResponseIsLastAnswer
<1>4. CASE UNCHANGED vars
    BY <1>4 DEF vars, engineVars, tables, CInv, OneEntryPerRequest, CompletedOnlyOnce
<1>5. CASE Completions = {} /\ UNCHANGED <<pending, issued, completed>>
    BY <1>5 DEF CInv, OneEntryPerRequest, CompletedOnlyOnce, CompletesOpenRequests,
                CompletesWithLastAnswer
<1> QED BY <1>1, <1>2, <1>3, <1>4, <1>5, QuietStep

-----------------------------------------------------------------------------
(* The theorems *)

\* Initially there is nothing to complete.
LEMMA InitCInv == Init => CInv
<1> SUFFICES ASSUME Init PROVE CInv
    OBVIOUS
<1>1. completed = {} /\ pending = <<>>
    BY DEF Init, EngineInit
<1>2. DOMAIN pending = {}
    BY <1>1
<1> QED BY <1>1, <1>2 DEF CInv, OneEntryPerRequest, CompletedOnlyOnce

\* CInv is an invariant of the system.
LEMMA CompletionInvariant == Spec => []CInv
<1>1. IInv /\ CInv /\ [Next]_vars => CInv'
    BY StepCompletes
<1> QED BY <1>1, InitCInv, SystemInvariant, PTL DEF Spec

\* However messages interleave, an answer goes to the RN-F that asked, for the
\* address it asked for, and no request is answered a second time.
THEOREM RequestsCompleteOnce == Spec => CompletesOnce
<1>1. IInv /\ CInv /\ [Next]_vars => [CompletesOpenRequests]_vars
    BY StepCompletes
<1> QED BY <1>1, SystemInvariant, CompletionInvariant, PTL DEF Spec, CompletesOnce

\* A transaction that snooped is completed by the very message that answers the
\* last of its snoops, for any number of sharers and of beats of data.
THEOREM LastAnswerCompletes == Spec => NoEarlyCompletion
<1>1. IInv /\ CInv /\ [Next]_vars => [CompletesWithLastAnswer]_vars
    BY StepCompletes
<1> QED BY <1>1, SystemInvariant, CompletionInvariant, PTL DEF Spec, NoEarlyCompletion

-----------------------------------------------------------------------------
(* Sharers of a dirty line *)

SoundLine(line) == line.state = "SD" => \A m, n \in line.sharers : m = n

SingleSharer(c) ==
    \A i \in SetIndex, w \in Way : SoundLine(c[i].lines[w])

\* The states in which a transaction may leave its line when it ends.
Targets == {"SC", "UC", "UD"}

TargetsClean ==
    \A k \in DOMAIN pending :
        pending[k].state # "WaitL1Data" => pending[k].targetState \in Targets

\* The inductive invariant, with IInv.
DInv == SingleSharer(cache) /\ TargetsClean

-----------------------------------------------------------------------------
(* What each storage operation does to sharers and states *)

\* A sound line put in the way an address hits keeps the others sound, and is the
\* line that the address hits from then on if it still bears the tag.
LEMMA ReplacedHitLine ==
    ASSUME NEW c \in Caches, NEW addr \in Addr, Present(c, addr), SingleSharer(c),
           NEW d \in Caches, NEW line, SoundLine(line),
           LineReplaced(c, d, GetSetIndex(addr), WayOf(c, addr), line)
    PROVE  /\ SingleSharer(d)
           /\ (IsValid(line) /\ line.tag = GetTag(addr))
                => Present(d, addr) /\ LineOf(d, addr) = line
<1> DEFINE i == GetSetIndex(addr)
           w == WayOf(c, addr)
           matches(e) == {v \in Way : IsValid(e[i].lines[v]) /\ e[i].lines[v].tag = GetTag(addr)}
<1>1. i \in SetIndex /\ w \in Way
    BY HitWay, SetOfType
<1>2. IsValid(c[i].lines[w]) /\ c[i].lines[w].tag = GetTag(addr)
    BY HitWay DEF LineOf, SetOf
<1>3. \A j \in SetIndex, v \in Way :
          d[j].lines[v] = IF j = i /\ v = w THEN line ELSE c[j].lines[v]
    BY DEF LineReplaced
<1>4. SingleSharer(d)
    <2> HIDE DEF i, w
    <2> QED BY <1>3 DEF SingleSharer
<1>5. ASSUME IsValid(line), line.tag = GetTag(addr)
      PROVE  Present(d, addr) /\ LineOf(d, addr) = line
    <2>1. matches(d) = matches(c)
        <3> HIDE DEF i, w
        <3> QED BY <1>1, <1>2, <1>3, <1>5
    <2>2. WayOf(d, addr) = FirstWay(matches(d)) /\ w = FirstWay(matches(c))
        BY DEF WayOf, FindWay, SetOf
    <2>3. WayOf(d, addr) = w
        BY <2>1, <2>2
    <2>4. LineOf(d, addr) = d[i].lines[w]
        BY <2>3 DEF LineOf, SetOf
    <2>5. d[i].lines[w] = line
        <3> HIDE DEF i, w
        <3> QED BY <1>1, <1>3
    <2> QED BY <2>3, <2>4, <2>5 DEF Present
<1> QED BY <1>4, <1>5

\* A lookup moves ranks only.
LEMMA LookupKeepsLines ==
    ASSUME NEW c \in Caches, NEW addr \in Addr
    PROVE  /\ SingleSharer(c) => SingleSharer(Lookup(c, addr))
           /\ GetState(Lookup(c, addr), addr) = GetState(c, addr)
           /\ GetSharers(Lookup(c, addr), addr) = GetSharers(c, addr)
<1> DEFINE i == GetSetIndex(addr)
           w == WayOf(c, addr)
           d == Lookup(c, addr)
<1>1. CASE ~Present(c, addr)
    BY <1>1 DEF Lookup
<1>2. CASE Present(c, addr)
    <2>1. i \in SetIndex /\ w \in Way /\ c[i] \in CacheSets
        BY <1>2, HitWay, SetOfType DEF Caches
    <2>2. Touch(c[i], w).lines = c[i].lines
        <3> HIDE DEF i, w
        <3> QED BY <2>1 DEF Touch, CacheSets
    <2>3. d = [c EXCEPT ![i] = Touch(c[i], w)]
        BY <1>2 DEF Lookup
    <2>4. \A j \in SetIndex : d[j].lines = c[j].lines
        <3> HIDE DEF i, w, d
        <3> QED BY <2>1, <2>2, <2>3 DEF Caches
    <2>5. d[i].lines = c[i].lines
        <3> HIDE DEF i, d
        <3> QED BY <2>1, <2>4
    <2>6. WayOf(d, addr) = w
        BY <2>5 DEF WayOf, FindWay, SetOf
    <2>7. LineOf(d, addr) = LineOf(c, addr) /\ (Present(d, addr) <=> Present(c, addr))
        BY <2>5, <2>6 DEF LineOf, SetOf, Present
    <2>8. SingleSharer(c) => SingleSharer(d)
        <3> HIDE DEF d
        <3> QED BY <2>4 DEF SingleSharer
    <2> QED BY <2>7, <2>8 DEF GetState, GetSharers
<1> QED BY <1>1, <1>2

\* The updates in place, each with the condition under which it keeps the property.
LEMMA UpdatesKeepSingle ==
    ASSUME NEW c \in Caches, SingleSharer(c), NEW addr \in Addr
    PROVE  /\ \A n \in Nodes :
                 (GetState(c, addr) = "SD" => GetSharers(c, addr) \subseteq {n}) =>
                     /\ SingleSharer(AddSharer(c, addr, n))
                     /\ GetState(AddSharer(c, addr, n), addr) = GetState(c, addr)
                     /\ GetSharers(AddSharer(c, addr, n), addr)
                            \subseteq GetSharers(c, addr) \cup {n}
           /\ SingleSharer(ClearSharers(c, addr))
           /\ GetState(ClearSharers(c, addr), addr) = GetState(c, addr)
           /\ \A state \in LineState \ {"I"} :
                 (state = "SD" => \A m, n \in GetSharers(c, addr) : m = n) =>
                     /\ SingleSharer(SetState(c, addr, state))
                     /\ GetState(SetState(c, addr, state), addr) \in {state, "I"}
           /\ \A data \in Data : SingleSharer(WriteData(c, addr, data))
           /\ SingleSharer(Invalidate(c, addr))
<1>1. CASE ~Present(c, addr)
    BY <1>1 DEF AddSharer, ClearSharers, SetState, WriteData, Invalidate,
                GetState, GetSharers
<1>2. CASE Present(c, addr)
    <2> DEFINE line == c[GetSetIndex(addr)].lines[WayOf(c, addr)]
    <2>1. /\ line \in CacheLine
          /\ line.tag = GetTag(addr)
          /\ IsValid(line)
          /\ GetState(c, addr) = line.state
          /\ GetSharers(c, addr) = line.sharers
        BY <1>2, HitWay DEF LineOf, SetOf, GetState, GetSharers
    <2>2. SoundLine(line)
        <3>1. GetSetIndex(addr) \in SetIndex /\ WayOf(c, addr) \in Way
            BY <1>2, HitWay, SetOfType
        <3> QED BY <3>1 DEF SingleSharer
    <2> HIDE DEF line
    <2>3. ASSUME NEW n \in Nodes,
                 GetState(c, addr) = "SD" => GetSharers(c, addr) \subseteq {n}
          PROVE  /\ SingleSharer(AddSharer(c, addr, n))
                 /\ GetState(AddSharer(c, addr, n), addr) = GetState(c, addr)
                 /\ GetSharers(AddSharer(c, addr, n), addr)
                        \subseteq GetSharers(c, addr) \cup {n}
        <3> DEFINE new == [line EXCEPT !.sharers = @ \cup {n}]
                   d == AddSharer(c, addr, n)
        <3>1. /\ new.tag = GetTag(addr)
              /\ new.state = line.state
              /\ new.sharers = line.sharers \cup {n}
            BY <2>1 DEF CacheLine
        <3>2. d \in Caches /\ LineReplaced(c, d, GetSetIndex(addr), WayOf(c, addr), new)
            BY <1>2, UpdateOnHit DEF line
        <3> HIDE DEF new, d
        <3>3. SoundLine(new) /\ IsValid(new)
            BY <2>1, <2>3, <3>1 DEF SoundLine, IsValid
        <3>4. SingleSharer(d) /\ Present(d, addr) /\ LineOf(d, addr) = new
            BY <1>2, <3>1, <3>2, <3>3, ReplacedHitLine
        <3> QED BY <2>1, <3>1, <3>4 DEF GetState, GetSharers, d
    <2>4. /\ SingleSharer(ClearSharers(c, addr))
          /\ GetState(ClearSharers(c, addr), addr) = GetState(c, addr)
        <3> DEFINE new == [line EXCEPT !.sharers = {}]
                   d == ClearSharers(c, addr)
        <3>1. new.tag = GetTag(addr) /\ new.state = line.state /\ new.sharers = {}
            BY <2>1 DEF CacheLine
        <3>2. d \in Caches /\ LineReplaced(c, d, GetSetIndex(addr), WayOf(c, addr), new)
            BY <1>2, UpdateOnHit DEF line
        <3> HIDE DEF new, d
        <3>3. SoundLine(new) /\ IsValid(new)
            BY <2>1, <3>1 DEF SoundLine, IsValid
        <3>4. SingleSharer(d) /\ Present(d, addr) /\ LineOf(d, addr) = new
            BY <1>2, <3>1, <3>2, <3>3, ReplacedHitLine
        <3> QED BY <2>1, <3>1, <3>4 DEF GetState, d
    <2>5. ASSUME NEW state \in LineState \ {"I"},
                 state = "SD" => \A m, n \in GetSharers(c, addr) : m = n
          PROVE  /\ SingleSharer(SetState(c, addr, state))
                 /\ GetState(SetState(c, addr, state), addr) \in {state, "I"}
        <3> DEFINE new == [line EXCEPT !.state = state]
                   d == SetState(c, addr, state)
        <3>1. /\ new.tag = GetTag(addr)
              /\ new.state = state
              /\ new.sharers = line.sharers
            BY <2>1 DEF CacheLine
        <3>2. d \in Caches /\ LineReplaced(c, d, GetSetIndex(addr), WayOf(c, addr), new)
            BY <1>2, UpdateOnHit DEF line
        <3> HIDE DEF new, d
        <3>3. SoundLine(new) /\ IsValid(new)
            BY <2>1, <2>5, <3>1 DEF SoundLine, IsValid
        <3>4. SingleSharer(d) /\ Present(d, addr) /\ LineOf(d, addr) = new
            BY <1>2, <3>1, <3>2, <3>3, ReplacedHitLine
        <3> QED BY <3>1, <3>4 DEF GetState, d
    <2>6. ASSUME NEW data \in Data PROVE SingleSharer(WriteData(c, addr, data))
        <3> DEFINE new == [line EXCEPT !.data = data]
        <3>1. new.state = line.state /\ new.sharers = line.sharers
            BY <2>1 DEF CacheLine
        <3>2. SoundLine(new)
            BY <2>2, <3>1 DEF SoundLine
        <3>3. /\ WriteData(c, addr, data) \in Caches
              /\ LineReplaced(c, WriteData(c, addr, data), GetSetIndex(addr),
                              WayOf(c, addr), new)
            BY <1>2, UpdateOnHit DEF line
        <3> HIDE DEF new
        <3> QED BY <1>2, <3>2, <3>3, ReplacedHitLine
    <2>7. SingleSharer(Invalidate(c, addr))
        <3>1. SoundLine(ClearedLine)
            BY DEF SoundLine, ClearedLine
        <3>2. /\ Invalidate(c, addr) \in Caches
              /\ LineReplaced(c, Invalidate(c, addr), GetSetIndex(addr),
                              WayOf(c, addr), ClearedLine)
            BY <1>2, UpdateOnHit
        <3> QED BY <1>2, <3>1, <3>2, ReplacedHitLine
    <2> QED BY <2>3, <2>4, <2>5, <2>6, <2>7
<1> QED BY <1>1, <1>2

\* A fill in a state other than SD keeps the property, and the address then hits
\* the line just filled.
LEMMA FillKeepsSingle ==
    ASSUME NEW c \in Caches, SingleSharer(c), NEW addr \in Addr,
           NEW state \in Targets, NEW data \in Data
    PROVE  /\ SingleSharer(Fill(c, addr, state, data))
           /\ GetState(Fill(c, addr, state, data), addr) # "SD"
<1> DEFINE i == GetSetIndex(addr)
           w == FillWay(c, addr)
           line == [tag |-> GetTag(addr), state |-> state, data |-> data,
                    sharers |-> GetSharers(c, addr)]
           mid == WithLine(c[i], w, line)
           d == Fill(c, addr, state, data)
           matches(e) == {v \in Way : IsValid(e[i].lines[v]) /\ e[i].lines[v].tag = GetTag(addr)}
<1>1. i \in SetIndex /\ w \in Way /\ c[i] \in CacheSets
    BY FillWayType, SetOfType DEF Caches
<1>2. line.state = state /\ line.tag = GetTag(addr) /\ SoundLine(line) /\ IsValid(line)
    BY DEF SoundLine, Targets, IsValid
<1>3. \A v \in Way : Touch(mid, w).lines[v] = IF v = w THEN line ELSE c[i].lines[v]
    <2> HIDE DEF i, w, line
    <2> QED BY <1>1 DEF Touch, WithLine, CacheSets
<1>4. d = [c EXCEPT ![i] = Touch(mid, w)]
    BY DEF Fill
<1>5. \A j \in SetIndex, v \in Way :
          d[j].lines[v] = IF j = i /\ v = w THEN line ELSE c[j].lines[v]
    <2> HIDE DEF i, w, line, mid, d
    <2> QED BY <1>1, <1>3, <1>4 DEF Caches
<1>6. SingleSharer(d)
    <2> HIDE DEF i, w, line, d
    <2> QED BY <1>2, <1>5 DEF SingleSharer
<1>7. WayOf(d, addr) = FirstWay(matches(d)) /\ WayOf(c, addr) = FirstWay(matches(c))
    BY DEF WayOf, FindWay, SetOf
<1>8. matches(d) = matches(c) \cup {w}
    <2> HIDE DEF i, w, line, d
    <2> QED BY <1>1, <1>2, <1>5
<1>9. matches(c) \in SUBSET Way /\ matches(d) \in SUBSET Way
    OBVIOUS
<1>10. WayOf(d, addr) = w
    <2>1. CASE Present(c, addr)
        <3>1. w = WayOf(c, addr)
            BY <2>1 DEF FillWay
        <3>2. w \in matches(c)
            <4> HIDE DEF matches
            <4> QED BY <1>7, <1>9, <2>1, <3>1, FirstWayType DEF Present
        <3> HIDE DEF matches, w, d
        <3> QED BY <1>7, <1>8, <3>1, <3>2
    <2>2. CASE ~Present(c, addr)
        <3>1. matches(c) = {}
            BY <2>2, MissTag DEF SetOf
        <3> HIDE DEF matches, w, d
        <3> QED BY <1>7, <1>8, <1>9, <3>1, FirstWayType
    <2> QED BY <2>1, <2>2
<1>11. GetState(d, addr) \in {state, "I"}
    <2>1. LineOf(d, addr) = d[i].lines[w]
        BY <1>10 DEF LineOf, SetOf
    <2>2. d[i].lines[w] = line
        <3> HIDE DEF i, w, line, d
        <3> QED BY <1>1, <1>5
    <2> QED BY <1>2, <2>1, <2>2 DEF GetState
<1> QED BY <1>6, <1>11 DEF Targets

-----------------------------------------------------------------------------
(* The cache after a handler *)

\* A requester made the only sharer of its line.
LEMMA GrantKeepsSingle ==
    ASSUME NEW c \in Caches, SingleSharer(c), NEW txn \in ChiTransaction,
           NEW state \in Targets
    PROVE  SingleSharer(GrantAlone(c, txn, state))
<1> DEFINE a == txn.addr
           set == SetState(c, a, state)
           clear == ClearSharers(set, a)
<1>1. a \in Addr /\ txn.srcNodeID \in Nodes /\ state \in LineState \ {"I"} /\ state # "SD"
    BY DEF ChiTransaction, Targets, LineState
<1>2. set \in Caches /\ SingleSharer(set) /\ GetState(set, a) # "SD"
    <2> HIDE DEF a
    <2> QED BY <1>1, UpdateTypes, UpdatesKeepSingle
<1>3. clear \in Caches /\ SingleSharer(clear) /\ GetState(clear, a) # "SD"
    <2> HIDE DEF a, set
    <2> QED BY <1>1, <1>2, UpdateTypes, UpdatesKeepSingle
<1>4. SingleSharer(AddSharer(clear, a, txn.srcNodeID))
    <2> HIDE DEF a, clear
    <2> QED BY <1>1, <1>3, UpdatesKeepSingle
<1> QED BY <1>4 DEF GrantAlone

\* What a read leaves shared: in SD only when nobody else has it.
LEMMA SharedKeepsSingle ==
    ASSUME EngineTypeOK, SingleSharer(cache), NEW txn \in ChiTransaction,
           HitDirty(txn) => OtherSharers(txn) = {}
    PROVE  SingleSharer(SetState(AddSharer(Lookup(cache, txn.addr), txn.addr,
                                           txn.srcNodeID),
                                 txn.addr, IF HitDirty(txn) THEN "SD" ELSE "SC"))
<1> DEFINE a == txn.addr
           n == txn.srcNodeID
           found == Lookup(cache, a)
           added == AddSharer(found, a, n)
           shared == IF HitDirty(txn) THEN "SD" ELSE "SC"
<1>1. a \in Addr /\ n \in Nodes /\ cache \in Caches /\ shared \in LineState \ {"I"}
    BY DEF ChiTransaction, LineState, EngineTypeOK
<1>2. GetState(cache, a) = "SD" => HitDirty(txn)
    BY DEF GetState, HitDirty, NeedsWriteback, IsDirty
<1>3. HitDirty(txn) => GetSharers(cache, a) \subseteq {n}
    BY DEF OtherSharers
<1>4. /\ found \in Caches /\ SingleSharer(found)
      /\ GetState(found, a) = GetState(cache, a)
      /\ GetSharers(found, a) = GetSharers(cache, a)
    <2> HIDE DEF a
    <2> QED BY <1>1, LookupType, LookupKeepsLines
<1>5. /\ added \in Caches /\ SingleSharer(added)
      /\ GetSharers(added, a) \subseteq GetSharers(found, a) \cup {n}
    <2> HIDE DEF a, n, found
    <2> QED BY <1>1, <1>2, <1>3, <1>4, UpdateTypes, UpdatesKeepSingle
<1>6. shared = "SD" => \A x, y \in GetSharers(added, a) : x = y
    <2> HIDE DEF a, n, found, added
    <2> QED BY <1>3, <1>4, <1>5
<1> HIDE DEF a, n, found, added, shared
<1>7. SingleSharer(SetState(added, a, shared))
    BY <1>1, <1>5, <1>6, UpdatesKeepSingle
<1> QED BY <1>7 DEF a, n, found, added, shared

\* The entries that a request leaves in the table.
PutClean ==
    \A k \in DOMAIN pending' :
        \/ k \in DOMAIN pending /\ pending'[k] = pending[k]
        \/ pending'[k].state = "WaitL1Data"
        \/ pending'[k].targetState \in Targets

RequestClean == SingleSharer(cache') /\ PutClean

\* The pieces that the handlers are made of.
LEMMA PiecesClean ==
    ASSUME EngineTypeOK, SingleSharer(cache), NEW txn \in ChiTransaction
    PROVE  /\ \A target \in Targets : ReadMiss(txn, target) => RequestClean
           /\ \A target \in Targets : FetchFromMemory(txn, target) => RequestClean
           /\ \A target \in Targets : \A type, retToSrc :
                 SnoopOthers(txn, type, retToSrc, target) => RequestClean
           /\ \A c, answer : SingleSharer(c) /\ Serve(c, answer) => RequestClean
           /\ \A target \in Targets : \A state :
                 OpenMemTxn(txn, state, target) => PutClean
           /\ SingleSharer(Lookup(cache, txn.addr))
<1>1. \A target \in Targets : \A key, state, count, dataCount :
          pending' = Put(pending, key, Waiting(txn, state, target, count, dataCount))
              => PutClean
    BY DEF PutClean, Put, Waiting
<1>2. SingleSharer(Lookup(cache, txn.addr))
    BY LookupKeepsLines DEF EngineTypeOK, ChiTransaction
<1>3. \A target \in Targets : \A state : OpenMemTxn(txn, state, target) => PutClean
    BY <1>1 DEF OpenMemTxn
<1>4. \A target \in Targets : FetchFromMemory(txn, target) => RequestClean
    BY <1>3 DEF FetchFromMemory, RequestClean
<1>5. ASSUME NEW what, Fault(what) PROVE RequestClean
    BY <1>5 DEF Fault, tables, RequestClean, PutClean
<1>6. \A target \in Targets : ReadMiss(txn, target) => RequestClean
    BY <1>4, <1>5 DEF ReadMiss
<1>7. ASSUME NEW target \in Targets, NEW type, NEW retToSrc,
             SnoopOthers(txn, type, retToSrc, target)
      PROVE  RequestClean
    <2>1. cache' = Lookup(cache, txn.addr)
        BY <1>7 DEF SnoopOthers
    <2>2. \E count, dataCount :
              pending' = Put(pending, txn.txnID,
                             Waiting(txn, "WaitSnoopResp", target, count, dataCount))
        BY <1>7 DEF SnoopOthers
    <2> QED BY <1>1, <1>2, <2>1, <2>2 DEF RequestClean
<1>8. ASSUME NEW c, NEW answer, SingleSharer(c), Serve(c, answer)
      PROVE  RequestClean
    BY <1>8 DEF Serve, tables, RequestClean, PutClean
<1> QED BY <1>2, <1>3, <1>4, <1>6, <1>7, <1>8

\* recvRequest, whatever the opcode.
LEMMA RequestKeepsClean ==
    ASSUME EngineTypeOK, SingleSharer(cache), NEW txn \in ChiTransaction,
           RecvRequest(txn)
    PROVE  RequestClean
<1> DEFINE found == Lookup(cache, txn.addr)
<1>1. {"SC", "UC", "UD"} \subseteq Targets
    BY DEF Targets
<1>2. found \in Caches /\ SingleSharer(found) /\ txn.addr \in Addr
    BY PiecesClean, LookupType DEF EngineTypeOK, ChiTransaction
<1>3. \A state \in Targets : SingleSharer(GrantAlone(found, txn, state))
    <2> HIDE DEF found
    <2> QED BY <1>2, GrantKeepsSingle
<1>4. CASE HandleReadShared(txn)
    <2>1. CASE HitDirty(txn) => OtherSharers(txn) = {}
        BY <1>1, <1>4, <2>1, PiecesClean, SharedKeepsSingle DEF HandleReadShared
    <2>2. CASE ~(HitDirty(txn) => OtherSharers(txn) = {})
        BY <1>1, <1>4, <2>2, PiecesClean DEF HandleReadShared
    <2> QED BY <2>1, <2>2
<1>5. CASE HandleReadUnique(txn)
    BY <1>1, <1>3, <1>5, PiecesClean DEF HandleReadUnique
<1>6. CASE HandleReadOnce(txn)
    BY <1>1, <1>6, PiecesClean DEF HandleReadOnce
<1>7. CASE HandleCleanUnique(txn)
    <2>1. ASSUME OpenMemTxn(txn, "WaitMemWriteAck", "UC"),
                 cache' = SetState(found, txn.addr, "UC")
          PROVE  RequestClean
        <3>1. "UC" \in LineState \ {"I"}
            BY DEF LineState
        <3>2. SingleSharer(SetState(found, txn.addr, "UC"))
            <4> HIDE DEF found
            <4> QED BY <1>2, <3>1, UpdatesKeepSingle
        <3> QED BY <1>1, <2>1, <3>2, PiecesClean DEF RequestClean
    <2> QED BY <1>1, <1>3, <1>7, <2>1, PiecesClean DEF HandleCleanUnique
<1>8. ASSUME NEW answer, AwaitL1Data(txn, answer) PROVE RequestClean
    <2>1. PutClean
        BY <1>8 DEF AwaitL1Data, PutClean, Put, Waiting
    <2> QED BY <1>8, <2>1 DEF AwaitL1Data, RequestClean
<1>9. CASE HandleUnmapped(txn)
    BY <1>1, <1>9, PiecesClean DEF HandleUnmapped
<1> QED BY <1>4, <1>5, <1>6, <1>7, <1>8, <1>9
        DEF RecvRequest, HandleReadNotSharedDirty, HandleWrite, HandleWriteNoSnp

\* completePending clears the sharers before it adds the requester.
LEMMA CompletionKeepsSingle ==
    ASSUME EngineTypeOK, NEW k \in DOMAIN pending, pending[k].targetState \in Targets,
           NEW c \in Caches, SingleSharer(c), CompletePending(k, c)
    PROVE  SingleSharer(cache')
<1> DEFINE txn == pending[k].origReq
           a == txn.addr
           t == pending[k].targetState
           clear == ClearSharers(c, a)
           alone == SetState(clear, a, t)
<1>1. a \in Addr /\ txn.srcNodeID \in Nodes
    BY PendingTypes
<1>2. t \in LineState \ {"I"} /\ t # "SD"
    BY DEF Targets, LineState
<1>3. clear \in Caches /\ SingleSharer(clear)
    <2> HIDE DEF a
    <2> QED BY <1>1, UpdateTypes, UpdatesKeepSingle
<1>4. alone \in Caches /\ SingleSharer(alone) /\ GetState(alone, a) # "SD"
    <2> HIDE DEF a, t, clear
    <2> QED BY <1>1, <1>2, <1>3, UpdateTypes, UpdatesKeepSingle
<1>5. SingleSharer(AddSharer(alone, a, txn.srcNodeID))
    <2> HIDE DEF a, alone, txn
    <2> QED BY <1>1, <1>4, UpdatesKeepSingle
<1> QED BY <1>4, <1>5 DEF CompletePending

\* A line filled and one sharer added to it.
LEMMA FilledKeepsSingle ==
    ASSUME EngineTypeOK, SingleSharer(cache), NEW k \in DOMAIN pending,
           NEW state \in Targets, NEW data \in Data
    PROVE  LET txn == pending[k].origReq
               c == Fill(cache, txn.addr, state, data)
           IN /\ c \in Caches
              /\ SingleSharer(c)
              /\ SingleSharer(AddSharer(c, txn.addr, txn.srcNodeID))
<1> DEFINE txn == pending[k].origReq
           a == txn.addr
           c == Fill(cache, a, state, data)
<1>1. a \in Addr /\ txn.srcNodeID \in Nodes /\ cache \in Caches
    BY PendingTypes DEF EngineTypeOK
<1>2. state \in LineState
    BY DEF Targets, LineState
<1>3. c \in Caches /\ SingleSharer(c) /\ GetState(c, a) # "SD"
    <2> HIDE DEF a
    <2> QED BY <1>1, <1>2, FillType, FillKeepsSingle
<1>4. SingleSharer(AddSharer(c, a, txn.srcNodeID))
    <2> HIDE DEF a, c, txn
    <2> QED BY <1>1, <1>3, UpdatesKeepSingle
<1> QED BY <1>3, <1>4

\* recvData.
LEMMA DataKeepsSingle ==
    ASSUME IInv, DInv, NEW id, NEW addr, NEW data \in Data, RecvData(id, addr, data)
    PROVE  SingleSharer(cache')
<1>1. EngineTypeOK /\ SingleSharer(cache) /\ "UD" \in Targets
    BY DEF IInv, TypeOK, DInv, Targets
<1>2. CASE id \in DOMAIN snoopToOrig
    <2> DEFINE orig == snoopToOrig[id]
    <2>1. RecvSnoopData(id, data)
        BY <1>2 DEF RecvData
    <2>2. orig \in DOMAIN pending /\ pending[orig].targetState \in Targets
        BY <1>2 DEF IInv, SnoopTablesAgree, DInv, TargetsClean
    <2>3. \E pt :
            LET c == Fill(cache, pending[orig].origReq.addr,
                          pending[orig].targetState, data)
            IN CompletePending(orig, c) \/ KeepWaiting(orig, pt, c)
        <3>1. pending[orig] \in PendingTxn
            BY <1>1, <2>2 DEF EngineTypeOK
        <3> DEFINE pt == [pending[orig] EXCEPT
                            !.pendingSnoopDataCount = @ - 1,
                            !.pendingSnoopCount = IF FirstBeat(id) THEN @ - 1 ELSE @]
        <3>2. /\ pt.origReq = pending[orig].origReq
              /\ pt.targetState = pending[orig].targetState
            BY <3>1 DEF PendingTxn
        <3>3. LET c == Fill(cache, pt.origReq.addr, pt.targetState, data)
              IN CompletePending(orig, c) \/ KeepWaiting(orig, pt, c)
            BY <2>1, <2>2 DEF RecvSnoopData
        <3> HIDE DEF pt, orig
        <3> QED BY <3>2, <3>3
    <2> HIDE DEF orig
    <2> QED BY <1>1, <2>2, <2>3, FilledKeepsSingle, CompletionKeepsSingle DEF KeepWaiting
<1>3. ASSUME NEW k \in WriteDataEntries(id, addr), RecvWriteData(k, data)
      PROVE  SingleSharer(cache')
    <2>1. k \in DOMAIN pending
        BY DEF WriteDataEntries
    <2> QED BY <1>1, <1>3, <2>1, FilledKeepsSingle DEF RecvWriteData
<1>4. CASE AwaitsMemData(id) /\ RecvMemData(id, data)
    <2>1. id \in DOMAIN pending /\ pending[id].targetState \in Targets
        BY <1>4 DEF AwaitsMemData, DInv, TargetsClean
    <2> QED BY <1>1, <1>4, <2>1, FilledKeepsSingle DEF RecvMemData
<1> QED BY <1>1, <1>2, <1>3, <1>4 DEF RecvData, NothingToDo

\* recvResponse.
LEMMA ResponseKeepsSingle ==
    ASSUME IInv, DInv, NEW id, RecvResponse(id)
    PROVE  SingleSharer(cache')
<1>1. EngineTypeOK /\ SingleSharer(cache) /\ cache \in Caches
    BY DEF IInv, TypeOK, DInv, EngineTypeOK
<1>2. CASE id \in DOMAIN snoopToOrig /\ RecvSnoopResp(id)
    <2>1. /\ snoopToOrig[id] \in DOMAIN pending
          /\ pending[snoopToOrig[id]].targetState \in Targets
        BY <1>2 DEF IInv, SnoopTablesAgree, DInv, TargetsClean
    <2>2. CompletePending(snoopToOrig[id], cache) \/ cache' = cache
        BY <1>2, <2>1 DEF RecvSnoopResp, KeepWaiting, Fault
    <2> QED BY <1>1, <2>1, <2>2, CompletionKeepsSingle
<1>3. CASE id \notin DOMAIN snoopToOrig
    BY <1>1, <1>3 DEF RecvResponse, RecvWriteAck, NothingToDo
<1> QED BY <1>2, <1>3 DEF RecvResponse

\* No entry changes what it waits for or the state it aims at.
LEMMA DeliveryKeepsTargets ==
    ASSUME DInv,
           \/ \E m \in datIn : DeliverData(m)
           \/ \E id \in rspIn : DeliverResponse(id),
           IInv
    PROVE  TargetsClean'
<1>1. \A k \in DOMAIN pending : pending[k] \in PendingTxn
    BY DEF IInv, TypeOK, EngineTypeOK
<1>2. \A k \in DOMAIN pending' :
          /\ k \in DOMAIN pending
          /\ pending'[k].state = pending[k].state
          /\ pending'[k].targetState = pending[k].targetState
    <2>1. ASSUME NEW id, NEW count, NEW counted,
                 \/ Stay
                 \/ SnoopMove(id, count, counted)
                 \/ OtherMove(id)
                 \/ LateMove(id)
          PROVE  \A k \in DOMAIN pending' :
                    /\ k \in DOMAIN pending
                    /\ pending'[k].state = pending[k].state
                    /\ pending'[k].targetState = pending[k].targetState
        <3>1. CASE UNCHANGED pending
            BY <3>1
        <3>2. ASSUME NEW x, pending' = Erase(pending, {x})
              PROVE  \A k \in DOMAIN pending' : k \in DOMAIN pending /\ pending'[k] = pending[k]
            BY <3>2 DEF Erase
        <3>3. ASSUME Keeps(snoopToOrig[id], count, counted), NEW k \in DOMAIN pending'
              PROVE  /\ k \in DOMAIN pending
                     /\ pending'[k].state = pending[k].state
                     /\ pending'[k].targetState = pending[k].targetState
            <4>1. PICK dataCount \in Int :
                    pending' = [pending EXCEPT ![snoopToOrig[id]] =
                                  [pending[snoopToOrig[id]] EXCEPT
                                      !.pendingSnoopCount = count,
                                      !.pendingSnoopDataCount = dataCount]]
                BY <3>3 DEF Keeps
            <4>2. k \in DOMAIN pending
                BY <3>3, <4>1
            <4>3. pending[k] \in PendingTxn
                BY <1>1, <4>2
            <4> QED BY <4>1, <4>2, <4>3 DEF PendingTxn
        <3> QED BY <2>1, <3>1, <3>2, <3>3
                DEF Stay, tables, SnoopMove, OtherMove, LateMove, Completes, Drops
    <2>2. ASSUME NEW m \in datIn, DeliverData(m)
          PROVE  \E id, count, counted :
                    \/ Stay
                    \/ SnoopMove(id, count, counted)
                    \/ OtherMove(id)
                    \/ LateMove(id)
        <3>1. RecvData(m.txnId, m.addr, m.data) /\ m.data \in Data
            BY <2>2 DEF DeliverData, IInv, TypeOK, DataMsgs
        <3> QED BY <3>1, DataMoves DEF IInv, TypeOK
    <2>3. ASSUME NEW id \in rspIn, DeliverResponse(id)
          PROVE  \E count, counted :
                    \/ Stay
                    \/ SnoopMove(id, count, counted)
                    \/ OtherMove(id)
                    \/ LateMove(id)
        <3>1. RecvResponse(id)
            BY <2>3 DEF DeliverResponse
        <3> QED BY <3>1, ResponseMoves DEF IInv, TypeOK
    <2> QED BY <2>1, <2>2, <2>3
<1> QED BY <1>2 DEF DInv, TargetsClean

-----------------------------------------------------------------------------
(* The system *)

\* Every step keeps the invariant.
LEMMA StepKeepsDInv ==
    ASSUME IInv, DInv, [Next]_vars
    PROVE  DInv'
<1>1. EngineTypeOK /\ SingleSharer(cache) /\ cache \in Caches
    BY DEF IInv, TypeOK, EngineTypeOK, DInv
<1>2. CASE NewRequest
    <2>1. PICK txn \in Requests : RecvRequest(txn)
        BY <1>2 DEF NewRequest, Request
    <2>2. txn \in ChiTransaction
        BY OpcodesAssumption, AddrsAssumption DEF Requests, ChiTransaction
    <2>3. RequestClean
        BY <1>1, <2>1, <2>2, RequestKeepsClean
    <2> QED BY <2>3 DEF RequestClean, PutClean, DInv, TargetsClean
<1>3. ASSUME NEW addr \in Addrs, Evict(addr) PROVE DInv'
    <2>1. SingleSharer(cache')
        BY <1>1, <1>3, AddrsAssumption, UpdatesKeepSingle DEF Evict, InvalidateLine
    <2> QED BY <1>3, <2>1 DEF Evict, InvalidateLine, tables, DInv, TargetsClean
<1>4. ASSUME NEW addr \in Addrs, NEW data \in Data, FunctionalWrite(addr, data)
      PROVE  DInv'
    <2>1. SingleSharer(cache')
        BY <1>1, <1>4, AddrsAssumption, UpdatesKeepSingle DEF FunctionalWrite
    <2> QED BY <1>4, <2>1 DEF FunctionalWrite, tables, DInv, TargetsClean
<1>5. ASSUME NEW m, AnswerSnoop(m) \/ AnswerMemRequest(m) \/ SendWriteData(m)
      PROVE  DInv'
    <2>1. UNCHANGED <<cache, pending>>
        BY <1>5 DEF AnswerSnoop, AnswerMemRequest, SendWriteData, EngineIdle, tables
    <2> QED BY <2>1 DEF DInv, TargetsClean, SingleSharer
<1>6. ASSUME NEW m \in datIn, DeliverData(m) PROVE DInv'
    <2>1. RecvData(m.txnId, m.addr, m.data) /\ m.data \in Data
        BY <1>6 DEF DeliverData, IInv, TypeOK, DataMsgs
    <2> QED BY <1>6, <2>1, DataKeepsSingle, DeliveryKeepsTargets DEF DInv
<1>7. ASSUME NEW id \in rspIn, DeliverResponse(id) PROVE DInv'
    BY <1>7, ResponseKeepsSingle, DeliveryKeepsTargets DEF DInv, DeliverResponse
<1>8. CASE UNCHANGED vars
    BY <1>8 DEF vars, engineVars, tables, DInv, TargetsClean, SingleSharer
<1> QED BY <1>2, <1>3, <1>4, <1>5, <1>6, <1>7, <1>8 DEF Next, Deliver

\* The empty cache shares nothing, and nothing is pending.
LEMMA InitDInv == Init => DInv
<1> SUFFICES ASSUME Init PROVE DInv
    OBVIOUS
<1>1. pending = <<>> /\ cache = EmptyCache
    BY DEF Init, EngineInit
<1>2. DOMAIN pending = {}
    BY <1>1
<1>3. \A i \in SetIndex, w \in Way : cache[i].lines[w] = ClearedLine
    BY <1>1 DEF EmptyCache, EmptySet
<1> QED BY <1>2, <1>3 DEF DInv, TargetsClean, SingleSharer, SoundLine, ClearedLine

\* However requests, snoop answers, write data, evictions and functional writes
\* interleave, the directory never shows a line in SD with two sharers: the "UD -> SD"
\* and "SD -> SD, record the requester" of the documents never leave two of them.
THEOREM DirtySharedByOne == Spec => []SharedDirtySingleSharer
<1>1. IInv /\ DInv /\ [Next]_vars => DInv'
    BY StepKeepsDInv
<1>2. DInv => SharedDirtySingleSharer
    BY DEF DInv, SingleSharer, SoundLine, SharedDirtySingleSharer
<1> QED BY <1>1, <1>2, InitDInv, SystemInvariant, PTL DEF Spec

-----------------------------------------------------------------------------
(* Nothing is stranded *)

\* The entries that wait for write data of a line, and the requests whose write
\* data is asked for or on its way.
EntriesAt(addr) ==
    {k \in DOMAIN pending :
        pending[k].state = "WaitL1Data" /\ pending[k].origReq.addr = addr}

CausesAt(addr) ==
    {m.txnId : m \in {d \in dbidOut : d.addr = addr}} \cup
    {m.cause : m \in {d \in datIn : d.addr = addr /\ d.cause \in L1TxnIds}}

\* There is write data under way for every entry that waits for some: perhaps not
\* its own, since the engine's search takes any entry for the line.
WriteDataOwed ==
    \A addr \in Addr : Cardinality(EntriesAt(addr)) <= Cardinality(CausesAt(addr))

\* Write data is for a request that was made; its entry, if it is still there,
\* waits for write data of that line.
IdOfWrite(id, addr) ==
    /\ \E txn \in issued : txn.txnID = id
    /\ id \in DOMAIN pending =>
          pending[id].state = "WaitL1Data" /\ pending[id].origReq.addr = addr

WriteDataKnown ==
    /\ \A m \in dbidOut : IdOfWrite(m.txnId, m.addr)
    /\ \A m \in datIn : m.cause \in L1TxnIds =>
          m.txnId \in {m.cause} \cup AnonymousIds /\ IdOfWrite(m.cause, m.addr)

\* The answers that a snooping transaction still counts on can come: if it waits
\* for more data, every snoop that is still to be answered asks for data.
DataOwed(id) ==
    /\ pending[id].pendingSnoopDataCount <= pending[id].pendingSnoopCount
    /\ \A s \in SnoopIdsOf(id) :
          s \notin rspIn /\ \A m \in snpOut : m.txnId = s => m.retToSrc

SnoopAnswersOwed ==
    \A id \in DOMAIN pending : pending[id].state = "WaitSnoopResp" =>
        /\ ~AllAnswered(pending[id])
        /\ pending[id].pendingSnoopDataCount <= 0 \/ DataOwed(id)

\* Memory owes an answer to every entry that waits for it.
MemAnswersOwed ==
    \A k \in DOMAIN pending :
        /\ pending[k].state = "WaitMemData" =>
              \/ \E m \in reqOut : m.txnId = k /\ m.type = "SendReadNoSnp"
              \/ \E m \in datIn : m.txnId = k
        /\ pending[k].state = "WaitMemWriteAck" =>
              \/ \E m \in reqOut : m.txnId = k /\ m.type = "SendWriteNoSnp"
              \/ k \in rspIn

MemStates == {"WaitMemData", "WaitMemWriteAck"}

\* The table of memory ids has no entry of a transaction that is over.
MemTableAgrees ==
    \A m \in DOMAIN memToOrig :
        /\ m \in DOMAIN pending
        /\ pending[m].state \in MemStates
        /\ memToOrig[m] = pending[m].origReq.txnID

\* The inductive invariant, with IInv.
QInv ==
    /\ WriteDataOwed
    /\ WriteDataKnown
    /\ SnoopAnswersOwed
    /\ MemAnswersOwed
    /\ MemTableAgrees

\* An RN-F that is asked for data gives it, and an id that write data may bear in
\* place of the request's is no request's.
Obliging == SilentAnswers = "never" /\ AnonymousIds \cap L1TxnIds = {}

-----------------------------------------------------------------------------
(* Facts about one state *)

\* Requests have finitely many ids.
LEMMA L1TxnIdsFinite == IsFiniteSet(L1TxnIds)
<1>1. L1TxnIds \subseteq 0 .. SnoopIdBase
    BY IdsAssumption, DisjointIdsAssumption
<1>2. IsFiniteSet(0 .. SnoopIdBase)
    BY IdsAssumption, FS_Interval
<1> QED BY <1>1, <1>2, FS_Subset

\* The entries and the causes counted are ids of requests.
LEMMA CountedIds ==
    ASSUME IInv, NEW addr
    PROVE  /\ EntriesAt(addr) \subseteq L1TxnIds
           /\ CausesAt(addr) \subseteq L1TxnIds
           /\ IsFiniteSet(EntriesAt(addr))
           /\ IsFiniteSet(CausesAt(addr))
<1>1. EntriesAt(addr) \subseteq L1TxnIds
    BY DEF EntriesAt, IInv, IdRanges, TypeOK, EngineTypeOK, PendingTxn, ChiTransaction
<1>2. CausesAt(addr) \subseteq L1TxnIds
    BY DEF CausesAt, IInv, IdRanges
<1> QED BY <1>1, <1>2, L1TxnIdsFinite, FS_Subset

\* No entry and no snoop is kept under an id that only write data bears.
LEMMA AnonymousNotPending ==
    ASSUME IInv, Obliging, NEW id \in AnonymousIds
    PROVE  id \notin DOMAIN pending /\ id \notin DOMAIN snoopToOrig
<1>1. id \notin L1TxnIds /\ id < SnoopIdBase /\ id \in Nat
    BY DisjointIdsAssumption, AnonymousIdsAssumption DEF Obliging
<1>2. id \notin SnoopIds /\ id \notin MemIds
    BY <1>1, DisjointIdsAssumption, IdsAssumption
       DEF SnoopIds, MemIds, IInv, TypeOK, EngineTypeOK
<1>3. \A k \in DOMAIN pending : k \in MemIds \/ k \in L1TxnIds
    BY DEF IInv, IdRanges, TypeOK, EngineTypeOK, PendingTxn, ChiTransaction
<1> QED BY <1>1, <1>2, <1>3 DEF IInv, IdRanges

\* Entries that wait for memory and entries that do not have different keys.
LEMMA MemKeys ==
    ASSUME IInv, NEW k \in DOMAIN pending
    PROVE  /\ pending[k].state \in MemStates <=> k \in MemIds
           /\ pending[k].state \notin MemStates <=> k \in L1TxnIds
           /\ k \notin DOMAIN snoopToOrig
<1>1. pending[k].origReq.txnID \in L1TxnIds
    BY DEF IInv, TypeOK, EngineTypeOK, PendingTxn, ChiTransaction
<1>2. IF pending[k].state \in MemStates THEN k \in MemIds
      ELSE k = pending[k].origReq.txnID
    BY DEF IInv, IdRanges, MemStates
<1>3. \A id \in L1TxnIds : id \notin MemIds /\ id \notin SnoopIds
    BY IdsAssumption, DisjointIdsAssumption
       DEF SnoopIds, MemIds, IInv, TypeOK, EngineTypeOK
<1>4. \A id \in MemIds : id \notin SnoopIds
    BY IdsAssumption, DisjointIdsAssumption
       DEF SnoopIds, MemIds, IInv, IdRanges, TypeOK, EngineTypeOK
<1>5. DOMAIN snoopToOrig \subseteq SnoopIds
    BY DEF IInv, IdRanges
<1> QED BY <1>1, <1>2, <1>3, <1>4, <1>5

\* Fewer entries, and no cause lost but one that an entry is lost with.
LEMMA OwedStep ==
    ASSUME NEW E, NEW C, NEW E2, NEW C2,
           IsFiniteSet(E), IsFiniteSet(C), IsFiniteSet(C2),
           Cardinality(E) <= Cardinality(C), E2 \subseteq E,
           \/ C \subseteq C2
           \/ \E c : /\ C \ {c} \subseteq C2
                     /\ E2 = {} \/ \E k \in E : E2 \subseteq E \ {k}
    PROVE  Cardinality(E2) <= Cardinality(C2)
<1>1. /\ IsFiniteSet(E2) /\ Cardinality(E) \in Nat /\ Cardinality(C) \in Nat
      /\ Cardinality(E2) \in Nat /\ Cardinality(C2) \in Nat
      /\ Cardinality(E2) <= Cardinality(E)
    BY FS_Subset, FS_CardinalityType
<1>2. CASE C \subseteq C2
    <2>1. Cardinality(C) <= Cardinality(C2)
        BY <1>2, FS_Subset
    <2> QED BY <1>1, <2>1
<1>3. CASE E2 = {}
    BY <1>1, <1>3, FS_EmptySet
<1>4. ASSUME NEW c, NEW k \in E, C \ {c} \subseteq C2, E2 \subseteq E \ {k}
      PROVE  Cardinality(E2) <= Cardinality(C2)
    <2>1. IsFiniteSet(E \ {k}) /\ Cardinality(E \ {k}) = Cardinality(E) - 1
        BY FS_RemoveElement
    <2>2. Cardinality(E2) <= Cardinality(E) - 1
        BY <1>4, <2>1, FS_Subset
    <2>3. /\ IsFiniteSet(C \ {c})
          /\ Cardinality(C \ {c}) \in {Cardinality(C) - 1, Cardinality(C)}
        BY FS_RemoveElement
    <2>4. Cardinality(C \ {c}) <= Cardinality(C2)
        BY <1>4, FS_Subset
    <2>5. Cardinality(C \ {c}) \in Nat
        BY <2>3, FS_CardinalityType
    <2> QED BY <1>1, <2>2, <2>3, <2>4, <2>5
<1> QED BY <1>2, <1>3, <1>4

-----------------------------------------------------------------------------
(* A delivery *)

\* recvData and recvResponse send nothing but completions.
LEMMA DeliverySends ==
    ASSUME NEW id, RecvResponse(id) \/ \E addr, data : RecvData(id, addr, data)
    PROVE  \A j \in DOMAIN actions' : actions'[j].type \in {"SendComp", "SendCompData"}
<1> DEFINE OnlyComps == \A j \in DOMAIN actions' :
                         actions'[j].type \in {"SendComp", "SendCompData"}
<1>1. actions' = <<>> => OnlyComps
    OBVIOUS
<1>2. ASSUME NEW answer, actions' = <<answer>>,
             answer.type \in {"SendComp", "SendCompData"}
      PROVE  OnlyComps
    BY <1>2
<1>3. \A txn, state, data : /\ Comp(txn).type = "SendComp"
                            /\ CompData(txn, state, data).type = "SendCompData"
    BY DEF Comp, CompData
<1> HIDE DEF OnlyComps
<1>4. CASE RecvResponse(id)
    <2>1. CASE RecvSnoopResp(id)
        <3>1. \/ actions' = <<>>
              \/ \E txn, state, data :
                    actions' \in {<<Comp(txn)>>, <<CompData(txn, state, data)>>}
            BY <2>1 DEF RecvSnoopResp, CompletePending, NothingToDo, KeepWaiting, Fault
        <3> QED BY <1>1, <1>2, <1>3, <3>1
    <2>2. CASE actions' = <<>>
        BY <1>1, <2>2
    <2> QED BY <1>4, <2>1, <2>2 DEF RecvResponse, RecvWriteAck, NothingToDo
<1>5. ASSUME NEW addr, NEW data, RecvData(id, addr, data) PROVE OnlyComps
    <2>1. CASE RecvSnoopData(id, data)
        <3>1. \/ actions' = <<>>
              \/ \E txn, state, d :
                    actions' \in {<<Comp(txn)>>, <<CompData(txn, state, d)>>}
            BY <2>1 DEF RecvSnoopData, CompletePending, NothingToDo, KeepWaiting
        <3> QED BY <1>1, <1>2, <1>3, <3>1
    <2>2. CASE RecvMemData(id, data)
        <3>1. \E txn, state, d :
                  actions' \in {<<Comp(txn)>>, <<CompData(txn, state, d)>>}
            BY <2>2 DEF RecvMemData
        <3> QED BY <1>2, <1>3, <3>1
    <2> QED BY <1>1, <1>5, <2>1, <2>2 DEF RecvData, RecvWriteData, NothingToDo
<1> QED BY <1>4, <1>5 DEF OnlyComps

\* So the channels away from the engine stay as they were.
LEMMA DeliveryChannels ==
    ASSUME IInv, NEW id,
           \/ \E m \in datIn : m.txnId = id /\ DeliverData(m)
           \/ id \in rspIn /\ DeliverResponse(id)
    PROVE  UNCHANGED <<snpOut, reqOut, dbidOut, issued>> /\ Shrinks
<1>1. ExecuteActions /\ (RecvResponse(id) \/ \E addr, data : RecvData(id, addr, data))
    BY DEF DeliverData, DeliverResponse
<1>2. \A types : types \cap {"SendComp", "SendCompData"} = {} => Sent(types) = {}
    BY <1>1, DeliverySends DEF Sent
<1>3. /\ SnoopTypes \cap {"SendComp", "SendCompData"} = {}
      /\ {"SendReadNoSnp", "SendWriteNoSnp"} \cap {"SendComp", "SendCompData"} = {}
      /\ {"SendCompDBIDResp"} \cap {"SendComp", "SendCompData"} = {}
    BY DEF SnoopTypes
<1> QED BY <1>1, <1>2, <1>3, DeliveryFacts DEF ExecuteActions

\* Write data that is delivered takes an entry for its line with it, if there is
\* one: its own, or any when it has none.
LEMMA WriteDataTakesEntry ==
    ASSUME IInv, QInv, Obliging, NEW m \in datIn, DeliverData(m), m.cause \in L1TxnIds
    PROVE  \/ (EntriesAt(m.addr))' = {}
           \/ \E k \in EntriesAt(m.addr) : k \notin DOMAIN pending'
<1> DEFINE id == m.txnId
<1>1. /\ id \in {m.cause} \cup AnonymousIds
      /\ m.cause \in DOMAIN pending => m.cause \in EntriesAt(m.addr)
    BY DEF QInv, WriteDataKnown, IdOfWrite, EntriesAt
<1>2. id \notin DOMAIN snoopToOrig
    <2>1. m.cause \notin DOMAIN snoopToOrig
        BY SnoopIdsAreNotL1Ids DEF IInv, IdRanges
    <2> QED BY <1>1, <2>1, AnonymousNotPending
<1>3. id \in DOMAIN pending => id = m.cause /\ id \in EntriesAt(m.addr)
    BY <1>1, AnonymousNotPending
<1>4. WriteDataEntries(id, m.addr) =
          IF id \in DOMAIN pending THEN {id} ELSE EntriesAt(m.addr)
    BY <1>3 DEF WriteDataEntries, EntriesAt
<1>5. ~AwaitsMemData(id)
    BY <1>3 DEF AwaitsMemData, EntriesAt
<1>6. CASE \E k \in WriteDataEntries(id, m.addr) : RecvWriteData(k, m.data)
    BY <1>3, <1>4, <1>6 DEF RecvWriteData, Erase
<1>7. CASE WriteDataEntries(id, m.addr) = {} /\ NothingToDo
    BY <1>4, <1>7 DEF NothingToDo, tables, EntriesAt
<1> QED BY <1>2, <1>5, <1>6, <1>7 DEF DeliverData, RecvData

\* A delivery leaves write data for every entry that waits for some.
LEMMA DeliveryKeepsWriteDataOwed ==
    ASSUME IInv, QInv, Obliging, NEW id,
           \/ \E m \in datIn : m.txnId = id /\ DeliverData(m)
           \/ id \in rspIn /\ DeliverResponse(id)
    PROVE  WriteDataOwed' /\ WriteDataKnown'
<1>1. UNCHANGED <<dbidOut, issued>> /\ Shrinks /\ datIn' \subseteq datIn
    BY DeliveryChannels DEF DeliverData, DeliverResponse
<1>2. WriteDataKnown'
    <2>1. \A x, addr : IdOfWrite(x, addr) => IdOfWrite(x, addr)'
        BY <1>1 DEF IdOfWrite, Shrinks
    <2> QED BY <1>1, <2>1 DEF QInv, WriteDataKnown
<1>3. ASSUME NEW addr \in Addr
      PROVE  Cardinality((EntriesAt(addr))') <= Cardinality((CausesAt(addr))')
    <2>1. (EntriesAt(addr))' \subseteq EntriesAt(addr)
        BY <1>1 DEF Shrinks, EntriesAt
    <2>2. PICK E2 : E2 = (EntriesAt(addr))'
        OBVIOUS
    <2>3. PICK C2 : C2 = (CausesAt(addr))'
        OBVIOUS
    <2>4. IsFiniteSet(C2)
        <3>1. (CausesAt(addr))' \subseteq L1TxnIds
            BY <1>1 DEF CausesAt, IInv, IdRanges
        <3> QED BY <2>3, <3>1, L1TxnIdsFinite, FS_Subset
    <2> DEFINE Lost ==
            \E c : /\ CausesAt(addr) \ {c} \subseteq C2
                   /\ \/ E2 = {}
                      \/ \E k \in EntriesAt(addr) : E2 \subseteq EntriesAt(addr) \ {k}
    <2>5. CausesAt(addr) \subseteq C2 \/ Lost
        <3>1. CASE id \in rspIn /\ DeliverResponse(id)
            BY <1>1, <2>3, <3>1 DEF DeliverResponse, CausesAt
        <3>2. ASSUME NEW m \in datIn, m.txnId = id, DeliverData(m)
              PROVE  CausesAt(addr) \subseteq C2 \/ Lost
            <4>1. datIn' = datIn \ {m}
                BY <3>2 DEF DeliverData
            <4>2. CASE m.cause \in L1TxnIds /\ m.addr = addr
                <5>1. CausesAt(addr) \ {m.cause} \subseteq C2
                    BY <1>1, <2>3, <4>1 DEF CausesAt
                <5>2. E2 = {} \/ \E k \in EntriesAt(addr) : k \notin DOMAIN pending'
                    BY <2>2, <3>2, <4>2, WriteDataTakesEntry
                <5>3. E2 \subseteq DOMAIN pending' /\ E2 \subseteq EntriesAt(addr)
                    BY <2>1, <2>2 DEF EntriesAt
                <5> QED BY <5>1, <5>2, <5>3
            <4>3. CASE ~(m.cause \in L1TxnIds /\ m.addr = addr)
                BY <1>1, <2>3, <4>1, <4>3 DEF CausesAt
            <4> QED BY <4>2, <4>3
        <3> QED BY <3>1, <3>2
    <2>6. Cardinality(EntriesAt(addr)) <= Cardinality(CausesAt(addr))
        BY DEF QInv, WriteDataOwed
    <2>7. Cardinality(E2) <= Cardinality(C2)
        <3>1. PICK E : E = EntriesAt(addr)
            OBVIOUS
        <3>2. PICK C : C = CausesAt(addr)
            OBVIOUS
        <3>3. IsFiniteSet(E) /\ IsFiniteSet(C)
            BY <3>1, <3>2, CountedIds
        <3>4. E2 \subseteq E
            BY <2>1, <2>2, <3>1
        <3> QED BY <2>4, <2>5, <2>6, <3>1, <3>2, <3>3, <3>4, OwedStep
    <2> QED BY <2>2, <2>3, <2>7
<1>4. WriteDataOwed'
    BY <1>3 DEF WriteDataOwed
<1> QED BY <1>2, <1>4

\* What memory answers ends the entry that waits for it.
LEMMA MemAnswerTakesEntry ==
    ASSUME IInv, NEW id \in DOMAIN pending,
           \/ /\ pending[id].state = "WaitMemData"
              /\ \E m \in datIn : m.txnId = id /\ DeliverData(m)
           \/ pending[id].state = "WaitMemWriteAck" /\ DeliverResponse(id)
    PROVE  id \notin DOMAIN pending'
<1>1. id \notin DOMAIN snoopToOrig
    BY MemKeys
<1>2. ASSUME pending[id].state = "WaitMemData",
             NEW m \in datIn, m.txnId = id, DeliverData(m)
      PROVE  id \notin DOMAIN pending'
    <2>1. WriteDataEntries(id, m.addr) = {}
        BY <1>2 DEF WriteDataEntries
    <2>2. RecvMemData(id, m.data)
        BY <1>1, <1>2, <2>1 DEF DeliverData, RecvData, AwaitsMemData
    <2> QED BY <2>2 DEF RecvMemData, Erase
<1>3. ASSUME pending[id].state = "WaitMemWriteAck", DeliverResponse(id)
      PROVE  id \notin DOMAIN pending'
    <2>1. RecvWriteAck(id)
        BY <1>1, <1>3 DEF DeliverResponse, RecvResponse, AwaitsWriteAck
    <2> QED BY <2>1 DEF RecvWriteAck, Erase
<1> QED BY <1>2, <1>3

\* An entry that ends takes its memory id with it.
LEMMA EndedEntryLeavesTable ==
    ASSUME IInv, QInv, NEW id,
           \/ \E m \in datIn : m.txnId = id /\ DeliverData(m)
           \/ id \in rspIn /\ DeliverResponse(id),
           NEW k \in DOMAIN pending, k \notin DOMAIN pending',
           pending[k].state \in MemStates
    PROVE  k \notin DOMAIN memToOrig'
<1>1. \A x \in DOMAIN pending :
          pending[x].state \in MemStates => x \notin DOMAIN snoopToOrig
    BY MemKeys
<1>2. \A s \in DOMAIN snoopToOrig : pending[snoopToOrig[s]].state \notin MemStates
    BY DEF IInv, SnoopTablesAgree, MemStates
<1>3. k \in DOMAIN memToOrig => memToOrig[k] = pending[k].origReq.txnID
    BY DEF QInv, MemTableAgrees
<1>4. ASSUME NEW m \in datIn, m.txnId = id, DeliverData(m)
      PROVE  k \notin DOMAIN memToOrig'
    <2>1. RecvData(id, m.addr, m.data)
        BY <1>4 DEF DeliverData
    <2>2. CASE id \in DOMAIN snoopToOrig
        <3>1. pending' = pending \/ pending' = Erase(pending, {snoopToOrig[id]})
                \/ DOMAIN pending' = DOMAIN pending
            BY <2>1, <2>2 DEF RecvData, RecvSnoopData, NothingToDo, CompletePending,
                              KeepWaiting, tables
        <3> QED BY <1>2, <2>2, <3>1 DEF Erase
    <2>3. CASE \E e \in WriteDataEntries(id, m.addr) : RecvWriteData(e, m.data)
        <3>1. PICK e : pending[e].state = "WaitL1Data" /\ pending' = Erase(pending, {e})
            BY <2>3 DEF RecvWriteData, WriteDataEntries
        <3> QED BY <3>1 DEF Erase, MemStates
    <2>4. CASE RecvMemData(id, m.data)
        <3>1. k = id
            BY <2>4 DEF RecvMemData, Erase
        <3> QED BY <1>3, <2>4, <3>1 DEF RecvMemData, Erase
    <2>5. CASE NothingToDo
        BY <2>5 DEF NothingToDo, tables
    <2> QED BY <2>1, <2>2, <2>3, <2>4, <2>5 DEF RecvData
<1>5. ASSUME DeliverResponse(id)
      PROVE  k \notin DOMAIN memToOrig'
    <2>1. RecvResponse(id)
        BY <1>5 DEF DeliverResponse
    <2>2. CASE id \in DOMAIN snoopToOrig
        <3>1. pending' = pending \/ pending' = Erase(pending, {snoopToOrig[id]})
                \/ DOMAIN pending' = DOMAIN pending
            BY <2>1, <2>2 DEF RecvResponse, RecvSnoopResp, NothingToDo, CompletePending,
                              KeepWaiting, Fault, tables
        <3> QED BY <1>2, <2>2, <3>1 DEF Erase
    <2>3. CASE RecvWriteAck(id)
        BY <2>3 DEF RecvWriteAck, Erase
    <2>4. CASE NothingToDo
        BY <2>4 DEF NothingToDo, tables
    <2> QED BY <2>1, <2>2, <2>3, <2>4 DEF RecvResponse
<1> QED BY <1>4, <1>5

\* A delivery leaves memory an answer for every entry that waits for one.
LEMMA DeliveryKeepsMemOwed ==
    ASSUME IInv, QInv, NEW id,
           \/ \E m \in datIn : m.txnId = id /\ DeliverData(m)
           \/ id \in rspIn /\ DeliverResponse(id)
    PROVE  MemAnswersOwed' /\ MemTableAgrees'
<1>1. reqOut' = reqOut /\ Shrinks
    BY DeliveryChannels
<1>2. \A m \in datIn : m.txnId # id => m \in datIn'
    BY DEF DeliverData, DeliverResponse
<1>3. \A x \in rspIn : x # id => x \in rspIn'
    BY DEF DeliverData, DeliverResponse
<1>4. ASSUME NEW k \in DOMAIN pending', pending'[k].state = "WaitMemData"
      PROVE  \/ \E m \in reqOut' : m.txnId = k /\ m.type = "SendReadNoSnp"
             \/ \E m \in datIn' : m.txnId = k
    <2>1. k \in DOMAIN pending /\ pending[k].state = "WaitMemData"
        BY <1>1, <1>4 DEF Shrinks
    <2>2. CASE k = id /\ \E m \in datIn : m.txnId = id /\ DeliverData(m)
        BY <2>1, <2>2, MemAnswerTakesEntry
    <2>3. CASE DeliverResponse(id)
        BY <1>1, <2>1, <2>3 DEF QInv, MemAnswersOwed, DeliverResponse
    <2>4. CASE k # id
        BY <1>1, <1>2, <2>1, <2>4 DEF QInv, MemAnswersOwed
    <2> QED BY <2>2, <2>3, <2>4
<1>5. ASSUME NEW k \in DOMAIN pending', pending'[k].state = "WaitMemWriteAck"
      PROVE  \/ \E m \in reqOut' : m.txnId = k /\ m.type = "SendWriteNoSnp"
             \/ k \in rspIn'
    <2>1. k \in DOMAIN pending /\ pending[k].state = "WaitMemWriteAck"
        BY <1>1, <1>5 DEF Shrinks
    <2>2. CASE k = id /\ DeliverResponse(id)
        BY <2>1, <2>2, MemAnswerTakesEntry
    <2>3. CASE \E m \in datIn : DeliverData(m)
        BY <1>1, <2>1, <2>3 DEF QInv, MemAnswersOwed, DeliverData
    <2>4. CASE k # id
        BY <1>1, <1>3, <2>1, <2>4 DEF QInv, MemAnswersOwed
    <2> QED BY <2>2, <2>3, <2>4
<1>6. ASSUME NEW m \in DOMAIN memToOrig'
      PROVE  /\ m \in DOMAIN pending'
             /\ pending'[m].state \in MemStates
             /\ memToOrig'[m] = pending'[m].origReq.txnID
    <2>1. /\ m \in DOMAIN pending
          /\ pending[m].state \in MemStates
          /\ memToOrig'[m] = pending[m].origReq.txnID
        BY <1>1 DEF Shrinks, QInv, MemTableAgrees
    <2>2. m \in DOMAIN pending'
        BY <2>1, EndedEntryLeavesTable
    <2> QED BY <1>1, <2>1, <2>2 DEF Shrinks
<1> QED BY <1>4, <1>5, <1>6 DEF MemAnswersOwed, MemTableAgrees

\* How the entry of a snooping transaction that waits on has changed: not at all,
\* or data has come, which counts as a response at most once, or a response has
\* come to a transaction that waits for no more data.
WaitsOn(k, id) ==
    \/ pending'[k] = pending[k]
    \/ /\ ~AllAnswered(pending'[k])
       /\ \/ /\ pending'[k].pendingSnoopDataCount = pending[k].pendingSnoopDataCount - 1
             /\ pending'[k].pendingSnoopCount \in
                    {pending[k].pendingSnoopCount, pending[k].pendingSnoopCount - 1}
          \/ /\ pending'[k].pendingSnoopDataCount = pending[k].pendingSnoopDataCount
             /\ id \in rspIn /\ id \in SnoopIdsOf(k)

\* The entry kept is the only one that changes.
LEMMA KeptEntry ==
    ASSUME NEW k \in DOMAIN pending, NEW pt, NEW c, KeepWaiting(k, pt, c)
    PROVE  /\ \A j \in DOMAIN pending' : j # k => pending'[j] = pending[j]
           /\ pending'[k] = pt
<1>1. pending' = [pending EXCEPT ![k] = pt]
    BY DEF KeepWaiting
<1> QED BY ONLY <1>1, k \in DOMAIN pending

\* Snooped data leaves the transactions that wait on so.
LEMMA SnoopDataWaits ==
    ASSUME IInv, NEW id \in DOMAIN snoopToOrig, NEW data, RecvSnoopData(id, data),
           NEW k \in DOMAIN pending'
    PROVE  WaitsOn(k, id)
<1>1. EngineTypeOK
    BY DEF IInv, TypeOK
<1>2. PICK orig : orig = snoopToOrig[id]
    OBVIOUS
<1>3. CASE orig \notin DOMAIN pending
    BY <1>2, <1>3 DEF RecvSnoopData, NothingToDo, tables, WaitsOn
<1>4. CASE orig \in DOMAIN pending
    <2> DEFINE first == id \notin snoopRespCounted
    <2>1. pending[orig] \in PendingTxn
        BY <1>1, <1>4 DEF EngineTypeOK
    <2>2. PICK count : count = IF first THEN pending[orig].pendingSnoopCount - 1
                               ELSE pending[orig].pendingSnoopCount
        OBVIOUS
    <2>3. PICK dataCount : dataCount = pending[orig].pendingSnoopDataCount - 1
        OBVIOUS
    <2>4. PICK pt : pt = [pending[orig] EXCEPT !.pendingSnoopCount = count,
                                               !.pendingSnoopDataCount = dataCount]
        OBVIOUS
    <2>5. pt = [pending[orig] EXCEPT !.pendingSnoopDataCount = @ - 1,
                                     !.pendingSnoopCount = IF first THEN @ - 1 ELSE @]
        BY <2>1, <2>2, <2>3, <2>4 DEF PendingTxn
    <2>6. PICK c : c = Fill(cache, pt.origReq.addr, pt.targetState, data)
        OBVIOUS
    <2>7. IF AllAnswered(pt) THEN CompletePending(orig, c) ELSE KeepWaiting(orig, pt, c)
        BY <1>2, <1>4, <2>5, <2>6 DEF RecvSnoopData, FirstBeat
    <2>8. CASE AllAnswered(pt)
        BY <2>7, <2>8 DEF CompletePending, Erase, WaitsOn
    <2>9. CASE ~AllAnswered(pt)
        <3>1. KeepWaiting(orig, pt, c)
            BY <2>7, <2>9
        <3>2. /\ \A j \in DOMAIN pending' : j # orig => pending'[j] = pending[j]
              /\ pending'[orig] = pt
              /\ pt.pendingSnoopCount = count
              /\ pt.pendingSnoopDataCount = dataCount
            <4>1. pt.pendingSnoopCount = count /\ pt.pendingSnoopDataCount = dataCount
                BY <2>1, <2>4 DEF PendingTxn
            <4> QED BY <1>4, <3>1, <4>1, KeptEntry
        <3>3. CASE k # orig
            BY <3>2, <3>3 DEF WaitsOn
        <3>4. CASE k = orig
            <4>1. /\ pt.pendingSnoopDataCount = pending[k].pendingSnoopDataCount - 1
                  /\ pt.pendingSnoopCount \in {pending[k].pendingSnoopCount,
                                               pending[k].pendingSnoopCount - 1}
                BY <2>2, <2>3, <3>2, <3>4
            <4> QED BY <2>9, <3>2, <3>4, <4>1 DEF WaitsOn
        <3> QED BY <3>3, <3>4
    <2> QED BY <2>8, <2>9
<1> QED BY <1>3, <1>4

\* And so does a snoop response.
LEMMA SnoopRespWaits ==
    ASSUME IInv, NEW id \in rspIn, id \in DOMAIN snoopToOrig, RecvSnoopResp(id),
           NEW k \in DOMAIN pending'
    PROVE  WaitsOn(k, id)
<1>1. EngineTypeOK
    BY DEF IInv, TypeOK
<1>2. PICK orig : orig = snoopToOrig[id]
    OBVIOUS
<1>3. CASE pending' = pending
    BY <1>3 DEF WaitsOn
<1>4. CASE orig \in DOMAIN pending /\ pending' # pending
    <2>1. pending[orig] \in PendingTxn
        BY <1>1, <1>4 DEF EngineTypeOK
    <2>2. PICK count : count = pending[orig].pendingSnoopCount - 1
        OBVIOUS
    <2>3. PICK dataCount : dataCount = pending[orig].pendingSnoopDataCount
        OBVIOUS
    <2>4. PICK pt : pt = [pending[orig] EXCEPT !.pendingSnoopCount = count,
                                               !.pendingSnoopDataCount = dataCount]
        OBVIOUS
    <2>5. pt = [pending[orig] EXCEPT !.pendingSnoopCount = @ - 1]
        BY <2>1, <2>2, <2>3, <2>4 DEF PendingTxn
    <2>6. \/ ~AllAnswered(pt) /\ KeepWaiting(orig, pt, cache)
          \/ CompletePending(orig, cache)
        BY <1>2, <1>4, <2>5 DEF RecvSnoopResp, Fault, tables
    <2>7. CASE CompletePending(orig, cache)
        BY <2>7 DEF CompletePending, Erase, WaitsOn
    <2>8. CASE ~AllAnswered(pt) /\ KeepWaiting(orig, pt, cache)
        <3>1. /\ \A j \in DOMAIN pending' : j # orig => pending'[j] = pending[j]
              /\ pending'[orig] = pt
              /\ pt.pendingSnoopDataCount = dataCount
            <4>1. PICK c : c = cache
                OBVIOUS
            <4>2. KeepWaiting(orig, pt, c)
                BY <2>8, <4>1
            <4>3. pt.pendingSnoopDataCount = dataCount
                BY <2>1, <2>4 DEF PendingTxn
            <4> QED BY <1>4, <4>2, <4>3, KeptEntry
        <3>2. id \in SnoopIdsOf(orig)
            BY <1>2 DEF SnoopIdsOf
        <3> QED BY <2>3, <2>8, <3>1, <3>2 DEF WaitsOn
    <2> QED BY <2>6, <2>7, <2>8
<1>5. CASE orig \notin DOMAIN pending /\ pending' # pending
    BY <1>2, <1>5 DEF RecvSnoopResp, NothingToDo, tables
<1> QED BY <1>3, <1>4, <1>5

\* No other delivery changes an entry without ending it.
LEMMA DeliveryWaits ==
    ASSUME IInv, NEW id,
           \/ \E m \in datIn : m.txnId = id /\ DeliverData(m)
           \/ id \in rspIn /\ DeliverResponse(id),
           NEW k \in DOMAIN pending'
    PROVE  WaitsOn(k, id)
<1>1. CASE id \in DOMAIN snoopToOrig
    BY <1>1, SnoopDataWaits, SnoopRespWaits
       DEF DeliverData, RecvData, DeliverResponse, RecvResponse
<1>2. ASSUME id \notin DOMAIN snoopToOrig, NEW m \in datIn, m.txnId = id, DeliverData(m)
      PROVE  pending'[k] = pending[k]
    <2>1. \/ \E e : RecvWriteData(e, m.data)
          \/ RecvMemData(id, m.data)
          \/ NothingToDo
        BY <1>2 DEF DeliverData, RecvData
    <2> QED BY <2>1 DEF RecvWriteData, RecvMemData, NothingToDo, Erase, tables
<1>3. ASSUME id \notin DOMAIN snoopToOrig, DeliverResponse(id)
      PROVE  pending'[k] = pending[k]
    BY <1>3 DEF DeliverResponse, RecvResponse, RecvWriteAck, NothingToDo, Erase, tables
<1> QED BY <1>1, <1>2, <1>3 DEF WaitsOn

\* A delivery leaves the answers that the snooping transactions count on.
LEMMA DeliveryKeepsSnoopOwed ==
    ASSUME IInv, QInv, NEW id,
           \/ \E m \in datIn : m.txnId = id /\ DeliverData(m)
           \/ id \in rspIn /\ DeliverResponse(id)
    PROVE  SnoopAnswersOwed'
<1>1. snpOut' = snpOut /\ rspIn' \subseteq rspIn /\ Shrinks
    BY DeliveryChannels DEF DeliverData, DeliverResponse
<1>2. ASSUME NEW k \in DOMAIN pending', pending'[k].state = "WaitSnoopResp"
      PROVE  /\ ~AllAnswered(pending'[k])
             /\ pending'[k].pendingSnoopDataCount <= 0 \/ DataOwed(k)'
    <2>1. k \in DOMAIN pending /\ pending[k].state = "WaitSnoopResp"
        BY <1>1, <1>2 DEF Shrinks
    <2>2. /\ pending[k].pendingSnoopCount \in Int
          /\ pending[k].pendingSnoopDataCount \in Int
        BY <2>1, PendingTypes DEF IInv, TypeOK
    <2>3. /\ ~AllAnswered(pending[k])
          /\ pending[k].pendingSnoopDataCount <= 0 \/ DataOwed(k)
        BY <2>1 DEF QInv, SnoopAnswersOwed
    <2>4. WaitsOn(k, id)
        BY DeliveryWaits
    <2>5. (SnoopIdsOf(k))' \subseteq SnoopIdsOf(k)
        BY <1>1 DEF SnoopIdsOf, Shrinks
    <2>6. ~AllAnswered(pending'[k])
        BY <2>3, <2>4 DEF WaitsOn
    <2>7. \A s \in SnoopIdsOf(k) : DataOwed(k) =>
              s \notin rspIn' /\ \A m \in snpOut' : m.txnId = s => m.retToSrc
        BY <1>1 DEF DataOwed
    <2>8. PICK count, dataCount : /\ count = pending'[k].pendingSnoopCount
                                  /\ dataCount = pending'[k].pendingSnoopDataCount
        OBVIOUS
    <2>9. DataOwed(k)' <=> /\ dataCount <= count
                           /\ \A s \in (SnoopIdsOf(k))' :
                                /\ s \notin rspIn'
                                /\ \A m \in snpOut' : m.txnId = s => m.retToSrc
        BY <2>8 DEF DataOwed
    <2>10. \/ /\ dataCount = pending[k].pendingSnoopDataCount
              /\ count = pending[k].pendingSnoopCount
           \/ /\ dataCount = pending[k].pendingSnoopDataCount - 1
              /\ count \in {pending[k].pendingSnoopCount,
                            pending[k].pendingSnoopCount - 1}
           \/ /\ dataCount = pending[k].pendingSnoopDataCount
              /\ ~DataOwed(k)
        BY <2>4, <2>8 DEF WaitsOn, DataOwed
    <2>11. CASE ~DataOwed(k)
        BY <2>2, <2>3, <2>6, <2>8, <2>10, <2>11
    <2>12. CASE DataOwed(k)
        <3>1. dataCount <= count
            BY <2>2, <2>10, <2>12 DEF DataOwed
        <3>2. DataOwed(k)'
            BY <2>5, <2>7, <2>9, <2>12, <3>1
        <3> QED BY <2>6, <3>2
    <2> QED BY <2>11, <2>12
<1> QED BY <1>2 DEF SnoopAnswersOwed

-----------------------------------------------------------------------------
(* A request *)

\* The vector has neither snoops nor a request for write data.
AsksNoNode ==
    \A j \in DOMAIN actions' :
        actions'[j].type \notin SnoopTypes \cup {"SendCompDBIDResp"}

AsksMemory(txn, state, type) ==
    /\ \E target : OpenMemTxn(txn, state, target)
    /\ \E j \in DOMAIN actions' :
          actions'[j].txnId = nextInternalTxnId /\ actions'[j].type = type
    /\ AsksNoNode

AsksForWriteData(txn) ==
    /\ pending' = Put(pending, txn.txnID, Waiting(txn, "WaitL1Data", "I", 0, 0))
    /\ UNCHANGED <<snoopToOrig, memToOrig>>
    /\ \/ txn.opcode = "WriteNoSnp" /\ actions' = <<>>
       \/ txn.opcode # "WriteNoSnp" /\ actions' = <<CompDBIDResp(txn)>>

AsksSharers(txn, retToSrc) ==
    /\ OtherSharers(txn) # {}
    /\ \E type \in SnoopTypes, target \in LineState :
          SnoopOthers(txn, type, retToSrc, target)

\* What a request leaves pending, with the message that will end it: nothing, an
\* answer of memory, write data or snoops of one kind.
RequestOwes(txn) ==
    \/ UNCHANGED tables /\ AsksNoNode /\ txn.opcode # "WriteNoSnp"
    \/ /\ txn.opcode # "WriteNoSnp"
       /\ \/ AsksMemory(txn, "WaitMemData", "SendReadNoSnp")
          \/ AsksMemory(txn, "WaitMemWriteAck", "SendWriteNoSnp")
    \/ AsksForWriteData(txn)
    \/ txn.opcode # "WriteNoSnp" /\ \E retToSrc \in BOOLEAN : AsksSharers(txn, retToSrc)

\* A read that is sent to memory, or fails.
LEMMA FetchOwes ==
    ASSUME NEW txn, NEW target, txn.opcode # "WriteNoSnp",
           ReadMiss(txn, target) \/ FetchFromMemory(txn, target)
    PROVE  RequestOwes(txn)
<1>1. CASE FetchFromMemory(txn, target)
    <2>1. PICK a : a = ReadNoSnp(txn.addr, nextInternalTxnId)
        OBVIOUS
    <2>2. a.type = "SendReadNoSnp" /\ a.txnId = nextInternalTxnId
        BY <2>1 DEF ReadNoSnp
    <2>3. actions' = <<a>>
        BY <1>1, <2>1 DEF FetchFromMemory
    <2>4. actions'[1] = a /\ DOMAIN actions' = {1}
        BY <2>3
    <2>5. AsksNoNode
        BY <2>2, <2>4 DEF AsksNoNode, SnoopTypes
    <2>6. \E j \in DOMAIN actions' :
              actions'[j].txnId = nextInternalTxnId /\ actions'[j].type = "SendReadNoSnp"
        BY <2>2, <2>4
    <2> QED BY <1>1, <2>5, <2>6 DEF FetchFromMemory, AsksMemory, RequestOwes
<1>2. ASSUME NEW what, Fault(what) PROVE RequestOwes(txn)
    BY <1>2 DEF Fault, RequestOwes, AsksNoNode
<1> QED BY <1>1, <1>2 DEF ReadMiss

\* A hit that is served.
LEMMA ServeOwes ==
    ASSUME NEW txn, txn.opcode # "WriteNoSnp", NEW c, NEW answer, Serve(c, answer),
           answer = Comp(txn) \/ \E state, data : answer = CompData(txn, state, data)
    PROVE  RequestOwes(txn)
<1>1. answer.type \in {"SendComp", "SendCompData"}
    BY DEF Comp, CompData
<1>2. DOMAIN actions' = {1} /\ actions'[1] = answer /\ UNCHANGED tables
    BY DEF Serve
<1>3. AsksNoNode
    BY <1>1, <1>2 DEF AsksNoNode, SnoopTypes
<1> QED BY <1>2, <1>3 DEF RequestOwes

\* handleCleanUnique, the case that writes the line to memory.
LEMMA WriteBackOwes ==
    ASSUME NEW txn, txn.opcode # "WriteNoSnp", NEW data,
           OpenMemTxn(txn, "WaitMemWriteAck", "UC"),
           actions' = <<WriteNoSnp(txn.addr, nextInternalTxnId, data), Comp(txn)>>
    PROVE  RequestOwes(txn)
<1>1. PICK a, b : a = WriteNoSnp(txn.addr, nextInternalTxnId, data) /\ b = Comp(txn)
    OBVIOUS
<1>2. a.type = "SendWriteNoSnp" /\ a.txnId = nextInternalTxnId /\ b.type = "SendComp"
    BY <1>1 DEF WriteNoSnp, Comp
<1>3. actions' = <<a, b>>
    BY <1>1
<1>4. actions'[1] = a /\ actions'[2] = b /\ DOMAIN actions' = {1, 2}
    BY <1>3
<1>5. AsksNoNode
    BY <1>2, <1>4 DEF AsksNoNode, SnoopTypes
<1>6. \E j \in DOMAIN actions' :
          actions'[j].txnId = nextInternalTxnId /\ actions'[j].type = "SendWriteNoSnp"
    BY <1>2, <1>4
<1> QED BY <1>5, <1>6 DEF AsksMemory, RequestOwes

\* recvRequest, whatever the opcode.
LEMMA RequestsOwe ==
    ASSUME NEW txn, RecvRequest(txn)
    PROVE  RequestOwes(txn)
<1> DEFINE others == OtherSharers(txn) # {}
<1>1. CASE txn.opcode = "WriteNoSnp"
    BY <1>1 DEF RecvRequest, WriteOps, HandleWriteNoSnp, AwaitL1Data, RequestOwes,
                AsksForWriteData
<1>2. CASE txn.opcode \in WriteOps
    BY <1>2 DEF RecvRequest, WriteOps, HandleWrite, AwaitL1Data, RequestOwes,
                AsksForWriteData
<1>3. ASSUME txn.opcode # "WriteNoSnp"
      PROVE  \A type \in SnoopTypes, retToSrc \in BOOLEAN, target \in LineState :
                 OtherSharers(txn) # {} /\ SnoopOthers(txn, type, retToSrc, target)
                    => RequestOwes(txn)
    BY <1>3 DEF RequestOwes, AsksSharers
<1>4. ASSUME txn.opcode # "WriteNoSnp"
      PROVE  /\ \A target : ReadMiss(txn, target) => RequestOwes(txn)
             /\ \A c, state, data :
                    Serve(c, CompData(txn, state, data)) => RequestOwes(txn)
             /\ \A c : Serve(c, Comp(txn)) => RequestOwes(txn)
    BY <1>4, FetchOwes, ServeOwes
<1>5. /\ {"SendSnpCleanInvalid", "SendSnpUnique", "SendSnpOnce",
          "SendSnpNotSharedDirty"} \subseteq SnoopTypes
      /\ {"SC", "UD", "UC"} \subseteq LineState
      /\ HitDirty(txn) \in BOOLEAN
    BY DEF SnoopTypes, LineState, HitDirty, NeedsWriteback, Present, IsDirty
<1>6. CASE txn.opcode # "WriteNoSnp" /\ HandleReadShared(txn)
    BY <1>3, <1>4, <1>5, <1>6 DEF HandleReadShared
<1>7. CASE txn.opcode # "WriteNoSnp" /\ HandleReadUnique(txn)
    BY <1>3, <1>4, <1>5, <1>7 DEF HandleReadUnique
<1>8. CASE txn.opcode # "WriteNoSnp" /\ HandleReadOnce(txn)
    BY <1>3, <1>4, <1>5, <1>8 DEF HandleReadOnce
<1>9. CASE txn.opcode # "WriteNoSnp" /\ HandleCleanUnique(txn)
    BY <1>3, <1>4, <1>5, <1>9, WriteBackOwes DEF HandleCleanUnique
<1>10. CASE txn.opcode # "WriteNoSnp" /\ HandleUnmapped(txn)
    BY <1>10, FetchOwes DEF HandleUnmapped
<1> QED BY <1>1, <1>2, <1>6, <1>7, <1>8, <1>9, <1>10
        DEF RecvRequest, HandleReadNotSharedDirty

\* The table of pending transactions gains the entry pt under a new key.
Adds(key, pt) ==
    /\ key \notin DOMAIN pending
    /\ DOMAIN pending' = DOMAIN pending \cup {key}
    /\ \A k \in DOMAIN pending : pending'[k] = pending[k]
    /\ pending'[key] = pt

\* A key that is put is added, if it is new.
LEMMA PutAdds ==
    ASSUME NEW key, NEW pt, key \notin DOMAIN pending, pending' = Put(pending, key, pt)
    PROVE  Adds(key, pt)
BY DEF Put, Adds

\* A request's own id and the next memory id are new.
LEMMA NewKeys ==
    ASSUME IInv, NEW txn \in Requests, FreshId(txn)
    PROVE  /\ txn.txnID \notin DOMAIN pending
           /\ nextInternalTxnId \notin DOMAIN pending
           /\ nextInternalTxnId \notin L1TxnIds
           /\ \A k \in DOMAIN pending : (SnoopIdsOf(k) \subseteq SnoopIds)
<1>1. txn \in ChiTransaction
    BY OpcodesAssumption, AddrsAssumption DEF Requests, ChiTransaction
<1>2. /\ nextInternalTxnId \in Nat /\ MemIdBase \in Nat /\ SnoopIdBase \in Nat
      /\ MemIdBase <= nextInternalTxnId
    BY IdsAssumption DEF IInv, IdRanges, TypeOK, EngineTypeOK
<1>3. nextInternalTxnId \notin L1TxnIds /\ nextInternalTxnId \notin MemIds
    BY <1>2, IdsAssumption, DisjointIdsAssumption DEF MemIds
<1>4. \A k : SnoopIdsOf(k) \subseteq SnoopIds
    BY DEF SnoopIdsOf, IInv, IdRanges
<1> QED BY <1>1, <1>3, <1>4, FreshNotPending, MemKeys

\* What every request leaves in flight.
LEMMA RequestFrame ==
    ASSUME IInv, NEW txn \in Requests, FreshId(txn), Request(txn)
    PROVE  /\ issued' = issued \cup {txn} /\ rspIn' = rspIn
           /\ datIn \subseteq datIn' /\ reqOut \subseteq reqOut'
           /\ dbidOut \subseteq dbidOut' /\ snpOut \subseteq snpOut'
           /\ txn.opcode # "WriteNoSnp" => datIn' = datIn
           /\ AsksNoNode => snpOut' = snpOut /\ dbidOut' = dbidOut
           /\ txn.addr \in Addr /\ txn.txnID \in L1TxnIds
<1>1. /\ issued' = issued \cup {txn} /\ rspIn' = rspIn /\ datIn \subseteq datIn'
      /\ ExecuteActions /\ txn \in ChiTransaction
    BY RequestChannels
<1>2. txn.opcode # "WriteNoSnp" => datIn' = datIn
    BY DEF Request
<1>3. ASSUME AsksNoNode PROVE snpOut' = snpOut /\ dbidOut' = dbidOut
    BY <1>1, <1>3 DEF AsksNoNode, ExecuteActions, Sent
<1> QED BY <1>1, <1>2, <1>3 DEF ExecuteActions, ChiTransaction

\* A new entry leaves what is known of write data as it was.
LEMMA NewEntryKeepsIds ==
    ASSUME IInv, NEW txn \in Requests, FreshId(txn), Request(txn),
           \/ pending' = pending
           \/ \E pt, key : Adds(key, pt) /\ key \in {txn.txnID, nextInternalTxnId},
           NEW id, NEW addr, IdOfWrite(id, addr)
    PROVE  IdOfWrite(id, addr)'
<1>1. PICK earlier \in issued : earlier.txnID = id
    BY DEF IdOfWrite
<1>2. id # txn.txnID
    BY <1>1 DEF FreshId
<1>3. id \in L1TxnIds
    BY <1>1 DEF IInv, TypeOK, ChiTransaction
<1>4. id # nextInternalTxnId
    BY <1>3, NewKeys
<1>5. issued \subseteq issued'
    BY RequestFrame
<1>6. id \in DOMAIN pending' => id \in DOMAIN pending /\ pending'[id] = pending[id]
    <2>1. CASE pending' = pending
        BY <2>1
    <2>2. ASSUME NEW pt, NEW key \in {txn.txnID, nextInternalTxnId}, Adds(key, pt)
          PROVE  id \in DOMAIN pending'
                     => id \in DOMAIN pending /\ pending'[id] = pending[id]
        <3>1. id # key
            BY <1>2, <1>4, <2>2
        <3> QED BY <2>2, <3>1 DEF Adds
    <2> QED BY <2>1, <2>2
<1> QED BY <1>1, <1>5, <1>6 DEF IdOfWrite

\* The snoops of the transactions that were pending are not the new ones.
LEMMA OldSnoopsOwed ==
    ASSUME IInv, QInv, rspIn' = rspIn, NEW k \in DOMAIN pending,
           pending[k].state = "WaitSnoopResp", k \in DOMAIN pending',
           pending'[k] = pending[k], (SnoopIdsOf(k))' = SnoopIdsOf(k),
           \A m \in snpOut' \ snpOut : m.txnId \notin SnoopIds
    PROVE  /\ ~AllAnswered(pending'[k])
           /\ pending'[k].pendingSnoopDataCount <= 0 \/ DataOwed(k)'
<1>1. SnoopIdsOf(k) \subseteq SnoopIds
    BY DEF SnoopIdsOf, IInv, IdRanges
<1>2. DataOwed(k) => DataOwed(k)'
    BY <1>1 DEF DataOwed
<1> QED BY <1>2 DEF QInv, SnoopAnswersOwed

\* A request that asks memory, or nobody.
LEMMA QuietRequestKeepsQInv ==
    ASSUME IInv, QInv, NEW txn \in Requests, FreshId(txn), Request(txn), AsksNoNode,
           txn.opcode # "WriteNoSnp",
           \/ UNCHANGED tables
           \/ AsksMemory(txn, "WaitMemData", "SendReadNoSnp")
           \/ AsksMemory(txn, "WaitMemWriteAck", "SendWriteNoSnp")
    PROVE  QInv'
<1>1. /\ issued' = issued \cup {txn} /\ rspIn' = rspIn /\ datIn' = datIn
      /\ snpOut' = snpOut /\ dbidOut' = dbidOut /\ reqOut \subseteq reqOut'
      /\ txn.txnID \in L1TxnIds /\ ExecuteActions
    BY RequestFrame DEF Request
<1>2. PICK key : key = nextInternalTxnId
    OBVIOUS
<1>3. key \notin DOMAIN pending
    BY <1>2, NewKeys
<1>4. \/ pending' = pending /\ memToOrig' = memToOrig
      \/ \E pt : /\ Adds(key, pt)
                 /\ pt.state \in MemStates
                 /\ pt.origReq = txn
                 /\ memToOrig' = Put(memToOrig, key, txn.txnID)
                 /\ pt.state = "WaitMemData" =>
                       \E m \in reqOut' : m.txnId = key /\ m.type = "SendReadNoSnp"
                 /\ pt.state = "WaitMemWriteAck" =>
                       \E m \in reqOut' : m.txnId = key /\ m.type = "SendWriteNoSnp"
    <2>1. CASE UNCHANGED tables
        BY <2>1 DEF tables
    <2>2. ASSUME NEW state \in MemStates,
                 NEW type \in {"SendReadNoSnp", "SendWriteNoSnp"},
                 AsksMemory(txn, state, type)
          PROVE  /\ \E m \in reqOut' : m.txnId = key /\ m.type = type
                 /\ \E pt : /\ Adds(key, pt)
                            /\ pt.state = state
                            /\ pt.origReq = txn
                            /\ memToOrig' = Put(memToOrig, key, txn.txnID)
        <3>1. PICK target : OpenMemTxn(txn, state, target)
            BY <2>2 DEF AsksMemory
        <3>2. PICK pt : pt = Waiting(txn, state, target, 0, 0)
            OBVIOUS
        <3>3. pt.state = state /\ pt.origReq = txn
            BY <3>2 DEF Waiting
        <3>4. /\ pending' = Put(pending, key, pt)
              /\ memToOrig' = Put(memToOrig, key, txn.txnID)
            BY <1>2, <3>1, <3>2 DEF OpenMemTxn
        <3>5. Adds(key, pt)
            BY <1>3, <3>4, PutAdds
        <3>6. \E m \in reqOut' : m.txnId = key /\ m.type = type
            BY <1>1, <1>2, <2>2 DEF AsksMemory, ExecuteActions, Sent
        <3> QED BY <3>3, <3>4, <3>5, <3>6
    <2> QED BY <2>1, <2>2 DEF MemStates
<1>5. \A k \in DOMAIN pending : k \in DOMAIN pending' /\ pending'[k] = pending[k]
    BY <1>4 DEF Adds
<1>6. \A k \in DOMAIN pending' \ DOMAIN pending : pending'[k].state \in MemStates
    BY <1>4 DEF Adds
<1>7. snoopToOrig' = snoopToOrig
    BY DEF AsksMemory, OpenMemTxn, tables
<1>8. WriteDataOwed'
    <2>1. \A addr : (EntriesAt(addr))' = EntriesAt(addr)
        BY <1>5, <1>6 DEF EntriesAt, MemStates
    <2>2. \A addr : (CausesAt(addr))' = CausesAt(addr)
        BY <1>1 DEF CausesAt
    <2> QED BY <2>1, <2>2 DEF QInv, WriteDataOwed
<1>9. WriteDataKnown'
    <2>1. \A id, addr : IdOfWrite(id, addr) => IdOfWrite(id, addr)'
        BY <1>2, <1>4, NewEntryKeepsIds
    <2> QED BY <1>1, <2>1 DEF QInv, WriteDataKnown
<1>10. SnoopAnswersOwed'
    <2>1. ASSUME NEW k \in DOMAIN pending', pending'[k].state = "WaitSnoopResp"
          PROVE  /\ ~AllAnswered(pending'[k])
                 /\ pending'[k].pendingSnoopDataCount <= 0 \/ DataOwed(k)'
        <3>1. k \in DOMAIN pending /\ pending[k].state = "WaitSnoopResp"
            BY <1>5, <1>6, <2>1 DEF MemStates
        <3>2. (SnoopIdsOf(k))' = SnoopIdsOf(k)
            BY <1>7 DEF SnoopIdsOf
        <3> QED BY <1>1, <1>5, <3>1, <3>2, OldSnoopsOwed
    <2> QED BY <2>1 DEF SnoopAnswersOwed
<1>11. MemAnswersOwed'
    BY <1>1, <1>4 DEF QInv, MemAnswersOwed, Adds
<1>12. MemTableAgrees'
    <2>1. CASE memToOrig' = memToOrig
        BY <1>5, <2>1 DEF QInv, MemTableAgrees
    <2>2. ASSUME NEW pt, Adds(key, pt), pt.state \in MemStates, pt.origReq = txn,
                 memToOrig' = Put(memToOrig, key, txn.txnID)
          PROVE  MemTableAgrees'
        <3>1. /\ DOMAIN memToOrig' = DOMAIN memToOrig \cup {key}
              /\ \A m \in DOMAIN memToOrig' :
                    memToOrig'[m] = IF m = key THEN txn.txnID ELSE memToOrig[m]
            BY <2>2 DEF Put
        <3>2. pending'[key] = pt /\ key \in DOMAIN pending'
            BY <2>2 DEF Adds
        <3> QED BY <1>5, <2>2, <3>1, <3>2 DEF QInv, MemTableAgrees
    <2> QED BY <1>4, <2>1, <2>2
<1> QED BY <1>8, <1>9, <1>10, <1>11, <1>12 DEF QInv

\* The fields of the beats of one message.
LEMMA BeatFields ==
    ASSUME NEW id, NEW addr, NEW d, NEW cause
    PROVE  /\ \A m \in Beat(id, addr, d, cause) :
                 m.txnId = id /\ m.addr = addr /\ m.cause = cause
           /\ Beat(id, addr, d, cause) # {}
<1>1. 1 \in 1 .. Beats
    BY BeatsAssumption
<1>2. \A m \in Beat(id, addr, d, cause) :
          m.txnId = id /\ m.addr = addr /\ m.cause = cause
    BY DEF Beat
<1>3. Beat(id, addr, d, cause) # {}
    BY <1>1 DEF Beat
<1> QED BY <1>2, <1>3

\* A request that waits for write data: it adds an entry and a cause for it.
LEMMA WriteRequestKeepsQInv ==
    ASSUME IInv, QInv, NEW txn \in Requests, FreshId(txn), Request(txn),
           AsksForWriteData(txn)
    PROVE  QInv'
<1> DEFINE id == txn.txnID
<1>1. /\ issued' = issued \cup {txn} /\ rspIn' = rspIn /\ datIn \subseteq datIn'
      /\ reqOut \subseteq reqOut' /\ dbidOut \subseteq dbidOut'
      /\ txn.addr \in Addr /\ id \in L1TxnIds /\ ExecuteActions
    BY RequestFrame DEF Request
<1>2. PICK pt : pt = Waiting(txn, "WaitL1Data", "I", 0, 0)
    OBVIOUS
<1>3. pt.state = "WaitL1Data" /\ pt.origReq = txn
    BY <1>2 DEF Waiting
<1>4. Adds(id, pt) /\ UNCHANGED <<snoopToOrig, memToOrig>>
    <2>1. id \notin DOMAIN pending
        BY NewKeys
    <2> QED BY <1>2, <2>1, PutAdds DEF AsksForWriteData
<1>5. snpOut' = snpOut
    <2>1. Sent(SnoopTypes) = {}
        BY DEF AsksForWriteData, Sent, CompDBIDResp, SnoopTypes
    <2> QED BY <1>1, <2>1 DEF ExecuteActions
<1>6. /\ \A m \in dbidOut' \ dbidOut : m.txnId = id /\ m.addr = txn.addr
      /\ \A m \in datIn' \ datIn : m.txnId = id /\ m.addr = txn.addr /\ m.cause = id
      /\ \/ \E m \in dbidOut' : m.txnId = id /\ m.addr = txn.addr
         \/ \E m \in datIn' : m.cause = id /\ m.addr = txn.addr
    <2>1. CASE txn.opcode = "WriteNoSnp" /\ actions' = <<>>
        <3>1. dbidOut' = dbidOut
            BY <1>1, <2>1 DEF ExecuteActions, Sent
        <3>2. PICK d : datIn' = datIn \cup Beat(id, txn.addr, d, id)
            BY <2>1 DEF Request
        <3>3. /\ \A m \in Beat(id, txn.addr, d, id) :
                    m.txnId = id /\ m.addr = txn.addr /\ m.cause = id
              /\ Beat(id, txn.addr, d, id) # {}
            BY BeatFields
        <3> QED BY <3>1, <3>2, <3>3
    <2>2. CASE txn.opcode # "WriteNoSnp" /\ actions' = <<CompDBIDResp(txn)>>
        <3>1. PICK a : a = CompDBIDResp(txn)
            OBVIOUS
        <3>2. a.type = "SendCompDBIDResp" /\ a.txnId = id /\ a.addr = txn.addr
            BY <3>1 DEF CompDBIDResp
        <3>3. actions' = <<a>>
            BY <2>2, <3>1
        <3>4. DOMAIN actions' = {1} /\ actions'[1] = a
            BY <3>3
        <3>5. dbidOut' = dbidOut \cup {a}
            BY <1>1, <3>2, <3>4 DEF ExecuteActions, Sent
        <3>6. datIn' = datIn
            BY <2>2 DEF Request
        <3> QED BY <3>2, <3>5, <3>6
    <2> QED BY <2>1, <2>2 DEF AsksForWriteData
<1>7. \A k \in DOMAIN pending : k \in DOMAIN pending' /\ pending'[k] = pending[k]
    BY <1>4 DEF Adds
<1>8. \A k \in DOMAIN pending' \ DOMAIN pending : k = id /\ pending'[k] = pt
    BY <1>4 DEF Adds
<1>9. WriteDataKnown'
    <2>1. \A x, addr : IdOfWrite(x, addr) => IdOfWrite(x, addr)'
        BY <1>4, NewEntryKeepsIds
    <2>2. IdOfWrite(id, txn.addr)'
        BY <1>1, <1>3, <1>4 DEF IdOfWrite, Adds
    <2> QED BY <1>1, <1>6, <2>1, <2>2 DEF QInv, WriteDataKnown
<1>10. ASSUME NEW addr \in Addr
       PROVE  Cardinality((EntriesAt(addr))') <= Cardinality((CausesAt(addr))')
    <2>1. Cardinality(EntriesAt(addr)) <= Cardinality(CausesAt(addr))
        BY DEF QInv, WriteDataOwed
    <2>2. CASE addr # txn.addr
        <3>1. (EntriesAt(addr))' = EntriesAt(addr)
            BY <1>3, <1>7, <1>8, <2>2 DEF EntriesAt
        <3>2. (CausesAt(addr))' = CausesAt(addr)
            BY <1>1, <1>6, <2>2 DEF CausesAt
        <3> QED BY <2>1, <3>1, <3>2
    <2>3. CASE addr = txn.addr
        <3>1. (EntriesAt(addr))' = EntriesAt(addr) \cup {id}
            BY <1>3, <1>4, <1>7, <1>8, <2>3 DEF EntriesAt, Adds
        <3>2. (CausesAt(addr))' = CausesAt(addr) \cup {id}
            <4>1. CausesAt(addr) \subseteq (CausesAt(addr))'
                BY <1>1 DEF CausesAt
            <4>2. id \in (CausesAt(addr))'
                BY <1>1, <1>6, <2>3 DEF CausesAt
            <4>3. (CausesAt(addr))' \subseteq CausesAt(addr) \cup {id}
                BY <1>6 DEF CausesAt
            <4> QED BY <4>1, <4>2, <4>3
        <3>3. id \notin EntriesAt(addr)
            BY <1>4 DEF EntriesAt, Adds
        <3>4. id \notin CausesAt(addr)
            <4>1. \A x \in CausesAt(addr) : \E earlier \in issued : earlier.txnID = x
                BY DEF QInv, WriteDataKnown, IdOfWrite, CausesAt
            <4> QED BY <4>1 DEF FreshId
        <3>5. /\ IsFiniteSet(EntriesAt(addr)) /\ IsFiniteSet(CausesAt(addr))
              /\ Cardinality(EntriesAt(addr)) \in Nat
              /\ Cardinality(CausesAt(addr)) \in Nat
            BY CountedIds, FS_CardinalityType
        <3>6. /\ Cardinality(EntriesAt(addr) \cup {id}) = Cardinality(EntriesAt(addr)) + 1
              /\ Cardinality(CausesAt(addr) \cup {id}) = Cardinality(CausesAt(addr)) + 1
            BY <3>3, <3>4, <3>5, FS_AddElement
        <3> QED BY <2>1, <3>1, <3>2, <3>5, <3>6
    <2> QED BY <2>2, <2>3
<1>11. WriteDataOwed'
    BY <1>10 DEF WriteDataOwed
<1>12. SnoopAnswersOwed'
    <2>1. ASSUME NEW k \in DOMAIN pending', pending'[k].state = "WaitSnoopResp"
          PROVE  /\ ~AllAnswered(pending'[k])
                 /\ pending'[k].pendingSnoopDataCount <= 0 \/ DataOwed(k)'
        <3>1. k \in DOMAIN pending /\ pending[k].state = "WaitSnoopResp"
            BY <1>3, <1>7, <1>8, <2>1
        <3>2. (SnoopIdsOf(k))' = SnoopIdsOf(k)
            BY <1>4 DEF SnoopIdsOf
        <3> QED BY <1>1, <1>5, <1>7, <3>1, <3>2, OldSnoopsOwed
    <2> QED BY <2>1 DEF SnoopAnswersOwed
<1>13. MemAnswersOwed'
    BY <1>1, <1>3, <1>7, <1>8 DEF QInv, MemAnswersOwed
<1>14. MemTableAgrees'
    BY <1>4, <1>7 DEF QInv, MemTableAgrees
<1> QED BY <1>9, <1>11, <1>12, <1>13, <1>14 DEF QInv

\* A request that snoops: every snoop it sends asks for data, or none does.
LEMMA SnoopRequestKeepsQInv ==
    ASSUME IInv, QInv, NEW txn \in Requests, FreshId(txn), SnoopIdsLeft, Request(txn),
           txn.opcode # "WriteNoSnp", NEW retToSrc \in BOOLEAN, AsksSharers(txn, retToSrc)
    PROVE  QInv'
<1>1. PICK type \in SnoopTypes, target \in LineState :
          SnoopOthers(txn, type, retToSrc, target)
    BY DEF AsksSharers
<1>2. PICK id : id = txn.txnID
    OBVIOUS
<1>3. PICK count : count = Cardinality(OtherSharers(txn))
    OBVIOUS
<1>4. PICK ids : ids = nextSnoopTxnId .. nextSnoopTxnId + count - 1
    OBVIOUS
<1>5. /\ issued' = issued \cup {txn} /\ rspIn' = rspIn /\ datIn' = datIn
      /\ reqOut \subseteq reqOut' /\ dbidOut \subseteq dbidOut' /\ ExecuteActions
    BY RequestFrame DEF Request
<1>6. txn \in ChiTransaction /\ EngineTypeOK
    BY RequestChannels DEF IInv, TypeOK
<1>7. count \in Nat /\ count > 0
    <2>1. OtherSharers(txn) # {}
        BY DEF AsksSharers
    <2>2. IsFiniteSet(OtherSharers(txn))
        <3>1. txn.addr \in Addr /\ cache \in Caches
            BY <1>6 DEF ChiTransaction, EngineTypeOK
        <3>2. GetSharers(cache, txn.addr) \subseteq Nodes
            BY <3>1, HitWay DEF GetSharers, CacheLine
        <3> QED BY <3>2, NodesAssumption, FS_Subset DEF OtherSharers
    <2> QED BY <1>3, <2>1, <2>2, FS_CardinalityType, FS_EmptySet
<1>8. \A m \in snpOut' \ snpOut : m.txnId \in ids
    BY <1>1, <1>3, <1>4, SnoopsSent
<1>9. \A m \in snpOut' \ snpOut : m.retToSrc = retToSrc
    <2>1. \A j \in DOMAIN actions' : actions'[j].retToSrc = retToSrc
        BY <1>1 DEF SnoopOthers, Snoop
    <2> QED BY <1>5, <2>1 DEF ExecuteActions, Sent
<1>10. dbidOut' = dbidOut
    <2>1. \A j \in DOMAIN actions' : actions'[j].type \in SnoopTypes
        BY <1>1 DEF SnoopOthers, Snoop
    <2> QED BY <1>5, <2>1 DEF ExecuteActions, Sent, SnoopTypes
<1>11. \A s \in ids : s \notin SnoopIds /\ s \notin rspIn /\ s \notin DOMAIN snoopToOrig
    <2>1. nextSnoopTxnId + count <= MemIdBase
        BY <1>1, <1>3, SnoopsSent
    <2>2. nextSnoopTxnId \in Nat /\ MemIdBase \in Nat /\ SnoopIdBase \in Nat
            /\ SnoopIdBase <= nextSnoopTxnId
        BY IdsAssumption DEF IInv, IdRanges, TypeOK, EngineTypeOK
    <2>3. \A s \in ids : s \notin SnoopIds /\ s \notin MemIds
        BY <1>4, <1>7, <2>1, <2>2 DEF SnoopIds, MemIds
    <2> QED BY <2>3 DEF IInv, IdRanges
<1>12. PICK pt : pt = Waiting(txn, "WaitSnoopResp", target, count,
                              IF retToSrc THEN count ELSE 0)
    OBVIOUS
<1>13. /\ pt.state = "WaitSnoopResp" /\ pt.origReq = txn /\ pt.pendingSnoopCount = count
       /\ pt.pendingSnoopDataCount = IF retToSrc THEN count ELSE 0
    BY <1>12 DEF Waiting
<1>14. Adds(id, pt)
    <2>1. id \notin DOMAIN pending
        BY <1>2, NewKeys
    <2>2. pending' = Put(pending, id, pt)
        BY <1>1, <1>2, <1>3, <1>12 DEF SnoopOthers
    <2> QED BY <2>1, <2>2, PutAdds
<1>15. /\ DOMAIN snoopToOrig' = DOMAIN snoopToOrig \cup ids
       /\ \A s \in DOMAIN snoopToOrig' :
             snoopToOrig'[s] = IF s \in ids THEN id ELSE snoopToOrig[s]
       /\ memToOrig' = memToOrig
    BY <1>1, <1>2, <1>3, <1>4 DEF SnoopOthers
<1>16. \A k \in DOMAIN pending : k \in DOMAIN pending' /\ pending'[k] = pending[k]
    BY <1>14 DEF Adds
<1>17. \A k \in DOMAIN pending' \ DOMAIN pending : k = id /\ pending'[k] = pt
    BY <1>14 DEF Adds
<1>18. WriteDataOwed'
    <2>1. \A addr : (EntriesAt(addr))' = EntriesAt(addr)
        BY <1>13, <1>16, <1>17 DEF EntriesAt
    <2>2. \A addr : (CausesAt(addr))' = CausesAt(addr)
        BY <1>5, <1>10 DEF CausesAt
    <2> QED BY <2>1, <2>2 DEF QInv, WriteDataOwed
<1>19. WriteDataKnown'
    <2>1. \A x, addr : IdOfWrite(x, addr) => IdOfWrite(x, addr)'
        BY <1>2, <1>14, NewEntryKeepsIds
    <2> QED BY <1>5, <1>10, <2>1 DEF QInv, WriteDataKnown
<1>20. SnoopAnswersOwed'
    <2>1. ASSUME NEW k \in DOMAIN pending', pending'[k].state = "WaitSnoopResp"
          PROVE  /\ ~AllAnswered(pending'[k])
                 /\ pending'[k].pendingSnoopDataCount <= 0 \/ DataOwed(k)'
        <3>1. CASE k \in DOMAIN pending
            <4>1. k # id /\ pending[k].state = "WaitSnoopResp"
                BY <1>14, <1>16, <2>1, <3>1 DEF Adds
            <4>2. (SnoopIdsOf(k))' = SnoopIdsOf(k)
                BY <1>11, <1>15, <4>1 DEF SnoopIdsOf
            <4>3. \A m \in snpOut' \ snpOut : m.txnId \notin SnoopIds
                BY <1>8, <1>11
            <4> QED BY <1>5, <1>16, <3>1, <4>1, <4>2, <4>3, OldSnoopsOwed
        <3>2. CASE k \notin DOMAIN pending
            <4>1. k = id /\ pending'[k] = pt
                BY <1>17, <3>2
            <4>2. ~AllAnswered(pt)
                BY <1>7, <1>13 DEF AllAnswered
            <4>3. (SnoopIdsOf(k))' = ids
                <5>1. \A s \in DOMAIN snoopToOrig : snoopToOrig[s] # id
                    BY <1>2, <1>6, FreshNotPending
                <5> QED BY <1>15, <4>1, <5>1 DEF SnoopIdsOf
            <4>4. CASE retToSrc = FALSE
                <5>1. pt.pendingSnoopDataCount = 0
                    BY <1>13, <4>4
                <5> QED BY <4>1, <4>2, <5>1
            <4>5. CASE retToSrc = TRUE
                <5>1. \A m \in snpOut : m.txnId \in SnoopIds
                    BY DEF IInv, IdRanges
                <5>2. ASSUME NEW s \in (SnoopIdsOf(k))'
                      PROVE  /\ s \notin rspIn'
                             /\ \A m \in snpOut' : m.txnId = s => m.retToSrc
                    BY <1>5, <1>9, <1>11, <4>3, <4>5, <5>1, <5>2
                <5>3. pt.pendingSnoopDataCount = pt.pendingSnoopCount
                    BY <1>13, <4>5
                <5>4. pending'[k].pendingSnoopDataCount <= pending'[k].pendingSnoopCount
                    BY <1>7, <1>13, <4>1, <5>3
                <5>5. DataOwed(k)'
                    BY <5>2, <5>4 DEF DataOwed
                <5> QED BY <4>1, <4>2, <5>5
            <4> QED BY <4>4, <4>5
        <3> QED BY <3>1, <3>2
    <2> QED BY <2>1 DEF SnoopAnswersOwed
<1>21. MemAnswersOwed'
    BY <1>5, <1>13, <1>16, <1>17 DEF QInv, MemAnswersOwed
<1>22. MemTableAgrees'
    BY <1>15, <1>16 DEF QInv, MemTableAgrees
<1> QED BY <1>18, <1>19, <1>20, <1>21, <1>22 DEF QInv

-----------------------------------------------------------------------------
(* The peers *)

\* While the engine rests, an answer put in flight that is no write data, or write
\* data in place of the request for it, leaves all that is owed.
LEMMA PeerKeepsQInv ==
    ASSUME IInv, QInv, UNCHANGED <<pending, snoopToOrig, memToOrig, issued>>,
           datIn \subseteq datIn', rspIn \subseteq rspIn',
           dbidOut' \subseteq dbidOut,
           \A m \in dbidOut \ dbidOut' :
               \E d \in datIn' : d.addr = m.addr /\ d.cause = m.txnId,
           \A d \in datIn' \ datIn : d.cause \in L1TxnIds =>
               \E m \in dbidOut : /\ d.cause = m.txnId /\ d.addr = m.addr
                                 /\ d.txnId \in {m.txnId} \cup AnonymousIds,
           snpOut' \subseteq snpOut,
           \A s \in rspIn' \ rspIn :
               \/ s \in MemIds
               \/ \E m \in snpOut : m.txnId = s /\ ~m.retToSrc,
           \A m \in reqOut \ reqOut' :
               IF m.type = "SendReadNoSnp" THEN \E d \in datIn' : d.txnId = m.txnId
               ELSE m.txnId \in rspIn'
    PROVE  QInv'
<1>1. WriteDataKnown'
    <2>1. \A x, addr : IdOfWrite(x, addr)' <=> IdOfWrite(x, addr)
        BY DEF IdOfWrite
    <2>2. ASSUME NEW d \in datIn', d.cause \in L1TxnIds
          PROVE  d.txnId \in {d.cause} \cup AnonymousIds /\ IdOfWrite(d.cause, d.addr)
        BY <2>2 DEF QInv, WriteDataKnown
    <2> QED BY <2>1, <2>2 DEF QInv, WriteDataKnown
<1>2. ASSUME NEW addr \in Addr
      PROVE  Cardinality((EntriesAt(addr))') <= Cardinality((CausesAt(addr))')
    <2>1. (EntriesAt(addr))' = EntriesAt(addr)
        BY DEF EntriesAt
    <2>2. CausesAt(addr) \subseteq (CausesAt(addr))'
        BY DEF CausesAt, IInv, IdRanges
    <2>3. (CausesAt(addr))' \subseteq L1TxnIds
        BY DEF CausesAt, IInv, IdRanges
    <2>4. PICK E, C, C2 : /\ E = EntriesAt(addr)
                          /\ C = CausesAt(addr)
                          /\ C2 = (CausesAt(addr))'
        OBVIOUS
    <2>5. IsFiniteSet(C2) /\ C \subseteq C2
        BY <2>2, <2>3, <2>4, L1TxnIdsFinite, FS_Subset
    <2>6. /\ IsFiniteSet(E) /\ IsFiniteSet(C) /\ Cardinality(E) <= Cardinality(C)
        BY <2>4, CountedIds DEF QInv, WriteDataOwed
    <2> QED BY <2>1, <2>4, <2>5, <2>6, OwedStep
<1>3. WriteDataOwed'
    BY <1>2 DEF WriteDataOwed
<1>4. SnoopAnswersOwed'
    <2>1. ASSUME NEW k \in DOMAIN pending, DataOwed(k)
          PROVE  DataOwed(k)'
        <3>1. ASSUME NEW s \in SnoopIdsOf(k)
              PROVE  s \notin rspIn' /\ \A m \in snpOut' : m.txnId = s => m.retToSrc
            <4>1. s \notin rspIn /\ \A m \in snpOut : m.txnId = s => m.retToSrc
                BY <2>1 DEF DataOwed
            <4>2. s \notin MemIds
                BY SnoopIdsAreNotL1Ids DEF SnoopIdsOf, IInv, IdRanges
            <4> QED BY <4>1, <4>2
        <3>2. (SnoopIdsOf(k))' = SnoopIdsOf(k)
            BY DEF SnoopIdsOf
        <3> QED BY <2>1, <3>1, <3>2 DEF DataOwed
    <2> QED BY <2>1 DEF QInv, SnoopAnswersOwed
<1>5. MemAnswersOwed'
    BY DEF QInv, MemAnswersOwed
<1>6. MemTableAgrees'
    BY DEF QInv, MemTableAgrees
<1> QED BY <1>1, <1>3, <1>4, <1>5, <1>6 DEF QInv

\* An RN-F's answer to a snoop: data, if it was asked for data.
LEMMA AnswerSnoopKeepsQInv ==
    ASSUME IInv, QInv, Obliging, NEW m \in snpOut, AnswerSnoop(m)
    PROVE  QInv'
<1>1. /\ UNCHANGED <<pending, snoopToOrig, memToOrig, issued, reqOut, dbidOut>>
      /\ snpOut' \subseteq snpOut
    BY DEF AnswerSnoop, EngineIdle, tables
<1>2. m.txnId \notin L1TxnIds
    BY SnoopIdsAreNotL1Ids DEF IInv, IdRanges
<1>3. CASE ~m.retToSrc /\ rspIn' = rspIn \cup {m.txnId} /\ datIn' = datIn
    BY <1>1, <1>3, PeerKeepsQInv
<1>4. ASSUME NEW d, datIn' = datIn \cup Beat(m.txnId, m.addr, d, m.txnId), rspIn' = rspIn
      PROVE  QInv'
    <2>1. \A b \in datIn' \ datIn : b.cause \notin L1TxnIds
        BY <1>2, <1>4, BeatFields
    <2> QED BY <1>1, <1>4, <2>1, PeerKeepsQInv
<1> QED BY <1>3, <1>4 DEF AnswerSnoop, MayAnswerSilently, Obliging

\* Memory's answer.
LEMMA AnswerMemKeepsQInv ==
    ASSUME IInv, QInv, NEW m \in reqOut, AnswerMemRequest(m)
    PROVE  QInv'
<1>1. /\ UNCHANGED <<pending, snoopToOrig, memToOrig, issued, snpOut, dbidOut>>
      /\ reqOut' = reqOut \ {m}
    BY DEF AnswerMemRequest, EngineIdle, tables
<1>2. m.txnId \in MemIds /\ m.txnId \notin L1TxnIds
    BY IdsAssumption, DisjointIdsAssumption DEF IInv, IdRanges, MemIds
<1>3. CASE m.type = "SendWriteNoSnp" /\ rspIn' = rspIn \cup {m.txnId} /\ datIn' = datIn
    BY <1>1, <1>2, <1>3, PeerKeepsQInv
<1>4. ASSUME m.type = "SendReadNoSnp",
             NEW d, datIn' = datIn \cup Beat(m.txnId, m.addr, d, m.txnId), rspIn' = rspIn
      PROVE  QInv'
    <2>1. /\ \A b \in datIn' \ datIn : b.cause \notin L1TxnIds
          /\ \E b \in datIn' : b.txnId = m.txnId
        BY <1>2, <1>4, BeatFields
    <2> QED BY <1>1, <1>4, <2>1, PeerKeepsQInv
<1> QED BY <1>3, <1>4 DEF AnswerMemRequest

\* Write data takes the place of the request for it.
LEMMA SendWriteDataKeepsQInv ==
    ASSUME IInv, QInv, NEW m \in dbidOut, SendWriteData(m)
    PROVE  QInv'
<1>1. /\ UNCHANGED <<pending, snoopToOrig, memToOrig, issued, snpOut, reqOut, rspIn>>
      /\ dbidOut' = dbidOut \ {m}
    BY DEF SendWriteData, EngineIdle, tables
<1>2. PICK id \in {m.txnId} \cup AnonymousIds, d \in Data :
          datIn' = datIn \cup Beat(id, m.addr, d, m.txnId)
    BY DEF SendWriteData
<1>3. /\ \A b \in datIn' \ datIn : b.txnId = id /\ b.addr = m.addr /\ b.cause = m.txnId
      /\ \E b \in datIn' : b.addr = m.addr /\ b.cause = m.txnId
    BY <1>2, BeatFields
<1>4. datIn \subseteq datIn'
    BY <1>2
<1> QED BY <1>1, <1>2, <1>3, <1>4, PeerKeepsQInv

-----------------------------------------------------------------------------
(* The theorems *)

\* Nothing is owed in the initial state.
LEMMA InitQInv == Init => QInv
<1> SUFFICES ASSUME Init PROVE QInv
    OBVIOUS
<1>1. /\ DOMAIN pending = {} /\ DOMAIN memToOrig = {} /\ datIn = {} /\ dbidOut = {}
    BY DEF Init, EngineInit
<1>2. WriteDataOwed
    <2>1. \A addr : EntriesAt(addr) = {} /\ CausesAt(addr) = {}
        BY <1>1 DEF EntriesAt, CausesAt
    <2> QED BY <2>1, FS_EmptySet DEF WriteDataOwed
<1> QED BY <1>1, <1>2
        DEF QInv, WriteDataKnown, SnoopAnswersOwed, MemAnswersOwed, MemTableAgrees

\* Every step leaves what is owed.
LEMMA NextQInv ==
    ASSUME Obliging
    PROVE  IInv /\ QInv /\ [Next]_vars => QInv'
<1> SUFFICES ASSUME IInv, QInv, [Next]_vars PROVE QInv'
    OBVIOUS
<1>1. CASE NewRequest
    <2>1. PICK txn \in Requests : FreshId(txn) /\ SnoopIdsLeft /\ Request(txn)
        BY <1>1 DEF NewRequest
    <2>2. RequestOwes(txn)
        BY <2>1, RequestsOwe DEF Request
    <2> QED BY <2>1, <2>2, QuietRequestKeepsQInv, WriteRequestKeepsQInv,
               SnoopRequestKeepsQInv DEF RequestOwes, AsksMemory
<1>2. ASSUME NEW id, \/ \E m \in datIn : m.txnId = id /\ DeliverData(m)
                     \/ id \in rspIn /\ DeliverResponse(id)
      PROVE  QInv'
    BY <1>2, DeliveryKeepsWriteDataOwed, DeliveryKeepsMemOwed, DeliveryKeepsSnoopOwed
       DEF QInv
<1>3. CASE UNCHANGED <<pending, snoopToOrig, memToOrig, issued, channels>>
    BY <1>3 DEF channels, QInv, WriteDataOwed, EntriesAt, CausesAt, WriteDataKnown,
                IdOfWrite, SnoopAnswersOwed, DataOwed, SnoopIdsOf, MemAnswersOwed,
                MemTableAgrees
<1>4. CASE \/ \E addr \in Addrs : Evict(addr)
           \/ \E addr \in Addrs, data \in Data : FunctionalWrite(addr, data)
           \/ UNCHANGED vars
    BY <1>3, <1>4 DEF Evict, InvalidateLine, FunctionalWrite, vars, engineVars, tables
<1> QED BY <1>1, <1>2, <1>4, AnswerSnoopKeepsQInv, AnswerMemKeepsQInv,
           SendWriteDataKeepsQInv DEF Next, Deliver

\* A transaction that waits for snoops waits for one that is unanswered.
LEMMA SnoopsStillToCome ==
    ASSUME IInv, QInv, fault = "none",
           NEW k \in DOMAIN pending, pending[k].state = "WaitSnoopResp"
    PROVE  pending[k].pendingSnoopCount > 0 /\ UnansweredOf(k) # {}
<1>1. pending[k].pendingSnoopCount = Cardinality(UnansweredOf(k))
    BY DEF IInv, SnoopAccounting, UnansweredOf
<1>2. pending[k].pendingSnoopCount > 0
    <2>1. /\ pending[k].pendingSnoopCount \in Int
          /\ pending[k].pendingSnoopDataCount \in Int
        BY PendingTypes DEF IInv, TypeOK
    <2>2. /\ ~AllAnswered(pending[k])
          /\ pending[k].pendingSnoopDataCount <= 0 \/ DataOwed(k)
        BY DEF QInv, SnoopAnswersOwed
    <2> QED BY <2>1, <2>2 DEF AllAnswered, DataOwed
<1> QED BY <1>1, <1>2, FS_EmptySet

\* What is owed keeps nothing pending once nothing is in flight.
LEMMA OwedMeansIdle == IInv /\ QInv => QuiescentMeansIdle
<1> SUFFICES ASSUME IInv, QInv, fault = "none", snpOut = {}, reqOut = {},
                    dbidOut = {}, rspIn = {}, datIn = {}
             PROVE  /\ DOMAIN pending = {}
                    /\ DOMAIN snoopToOrig = {}
                    /\ DOMAIN memToOrig = {}
                    /\ snoopRespCounted = {}
    BY DEF QuiescentMeansIdle
<1>1. ASSUME NEW k \in DOMAIN pending PROVE FALSE
    <2>1. pending[k].state \in PendingState /\ pending[k].origReq.addr \in Addr
        BY PendingTypes DEF IInv, TypeOK, EngineTypeOK, PendingTxn
    <2>2. CASE pending[k].state \in MemStates
        BY <2>2 DEF QInv, MemAnswersOwed, MemStates
    <2>3. CASE pending[k].state = "WaitSnoopResp"
        BY <2>3, SnoopsStillToCome DEF UnansweredOf, Unanswered
    <2>4. CASE pending[k].state = "WaitL1Data"
        <3>1. PICK addr \in Addr : addr = pending[k].origReq.addr
            BY <2>1
        <3>2. k \in EntriesAt(addr) /\ CausesAt(addr) = {}
            BY <2>4, <3>1 DEF EntriesAt, CausesAt
        <3>3. Cardinality(EntriesAt(addr)) <= 0
            BY <3>2, FS_EmptySet DEF QInv, WriteDataOwed
        <3>4. IsFiniteSet(EntriesAt(addr)) /\ Cardinality(EntriesAt(addr)) \in Nat
            BY CountedIds, FS_CardinalityType
        <3> QED BY <3>2, <3>3, <3>4, FS_EmptySet
    <2> QED BY <2>1, <2>2, <2>3, <2>4 DEF PendingState, MemStates
<1>2. DOMAIN snoopToOrig = {} /\ snoopRespCounted = {}
    BY <1>1 DEF IInv, SnoopTablesAgree
<1>3. DOMAIN memToOrig = {}
    BY <1>1 DEF QInv, MemTableAgrees
<1> QED BY <1>1, <1>2, <1>3

\* Nothing is stranded: with RN-Fs that give the data they are asked for, whatever
\* the interleaving of requests, snoops, write data, late beats and evictions, an
\* entry is left only as long as a message that will end it is in flight.
THEOREM NothingStranded ==
    ASSUME Obliging
    PROVE  Spec => []QuiescentMeansIdle
<1>1. IInv /\ QInv /\ [Next]_vars => QInv'
    BY NextQInv
<1> QED BY <1>1, InitQInv, OwedMeansIdle, SystemInvariant, PTL DEF Spec

\* With such RN-Fs the response count alone tells when a transaction is over, as the
\* documents say: it is above zero in every transaction that still waits for snoops.
THEOREM CountReachesZeroLast ==
    ASSUME Obliging
    PROVE  Spec => []ZeroMeansComplete
<1>1. IInv /\ QInv /\ [Next]_vars => QInv'
    BY NextQInv
<1>2. IInv /\ QInv => ZeroMeansComplete
    BY SnoopsStillToCome DEF ZeroMeansComplete
<1> QED BY <1>1, <1>2, InitQInv, SystemInvariant, PTL DEF Spec
=============================================================================
