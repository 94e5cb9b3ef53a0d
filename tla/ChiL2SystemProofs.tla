--------------------------- MODULE ChiL2SystemProofs ---------------------------
(***************************************************************************)
(* Invariants of ChiL2System for any number of RN-Fs, lines, requests and  *)
(* beats.  The inductive invariant is the conjunction of the types, the    *)
(* ranges of the ids, the uniqueness of the answer to a snoop, the         *)
(* agreement of the tables and the account of the snoops: an answer is     *)
(* counted once because nothing else is in flight under its id, and the    *)
(* table it is looked up in leads to the one transaction that waits for it.*)
(***************************************************************************)
EXTENDS ChiL2System, ChiProtocolEngineProofs

\* The ids in use so far: the two ranges never meet, every table key and every
\* message carries an id of the range it belongs to, and every pending entry
\* stands for a request that was made.
SnoopIds == SnoopIdBase .. nextSnoopTxnId - 1
MemIds   == MemIdBase .. nextInternalTxnId - 1

IdRanges ==
    /\ SnoopIdBase <= nextSnoopTxnId /\ nextSnoopTxnId <= MemIdBase
    /\ MemIdBase <= nextInternalTxnId
    /\ DOMAIN snoopToOrig \subseteq SnoopIds
    /\ \A k \in DOMAIN pending :
          /\ pending[k].origReq \in issued
          /\ IF pending[k].state \in {"WaitMemData", "WaitMemWriteAck"}
             THEN k \in MemIds
             ELSE k = pending[k].origReq.txnID
    /\ \A m \in snpOut : m.txnId \in SnoopIds /\ m.addr \in Addr
    /\ \A m \in reqOut : m.txnId \in MemIds /\ m.addr \in Addr
    /\ \A m \in dbidOut : m.txnId \in L1TxnIds /\ m.addr \in Addr
    /\ rspIn \subseteq SnoopIds \cup MemIds
    /\ \A m \in datIn :
          m.txnId \in L1TxnIds \cup AnonymousIds \cup SnoopIds \cup MemIds

\* Under a snoop id there is one snoop, or a response, or data, never two of
\* them, and nothing is counted as long as the snoop or its response is on its
\* way.
OneAnswerPerSnoop ==
    /\ \A m, n \in snpOut : m.txnId = n.txnId => m = n
    /\ \A m \in snpOut : m.txnId \notin rspIn \cup snoopRespCounted
    /\ \A id \in rspIn : id \notin snoopRespCounted
    /\ \A d \in datIn :
          d.txnId \in SnoopIds => /\ d.txnId \notin rspIn
                                 /\ \A m \in snpOut : m.txnId # d.txnId

\* The inductive invariant.
IInv ==
    /\ TypeOK
    /\ IdRanges
    /\ OneAnswerPerSnoop
    /\ SnoopTablesAgree
    /\ SnoopAccounting

UnansweredOf(id) == {s \in SnoopIdsOf(id) : Unanswered(s)}

-----------------------------------------------------------------------------
(* Facts about one state *)

\* A request with a fresh id finds no entry under that id.
LEMMA FreshNotPending ==
    ASSUME IInv, NEW txn \in ChiTransaction, FreshId(txn)
    PROVE  /\ txn.txnID \in L1TxnIds
           /\ txn.txnID \notin DOMAIN pending
           /\ txn.txnID < SnoopIdBase
           /\ \A s \in DOMAIN snoopToOrig : snoopToOrig[s] # txn.txnID
<1>1. txn.txnID \in L1TxnIds /\ txn.txnID < SnoopIdBase /\ txn.txnID \in Nat
    BY DisjointIdsAssumption, IdsAssumption DEF ChiTransaction
<1>2. txn.txnID \notin MemIds
    BY <1>1, DisjointIdsAssumption, IdsAssumption DEF MemIds
<1>3. \A k \in DOMAIN pending : pending[k].origReq.txnID # txn.txnID
    BY DEF FreshId, IInv, IdRanges
<1>4. txn.txnID \notin DOMAIN pending
    BY <1>2, <1>3 DEF IInv, IdRanges
<1> QED BY <1>1, <1>4 DEF IInv, SnoopTablesAgree

\* The snoops of a transaction are finitely many.
LEMMA SnoopIdsFinite ==
    ASSUME IInv, NEW id
    PROVE  IsFiniteSet(UnansweredOf(id))
<1>1. nextSnoopTxnId - 1 \in Int /\ SnoopIdBase \in Int
    BY IdsAssumption DEF IInv, TypeOK, EngineTypeOK
<1>2. IsFiniteSet(SnoopIds)
    BY <1>1, FS_Interval DEF SnoopIds
<1>3. UnansweredOf(id) \subseteq SnoopIds
    BY DEF UnansweredOf, SnoopIdsOf, IInv, IdRanges
<1> QED BY <1>2, <1>3, FS_Subset

\* No request ever bears the id of a snoop.
LEMMA SnoopIdsAreNotL1Ids ==
    ASSUME IInv, NEW s \in SnoopIds
    PROVE  s \notin L1TxnIds \cup AnonymousIds /\ s \notin MemIds
BY IdsAssumption, DisjointIdsAssumption
   DEF SnoopIds, MemIds, IInv, IdRanges, TypeOK, EngineTypeOK

-----------------------------------------------------------------------------
(* What the actions returned put in flight *)

\* Everything put in flight is in range.
LEMMA SentInRange ==
    ASSUME IInv, ActionsInRange, ExecuteActions
    PROVE  /\ \A m \in reqOut' : m.addr \in Addr /\
                 \/ m.txnId \in MemIds
                 \/ m.txnId = nextInternalTxnId
                        /\ nextInternalTxnId' = nextInternalTxnId + 1
           /\ \A m \in dbidOut' : m.addr \in Addr /\ m.txnId \in L1TxnIds
           /\ completed' \subseteq L1TxnIds
<1>1. \A m \in reqOut' \ reqOut :
          /\ m.addr \in Addr
          /\ m.txnId = nextInternalTxnId /\ nextInternalTxnId' = nextInternalTxnId + 1
    BY DEF ExecuteActions, Sent, ActionsInRange
<1>2. \A m \in dbidOut' \ dbidOut : m.addr \in Addr /\ m.txnId \in L1TxnIds
    BY DEF ExecuteActions, Sent, ActionsInRange
<1>3. completed' \subseteq completed \cup L1TxnIds
    BY DEF ExecuteActions, Sent, ActionsInRange
<1> QED BY <1>1, <1>2, <1>3 DEF IInv, TypeOK, IdRanges

\* A call that sends no snoop leaves the snoops in flight as they were.
LEMMA NoSnoopSent ==
    ASSUME SendsNoSnoop, ExecuteActions
    PROVE  snpOut' = snpOut
BY DEF SendsNoSnoop, ExecuteActions, Sent

-----------------------------------------------------------------------------
(* An answer delivered to the engine *)

\* A delivered answer keeps the types, the id ranges and the uniqueness of
\* answers, whatever shrinking move it makes.
LEMMA ShrinkKeepsRanges ==
    ASSUME IInv, Shrinks, ActionsInRange, ExecuteActions,
           cache' \in Caches,
           fault' \in {"none", "MissEvictDirty", "NullData"},
           issued' = issued, evicts' = evicts,
           rspIn' \subseteq rspIn, datIn' \subseteq datIn,
           snoopRespCounted' \subseteq snoopRespCounted \cup DOMAIN snoopToOrig,
           \A s \in snoopRespCounted' \ snoopRespCounted :
               s \notin rspIn /\ \A m \in snpOut : m.txnId # s
    PROVE  TypeOK' /\ IdRanges' /\ OneAnswerPerSnoop'
<1>1. snpOut' = snpOut
    BY NoSnoopSent DEF Shrinks
<1>2. SnoopIds' = SnoopIds /\ UNCHANGED <<nextSnoopTxnId, nextInternalTxnId>>
    BY DEF Shrinks, counters, SnoopIds
<1>3. MemIds' = MemIds
    BY <1>2 DEF MemIds
<1>4. nextInternalTxnId' # nextInternalTxnId + 1
    BY <1>2 DEF IInv, TypeOK, EngineTypeOK
<1>5. EngineTypeOK'
    BY <1>2 DEF IInv, TypeOK, EngineTypeOK, Shrinks
<1>6. TypeOK'
    BY <1>5, SentInRange DEF IInv, TypeOK
<1>7. \A k \in DOMAIN pending' :
          /\ pending'[k].origReq \in issued
          /\ IF pending'[k].state \in {"WaitMemData", "WaitMemWriteAck"}
             THEN k \in MemIds
             ELSE k = pending'[k].origReq.txnID
    BY DEF Shrinks, IInv, IdRanges
<1>8. IdRanges'
    BY <1>1, <1>2, <1>3, <1>4, <1>7, SentInRange DEF IdRanges, IInv, Shrinks
<1>9. OneAnswerPerSnoop'
    BY <1>1, <1>2 DEF OneAnswerPerSnoop, IInv
<1> QED BY <1>6, <1>8, <1>9

\* Nothing in flight changes except under id x.
SameElsewhere(x) ==
    /\ snpOut' = snpOut
    /\ \A s : s # x =>
          /\ s \in rspIn' <=> s \in rspIn
          /\ (\E m \in datIn' : m.txnId = s) <=> (\E m \in datIn : m.txnId = s)

\* Snoops under other ids are as answered as they were.
LEMMA UnansweredElsewhere ==
    ASSUME NEW x, SameElsewhere(x), NEW s, s # x,
           s \in snoopRespCounted' <=> s \in snoopRespCounted
    PROVE  Unanswered(s)' <=> Unanswered(s)
BY DEF SameElsewhere, Unanswered

\* A transaction none of whose snoops is concerned keeps its account.
LEMMA AccountKept ==
    ASSUME IInv, fault = "none", NEW x, SameElsewhere(x), NEW k \in DOMAIN pending',
           k \in DOMAIN pending, pending'[k] = pending[k],
           pending'[k].state = "WaitSnoopResp",
           (SnoopIdsOf(k))' = SnoopIdsOf(k), x \notin SnoopIdsOf(k),
           \A s \in SnoopIdsOf(k) :
               s \in snoopRespCounted' <=> s \in snoopRespCounted
    PROVE  pending'[k].pendingSnoopCount = Cardinality((UnansweredOf(k))')
<1>1. \A s \in SnoopIdsOf(k) : Unanswered(s)' <=> Unanswered(s)
    BY UnansweredElsewhere
<1>2. (UnansweredOf(k))' = UnansweredOf(k)
    BY <1>1 DEF UnansweredOf
<1> QED BY <1>2 DEF IInv, SnoopAccounting, UnansweredOf

\* The account and the tables when the answer is no snoop's.
LEMMA OtherKeepsAccount ==
    ASSUME IInv, fault = "none", NEW x, SameElsewhere(x), OtherMove(x)
    PROVE  SnoopTablesAgree' /\ SnoopAccounting'
<1>1. UNCHANGED <<snoopToOrig, snoopRespCounted>>
    BY DEF OtherMove, Stay, Drops, tables
<1>2. \A k : (SnoopIdsOf(k))' = SnoopIdsOf(k) /\ x \notin SnoopIdsOf(k)
    BY <1>1 DEF SnoopIdsOf, OtherMove
<1>3. \A k \in DOMAIN pending' : k \in DOMAIN pending /\ pending'[k] = pending[k]
    BY DEF OtherMove, Stay, Drops, tables, Erase
<1>4. \A k \in DOMAIN pending :
          pending[k].state = "WaitSnoopResp" => k \in DOMAIN pending'
    BY DEF OtherMove, Stay, Drops, tables, Erase
<1>5. SnoopTablesAgree'
    BY <1>1, <1>3, <1>4 DEF SnoopTablesAgree, IInv
<1>6. ASSUME NEW k \in DOMAIN pending', pending'[k].state = "WaitSnoopResp"
      PROVE  pending'[k].pendingSnoopCount = Cardinality((UnansweredOf(k))')
    BY <1>1, <1>2, <1>3, <1>6, AccountKept
<1>7. SnoopAccounting'
    BY <1>6 DEF SnoopAccounting, UnansweredOf
<1> QED BY <1>5, <1>7

\* The account and the tables when a snoop's transaction is completed.
LEMMA CompletionKeepsAccount ==
    ASSUME IInv, fault = "none", NEW x \in DOMAIN snoopToOrig, SameElsewhere(x),
           Completes(snoopToOrig[x])
    PROVE  SnoopTablesAgree' /\ SnoopAccounting'
<1> DEFINE orig == snoopToOrig[x]
<1>1. \A k : k # orig => (SnoopIdsOf(k))' = SnoopIdsOf(k) /\ x \notin SnoopIdsOf(k)
    BY DEF SnoopIdsOf, Completes, Erase
<1>2. \A k \in DOMAIN pending' :
          k # orig /\ k \in DOMAIN pending /\ pending'[k] = pending[k]
    BY DEF Completes, Erase
<1>3. \A k : k # orig => \A s \in SnoopIdsOf(k) :
          s \in snoopRespCounted' <=> s \in snoopRespCounted
    BY DEF Completes, SnoopIdsOf
<1>4. SnoopTablesAgree'
    BY DEF SnoopTablesAgree, IInv, Completes, Erase, SnoopIdsOf
<1>5. ASSUME NEW k \in DOMAIN pending', pending'[k].state = "WaitSnoopResp"
      PROVE  pending'[k].pendingSnoopCount = Cardinality((UnansweredOf(k))')
    BY <1>1, <1>2, <1>3, <1>5, AccountKept
<1>6. SnoopAccounting'
    BY <1>5 DEF SnoopAccounting, UnansweredOf
<1> QED BY <1>4, <1>6

\* The account and the tables when the transaction waits on: the count goes down
\* by one exactly when the snoop was unanswered before.
LEMMA WaitingKeepsAccount ==
    ASSUME IInv, fault = "none", NEW x \in DOMAIN snoopToOrig, SameElsewhere(x),
           NEW counted, counted \subseteq snoopRespCounted \cup {x},
           snoopRespCounted \subseteq counted,
           ~ Unanswered(x)',
           Keeps(snoopToOrig[x],
                 IF Unanswered(x) THEN CountOf(x) - 1 ELSE CountOf(x), counted)
    PROVE  SnoopTablesAgree' /\ SnoopAccounting'
<1> DEFINE orig == snoopToOrig[x]
           count == IF Unanswered(x) THEN CountOf(x) - 1 ELSE CountOf(x)
<1>1. PICK dataCount \in Int :
          pending' = [pending EXCEPT ![orig] =
                        [pending[orig] EXCEPT !.pendingSnoopCount = count,
                                              !.pendingSnoopDataCount = dataCount]]
    BY DEF Keeps
<1> DEFINE pt == [pending[orig] EXCEPT !.pendingSnoopCount = count,
                                       !.pendingSnoopDataCount = dataCount]
<1>2. orig \in DOMAIN pending /\ pending[orig] \in PendingTxn
        /\ pending[orig].state = "WaitSnoopResp"
    BY DEF Keeps, IInv, TypeOK, EngineTypeOK, SnoopTablesAgree
<1>3. pt.state = "WaitSnoopResp" /\ pt.pendingSnoopCount = count
    BY <1>2 DEF PendingTxn
<1>4. /\ DOMAIN pending' = DOMAIN pending
      /\ \A k \in DOMAIN pending' : pending'[k] = IF k = orig THEN pt ELSE pending[k]
    <2> HIDE DEF orig, count
    <2> QED BY <1>1, <1>2
<1>5. snoopToOrig' = snoopToOrig /\ snoopRespCounted' = counted
    BY DEF Keeps
<1>6. SnoopTablesAgree'
    <2>1. \A s \in DOMAIN snoopToOrig :
              /\ snoopToOrig[s] \in DOMAIN pending'
              /\ pending'[snoopToOrig[s]].state = "WaitSnoopResp"
        <3> HIDE DEF pt
        <3> QED BY <1>3, <1>4 DEF IInv, SnoopTablesAgree
    <2> QED BY <1>5, <2>1 DEF SnoopTablesAgree, IInv
<1>7. \A s \in SnoopIdsOf(orig) : s # x => (Unanswered(s)' <=> Unanswered(s))
    BY <1>5, UnansweredElsewhere
<1>8. (UnansweredOf(orig))' = UnansweredOf(orig) \ {x}
    BY <1>5, <1>7 DEF UnansweredOf, SnoopIdsOf
<1>9. x \in UnansweredOf(orig) <=> Unanswered(x)
    BY DEF UnansweredOf, SnoopIdsOf
<1>10. CountOf(x) = Cardinality(UnansweredOf(orig))
    BY <1>2 DEF CountOf, UnansweredOf, IInv, SnoopAccounting
<1>11. count = Cardinality((UnansweredOf(orig))')
    BY <1>8, <1>9, <1>10, SnoopIdsFinite, FS_RemoveElement
<1>12. ASSUME NEW k \in DOMAIN pending', pending'[k].state = "WaitSnoopResp"
       PROVE  pending'[k].pendingSnoopCount = Cardinality((UnansweredOf(k))')
    <2>1. CASE k = orig
        <3>1. pending'[k] = pt
            BY <1>4, <2>1
        <3>2. pending'[k].pendingSnoopCount = count
            <4>1. pt.pendingSnoopCount = count
                BY <1>3
            <4> HIDE DEF pt, count, orig
            <4> QED BY <3>1, <4>1
        <3>3. (UnansweredOf(k))' = (UnansweredOf(orig))'
            BY <1>5, <2>1 DEF UnansweredOf, SnoopIdsOf
        <3> HIDE DEF count, orig
        <3> QED BY <1>11, <3>2, <3>3
    <2>2. CASE k # orig
        <3>1. pending'[k] = pending[k] /\ k \in DOMAIN pending
            BY <1>4, <2>2
        <3>2. (SnoopIdsOf(k))' = SnoopIdsOf(k) /\ x \notin SnoopIdsOf(k)
            BY <1>5, <2>2 DEF SnoopIdsOf
        <3>3. \A s \in SnoopIdsOf(k) : s \in snoopRespCounted' <=> s \in snoopRespCounted
            BY <1>5, <3>2
        <3> QED BY <1>12, <3>1, <3>2, <3>3, AccountKept
    <2> QED BY <2>1, <2>2
<1>13. SnoopAccounting'
    BY <1>12 DEF SnoopAccounting, UnansweredOf
<1> QED BY <1>6, <1>13

-----------------------------------------------------------------------------
(* The actions *)

\* recvData keeps the invariant.
LEMMA DeliverDataInv ==
    ASSUME IInv, NEW m \in datIn, DeliverData(m)
    PROVE  IInv'
<1> DEFINE id == m.txnId
<1>1. m \in DataMsgs /\ m.data \in Data /\ fault = "none"
    BY DEF IInv, TypeOK, DataMsgs, DeliverData, RecvData
<1>2. EngineTypeOK /\ ExecuteActions /\ issued' = issued /\ evicts' = evicts
        /\ rspIn' = rspIn /\ datIn' = datIn \ {m}
    BY DEF IInv, TypeOK, DeliverData
<1>3. /\ cache' \in Caches
      /\ fault' = "none"
      /\ ActionsInRange
      /\ \/ LateMove(id)
         \/ SnoopMove(id, IF id \in snoopRespCounted THEN CountOf(id)
                          ELSE CountOf(id) - 1,
                      snoopRespCounted \cup {id})
         \/ OtherMove(id)
    BY <1>1, <1>2, DataMoves DEF DeliverData
<1>4. ~LateMove(id)
    BY DEF LateMove, IInv, SnoopTablesAgree
<1>5. CASE OtherMove(id)
    <2>1. Shrinks
        BY <1>2, <1>5, MovesShrink
    <2>2. SameElsewhere(id)
        BY <1>2, <2>1, NoSnoopSent DEF SameElsewhere, Shrinks
    <2>3. snoopRespCounted' = snoopRespCounted
        BY <1>5 DEF OtherMove, Stay, Drops, tables
    <2>4. TypeOK' /\ IdRanges' /\ OneAnswerPerSnoop'
        BY <1>2, <1>3, <2>1, <2>3, ShrinkKeepsRanges
    <2>5. SnoopTablesAgree' /\ SnoopAccounting'
        BY <1>1, <1>5, <2>2, OtherKeepsAccount
    <2> QED BY <2>4, <2>5 DEF IInv
<1>6. CASE SnoopMove(id, IF id \in snoopRespCounted THEN CountOf(id)
                         ELSE CountOf(id) - 1,
                     snoopRespCounted \cup {id})
    <2> DEFINE count == IF id \in snoopRespCounted THEN CountOf(id)
                        ELSE CountOf(id) - 1
    <2>1. id \in DOMAIN snoopToOrig /\ id \in SnoopIds
            /\ snoopToOrig[id] \in DOMAIN pending
        BY <1>6 DEF SnoopMove, IInv, IdRanges, SnoopTablesAgree
    <2>2. count \in Int
        BY <1>2, <2>1, PendingTypes DEF CountOf
    <2>3. Shrinks
        <3> HIDE DEF count
        <3> QED BY <1>2, <1>6, <2>2, MovesShrink DEF count
    <2>4. SameElsewhere(id)
        BY <1>2, <2>3, NoSnoopSent DEF SameElsewhere, Shrinks
    <2>5. id \notin rspIn /\ \A n \in snpOut : n.txnId # id
        BY <2>1 DEF IInv, OneAnswerPerSnoop
    <2>6. Unanswered(id) <=> id \notin snoopRespCounted
        BY <2>5 DEF Unanswered
    <2>7. CASE Completes(snoopToOrig[id])
        <3>1. snoopRespCounted' \subseteq snoopRespCounted
            BY <2>7 DEF Completes
        <3>2. TypeOK' /\ IdRanges' /\ OneAnswerPerSnoop'
            BY <1>2, <1>3, <2>3, <3>1, ShrinkKeepsRanges
        <3>3. SnoopTablesAgree' /\ SnoopAccounting'
            BY <1>1, <2>1, <2>4, <2>7, CompletionKeepsAccount
        <3> QED BY <3>2, <3>3 DEF IInv
    <2>8. CASE Keeps(snoopToOrig[id], count, snoopRespCounted \cup {id})
        <3>1. snoopRespCounted' = snoopRespCounted \cup {id}
            BY <2>8 DEF Keeps
        <3>2. TypeOK' /\ IdRanges' /\ OneAnswerPerSnoop'
            BY <1>2, <1>3, <2>1, <2>3, <2>5, <3>1, ShrinkKeepsRanges
        <3>3. ~ Unanswered(id)'
            BY <1>2, <2>4, <2>5, <3>1 DEF Unanswered, SameElsewhere
        <3>4. Keeps(snoopToOrig[id],
                    IF Unanswered(id) THEN CountOf(id) - 1 ELSE CountOf(id),
                    snoopRespCounted \cup {id})
            BY <2>6, <2>8
        <3>5. SnoopTablesAgree' /\ SnoopAccounting'
            BY <1>1, <2>1, <2>4, <3>3, <3>4, WaitingKeepsAccount
        <3> QED BY <3>2, <3>5 DEF IInv
    <2> QED BY <1>6, <2>7, <2>8 DEF SnoopMove
<1> QED BY <1>3, <1>4, <1>5, <1>6

\* recvResponse keeps the invariant.
LEMMA DeliverResponseInv ==
    ASSUME IInv, NEW id \in rspIn, DeliverResponse(id)
    PROVE  IInv'
<1>1. EngineTypeOK /\ ExecuteActions /\ issued' = issued /\ evicts' = evicts
        /\ rspIn' = rspIn \ {id} /\ datIn' = datIn /\ fault = "none"
    BY DEF IInv, TypeOK, DeliverResponse, RecvResponse
<1>2. /\ cache' \in Caches
      /\ fault' \in {"none", "NullData"}
      /\ ActionsInRange
      /\ \/ fault' # "none" /\ Stay
         \/ LateMove(id)
         \/ SnoopMove(id, CountOf(id) - 1, snoopRespCounted)
         \/ OtherMove(id)
    BY <1>1, ResponseMoves DEF DeliverResponse
<1>3. ~LateMove(id)
    BY DEF LateMove, IInv, SnoopTablesAgree
<1>4. CASE fault' # "none" /\ Stay
    <2>1. Shrinks
        BY <1>1, <1>4, MovesShrink
    <2>2. TypeOK' /\ IdRanges' /\ OneAnswerPerSnoop'
        BY <1>1, <1>2, <1>4, <2>1, ShrinkKeepsRanges DEF Stay, tables
    <2>3. SnoopTablesAgree' /\ SnoopAccounting'
        BY <1>4 DEF Stay, tables, IInv, SnoopTablesAgree, SnoopAccounting
    <2> QED BY <2>2, <2>3 DEF IInv
<1>5. CASE OtherMove(id)
    <2>1. Shrinks
        BY <1>1, <1>5, MovesShrink
    <2>2. SameElsewhere(id)
        BY <1>1, <2>1, NoSnoopSent DEF SameElsewhere, Shrinks
    <2>3. snoopRespCounted' = snoopRespCounted
        BY <1>5 DEF OtherMove, Stay, Drops, tables
    <2>4. TypeOK' /\ IdRanges' /\ OneAnswerPerSnoop'
        BY <1>1, <1>2, <2>1, <2>3, ShrinkKeepsRanges
    <2>5. SnoopTablesAgree' /\ SnoopAccounting'
        BY <1>1, <1>5, <2>2, OtherKeepsAccount
    <2> QED BY <2>4, <2>5 DEF IInv
<1>6. CASE SnoopMove(id, CountOf(id) - 1, snoopRespCounted)
    <2>1. id \in DOMAIN snoopToOrig /\ id \in SnoopIds
            /\ snoopToOrig[id] \in DOMAIN pending
        BY <1>6 DEF SnoopMove, IInv, IdRanges, SnoopTablesAgree
    <2>2. CountOf(id) - 1 \in Int
        BY <1>1, <2>1, PendingTypes DEF CountOf
    <2>3. Shrinks
        BY <1>1, <1>6, <2>2, MovesShrink
    <2>4. SameElsewhere(id)
        BY <1>1, <2>3, NoSnoopSent DEF SameElsewhere, Shrinks
    <2>5. Unanswered(id) /\ (\A n \in snpOut : n.txnId # id)
            /\ (\A d \in datIn : d.txnId # id)
        BY <2>1 DEF IInv, OneAnswerPerSnoop, Unanswered
    <2>6. snoopRespCounted' \subseteq snoopRespCounted
        BY <1>6 DEF SnoopMove, Completes, Keeps
    <2>7. TypeOK' /\ IdRanges' /\ OneAnswerPerSnoop'
        BY <1>1, <1>2, <2>3, <2>6, ShrinkKeepsRanges
    <2>8. CASE Completes(snoopToOrig[id])
        BY <1>1, <2>1, <2>4, <2>7, <2>8, CompletionKeepsAccount DEF IInv
    <2>9. CASE Keeps(snoopToOrig[id], CountOf(id) - 1, snoopRespCounted)
        <3>1. ~ Unanswered(id)'
            BY <1>1, <2>4, <2>5 DEF Unanswered, SameElsewhere
        <3>2. SnoopTablesAgree' /\ SnoopAccounting'
            BY <1>1, <2>1, <2>4, <2>5, <2>9, <3>1, WaitingKeepsAccount
        <3> QED BY <2>7, <3>2 DEF IInv
    <2> QED BY <1>6, <2>8, <2>9 DEF SnoopMove
<1> QED BY <1>2, <1>3, <1>4, <1>5, <1>6

\* An Evict touches nothing but the cache.
LEMMA EvictInv ==
    ASSUME IInv, NEW addr \in Addrs, Evict(addr)
    PROVE  IInv'
<1>1. cache' \in Caches
    <2>1. addr \in Addr /\ cache \in Caches
        BY AddrsAssumption DEF IInv, TypeOK, EngineTypeOK
    <2> QED BY <2>1, UpdateTypes DEF Evict, InvalidateLine
<1>2. UNCHANGED <<tables, counters, fault, issued, completed, channels>>
        /\ evicts' \in Nat
    BY DEF Evict, InvalidateLine, IInv, TypeOK
<1>3. TypeOK'
    BY <1>1, <1>2 DEF IInv, TypeOK, EngineTypeOK, tables, counters, channels
<1> QED BY <1>2, <1>3
        DEF IInv, IdRanges, SnoopIds, MemIds, OneAnswerPerSnoop, SnoopTablesAgree,
            SnoopAccounting, SnoopIdsOf, Unanswered, tables, counters, channels

\* A debug write touches nothing but the cache.
LEMMA FunctionalWriteInv ==
    ASSUME IInv, NEW addr \in Addrs, NEW data \in Data, FunctionalWrite(addr, data)
    PROVE  IInv'
<1>1. cache' \in Caches
    <2>1. addr \in Addr /\ cache \in Caches
        BY AddrsAssumption DEF IInv, TypeOK, EngineTypeOK
    <2> QED BY <2>1, UpdateTypes DEF FunctionalWrite
<1>2. UNCHANGED <<tables, counters, fault, issued, completed, channels, evicts>>
    BY DEF FunctionalWrite
<1>3. TypeOK'
    BY <1>1, <1>2 DEF IInv, TypeOK, EngineTypeOK, tables, counters, channels
<1> QED BY <1>2, <1>3
        DEF IInv, IdRanges, SnoopIds, MemIds, OneAnswerPerSnoop, SnoopTablesAgree,
            SnoopAccounting, SnoopIdsOf, Unanswered, tables, counters, channels

-----------------------------------------------------------------------------
(* A request *)

\* What reaches the channels with a request: beats of posted data at most.
LEMMA RequestChannels ==
    ASSUME IInv, NEW txn \in Requests, FreshId(txn), Request(txn)
    PROVE  /\ txn \in ChiTransaction
           /\ fault = "none"
           /\ RequestMove(txn)
           /\ ExecuteActions
           /\ issued' = issued \cup {txn}
           /\ rspIn' = rspIn
           /\ evicts' = evicts
           /\ datIn \subseteq datIn'
           /\ datIn' \subseteq DataMsgs
           /\ \A m \in datIn' \ datIn : m.txnId = txn.txnID
<1>1. txn \in ChiTransaction
    BY OpcodesAssumption, AddrsAssumption DEF Requests, ChiTransaction
<1>2. txn.addr \in Addr /\ txn.txnID \in Nat
    BY <1>1, IdsAssumption DEF ChiTransaction
<1>3. ASSUME NEW d \in Data
      PROVE  \A m \in Beat(txn.txnID, txn.addr, d, txn.txnID) :
                 m \in DataMsgs /\ m.txnId = txn.txnID
    BY <1>2 DEF Beat, DataMsgs
<1>4. \/ datIn' = datIn
      \/ \E d \in Data : datIn' = datIn \cup Beat(txn.txnID, txn.addr, d, txn.txnID)
    BY DEF Request
<1>5. RequestMove(txn)
    BY <1>1, RequestMoves DEF Request, IInv, TypeOK
<1> QED BY <1>1, <1>3, <1>4, <1>5 DEF Request, RecvRequest, IInv, TypeOK

\* The parts of the invariant that hold after any request move.
LEMMA RequestKeepsTypes ==
    ASSUME IInv, NEW txn \in Requests, FreshId(txn), Request(txn),
           EngineTypeOK'
    PROVE  TypeOK'
<1>1. ActionsInRange /\ ExecuteActions /\ txn \in ChiTransaction
    BY RequestChannels DEF RequestMove
<1>2. completed' \subseteq L1TxnIds
    BY <1>1, SentInRange
<1> QED BY <1>1, <1>2, RequestChannels DEF TypeOK, IInv

\* The table of pending transactions gains at most one entry, which waits for no
\* snoop; the tables of snoops stay.
Grows ==
    /\ DOMAIN pending \subseteq DOMAIN pending'
    /\ \A k \in DOMAIN pending : pending'[k] = pending[k]
    /\ \A k \in DOMAIN pending' \ DOMAIN pending :
          pending'[k].state # "WaitSnoopResp"
    /\ UNCHANGED <<snoopToOrig, snoopRespCounted>>

\* A growing move keeps the tables and the account.
LEMMA GrowKeepsAccount ==
    ASSUME IInv, fault = "none", NEW x, SameElsewhere(x), x \notin SnoopIds, Grows
    PROVE  SnoopTablesAgree' /\ SnoopAccounting'
<1>1. \A k : (SnoopIdsOf(k))' = SnoopIdsOf(k) /\ x \notin SnoopIdsOf(k)
    BY DEF Grows, SnoopIdsOf, IInv, IdRanges
<1>2. SnoopTablesAgree'
    BY DEF Grows, SnoopTablesAgree, IInv
<1>3. ASSUME NEW k \in DOMAIN pending', pending'[k].state = "WaitSnoopResp"
      PROVE  pending'[k].pendingSnoopCount = Cardinality((UnansweredOf(k))')
    <2>1. k \in DOMAIN pending /\ pending'[k] = pending[k]
        BY <1>3 DEF Grows
    <2>2. \A s \in SnoopIdsOf(k) : s \in snoopRespCounted' <=> s \in snoopRespCounted
        BY DEF Grows
    <2> QED BY <1>1, <1>3, <2>1, <2>2, AccountKept
<1>4. SnoopAccounting'
    BY <1>3 DEF SnoopAccounting, UnansweredOf
<1> QED BY <1>2, <1>4

\* A request that snoops nobody keeps the invariant.
LEMMA GrowingRequestInv ==
    ASSUME IInv, NEW txn \in Requests, FreshId(txn), Request(txn),
           Grows, SendsNoSnoop, EngineTypeOK',
           nextSnoopTxnId' = nextSnoopTxnId,
           nextInternalTxnId' \in {nextInternalTxnId, nextInternalTxnId + 1},
           \A k \in DOMAIN pending' \ DOMAIN pending :
               /\ pending'[k].origReq = txn
               /\ \/ pending'[k].state = "WaitL1Data" /\ k = txn.txnID
                  \/ /\ pending'[k].state \in {"WaitMemData", "WaitMemWriteAck"}
                     /\ k = nextInternalTxnId
                     /\ nextInternalTxnId' = nextInternalTxnId + 1
    PROVE  IInv'
<1>1. /\ fault = "none" /\ ActionsInRange /\ ExecuteActions
      /\ issued' = issued \cup {txn} /\ rspIn' = rspIn /\ datIn \subseteq datIn'
      /\ \A m \in datIn' \ datIn : m.txnId = txn.txnID
    BY RequestChannels DEF RequestMove
<1>2. txn.txnID \in L1TxnIds /\ txn.txnID < SnoopIdBase
    BY FreshNotPending, RequestChannels
<1>3. snpOut' = snpOut
    BY <1>1, NoSnoopSent
<1>4. SnoopIds' = SnoopIds
    BY DEF SnoopIds
<1>5. MemIds \subseteq MemIds' /\ MemIdBase <= nextInternalTxnId'
        /\ (nextInternalTxnId' = nextInternalTxnId + 1 => nextInternalTxnId \in MemIds')
    <2>1. /\ MemIdBase \in Nat /\ nextInternalTxnId \in Nat
          /\ MemIdBase <= nextInternalTxnId
        BY IdsAssumption DEF IInv, IdRanges, TypeOK, EngineTypeOK
    <2>2. CASE nextInternalTxnId' = nextInternalTxnId
        BY <2>1, <2>2 DEF MemIds
    <2>3. CASE nextInternalTxnId' = nextInternalTxnId + 1
        BY <2>1, <2>3 DEF MemIds
    <2> QED BY <2>2, <2>3
<1>6. txn.txnID \notin SnoopIds
    BY <1>2, SnoopIdsAreNotL1Ids
<1>7. TypeOK'
    BY RequestKeepsTypes
<1>8. \A k \in DOMAIN pending' :
          /\ pending'[k].origReq \in issued'
          /\ IF pending'[k].state \in {"WaitMemData", "WaitMemWriteAck"}
             THEN k \in MemIds'
             ELSE k = pending'[k].origReq.txnID
    <2> TAKE k \in DOMAIN pending'
    <2>1. CASE k \in DOMAIN pending
        BY <1>1, <1>5, <2>1 DEF Grows, IInv, IdRanges
    <2>2. CASE k \notin DOMAIN pending
        BY <1>1, <1>5, <2>2
    <2> QED BY <2>1, <2>2
<1>9. IdRanges'
    <2>1. \A m \in reqOut' : m.txnId \in MemIds' /\ m.addr \in Addr
        BY <1>1, <1>5, SentInRange
    <2>2. \A m \in dbidOut' : m.txnId \in L1TxnIds /\ m.addr \in Addr
        BY <1>1, SentInRange
    <2> QED BY <1>1, <1>2, <1>3, <1>4, <1>5, <1>8, <2>1, <2>2
            DEF IdRanges, IInv, Grows
<1>10. OneAnswerPerSnoop'
    BY <1>1, <1>3, <1>4, <1>6 DEF OneAnswerPerSnoop, IInv, Grows
<1>11. SameElsewhere(txn.txnID)
    BY <1>1, <1>3 DEF SameElsewhere
<1>12. SnoopTablesAgree' /\ SnoopAccounting'
    BY <1>1, <1>6, <1>11, GrowKeepsAccount
<1> QED BY <1>7, <1>9, <1>10, <1>12 DEF IInv

\* Requests served from the cache, from memory, or waiting for write data.
LEMMA QuietRequestInv ==
    ASSUME IInv, NEW txn \in Requests, FreshId(txn), Request(txn),
           Stay \/ OpensMem(txn) \/ Awaits(txn)
    PROVE  IInv'
<1>1. txn \in ChiTransaction /\ RequestMove(txn)
    BY RequestChannels
<1>2. txn.txnID \in L1TxnIds /\ txn.txnID \in Nat /\ txn.txnID \notin DOMAIN pending
    BY <1>1, FreshNotPending, IdsAssumption
<1>3. nextInternalTxnId \in Nat /\ nextInternalTxnId \notin DOMAIN pending
    <2>1. \A k \in DOMAIN pending : k \in MemIds \/ k \in L1TxnIds
        BY DEF IInv, IdRanges, TypeOK, EngineTypeOK, PendingTxn, ChiTransaction
    <2> QED BY <2>1, IdsAssumption, DisjointIdsAssumption
            DEF MemIds, IInv, TypeOK, EngineTypeOK, IdRanges
<1>4. EngineTypeOK
    BY DEF IInv, TypeOK
<1>5. CASE Stay
    <2>1. EngineTypeOK'
        BY <1>1, <1>4, <1>5 DEF RequestMove, Stay, EngineTypeOK, tables, counters
    <2>2. Grows /\ DOMAIN pending' = DOMAIN pending
        BY <1>5 DEF Stay, Grows, tables
    <2> QED BY <1>5, <2>1, <2>2, GrowingRequestInv DEF Stay, counters
<1>6. ASSUME NEW key \in Nat, key \notin DOMAIN pending,
             NEW state \in PendingState, NEW target \in LineState,
             pending' = Put(pending, key, Waiting(txn, state, target, 0, 0)),
             state # "WaitSnoopResp",
             UNCHANGED <<snoopToOrig, snoopRespCounted>>
      PROVE  /\ Grows
             /\ DOMAIN pending' = DOMAIN pending \cup {key}
             /\ pending'[key].origReq = txn
             /\ pending'[key].state = state
             /\ \A k \in DOMAIN pending' : pending'[k] \in PendingTxn
    <2> DEFINE pt == Waiting(txn, state, target, 0, 0)
    <2>1. pt \in PendingTxn /\ pt.origReq = txn /\ pt.state = state
        BY <1>1 DEF Waiting, PendingTxn
    <2> HIDE DEF pt
    <2>2. /\ DOMAIN pending' = DOMAIN pending \cup {key}
          /\ \A k \in DOMAIN pending' : pending'[k] = IF k = key THEN pt ELSE pending[k]
        BY <1>6 DEF Put, pt
    <2> QED BY <1>4, <1>6, <2>1, <2>2 DEF Grows, EngineTypeOK
<1>7. CASE Awaits(txn)
    <2>1. "WaitL1Data" \in PendingState /\ "I" \in LineState
        BY DEF PendingState, LineState
    <2>2. /\ Grows
          /\ DOMAIN pending' = DOMAIN pending \cup {txn.txnID}
          /\ pending'[txn.txnID].origReq = txn
          /\ pending'[txn.txnID].state = "WaitL1Data"
          /\ \A k \in DOMAIN pending' : pending'[k] \in PendingTxn
        BY <1>2, <1>6, <1>7, <2>1 DEF Awaits
    <2>3. EngineTypeOK'
        BY <1>1, <1>2, <1>4, <1>7, <2>2
           DEF RequestMove, Awaits, EngineTypeOK, counters
    <2> QED BY <1>7, <2>2, <2>3, GrowingRequestInv DEF Awaits, counters
<1>8. CASE OpensMem(txn)
    <2>1. PICK state \in {"WaitMemData", "WaitMemWriteAck"}, target \in LineState :
              OpenMemTxn(txn, state, target)
        BY <1>8 DEF OpensMem
    <2>2. state \in PendingState
        BY DEF PendingState
    <2>3. /\ Grows
          /\ DOMAIN pending' = DOMAIN pending \cup {nextInternalTxnId}
          /\ pending'[nextInternalTxnId].origReq = txn
          /\ pending'[nextInternalTxnId].state = state
          /\ \A k \in DOMAIN pending' : pending'[k] \in PendingTxn
        BY <1>3, <1>6, <2>1, <2>2 DEF OpenMemTxn
    <2>4. /\ DOMAIN memToOrig' \subseteq Nat
          /\ \A k \in DOMAIN memToOrig' : memToOrig'[k] \in L1TxnIds
        BY <1>2, <1>3, <1>4, <2>1 DEF OpenMemTxn, Put, EngineTypeOK
    <2>5. EngineTypeOK'
        BY <1>1, <1>2, <1>3, <1>4, <2>1, <2>3, <2>4
           DEF RequestMove, OpenMemTxn, EngineTypeOK
    <2> QED BY <1>8, <2>1, <2>3, <2>5, GrowingRequestInv DEF OpensMem, OpenMemTxn
<1> QED BY <1>5, <1>7, <1>8

\* The snoops of a request: their ids are new, distinct, and one for each of the
\* other sharers.
LEMMA SnoopsSent ==
    ASSUME IInv, NEW txn \in Requests, FreshId(txn), SnoopIdsLeft, Request(txn),
           NEW type \in SnoopTypes, NEW retToSrc \in BOOLEAN,
           NEW target \in LineState, SnoopOthers(txn, type, retToSrc, target)
    PROVE  LET count == Cardinality(OtherSharers(txn))
               ids == nextSnoopTxnId .. nextSnoopTxnId + count - 1
           IN /\ count \in Nat
              /\ nextSnoopTxnId' = nextSnoopTxnId + count
              /\ nextSnoopTxnId' <= MemIdBase
              /\ snpOut \subseteq snpOut'
              /\ \A m \in snpOut' \ snpOut : m.txnId \in ids /\ m.addr \in Addr
              /\ \A m, n \in snpOut' \ snpOut : m.txnId = n.txnId => m = n
              /\ \A s \in ids : \E m \in snpOut' : m.txnId = s
<1> DEFINE others == OtherSharers(txn)
           count == Cardinality(others)
           ids == nextSnoopTxnId .. nextSnoopTxnId + count - 1
<1>1. txn.addr \in Addr /\ cache \in Caches /\ ExecuteActions
    BY RequestChannels DEF ChiTransaction, IInv, TypeOK, EngineTypeOK
<1>2. GetSharers(cache, txn.addr) \subseteq Nodes
    BY <1>1, HitWay DEF GetSharers, CacheLine
<1>3. IsFiniteSet(Nodes) /\ others \subseteq Nodes
    BY <1>2, NodesAssumption DEF OtherSharers
<1>4. count \in Nat /\ count <= Cardinality(Nodes) /\ Cardinality(Nodes) \in Nat
    BY <1>3, FS_Subset, FS_CardinalityType
<1>5. nextSnoopTxnId \in Nat /\ MemIdBase \in Nat
    BY IdsAssumption DEF IInv, TypeOK, EngineTypeOK
<1>6. nextSnoopTxnId' = nextSnoopTxnId + count
    BY DEF SnoopOthers
<1>7. nextSnoopTxnId' <= MemIdBase
    <2> HIDE DEF count
    <2> QED BY <1>4, <1>5, <1>6 DEF SnoopIdsLeft
<1>8. PICK node :
          actions' = [k \in 1 .. count |->
                        Snoop(type, txn.addr, nextSnoopTxnId + k - 1, node[k], retToSrc)]
    BY DEF SnoopOthers
<1> DEFINE msg(k) == Snoop(type, txn.addr, nextSnoopTxnId + k - 1, node[k], retToSrc)
<1>9. \A k \in 1 .. count :
          /\ msg(k).txnId = nextSnoopTxnId + k - 1
          /\ msg(k).addr = txn.addr
          /\ msg(k).type \in SnoopTypes
    BY DEF Snoop
<1>10. Sent(SnoopTypes) = {msg(k) : k \in 1 .. count}
    <2> HIDE DEF msg, count
    <2>1. actions' = [k \in 1 .. count |-> msg(k)]
        BY <1>8 DEF msg
    <2>2. DOMAIN actions' = 1 .. count /\ \A k \in 1 .. count : actions'[k] = msg(k)
        BY <2>1
    <2> QED BY <1>9, <2>2 DEF Sent
<1>11. snpOut' = snpOut \cup {msg(k) : k \in 1 .. count}
    BY <1>1, <1>10 DEF ExecuteActions
<1> HIDE DEF msg, count
<1>12. \A m \in snpOut' \ snpOut : m.txnId \in ids /\ m.addr \in Addr
    BY <1>1, <1>4, <1>5, <1>9, <1>11
<1>13. \A m, n \in snpOut' \ snpOut : m.txnId = n.txnId => m = n
    <2> TAKE m, n \in snpOut' \ snpOut
    <2> HAVE m.txnId = n.txnId
    <2>1. PICK j \in 1 .. count : m = msg(j)
        BY <1>11
    <2>2. PICK k \in 1 .. count : n = msg(k)
        BY <1>11
    <2>3. j = k
        BY <1>4, <1>5, <1>9, <2>1, <2>2
    <2> QED BY <2>1, <2>2, <2>3
<1>14. ASSUME NEW s \in ids PROVE \E m \in snpOut' : m.txnId = s
    <2>1. s - nextSnoopTxnId + 1 \in 1 .. count
        BY <1>4, <1>5
    <2>2. msg(s - nextSnoopTxnId + 1).txnId = s
        BY <1>5, <1>9, <2>1
    <2> QED BY <1>11, <2>1, <2>2
<1> QED BY <1>4, <1>6, <1>7, <1>11, <1>12, <1>13, <1>14 DEF count

\* A request that snoops the other sharers keeps the invariant: its account
\* starts with all of its snoops unanswered.
LEMMA SnoopingRequestInv ==
    ASSUME IInv, NEW txn \in Requests, FreshId(txn), SnoopIdsLeft, Request(txn),
           Snoops(txn)
    PROVE  IInv'
<1>1. PICK type \in SnoopTypes, retToSrc \in BOOLEAN, target \in LineState :
          SnoopOthers(txn, type, retToSrc, target)
    BY DEF Snoops
<1> DEFINE id == txn.txnID
           count == Cardinality(OtherSharers(txn))
           ids == nextSnoopTxnId .. nextSnoopTxnId + count - 1
           pt == Waiting(txn, "WaitSnoopResp", target, count,
                         IF retToSrc THEN count ELSE 0)
<1>2. /\ count \in Nat
      /\ nextSnoopTxnId' = nextSnoopTxnId + count
      /\ nextSnoopTxnId' <= MemIdBase
      /\ snpOut \subseteq snpOut'
      /\ \A m \in snpOut' \ snpOut : m.txnId \in ids /\ m.addr \in Addr
      /\ \A m, n \in snpOut' \ snpOut : m.txnId = n.txnId => m = n
      /\ \A s \in ids : \E m \in snpOut' : m.txnId = s
    BY <1>1, SnoopsSent
<1>3. /\ txn \in ChiTransaction /\ fault = "none" /\ RequestMove(txn)
      /\ ExecuteActions /\ issued' = issued \cup {txn} /\ rspIn' = rspIn
      /\ datIn \subseteq datIn' /\ \A m \in datIn' \ datIn : m.txnId = id
    BY RequestChannels
<1>4. /\ id \in L1TxnIds /\ id \in Nat /\ id < SnoopIdBase
      /\ id \notin DOMAIN pending
      /\ \A s \in DOMAIN snoopToOrig : snoopToOrig[s] # id
    BY <1>3, FreshNotPending, IdsAssumption
<1>5. /\ pending' = Put(pending, id, pt)
      /\ snoopToOrig' = [s \in DOMAIN snoopToOrig \cup ids |->
                            IF s \in ids THEN id ELSE snoopToOrig[s]]
      /\ UNCHANGED <<memToOrig, snoopRespCounted, nextInternalTxnId>>
    BY <1>1 DEF SnoopOthers
<1>6. pt \in PendingTxn /\ pt.origReq = txn /\ pt.state = "WaitSnoopResp"
        /\ pt.pendingSnoopCount = count
    BY <1>2, <1>3 DEF Waiting, PendingTxn, PendingState
<1>7. /\ nextSnoopTxnId \in Nat /\ SnoopIdBase \in Nat /\ MemIdBase \in Nat
      /\ SnoopIdBase <= nextSnoopTxnId
      /\ MemIdBase <= nextInternalTxnId /\ nextInternalTxnId \in Nat
    BY IdsAssumption DEF IInv, TypeOK, EngineTypeOK, IdRanges
<1> HIDE DEF count, pt
<1>8. /\ DOMAIN pending' = DOMAIN pending \cup {id}
      /\ \A k \in DOMAIN pending' : pending'[k] = IF k = id THEN pt ELSE pending[k]
    BY <1>5 DEF Put
<1>9. SnoopIds' = SnoopIds \cup ids /\ SnoopIds \cap ids = {} /\ MemIds' = MemIds
    <2>1. SnoopIds' = SnoopIds \cup ids
        BY <1>2, <1>7 DEF SnoopIds
    <2>2. SnoopIds \cap ids = {}
        BY <1>2, <1>7 DEF SnoopIds
    <2>3. MemIds' = MemIds
        BY <1>5 DEF MemIds
    <2> QED BY <2>1, <2>2, <2>3
<1>10. \A s \in ids : s >= SnoopIdBase /\ s < MemIdBase /\ s \in Nat
    BY <1>2, <1>7
<1>11. \A s \in ids : s \notin L1TxnIds \cup AnonymousIds /\ s \notin MemIds
    BY <1>7, <1>10, DisjointIdsAssumption, IdsAssumption DEF MemIds
<1>12. TypeOK'
    <2>1. DOMAIN snoopToOrig' \subseteq Nat
            /\ \A s \in DOMAIN snoopToOrig' : snoopToOrig'[s] \in L1TxnIds
        BY <1>4, <1>5, <1>10 DEF IInv, TypeOK, EngineTypeOK
    <2>2. DOMAIN pending' \subseteq Nat /\ \A k \in DOMAIN pending' : pending'[k] \in PendingTxn
        BY <1>4, <1>6, <1>8 DEF IInv, TypeOK, EngineTypeOK
    <2>3. nextSnoopTxnId' \in Nat
        BY <1>2, <1>7
    <2>4. EngineTypeOK'
        BY <1>3, <1>5, <2>1, <2>2, <2>3 DEF IInv, TypeOK, EngineTypeOK, RequestMove
    <2> QED BY <2>4, RequestKeepsTypes
<1>13. IdRanges'
    <2>1. ActionsInRange
        BY <1>3 DEF RequestMove
    <2>2. nextInternalTxnId' # nextInternalTxnId + 1
        BY <1>5, <1>7
    <2>3. \A m \in reqOut' : m.txnId \in MemIds' /\ m.addr \in Addr
        BY <1>3, <1>9, <2>1, <2>2, SentInRange
    <2>4. \A m \in dbidOut' : m.txnId \in L1TxnIds /\ m.addr \in Addr
        BY <1>3, <2>1, SentInRange
    <2>5. \A k \in DOMAIN pending' :
              /\ pending'[k].origReq \in issued'
              /\ IF pending'[k].state \in {"WaitMemData", "WaitMemWriteAck"}
                 THEN k \in MemIds'
                 ELSE k = pending'[k].origReq.txnID
        <3> TAKE k \in DOMAIN pending'
        <3>1. CASE k = id
            BY <1>3, <1>6, <1>8, <3>1
        <3>2. CASE k # id
            BY <1>3, <1>8, <1>9, <3>2 DEF IInv, IdRanges
        <3> QED BY <3>1, <3>2
    <2>6. DOMAIN snoopToOrig' \subseteq SnoopIds'
        BY <1>5, <1>9 DEF IInv, IdRanges
    <2>7. \A m \in snpOut' : m.txnId \in SnoopIds' /\ m.addr \in Addr
        BY <1>2, <1>9 DEF IInv, IdRanges
    <2>8. rspIn' \subseteq SnoopIds' \cup MemIds'
        BY <1>3, <1>9 DEF IInv, IdRanges
    <2>9. \A m \in datIn' :
              m.txnId \in L1TxnIds \cup AnonymousIds \cup SnoopIds' \cup MemIds'
        BY <1>3, <1>4, <1>9 DEF IInv, IdRanges
    <2>10. /\ SnoopIdBase <= nextSnoopTxnId' /\ nextSnoopTxnId' <= MemIdBase
           /\ MemIdBase <= nextInternalTxnId'
        BY <1>2, <1>5, <1>7
    <2> QED BY <2>3, <2>4, <2>5, <2>6, <2>7, <2>8, <2>9, <2>10 DEF IdRanges
<1>14. OneAnswerPerSnoop'
    <2>1. \A s \in ids : s \notin rspIn /\ s \notin snoopRespCounted
            /\ \A d \in datIn' : d.txnId # s
        <3> TAKE s \in ids
        <3>1. s \notin SnoopIds
            BY <1>9
        <3> QED BY <1>3, <1>4, <1>11, <3>1 DEF IInv, IdRanges, SnoopTablesAgree
    <2>2. \A m, n \in snpOut' : m.txnId = n.txnId => m = n
        <3>1. \A m \in snpOut : m.txnId \notin ids
            BY <1>9 DEF IInv, IdRanges
        <3> QED BY <1>2, <3>1 DEF IInv, OneAnswerPerSnoop
    <2>3. \A m \in snpOut' : m.txnId \notin rspIn' \cup snoopRespCounted'
        BY <1>2, <1>3, <1>5, <2>1 DEF IInv, OneAnswerPerSnoop
    <2>4. \A d \in datIn' :
              d.txnId \in SnoopIds' => /\ d.txnId \notin rspIn'
                                      /\ \A m \in snpOut' : m.txnId # d.txnId
        <3> TAKE d \in datIn'
        <3> HAVE d.txnId \in SnoopIds'
        <3>1. d.txnId \in SnoopIds
            BY <1>9, <2>1
        <3>2. d \in datIn
            BY <1>3, <1>4, <3>1, SnoopIdsAreNotL1Ids
        <3> QED BY <1>2, <1>3, <1>9, <3>1, <3>2 DEF IInv, OneAnswerPerSnoop
    <2> QED BY <1>3, <1>5, <2>2, <2>3, <2>4 DEF IInv, OneAnswerPerSnoop
<1>15. SnoopTablesAgree'
    <2>1. \A s \in DOMAIN snoopToOrig' :
              /\ snoopToOrig'[s] \in DOMAIN pending'
              /\ pending'[snoopToOrig'[s]].state = "WaitSnoopResp"
        BY <1>4, <1>5, <1>6, <1>8 DEF IInv, SnoopTablesAgree
    <2>2. snoopRespCounted' \subseteq DOMAIN snoopToOrig'
        BY <1>5 DEF IInv, SnoopTablesAgree
    <2> QED BY <2>1, <2>2 DEF SnoopTablesAgree
<1>16. \A s \in SnoopIds : Unanswered(s)' <=> Unanswered(s)
    <2> TAKE s \in SnoopIds
    <2>1. (\E m \in snpOut' : m.txnId = s) <=> (\E m \in snpOut : m.txnId = s)
        BY <1>2, <1>9
    <2>2. (\E m \in datIn' : m.txnId = s) <=> (\E m \in datIn : m.txnId = s)
        BY <1>3, <1>4, SnoopIdsAreNotL1Ids
    <2> QED BY <1>3, <1>5, <2>1, <2>2 DEF Unanswered
<1>17. ASSUME NEW k \in DOMAIN pending', pending'[k].state = "WaitSnoopResp"
       PROVE  pending'[k].pendingSnoopCount = Cardinality((UnansweredOf(k))')
    <2>1. CASE k = id
        <3>1. (UnansweredOf(k))' = ids
            <4>1. (SnoopIdsOf(k))' = ids
                BY <1>4, <1>5, <2>1 DEF SnoopIdsOf
            <4>2. \A s \in ids : Unanswered(s)'
                BY <1>2 DEF Unanswered
            <4> QED BY <4>1, <4>2 DEF UnansweredOf
        <3>2. Cardinality(ids) = count
            BY <1>2, <1>7, FS_Interval
        <3> QED BY <1>6, <1>8, <2>1, <3>1, <3>2
    <2>2. CASE k # id
        <3>1. k \in DOMAIN pending /\ pending'[k] = pending[k]
            BY <1>8, <2>2
        <3>2. (SnoopIdsOf(k))' = SnoopIdsOf(k) /\ SnoopIdsOf(k) \subseteq SnoopIds
            BY <1>5, <1>9, <2>2 DEF SnoopIdsOf, IInv, IdRanges
        <3>3. (UnansweredOf(k))' = UnansweredOf(k)
            BY <1>16, <3>2 DEF UnansweredOf
        <3> QED BY <1>3, <1>17, <3>1, <3>3 DEF IInv, SnoopAccounting, UnansweredOf
    <2> QED BY <2>1, <2>2
<1>18. SnoopAccounting'
    BY <1>17 DEF SnoopAccounting, UnansweredOf
<1> QED BY <1>12, <1>13, <1>14, <1>15, <1>18 DEF IInv

\* Every request keeps the invariant.
LEMMA RequestInv ==
    ASSUME IInv, NEW txn \in Requests, FreshId(txn), SnoopIdsLeft, Request(txn)
    PROVE  IInv'
<1>1. Stay \/ OpensMem(txn) \/ Awaits(txn) \/ Snoops(txn)
    BY RequestChannels DEF RequestMove
<1> QED BY <1>1, QuietRequestInv, SnoopingRequestInv

-----------------------------------------------------------------------------
(* The peers *)

\* Beats of one message have its id, and there is at least one.
LEMMA BeatFacts ==
    ASSUME NEW id \in Nat, NEW addr \in Addr, NEW d \in Data, NEW cause \in Nat
    PROVE  /\ Beat(id, addr, d, cause) \subseteq DataMsgs
           /\ \A m \in Beat(id, addr, d, cause) : m.txnId = id
           /\ Beat(id, addr, d, cause) # {}
<1>1. 1 \in 1 .. Beats
    BY BeatsAssumption
<1>2. Beat(id, addr, d, cause) \subseteq DataMsgs
    BY DEF Beat, DataMsgs
<1>3. \A m \in Beat(id, addr, d, cause) : m.txnId = id
    BY DEF Beat
<1>4. Beat(id, addr, d, cause) # {}
    BY <1>1 DEF Beat
<1> QED BY <1>2, <1>3, <1>4

\* While the engine rests and its snoops stay as answered as they were, its part
\* of the invariant holds.
LEMMA IdleKeepsAccount ==
    ASSUME IInv, EngineIdle,
           \A s \in SnoopIds : Unanswered(s)' <=> Unanswered(s)
    PROVE  SnoopTablesAgree' /\ SnoopAccounting'
<1>1. UNCHANGED <<pending, snoopToOrig, snoopRespCounted, fault>>
    BY DEF EngineIdle, tables
<1>2. \A k : (SnoopIdsOf(k))' = SnoopIdsOf(k) /\ SnoopIdsOf(k) \subseteq SnoopIds
    BY <1>1 DEF SnoopIdsOf, IInv, IdRanges
<1>3. \A k : (UnansweredOf(k))' = UnansweredOf(k)
    BY <1>2 DEF UnansweredOf
<1>4. SnoopTablesAgree'
    BY <1>1 DEF IInv, SnoopTablesAgree
<1>5. ASSUME fault' = "none", NEW k \in DOMAIN pending',
             pending'[k].state = "WaitSnoopResp"
      PROVE  pending'[k].pendingSnoopCount = Cardinality((UnansweredOf(k))')
    BY <1>1, <1>3, <1>5 DEF IInv, SnoopAccounting, UnansweredOf
<1>6. SnoopAccounting'
    BY <1>5 DEF SnoopAccounting, UnansweredOf
<1> QED BY <1>4, <1>6

\* Memory's answers and write data concern no snoop.
LEMMA OtherPeersInv ==
    ASSUME IInv, EngineIdle, snpOut' = snpOut,
           reqOut' \subseteq reqOut, dbidOut' \subseteq dbidOut,
           NEW id \in L1TxnIds \cup AnonymousIds \cup MemIds,
           rspIn' = rspIn \/ (id \in MemIds /\ rspIn' = rspIn \cup {id}),
           NEW msgs \in SUBSET DataMsgs, \A m \in msgs : m.txnId = id,
           datIn' = datIn \cup msgs
    PROVE  IInv'
<1>1. /\ UNCHANGED <<cache, pending, snoopToOrig, memToOrig, snoopRespCounted,
                     nextSnoopTxnId, nextInternalTxnId, fault, issued, completed,
                     evicts>>
      /\ SnoopIds' = SnoopIds /\ MemIds' = MemIds
    BY DEF EngineIdle, tables, counters, SnoopIds, MemIds
<1>2. id \notin SnoopIds
    BY SnoopIdsAreNotL1Ids
<1>3. id \in Nat
    BY IdsAssumption, AnonymousIdsAssumption
       DEF MemIds, IInv, TypeOK, EngineTypeOK
<1>4. TypeOK'
    BY <1>1, <1>3 DEF IInv, TypeOK, EngineTypeOK
<1>5. IdRanges'
    BY <1>1 DEF IInv, IdRanges
<1>6. OneAnswerPerSnoop'
    <2>1. \A m \in snpOut : m.txnId \in SnoopIds
        BY DEF IInv, IdRanges
    <2>2. snoopRespCounted \subseteq SnoopIds
        BY DEF IInv, IdRanges, SnoopTablesAgree
    <2> QED BY <1>1, <1>2, <2>1, <2>2 DEF IInv, OneAnswerPerSnoop
<1>7. \A s \in SnoopIds : Unanswered(s)' <=> Unanswered(s)
    BY <1>1, <1>2 DEF Unanswered
<1>8. SnoopTablesAgree' /\ SnoopAccounting'
    BY <1>7, IdleKeepsAccount
<1> QED BY <1>4, <1>5, <1>6, <1>8 DEF IInv

\* Memory's answer keeps the invariant.
LEMMA AnswerMemInv ==
    ASSUME IInv, NEW m \in reqOut, AnswerMemRequest(m)
    PROVE  IInv'
<1>1. m.txnId \in MemIds /\ m.addr \in Addr /\ m.txnId \in Nat
    BY IdsAssumption DEF IInv, IdRanges, MemIds, TypeOK, EngineTypeOK
<1>2. CASE \E d \in Data : datIn' = datIn \cup Beat(m.txnId, m.addr, d, m.txnId)
                 /\ rspIn' = rspIn
    <2>1. PICK d \in Data : datIn' = datIn \cup Beat(m.txnId, m.addr, d, m.txnId)
        BY <1>2
    <2>2. PICK beats : datIn' = datIn \cup beats /\ beats \in SUBSET DataMsgs
                         /\ \A b \in beats : b.txnId = m.txnId
        <3> DEFINE sent == Beat(m.txnId, m.addr, d, m.txnId)
        <3>1. sent \subseteq DataMsgs /\ \A b \in sent : b.txnId = m.txnId
            BY <1>1, BeatFacts
        <3>2. datIn' = datIn \cup sent
            BY <2>1
        <3> HIDE DEF sent
        <3> QED BY <3>1, <3>2
    <2>3. m.txnId \in L1TxnIds \cup AnonymousIds \cup MemIds
        BY <1>1
    <2>4. EngineIdle /\ snpOut' = snpOut /\ reqOut' \subseteq reqOut
            /\ dbidOut' \subseteq dbidOut
        BY DEF AnswerMemRequest
    <2> QED BY <1>2, <2>2, <2>3, <2>4, OtherPeersInv
<1>3. CASE rspIn' = rspIn \cup {m.txnId} /\ datIn' = datIn
    <2>1. datIn' = datIn \cup {}
        BY <1>3
    <2>2. m.txnId \in L1TxnIds \cup AnonymousIds \cup MemIds
        BY <1>1
    <2>3. EngineIdle /\ snpOut' = snpOut /\ reqOut' \subseteq reqOut
            /\ dbidOut' \subseteq dbidOut
        BY DEF AnswerMemRequest
    <2>4. {} \in SUBSET DataMsgs /\ \A b \in {} : b.txnId = m.txnId
        OBVIOUS
    <2> QED BY <1>1, <1>3, <2>1, <2>2, <2>3, <2>4, OtherPeersInv
<1> QED BY <1>2, <1>3 DEF AnswerMemRequest

\* Write data sent by an RN-F keeps the invariant.
LEMMA SendWriteDataInv ==
    ASSUME IInv, NEW m \in dbidOut, SendWriteData(m)
    PROVE  IInv'
<1>1. m.txnId \in L1TxnIds /\ m.addr \in Addr /\ m.txnId \in Nat
    BY IdsAssumption DEF IInv, IdRanges
<1>2. PICK id \in {m.txnId} \cup AnonymousIds, d \in Data :
          datIn' = datIn \cup Beat(id, m.addr, d, m.txnId)
    BY DEF SendWriteData
<1>3. id \in Nat
    BY <1>1, AnonymousIdsAssumption
<1>4. PICK beats : datIn' = datIn \cup beats /\ beats \in SUBSET DataMsgs
                     /\ \A b \in beats : b.txnId = id
    BY <1>1, <1>2, <1>3, BeatFacts
<1>5. id \in L1TxnIds \cup AnonymousIds \cup MemIds
    BY <1>1
<1>6. EngineIdle /\ snpOut' = snpOut /\ reqOut' \subseteq reqOut
        /\ dbidOut' \subseteq dbidOut /\ rspIn' = rspIn
    BY DEF SendWriteData
<1> QED BY <1>4, <1>5, <1>6, OtherPeersInv

\* An RN-F's answer to a snoop keeps the invariant: the snoop stays unanswered
\* until the engine has seen the answer.
LEMMA AnswerSnoopInv ==
    ASSUME IInv, NEW m \in snpOut, AnswerSnoop(m)
    PROVE  IInv'
<1> DEFINE id == m.txnId
<1>1. id \in SnoopIds /\ m.addr \in Addr /\ id \in Nat
    BY IdsAssumption DEF IInv, IdRanges, SnoopIds, TypeOK, EngineTypeOK
<1>2. /\ UNCHANGED <<cache, pending, snoopToOrig, memToOrig, snoopRespCounted,
                     nextSnoopTxnId, nextInternalTxnId, fault, issued, completed,
                     evicts, reqOut, dbidOut>>
      /\ SnoopIds' = SnoopIds /\ MemIds' = MemIds
      /\ snpOut' = snpOut \ {m} /\ EngineIdle
    BY DEF AnswerSnoop, EngineIdle, tables, counters, SnoopIds, MemIds
<1>3. /\ id \notin rspIn /\ id \notin snoopRespCounted
      /\ \A d \in datIn : d.txnId # id
      /\ \A n \in snpOut' : n.txnId # id
    BY <1>1, <1>2 DEF IInv, OneAnswerPerSnoop
<1>4. CASE rspIn' = rspIn \cup {id} /\ datIn' = datIn
    <2>1. TypeOK'
        BY <1>1, <1>2, <1>4 DEF IInv, TypeOK, EngineTypeOK
    <2>2. IdRanges'
        BY <1>1, <1>2, <1>4 DEF IInv, IdRanges
    <2>3. OneAnswerPerSnoop'
        BY <1>2, <1>3, <1>4 DEF IInv, OneAnswerPerSnoop
    <2>4. \A s \in SnoopIds : Unanswered(s)' <=> Unanswered(s)
        BY <1>2, <1>4 DEF Unanswered
    <2> QED BY <1>2, <2>1, <2>2, <2>3, <2>4, IdleKeepsAccount DEF IInv
<1>5. CASE \E d \in Data : datIn' = datIn \cup Beat(id, m.addr, d, id)
                 /\ rspIn' = rspIn
    <2>1. PICK d \in Data : datIn' = datIn \cup Beat(id, m.addr, d, id)
        BY <1>5
    <2> DEFINE beats == Beat(id, m.addr, d, id)
    <2>2. beats \subseteq DataMsgs /\ beats # {} /\ \A b \in beats : b.txnId = id
        BY <1>1, BeatFacts
    <2> HIDE DEF beats
    <2>3. datIn' = datIn \cup beats
        BY <2>1 DEF beats
    <2>4. TypeOK'
        BY <1>1, <1>2, <1>5, <2>2, <2>3 DEF IInv, TypeOK, EngineTypeOK
    <2>5. IdRanges'
        BY <1>1, <1>2, <1>5, <2>2, <2>3 DEF IInv, IdRanges
    <2>6. OneAnswerPerSnoop'
        BY <1>2, <1>3, <1>5, <2>2, <2>3 DEF IInv, OneAnswerPerSnoop
    <2>7. \A s \in SnoopIds : Unanswered(s)' <=> Unanswered(s)
        BY <1>2, <1>3, <1>5, <2>2, <2>3 DEF Unanswered
    <2> QED BY <1>2, <2>4, <2>5, <2>6, <2>7, IdleKeepsAccount DEF IInv
<1> QED BY <1>4, <1>5 DEF AnswerSnoop

-----------------------------------------------------------------------------
(* The theorems *)

\* The initial state satisfies the invariant.
LEMMA InitIInv == Init => IInv
<1> SUFFICES ASSUME Init PROVE IInv
    OBVIOUS
<1>1. /\ cache = EmptyCache /\ pending = <<>> /\ snoopToOrig = <<>>
      /\ memToOrig = <<>> /\ snoopRespCounted = {}
      /\ nextSnoopTxnId = SnoopIdBase /\ nextInternalTxnId = MemIdBase
      /\ fault = "none" /\ issued = {} /\ completed = {}
      /\ snpOut = {} /\ reqOut = {} /\ dbidOut = {} /\ rspIn = {} /\ datIn = {}
      /\ evicts = 0
    BY DEF Init, EngineInit
<1>2. DOMAIN pending = {} /\ DOMAIN snoopToOrig = {} /\ DOMAIN memToOrig = {}
    BY <1>1
<1>3. EmptyCache \in Caches
    <2>1. ClearedLine \in CacheLine
        BY DataAssumption DEF ClearedLine, CacheLine, LineState
    <2>2. EmptySet \in CacheSets
        BY <2>1 DEF EmptySet, CacheSets
    <2> QED BY <2>2 DEF EmptyCache, Caches
<1>4. TypeOK
    BY <1>1, <1>2, <1>3, IdsAssumption DEF TypeOK, EngineTypeOK
<1>5. IdRanges
    BY <1>1, <1>2, IdsAssumption, DisjointIdsAssumption DEF IdRanges
<1>6. OneAnswerPerSnoop /\ SnoopTablesAgree /\ SnoopAccounting
    BY <1>1, <1>2 DEF OneAnswerPerSnoop, SnoopTablesAgree, SnoopAccounting
<1> QED BY <1>4, <1>5, <1>6 DEF IInv

\* Every step keeps the invariant.
LEMMA NextIInv == IInv /\ [Next]_vars => IInv'
<1> SUFFICES ASSUME IInv, [Next]_vars PROVE IInv'
    OBVIOUS
<1>1. CASE NewRequest
    BY <1>1, RequestInv DEF NewRequest
<1>2. CASE \E addr \in Addrs : Evict(addr)
    BY <1>2, EvictInv
<1>3. CASE \E addr \in Addrs, data \in Data : FunctionalWrite(addr, data)
    BY <1>3, FunctionalWriteInv
<1>4. CASE Deliver
    BY <1>4, AnswerSnoopInv, AnswerMemInv, SendWriteDataInv, DeliverDataInv,
       DeliverResponseInv DEF Deliver
<1>5. CASE UNCHANGED vars
    BY <1>5 DEF vars, engineVars, channels, tables, counters, IInv, TypeOK,
                EngineTypeOK, IdRanges, SnoopIds, MemIds, OneAnswerPerSnoop,
                SnoopTablesAgree, SnoopAccounting, SnoopIdsOf, Unanswered
<1> QED BY <1>1, <1>2, <1>3, <1>4, <1>5 DEF Next

\* IInv is an invariant of the system.
LEMMA SystemInvariant == Spec => []IInv
BY InitIInv, NextIInv, PTL DEF Spec

\* The engine's maps, counters and cache keep their types, and so do the requests
\* made and the data and responses on their way to the engine.
THEOREM TypeCorrect == Spec => []TypeOK
<1>1. IInv => TypeOK
    BY DEF IInv
<1> QED BY <1>1, SystemInvariant, PTL

\* The engine's tables agree after any interleaving of requests, snoop answers,
\* memory answers, write data and evictions: no snoop id leads to a transaction
\* that is gone, and no counted response belongs to a snoop that is.
THEOREM TablesAgree == Spec => []SnoopTablesAgree
<1>1. IInv => SnoopTablesAgree
    BY DEF IInv
<1> QED BY <1>1, SystemInvariant, PTL

\* The count that completePending waits for is exact: however many RN-Fs, beats
\* and transactions there are, it is the number of snoops not yet answered.
THEOREM SnoopsAccountedFor == Spec => []SnoopAccounting
<1>1. IInv => SnoopAccounting
    BY DEF IInv
<1> QED BY <1>1, SystemInvariant, PTL
=============================================================================
