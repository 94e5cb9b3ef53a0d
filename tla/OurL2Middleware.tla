--------------------------- MODULE OurL2Middleware ---------------------------
(***************************************************************************)
(* The gem5 controller around the engine (our_l2_middleware.cc): messages  *)
(* that come in are handed to the engine, its actions are sent, and what   *)
(* finds its output buffer full waits in the trigger queue for a retry.    *)
(*                                                                         *)
(* A wakeup is one event of the simulator.  It takes what is ready from    *)
(* the response, data and request ports, in that order, and then retries   *)
(* the trigger queue; nothing else moves meanwhile, so no buffer drains.   *)
(* port is the port the wakeup has come to.  (The snoop port receives      *)
(* nothing: there is one home node.)                                       *)
(*                                                                         *)
(* The RN-Fs and memory are external: they take messages from the output   *)
(* buffers in order and put their answers in flight.                       *)
(***************************************************************************)
EXTENDS Gem5Messages, SequencesExt

CONSTANTS
    Addrs,          \* the line addresses requested
    RequestTypes,   \* the gem5 request types the RN-Fs send
    Capacity        \* messages an output buffer holds

ASSUME AddrsAssumption == Addrs \subseteq Addr
ASSUME RequestTypesAssumption ==
    RequestTypes \subseteq DOMAIN Gem5ToOpcode \cup {"Evict"}
ASSUME CapacityAssumption == Capacity \in Nat \ {0}
\* The snoop ids do not reach the memory ids.
ASSUME EnoughIdsAssumption ==
    /\ IsFiniteSet(L1TxnIds)
    /\ \A id \in L1TxnIds : id < SnoopIdBase
    /\ SnoopIdBase + Cardinality(L1TxnIds) * Cardinality(Nodes) <= MemIdBase

VARIABLES
    out,            \* the output buffers, one for each channel
    triggerQueue,   \* triggerQueue_: messages waiting for a retry
    scheduled,      \* a wakeup is scheduled for a retry
    port,           \* the input port of the wakeup going on, or Asleep
    issued,         \* the requests the RN-Fs have sent
    got,            \* the completions the RN-Fs have received: <<id, beat>>
    atMemory,       \* writes memory has received, in part, and not acknowledged
    reqIn,          \* requests on their way to the L2
    rspIn,          \* responses on their way to the L2
    datIn           \* data messages on their way to the L2

sending == <<out, triggerQueue>>
incoming == <<reqIn, rspIn, datIn>>
peers == <<issued, got, atMemory>>
vars == <<engineVars, sending, scheduled, port, peers, incoming>>

Asleep == 0
RspPort == 1
DatPort == 2
ReqPort == 3

Requests == [type : RequestTypes, addr : Addrs, srcNodeID : Nodes, txnID : L1TxnIds]

Init ==
    /\ EngineInit
    /\ out = [c \in Channel |-> <<>>]
    /\ triggerQueue = <<>>
    /\ scheduled = FALSE
    /\ port = Asleep
    /\ issued = {} /\ got = {} /\ atMemory = {}
    /\ reqIn = {} /\ rspIn = {} /\ datIn = {}

-----------------------------------------------------------------------------
(* Sending *)

\* Mutant: off by one.
HasRoomForOneMore(buffers, m) == Len(buffers[m.channel]) <= Capacity

HasRoom(buffers, m) == Len(buffers[m.channel]) < Capacity

\* Mutant: what finds no room is forgotten.
TrySendOnce(s, m) ==
    IF HasRoom(s.out, m)
    THEN [out |-> [s.out EXCEPT ![m.channel] = Append(@, m)], queue |-> s.queue]
    ELSE s

\* Mutant: a message that waits is put before those that wait already.
TrySendToFront(s, m) ==
    IF HasRoom(s.out, m)
    THEN [out |-> [s.out EXCEPT ![m.channel] = Append(@, m)], queue |-> s.queue]
    ELSE [out |-> s.out, queue |-> <<m>> \o s.queue]

\* trySend*: into the output buffer or, when that is full, into the trigger queue.
TrySend(s, m) ==
    IF HasRoom(s.out, m)
    THEN [out |-> [s.out EXCEPT ![m.channel] = Append(@, m)], queue |-> s.queue]
    ELSE [out |-> s.out, queue |-> Append(s.queue, m)]

\* The messages of one action, one after the other: here and below a recursive
\* function rather than a fold, which the provers can take apart.
SendAll(buffers, messages) ==
    LET sent[k \in 0 .. Len(messages)] ==
            IF k = 0 THEN buffers ELSE TrySend(sent[k - 1], messages[k])
    IN sent[Len(messages)]

Buffers == [out |-> out, queue |-> triggerQueue]

Send(messages) ==
    LET s == SendAll(Buffers, messages)
    IN out' = s.out /\ triggerQueue' = s.queue

\* All that the engine's call has returned, in its order.
ExecuteActions ==
    LET executed[k \in 0 .. Len(actions')] ==
            IF k = 0 THEN Buffers
            ELSE SendAll(executed[k - 1], MessagesOf(actions'[k]))
        s == executed[Len(actions')]
    IN out' = s.out /\ triggerQueue' = s.queue

\* processTriggerQueue stops at the first message that still finds no room.
Retry(s, m) ==
    IF s.queue = <<>> /\ HasRoom(s.out, m)
    THEN [out |-> [s.out EXCEPT ![m.channel] = Append(@, m)], queue |-> s.queue]
    ELSE [out |-> s.out, queue |-> Append(s.queue, m)]

RetryAll(messages) ==
    LET retried[k \in 0 .. Len(messages)] ==
            IF k = 0 THEN [out |-> out, queue |-> <<>>]
            ELSE Retry(retried[k - 1], messages[k])
    IN retried[Len(messages)]

\* Mutant: it returns whether something was sent.
RetriesSent(before, after) == after # before

\* It returns that something was sent or is left, in which case it runs again.
RetriesPending(before, after) == after # before \/ after # <<>>

-----------------------------------------------------------------------------
(* A wakeup *)

\* The wakeup comes to port p; the ports before it are done with.
Reach(p) ==
    /\ fault = "none"
    /\ port <= p
    /\ port' = p

DequeueRequest(r) ==
    /\ Reach(ReqPort)
    /\ reqIn' = reqIn \ {r}
    /\ UNCHANGED <<rspIn, datIn>>

DequeueData(m) ==
    /\ Reach(DatPort)
    /\ datIn' = datIn \ {m}
    /\ UNCHANGED <<reqIn, rspIn>>

DequeueResponse(m) ==
    /\ Reach(RspPort)
    /\ rspIn' = rspIn \ {m}
    /\ UNCHANGED <<reqIn, datIn>>

TxnOf(r) == [opcode |-> Gem5ToOpcode[r.type], addr |-> r.addr,
             srcNodeID |-> r.srcNodeID, txnID |-> r.txnID]

\* An Evict drops the line and is answered by the middleware itself.
RecvRequestMsg(r) ==
    /\ DequeueRequest(r)
    /\ UNCHANGED <<scheduled, peers>>
    /\ \/ /\ r.type = "Evict"
          /\ InvalidateLine(r.addr)
          /\ Send(SendComp("Comp_I", Comp(r)))
       \/ /\ r.type # "Evict"
          /\ RecvRequest(TxnOf(r))
          /\ ExecuteActions

RecvDataMsg(m) ==
    /\ DequeueData(m)
    /\ UNCHANGED <<scheduled, peers>>
    /\ RecvData(m.txnId, m.addr, m.data)
    /\ ExecuteActions

\* A CompAck is consumed silently.
RecvResponseMsg(m) ==
    /\ DequeueResponse(m)
    /\ UNCHANGED <<scheduled, peers>>
    /\ \/ /\ m.type = "CompAck"
          /\ UNCHANGED <<engineVars, sending>>
       \/ /\ m.type # "CompAck"
          /\ RecvResponse(m.txnId)
          /\ ExecuteActions

\* The wakeup that was scheduled for a retry.
RetryWakeup ==
    /\ fault = "none"
    /\ port = Asleep /\ scheduled
    /\ port' = RspPort
    /\ scheduled' = FALSE
    /\ UNCHANGED <<engineVars, sending, peers, incoming>>

\* Nothing more is ready: retry what waits, and come again if there was any.
ProcessTriggerQueue ==
    /\ fault = "none"
    /\ port # Asleep
    /\ port' = Asleep
    /\ LET s == RetryAll(triggerQueue)
       IN /\ out' = s.out
          /\ triggerQueue' = s.queue
          /\ scheduled' = (scheduled \/ RetriesPending(triggerQueue, s.queue))
    /\ UNCHANGED <<engineVars, peers, incoming>>

Wakeup ==
    \/ \E r \in reqIn : RecvRequestMsg(r)
    \/ \E m \in datIn : RecvDataMsg(m)
    \/ \E m \in rspIn : RecvResponseMsg(m)
    \/ RetryWakeup
    \/ ProcessTriggerQueue

\* A debug write of the simulated program's memory image.
FunctionalWrite(addr, data) ==
    /\ fault = "none"
    /\ port = Asleep
    /\ Present(cache, addr)
    /\ cache' = WriteData(cache, addr, data)
    /\ actions' = <<>>
    /\ UNCHANGED <<tables, counters, fault, sending, scheduled, port, peers, incoming>>

-----------------------------------------------------------------------------
(* The peers *)

\* The writes that give a line back.
WriteBackTypes == {"WriteBackFull", "WriteCleanFull", "WriteEvictFull"}

IsWrite(r) == r.type \in DOMAIN Gem5ToOpcode /\ Gem5ToOpcode[r.type] \in WriteOps

\* An RN-F is done with a request once it has its response or all of its data.
Finished(r) ==
    \/ <<r.txnID, 0>> \in got
    \/ \A b \in 1 .. Beats : <<r.txnID, b>> \in got

\* An RN-F uses a fresh id, has one request at a time for a line, and gives back
\* only a line that it was granted.
SendRequest(r) ==
    /\ fault = "none"
    /\ port = Asleep
    /\ \A earlier \in issued : earlier.txnID # r.txnID
    /\ \A earlier \in issued :
          (earlier.srcNodeID = r.srcNodeID /\ earlier.addr = r.addr)
              => Finished(earlier)
    /\ r.type \in WriteBackTypes \cup {"Evict"} =>
          \E earlier \in issued :
              /\ earlier.srcNodeID = r.srcNodeID
              /\ earlier.addr = r.addr
              /\ earlier.type \notin {"Evict", "ReadOnce"} /\ ~IsWrite(earlier)
    /\ issued' = issued \cup {r}
    /\ reqIn' = reqIn \cup {r}
    /\ UNCHANGED <<engineVars, sending, scheduled, port, got, atMemory, rspIn, datIn>>

\* cause, which the middleware does not see, is the id that the data answers.
DataFor(action, data) ==
    {[txnId |-> action.txnId, addr |-> action.addr, data |-> data, beat |-> b,
      cause |-> action.txnId] : b \in 1 .. Beats}

Response(type, id) == [type |-> type, txnId |-> id]

\* An RN-F receives a response or a beat; it acknowledges what gave it the line.
ReceiveCompletion(m) ==
    /\ m.action.type \in {"SendComp", "SendCompData"}
    /\ got' = got \cup {<<m.action.txnId, m.beat>>}
    /\ rspIn' = IF m.type # "Comp_I" /\ m.beat \in {0, Beats}
                THEN rspIn \cup {Response("CompAck", m.action.txnId)}
                ELSE rspIn
    /\ UNCHANGED <<actions, atMemory, datIn>>

\* An RN-F answers a snoop with the line, or without it where it may.
AnswerSnoop(m) ==
    /\ m.channel = "snp"
    /\ actions' = <<>>
    /\ \/ /\ \E d \in Data : datIn' = datIn \cup DataFor(m.action, d)
          /\ UNCHANGED rspIn
       \/ /\ ~m.action.retToSrc
          /\ rspIn' = rspIn \cup {Response("SnpResp", m.action.txnId)}
          /\ UNCHANGED datIn
    /\ UNCHANGED <<got, atMemory>>

SendWriteData(m) ==
    /\ m.type = "CompDBIDResp"
    /\ actions' = <<>>
    /\ \E d \in Data : datIn' = datIn \cup DataFor(m.action, d)
    /\ got' = got \cup {<<m.action.txnId, 0>>}
    /\ UNCHANGED <<atMemory, rspIn>>

AnswerRead(m) ==
    /\ m.type = "ReadNoSnp"
    /\ actions' = <<>>
    /\ \E d \in Data : datIn' = datIn \cup DataFor(m.action, d)
    /\ UNCHANGED <<got, atMemory, rspIn>>

\* Memory takes a write and its data in either order.
CollectWrite(m) ==
    /\ m.action.type = "SendWriteNoSnp"
    /\ atMemory' = atMemory \cup {m}
    /\ UNCHANGED <<actions, got, rspIn, datIn>>

\* The network hands the oldest message of a channel to its peer.
Take(c) ==
    /\ fault = "none"
    /\ port = Asleep
    /\ out[c] # <<>>
    /\ out' = [out EXCEPT ![c] = Tail(@)]
    /\ LET m == Head(out[c])
       IN \/ ReceiveCompletion(m)
          \/ AnswerSnoop(m)
          \/ SendWriteData(m)
          \/ AnswerRead(m)
          \/ CollectWrite(m)
    /\ UNCHANGED <<cache, tables, counters, fault, triggerQueue, scheduled, port,
                   issued, reqIn>>

\* A write is acknowledged when all of it has come.
AcknowledgeWrite(id) ==
    /\ fault = "none"
    /\ port = Asleep
    /\ LET write == {m \in atMemory : m.action.txnId = id}
       IN /\ Cardinality(write) = Beats + 1
          /\ atMemory' = atMemory \ write
    /\ rspIn' = rspIn \cup {Response("Comp", id)}
    /\ actions' = <<>>
    /\ UNCHANGED <<cache, tables, counters, fault, sending, scheduled, port, issued,
                   got, reqIn, datIn>>

Acknowledge == \E m \in atMemory : AcknowledgeWrite(m.action.txnId)

Next ==
    \/ Wakeup
    \/ \E c \in Channel : Take(c)
    \/ Acknowledge
    \/ \E r \in Requests : SendRequest(r)
    \/ \E addr \in Addrs, data \in Data : FunctionalWrite(addr, data)

Spec == Init /\ [][Next]_vars

\* The simulator delivers what is in flight, runs a wakeup that is scheduled and
\* ends one that has begun; memory acknowledges; and the network, which has a
\* wakeup of its own in every cycle, takes what it is given.  (No handler refuses
\* a message, so the arrival is fair, whatever is then done.)
Arrival ==
    \/ \E r \in reqIn : DequeueRequest(r)
    \/ \E m \in datIn : DequeueData(m)
    \/ \E m \in rspIn : DequeueResponse(m)

Fairness ==
    /\ WF_incoming(Arrival)
    /\ WF_vars(RetryWakeup \/ ProcessTriggerQueue)
    /\ WF_vars(Acknowledge)
    /\ SF_vars(\E c \in Channel : Take(c))

FairSpec == Spec /\ Fairness

-----------------------------------------------------------------------------
Carried == ToSet(triggerQueue) \cup UNION {ToSet(out[c]) : c \in Channel}

CarriedActions(types) ==
    {m.action : m \in {n \in Carried : n.type # "Comp_I" /\ n.action.type \in types}}

TypeOK ==
    /\ EngineTypeOK
    /\ scheduled \in BOOLEAN
    /\ port \in {Asleep, RspPort, DatPort, ReqPort}
    /\ issued \subseteq Requests
    /\ reqIn \subseteq issued
    /\ got \subseteq L1TxnIds \X (0 .. Beats)
    /\ \A c \in Channel :
          Len(out[c]) <= Capacity /\ \A m \in ToSet(out[c]) : m.channel = c

\* No message waits for a retry that nothing will make: between wakeups the queue
\* is empty or a wakeup is scheduled (the value that processTriggerQueue returns).
NoStrandedRetry == port = Asleep /\ triggerQueue # <<>> => scheduled

\* The beats of a line leave in their order, whichever of them had to wait: an RN-F
\* takes the last one for the end of the line.
BeatsInOrder ==
    \A id \in L1TxnIds, b \in 1 .. Beats :
        <<id, b>> \in got => \A a \in 1 .. b : <<id, a>> \in got

\* What waits for a retry is sent in the end, whatever other channels do.
RetriesEnd == triggerQueue # <<>> ~> triggerQueue = <<>> \/ fault # "none"

\* Every request is answered in the end and every write-back's data is taken, by
\* whatever buffers, retries, snoops and memory it has to go; only a failed
\* assertion prevents it.
RequestsFinish ==
    \A id \in L1TxnIds :
        (\E r \in issued : r.txnID = id)
            ~> \/ fault # "none"
               \/ /\ \A r \in issued : r.txnID = id => Finished(r)
                  /\ id \notin DOMAIN pending

-----------------------------------------------------------------------------
(* With room or without, direct or retried, the messages arrive: the engine sees *)
(* a network of unordered channels that neither lose nor repeat.                 *)

\* The requests the engine has seen, and those among them that it was given.
Received == issued \ reqIn

ReceivedTxns == {TxnOf(r) : r \in {q \in Received : q.type # "Evict"}}

EvictsSeen == Cardinality({r \in Received : r.type = "Evict"})

\* A completion counts as sent as soon as the engine has returned it.
AnsweredIds ==
    {a.txnId : a \in CarriedActions({"SendComp", "SendCompData"})}
        \cup {r.txnID : r \in {q \in issued :
                /\ q.type # "Evict" /\ ~IsWrite(q)
                /\ \E b \in 0 .. Beats : <<q.txnID, b>> \in got}}

\* A write is with memory until it is acknowledged.
MemRequestsOut ==
    CarriedActions({"SendReadNoSnp"})
        \cup {m.action : m \in {n \in Carried \cup atMemory :
                                  n.action.type = "SendWriteNoSnp"}}

ResponsesIn == {m.txnId : m \in {n \in rspIn : n.type # "CompAck"}}

System == INSTANCE ChiL2System WITH
    Opcodes <- {Gem5ToOpcode[t] : t \in RequestTypes \ {"Evict"}},
    AnonymousIds <- {},
    SilentAnswers <- "never",
    GrantedOps <-
        {op \in WriteOps : \A t \in RequestTypes \ {"Evict"} :
                              Gem5ToOpcode[t] = op => t \in WriteBackTypes},
    MaxEvicts <- Cardinality(L1TxnIds),
    issued <- ReceivedTxns,
    completed <- AnsweredIds,
    snpOut <- CarriedActions(SnoopTypes),
    reqOut <- MemRequestsOut,
    dbidOut <- CarriedActions({"SendCompDBIDResp"}),
    rspIn <- ResponsesIn,
    evicts <- EvictsSeen

\* Every behaviour of the middleware, its buffers and its trigger queue is one of
\* ChiL2System, for which the engine's properties are checked and proved.
ImplementsSystem == System!Spec
=============================================================================
