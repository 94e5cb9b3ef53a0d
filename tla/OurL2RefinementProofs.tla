-------------------------- MODULE OurL2RefinementProofs --------------------------
(***************************************************************************)
(* The middleware implements ChiL2System: every behaviour of the buffers,  *)
(* the trigger queue and the ports is one of the engine between unordered  *)
(* channels, for any capacity, number of beats, RN-Fs, lines and requests. *)
(*                                                                         *)
(* Its channels lose nothing because MInv of OurL2MiddlewareProofs says    *)
(* that buffers and queue together carry what was sent.  They repeat       *)
(* nothing because of RInv: a message whose receiver owes one answer is in *)
(* one place only.  A retry could not tell such a message that waits twice *)
(* from one that waits once, so RInv needs that no id is used twice, and   *)
(* therefore that snoop ids do not reach the memory ids, that requests are *)
(* in turn, and that each entry is for a request that was received.        *)
(*                                                                         *)
(* Then each step of the middleware is matched to one of ChiL2System: a    *)
(* call of the engine to its delivery, what a peer takes to its answer,    *)
(* and what is put in a buffer, waits or is retried to no step at all.     *)
(***************************************************************************)
EXTENDS OurL2MiddlewareProofs, FiniteSetTheorems

-----------------------------------------------------------------------------
(* What is owed is in one place *)

\* The actions whose receiver owes an answer for each.
MemTypes == {"SendReadNoSnp", "SendWriteNoSnp"}
OwedTypes == SnoopTypes \cup MemTypes \cup {"SendCompDBIDResp"}
Owed(m) == m.action.type \in OwedTypes

\* An owed message is at one place in q only.
OnceIn(q) == \A i, j \in DOMAIN q : q[i] = q[j] /\ Owed(q[i]) => i = j

\* It is in one place of one buffer, or of the queue.
Once(s) ==
    /\ \A c \in Channel : OnceIn(s.out[c])
    /\ OnceIn(s.queue)
    /\ \A c \in Channel : \A i \in DOMAIN s.out[c], j \in DOMAIN s.queue :
          s.out[c][i] = s.queue[j] => ~Owed(s.queue[j])

-----------------------------------------------------------------------------
(* The inductive invariant *)

\* The requests that the engine answers with a completion.
IsRead(r) == r.type # "Evict" /\ ~IsWrite(r)

\* What is carried bears an id in use.
Current(m) ==
    LET a == m.action
    IN /\ a.type \in SnoopTypes => a.txnId \in SnoopIdBase .. nextSnoopTxnId - 1
       /\ a.type \in MemTypes => a.txnId \in MemIdBase .. nextInternalTxnId - 1
       /\ a.type = "SendCompDBIDResp" =>
             /\ \E q \in Received : IsWrite(q) /\ a = CompDBIDResp(TxnOf(q))
             /\ \A p \in got : p[1] # a.txnId
       /\ a.type \in {"SendComp", "SendCompData"} =>
             \E q \in Received :
                /\ q.txnID = a.txnId
                /\ IF m.type = "Comp_I" THEN q.type = "Evict" ELSE IsRead(q)

\* A write is with memory in part, or still carried, and never both.
WithMemory ==
    \A m \in atMemory :
        /\ Formed(m) /\ Current(m)
        /\ m.action.type = "SendWriteNoSnp"
        /\ m \notin Carried

\* An id stands for one read or write of memory.
OneActionPerId ==
    \A m, n \in Carried \cup atMemory :
        (/\ m.action.type \in MemTypes /\ n.action.type \in MemTypes
         /\ m.action.txnId = n.action.txnId) => m.action = n.action

\* A response and an acknowledgement never bear the same id.
ResponsesApart ==
    \A m \in rspIn :
        /\ m = Response(m.type, m.txnId)
        /\ m.type \in {"CompAck", "SnpResp", "Comp"}
        /\ m.type = "SnpResp" => m.txnId \in 0 .. MemIdBase - 1
        /\ m.type = "Comp" => m.txnId \in Nat \ (0 .. MemIdBase - 1)

\* An RN-F's request is the first under its id and for its line, and only what the
\* engine has seen is answered.
RequestsInTurn ==
    /\ \A q, r \in issued : q.txnID = r.txnID => q = r
    /\ \A p \in got : \E q \in Received : q.txnID = p[1]
    /\ \A r \in reqIn : \A q \in issued \ {r} :
          (q.srcNodeID = r.srcNodeID /\ q.addr = r.addr) => Finished(q)
    /\ \A r \in reqIn : r.type \in WriteBackTypes =>
          \E q \in issued : /\ q.srcNodeID = r.srcNodeID /\ q.addr = r.addr
                            /\ IsRead(q) /\ q.type # "ReadOnce"

\* An entry is for a request that the engine has seen, and waits for write data if
\* that is a write; only reads are snooped for.
EntriesOfRequests ==
    /\ \A k \in DOMAIN pending :
          \E q \in Received :
             /\ q.type # "Evict"
             /\ pending[k].origReq = TxnOf(q)
             /\ pending[k].state # "WaitL1Data" => ~IsWrite(q)
             /\ k = q.txnID \/ k >= MemIdBase
    /\ \A s \in DOMAIN snoopToOrig :
          \E q \in Received : IsRead(q) /\ q.txnID = snoopToOrig[s]

\* A request takes at most as many snoop ids as there are RN-Fs.
IdsCounted ==
    /\ nextSnoopTxnId <= SnoopIdBase + Cardinality(Received) * Cardinality(Nodes)
    /\ nextSnoopTxnId >= SnoopIdBase
    /\ nextInternalTxnId >= MemIdBase

RInv ==
    /\ Once(Buffers)
    /\ \A m \in Carried : Current(m)
    /\ WithMemory
    /\ OneActionPerId
    /\ ResponsesApart
    /\ RequestsInTurn
    /\ EntriesOfRequests
    /\ IdsCounted

\* Mostly: what is put at the end of q was not in q.
LEMMA ExtendedOnce ==
    ASSUME NEW q, NEW r, NEW m, Extended(q, r, m), OnceIn(q),
           Owed(m) => \A i \in DOMAIN q : q[i] # m
    PROVE  OnceIn(r)
<1> SUFFICES ASSUME NEW i \in DOMAIN r, NEW j \in DOMAIN r, r[i] = r[j], Owed(r[i])
             PROVE  i = j
    BY DEF OnceIn
<1>1. PICK n \in Nat : n = Len(q) /\ DOMAIN q = 1 .. n /\ DOMAIN r = 1 .. n + 1
    BY DEF Extended
<1>2. r[n + 1] = m /\ \A k \in 1 .. n : r[k] = q[k]
    BY <1>1 DEF Extended
<1>3. CASE i \in 1 .. n /\ j \in 1 .. n
    BY <1>1, <1>2, <1>3 DEF OnceIn
<1>4. CASE i = n + 1 /\ j \in 1 .. n
    BY <1>1, <1>2, <1>4
<1>5. CASE j = n + 1 /\ i \in 1 .. n
    BY <1>1, <1>2, <1>5
<1> QED BY <1>1, <1>3, <1>4, <1>5

\* A message that is put somewhere is in one place if it was nowhere before.
LEMMA PutOnce ==
    ASSUME NEW M, NEW s \in Flows(M), NEW t \in Flows(M), NEW m \in M,
           m.channel \in Channel, Sound(s), Puts(s, t, m), Once(s),
           Owed(m) => ~Carries(s, m)
    PROVE  Once(t)
<1>1. CASE Buffered(s, t, m)
    <2>1. PICK c \in Channel : c = m.channel
        OBVIOUS
    <2>2. PICK q \in Seq(M) : q = s.out[c]
        BY <2>1 DEF Flows
    <2>3. /\ \A d \in Channel : t.out[d] = IF d = c THEN Append(q, m) ELSE s.out[d]
          /\ t.queue = s.queue
        BY <1>1, <2>1, <2>2 DEF Buffered, Flows
    <2>4. PICK r : r = Append(q, m) /\ Extended(q, r, m)
        BY Appended
    <2>5. t.out[c] = r /\ \A d \in Channel \ {c} : t.out[d] = s.out[d]
        BY <2>3, <2>4
    <2>6. Owed(m) => /\ \A i \in DOMAIN q : q[i] # m
                     /\ \A j \in DOMAIN s.queue : s.queue[j] # m
        BY <2>2 DEF Carries, InBuffer, InQueue
    <2>7. OnceIn(q) /\ OnceIn(s.queue)
        BY <2>2 DEF Once
    <2>8. OnceIn(r)
        BY ONLY <2>4, <2>6, <2>7, ExtendedOnce
    <2>9. ASSUME NEW i \in DOMAIN r, NEW j \in DOMAIN s.queue, r[i] = s.queue[j]
          PROVE  ~Owed(s.queue[j])
        <3>1. CASE i \in 1 .. Len(q)
            <4>1. i \in DOMAIN s.out[c] /\ s.out[c][i] = s.queue[j]
                BY <2>2, <2>4, <2>9, <3>1 DEF Extended
            <4> QED BY <4>1 DEF Once
        <3>2. CASE i = Len(q) + 1
            BY <2>4, <2>6, <2>9, <3>2 DEF Extended
        <3> QED BY <2>4, <3>1, <3>2 DEF Extended
    <2> QED BY <2>3, <2>5, <2>7, <2>8, <2>9 DEF Once
<1>2. CASE Queued(s, t, m)
    <2>1. PICK r : r = t.queue /\ Extended(s.queue, r, m)
        BY <1>2, Appended DEF Queued, Flows
    <2>2. t.out = s.out
        BY <1>2 DEF Queued
    <2>3. Owed(m) => /\ \A j \in DOMAIN s.queue : s.queue[j] # m
                     /\ \A c \in Channel : \A i \in DOMAIN s.out[c] : s.out[c][i] # m
        BY DEF Carries, InBuffer, InQueue
    <2>4. OnceIn(r)
        BY <2>1, <2>3, ExtendedOnce DEF Once
    <2>5. ASSUME NEW c \in Channel, NEW i \in DOMAIN s.out[c], NEW j \in DOMAIN r,
                 s.out[c][i] = r[j]
          PROVE  ~Owed(r[j])
        <3>1. CASE j \in 1 .. Len(s.queue)
            BY <2>1, <2>5, <3>1 DEF Once, Extended
        <3>2. CASE j = Len(s.queue) + 1
            BY <2>1, <2>3, <2>5, <3>2 DEF Extended
        <3> QED BY <2>1, <3>1, <3>2 DEF Extended
    <2> QED BY <2>1, <2>2, <2>4, <2>5 DEF Once
<1> QED BY <1>1, <1>2 DEF Puts

\* Messages that differ, and were nowhere before, are put in one place each.
LEMMA PutAllOnce ==
    ASSUME NEW M, NEW n \in Nat, NEW ms, NEW f, f[0] \in Flows(M), Sound(f[0]),
           \A k \in 1 .. n : ms[k] \in M /\ ms[k].channel \in Channel,
           \A k \in 1 .. n : f[k - 1] \in Flows(M) =>
               f[k] \in Flows(M) /\ Puts(f[k - 1], f[k], ms[k]),
           Once(f[0]),
           \A k \in 1 .. n : Owed(ms[k]) =>
               ~Carries(f[0], ms[k]) /\ \A j \in 1 .. k - 1 : ms[j] # ms[k]
    PROVE  Once(f[n])
<1> DEFINE G == {k \in 0 .. n : Once(f[k])}
<1>1. \A k \in 0 .. n :
          /\ f[k] \in Flows(M)
          /\ Sound(f[k])
          /\ \A x : Carries(f[k], x) <=> Carries(f[0], x) \/ Within(ms, k, x)
    BY ONLY f[0] \in Flows(M), Sound(f[0]), n \in Nat,
            \A k \in 1 .. n : ms[k] \in M /\ ms[k].channel \in Channel,
            \A k \in 1 .. n : f[k - 1] \in Flows(M) =>
                f[k] \in Flows(M) /\ Puts(f[k - 1], f[k], ms[k]), PutAll
<1>2. 0 \in G
    OBVIOUS
<1>3. ASSUME NEW k \in 1 .. n, k - 1 \in G PROVE k \in G
    <2>1. k - 1 \in 0 .. n /\ k \in 0 .. n
        OBVIOUS
    <2>2. PICK s : s = f[k - 1] /\ s \in Flows(M) /\ Sound(s) /\ Once(s)
        BY <1>1, <1>3, <2>1
    <2>3. PICK t : t = f[k] /\ t \in Flows(M) /\ Puts(s, t, ms[k])
        BY <1>1, <2>1, <2>2
    <2>4. PICK m \in M : m = ms[k] /\ m.channel \in Channel
        OBVIOUS
    <2>5. Owed(m) => ~Carries(s, m)
        BY <1>1, <2>1, <2>2, <2>4 DEF Within
    <2>6. Once(t)
        BY ONLY <2>2, <2>3, <2>4, <2>5, PutOnce
    <2> QED BY <2>1, <2>3, <2>6
<1>4. \A k \in 0 .. n : k \in G
    <2> HIDE DEF G
    <2> QED BY <1>2, <1>3, UpTo
<1> QED BY <1>4

\* The messages of an action are put in one place each.
LEMMA SendAllOnce ==
    ASSUME NEW M, NEW s \in Flows(M), Sound(s), NEW ms \in Seq(M),
           \A k \in 1 .. Len(ms) : ms[k].channel \in Channel, Once(s),
           \A k \in 1 .. Len(ms) : Owed(ms[k]) => ~Carries(s, ms[k]),
           \A j, k \in 1 .. Len(ms) : ms[j] = ms[k] => j = k
    PROVE  Once(SendAll(s, ms))
<1>1. Len(ms) \in Nat /\ \A k \in 1 .. Len(ms) : ms[k] \in M
    BY LenProperties
<1>2. PICK f : /\ f[0] = s
               /\ \A k \in 1 .. Len(ms) : f[k] = TrySend(f[k - 1], ms[k])
               /\ SendAll(s, ms) = f[Len(ms)]
    BY <1>1, SendAllSteps
<1>3. \A k \in 1 .. Len(ms) : f[k - 1] \in Flows(M) =>
          f[k] \in Flows(M) /\ Puts(f[k - 1], f[k], ms[k])
    BY <1>1, <1>2, TrySendPuts
<1>4. PICK n \in Nat : n = Len(ms)
    BY <1>1
<1>5. \A k \in 1 .. n : Owed(ms[k]) =>
          ~Carries(f[0], ms[k]) /\ \A j \in 1 .. k - 1 : ms[j] # ms[k]
    BY <1>2, <1>4
<1>6. f[0] \in Flows(M) /\ Sound(f[0]) /\ Once(f[0])
    BY <1>2
<1>7. \A k \in 1 .. n : ms[k] \in M /\ ms[k].channel \in Channel
    BY <1>1, <1>4
<1>8. Once(f[n])
    BY ONLY <1>3, <1>4, <1>5, <1>6, <1>7, PutAllOnce
<1> QED BY <1>2, <1>4, <1>8

\* A retry leaves each message in one place.
LEMMA RetryAllOnce ==
    ASSUME NEW M, Buffers \in Flows(M), Sound(Buffers), Once(Buffers),
           \A k \in 1 .. Len(triggerQueue) : triggerQueue[k].channel \in Channel
    PROVE  Once(RetryAll(triggerQueue))
<1>1. PICK ms \in Seq(M) : ms = triggerQueue
    BY DEF Buffers, Flows
<1>2. Len(ms) \in Nat /\ DOMAIN ms = 1 .. Len(ms) /\ \A k \in 1 .. Len(ms) : ms[k] \in M
    BY LenProperties
<1>3. PICK f : /\ f[0] = [out |-> out, queue |-> <<>>]
               /\ \A k \in 1 .. Len(ms) : f[k] = Retry(f[k - 1], ms[k])
               /\ RetryAll(ms) = f[Len(ms)]
    BY <1>2, RetryAllSteps
<1>4. f[0] \in Flows(M) /\ Sound(f[0])
    <2>1. <<>> \in Seq(M)
        OBVIOUS
    <2>2. out \in [Channel -> Seq(M)]
        BY DEF Buffers, Flows
    <2> QED BY <1>3, <2>1, <2>2 DEF Flows, Sound, Buffers
<1>5. Once(f[0]) /\ \A x : Carries(f[0], x) <=> InBuffer(Buffers, x)
    BY <1>3 DEF Carries, InBuffer, InQueue, Buffers, Once, OnceIn
<1>6. PICK n \in Nat : n = Len(ms)
    BY <1>2
<1>7. \A k \in 1 .. n : f[k - 1] \in Flows(M) =>
          f[k] \in Flows(M) /\ Puts(f[k - 1], f[k], ms[k])
    BY <1>1, <1>2, <1>3, <1>6, RetryPuts
<1>8. \A k \in 1 .. n : Owed(ms[k]) =>
          ~Carries(f[0], ms[k]) /\ \A j \in 1 .. k - 1 : ms[j] # ms[k]
    <2>1. OnceIn(ms)
        BY <1>1 DEF Once, Buffers
    <2>2. \A c \in Channel : \A i \in DOMAIN out[c], j \in DOMAIN ms :
              out[c][i] = ms[j] => ~Owed(ms[j])
        BY <1>1 DEF Once, Buffers
    <2>3. \A k \in 1 .. n : Owed(ms[k]) => ~InBuffer(Buffers, ms[k])
        BY <1>2, <1>6, <2>2 DEF InBuffer, Buffers
    <2> QED BY <1>2, <1>5, <1>6, <2>1, <2>3 DEF OnceIn
<1>9. \A k \in 1 .. n : ms[k] \in M /\ ms[k].channel \in Channel
    BY <1>1, <1>2, <1>6
<1>10. Once(f[n])
    BY ONLY <1>4, <1>5, <1>6, <1>7, <1>8, <1>9, PutAllOnce
<1> QED BY <1>1, <1>3, <1>6, <1>10

\* So does a call whose owed actions differ, when nothing like them is carried.
LEMMA ExecuteOnce ==
    ASSUME NEW M, Buffers \in Flows(M), Sound(Buffers), Listed, ExecuteActions,
           Once(Buffers),
           \A x \in SentMessages : Owed(x) => ~Carries(Buffers, x),
           \A i, j \in DOMAIN actions' :
               actions'[i] = actions'[j] /\ actions'[i].type \in OwedTypes => i = j
    PROVE  Once(Buffers')
<1>1. PICK N : N = M \cup SentMessages /\ SentMessages \subseteq N
    OBVIOUS
<1>2. /\ Len(actions') \in Nat /\ DOMAIN actions' = 1 .. Len(actions')
      /\ \A j \in 1 .. Len(actions') :
            /\ MessagesOf(actions'[j]) \in Seq(N)
            /\ ListsOnce(MessagesOf(actions'[j]), MessagesFor(actions'[j]))
            /\ \A k \in 1 .. Len(MessagesOf(actions'[j])) :
                  MessagesOf(actions'[j])[k] \in MessagesFor(actions'[j])
    BY <1>1, SentMessagesFlow
<1>3. PICK n \in Nat : n = Len(actions')
    BY <1>2
<1>4. PICK f : /\ f[0] = Buffers
               /\ \A k \in 1 .. n : f[k] = SendAll(f[k - 1], MessagesOf(actions'[k]))
               /\ out' = f[n].out
               /\ triggerQueue' = f[n].queue
    BY <1>2, <1>3, ExecuteSteps
<1> DEFINE SentBy(k, x) == \E j \in 1 .. k : x \in MessagesFor(actions'[j])
           Done(k) == /\ f[k] \in Flows(N)
                      /\ Sound(f[k])
                      /\ Once(f[k])
                      /\ \A x : Carries(f[k], x) <=> Carries(Buffers, x) \/ SentBy(k, x)
           G == {k \in 0 .. n : Done(k)}
<1>5. 0 \in G
    <2>1. Buffers \in Flows(N)
        BY <1>1, FlowsMore
    <2> QED BY <1>4, <2>1
<1>6. ASSUME NEW k \in 1 .. n, k - 1 \in G PROVE k \in G
    <2>1. PICK s : s = f[k - 1] /\ s \in Flows(N) /\ Sound(s) /\ Once(s)
        BY <1>6
    <2>2. PICK a : a = actions'[k] /\ a.type \in ActionTypes /\ k \in DOMAIN actions'
        BY <1>2, <1>3 DEF Listed
    <2>3. PICK ms, S : ms = MessagesOf(a) /\ S = MessagesFor(a)
        OBVIOUS
    <2>4. /\ ms \in Seq(N) /\ ListsOnce(ms, S)
          /\ \A i \in 1 .. Len(ms) : ms[i] \in S
        BY <1>2, <1>3, <2>2, <2>3
    <2>5. \A m \in S : m.channel \in Channel /\ m.action = a
        BY <2>2, <2>3, MessageForms
    <2>6. \A i \in 1 .. Len(ms) : ms[i].channel \in Channel
        BY <2>4, <2>5
    <2>7. PICK t : t = f[k] /\ t = SendAll(s, ms)
        BY <1>4, <2>1, <2>2, <2>3
    <2>8. t \in Flows(N) /\ Sound(t)
            /\ \A x : Carries(t, x) <=> Carries(s, x) \/ Within(ms, Len(ms), x)
        BY <2>1, <2>4, <2>6, <2>7, SendAllCarries
    <2>9. \A x : Within(ms, Len(ms), x) <=> x \in S
        BY <2>4 DEF ListsOnce, Within
    <2>10. \A x : SentBy(k, x) <=> SentBy(k - 1, x) \/ x \in S
        BY <2>2, <2>3
    <2>11. \A x : Carries(s, x) <=> Carries(Buffers, x) \/ SentBy(k - 1, x)
        BY <1>6, <2>1
    <2>12. \A x : Carries(t, x) <=> Carries(Buffers, x) \/ SentBy(k, x)
        <3> HIDE DEF SentBy
        <3> QED BY ONLY <2>8, <2>9, <2>10, <2>11
    <2>13. ASSUME NEW x \in S, Owed(x) PROVE ~Carries(s, x)
        <3>1. ~Carries(Buffers, x)
            BY <2>2, <2>3, <2>13 DEF SentMessages
        <3>2. ASSUME NEW j \in 1 .. k - 1, x \in MessagesFor(actions'[j]) PROVE FALSE
            <4>1. j \in DOMAIN actions' /\ j # k
                BY <1>2, <1>3, <3>2
            <4>2. actions'[j].type \in ActionTypes
                BY <4>1 DEF Listed
            <4>3. x.action = actions'[j] /\ x.action = a
                BY <2>5, <3>2, <4>2, MessageForms
            <4> QED BY <2>2, <2>13, <4>1, <4>3 DEF Owed
        <3>3. ~SentBy(k - 1, x)
            BY <3>2
        <3> QED BY <2>11, <3>1, <3>3
    <2>14. /\ \A i \in 1 .. Len(ms) : Owed(ms[i]) => ~Carries(s, ms[i])
           /\ \A i, j \in 1 .. Len(ms) : ms[i] = ms[j] => i = j
        BY <2>4, <2>13 DEF ListsOnce
    <2>15. Once(t)
        BY ONLY <2>1, <2>4, <2>6, <2>7, <2>14, SendAllOnce
    <2>16. k \in 0 .. n
        OBVIOUS
    <2>17. Done(k)
        <3> HIDE DEF SentBy
        <3> QED BY ONLY <2>7, <2>8, <2>12, <2>15
    <2> HIDE DEF Done
    <2> QED BY <2>16, <2>17
<1>7. n \in G
    <2>1. \A k \in 0 .. n : k \in G
        <3> HIDE DEF G
        <3> QED BY <1>5, <1>6, UpTo
    <2> QED BY <2>1
<1>8. f[n] = Buffers'
    BY <1>4, <1>7 DEF Buffers, Flows
<1> QED BY <1>7, <1>8

\* What is left of q once its first message is taken lists it no more.
LEMMA ShortenedOnce ==
    ASSUME NEW q, NEW r, Shortened(q, r), OnceIn(q)
    PROVE  /\ OnceIn(r)
           /\ Owed(q[1]) => \A i \in DOMAIN r : r[i] # q[1]
           /\ \A i \in DOMAIN r : r[i] = q[i + 1] /\ i + 1 \in DOMAIN q
<1>1. PICK n \in Nat \ {0} : n = Len(q) /\ DOMAIN q = 1 .. n /\ DOMAIN r = 1 .. n - 1
    BY DEF Shortened
<1>2. \A i \in 1 .. n - 1 : r[i] = q[i + 1] /\ i + 1 \in 1 .. n
    BY <1>1 DEF Shortened
<1>3. \A i, j \in 1 .. n : q[i] = q[j] /\ Owed(q[i]) => i = j
    BY <1>1 DEF OnceIn
<1>4. ASSUME NEW i \in 1 .. n - 1, NEW j \in 1 .. n - 1, r[i] = r[j], Owed(r[i])
      PROVE  i = j
    <2>1. i + 1 = j + 1
        BY <1>2, <1>3, <1>4
    <2> QED BY <2>1
<1>5. ASSUME NEW i \in 1 .. n - 1, r[i] = q[1], Owed(q[1]) PROVE FALSE
    <2>1. i + 1 = 1
        BY <1>2, <1>3, <1>5
    <2> QED BY <2>1
<1>6. OnceIn(r)
    BY <1>1, <1>4 DEF OnceIn
<1> QED BY <1>1, <1>2, <1>5, <1>6

\* A message that is taken is nowhere else if it is owed.
LEMMA TakenOnce ==
    ASSUME NEW M, NEW s \in Flows(M), Sound(s), NEW c \in Channel, NEW t,
           t.out = [s.out EXCEPT ![c] = Tail(s.out[c])], t.queue = s.queue,
           s.out[c] # <<>>, Once(s)
    PROVE  Once(t) /\ (Owed(Head(s.out[c])) => ~Carries(t, Head(s.out[c])))
<1>1. PICK q \in Seq(M) : q = s.out[c] /\ q # <<>>
    BY DEF Flows
<1>2. PICK r \in Seq(M) : r = Tail(q) /\ Shortened(q, r) /\ Head(q) = q[1]
    BY <1>1, TailShortens
<1>3. \A d \in Channel : t.out[d] = IF d = c THEN r ELSE s.out[d]
    BY <1>1, <1>2 DEF Flows
<1>4. OnceIn(q)
    BY <1>1 DEF Once
<1>5. /\ OnceIn(r)
      /\ Owed(q[1]) => \A i \in DOMAIN r : r[i] # q[1]
      /\ \A i \in DOMAIN r : r[i] = q[i + 1] /\ i + 1 \in DOMAIN q
    <2>1. Shortened(q, r)
        BY <1>2
    <2> QED BY ONLY <1>4, <2>1, ShortenedOnce
<1>6. 1 \in DOMAIN q /\ q[1].channel = c
    BY <1>1, <1>2 DEF Shortened, Sound
<1>7. \A d \in Channel : OnceIn(t.out[d])
    BY <1>3, <1>5 DEF Once
<1>8. ASSUME NEW d \in Channel, NEW i \in DOMAIN t.out[d], NEW j \in DOMAIN t.queue,
             t.out[d][i] = t.queue[j]
      PROVE  ~Owed(t.queue[j])
    <2>1. CASE d = c
        <3>1. i \in DOMAIN r /\ r[i] = s.queue[j] /\ j \in DOMAIN s.queue
            BY <1>3, <1>8, <2>1
        <3>2. i + 1 \in DOMAIN s.out[c] /\ s.out[c][i + 1] = s.queue[j]
            BY <1>1, <1>5, <3>1
        <3> QED BY <3>1, <3>2 DEF Once
    <2>2. CASE d # c
        <3>1. t.out[d] = s.out[d]
            BY <1>3, <2>2
        <3> QED BY <1>8, <3>1 DEF Once
    <2> QED BY <2>1, <2>2
<1>9. Once(t)
    BY <1>7, <1>8 DEF Once
<1>10. ASSUME Owed(q[1]) PROVE ~Carries(t, q[1])
    <2>1. ~InQueue(t, q[1])
        BY <1>1, <1>6, <1>10 DEF InQueue, Once
    <2>2. ASSUME NEW d \in Channel, NEW i \in DOMAIN t.out[d], t.out[d][i] = q[1]
          PROVE  FALSE
        <3>1. CASE d = c
            BY <1>3, <1>5, <1>10, <2>2, <3>1
        <3>2. CASE d # c
            <4>1. t.out[d] = s.out[d]
                BY <1>3, <3>2
            <4>2. q[1].channel = d
                BY <2>2, <4>1 DEF Sound
            <4> QED BY <1>6, <3>2, <4>2
        <3> QED BY <3>1, <3>2
    <2> QED BY <2>1, <2>2 DEF Carries, InBuffer
<1> QED BY <1>1, <1>2, <1>9, <1>10

-----------------------------------------------------------------------------
(* What a call of the engine sends, and under which ids *)

\* An action of a request: what is owed has a new id, and the answer is the
\* request's.
SendsFor(txn, a) ==
    /\ a.type \in SnoopTypes => a.txnId \in nextSnoopTxnId .. nextSnoopTxnId' - 1
    /\ a.type \in MemTypes => /\ a.txnId = nextInternalTxnId
                              /\ nextInternalTxnId' = nextInternalTxnId + 1
    /\ a.type = "SendCompDBIDResp" => txn.opcode \in WriteOps /\ a = CompDBIDResp(txn)
    /\ a.type \in {"SendComp", "SendCompData"} =>
          txn.opcode \notin WriteOps /\ a.txnId = txn.txnID

\* All of a request's: no two that are owed share an id.
RequestSends(txn) ==
    /\ \A j \in DOMAIN actions' : SendsFor(txn, actions'[j])
    /\ \A i, j \in DOMAIN actions' :
          (/\ actions'[i].type \in OwedTypes /\ actions'[j].type \in OwedTypes
           /\ actions'[i].txnId = actions'[j].txnId) => i = j
    /\ nextSnoopTxnId' \in nextSnoopTxnId .. nextSnoopTxnId + Cardinality(Nodes)
    /\ nextInternalTxnId' \in {nextInternalTxnId, nextInternalTxnId + 1}

\* What a request adds to the tables.
RequestEnters(txn) ==
    /\ \A k \in DOMAIN pending' :
          \/ k \in DOMAIN pending /\ pending'[k] = pending[k]
          \/ /\ pending'[k].origReq = txn
             /\ txn.opcode \in WriteOps => pending'[k].state = "WaitL1Data"
             /\ k \in {txn.txnID, nextInternalTxnId}
    /\ \A s \in DOMAIN snoopToOrig' :
          \/ s \in DOMAIN snoopToOrig /\ snoopToOrig'[s] = snoopToOrig[s]
          \/ snoopToOrig'[s] = txn.txnID /\ txn.opcode \notin WriteOps

\* A request that sends nothing, or one answer, and leaves the tables alone.
LEMMA ServedSends ==
    ASSUME EngineTypeOK, NEW txn \in ChiTransaction, UNCHANGED <<tables, counters>>,
           \/ actions' = <<>>
           \/ /\ txn.opcode \notin WriteOps
              /\ \E a : /\ actions' = <<a>>
                        /\ a = Comp(txn) \/ \E state, data : a = CompData(txn, state, data)
    PROVE  RequestSends(txn) /\ RequestEnters(txn)
<1>1. nextSnoopTxnId \in Nat /\ nextInternalTxnId \in Nat /\ Cardinality(Nodes) \in Nat
    BY OtherSharersCount DEF EngineTypeOK
<1>2. RequestEnters(txn)
    BY DEF RequestEnters, tables
<1>3. CASE actions' = <<>>
    <2>1. DOMAIN actions' = {}
        BY <1>3
    <2> QED BY <1>1, <1>2, <2>1 DEF RequestSends, counters
<1>4. CASE /\ txn.opcode \notin WriteOps
           /\ \E a : /\ actions' = <<a>>
                     /\ a = Comp(txn) \/ \E state, data : a = CompData(txn, state, data)
    <2>1. PICK a : /\ actions' = <<a>>
                   /\ a = Comp(txn) \/ \E state, data : a = CompData(txn, state, data)
        BY <1>4
    <2>2. a.type \in {"SendComp", "SendCompData"} /\ a.txnId = txn.txnID
        BY <2>1 DEF Comp, CompData
    <2>3. DOMAIN actions' = {1} /\ actions'[1] = a
        BY <2>1
    <2> QED BY <1>1, <1>2, <1>4, <2>2, <2>3
            DEF RequestSends, SendsFor, counters, SnoopTypes, MemTypes, OwedTypes
<1> QED BY <1>2, <1>3, <1>4

\* One that opens a transaction with memory.
LEMMA OpenedSends ==
    ASSUME EngineTypeOK, NEW txn \in ChiTransaction, txn.opcode \notin WriteOps,
           NEW state, NEW target, OpenMemTxn(txn, state, target),
           \/ actions' = <<ReadNoSnp(txn.addr, nextInternalTxnId)>>
           \/ \E data : actions' = <<WriteNoSnp(txn.addr, nextInternalTxnId, data),
                                     Comp(txn)>>
    PROVE  RequestSends(txn) /\ RequestEnters(txn)
<1>1. nextSnoopTxnId \in Nat /\ nextInternalTxnId \in Nat /\ Cardinality(Nodes) \in Nat
    BY OtherSharersCount DEF EngineTypeOK
<1>2. /\ nextSnoopTxnId' = nextSnoopTxnId /\ nextInternalTxnId' = nextInternalTxnId + 1
      /\ snoopToOrig' = snoopToOrig
    BY DEF OpenMemTxn
<1>3. RequestEnters(txn)
    <2>1. pending' = Put(pending, nextInternalTxnId, Waiting(txn, state, target, 0, 0))
        BY DEF OpenMemTxn
    <2> QED BY <1>2, <2>1 DEF RequestEnters, Put, Waiting
<1>4. CASE actions' = <<ReadNoSnp(txn.addr, nextInternalTxnId)>>
    <2>1. DOMAIN actions' = {1} /\ actions'[1] = ReadNoSnp(txn.addr, nextInternalTxnId)
        BY <1>4
    <2> QED BY <1>1, <1>2, <1>3, <2>1
            DEF RequestSends, SendsFor, ReadNoSnp, SnoopTypes, MemTypes, OwedTypes
<1>5. CASE \E data : actions' = <<WriteNoSnp(txn.addr, nextInternalTxnId, data), Comp(txn)>>
    <2>1. PICK a, b : /\ actions' = <<a, b>>
                      /\ \E data : a = WriteNoSnp(txn.addr, nextInternalTxnId, data)
                      /\ b = Comp(txn)
        BY <1>5
    <2>2. DOMAIN actions' = {1, 2} /\ actions'[1] = a /\ actions'[2] = b
        BY <2>1
    <2>3. a.type = "SendWriteNoSnp" /\ a.txnId = nextInternalTxnId
            /\ b.type = "SendComp" /\ b.txnId = txn.txnID
        BY <2>1 DEF WriteNoSnp, Comp
    <2> QED BY <1>1, <1>2, <1>3, <2>2, <2>3
            DEF RequestSends, SendsFor, SnoopTypes, MemTypes, OwedTypes
<1> QED BY <1>4, <1>5

\* One that snoops.
LEMMA SnoopedSends ==
    ASSUME EngineTypeOK, NEW txn \in ChiTransaction, txn.opcode \notin WriteOps,
           NEW type \in SnoopTypes, NEW retToSrc, NEW target,
           SnoopOthers(txn, type, retToSrc, target)
    PROVE  RequestSends(txn) /\ RequestEnters(txn)
<1>1. nextSnoopTxnId \in Nat /\ nextInternalTxnId \in Nat
    BY DEF EngineTypeOK
<1>2. PICK count \in Nat : count = Cardinality(OtherSharers(txn))
                           /\ count <= Cardinality(Nodes) /\ Cardinality(Nodes) \in Nat
    BY OtherSharersCount
<1>3. /\ nextSnoopTxnId' = nextSnoopTxnId + count /\ nextInternalTxnId' = nextInternalTxnId
    BY <1>2 DEF SnoopOthers
<1>4. RequestEnters(txn)
    <2>1. \E dataCount :
              pending' = Put(pending, txn.txnID,
                             Waiting(txn, "WaitSnoopResp", target, count, dataCount))
        BY <1>2 DEF SnoopOthers
    <2>2. PICK ids : snoopToOrig' = [s \in DOMAIN snoopToOrig \cup ids |->
                                        IF s \in ids THEN txn.txnID ELSE snoopToOrig[s]]
        BY <1>2 DEF SnoopOthers
    <2> QED BY <2>1, <2>2 DEF RequestEnters, Put, Waiting
<1>5. PICK node :
          actions' = [k \in 1 .. count |->
                        Snoop(type, txn.addr, nextSnoopTxnId + k - 1, node[k], retToSrc)]
    BY <1>2 DEF SnoopOthers
<1>6. DOMAIN actions' = 1 .. count
    BY <1>5
<1>7. \A k \in 1 .. count :
          actions'[k].type = type /\ actions'[k].txnId = nextSnoopTxnId + k - 1
    BY <1>5 DEF Snoop
<1>8. ASSUME NEW k \in 1 .. count PROVE SendsFor(txn, actions'[k])
    <2>1. nextSnoopTxnId + k - 1 \in nextSnoopTxnId .. nextSnoopTxnId' - 1
        BY <1>1, <1>3
    <2> QED BY <1>7, <2>1 DEF SendsFor, SnoopTypes, MemTypes
<1>9. ASSUME NEW i \in 1 .. count, NEW j \in 1 .. count,
             actions'[i].txnId = actions'[j].txnId
      PROVE  i = j
    BY <1>1, <1>7, <1>9
<1> QED BY <1>1, <1>2, <1>3, <1>4, <1>6, <1>8, <1>9 DEF RequestSends

\* One that waits for data.
LEMMA AwaitedSends ==
    ASSUME EngineTypeOK, NEW txn \in ChiTransaction,
           \/ HandleWriteNoSnp(txn)
           \/ txn.opcode \in WriteOps /\ HandleWrite(txn)
    PROVE  RequestSends(txn) /\ RequestEnters(txn)
<1>1. nextSnoopTxnId \in Nat /\ nextInternalTxnId \in Nat /\ Cardinality(Nodes) \in Nat
    BY OtherSharersCount DEF EngineTypeOK
<1>2. /\ pending' = Put(pending, txn.txnID, Waiting(txn, "WaitL1Data", "I", 0, 0))
      /\ UNCHANGED <<snoopToOrig, counters>>
      /\ \/ actions' = <<>>
         \/ txn.opcode \in WriteOps /\ actions' = <<CompDBIDResp(txn)>>
    <2>1. \E answer : AwaitL1Data(txn, answer)
                       /\ \/ answer = <<>>
                          \/ txn.opcode \in WriteOps /\ answer = <<CompDBIDResp(txn)>>
        BY DEF HandleWriteNoSnp, HandleWrite
    <2> QED BY <2>1 DEF AwaitL1Data
<1>3. RequestEnters(txn)
    BY <1>2 DEF RequestEnters, Put, Waiting
<1>4. CASE actions' = <<>>
    <2>1. DOMAIN actions' = {}
        BY <1>4
    <2> QED BY <1>1, <1>2, <1>3, <2>1 DEF RequestSends, counters
<1>5. CASE txn.opcode \in WriteOps /\ actions' = <<CompDBIDResp(txn)>>
    <2>1. DOMAIN actions' = {1} /\ actions'[1] = CompDBIDResp(txn)
        BY <1>5
    <2> QED BY <1>1, <1>2, <1>3, <1>5, <2>1
            DEF RequestSends, SendsFor, counters, CompDBIDResp, SnoopTypes, MemTypes
<1> QED BY <1>2, <1>4, <1>5

\* Every request.
LEMMA RequestsSend ==
    ASSUME EngineTypeOK, NEW txn \in ChiTransaction, RecvRequest(txn)
    PROVE  RequestSends(txn) /\ RequestEnters(txn)
<1> DEFINE Goal == RequestSends(txn) /\ RequestEnters(txn)
<1>1. CASE txn.opcode \in WriteOps
    <2>1. HandleWrite(txn)
        BY <1>1 DEF RecvRequest, WriteOps
    <2> QED BY <1>1, <2>1, AwaitedSends
<1>2. CASE txn.opcode \notin WriteOps
    <2> HIDE DEF Goal
    <2>1. \A target : FetchFromMemory(txn, target) => Goal
        BY <1>2, OpenedSends DEF FetchFromMemory, Goal
    <2>2. \A target : ReadMiss(txn, target) => Goal
        BY <2>1, ServedSends DEF ReadMiss, Fault, Goal
    <2>3. \A type \in SnoopTypes : \A retToSrc, target :
              SnoopOthers(txn, type, retToSrc, target) => Goal
        BY <1>2, SnoopedSends DEF Goal
    <2>4. \A c, state, data : Serve(c, CompData(txn, state, data)) => Goal
        BY <1>2, ServedSends DEF Serve, Goal
    <2>5. \A c : Serve(c, Comp(txn)) => Goal
        BY <1>2, ServedSends DEF Serve, Goal
    <2>6. \A data : (/\ OpenMemTxn(txn, "WaitMemWriteAck", "UC")
                     /\ actions' = <<WriteNoSnp(txn.addr, nextInternalTxnId, data),
                                     Comp(txn)>>) => Goal
        BY <1>2, OpenedSends DEF Goal
    <2>7. HandleReadShared(txn) => Goal
        BY <2>2, <2>3, <2>4 DEF HandleReadShared, SnoopTypes
    <2>8. HandleReadUnique(txn) => Goal
        BY <2>2, <2>3, <2>4 DEF HandleReadUnique, SnoopTypes
    <2>9. HandleReadOnce(txn) => Goal
        BY <2>2, <2>3, <2>4 DEF HandleReadOnce, SnoopTypes
    <2>10. HandleCleanUnique(txn) => Goal
        BY <2>2, <2>3, <2>5, <2>6 DEF HandleCleanUnique, SnoopTypes
    <2>11. HandleWriteNoSnp(txn) => Goal
        BY AwaitedSends DEF Goal
    <2>12. Goal
        BY <1>2, <2>1, <2>7, <2>8, <2>9, <2>10, <2>11
           DEF RecvRequest, HandleReadNotSharedDirty, HandleUnmapped
    <2> QED BY <2>12 DEF Goal
<1> QED BY <1>1, <1>2

\* Data or a response completes at most a transaction that does not wait for write
\* data, or one that has been snooped for.
AnswerSends ==
    \A j \in DOMAIN actions' :
        /\ actions'[j].type \in {"SendComp", "SendCompData"}
        /\ \E k \in DOMAIN pending :
              /\ actions'[j].txnId = pending[k].origReq.txnID
              /\ \/ pending[k].state # "WaitL1Data"
                 \/ \E s \in DOMAIN snoopToOrig : snoopToOrig[s] = k

\* recvData and recvResponse.
LEMMA AnswersSend ==
    ASSUME NEW id
    PROVE  /\ \A addr, data : RecvData(id, addr, data) => AnswerSends
           /\ RecvResponse(id) => AnswerSends
<1>1. actions' = <<>> => AnswerSends
    BY DEF AnswerSends
<1>2. ASSUME NEW k \in DOMAIN pending, NEW a, actions' = <<a>>,
             \/ a = Comp(pending[k].origReq)
             \/ \E state, data : a = CompData(pending[k].origReq, state, data),
             \/ pending[k].state # "WaitL1Data"
             \/ \E s \in DOMAIN snoopToOrig : snoopToOrig[s] = k
      PROVE  AnswerSends
    <2>1. DOMAIN actions' = {1} /\ actions'[1] = a
        BY <1>2
    <2>2. a.type \in {"SendComp", "SendCompData"} /\ a.txnId = pending[k].origReq.txnID
        BY <1>2 DEF Comp, CompData
    <2> QED BY <1>2, <2>1, <2>2 DEF AnswerSends
<1>3. ASSUME NEW k \in DOMAIN pending, NEW c, CompletePending(k, c),
             \E s \in DOMAIN snoopToOrig : snoopToOrig[s] = k
      PROVE  AnswerSends
    <2>1. \E a : /\ actions' = <<a>>
                 /\ \/ a = Comp(pending[k].origReq)
                    \/ \E state, data : a = CompData(pending[k].origReq, state, data)
        BY <1>3 DEF CompletePending
    <2> QED BY <1>2, <1>3, <2>1
<1>4. \A k, pt, c : KeepWaiting(k, pt, c) => AnswerSends
    BY <1>1 DEF KeepWaiting
<1>5. NothingToDo => AnswerSends
    BY <1>1 DEF NothingToDo
<1>6. \A k, data : RecvWriteData(k, data) => AnswerSends
    BY <1>1 DEF RecvWriteData
<1>7. ASSUME NEW data, AwaitsMemData(id), RecvMemData(id, data) PROVE AnswerSends
    <2>1. id \in DOMAIN pending /\ pending[id].state # "WaitL1Data"
        BY <1>7 DEF AwaitsMemData
    <2>2. \E a : /\ actions' = <<a>>
                 /\ \/ a = Comp(pending[id].origReq)
                    \/ \E state, d : a = CompData(pending[id].origReq, state, d)
        BY <1>7 DEF RecvMemData
    <2> QED BY <1>2, <2>1, <2>2
<1>8. \A data : id \in DOMAIN snoopToOrig /\ RecvSnoopData(id, data) => AnswerSends
    BY <1>3, <1>4, <1>5 DEF RecvSnoopData
<1>9. RecvWriteAck(id) => AnswerSends
    BY <1>1 DEF RecvWriteAck
<1>10. Fault("NullData") => AnswerSends
    BY <1>1 DEF Fault
<1>11. id \in DOMAIN snoopToOrig /\ RecvSnoopResp(id) => AnswerSends
    BY <1>3, <1>4, <1>5, <1>10 DEF RecvSnoopResp
<1> QED BY <1>5, <1>6, <1>7, <1>8, <1>9, <1>11 DEF RecvData, RecvResponse

-----------------------------------------------------------------------------
(* Carried messages *)

\* The messages in buffers and queue as a set.
CarriedOf(s) == ToSet(s.queue) \cup UNION {ToSet(s.out[c]) : c \in Channel}

\* They are those at some place.
LEMMA CarriedPlaces ==
    ASSUME NEW s
    PROVE  \A x : x \in CarriedOf(s) <=> Carries(s, x)
BY DEF CarriedOf, Carries, InBuffer, InQueue, ToSet

\* So are those of the state, before and after a step.
LEMMA CarriedBuffers ==
    /\ \A x : x \in Carried <=> Carries(Buffers, x)
    /\ \A x : x \in Carried' <=> Carries(Buffers', x)
<1>1. Carried = CarriedOf(Buffers) /\ Carried' = CarriedOf(Buffers')
    BY DEF Carried, CarriedOf, Buffers
<1> QED BY <1>1, CarriedPlaces

\* What is carried or with memory, and what it is.
Carrying ==
    /\ Once(Buffers)
    /\ \A m \in Carried : Current(m)
    /\ WithMemory
    /\ OneActionPerId

\* What the ids in use are.
Bookkeeping ==
    /\ ResponsesApart
    /\ RequestsInTurn
    /\ EntriesOfRequests
    /\ IdsCounted

\* The counters are numbers, and no snoop id reaches the memory ids.
Counters ==
    /\ nextSnoopTxnId \in Nat /\ nextInternalTxnId \in Nat
    /\ SnoopIdBase <= nextSnoopTxnId /\ MemIdBase <= nextInternalTxnId

\* Ids in use stay in use.
LEMMA CurrentKept ==
    ASSUME NEW m, Current(m), Received \subseteq Received', got' = got,
           Counters, Counters',
           nextSnoopTxnId <= nextSnoopTxnId', nextInternalTxnId <= nextInternalTxnId'
    PROVE  Current(m)'
<1>1. m.action.type \in SnoopTypes =>
          m.action.txnId \in SnoopIdBase .. nextSnoopTxnId' - 1
    BY IdsAssumption DEF Current, Counters
<1>2. m.action.type \in MemTypes =>
          m.action.txnId \in MemIdBase .. nextInternalTxnId' - 1
    BY IdsAssumption DEF Current, Counters
<1> QED BY <1>1, <1>2 DEF Current

\* More that is carried, in new places and under new ids.
LEMMA MoreCarried ==
    ASSUME Carrying, NEW New, Carried' = Carried \cup New, Once(Buffers'),
           atMemory' = atMemory, Received \subseteq Received', got' = got,
           Counters, Counters',
           nextSnoopTxnId <= nextSnoopTxnId', nextInternalTxnId <= nextInternalTxnId',
           \A m \in New : Current(m)' /\ m \notin atMemory,
           \A m \in New : \A n \in New \cup Carried \cup atMemory :
              (/\ m.action.type \in MemTypes /\ n.action.type \in MemTypes
               /\ m.action.txnId = n.action.txnId) => m.action = n.action
    PROVE  Carrying'
<1>1. \A m : Current(m) => Current(m)'
    BY CurrentKept
<1>2. \A m \in Carried' : Current(m)'
    BY <1>1 DEF Carrying
<1>3. WithMemory'
    <2>1. ASSUME NEW m \in atMemory
          PROVE  /\ Formed(m) /\ Current(m)'
                 /\ m.action.type = "SendWriteNoSnp" /\ m \notin Carried'
        BY <1>1 DEF Carrying, WithMemory
    <2> QED BY <2>1 DEF WithMemory
<1>4. OneActionPerId'
    BY DEF Carrying, OneActionPerId
<1>5. Once(Buffers)'
    OBVIOUS
<1> QED BY <1>2, <1>3, <1>4, <1>5 DEF Carrying

-----------------------------------------------------------------------------
(* Counting requests *)

\* The requests made are as many as their ids at most.
LEMMA IssuedCount ==
    ASSUME issued \subseteq Requests, RequestsInTurn, NEW S \in SUBSET issued
    PROVE  /\ IsFiniteSet(S)
           /\ Cardinality(S) \in Nat /\ Cardinality(L1TxnIds) \in Nat
           /\ Cardinality(S) <= Cardinality(L1TxnIds)
<1>1. PICK f : f = [q \in S |-> q.txnID]
    OBVIOUS
<1>2. \A q \in S : q.txnID \in L1TxnIds
    BY DEF Requests
<1>3. f \in [S -> L1TxnIds]
    BY <1>1, <1>2
<1>4. \A p, q \in S : f[p] = f[q] => p = q
    BY <1>1 DEF RequestsInTurn
<1>5. f \in Injection(S, L1TxnIds)
    BY <1>3, <1>4 DEF Injection, IsInjective
<1>6. IsFiniteSet(L1TxnIds)
    BY EnoughIdsAssumption
<1>7. IsFiniteSet(S) /\ Cardinality(S) <= Cardinality(L1TxnIds)
    BY ONLY <1>5, <1>6, FS_Injection
<1> QED BY <1>6, <1>7, FS_CardinalityType

\* One more that is a fresh one is counted.
LEMMA OneMoreCount ==
    ASSUME issued \subseteq Requests, RequestsInTurn,
           NEW S \in SUBSET issued, NEW r \in issued \ S
    PROVE  /\ Cardinality(S) \in Nat
           /\ Cardinality(S \cup {r}) = Cardinality(S) + 1
           /\ Cardinality(S) + 1 <= Cardinality(L1TxnIds)
<1>1. PICK T \in SUBSET issued : T = S \cup {r}
    OBVIOUS
<1>2. IsFiniteSet(S) /\ Cardinality(S) \in Nat /\ Cardinality(T) <= Cardinality(L1TxnIds)
    BY IssuedCount
<1>3. Cardinality(T) = Cardinality(S) + 1
    BY ONLY <1>1, <1>2, r \in issued \ S, FS_AddElement
<1> QED BY <1>1, <1>2, <1>3

\* Numbers: one more request of at most w snoops.
LEMMA OneMoreTimes ==
    ASSUME NEW base \in Nat, NEW k \in Nat, NEW w \in Nat, NEW n \in Nat, NEW d \in 0 .. w,
           n <= base + k * w
    PROVE  n + d <= base + (k + 1) * w
<1>1. (k + 1) * w = k * w + w /\ k * w \in Nat
    OBVIOUS
<1> QED BY <1>1

\* A product grows with its factor.
LEMMA TimesGrows ==
    ASSUME NEW j \in Nat, NEW k \in Nat, NEW w \in Nat, j <= k
    PROVE  j * w <= k * w
<1>1. PICK d \in Nat : k = j + d
    <2>1. k - j \in Nat /\ k = j + (k - j)
        OBVIOUS
    <2> QED BY <2>1
<1>2. k * w = j * w + d * w /\ d * w \in Nat /\ j * w \in Nat
    BY <1>1
<1> QED BY <1>2

\* The numbers of the snoop ids.
LEMMA IdsInRange ==
    ASSUME EngineTypeOK, IdsCounted, issued \subseteq Requests, RequestsInTurn
    PROVE  /\ Counters
           /\ nextSnoopTxnId <= MemIdBase
           /\ \A r \in issued \ Received :
                 nextSnoopTxnId + Cardinality(Nodes) <= MemIdBase
<1>1. PICK w \in Nat : w = Cardinality(Nodes)
    BY NodesAssumption, FS_CardinalityType
<1>2. PICK n \in Nat : n = Cardinality(L1TxnIds)
    BY EnoughIdsAssumption, FS_CardinalityType
<1>3. Received \in SUBSET issued
    BY DEF Received
<1>4. PICK k \in Nat : k = Cardinality(Received) /\ k <= n
    BY <1>2, <1>3, IssuedCount
<1>5. /\ nextSnoopTxnId \in Nat /\ nextSnoopTxnId <= SnoopIdBase + k * w
      /\ SnoopIdBase + n * w <= MemIdBase
      /\ SnoopIdBase \in Nat /\ MemIdBase \in Nat
    BY <1>1, <1>2, <1>4, EnoughIdsAssumption, IdsAssumption DEF EngineTypeOK, IdsCounted
<1>6. Counters
    BY DEF Counters, IdsCounted, EngineTypeOK
<1>7. nextSnoopTxnId <= MemIdBase
    <2>1. k * w <= n * w /\ k * w \in Nat /\ n * w \in Nat
        BY <1>4, TimesGrows
    <2> QED BY <1>5, <2>1
<1>8. ASSUME NEW r \in issued \ Received PROVE nextSnoopTxnId + w <= MemIdBase
    <2>1. k + 1 <= n
        BY <1>2, <1>3, <1>4, OneMoreCount
    <2>2. (k + 1) * w <= n * w
        BY <2>1, TimesGrows
    <2>3. nextSnoopTxnId + w <= SnoopIdBase + (k + 1) * w
        BY <1>5, OneMoreTimes
    <2>4. (k + 1) * w \in Nat /\ n * w \in Nat
        OBVIOUS
    <2> QED BY <1>5, <2>2, <2>3, <2>4
<1> QED BY <1>1, <1>6, <1>7, <1>8

-----------------------------------------------------------------------------
(* A request that the engine is given *)

\* The operands are decided by the type of the request.
LEMMA TxnWrites ==
    ASSUME NEW r \in Requests, r.type # "Evict"
    PROVE  TxnOf(r).opcode \in WriteOps <=> IsWrite(r)
BY RequestTypesAssumption DEF TxnOf, IsWrite, Requests

\* What it sends is under ids that nothing carried bears.
LEMMA SendsFresh ==
    ASSUME RequestsInTurn, Counters, NEW r \in issued \ Received,
           NEW a, SendsFor(TxnOf(r), a), NEW n, Current(n)
    PROVE  /\ a.type \in OwedTypes => n.action # a
           /\ (a.type \in MemTypes /\ n.action.type \in MemTypes) =>
                  n.action.txnId # a.txnId
<1>1. nextSnoopTxnId \in Nat /\ nextInternalTxnId \in Nat
    BY DEF Counters
<1>2. ASSUME a.type \in SnoopTypes PROVE n.action # a
    <2>1. SUFFICES ASSUME n.action = a PROVE FALSE
        OBVIOUS
    <2>2. a.txnId \in SnoopIdBase .. nextSnoopTxnId - 1
        BY <1>2, <2>1 DEF Current
    <2>3. a.txnId \in nextSnoopTxnId .. nextSnoopTxnId' - 1
        BY <1>2 DEF SendsFor
    <2> QED BY <1>1, <2>2, <2>3
<1>3. ASSUME a.type \in MemTypes, n.action.type \in MemTypes
      PROVE  n.action.txnId # a.txnId
    <2>1. n.action.txnId \in MemIdBase .. nextInternalTxnId - 1
        BY <1>3 DEF Current
    <2>2. a.txnId = nextInternalTxnId
        BY <1>3 DEF SendsFor
    <2> QED BY <1>1, <2>1, <2>2
<1>4. ASSUME a.type = "SendCompDBIDResp", n.action = a PROVE FALSE
    <2>1. PICK q \in Received : a = CompDBIDResp(TxnOf(q))
        BY <1>4 DEF Current
    <2>2. a = CompDBIDResp(TxnOf(r))
        BY <1>4 DEF SendsFor
    <2>3. q.txnID = r.txnID
        BY <2>1, <2>2 DEF CompDBIDResp, TxnOf
    <2> QED BY <2>3 DEF RequestsInTurn, Received
<1> QED BY <1>2, <1>3, <1>4 DEF OwedTypes

\* What it sends is as what is carried should be.
LEMMA SendsCurrent ==
    ASSUME RequestsInTurn, Counters, Counters', NEW r \in issued \ Received,
           r.type # "Evict", TxnOf(r).opcode \in WriteOps <=> IsWrite(r),
           r \in Received', Received \subseteq Received', got' = got,
           nextSnoopTxnId <= nextSnoopTxnId',
           NEW m, SendsFor(TxnOf(r), m.action), m.type # "Comp_I"
    PROVE  Current(m)'
<1>1. PICK a : a = m.action /\ SendsFor(TxnOf(r), a)
    OBVIOUS
<1>2. a.type \in SnoopTypes => a.txnId \in SnoopIdBase .. nextSnoopTxnId' - 1
    BY <1>1, IdsAssumption DEF SendsFor, Counters
<1>3. a.type \in MemTypes => a.txnId \in MemIdBase .. nextInternalTxnId' - 1
    BY <1>1, IdsAssumption DEF SendsFor, Counters
<1>4. ASSUME a.type = "SendCompDBIDResp"
      PROVE  /\ \E q \in Received' : IsWrite(q) /\ a = CompDBIDResp(TxnOf(q))
             /\ \A p \in got : p[1] # a.txnId
    <2>1. a = CompDBIDResp(TxnOf(r)) /\ IsWrite(r)
        BY <1>1, <1>4 DEF SendsFor
    <2>2. a.txnId = r.txnID
        BY <2>1 DEF CompDBIDResp, TxnOf
    <2>3. ASSUME NEW p \in got, p[1] = r.txnID PROVE FALSE
        <3>1. PICK q \in Received : q.txnID = p[1]
            BY DEF RequestsInTurn
        <3> QED BY <2>3, <3>1 DEF RequestsInTurn, Received
    <2> QED BY <2>1, <2>2, <2>3
<1>5. ASSUME a.type \in {"SendComp", "SendCompData"}
      PROVE  \E q \in Received' : q.txnID = a.txnId /\ IsRead(q)
    <2>1. a.txnId = r.txnID /\ IsRead(r)
        BY <1>1, <1>5 DEF SendsFor, TxnOf, IsRead
    <2> QED BY <2>1
<1> QED BY <1>1, <1>2, <1>3, <1>4, <1>5 DEF Current

\* It is carried then, and what was carried still is.
LEMMA RequestCarries ==
    ASSUME MInv, RInv, NEW r \in reqIn, r.type # "Evict", RecvRequest(TxnOf(r)),
           ExecuteActions, EngineTypeOK', Received' = Received \cup {r},
           UNCHANGED <<issued, got, atMemory>>
    PROVE  Carrying'
<1>1. /\ EngineTypeOK /\ issued \subseteq Requests /\ r \in issued \ Received
      /\ RequestsInTurn /\ Carrying /\ IdsCounted
    BY DEF MInv, TypeOK, RInv, Carrying, Received
<1>2. PICK txn \in ChiTransaction : txn = TxnOf(r)
    BY <1>1, TxnTypes
<1>3. txn.opcode \in WriteOps <=> IsWrite(r)
    BY <1>1, <1>2, TxnWrites
<1>4. RequestSends(txn) /\ Listed
    BY <1>1, <1>2, RequestsSend, RequestListed
<1>5. Counters
    BY <1>1, IdsInRange
<1>6. /\ nextSnoopTxnId <= nextSnoopTxnId' /\ nextInternalTxnId <= nextInternalTxnId'
      /\ Counters'
    <2>1. Cardinality(Nodes) \in Nat
        BY NodesAssumption, FS_CardinalityType
    <2> QED BY <1>4, <1>5, <2>1, IdsAssumption DEF RequestSends, Counters
<1>7. \A m \in SentMessages : \E j \in DOMAIN actions' :
          m \in MessagesFor(actions'[j]) /\ m.action = actions'[j] /\ m.type # "Comp_I"
    BY <1>4, MessageForms DEF SentMessages, Listed
<1>8. \A m \in SentMessages : SendsFor(txn, m.action) /\ m.type # "Comp_I"
    BY <1>4, <1>7 DEF RequestSends
<1>9. \A m \in SentMessages : Current(m)'
    <2> SUFFICES ASSUME NEW m \in SentMessages PROVE Current(m)'
        OBVIOUS
    <2>1. SendsFor(TxnOf(r), m.action) /\ m.type # "Comp_I"
        BY <1>2, <1>8
    <2>2. r \in Received' /\ Received \subseteq Received' /\ got' = got
        OBVIOUS
    <2>3. TxnOf(r).opcode \in WriteOps <=> IsWrite(r)
        BY <1>2, <1>3
    <2> QED BY <1>1, <1>5, <1>6, <2>1, <2>2, <2>3, SendsCurrent
<1>10. ASSUME NEW m \in SentMessages, NEW n, Current(n)
       PROVE  /\ m.action.type \in OwedTypes => n.action # m.action
              /\ (m.action.type \in MemTypes /\ n.action.type \in MemTypes) =>
                     n.action.txnId # m.action.txnId
    BY <1>1, <1>2, <1>5, <1>8, <1>10, SendsFresh
<1>11. \A n \in Carried \cup atMemory : Current(n)
    BY <1>1 DEF Carrying, WithMemory
<1>12. PICK M : Buffers \in Flows(M) /\ Sound(Buffers)
    BY SoundBuffers DEF MInv, Flowing, TypeOK, Buffers
<1>13. Carried' = Carried \cup SentMessages
    <2>1. \A x : Carries(Buffers', x) <=> Carries(Buffers, x) \/ x \in SentMessages
        BY <1>4, <1>12, ExecuteCarries
    <2> QED BY <2>1, CarriedBuffers
<1>14. Once(Buffers')
    <2>1. \A x \in SentMessages : Owed(x) => ~Carries(Buffers, x)
        BY <1>10, <1>11, CarriedBuffers DEF Owed
    <2>2. \A i, j \in DOMAIN actions' :
              actions'[i] = actions'[j] /\ actions'[i].type \in OwedTypes => i = j
        BY <1>4 DEF RequestSends
    <2>3. Once(Buffers)
        BY <1>1 DEF Carrying
    <2> QED BY <1>4, <1>12, <2>1, <2>2, <2>3, ExecuteOnce
<1>15. \A m \in SentMessages : m \notin atMemory
    BY <1>1, <1>10, <1>11 DEF Carrying, WithMemory, OwedTypes, MemTypes
<1>16. ASSUME NEW m \in SentMessages, NEW n \in SentMessages \cup Carried \cup atMemory,
              m.action.type \in MemTypes, n.action.type \in MemTypes,
              m.action.txnId = n.action.txnId
       PROVE  m.action = n.action
    <2>1. n \in SentMessages
        BY <1>10, <1>11, <1>16
    <2>2. PICK i \in DOMAIN actions', j \in DOMAIN actions' :
              m.action = actions'[i] /\ n.action = actions'[j]
        BY <1>7, <2>1
    <2> QED BY <1>4, <1>16, <2>2 DEF RequestSends, OwedTypes
<1>17. Received \subseteq Received' /\ got' = got /\ atMemory' = atMemory
    OBVIOUS
<1> QED BY <1>1, <1>5, <1>6, <1>9, <1>13, <1>14, <1>15, <1>16, <1>17, MoreCarried

-----------------------------------------------------------------------------
(* The other steps, and what is carried *)

\* A transaction that an answer completes is a read.
LEMMA CompletedIsRead ==
    ASSUME EntriesOfRequests, RequestsInTurn, issued \subseteq Requests,
           SnoopIdBase <= MemIdBase, NEW k \in DOMAIN pending,
           \/ pending[k].state # "WaitL1Data"
           \/ \E s \in DOMAIN snoopToOrig : snoopToOrig[s] = k
    PROVE  \E q \in Received : IsRead(q) /\ q.txnID = pending[k].origReq.txnID
<1>1. PICK q \in Received :
          /\ q.type # "Evict"
          /\ pending[k].origReq = TxnOf(q)
          /\ pending[k].state # "WaitL1Data" => ~IsWrite(q)
          /\ k = q.txnID \/ k >= MemIdBase
    BY DEF EntriesOfRequests
<1>2. q.txnID = pending[k].origReq.txnID
    BY <1>1 DEF TxnOf
<1>3. CASE pending[k].state # "WaitL1Data"
    BY <1>1, <1>2, <1>3 DEF IsRead
<1>4. CASE \E s \in DOMAIN snoopToOrig : snoopToOrig[s] = k
    <2>1. PICK p \in Received : IsRead(p) /\ p.txnID = k
        BY <1>4 DEF EntriesOfRequests
    <2>2. p.txnID \in L1TxnIds
        BY DEF Requests, Received
    <2>3. k \in Nat /\ k < SnoopIdBase /\ MemIdBase \in Nat /\ SnoopIdBase \in Nat
        BY <2>1, <2>2, EnoughIdsAssumption, IdsAssumption
    <2>4. k = q.txnID
        BY <1>1, <2>3
    <2>5. p = q
        BY <2>1, <2>4 DEF RequestsInTurn, Received
    <2> QED BY <1>2, <2>1, <2>5
<1> QED BY <1>3, <1>4

\* Data or a response that has come sends completions of reads, if anything.
LEMMA AnswerCarries ==
    ASSUME MInv, RInv, EngineTypeOK', Listed, AnswerSends, Shrinks, ExecuteActions,
           UNCHANGED <<issued, got, atMemory, reqIn>>
    PROVE  Carrying'
<1>1. /\ EngineTypeOK /\ issued \subseteq Requests
      /\ RequestsInTurn /\ Carrying /\ IdsCounted /\ EntriesOfRequests
    BY DEF MInv, TypeOK, RInv, Carrying
<1>2. Counters /\ nextSnoopTxnId <= MemIdBase
    BY <1>1, IdsInRange
<1>3. /\ nextSnoopTxnId' = nextSnoopTxnId /\ nextInternalTxnId' = nextInternalTxnId
      /\ nextSnoopTxnId <= nextSnoopTxnId' /\ nextInternalTxnId <= nextInternalTxnId'
      /\ Counters' /\ SnoopIdBase <= MemIdBase
    BY <1>2, IdsAssumption DEF Shrinks, counters, Counters
<1>4. Received' = Received
    BY DEF Received
<1>5. ASSUME NEW m \in SentMessages
      PROVE  /\ m.action.type \in {"SendComp", "SendCompData"}
             /\ Current(m)'
    <2>1. PICK j \in DOMAIN actions' : m \in MessagesFor(actions'[j])
        BY DEF SentMessages
    <2>2. m.action = actions'[j] /\ m.type # "Comp_I"
        BY <2>1, MessageForms DEF Listed
    <2>3. m.action.type \in {"SendComp", "SendCompData"}
        BY <2>2 DEF AnswerSends
    <2>4. PICK k \in DOMAIN pending :
              /\ m.action.txnId = pending[k].origReq.txnID
              /\ \/ pending[k].state # "WaitL1Data"
                 \/ \E s \in DOMAIN snoopToOrig : snoopToOrig[s] = k
        BY <2>2 DEF AnswerSends
    <2>5. \E q \in Received : IsRead(q) /\ q.txnID = m.action.txnId
        BY <1>1, <1>3, <2>4, CompletedIsRead
    <2>6. \E q \in Received' : q.txnID = m.action.txnId /\ IsRead(q)
        BY <1>4, <2>5
    <2> QED BY <2>2, <2>3, <2>6 DEF Current, SnoopTypes, MemTypes
<1>6. PICK M : Buffers \in Flows(M) /\ Sound(Buffers)
    BY SoundBuffers DEF MInv, Flowing, TypeOK, Buffers
<1>7. Carried' = Carried \cup SentMessages
    <2>1. \A x : Carries(Buffers', x) <=> Carries(Buffers, x) \/ x \in SentMessages
        BY <1>6, ExecuteCarries
    <2> QED BY <2>1, CarriedBuffers
<1>8. \A m \in SentMessages : ~Owed(m) /\ m.action.type \notin MemTypes /\ m \notin atMemory
    BY <1>1, <1>5 DEF Owed, OwedTypes, MemTypes, SnoopTypes, Carrying, WithMemory
<1>9. Once(Buffers')
    <2>1. \A j \in DOMAIN actions' : actions'[j].type \notin OwedTypes
        BY DEF AnswerSends, OwedTypes, MemTypes, SnoopTypes
    <2>2. Once(Buffers)
        BY <1>1 DEF Carrying
    <2> QED BY <1>6, <1>8, <2>1, <2>2, ExecuteOnce
<1>10. \A m \in SentMessages : Current(m)' /\ m \notin atMemory
    BY <1>5, <1>8
<1>11. \A m \in SentMessages : \A n \in SentMessages \cup Carried \cup atMemory :
              (/\ m.action.type \in MemTypes /\ n.action.type \in MemTypes
               /\ m.action.txnId = n.action.txnId) => m.action = n.action
    BY <1>8
<1>12. Received \subseteq Received' /\ got' = got /\ atMemory' = atMemory
    BY <1>4
<1> QED BY <1>1, <1>2, <1>3, <1>7, <1>9, <1>10, <1>11, <1>12, MoreCarried

\* The middleware's answer to an Evict is carried.
LEMMA EvictSent ==
    ASSUME MInv, NEW r, Send(SendComp("Comp_I", Comp(r))),
           NEW m, m = Message("rsp", "Comp_I", 0, Comp(r))
    PROVE  /\ Carried' = Carried \cup {m}
           /\ Once(Buffers) /\ ~Owed(m) => Once(Buffers')
<1>1. m.channel \in Channel
    BY DEF Message, Channel
<1>2. PICK M : Buffers \in Flows(M) /\ Sound(Buffers)
    BY SoundBuffers DEF MInv, Flowing, TypeOK, Buffers
<1>3. PICK N : N = M \cup {m} /\ M \subseteq N
    OBVIOUS
<1>4. Buffers \in Flows(N)
    BY ONLY <1>2, <1>3, FlowsMore
<1>5. PICK ms : ms = <<m>>
    OBVIOUS
<1>6. /\ ms \in Seq(N) /\ Len(ms) = 1 /\ ms[1] = m
      /\ \A x : Within(ms, Len(ms), x) <=> x = m
    BY <1>3, <1>5 DEF Within
<1>7. \A k \in 1 .. Len(ms) : ms[k].channel \in Channel
    BY <1>1, <1>6
<1>8. PICK t : t = SendAll(Buffers, ms)
    OBVIOUS
<1>9. t \in Flows(N) /\ \A x : Carries(t, x) <=> Carries(Buffers, x) \/ x = m
    BY <1>2, <1>4, <1>6, <1>7, <1>8, SendAllCarries
<1>10. Buffers' = t
    BY <1>5, <1>8, <1>9 DEF Send, SendComp, Buffers, Flows
<1>11. ASSUME Once(Buffers), ~Owed(m) PROVE Once(t)
    <2>1. \A k \in 1 .. Len(ms) : Owed(ms[k]) => ~Carries(Buffers, ms[k])
        BY <1>6, <1>11
    <2>2. \A j, k \in 1 .. Len(ms) : ms[j] = ms[k] => j = k
        BY <1>6
    <2>3. ms \in Seq(N)
        BY <1>6
    <2> QED BY <1>2, <1>4, <1>7, <1>8, <1>11, <2>1, <2>2, <2>3, SendAllOnce
<1> QED BY <1>9, <1>10, <1>11, CarriedBuffers

\* It answers a request that the engine has not seen.
LEMMA EvictCarries ==
    ASSUME MInv, RInv, NEW r \in reqIn, r.type = "Evict",
           Send(SendComp("Comp_I", Comp(r))), UNCHANGED counters,
           Received' = Received \cup {r}, UNCHANGED <<issued, got, atMemory>>
    PROVE  Carrying'
<1>1. /\ EngineTypeOK /\ issued \subseteq Requests
      /\ RequestsInTurn /\ Carrying /\ IdsCounted
    BY DEF MInv, TypeOK, RInv, Carrying
<1>2. Counters
    BY <1>1, IdsInRange
<1>3. /\ nextSnoopTxnId <= nextSnoopTxnId' /\ nextInternalTxnId <= nextInternalTxnId'
      /\ Counters'
    BY <1>2 DEF counters, Counters
<1>4. PICK m : m = Message("rsp", "Comp_I", 0, Comp(r))
    OBVIOUS
<1>5. /\ m.type = "Comp_I" /\ m.action.type = "SendComp" /\ m.action.txnId = r.txnID
    BY <1>4 DEF Message, Comp
<1>6. m.action.type \notin MemTypes /\ ~Owed(m) /\ m \notin atMemory
    BY <1>1, <1>5 DEF Owed, OwedTypes, MemTypes, SnoopTypes, Carrying, WithMemory
<1>7. Current(m)'
    <2>1. \E q \in Received' : q.txnID = m.action.txnId /\ q.type = "Evict"
        BY <1>5
    <2> QED BY <1>5, <2>1 DEF Current, SnoopTypes, MemTypes
<1>8. Carried' = Carried \cup {m} /\ Once(Buffers')
    BY <1>1, <1>4, <1>6, EvictSent DEF Carrying
<1>9. \A x \in {m} : Current(x)' /\ x \notin atMemory
    BY <1>6, <1>7
<1>10. \A x \in {m} : \A n \in {m} \cup Carried \cup atMemory :
              (/\ x.action.type \in MemTypes /\ n.action.type \in MemTypes
               /\ x.action.txnId = n.action.txnId) => x.action = n.action
    BY <1>6
<1>11. Received \subseteq Received' /\ got' = got /\ atMemory' = atMemory
    OBVIOUS
<1> QED BY <1>1, <1>2, <1>3, <1>8, <1>9, <1>10, <1>11, MoreCarried

\* A step that moves messages at most, or takes some from memory.
LEMMA SameCarried ==
    ASSUME MInv, RInv, Carried' = Carried, Once(Buffers'), atMemory' \subseteq atMemory,
           got' = got, Received \subseteq Received', UNCHANGED counters
    PROVE  Carrying'
<1>1. /\ EngineTypeOK /\ issued \subseteq Requests
      /\ RequestsInTurn /\ Carrying /\ IdsCounted
    BY DEF MInv, TypeOK, RInv, Carrying
<1>2. Counters
    BY <1>1, IdsInRange
<1>3. /\ nextSnoopTxnId <= nextSnoopTxnId' /\ nextInternalTxnId <= nextInternalTxnId'
      /\ Counters'
    BY <1>2 DEF counters, Counters
<1>4. \A m : Current(m) => Current(m)'
    BY <1>2, <1>3, CurrentKept
<1>5. \A m \in Carried' : Current(m)'
    BY <1>1, <1>4 DEF Carrying
<1>6. WithMemory'
    <2>1. ASSUME NEW m \in atMemory'
          PROVE  /\ Formed(m) /\ Current(m)'
                 /\ m.action.type = "SendWriteNoSnp" /\ m \notin Carried'
        BY <1>1, <1>4 DEF Carrying, WithMemory
    <2> QED BY <2>1 DEF WithMemory
<1>7. OneActionPerId'
    BY <1>1 DEF Carrying, OneActionPerId
<1>8. Once(Buffers)'
    OBVIOUS
<1> QED BY <1>5, <1>6, <1>7, <1>8 DEF Carrying

\* A retry only moves them.
LEMMA RetryCarried ==
    ASSUME MInv, Once(Buffers), ProcessTriggerQueue
    PROVE  Carried' = Carried /\ Once(Buffers')
<1>1. PICK M : Buffers \in Flows(M) /\ Sound(Buffers)
    BY SoundBuffers DEF MInv, Flowing, TypeOK, Buffers
<1>2. DOMAIN triggerQueue = 1 .. Len(triggerQueue)
    <2>1. triggerQueue \in Seq(M)
        BY <1>1 DEF Buffers, Flows
    <2> QED BY <2>1, LenProperties
<1>3. \A k \in 1 .. Len(triggerQueue) : triggerQueue[k].channel \in Channel
    <2> SUFFICES ASSUME NEW k \in 1 .. Len(triggerQueue)
                 PROVE  Formed(triggerQueue[k])
        BY FormedFacts
    <2>1. Carries(Buffers, triggerQueue[k])
        BY <1>2 DEF Carries, InQueue, Buffers
    <2> QED BY <2>1 DEF MInv, Flowing
<1>4. PICK t : /\ t = RetryAll(triggerQueue)
               /\ t \in Flows(M) /\ Once(t)
               /\ \A x : Carries(t, x) <=> Carries(Buffers, x)
    BY ONLY <1>1, <1>3, Once(Buffers), RetryAllCarries, RetryAllOnce
<1>5. Buffers' = t
    BY <1>4 DEF ProcessTriggerQueue, Buffers, Flows
<1> QED BY <1>4, <1>5, CarriedBuffers

-----------------------------------------------------------------------------
(* A message that is taken *)

\* Its receiver has it, and nothing else is gone.
LEMMA TakenMessage ==
    ASSUME MInv, Once(Buffers), NEW c \in Channel, Take(c)
    PROVE  \E m \in Carried :
              /\ m.channel = c /\ Formed(m) /\ Receives(m)
              /\ \A x : x \in Carried <=> x \in Carried' \/ x = m
              /\ Once(Buffers')
              /\ Owed(m) => m \notin Carried'
<1>1. PICK M : Buffers \in Flows(M)
    BY DEF MInv, Flowing
<1>2. PICK s : s = Buffers /\ s.out = out /\ s.queue = triggerQueue /\ s \in Flows(M)
    BY <1>1 DEF Buffers
<1>3. Sound(s) /\ Once(s)
    BY <1>2, SoundBuffers DEF MInv, TypeOK
<1>4. PICK t : t = Buffers' /\ t.out = out' /\ t.queue = triggerQueue'
                 /\ t = [out |-> t.out, queue |-> s.queue] /\ t.queue = s.queue
    <2>1. triggerQueue' = s.queue
        BY <1>2 DEF Take
    <2>2. Buffers' = [out |-> out', queue |-> triggerQueue']
        BY DEF Buffers
    <2> QED BY <2>1, <2>2
<1>5. s.out[c] # <<>> /\ t.out = [s.out EXCEPT ![c] = Tail(s.out[c])]
    BY <1>2, <1>4 DEF Take
<1>6. \A x : Carries(s, x) <=> Carries(t, x) \/ x = Head(s.out[c])
    <2>1. s \in Flows(M) /\ Sound(s) /\ t = [out |-> t.out, queue |-> s.queue]
        BY <1>2, <1>3, <1>4
    <2> QED BY ONLY c \in Channel, <1>5, <2>1, TakenCarries
<1>7. PICK m : m = Head(s.out[c])
    OBVIOUS
<1>8. Once(t) /\ (Owed(m) => ~Carries(t, m))
    BY <1>2, <1>3, <1>4, <1>5, <1>7, TakenOnce
<1>9. \A x : x \in Carried <=> x \in Carried' \/ x = m
    <2>1. s = Buffers /\ t = Buffers'
        BY <1>2, <1>4
    <2>2. \A x : Carries(Buffers, x) <=> Carries(Buffers', x) \/ x = m
        BY ONLY <1>6, <1>7, <2>1
    <2> QED BY ONLY <2>2, CarriedBuffers
<1>10. m \in Carried /\ (Owed(m) => m \notin Carried') /\ Once(Buffers')
    BY <1>4, <1>8, <1>9, CarriedBuffers
<1>11. Formed(m)
    BY <1>10, CarriedBuffers DEF MInv, Flowing
<1>12. m.channel = c
    <2>1. PICK q \in Seq(M) : q = s.out[c] /\ q # <<>>
        BY <1>2, <1>5 DEF Flows
    <2>2. m = q[1] /\ 1 \in DOMAIN q
        BY <1>7, <2>1, TailShortens DEF Shortened
    <2> QED BY <1>3, <2>1, <2>2 DEF Sound
<1>13. Receives(m)
    BY <1>2, <1>7 DEF Take, Receives
<1> QED BY <1>9, <1>10, <1>11, <1>12, <1>13

\* What is carried besides a message that has been taken is about another request.
LEMMA StillAsked ==
    ASSUME RequestsInTurn, NEW m, Formed(m), Current(m),
           m.action.type \in CompletionTypes, NEW x, Formed(x), Current(x),
           x.action.type = "SendCompDBIDResp", x # m
    PROVE  m.action.txnId # x.action.txnId
<1> SUFFICES ASSUME m.action.txnId = x.action.txnId PROVE FALSE
    OBVIOUS
<1>1. PICK q \in Received : IsWrite(q) /\ x.action = CompDBIDResp(TxnOf(q))
    BY DEF Current
<1>2. x.action.txnId = q.txnID
    BY <1>1 DEF CompDBIDResp, TxnOf
<1>3. CASE m.action.type = "SendCompDBIDResp"
    <2>1. PICK p \in Received : m.action = CompDBIDResp(TxnOf(p))
        BY <1>3 DEF Current
    <2>2. m.action.txnId = p.txnID
        BY <2>1 DEF CompDBIDResp, TxnOf
    <2>3. p = q
        BY <1>2, <2>2 DEF RequestsInTurn, Received
    <2>4. m.action = x.action
        BY <1>1, <2>1, <2>3
    <2>5. m = Message("rsp", "CompDBIDResp", 0, m.action)
        BY <1>3 DEF Formed, MessagesFor, SnoopTypes
    <2>6. x = Message("rsp", "CompDBIDResp", 0, x.action)
        BY DEF Formed, MessagesFor, SnoopTypes
    <2> QED BY <2>4, <2>5, <2>6
<1>4. CASE m.action.type \in {"SendComp", "SendCompData"}
    <2>1. PICK p \in Received :
              /\ p.txnID = m.action.txnId
              /\ IF m.type = "Comp_I" THEN p.type = "Evict" ELSE IsRead(p)
        BY <1>4 DEF Current
    <2>2. p = q
        BY <1>2, <2>1 DEF RequestsInTurn, Received
    <2>3. ~IsWrite(p)
        BY <2>1 DEF IsRead, IsWrite, Gem5ToOpcode
    <2> QED BY <1>1, <2>2, <2>3
<1> QED BY <1>3, <1>4 DEF CompletionTypes

\* Only a write for memory comes to be with memory.
LEMMA ReceivesWrite ==
    ASSUME NEW m, Receives(m)
    PROVE  \/ atMemory' = atMemory
           \/ m.action.type = "SendWriteNoSnp" /\ atMemory' = atMemory \cup {m}
BY DEF Receives, ReceiveCompletion, AnswerSnoop, SendWriteData, AnswerRead, CollectWrite

\* What is taken leaves the rest as it should be.
LEMMA TakeCarries ==
    ASSUME MInv, RInv, NEW c \in Channel, Take(c)
    PROVE  Carrying'
<1>1. RequestsInTurn /\ Carrying /\ Once(Buffers)
    BY DEF RInv, Carrying
<1>2. PICK m \in Carried :
          /\ m.channel = c /\ Formed(m) /\ Receives(m)
          /\ \A x : x \in Carried <=> x \in Carried' \/ x = m
          /\ Once(Buffers')
          /\ Owed(m) => m \notin Carried'
    BY <1>1, TakenMessage
<1>3. Received' = Received /\ UNCHANGED counters
    BY DEF Take, Received
<1>4. got' = IF m.action.type \in CompletionTypes
             THEN got \cup {<<m.action.txnId, m.beat>>} ELSE got
    BY <1>2, ReceivedOnly DEF MInv
<1>5. \A x \in Carried : Formed(x) /\ Current(x)
    BY <1>1, CarriedBuffers DEF Carrying, MInv, Flowing
<1>6. ASSUME NEW x, Current(x),
             x.action.type = "SendCompDBIDResp" => x \in Carried'
      PROVE  Current(x)'
    <2>1. ASSUME x.action.type = "SendCompDBIDResp", NEW p \in got'
          PROVE  p[1] # x.action.txnId
        <3>1. CASE p \in got
            BY <1>6, <2>1, <3>1 DEF Current
        <3>2. CASE p \notin got
            <4>1. m.action.type \in CompletionTypes /\ p[1] = m.action.txnId
                BY <1>4, <2>1, <3>2
            <4>2. x \in Carried' /\ x \in Carried /\ Formed(x)
                BY <1>2, <1>5, <1>6, <2>1
            <4>3. x # m
                BY <1>2, <2>1, <4>2 DEF Owed, OwedTypes
            <4> QED BY <1>1, <1>2, <1>5, <1>6, <2>1, <4>1, <4>2, <4>3, StillAsked
        <3> QED BY <3>1, <3>2
    <2>2. x.action.type \in SnoopTypes =>
              x.action.txnId \in SnoopIdBase .. nextSnoopTxnId' - 1
        BY <1>3, <1>6 DEF Current, counters
    <2>3. x.action.type \in MemTypes =>
              x.action.txnId \in MemIdBase .. nextInternalTxnId' - 1
        BY <1>3, <1>6 DEF Current, counters
    <2> QED BY <1>3, <1>6, <2>1, <2>2, <2>3 DEF Current
<1>7. \A x \in Carried' : Current(x)'
    BY <1>2, <1>5, <1>6
<1>8. \/ atMemory' = atMemory
      \/ m.action.type = "SendWriteNoSnp" /\ atMemory' = atMemory \cup {m}
    BY <1>2, ReceivesWrite
<1>9. WithMemory'
    <2>1. ASSUME NEW x \in atMemory'
          PROVE  /\ Formed(x) /\ Current(x)'
                 /\ x.action.type = "SendWriteNoSnp" /\ x \notin Carried'
        <3>1. CASE x \in atMemory
            <4>1. /\ Formed(x) /\ Current(x)
                  /\ x.action.type = "SendWriteNoSnp" /\ x \notin Carried
                BY <1>1, <3>1 DEF Carrying, WithMemory
            <4> QED BY <1>2, <1>6, <4>1
        <3>2. CASE x = m /\ m.action.type = "SendWriteNoSnp"
            BY <1>2, <1>5, <1>6, <3>2 DEF Owed, OwedTypes, MemTypes
        <3> QED BY <1>8, <2>1, <3>1, <3>2
    <2> QED BY <2>1 DEF WithMemory
<1>10. Carried' \cup atMemory' \subseteq Carried \cup atMemory
    BY <1>2, <1>8
<1>11. OneActionPerId'
    BY <1>1, <1>10 DEF Carrying, OneActionPerId
<1>12. Once(Buffers)'
    BY <1>2
<1> QED BY <1>7, <1>9, <1>11, <1>12 DEF Carrying

-----------------------------------------------------------------------------
(* Ids, requests and entries *)

\* What has been received stays so.
LEMMA FinishedKept ==
    ASSUME NEW q, Finished(q), got \subseteq got'
    PROVE  Finished(q)'
BY DEF Finished

\* The requests keep their turn when no new one is made.
LEMMA TurnKept ==
    ASSUME RequestsInTurn, issued' = issued, reqIn' \subseteq reqIn, got \subseteq got',
           Received \subseteq Received',
           \A p \in got' \ got : \E q \in Received : q.txnID = p[1]
    PROVE  RequestsInTurn'
<1>1. \A q : Finished(q) => Finished(q)'
    BY FinishedKept
<1>2. \A p \in got' : \E q \in Received' : q.txnID = p[1]
    BY DEF RequestsInTurn
<1>3. \A r \in reqIn' : \A q \in issued' \ {r} :
          (q.srcNodeID = r.srcNodeID /\ q.addr = r.addr) => Finished(q)'
    BY <1>1 DEF RequestsInTurn
<1> QED BY <1>2, <1>3 DEF RequestsInTurn

\* Entries and ids stay those of requests when no request is taken.
LEMMA BooksKept ==
    ASSUME RInv, EngineTypeOK, Received' = Received,
           Shrinks \/ UNCHANGED <<tables, counters>>,
           ResponsesApart', RequestsInTurn'
    PROVE  Bookkeeping'
<1>1. /\ UNCHANGED counters
      /\ DOMAIN pending' \subseteq DOMAIN pending
      /\ \A k \in DOMAIN pending' : /\ pending'[k].origReq = pending[k].origReq
                                    /\ pending'[k].state = pending[k].state
      /\ DOMAIN snoopToOrig' \subseteq DOMAIN snoopToOrig
      /\ \A s \in DOMAIN snoopToOrig' : snoopToOrig'[s] = snoopToOrig[s]
    BY DEF Shrinks, tables
<1>2. EntriesOfRequests'
    BY <1>1 DEF RInv, EntriesOfRequests
<1>3. IdsCounted'
    BY <1>1 DEF RInv, IdsCounted, counters
<1> QED BY <1>2, <1>3 DEF Bookkeeping

\* A request that the engine is given has its entry and its snoop ids.
LEMMA RequestBooks ==
    ASSUME MInv, RInv, NEW r \in reqIn, r.type # "Evict", RecvRequest(TxnOf(r)),
           Received' = Received \cup {r}, reqIn' \subseteq reqIn,
           UNCHANGED <<issued, got, rspIn>>
    PROVE  Bookkeeping'
<1>1. /\ EngineTypeOK /\ issued \subseteq Requests /\ r \in issued \ Received
      /\ RequestsInTurn /\ IdsCounted /\ EntriesOfRequests /\ ResponsesApart
    BY DEF MInv, TypeOK, RInv, Received
<1>2. PICK txn \in ChiTransaction : txn = TxnOf(r)
    BY <1>1, TxnTypes
<1>3. txn.opcode \in WriteOps <=> IsWrite(r)
    BY <1>1, <1>2, TxnWrites
<1>4. RequestSends(txn) /\ RequestEnters(txn)
    BY <1>1, <1>2, RequestsSend
<1>5. RequestsInTurn'
    BY <1>1, TurnKept
<1>6. ResponsesApart'
    BY <1>1 DEF ResponsesApart
<1>7. nextInternalTxnId >= MemIdBase
    BY <1>1 DEF IdsCounted
<1>8. ASSUME NEW k \in DOMAIN pending'
      PROVE  \E q \in Received' :
                /\ q.type # "Evict"
                /\ pending'[k].origReq = TxnOf(q)
                /\ pending'[k].state # "WaitL1Data" => ~IsWrite(q)
                /\ k = q.txnID \/ k >= MemIdBase
    <2>1. CASE k \in DOMAIN pending /\ pending'[k] = pending[k]
        BY <1>1, <2>1 DEF EntriesOfRequests
    <2>2. CASE /\ pending'[k].origReq = txn
               /\ txn.opcode \in WriteOps => pending'[k].state = "WaitL1Data"
               /\ k \in {txn.txnID, nextInternalTxnId}
        <3>1. txn.txnID = r.txnID
            BY <1>2 DEF TxnOf
        <3> QED BY <1>2, <1>3, <1>7, <2>2, <3>1
    <2> QED BY <1>4, <2>1, <2>2 DEF RequestEnters
<1>9. ASSUME NEW s \in DOMAIN snoopToOrig'
      PROVE  \E q \in Received' : IsRead(q) /\ q.txnID = snoopToOrig'[s]
    <2>1. CASE s \in DOMAIN snoopToOrig /\ snoopToOrig'[s] = snoopToOrig[s]
        BY <1>1, <2>1 DEF EntriesOfRequests
    <2>2. CASE snoopToOrig'[s] = txn.txnID /\ txn.opcode \notin WriteOps
        BY <1>2, <1>3, <2>2 DEF TxnOf, IsRead
    <2> QED BY <1>4, <2>1, <2>2 DEF RequestEnters
<1>10. EntriesOfRequests'
    BY <1>8, <1>9 DEF EntriesOfRequests
<1>11. IdsCounted'
    <2>1. PICK w \in Nat : w = Cardinality(Nodes)
        BY NodesAssumption, FS_CardinalityType
    <2>2. Received \in SUBSET issued
        BY DEF Received
    <2>3. PICK k \in Nat : k = Cardinality(Received) /\ Cardinality(Received') = k + 1
        BY <1>1, <2>2, OneMoreCount
    <2>4. PICK n \in Nat : n = nextSnoopTxnId /\ n <= SnoopIdBase + k * w
        BY <1>1, <2>1, <2>3 DEF EngineTypeOK, IdsCounted
    <2>5. PICK d \in 0 .. w : nextSnoopTxnId' = n + d
        <3>1. PICK p \in n .. n + w : nextSnoopTxnId' = p
            BY <1>4, <2>1, <2>4 DEF RequestSends
        <3>2. p - n \in 0 .. w /\ p = n + (p - n)
            OBVIOUS
        <3> QED BY <3>1, <3>2
    <2>6. nextSnoopTxnId' <= SnoopIdBase + (k + 1) * w
        BY <2>4, <2>5, OneMoreTimes, IdsAssumption
    <2>7. nextSnoopTxnId' >= SnoopIdBase
        BY <1>1, <2>4, <2>5, IdsAssumption DEF IdsCounted
    <2>8. nextInternalTxnId' >= MemIdBase
        BY <1>1, <1>4, IdsAssumption DEF RequestSends, IdsCounted, EngineTypeOK
    <2>9. nextSnoopTxnId' <= SnoopIdBase + Cardinality(Received') * Cardinality(Nodes)
        BY <2>1, <2>3, <2>6
    <2> QED BY <2>7, <2>8, <2>9 DEF IdsCounted
<1> QED BY <1>5, <1>6, <1>10, <1>11 DEF Bookkeeping

\* An Evict takes none.
LEMMA EvictBooks ==
    ASSUME MInv, RInv, NEW r \in reqIn, UNCHANGED <<tables, counters>>,
           Received' = Received \cup {r}, reqIn' \subseteq reqIn,
           UNCHANGED <<issued, got, rspIn>>
    PROVE  Bookkeeping'
<1>1. /\ EngineTypeOK /\ issued \subseteq Requests /\ r \in issued \ Received
      /\ RequestsInTurn /\ IdsCounted /\ EntriesOfRequests /\ ResponsesApart
    BY DEF MInv, TypeOK, RInv, Received
<1>2. RequestsInTurn'
    BY <1>1, TurnKept
<1>3. ResponsesApart'
    BY <1>1 DEF ResponsesApart
<1>4. EntriesOfRequests'
    BY <1>1 DEF EntriesOfRequests, tables
<1>5. IdsCounted'
    <2>1. PICK w \in Nat : w = Cardinality(Nodes)
        BY NodesAssumption, FS_CardinalityType
    <2>2. Received \in SUBSET issued
        BY DEF Received
    <2>3. PICK k \in Nat : k = Cardinality(Received) /\ Cardinality(Received') = k + 1
        BY <1>1, <2>2, OneMoreCount
    <2>4. PICK n \in Nat : n = nextSnoopTxnId /\ n <= SnoopIdBase + k * w
        BY <1>1, <2>1, <2>3 DEF EngineTypeOK, IdsCounted
    <2>5. n + 0 <= SnoopIdBase + (k + 1) * w
        <3>1. 0 \in 0 .. w
            BY <2>1
        <3> QED BY <2>4, <3>1, OneMoreTimes, IdsAssumption
    <2>6. nextSnoopTxnId' = n /\ n + 0 = n /\ nextInternalTxnId' = nextInternalTxnId
        BY <2>4 DEF counters
    <2>7. nextSnoopTxnId' <= SnoopIdBase + Cardinality(Received') * Cardinality(Nodes)
        BY <2>1, <2>3, <2>5, <2>6
    <2> QED BY <1>1, <2>4, <2>6, <2>7 DEF IdsCounted
<1> QED BY <1>2, <1>3, <1>4, <1>5 DEF Bookkeeping

-----------------------------------------------------------------------------
(* The steps *)

\* A request that has come.
LEMMA RequestApart ==
    ASSUME MInv, RInv, NEW r \in reqIn, RecvRequestMsg(r)
    PROVE  RInv'
<1>1. /\ EngineTypeOK /\ r \in Requests /\ reqIn \subseteq issued
      /\ UNCHANGED <<issued, got, atMemory, rspIn>> /\ reqIn' = reqIn \ {r}
    BY DEF MInv, TypeOK, RecvRequestMsg, DequeueRequest, peers
<1>2. Received' = Received \cup {r} /\ reqIn' \subseteq reqIn
    BY <1>1 DEF Received
<1>3. CASE r.type = "Evict" /\ InvalidateLine(r.addr) /\ Send(SendComp("Comp_I", Comp(r)))
    <2>1. UNCHANGED <<tables, counters>>
        BY <1>3 DEF InvalidateLine
    <2>2. Carrying'
        BY <1>1, <1>2, <1>3, <2>1, EvictCarries
    <2>3. Bookkeeping'
        BY <1>1, <1>2, <2>1, EvictBooks
    <2> QED BY <2>2, <2>3 DEF Carrying, Bookkeeping, RInv
<1>4. CASE r.type # "Evict" /\ RecvRequest(TxnOf(r)) /\ ExecuteActions
    <2>1. PICK txn \in ChiTransaction : txn = TxnOf(r) /\ RecvRequest(txn)
        BY <1>1, <1>4, TxnTypes
    <2>2. EngineTypeOK'
        BY <1>1, <2>1, RequestMoves, RequestKeepsEngine DEF RequestMove
    <2>3. Carrying'
        BY <1>1, <1>2, <1>4, <2>2, RequestCarries
    <2>4. Bookkeeping'
        BY <1>1, <1>2, <1>4, RequestBooks
    <2> QED BY <2>3, <2>4 DEF Carrying, Bookkeeping, RInv
<1> QED BY <1>3, <1>4 DEF RecvRequestMsg

\* An answer of the peers.
LEMMA AnswerApart ==
    ASSUME MInv, RInv, NEW id,
           \/ \E addr : \E data \in Data : RecvData(id, addr, data)
           \/ RecvResponse(id),
           ExecuteActions, UNCHANGED <<issued, got, atMemory, reqIn>>,
           rspIn' \subseteq rspIn
    PROVE  RInv'
<1>1. EngineTypeOK
    BY DEF MInv, TypeOK
<1>2. EngineTypeOK' /\ Shrinks
    BY <1>1, AnswersKeepEngine
<1>3. Listed /\ AnswerSends
    BY AnswersListed, AnswersSend
<1>4. Carrying'
    BY <1>2, <1>3, AnswerCarries
<1>5. Received' = Received /\ RequestsInTurn'
    BY TurnKept DEF Received, RInv
<1>6. ResponsesApart'
    BY DEF RInv, ResponsesApart
<1>7. Bookkeeping'
    BY <1>1, <1>2, <1>5, <1>6, BooksKept
<1> QED BY <1>4, <1>7 DEF Carrying, Bookkeeping, RInv

\* Data that has come.
LEMMA DataApart ==
    ASSUME MInv, RInv, NEW d \in datIn, RecvDataMsg(d)
    PROVE  RInv'
<1>1. d.data \in Data
    BY DEF MInv
<1>2. RecvData(d.txnId, d.addr, d.data) /\ ExecuteActions
    BY DEF RecvDataMsg
<1>3. UNCHANGED <<issued, got, atMemory, reqIn>> /\ rspIn' \subseteq rspIn
    BY DEF RecvDataMsg, DequeueData, peers
<1> QED BY <1>1, <1>2, <1>3, AnswerApart

\* Nothing moves that the invariant is about.
LEMMA QuietApart ==
    ASSUME MInv, RInv, UNCHANGED <<sending, tables, counters, got>>,
           atMemory' \subseteq atMemory, Received' = Received,
           ResponsesApart', RequestsInTurn'
    PROVE  RInv'
<1>1. Buffers' = Buffers /\ Carried' = Carried /\ EngineTypeOK
    BY DEF sending, Buffers, Carried, MInv, TypeOK
<1>2. Carrying'
    BY <1>1, SameCarried DEF RInv
<1>3. Bookkeeping'
    BY <1>1, BooksKept
<1> QED BY <1>2, <1>3 DEF Carrying, Bookkeeping, RInv

\* A response that has come.
LEMMA ResponseApart ==
    ASSUME MInv, RInv, NEW m \in rspIn, RecvResponseMsg(m)
    PROVE  RInv'
<1>1. UNCHANGED <<issued, got, atMemory, reqIn>> /\ rspIn' \subseteq rspIn
    BY DEF RecvResponseMsg, DequeueResponse, peers
<1>2. CASE m.type = "CompAck" /\ UNCHANGED <<engineVars, sending>>
    <2>1. Received' = Received /\ RequestsInTurn'
        BY <1>1, TurnKept DEF Received, RInv
    <2>2. ResponsesApart'
        BY <1>1 DEF RInv, ResponsesApart
    <2>3. UNCHANGED <<sending, tables, counters, got>>
        BY <1>1, <1>2 DEF engineVars
    <2> QED BY <1>1, <2>1, <2>2, <2>3, QuietApart
<1>3. CASE RecvResponse(m.txnId) /\ ExecuteActions
    BY <1>1, <1>3, AnswerApart
<1> QED BY <1>2, <1>3 DEF RecvResponseMsg

\* A retry of what waits.
LEMMA RetryApart ==
    ASSUME MInv, RInv, ProcessTriggerQueue
    PROVE  RInv'
<1>1. UNCHANGED <<issued, got, atMemory, reqIn, rspIn, tables, counters>>
    BY DEF ProcessTriggerQueue, engineVars, peers, incoming
<1>2. Received' = Received /\ RequestsInTurn'
    BY <1>1, TurnKept DEF Received, RInv
<1>3. ResponsesApart'
    BY <1>1 DEF RInv, ResponsesApart
<1>4. Carried' = Carried /\ Once(Buffers')
    BY RetryCarried DEF RInv
<1>5. Carrying'
    BY <1>1, <1>2, <1>4, SameCarried
<1>6. Bookkeeping'
    BY <1>1, <1>2, <1>3, BooksKept DEF MInv, TypeOK
<1> QED BY <1>5, <1>6 DEF Carrying, Bookkeeping, RInv

\* A new request.
LEMMA NewRequestApart ==
    ASSUME MInv, RInv, NEW r \in Requests, SendRequest(r)
    PROVE  RInv'
<1>1. /\ issued' = issued \cup {r} /\ reqIn' = reqIn \cup {r}
      /\ UNCHANGED <<engineVars, sending, got, atMemory, rspIn>>
    BY DEF SendRequest
<1>2. RequestsInTurn /\ reqIn \subseteq issued
    BY DEF MInv, TypeOK, RInv
<1>3. \A q \in issued : q.txnID # r.txnID
    BY DEF SendRequest
<1>4. Received' = Received
    BY <1>1, <1>2, <1>3 DEF Received
<1>5. \A q : Finished(q)' <=> Finished(q)
    BY <1>1 DEF Finished
<1>6. \A q \in reqIn : ~Finished(q)
    <2> SUFFICES ASSUME NEW q \in reqIn, Finished(q) PROVE FALSE
        OBVIOUS
    <2>1. PICK b : <<q.txnID, b>> \in got
        <3>1. 1 \in 1 .. Beats
            BY BeatsAssumption
        <3> QED BY <3>1 DEF Finished
    <2>2. PICK p \in Received : p.txnID = q.txnID
        BY <1>2, <2>1 DEF RequestsInTurn
    <2> QED BY <1>2, <2>2 DEF RequestsInTurn, Received
<1>7. \A q \in issued : (q.srcNodeID = r.srcNodeID /\ q.addr = r.addr) => Finished(q)
    BY DEF SendRequest
<1>8. \A x \in reqIn' : \A q \in issued' \ {x} :
          (q.srcNodeID = x.srcNodeID /\ q.addr = x.addr) => Finished(q)'
    <2> SUFFICES ASSUME NEW x \in reqIn', NEW q \in issued' \ {x},
                        q.srcNodeID = x.srcNodeID, q.addr = x.addr
                 PROVE  Finished(q)
        BY <1>5
    <2>1. CASE x = r
        BY <1>1, <1>7, <2>1
    <2>2. CASE x # r /\ q = r
        BY <1>1, <1>2, <1>6, <1>7, <2>2
    <2>3. CASE x # r /\ q # r
        BY <1>1, <1>2, <2>3 DEF RequestsInTurn
    <2> QED BY <2>1, <2>2, <2>3
<1>9. \A x \in reqIn' : x.type \in WriteBackTypes =>
          \E q \in issued' : /\ q.srcNodeID = x.srcNodeID /\ q.addr = x.addr
                             /\ IsRead(q) /\ q.type # "ReadOnce"
    <2> SUFFICES ASSUME NEW x \in reqIn', x.type \in WriteBackTypes
                 PROVE  \E q \in issued : /\ q.srcNodeID = x.srcNodeID /\ q.addr = x.addr
                                          /\ IsRead(q) /\ q.type # "ReadOnce"
        BY <1>1
    <2>1. CASE x = r
        BY <2>1 DEF SendRequest, IsRead
    <2>2. CASE x # r
        BY <1>1, <1>2, <2>2 DEF RequestsInTurn
    <2> QED BY <2>1, <2>2
<1>10. \A q, x \in issued' : q.txnID = x.txnID => q = x
    BY <1>1, <1>2, <1>3 DEF RequestsInTurn
<1>11. \A p \in got' : \E q \in Received' : q.txnID = p[1]
    BY <1>1, <1>2, <1>4 DEF RequestsInTurn
<1>12. RequestsInTurn'
    BY <1>8, <1>9, <1>10, <1>11 DEF RequestsInTurn
<1>13. ResponsesApart'
    BY <1>1 DEF RInv, ResponsesApart
<1>14. UNCHANGED <<sending, tables, counters, got>> /\ atMemory' \subseteq atMemory
    BY <1>1 DEF engineVars
<1> QED BY <1>4, <1>12, <1>13, <1>14, QuietApart

\* An acknowledgement by memory.
LEMMA AcknowledgeApart ==
    ASSUME MInv, RInv, NEW m \in atMemory, AcknowledgeWrite(m.action.txnId)
    PROVE  RInv'
<1>1. /\ UNCHANGED <<tables, counters, sending, issued, got, reqIn>>
      /\ atMemory' \subseteq atMemory
      /\ rspIn' = rspIn \cup {Response("Comp", m.action.txnId)}
    BY DEF AcknowledgeWrite
<1>2. Received' = Received /\ RequestsInTurn'
    BY <1>1, TurnKept DEF Received, RInv
<1>3. m.action.txnId \in MemIdBase .. nextInternalTxnId - 1
    BY DEF RInv, WithMemory, Current, MemTypes
<1>4. m.action.txnId \in Nat \ (0 .. MemIdBase - 1)
    BY <1>3, IdsAssumption
<1>5. ResponsesApart'
    <2>1. ASSUME NEW x \in rspIn'
          PROVE  /\ x = Response(x.type, x.txnId)
                 /\ x.type \in {"CompAck", "SnpResp", "Comp"}
                 /\ x.type = "SnpResp" => x.txnId \in 0 .. MemIdBase - 1
                 /\ x.type = "Comp" => x.txnId \in Nat \ (0 .. MemIdBase - 1)
        <3>1. CASE x \in rspIn
            BY <3>1 DEF RInv, ResponsesApart
        <3>2. CASE x = Response("Comp", m.action.txnId)
            BY <1>4, <3>2 DEF Response
        <3> QED BY <1>1, <3>1, <3>2
    <2> QED BY <2>1 DEF ResponsesApart
<1> QED BY <1>1, <1>2, <1>5, QuietApart

\* A message that is taken.
LEMMA TakeApart ==
    ASSUME MInv, RInv, NEW c \in Channel, Take(c)
    PROVE  RInv'
<1>1. /\ RequestsInTurn /\ Carrying /\ Once(Buffers) /\ EngineTypeOK
      /\ issued \subseteq Requests /\ IdsCounted
    BY DEF MInv, TypeOK, RInv, Carrying
<1>2. PICK m \in Carried : Formed(m) /\ Receives(m)
    BY <1>1, TakenMessage
<1>3. Current(m)
    BY <1>1 DEF Carrying
<1>4. UNCHANGED <<tables, counters, issued, reqIn>> /\ Received' = Received
    BY DEF Take, Received
<1>5. got' = IF m.action.type \in CompletionTypes
             THEN got \cup {<<m.action.txnId, m.beat>>} ELSE got
    BY <1>2, ReceivedOnly DEF MInv
<1>6. m.action.type \in CompletionTypes => \E q \in Received : q.txnID = m.action.txnId
    <2>1. CASE m.action.type = "SendCompDBIDResp"
        <3>1. PICK q \in Received : m.action = CompDBIDResp(TxnOf(q))
            BY <1>3, <2>1 DEF Current
        <3> QED BY <3>1 DEF CompDBIDResp, TxnOf
    <2>2. CASE m.action.type \in {"SendComp", "SendCompData"}
        BY <1>3, <2>2 DEF Current
    <2> QED BY <2>1, <2>2 DEF CompletionTypes
<1>7. RequestsInTurn'
    <2>1. got \subseteq got' /\ \A p \in got' \ got : \E q \in Received : q.txnID = p[1]
        BY <1>5, <1>6
    <2> QED BY <1>1, <1>4, <2>1, TurnKept
<1>8. m.channel = "snp" => m.action.txnId \in 0 .. MemIdBase - 1
    <2> SUFFICES ASSUME m.channel = "snp" PROVE m.action.txnId \in 0 .. MemIdBase - 1
        OBVIOUS
    <2>1. m.action.type \in SnoopTypes
        BY <1>2, FormedFacts
    <2>2. m.action.txnId \in SnoopIdBase .. nextSnoopTxnId - 1
        BY <1>3, <2>1 DEF Current
    <2>3. nextSnoopTxnId <= MemIdBase /\ nextSnoopTxnId \in Nat /\ MemIdBase \in Nat
            /\ SnoopIdBase \in Nat
        BY <1>1, IdsInRange, IdsAssumption DEF EngineTypeOK
    <2> QED BY <2>2, <2>3
<1>9. \/ rspIn' = rspIn
      \/ rspIn' = rspIn \cup {Response("CompAck", m.action.txnId)}
      \/ m.channel = "snp" /\ rspIn' = rspIn \cup {Response("SnpResp", m.action.txnId)}
    BY <1>2 DEF Receives, ReceiveCompletion, AnswerSnoop, SendWriteData, AnswerRead,
                CollectWrite
<1>10. ResponsesApart'
    <2>1. ASSUME NEW x \in rspIn'
          PROVE  /\ x = Response(x.type, x.txnId)
                 /\ x.type \in {"CompAck", "SnpResp", "Comp"}
                 /\ x.type = "SnpResp" => x.txnId \in 0 .. MemIdBase - 1
                 /\ x.type = "Comp" => x.txnId \in Nat \ (0 .. MemIdBase - 1)
        <3>1. CASE x \in rspIn
            BY <3>1 DEF RInv, ResponsesApart
        <3>2. CASE x = Response("CompAck", m.action.txnId)
            BY <3>2 DEF Response
        <3>3. CASE m.channel = "snp" /\ x = Response("SnpResp", m.action.txnId)
            BY <1>8, <3>3 DEF Response
        <3> QED BY <1>9, <3>1, <3>2, <3>3
    <2> QED BY <2>1 DEF ResponsesApart
<1>11. Bookkeeping'
    BY <1>1, <1>4, <1>7, <1>10, BooksKept
<1>12. Carrying'
    BY TakeCarries
<1> QED BY <1>11, <1>12 DEF Carrying, Bookkeeping, RInv

\* The initial state has nothing of all this.
LEMMA InitApart == Init => RInv
<1> SUFFICES ASSUME Init PROVE RInv
    OBVIOUS
<1>1. /\ pending = <<>> /\ snoopToOrig = <<>>
      /\ nextSnoopTxnId = SnoopIdBase /\ nextInternalTxnId = MemIdBase
      /\ out = [c \in Channel |-> <<>>] /\ triggerQueue = <<>>
      /\ issued = {} /\ got = {} /\ atMemory = {} /\ reqIn = {} /\ rspIn = {}
    BY DEF Init, EngineInit
<1>2. Carried = {}
    BY <1>1 DEF Carried, ToSet
<1>3. Once(Buffers)
    BY <1>1 DEF Once, OnceIn, Buffers
<1>4. WithMemory /\ OneActionPerId
    BY <1>1, <1>2 DEF WithMemory, OneActionPerId
<1>5. ResponsesApart /\ RequestsInTurn /\ EntriesOfRequests
    BY <1>1 DEF ResponsesApart, RequestsInTurn, EntriesOfRequests
<1>6. IdsCounted
    <2>1. Received = {}
        BY <1>1 DEF Received
    <2>2. Cardinality(Received) = 0
        BY <2>1, FS_EmptySet
    <2>3. PICK w \in Nat : w = Cardinality(Nodes)
        BY NodesAssumption, FS_CardinalityType
    <2> QED BY <1>1, <2>2, <2>3, IdsAssumption DEF IdsCounted
<1> QED BY <1>2, <1>3, <1>4, <1>5, <1>6 DEF RInv

\* Every step keeps it.
LEMMA NextApart ==
    ASSUME MInv, RInv, [Next]_vars
    PROVE  RInv'
<1>1. ASSUME NEW r \in reqIn, RecvRequestMsg(r) PROVE RInv'
    BY <1>1, RequestApart
<1>2. ASSUME NEW d \in datIn, RecvDataMsg(d) PROVE RInv'
    BY <1>2, DataApart
<1>3. ASSUME NEW m \in rspIn, RecvResponseMsg(m) PROVE RInv'
    BY <1>3, ResponseApart
<1>4. CASE ProcessTriggerQueue
    BY <1>4, RetryApart
<1>5. ASSUME NEW c \in Channel, Take(c) PROVE RInv'
    BY <1>5, TakeApart
<1>6. CASE Acknowledge
    BY <1>6, AcknowledgeApart DEF Acknowledge
<1>7. ASSUME NEW r \in Requests, SendRequest(r) PROVE RInv'
    BY <1>7, NewRequestApart
<1>8. ASSUME UNCHANGED <<tables, counters, sending, peers, incoming>> PROVE RInv'
    <2>1. Received' = Received /\ RequestsInTurn'
        BY <1>8, TurnKept DEF Received, RInv, peers, incoming
    <2>2. ResponsesApart'
        BY <1>8 DEF RInv, ResponsesApart, incoming
    <2>3. UNCHANGED <<sending, tables, counters, got>> /\ atMemory' \subseteq atMemory
        BY <1>8 DEF peers
    <2> QED BY <2>1, <2>2, <2>3, QuietApart
<1>9. CASE RetryWakeup
    BY <1>8, <1>9 DEF RetryWakeup, engineVars
<1>10. ASSUME NEW addr, NEW data, FunctionalWrite(addr, data) PROVE RInv'
    BY <1>8, <1>10 DEF FunctionalWrite
<1>11. CASE UNCHANGED vars
    BY <1>8, <1>11 DEF vars, engineVars
<1> QED BY <1>1, <1>2, <1>3, <1>4, <1>5, <1>6, <1>7, <1>9, <1>10, <1>11 DEF Next, Wakeup

\* What is owed is in one place, under one id and for one request, always.
THEOREM OwedInOnePlace == Spec => [](MInv /\ RInv)
<1>1. Init => MInv /\ RInv
    BY InitMInv, InitApart
<1>2. (MInv /\ RInv) /\ [Next]_vars => (MInv /\ RInv)'
    BY NextMInv, NextApart
<1> QED BY <1>1, <1>2, PTL DEF Spec

-----------------------------------------------------------------------------
(* The engine is the same in ChiL2System: the storage operations *)

\* ChiL2System's GetTag is this one.
LEMMA SameGetTag ==
    ASSUME NEW addr
    PROVE  System!GetTag(addr) = GetTag(addr)
BY DEF GetTag, System!GetTag

\* ChiL2System's GetSetIndex is this one.
LEMMA SameGetSetIndex ==
    ASSUME NEW addr
    PROVE  System!GetSetIndex(addr) = GetSetIndex(addr)
BY DEF GetSetIndex, System!GetSetIndex

\* ChiL2System's Present is this one.
LEMMA SamePresent ==
    ASSUME NEW c, NEW addr
    PROVE  System!Present(c, addr) <=> Present(c, addr)
BY DEF Present, WayOf, FindWay, FirstWay, NoWay, Way, IsValid, SetOf, GetSetIndex, GetTag,
       System!Present, System!WayOf, System!FindWay, System!FirstWay, System!NoWay,
       System!Way, System!IsValid, System!SetOf, System!GetSetIndex, System!GetTag

\* ChiL2System's LineOf is this one.
LEMMA SameLineOf ==
    ASSUME NEW c, NEW addr
    PROVE  System!LineOf(c, addr) = LineOf(c, addr)
BY DEF LineOf, SetOf, GetSetIndex, WayOf, FindWay, FirstWay, NoWay, Way, IsValid, GetTag,
       System!LineOf, System!SetOf, System!GetSetIndex, System!WayOf, System!FindWay,
       System!FirstWay, System!NoWay, System!Way, System!IsValid, System!GetTag

\* ChiL2System's GetSharers is this one.
LEMMA SameGetSharers ==
    ASSUME NEW c, NEW addr
    PROVE  System!GetSharers(c, addr) = GetSharers(c, addr)
BY DEF GetSharers, Present, WayOf, FindWay, FirstWay, NoWay, Way, IsValid, SetOf,
       GetSetIndex, GetTag, LineOf, System!GetSharers, System!Present, System!WayOf,
       System!FindWay, System!FirstWay, System!NoWay, System!Way, System!IsValid,
       System!SetOf, System!GetSetIndex, System!GetTag, System!LineOf

\* ChiL2System's GetState is this one.
LEMMA SameGetState ==
    ASSUME NEW c, NEW addr
    PROVE  System!GetState(c, addr) = GetState(c, addr)
BY DEF GetState, Present, WayOf, FindWay, FirstWay, NoWay, Way, IsValid, SetOf,
       GetSetIndex, GetTag, LineOf, System!GetState, System!Present, System!WayOf,
       System!FindWay, System!FirstWay, System!NoWay, System!Way, System!IsValid,
       System!SetOf, System!GetSetIndex, System!GetTag, System!LineOf

\* ChiL2System's NeedsWriteback is this one.
LEMMA SameNeedsWriteback ==
    ASSUME NEW c, NEW addr
    PROVE  System!NeedsWriteback(c, addr) <=> NeedsWriteback(c, addr)
BY DEF NeedsWriteback, Present, WayOf, FindWay, FirstWay, NoWay, Way, IsValid, SetOf,
       GetSetIndex, GetTag, IsDirty, LineOf, System!NeedsWriteback, System!Present,
       System!WayOf, System!FindWay, System!FirstWay, System!NoWay, System!Way,
       System!IsValid, System!SetOf, System!GetSetIndex, System!GetTag, System!IsDirty,
       System!LineOf

\* ChiL2System's GetData is this one.
LEMMA SameGetData ==
    ASSUME NEW c, NEW addr
    PROVE  System!GetData(c, addr) = GetData(c, addr)
BY DEF GetData, LineOf, SetOf, GetSetIndex, WayOf, FindWay, FirstWay, NoWay, Way, IsValid,
       GetTag, System!GetData, System!LineOf, System!SetOf, System!GetSetIndex,
       System!WayOf, System!FindWay, System!FirstWay, System!NoWay, System!Way,
       System!IsValid, System!GetTag

\* ChiL2System's LookupResult is this one.
LEMMA SameLookupResult ==
    ASSUME NEW c, NEW addr
    PROVE  System!LookupResult(c, addr) = LookupResult(c, addr)
BY DEF LookupResult, Present, WayOf, FindWay, FirstWay, NoWay, Way, IsValid, SetOf,
       GetSetIndex, GetTag, Hit, FindInvalid, IsDirty, VictimLine, VictimWay,
       System!LookupResult, System!Present, System!WayOf, System!FindWay, System!FirstWay,
       System!NoWay, System!Way, System!IsValid, System!SetOf, System!GetSetIndex,
       System!GetTag, System!Hit, System!FindInvalid, System!IsDirty, System!VictimLine,
       System!VictimWay

\* ChiL2System's Lookup is this one.
LEMMA SameLookup ==
    ASSUME NEW c, NEW addr
    PROVE  System!Lookup(c, addr) = Lookup(c, addr)
BY DEF Lookup, Present, WayOf, FindWay, FirstWay, NoWay, Way, IsValid, SetOf, GetSetIndex,
       GetTag, Touch, TouchedRanks, System!Lookup, System!Present, System!WayOf,
       System!FindWay, System!FirstWay, System!NoWay, System!Way, System!IsValid,
       System!SetOf, System!GetSetIndex, System!GetTag, System!Touch, System!TouchedRanks

\* ChiL2System's Fill is this one.
LEMMA SameFill ==
    ASSUME NEW c, NEW addr, NEW state, NEW data
    PROVE  System!Fill(c, addr, state, data) = Fill(c, addr, state, data)
BY DEF Fill, FillWay, SetOf, GetSetIndex, Present, WayOf, FindWay, FirstWay, NoWay, Way,
       IsValid, GetTag, FindInvalid, VictimWay, GetSharers, LineOf, Touch, TouchedRanks,
       WithLine, System!Fill, System!FillWay, System!SetOf, System!GetSetIndex,
       System!Present, System!WayOf, System!FindWay, System!FirstWay, System!NoWay,
       System!Way, System!IsValid, System!GetTag, System!FindInvalid, System!VictimWay,
       System!GetSharers, System!LineOf, System!Touch, System!TouchedRanks,
       System!WithLine

\* ChiL2System's AddSharer is this one.
LEMMA SameAddSharer ==
    ASSUME NEW c, NEW addr, NEW node
    PROVE  System!AddSharer(c, addr, node) = AddSharer(c, addr, node)
BY DEF AddSharer, Present, WayOf, FindWay, FirstWay, NoWay, Way, IsValid, SetOf,
       GetSetIndex, GetTag, System!AddSharer, System!Present, System!WayOf,
       System!FindWay, System!FirstWay, System!NoWay, System!Way, System!IsValid,
       System!SetOf, System!GetSetIndex, System!GetTag

\* ChiL2System's ClearSharers is this one.
LEMMA SameClearSharers ==
    ASSUME NEW c, NEW addr
    PROVE  System!ClearSharers(c, addr) = ClearSharers(c, addr)
BY DEF ClearSharers, Present, WayOf, FindWay, FirstWay, NoWay, Way, IsValid, SetOf,
       GetSetIndex, GetTag, System!ClearSharers, System!Present, System!WayOf,
       System!FindWay, System!FirstWay, System!NoWay, System!Way, System!IsValid,
       System!SetOf, System!GetSetIndex, System!GetTag

\* ChiL2System's SetState is this one.
LEMMA SameSetState ==
    ASSUME NEW c, NEW addr, NEW state
    PROVE  System!SetState(c, addr, state) = SetState(c, addr, state)
BY DEF SetState, Present, WayOf, FindWay, FirstWay, NoWay, Way, IsValid, SetOf,
       GetSetIndex, GetTag, System!SetState, System!Present, System!WayOf, System!FindWay,
       System!FirstWay, System!NoWay, System!Way, System!IsValid, System!SetOf,
       System!GetSetIndex, System!GetTag

\* ChiL2System's WriteData is this one.
LEMMA SameWriteData ==
    ASSUME NEW c, NEW addr, NEW data
    PROVE  System!WriteData(c, addr, data) = WriteData(c, addr, data)
BY DEF WriteData, Present, WayOf, FindWay, FirstWay, NoWay, Way, IsValid, SetOf,
       GetSetIndex, GetTag, System!WriteData, System!Present, System!WayOf,
       System!FindWay, System!FirstWay, System!NoWay, System!Way, System!IsValid,
       System!SetOf, System!GetSetIndex, System!GetTag

\* ChiL2System's Invalidate is this one.
LEMMA SameInvalidate ==
    ASSUME NEW c, NEW addr
    PROVE  System!Invalidate(c, addr) = Invalidate(c, addr)
BY DEF Invalidate, Present, WayOf, FindWay, FirstWay, NoWay, Way, IsValid, SetOf,
       GetSetIndex, GetTag, ClearedLine, System!Invalidate, System!Present, System!WayOf,
       System!FindWay, System!FirstWay, System!NoWay, System!Way, System!IsValid,
       System!SetOf, System!GetSetIndex, System!GetTag, System!ClearedLine

\* ChiL2System's EmptyCache is this one.
LEMMA SameEmptyCache == System!EmptyCache = EmptyCache
BY DEF EmptyCache, SetIndex, EmptySet, Way, ClearedLine, System!EmptyCache,
       System!SetIndex, System!EmptySet, System!Way, System!ClearedLine


-----------------------------------------------------------------------------
(* Its handlers *)

\* ChiL2System's OtherSharers is this one.
LEMMA SameOtherSharers ==
    ASSUME NEW txn
    PROVE  System!OtherSharers(txn) = OtherSharers(txn)
BY SameGetSharers, Zenon
   DEF OtherSharers, System!OtherSharers

\* ChiL2System's ReadMiss is this one.
LEMMA SameReadMiss ==
    ASSUME NEW txn, NEW target
    PROVE  System!ReadMiss(txn, target) <=> ReadMiss(txn, target)
BY SamePresent, SameLookupResult, Zenon
   DEF ReadMiss, Fault, tables, counters, FetchFromMemory, OpenMemTxn, Put, Waiting,
       ReadNoSnp, System!ReadMiss, System!Fault, System!tables, System!counters,
       System!FetchFromMemory, System!OpenMemTxn, System!Put, System!Waiting,
       System!ReadNoSnp

\* ChiL2System's SnoopOthers is this one.
LEMMA SameSnoopOthers ==
    ASSUME NEW txn, NEW type, NEW retToSrc, NEW target
    PROVE  System!SnoopOthers(txn, type, retToSrc, target)
               <=> SnoopOthers(txn, type, retToSrc, target)
BY Zenon
   DEF SnoopOthers, OtherSharers, GetSharers, Present, WayOf, FindWay, FirstWay, NoWay,
       Way, IsValid, SetOf, GetSetIndex, GetTag, LineOf, Cardinality, Ascending, Lookup,
       Touch, TouchedRanks, Put, Waiting, Snoop, System!SnoopOthers, System!OtherSharers,
       System!GetSharers, System!Present, System!WayOf, System!FindWay, System!FirstWay,
       System!NoWay, System!Way, System!IsValid, System!SetOf, System!GetSetIndex,
       System!GetTag, System!LineOf, System!Cardinality, System!Ascending, System!Lookup,
       System!Touch, System!TouchedRanks, System!Put, System!Waiting, System!Snoop

\* ChiL2System's GrantAlone is this one.
LEMMA SameGrantAlone ==
    ASSUME NEW c, NEW txn, NEW state
    PROVE  System!GrantAlone(c, txn, state) = GrantAlone(c, txn, state)
BY SameAddSharer, SameClearSharers, SameSetState, Zenon
   DEF GrantAlone, System!GrantAlone

\* ChiL2System's HandleReadShared is this one.
LEMMA SameHandleReadShared ==
    ASSUME NEW txn
    PROVE  System!HandleReadShared(txn) <=> HandleReadShared(txn)
BY SamePresent, SameNeedsWriteback, SameGetData, SameLookup, SameAddSharer, SameSetState,
   SameOtherSharers, SameReadMiss, SameSnoopOthers, Zenon
   DEF HandleReadShared, HitDirty, Hit, Serve, tables, counters, CompData,
       System!HandleReadShared, System!HitDirty, System!Hit, System!Serve, System!tables,
       System!counters, System!CompData

\* ChiL2System's HandleReadUnique is this one.
LEMMA SameHandleReadUnique ==
    ASSUME NEW txn
    PROVE  System!HandleReadUnique(txn) <=> HandleReadUnique(txn)
BY SamePresent, SameNeedsWriteback, SameGetData, SameLookup, SameOtherSharers,
   SameReadMiss, SameSnoopOthers, SameGrantAlone, Zenon
   DEF HandleReadUnique, Hit, Serve, tables, counters, CompData, HitDirty,
       System!HandleReadUnique, System!Hit, System!Serve, System!tables, System!counters,
       System!CompData, System!HitDirty

\* ChiL2System's HandleReadOnce is this one.
LEMMA SameHandleReadOnce ==
    ASSUME NEW txn
    PROVE  System!HandleReadOnce(txn) <=> HandleReadOnce(txn)
BY SamePresent, SameGetState, SameNeedsWriteback, SameGetData, SameLookup,
   SameOtherSharers, SameReadMiss, SameSnoopOthers, Zenon
   DEF HandleReadOnce, HitDirty, Hit, Serve, tables, counters, CompData, HitState,
       System!HandleReadOnce, System!HitDirty, System!Hit, System!Serve, System!tables,
       System!counters, System!CompData, System!HitState

\* ChiL2System's HandleCleanUnique is this one.
LEMMA SameHandleCleanUnique ==
    ASSUME NEW txn
    PROVE  System!HandleCleanUnique(txn) <=> HandleCleanUnique(txn)
BY SameGetState, SameGetData, SameLookup, SameSetState, SameOtherSharers, SameReadMiss,
   SameSnoopOthers, SameGrantAlone, Zenon
   DEF HandleCleanUnique, HitState, Serve, tables, counters, Comp, OpenMemTxn, Put,
       Waiting, WriteNoSnp, System!HandleCleanUnique, System!HitState, System!Serve,
       System!tables, System!counters, System!Comp, System!OpenMemTxn, System!Put,
       System!Waiting, System!WriteNoSnp

\* ChiL2System's HandleWrite is this one.
LEMMA SameHandleWrite ==
    ASSUME NEW txn
    PROVE  System!HandleWrite(txn) <=> HandleWrite(txn)
BY Zenon
   DEF HandleWrite, AwaitL1Data, Put, Waiting, counters, CompDBIDResp, System!HandleWrite,
       System!AwaitL1Data, System!Put, System!Waiting, System!counters,
       System!CompDBIDResp

\* ChiL2System's HandleWriteNoSnp is this one.
LEMMA SameHandleWriteNoSnp ==
    ASSUME NEW txn
    PROVE  System!HandleWriteNoSnp(txn) <=> HandleWriteNoSnp(txn)
BY Zenon
   DEF HandleWriteNoSnp, AwaitL1Data, Put, Waiting, counters, System!HandleWriteNoSnp,
       System!AwaitL1Data, System!Put, System!Waiting, System!counters

\* ChiL2System's HandleUnmapped is this one.
LEMMA SameHandleUnmapped ==
    ASSUME NEW txn
    PROVE  System!HandleUnmapped(txn) <=> HandleUnmapped(txn)
BY Zenon
   DEF HandleUnmapped, FetchFromMemory, OpenMemTxn, Put, Waiting, ReadNoSnp,
       System!HandleUnmapped, System!FetchFromMemory, System!OpenMemTxn, System!Put,
       System!Waiting, System!ReadNoSnp

\* ChiL2System's RecvRequest is this one.
LEMMA SameRecvRequest ==
    ASSUME NEW txn
    PROVE  System!RecvRequest(txn) <=> RecvRequest(txn)
BY SameHandleReadShared, SameHandleReadUnique, SameHandleReadOnce, SameHandleCleanUnique,
   SameHandleWrite, SameHandleWriteNoSnp, SameHandleUnmapped, Zenon
   DEF RecvRequest, ReadNoSnp, HandleReadNotSharedDirty, WriteOps, WriteNoSnp,
       System!RecvRequest, System!ReadNoSnp, System!HandleReadNotSharedDirty,
       System!WriteOps, System!WriteNoSnp


-----------------------------------------------------------------------------
(* What it does with answers *)

\* ChiL2System's CompletePending is this one.
LEMMA SameCompletePending ==
    ASSUME NEW id, NEW c
    PROVE  System!CompletePending(id, c) <=> CompletePending(id, c)
BY SameGetData, SameAddSharer, SameClearSharers, SameSetState, Zenon
   DEF CompletePending, Erase, SnoopIdsOf, Comp, CompData, counters,
       System!CompletePending, System!Erase, System!SnoopIdsOf, System!Comp,
       System!CompData, System!counters

\* ChiL2System's RecvSnoopData is this one.
LEMMA SameRecvSnoopData ==
    ASSUME NEW id, NEW data
    PROVE  System!RecvSnoopData(id, data) <=> RecvSnoopData(id, data)
BY SameFill, SameCompletePending, Zenon
   DEF RecvSnoopData, NothingToDo, tables, counters, FirstBeat, AllAnswered, KeepWaiting,
       System!RecvSnoopData, System!NothingToDo, System!tables, System!counters,
       System!FirstBeat, System!AllAnswered, System!KeepWaiting

\* ChiL2System's RecvWriteData is this one.
LEMMA SameRecvWriteData ==
    ASSUME NEW k, NEW data
    PROVE  System!RecvWriteData(k, data) <=> RecvWriteData(k, data)
BY SameFill, SameAddSharer, Zenon
   DEF RecvWriteData, Erase, counters, System!RecvWriteData, System!Erase, System!counters

\* ChiL2System's RecvMemData is this one.
LEMMA SameRecvMemData ==
    ASSUME NEW id, NEW data
    PROVE  System!RecvMemData(id, data) <=> RecvMemData(id, data)
BY SameFill, SameAddSharer, Zenon
   DEF RecvMemData, Erase, Comp, CompData, counters, System!RecvMemData, System!Erase,
       System!Comp, System!CompData, System!counters

\* ChiL2System's RecvSnoopResp is this one.
LEMMA SameRecvSnoopResp ==
    ASSUME NEW id
    PROVE  System!RecvSnoopResp(id) <=> RecvSnoopResp(id)
BY SamePresent, SameCompletePending, Zenon
   DEF RecvSnoopResp, NothingToDo, tables, counters, AllAnswered, KeepWaiting, Fault,
       System!RecvSnoopResp, System!NothingToDo, System!tables, System!counters,
       System!AllAnswered, System!KeepWaiting, System!Fault

\* ChiL2System's RecvWriteAck is this one.
LEMMA SameRecvWriteAck ==
    ASSUME NEW id
    PROVE  System!RecvWriteAck(id) <=> RecvWriteAck(id)
BY Zenon
   DEF RecvWriteAck, Erase, counters, System!RecvWriteAck, System!Erase, System!counters

\* ChiL2System's RecvData is this one.
LEMMA SameRecvData ==
    ASSUME NEW id, NEW addr, NEW data
    PROVE  System!RecvData(id, addr, data) <=> RecvData(id, addr, data)
BY SameRecvSnoopData, SameRecvWriteData, SameRecvMemData, Zenon
   DEF RecvData, WriteDataEntries, AwaitsMemData, NothingToDo, tables, counters,
       System!RecvData, System!WriteDataEntries, System!AwaitsMemData, System!NothingToDo,
       System!tables, System!counters

\* ChiL2System's RecvResponse is this one.
LEMMA SameRecvResponse ==
    ASSUME NEW id
    PROVE  System!RecvResponse(id) <=> RecvResponse(id)
BY SameRecvSnoopResp, SameRecvWriteAck, Zenon
   DEF RecvResponse, AwaitsWriteAck, NothingToDo, tables, counters, System!RecvResponse,
       System!AwaitsWriteAck, System!NothingToDo, System!tables, System!counters

\* ChiL2System's InvalidateLine is this one.
LEMMA SameInvalidateLine ==
    ASSUME NEW addr
    PROVE  System!InvalidateLine(addr) <=> InvalidateLine(addr)
BY SameInvalidate, Zenon
   DEF InvalidateLine, tables, counters, System!InvalidateLine, System!tables,
       System!counters

\* ChiL2System's EngineInit is this one.
LEMMA SameEngineInit == System!EngineInit <=> EngineInit
BY SameEmptyCache, Zenon
   DEF EngineInit, System!EngineInit

\* ChiL2System counts a set as it is counted here.
LEMMA SameCardinality ==
    ASSUME NEW S
    PROVE  System!Cardinality(S) = Cardinality(S)
BY DEF System!Cardinality, Cardinality

-----------------------------------------------------------------------------
(* What ChiL2System sees of the messages *)

\* The actions that are carried.
LEMMA ActionsCarried ==
    ASSUME NEW types
    PROVE  /\ \A x : x \in CarriedActions(types) <=>
                  \E m \in Carried : /\ m.type # "Comp_I" /\ m.action.type \in types
                                     /\ m.action = x
           /\ \A x : x \in CarriedActions(types)' <=>
                  \E m \in Carried' : /\ m.type # "Comp_I" /\ m.action.type \in types
                                      /\ m.action = x
BY DEF CarriedActions

\* Every action is sent as some message.
LEMMA SomeMessage ==
    ASSUME NEW x, x.type \in ActionTypes
    PROVE  \E m \in MessagesFor(x) : m.action = x /\ m.type # "Comp_I"
<1>1. \E m : m \in MessagesFor(x)
    <2>1. 1 \in 1 .. Beats
        BY BeatsAssumption
    <2> QED BY <2>1 DEF MessagesFor
<1> QED BY <1>1, MessageForms

\* A call adds its actions to those carried.
LEMMA CallAdds ==
    ASSUME Listed, Carried' = Carried \cup SentMessages, NEW types
    PROVE  CarriedActions(types)' = CarriedActions(types) \cup System!Sent(types)
<1>1. \A x : x \in System!Sent(types) <=>
          \E j \in DOMAIN actions' : actions'[j].type \in types /\ actions'[j] = x
    BY DEF System!Sent
<1>2. ASSUME NEW x \in CarriedActions(types)'
      PROVE  x \in CarriedActions(types) \/ x \in System!Sent(types)
    <2>1. PICK m \in Carried' : /\ m.type # "Comp_I" /\ m.action.type \in types
                                /\ m.action = x
        BY <1>2, ActionsCarried
    <2>2. CASE m \in Carried
        BY <2>1, <2>2, ActionsCarried
    <2>3. CASE m \in SentMessages
        <3>1. PICK j \in DOMAIN actions' : m \in MessagesFor(actions'[j])
            BY <2>3 DEF SentMessages
        <3>2. m.action = actions'[j]
            BY <3>1, MessageForms DEF Listed
        <3> QED BY <1>1, <2>1, <3>2
    <2> QED BY <2>1, <2>2, <2>3
<1>3. ASSUME NEW x \in CarriedActions(types) PROVE x \in CarriedActions(types)'
    BY <1>3, ActionsCarried
<1>4. ASSUME NEW x \in System!Sent(types) PROVE x \in CarriedActions(types)'
    <2>1. PICK j \in DOMAIN actions' : actions'[j].type \in types /\ actions'[j] = x
        BY <1>1, <1>4
    <2>2. \E m \in MessagesFor(x) : m.action = x /\ m.type # "Comp_I"
        BY <2>1, SomeMessage DEF Listed
    <2>3. \E m \in Carried' : m.action = x /\ m.type # "Comp_I"
        BY <2>1, <2>2 DEF SentMessages
    <2> QED BY <2>1, <2>3, ActionsCarried
<1> QED BY <1>2, <1>3, <1>4

\* The writes that memory has received in part.
WritesThere ==
    {m.action : m \in {n \in atMemory : n.action.type = "SendWriteNoSnp"}}

\* Besides them, what memory owes an answer for are carried actions like others.
LEMMA MemRequestsCarried ==
    /\ (\A m \in Carried : Formed(m)) =>
           MemRequestsOut = CarriedActions(MemTypes) \cup WritesThere
    /\ (\A m \in Carried' : Formed(m)) =>
           MemRequestsOut' = CarriedActions(MemTypes)' \cup WritesThere'
<1>1. \A m : Formed(m) /\ m.action.type = "SendWriteNoSnp" => m.type # "Comp_I"
    BY DEF Formed, MessagesFor, Message, SnoopTypes
<1>2. ASSUME \A m \in Carried : Formed(m)
      PROVE  MemRequestsOut = CarriedActions(MemTypes) \cup WritesThere
    BY <1>1, <1>2 DEF MemRequestsOut, CarriedActions, MemTypes, WritesThere
<1>3. ASSUME \A m \in Carried' : Formed(m)
      PROVE  MemRequestsOut' = CarriedActions(MemTypes)' \cup WritesThere'
    BY <1>1, <1>3 DEF MemRequestsOut, CarriedActions, MemTypes, WritesThere
<1> QED BY <1>2, <1>3

\* The requests that have been answered, by what is carried and what is received.
LEMMA AnsweredCases ==
    /\ \A x : x \in AnsweredIds <=>
          \/ \E a \in CarriedActions({"SendComp", "SendCompData"}) : a.txnId = x
          \/ \E q \in issued : /\ IsRead(q) /\ q.txnID = x
                               /\ \E b \in 0 .. Beats : <<x, b>> \in got
    /\ \A x : x \in AnsweredIds' <=>
          \/ \E a \in CarriedActions({"SendComp", "SendCompData"})' : a.txnId = x
          \/ \E q \in issued' : /\ IsRead(q) /\ q.txnID = x
                                /\ \E b \in 0 .. Beats : <<x, b>> \in got'
BY DEF AnsweredIds, IsRead, IsWrite

\* The actions that a call returns are all carried after it.
LEMMA CallCarries ==
    ASSUME MInv, Listed, ExecuteActions
    PROVE  Carried' = Carried \cup SentMessages
<1>1. PICK M : Buffers \in Flows(M) /\ Sound(Buffers)
    BY SoundBuffers DEF MInv, Flowing, TypeOK, Buffers
<1>2. \A x : Carries(Buffers', x) <=> Carries(Buffers, x) \/ x \in SentMessages
    BY <1>1, ExecuteCarries
<1> QED BY <1>2, CarriedBuffers

\* ChiL2System sees no step where the engine rests and what it sees stays.
LEMMA SameView ==
    ASSUME UNCHANGED <<engineVars, issued, got, atMemory, datIn>>, Carried' = Carried,
           UNCHANGED <<ReceivedTxns, ResponsesIn, EvictsSeen>>
    PROVE  UNCHANGED System!vars
<1>1. /\ CarriedActions(SnoopTypes)' = CarriedActions(SnoopTypes)
      /\ CarriedActions({"SendCompDBIDResp"})' = CarriedActions({"SendCompDBIDResp"})
    BY DEF CarriedActions
<1>2. MemRequestsOut' = MemRequestsOut
    BY DEF MemRequestsOut, CarriedActions
<1>3. AnsweredIds' = AnsweredIds
    BY DEF AnsweredIds, CarriedActions
<1> QED BY <1>1, <1>2, <1>3
        DEF System!vars, System!engineVars, System!tables, System!counters,
            System!channels, engineVars, tables, counters

\* All that is carried is well formed.
LEMMA CarriedFormed ==
    /\ MInv => \A m \in Carried : Formed(m)
    /\ MInv' => \A m \in Carried' : Formed(m)
BY CarriedBuffers DEF MInv, Flowing

\* A call's actions go out in ChiL2System as they do here.
LEMMA CallMapped ==
    ASSUME MInv, MInv', Listed, Carried' = Carried \cup SentMessages,
           UNCHANGED <<issued, got, atMemory>>
    PROVE  System!ExecuteActions
<1>1. CarriedActions(SnoopTypes)'
          = CarriedActions(SnoopTypes) \cup System!Sent(SnoopTypes)
    BY CallAdds
<1>2. CarriedActions(MemTypes)' = CarriedActions(MemTypes) \cup System!Sent(MemTypes)
    BY CallAdds
<1>3. CarriedActions({"SendCompDBIDResp"})'
          = CarriedActions({"SendCompDBIDResp"}) \cup System!Sent({"SendCompDBIDResp"})
    BY CallAdds
<1>4. CarriedActions({"SendComp", "SendCompData"})'
          = CarriedActions({"SendComp", "SendCompData"})
                \cup System!Sent({"SendComp", "SendCompData"})
    BY CallAdds
<1>5. WritesThere' = WritesThere
    BY DEF WritesThere
<1>6. MemRequestsOut' = MemRequestsOut \cup System!Sent(MemTypes)
    BY <1>2, <1>5, MemRequestsCarried, CarriedFormed
<1>7. AnsweredIds' = AnsweredIds
          \cup {a.txnId : a \in System!Sent({"SendComp", "SendCompData"})}
    BY <1>4, AnsweredCases
<1>8. System!SnoopTypes = SnoopTypes /\ MemTypes = {"SendReadNoSnp", "SendWriteNoSnp"}
    BY DEF System!SnoopTypes, SnoopTypes, MemTypes
<1> QED BY <1>1, <1>3, <1>6, <1>7, <1>8 DEF System!ExecuteActions

-----------------------------------------------------------------------------
(* The calls of the engine *)

\* Data that has come.
LEMMA DataMapped ==
    ASSUME MInv, MInv', RInv, NEW d \in datIn, RecvDataMsg(d)
    PROVE  System!DeliverData(d)
<1>1. UNCHANGED <<issued, got, atMemory, reqIn, rspIn>> /\ datIn' = datIn \ {d}
    BY DEF RecvDataMsg, DequeueData, peers
<1>2. RecvData(d.txnId, d.addr, d.data) /\ ExecuteActions
    BY DEF RecvDataMsg
<1>3. Listed
    BY <1>2, AnswersListed
<1>4. Carried' = Carried \cup SentMessages
    BY <1>2, <1>3, CallCarries
<1>5. System!ExecuteActions
    BY <1>1, <1>3, <1>4, CallMapped
<1>6. UNCHANGED <<ReceivedTxns, ResponsesIn, EvictsSeen>>
    BY <1>1 DEF ReceivedTxns, ResponsesIn, EvictsSeen, Received
<1>7. System!RecvData(d.txnId, d.addr, d.data)
    BY <1>2, SameRecvData
<1> QED BY <1>1, <1>5, <1>6, <1>7 DEF System!DeliverData

\* A response that has come, or an acknowledgement that is dropped.
LEMMA ResponseMapped ==
    ASSUME MInv, MInv', RInv, NEW m \in rspIn, RecvResponseMsg(m)
    PROVE  \/ UNCHANGED System!vars
           \/ \E id \in ResponsesIn : System!DeliverResponse(id)
<1>1. UNCHANGED <<issued, got, atMemory, reqIn, datIn>> /\ rspIn' = rspIn \ {m}
    BY DEF RecvResponseMsg, DequeueResponse, peers
<1>2. UNCHANGED <<ReceivedTxns, EvictsSeen>>
    BY <1>1 DEF ReceivedTxns, EvictsSeen, Received
<1>3. CASE m.type = "CompAck" /\ UNCHANGED <<engineVars, sending>>
    <2>1. ResponsesIn' = ResponsesIn
        BY <1>1, <1>3 DEF ResponsesIn
    <2>2. Carried' = Carried
        BY <1>3 DEF sending, Carried
    <2>3. UNCHANGED System!vars
        BY <1>1, <1>2, <1>3, <2>1, <2>2, SameView
    <2> QED BY <2>3
<1>4. CASE m.type # "CompAck" /\ RecvResponse(m.txnId) /\ ExecuteActions
    <2>1. PICK id \in ResponsesIn : id = m.txnId
        BY <1>4 DEF ResponsesIn
    <2>2. Listed
        BY <1>4, AnswersListed
    <2>3. Carried' = Carried \cup SentMessages
        BY <1>4, <2>2, CallCarries
    <2>4. System!ExecuteActions
        BY <1>1, <2>2, <2>3, CallMapped
    <2>5. ASSUME NEW n \in rspIn, n.type # "CompAck", n.txnId = m.txnId PROVE n = m
        BY <1>4, <2>5 DEF RInv, ResponsesApart
    <2>6. ResponsesIn' = ResponsesIn \ {id}
        BY <1>1, <2>1, <2>5 DEF ResponsesIn
    <2>7. System!RecvResponse(id)
        BY <1>4, <2>1, SameRecvResponse
    <2>8. System!DeliverResponse(id)
        BY <1>1, <1>2, <2>4, <2>6, <2>7 DEF System!DeliverResponse
    <2> QED BY <2>1, <2>8
<1> QED BY <1>3, <1>4 DEF RecvResponseMsg

-----------------------------------------------------------------------------
(* Requests *)

\* The opcodes of the requests that the RN-Fs send.
LEMMA TxnOpcodes ==
    ASSUME NEW r \in Requests, r.type # "Evict"
    PROVE  /\ TxnOf(r) \in System!Requests
           /\ TxnOf(r).opcode # "WriteNoSnp"
           /\ TxnOf(r).srcNodeID = r.srcNodeID /\ TxnOf(r).addr = r.addr
           /\ TxnOf(r).txnID = r.txnID
           /\ (IsRead(r) /\ r.type # "ReadOnce") =>
                  TxnOf(r).opcode \in {"ReadUnique", "ReadNotSharedDirty",
                                       "CleanUnique", "ReadShared"}
<1>1. r.type \in DOMAIN Gem5ToOpcode /\ r.type \in RequestTypes \ {"Evict"}
    BY RequestTypesAssumption DEF Requests
<1>2. Gem5ToOpcode[r.type] # "WriteNoSnp"
    BY <1>1 DEF Gem5ToOpcode
<1>3. (IsRead(r) /\ r.type # "ReadOnce") =>
          Gem5ToOpcode[r.type] \in {"ReadUnique", "ReadNotSharedDirty",
                                    "CleanUnique", "ReadShared"}
    BY <1>1 DEF Gem5ToOpcode, IsRead, IsWrite, WriteOps
<1>4. TxnOf(r) \in System!Requests
    BY <1>1 DEF TxnOf, System!Requests, Requests
<1> QED BY <1>2, <1>3, <1>4 DEF TxnOf

\* Two requests that the RN-Fs have sent differ in their ids.
LEMMA ReceivedByTxn ==
    ASSUME NEW x
    PROVE  x \in ReceivedTxns <=> \E q \in Received : q.type # "Evict" /\ x = TxnOf(q)
BY DEF ReceivedTxns

\* A request that is finished is not in progress for ChiL2System either.
LEMMA FinishedMapped ==
    ASSUME MInv, RInv, NEW q \in Received, q.type # "Evict", Finished(q)
    PROVE  /\ ~System!InProgress(TxnOf(q))
           /\ IsRead(q) => q.txnID \in AnsweredIds
<1>1. /\ q \in Requests /\ q \in issued /\ RequestsInTurn
      /\ \A m \in Carried : Current(m)
    BY DEF MInv, TypeOK, RInv, Received
<1>2. PICK b \in 0 .. Beats : <<q.txnID, b>> \in got
    <2>1. 1 \in 1 .. Beats /\ 1 \in 0 .. Beats /\ 0 \in 0 .. Beats
        BY BeatsAssumption
    <2> QED BY <2>1 DEF Finished
<1>3. IsRead(q) => q.txnID \in AnsweredIds
    BY <1>1, <1>2, AnsweredCases
<1>4. ASSUME IsWrite(q), NEW x \in CarriedActions({"SendCompDBIDResp"}), x.txnId = q.txnID
      PROVE  FALSE
    <2>1. PICK m \in Carried : m.action.type = "SendCompDBIDResp" /\ m.action = x
        BY <1>4, ActionsCarried
    <2>2. \A p \in got : p[1] # x.txnId
        BY <1>1, <2>1 DEF Current
    <2> QED BY <1>2, <1>4, <2>2
<1>5. /\ TxnOf(q).txnID = q.txnID
      /\ TxnOf(q).opcode \in WriteOps \cup {"WriteNoSnp"} <=> IsWrite(q)
    BY <1>1, TxnOpcodes, TxnWrites
<1>6. ~System!InProgress(TxnOf(q))
    <2>1. CASE IsWrite(q)
        BY <1>4, <1>5, <2>1 DEF System!InProgress, System!WriteOps, WriteOps
    <2>2. CASE ~IsWrite(q)
        BY <1>3, <1>5, <2>2 DEF System!InProgress, System!WriteOps, WriteOps, IsRead
    <2> QED BY <2>1, <2>2
<1> QED BY <1>3, <1>6

\* A finished request has been seen by the engine.
LEMMA FinishedReceived ==
    ASSUME RequestsInTurn, NEW q \in issued, Finished(q)
    PROVE  q \in Received
<1>1. PICK b : <<q.txnID, b>> \in got
    <2>1. 1 \in 1 .. Beats
        BY BeatsAssumption
    <2> QED BY <2>1 DEF Finished
<1>2. PICK p \in Received : p.txnID = q.txnID
    BY <1>1 DEF RequestsInTurn
<1> QED BY <1>2 DEF RequestsInTurn, Received

\* A request that has come may be made in ChiL2System.
LEMMA RequestAllowed ==
    ASSUME MInv, RInv, NEW r \in reqIn, r.type # "Evict"
    PROVE  /\ System!FreshId(TxnOf(r)) /\ System!LineFree(TxnOf(r))
           /\ System!MayWriteBack(TxnOf(r)) /\ System!SnoopIdsLeft
<1>1. /\ EngineTypeOK /\ issued \subseteq Requests /\ r \in issued \ Received
      /\ r \in Requests /\ RequestsInTurn /\ IdsCounted
    BY DEF MInv, TypeOK, RInv, Received
<1>2. PICK txn : /\ txn = TxnOf(r) /\ txn.srcNodeID = r.srcNodeID
                 /\ txn.addr = r.addr /\ txn.txnID = r.txnID
    BY <1>1, TxnOpcodes
<1>3. \A q \in Received : q \in issued /\ q \in Requests /\ q # r
    BY <1>1 DEF Received
<1>4. System!FreshId(txn)
    <2> SUFFICES ASSUME NEW x \in ReceivedTxns PROVE x.txnID # r.txnID
        BY <1>2 DEF System!FreshId
    <2>1. PICK q \in Received : q.type # "Evict" /\ x = TxnOf(q)
        BY ReceivedByTxn
    <2>2. x.txnID = q.txnID
        BY <1>3, <2>1, TxnOpcodes
    <2> QED BY <1>1, <1>3, <2>2 DEF RequestsInTurn
<1>5. System!LineFree(txn)
    <2> SUFFICES ASSUME NEW x \in ReceivedTxns, x.srcNodeID = r.srcNodeID, x.addr = r.addr
                 PROVE  ~System!InProgress(x)
        BY <1>2 DEF System!LineFree
    <2>1. PICK q \in Received : q.type # "Evict" /\ x = TxnOf(q)
        BY ReceivedByTxn
    <2>2. x.srcNodeID = q.srcNodeID /\ x.addr = q.addr
        BY <1>3, <2>1, TxnOpcodes
    <2>3. Finished(q)
        BY <1>1, <1>3, <2>2 DEF RequestsInTurn
    <2> QED BY <2>1, <2>3, FinishedMapped
<1>6. System!MayWriteBack(txn)
    <2> DEFINE Granted == {op \in WriteOps : \A t \in RequestTypes \ {"Evict"} :
                              Gem5ToOpcode[t] = op => t \in WriteBackTypes}
    <2> SUFFICES ASSUME txn.opcode \in Granted
                 PROVE  \E x \in ReceivedTxns :
                           /\ x.srcNodeID = txn.srcNodeID
                           /\ x.addr = txn.addr
                           /\ x.opcode \in {"ReadUnique", "ReadNotSharedDirty",
                                            "CleanUnique", "ReadShared"}
                           /\ x.txnID \in AnsweredIds
        BY DEF System!MayWriteBack
    <2>1. r.type \in WriteBackTypes /\ IsWrite(r)
        <3>1. txn.opcode = Gem5ToOpcode[r.type] /\ r.type \in RequestTypes \ {"Evict"}
            BY <1>1, <1>2 DEF TxnOf, Requests
        <3>2. txn.opcode \in WriteOps
            OBVIOUS
        <3> QED BY <1>1, <1>2, <3>1, <3>2, TxnWrites
    <2>2. PICK q \in issued : /\ q.srcNodeID = r.srcNodeID /\ q.addr = r.addr
                              /\ IsRead(q) /\ q.type # "ReadOnce"
        BY <1>1, <2>1 DEF RequestsInTurn
    <2>3. q # r
        BY <2>1, <2>2 DEF IsRead
    <2>4. Finished(q)
        BY <1>1, <2>2, <2>3 DEF RequestsInTurn
    <2>5. q \in Received /\ q \in Requests /\ q.type # "Evict"
        BY <1>1, <2>2, <2>4, FinishedReceived DEF IsRead
    <2>6. q.txnID \in AnsweredIds
        BY <2>2, <2>4, <2>5, FinishedMapped
    <2>7. TxnOf(q) \in ReceivedTxns
        BY <2>5, ReceivedByTxn
    <2>8. /\ TxnOf(q).srcNodeID = q.srcNodeID /\ TxnOf(q).addr = q.addr
          /\ TxnOf(q).txnID = q.txnID
          /\ TxnOf(q).opcode \in {"ReadUnique", "ReadNotSharedDirty",
                                  "CleanUnique", "ReadShared"}
        BY <2>2, <2>5, TxnOpcodes
    <2> QED BY <1>2, <2>2, <2>6, <2>7, <2>8
<1>7. System!SnoopIdsLeft
    <2>1. nextSnoopTxnId + Cardinality(Nodes) <= MemIdBase
        BY <1>1, IdsInRange
    <2> QED BY <2>1, SameCardinality DEF System!SnoopIdsLeft
<1> QED BY <1>2, <1>4, <1>5, <1>6, <1>7

\* It is made there as it is here.
LEMMA RequestMapped ==
    ASSUME MInv, MInv', RInv, NEW r \in reqIn, r.type # "Evict", RecvRequestMsg(r)
    PROVE  System!NewRequest
<1>1. /\ EngineTypeOK /\ issued \subseteq Requests /\ r \in issued \ Received
      /\ r \in Requests
    BY DEF MInv, TypeOK, Received
<1>2. /\ UNCHANGED <<issued, got, atMemory, rspIn, datIn>> /\ reqIn' = reqIn \ {r}
      /\ RecvRequest(TxnOf(r)) /\ ExecuteActions
    BY DEF RecvRequestMsg, DequeueRequest, peers
<1>3. Received' = Received \cup {r}
    BY <1>1, <1>2 DEF Received
<1>4. PICK txn \in System!Requests : txn = TxnOf(r) /\ txn.opcode # "WriteNoSnp"
    BY <1>1, TxnOpcodes
<1>5. Listed
    <2>1. TxnOf(r) \in ChiTransaction
        BY <1>1, TxnTypes
    <2> QED BY <1>1, <1>2, <2>1, RequestListed
<1>6. System!ExecuteActions
    <2>1. Carried' = Carried \cup SentMessages
        BY <1>2, <1>5, CallCarries
    <2> QED BY <1>2, <1>5, <2>1, CallMapped
<1>7. ReceivedTxns' = ReceivedTxns \cup {txn}
    BY <1>3, <1>4 DEF ReceivedTxns
<1>8. UNCHANGED <<ResponsesIn, EvictsSeen>>
    <2>1. {q \in Received' : q.type = "Evict"} = {q \in Received : q.type = "Evict"}
        BY <1>3
    <2> QED BY <1>2, <2>1 DEF ResponsesIn, EvictsSeen
<1>9. System!RecvRequest(txn)
    BY <1>2, <1>4, SameRecvRequest
<1>10. System!Request(txn)
    BY <1>2, <1>4, <1>6, <1>7, <1>8, <1>9 DEF System!Request
<1>11. /\ System!FreshId(txn) /\ System!LineFree(txn)
       /\ System!MayWriteBack(txn) /\ System!SnoopIdsLeft
    BY <1>4, RequestAllowed
<1> QED BY <1>10, <1>11 DEF System!NewRequest

\* An Evict is one there too: its answer is not among what ChiL2System keeps.
LEMMA EvictMapped ==
    ASSUME MInv, MInv', RInv, NEW r \in reqIn, r.type = "Evict", RecvRequestMsg(r)
    PROVE  \E addr \in Addrs : System!Evict(addr)
<1>1. /\ issued \subseteq Requests /\ r \in issued \ Received /\ r \in Requests
      /\ RequestsInTurn
    BY DEF MInv, TypeOK, Received, RInv
<1>2. /\ UNCHANGED <<issued, got, atMemory, rspIn, datIn>> /\ reqIn' = reqIn \ {r}
      /\ InvalidateLine(r.addr) /\ Send(SendComp("Comp_I", Comp(r)))
    BY DEF RecvRequestMsg, DequeueRequest, peers
<1>3. Received' = Received \cup {r}
    BY <1>1, <1>2 DEF Received
<1>4. PICK addr \in Addrs : addr = r.addr
    BY <1>1 DEF Requests
<1>5. PICK m : m = Message("rsp", "Comp_I", 0, Comp(r))
    OBVIOUS
<1>6. Carried' = Carried \cup {m}
    BY <1>2, <1>5, EvictSent
<1>7. m.type = "Comp_I" /\ m.action.type \notin MemTypes
    BY <1>5 DEF Message, Comp, MemTypes
<1>8. \A types : CarriedActions(types)' = CarriedActions(types)
    BY <1>6, <1>7 DEF CarriedActions
<1>9. MemRequestsOut' = MemRequestsOut
    <2>1. CarriedActions(MemTypes)' = CarriedActions(MemTypes)
        BY <1>8
    <2>2. WritesThere' = WritesThere
        BY <1>2 DEF WritesThere
    <2> QED BY <2>1, <2>2, MemRequestsCarried, CarriedFormed
<1>10. AnsweredIds' = AnsweredIds
    <2>1. CarriedActions({"SendComp", "SendCompData"})'
              = CarriedActions({"SendComp", "SendCompData"})
        BY <1>8
    <2> QED BY <1>2, <2>1, AnsweredCases
<1>11. ReceivedTxns' = ReceivedTxns
    <2>1. {q \in Received' : q.type # "Evict"} = {q \in Received : q.type # "Evict"}
        BY <1>3
    <2> QED BY <2>1 DEF ReceivedTxns
<1>12. EvictsSeen' = EvictsSeen + 1 /\ EvictsSeen < Cardinality(L1TxnIds)
    <2>1. PICK S \in SUBSET issued : S = {q \in Received : q.type = "Evict"}
        BY DEF Received
    <2>2. {q \in Received' : q.type = "Evict"} = S \cup {r} /\ r \notin S
        BY <1>1, <1>3, <2>1
    <2>3. /\ Cardinality(S) \in Nat /\ Cardinality(S \cup {r}) = Cardinality(S) + 1
          /\ Cardinality(S) + 1 <= Cardinality(L1TxnIds)
        BY <1>1, <2>2, OneMoreCount
    <2>4. EvictsSeen = Cardinality(S) /\ EvictsSeen' = Cardinality(S \cup {r})
        BY <2>1, <2>2 DEF EvictsSeen
    <2>5. Cardinality(L1TxnIds) \in Nat
        BY EnoughIdsAssumption, FS_CardinalityType
    <2> QED BY <2>3, <2>4, <2>5
<1>13. System!InvalidateLine(addr)
    BY <1>2, <1>4, SameInvalidateLine
<1>14. /\ CarriedActions(SnoopTypes)' = CarriedActions(SnoopTypes)
       /\ CarriedActions({"SendCompDBIDResp"})' = CarriedActions({"SendCompDBIDResp"})
       /\ ResponsesIn' = ResponsesIn
    BY <1>2, <1>8 DEF ResponsesIn
<1>15. System!Evict(addr)
    BY <1>2, <1>9, <1>10, <1>11, <1>12, <1>13, <1>14 DEF System!Evict, System!channels
<1> QED BY <1>15

-----------------------------------------------------------------------------
(* Messages that are taken *)

\* What is owed, other than for a write, is sent as one message.
LEMMA OneMessage ==
    ASSUME NEW m, Formed(m), NEW x, Formed(x), x.action = m.action,
           m.action.type \in OwedTypes \ {"SendWriteNoSnp"}
    PROVE  x = m /\ m.type # "Comp_I"
BY DEF Formed, MessagesFor, Message, OwedTypes, MemTypes, SnoopTypes, SnoopType

\* m is taken from what is carried.
Taken(m) ==
    /\ m \in Carried /\ Formed(m)
    /\ \A x : x \in Carried <=> x \in Carried' \/ x = m
    /\ Owed(m) => m \notin Carried'
    /\ \A x \in Carried' : Formed(x)

\* The actions that are still carried.
LEMMA TakenActions ==
    ASSUME NEW m, Taken(m), NEW types
    PROVE  /\ (m.action.type \notin types \/ m.type = "Comp_I") =>
                  CarriedActions(types)' = CarriedActions(types)
           /\ m.action.type \in types \cap (OwedTypes \ {"SendWriteNoSnp"}) =>
                  /\ m.action \in CarriedActions(types)
                  /\ CarriedActions(types)' = CarriedActions(types) \ {m.action}
<1>1. ASSUME m.action.type \notin types \/ m.type = "Comp_I"
      PROVE  CarriedActions(types)' = CarriedActions(types)
    <2>1. \A x : x \in CarriedActions(types)' <=> x \in CarriedActions(types)
        BY <1>1, ActionsCarried DEF Taken
    <2> QED BY <2>1
<1>2. ASSUME m.action.type \in types \cap (OwedTypes \ {"SendWriteNoSnp"})
      PROVE  /\ m.action \in CarriedActions(types)
             /\ CarriedActions(types)' = CarriedActions(types) \ {m.action}
    <2>1. m.type # "Comp_I" /\ m \in Carried /\ m \notin Carried'
        BY <1>2, OneMessage DEF Taken, Owed
    <2>2. m.action \in CarriedActions(types)
        BY <1>2, <2>1, ActionsCarried
    <2>3. m.action \notin CarriedActions(types)'
        <3>1. ASSUME NEW x \in Carried', x.action = m.action PROVE FALSE
            BY <1>2, <2>1, <3>1, OneMessage DEF Taken
        <3> QED BY <3>1, ActionsCarried
    <2>4. \A x : x \in CarriedActions(types)' => x \in CarriedActions(types)
        BY ActionsCarried DEF Taken
    <2>5. \A x : x \in CarriedActions(types) /\ x # m.action => x \in CarriedActions(types)'
        BY ActionsCarried DEF Taken
    <2> QED BY <2>2, <2>3, <2>4, <2>5
<1> QED BY <1>1, <1>2

\* An answer counts from the call that returned it, and is no new one when its
\* RN-F receives it.
LEMMA TakenAnswers ==
    ASSUME RequestsInTurn, issued' = issued, NEW m, Taken(m), Current(m),
           got' = IF m.action.type \in CompletionTypes
                  THEN got \cup {<<m.action.txnId, m.beat>>} ELSE got
    PROVE  AnsweredIds' = AnsweredIds
<1> DEFINE Answer == /\ m.type # "Comp_I"
                     /\ m.action.type \in {"SendComp", "SendCompData"}
<1>1. ASSUME Answer PROVE \E q \in issued : IsRead(q) /\ q.txnID = m.action.txnId
    BY <1>1 DEF Current, Received
<1>2. ASSUME m.action.type \in CompletionTypes, NEW q \in issued, IsRead(q),
             q.txnID = m.action.txnId
      PROVE  Answer
    <2>1. CASE m.action.type = "SendCompDBIDResp"
        <3>1. PICK p \in Received : IsWrite(p) /\ m.action = CompDBIDResp(TxnOf(p))
            BY <2>1 DEF Current
        <3>2. p.txnID = m.action.txnId
            BY <3>1 DEF CompDBIDResp, TxnOf
        <3>3. p = q
            BY <1>2, <3>2 DEF RequestsInTurn, Received
        <3> QED BY <1>2, <3>1, <3>3 DEF IsRead
    <2>2. CASE m.action.type \in {"SendComp", "SendCompData"}
        <3>1. PICK p \in Received :
                  /\ p.txnID = m.action.txnId
                  /\ IF m.type = "Comp_I" THEN p.type = "Evict" ELSE IsRead(p)
            BY <2>2 DEF Current
        <3>2. p = q
            BY <1>2, <3>1 DEF RequestsInTurn, Received
        <3> QED BY <1>2, <2>2, <3>1, <3>2 DEF IsRead
    <2> QED BY <1>2, <2>1, <2>2 DEF CompletionTypes
<1>3. m.beat \in 0 .. Beats
    BY FormedFacts DEF Taken
<1>4. ASSUME NEW x \in AnsweredIds' PROVE x \in AnsweredIds
    <2>1. CASE \E a \in CarriedActions({"SendComp", "SendCompData"})' : a.txnId = x
        <3>1. \E a \in CarriedActions({"SendComp", "SendCompData"}) : a.txnId = x
            BY <2>1, ActionsCarried DEF Taken
        <3> QED BY <3>1, AnsweredCases
    <2>2. CASE \E q \in issued' : /\ IsRead(q) /\ q.txnID = x
                                  /\ \E b \in 0 .. Beats : <<x, b>> \in got'
        <3>1. PICK q \in issued, b \in 0 .. Beats :
                  IsRead(q) /\ q.txnID = x /\ <<x, b>> \in got'
            BY <2>2
        <3>2. CASE <<x, b>> \in got
            BY <3>1, <3>2, AnsweredCases
        <3>3. CASE <<x, b>> \notin got
            <4>1. m.action.type \in CompletionTypes /\ x = m.action.txnId
                BY <3>1, <3>3
            <4>2. Answer
                BY <1>2, <3>1, <4>1
            <4>3. m.action \in CarriedActions({"SendComp", "SendCompData"})
                BY <4>2, ActionsCarried DEF Taken
            <4> QED BY <4>1, <4>3, AnsweredCases
        <3> QED BY <3>2, <3>3
    <2> QED BY <1>4, <2>1, <2>2, AnsweredCases
<1>5. ASSUME NEW x \in AnsweredIds PROVE x \in AnsweredIds'
    <2>1. CASE \E a \in CarriedActions({"SendComp", "SendCompData"}) : a.txnId = x
        <3>1. PICK n \in Carried : /\ n.type # "Comp_I" /\ n.action.txnId = x
                                   /\ n.action.type \in {"SendComp", "SendCompData"}
            BY <2>1, ActionsCarried
        <3>2. CASE n \in Carried'
            <4>1. n.action \in CarriedActions({"SendComp", "SendCompData"})'
                BY <3>1, <3>2, ActionsCarried
            <4> QED BY <3>1, <4>1, AnsweredCases
        <3>3. CASE n = m
            <4>1. Answer /\ m.action.txnId = x
                BY <3>1, <3>3
            <4>2. PICK q \in issued' : IsRead(q) /\ q.txnID = x
                BY <1>1, <4>1
            <4>3. <<x, m.beat>> \in got'
                BY <4>1 DEF CompletionTypes
            <4> QED BY <1>3, <4>2, <4>3, AnsweredCases
        <3> QED BY <3>2, <3>3 DEF Taken
    <2>2. CASE \E q \in issued : /\ IsRead(q) /\ q.txnID = x
                                 /\ \E b \in 0 .. Beats : <<x, b>> \in got
        <3>1. got \subseteq got'
            OBVIOUS
        <3> QED BY <2>2, <3>1, AnsweredCases
    <2> QED BY <1>5, <2>1, <2>2, AnsweredCases
<1> QED BY <1>4, <1>5

\* Data that answers a message is the same there.
LEMMA SameBeats ==
    ASSUME NEW x, NEW d
    PROVE  DataFor(x, d) = System!Beat(x.txnId, x.addr, d, x.txnId)
BY DEF DataFor, System!Beat

\* Who receives what.
LEMMA TakenKinds ==
    ASSUME NEW m, Formed(m), Receives(m)
    PROVE  \/ m.action.type \in {"SendComp", "SendCompData"} /\ ReceiveCompletion(m)
           \/ m.action.type \in SnoopTypes /\ AnswerSnoop(m)
           \/ m.action.type = "SendCompDBIDResp" /\ SendWriteData(m)
           \/ m.action.type = "SendReadNoSnp" /\ AnswerRead(m)
           \/ m.action.type = "SendWriteNoSnp" /\ CollectWrite(m)
<1>1. CASE ReceiveCompletion(m)
    BY <1>1 DEF ReceiveCompletion
<1>2. CASE AnswerSnoop(m)
    BY <1>2, FormedFacts DEF AnswerSnoop
<1>3. CASE SendWriteData(m)
    BY <1>3, FormedFacts DEF SendWriteData
<1>4. CASE AnswerRead(m)
    BY <1>4, FormedFacts DEF AnswerRead
<1>5. CASE CollectWrite(m)
    BY <1>5 DEF CollectWrite
<1> QED BY <1>1, <1>2, <1>3, <1>4, <1>5 DEF Receives

\* What is in view when a message is taken.
LEMMA TakenView ==
    ASSUME MInv, RInv, NEW c \in Channel, Take(c)
    PROVE  /\ UNCHANGED <<cache, tables, counters, fault, issued, reqIn>>
           /\ fault = "none"
           /\ ReceivedTxns' = ReceivedTxns /\ EvictsSeen' = EvictsSeen
<1>1. /\ UNCHANGED <<cache, tables, counters, fault, issued, reqIn>>
      /\ fault = "none"
    BY DEF Take
<1>2. Received' = Received
    BY <1>1 DEF Received
<1> QED BY <1>1, <1>2 DEF ReceivedTxns, EvictsSeen

\* The message, its answer and what is left are the same there.
LEMMA TakeTakes ==
    ASSUME MInv, MInv', RInv, NEW c \in Channel, Take(c)
    PROVE  \E m : Taken(m) /\ Receives(m) /\ AnsweredIds' = AnsweredIds
<1>1. /\ RequestsInTurn /\ Once(Buffers) /\ \A x \in Carried : Current(x)
      /\ issued' = issued
    BY DEF RInv, Take
<1>2. PICK m \in Carried :
          /\ Formed(m) /\ Receives(m)
          /\ \A x : x \in Carried <=> x \in Carried' \/ x = m
          /\ Owed(m) => m \notin Carried'
    BY <1>1, TakenMessage
<1>3. Taken(m)
    BY <1>2, CarriedFormed DEF Taken
<1>4. got' = IF m.action.type \in CompletionTypes
             THEN got \cup {<<m.action.txnId, m.beat>>} ELSE got
    BY <1>2, ReceivedOnly DEF MInv
<1>5. AnsweredIds' = AnsweredIds
    BY <1>1, <1>2, <1>3, <1>4, TakenAnswers
<1> QED BY <1>2, <1>3, <1>5

\* Responses that are put in flight.
LEMMA MoreResponses ==
    /\ rspIn' = rspIn => ResponsesIn' = ResponsesIn
    /\ \A id : rspIn' = rspIn \cup {Response("CompAck", id)} =>
                   ResponsesIn' = ResponsesIn
    /\ \A id : rspIn' = rspIn \cup {Response("SnpResp", id)} =>
                   ResponsesIn' = ResponsesIn \cup {id}
    /\ \A id : rspIn' = rspIn \cup {Response("Comp", id)} =>
                   ResponsesIn' = ResponsesIn \cup {id}
<1>1. rspIn' = rspIn => ResponsesIn' = ResponsesIn
    BY DEF ResponsesIn
<1>2. ASSUME NEW id, NEW type, rspIn' = rspIn \cup {Response(type, id)}
      PROVE  ResponsesIn' = ResponsesIn \cup (IF type = "CompAck" THEN {} ELSE {id})
    <2>1. PICK r : r = Response(type, id)
        OBVIOUS
    <2>2. r.type = type /\ r.txnId = id
        BY <2>1 DEF Response
    <2>3. rspIn' = rspIn \cup {r}
        BY <1>2, <2>1
    <2> QED BY <2>2, <2>3 DEF ResponsesIn
<1>3. "CompAck" # "SnpResp" /\ "CompAck" # "Comp"
    OBVIOUS
<1> QED BY <1>1, <1>2, <1>3

\* A message that is taken is answered there, or nothing of it is seen.
LEMMA TakeMapped ==
    ASSUME MInv, MInv', RInv, NEW c \in Channel, Take(c)
    PROVE  \/ UNCHANGED System!vars
           \/ System!Deliver
<1>1. PICK m : Taken(m) /\ Receives(m) /\ AnsweredIds' = AnsweredIds
    BY TakeTakes
<1>2. /\ UNCHANGED <<cache, tables, counters, fault, issued, reqIn>>
      /\ fault = "none"
      /\ ReceivedTxns' = ReceivedTxns /\ EvictsSeen' = EvictsSeen
    BY TakenView
<1>3. PICK x : x = m.action
    OBVIOUS
<1>4. Formed(m)
    BY <1>1 DEF Taken
<1>5. /\ MemRequestsOut = CarriedActions(MemTypes) \cup WritesThere
      /\ MemRequestsOut' = CarriedActions(MemTypes)' \cup WritesThere'
    BY MemRequestsCarried, CarriedFormed
<1>6. ASSUME NEW types, x.type \notin types
      PROVE  CarriedActions(types)' = CarriedActions(types)
    BY <1>1, <1>3, <1>6, TakenActions
<1>7. x.type \notin SnoopTypes =>
          CarriedActions(SnoopTypes)' = CarriedActions(SnoopTypes)
    BY <1>6
<1>8. x.type # "SendCompDBIDResp" =>
          CarriedActions({"SendCompDBIDResp"})' = CarriedActions({"SendCompDBIDResp"})
    BY <1>6
<1>9. (x.type \notin MemTypes /\ atMemory' = atMemory) =>
          MemRequestsOut' = MemRequestsOut
    BY <1>5, <1>6 DEF WritesThere
<1>10. System!EngineIdle <=> actions' = <<>>
    BY <1>1, <1>2 DEF System!EngineIdle, System!tables, System!counters, tables, counters
<1>11. CASE x.type \in {"SendComp", "SendCompData"} /\ ReceiveCompletion(m)
    <2>1. UNCHANGED <<actions, atMemory, datIn>>
        BY <1>11 DEF ReceiveCompletion
    <2>2. ResponsesIn' = ResponsesIn
        BY <1>11, MoreResponses DEF ReceiveCompletion
    <2>3. /\ CarriedActions(SnoopTypes)' = CarriedActions(SnoopTypes)
          /\ CarriedActions({"SendCompDBIDResp"})' = CarriedActions({"SendCompDBIDResp"})
          /\ MemRequestsOut' = MemRequestsOut
        BY <1>7, <1>8, <1>9, <1>11, <2>1 DEF SnoopTypes, MemTypes
    <2> QED BY <1>1, <1>2, <2>1, <2>2, <2>3
            DEF System!vars, System!engineVars, System!tables, System!counters,
                System!channels, tables, counters
<1>12. CASE x.type = "SendWriteNoSnp" /\ CollectWrite(m)
    <2>1. UNCHANGED <<actions, rspIn, datIn>> /\ atMemory' = atMemory \cup {m}
        BY <1>12 DEF CollectWrite
    <2>2. ResponsesIn' = ResponsesIn
        BY <2>1, MoreResponses
    <2>3. /\ CarriedActions(SnoopTypes)' = CarriedActions(SnoopTypes)
          /\ CarriedActions({"SendCompDBIDResp"})' = CarriedActions({"SendCompDBIDResp"})
          /\ CarriedActions({"SendReadNoSnp"})' = CarriedActions({"SendReadNoSnp"})
        BY <1>6, <1>7, <1>8, <1>12 DEF SnoopTypes
    <2>4. MemRequestsOut' = MemRequestsOut
        <3>1. Carried' \cup atMemory' = Carried \cup atMemory
            BY <1>1, <2>1 DEF Taken
        <3> QED BY <2>3, <3>1 DEF MemRequestsOut
    <2> QED BY <1>1, <1>2, <2>1, <2>2, <2>3, <2>4
            DEF System!vars, System!engineVars, System!tables, System!counters,
                System!channels, tables, counters
<1>13. CASE x.type \in SnoopTypes /\ AnswerSnoop(m)
    <2>1. /\ x \in CarriedActions(SnoopTypes)
          /\ CarriedActions(SnoopTypes)' = CarriedActions(SnoopTypes) \ {x}
        BY <1>1, <1>3, <1>13, TakenActions DEF OwedTypes, SnoopTypes
    <2>2. /\ CarriedActions({"SendCompDBIDResp"})' = CarriedActions({"SendCompDBIDResp"})
          /\ MemRequestsOut' = MemRequestsOut
        BY <1>8, <1>9, <1>13 DEF SnoopTypes, MemTypes, AnswerSnoop
    <2>3. System!EngineIdle
        BY <1>10, <1>13 DEF AnswerSnoop
    <2>4. \/ /\ System!MayAnswerSilently(x)
             /\ ResponsesIn' = ResponsesIn \cup {x.txnId}
             /\ UNCHANGED datIn
          \/ /\ \E d \in Data : datIn' = datIn \cup System!Beat(x.txnId, x.addr, d, x.txnId)
             /\ UNCHANGED ResponsesIn
        <3>1. CASE /\ \E d \in Data : datIn' = datIn \cup DataFor(m.action, d)
                   /\ UNCHANGED rspIn
            BY <1>3, <3>1, SameBeats, MoreResponses
        <3>2. CASE /\ ~m.action.retToSrc
                   /\ rspIn' = rspIn \cup {Response("SnpResp", m.action.txnId)}
                   /\ UNCHANGED datIn
            BY <1>3, <3>2, MoreResponses DEF System!MayAnswerSilently
        <3> QED BY <1>13, <3>1, <3>2 DEF AnswerSnoop
    <2>5. System!AnswerSnoop(x)
        BY <1>2, <2>1, <2>2, <2>3, <2>4 DEF System!AnswerSnoop
    <2> QED BY <2>1, <2>5 DEF System!Deliver
<1>14. CASE x.type = "SendCompDBIDResp" /\ SendWriteData(m)
    <2>1. /\ x \in CarriedActions({"SendCompDBIDResp"})
          /\ CarriedActions({"SendCompDBIDResp"})'
                 = CarriedActions({"SendCompDBIDResp"}) \ {x}
        BY <1>1, <1>3, <1>14, TakenActions DEF OwedTypes
    <2>2. /\ CarriedActions(SnoopTypes)' = CarriedActions(SnoopTypes)
          /\ MemRequestsOut' = MemRequestsOut
          /\ ResponsesIn' = ResponsesIn
        BY <1>7, <1>9, <1>14, MoreResponses DEF SnoopTypes, MemTypes, SendWriteData
    <2>3. System!EngineIdle
        BY <1>10, <1>14 DEF SendWriteData
    <2>4. \E id \in {x.txnId} \cup {}, d \in Data :
             datIn' = datIn \cup System!Beat(id, x.addr, d, x.txnId)
        <3>1. PICK d \in Data : datIn' = datIn \cup DataFor(x, d)
            BY <1>3, <1>14 DEF SendWriteData
        <3> QED BY <3>1, SameBeats
    <2>5. System!SendWriteData(x)
        BY <1>2, <2>1, <2>2, <2>3, <2>4 DEF System!SendWriteData
    <2> QED BY <2>1, <2>5 DEF System!Deliver
<1>15. CASE x.type = "SendReadNoSnp" /\ AnswerRead(m)
    <2>1. /\ x \in CarriedActions(MemTypes)
          /\ CarriedActions(MemTypes)' = CarriedActions(MemTypes) \ {x}
        BY <1>1, <1>3, <1>15, TakenActions DEF OwedTypes, MemTypes
    <2>2. UNCHANGED WritesThere /\ x \notin WritesThere
        BY <1>15 DEF WritesThere, AnswerRead
    <2>3. x \in MemRequestsOut /\ MemRequestsOut' = MemRequestsOut \ {x}
        BY <1>5, <2>1, <2>2
    <2>4. /\ CarriedActions(SnoopTypes)' = CarriedActions(SnoopTypes)
          /\ CarriedActions({"SendCompDBIDResp"})' = CarriedActions({"SendCompDBIDResp"})
          /\ ResponsesIn' = ResponsesIn
        BY <1>7, <1>8, <1>15, MoreResponses DEF SnoopTypes, AnswerRead
    <2>5. System!EngineIdle
        BY <1>10, <1>15 DEF AnswerRead
    <2>6. \E d \in Data : datIn' = datIn \cup System!Beat(x.txnId, x.addr, d, x.txnId)
        BY <1>3, <1>15, SameBeats DEF AnswerRead
    <2>7. System!AnswerMemRequest(x)
        BY <1>2, <1>15, <2>3, <2>4, <2>5, <2>6 DEF System!AnswerMemRequest
    <2> QED BY <2>3, <2>7 DEF System!Deliver
<1> QED BY <1>1, <1>3, <1>4, <1>11, <1>12, <1>13, <1>14, <1>15, TakenKinds

-----------------------------------------------------------------------------
(* The acknowledgement of a write *)

\* A write is sent as Beats + 1 messages at most.
LEMMA WriteMessages ==
    ASSUME NEW x, x.type = "SendWriteNoSnp"
    PROVE  /\ IsFiniteSet(MessagesFor(x))
           /\ Cardinality(MessagesFor(x)) <= Beats + 1
<1> DEFINE F == [b \in 0 .. Beats |->
                    Message(IF b = 0 THEN "req" ELSE "dat",
                            IF b = 0 THEN "WriteNoSnp" ELSE "NCBWrData", b, x)]
<1>1. IsFiniteSet(0 .. Beats) /\ Cardinality(0 .. Beats) = Beats + 1
    <2>1. 0 \in Int /\ Beats \in Int /\ ~(0 > Beats) /\ Beats - 0 + 1 = Beats + 1
        BY BeatsAssumption
    <2> QED BY <2>1, FS_Interval
<1>2. \A m \in MessagesFor(x) : \E b \in 0 .. Beats : m = F[b]
    <2> SUFFICES ASSUME NEW m \in MessagesFor(x) PROVE \E b \in 0 .. Beats : m = F[b]
        OBVIOUS
    <2>1. CASE m = Message("req", "WriteNoSnp", 0, x)
        <3>1. 0 \in 0 .. Beats
            BY BeatsAssumption
        <3> QED BY <2>1, <3>1
    <2>2. ASSUME NEW b \in 1 .. Beats, m = Message("dat", "NCBWrData", b, x)
          PROVE  m = F[b] /\ b \in 0 .. Beats
        <3>1. b \in 0 .. Beats /\ b # 0
            BY BeatsAssumption
        <3> QED BY <2>2, <3>1
    <2> QED BY <2>1, <2>2 DEF MessagesFor
<1>3. \A b \in 0 .. Beats : F[b] \in MessagesFor(x)
    <2> SUFFICES ASSUME NEW b \in 0 .. Beats PROVE F[b] \in MessagesFor(x)
        OBVIOUS
    <2>1. CASE b = 0
        BY <2>1 DEF MessagesFor
    <2>2. CASE b # 0
        <3>1. b \in 1 .. Beats
            BY <2>2, BeatsAssumption
        <3> QED BY <2>2, <3>1 DEF MessagesFor
    <2> QED BY <2>1, <2>2
<1>4. F \in Surjection(0 .. Beats, MessagesFor(x))
    <2>1. F \in [0 .. Beats -> MessagesFor(x)]
        BY <1>3
    <2> HIDE DEF F
    <2> QED BY <1>2, <2>1 DEF Surjection
<1> HIDE DEF F
<1> QED BY <1>1, <1>4, FS_Surjection

\* A write of which as many messages have come has come.
LEMMA WriteComplete ==
    ASSUME NEW x, x.type = "SendWriteNoSnp",
           NEW W \in SUBSET MessagesFor(x), Cardinality(W) = Beats + 1
    PROVE  W = MessagesFor(x)
<1>1. PICK S : S = MessagesFor(x)
    OBVIOUS
<1>2. IsFiniteSet(S) /\ Cardinality(S) <= Beats + 1
    BY <1>1, WriteMessages
<1>3. /\ Cardinality(W) <= Cardinality(S)
      /\ Cardinality(S) = Cardinality(W) => S = W
    BY <1>1, <1>2, FS_Subset
<1>4. Cardinality(S) \in Nat
    BY <1>2, FS_CardinalityType
<1> QED BY <1>1, <1>2, <1>3, <1>4, BeatsAssumption

\* The whole write is with memory when it is acknowledged.
LEMMA WriteGone ==
    ASSUME MInv, RInv, NEW m \in atMemory, AcknowledgeWrite(m.action.txnId)
    PROVE  /\ \A n \in atMemory : n \in atMemory' <=> n.action # m.action
           /\ \A n \in Carried : n.action # m.action
           /\ atMemory' \subseteq atMemory
<1>1. WithMemory /\ OneActionPerId
    BY DEF RInv
<1>2. PICK x : x = m.action /\ x.type = "SendWriteNoSnp"
    BY <1>1 DEF WithMemory
<1>3. PICK W : W = {n \in atMemory : n.action.txnId = x.txnId}
    OBVIOUS
<1>4. Cardinality(W) = Beats + 1 /\ atMemory' = atMemory \ W
    BY <1>2, <1>3 DEF AcknowledgeWrite
<1>5. \A n \in W : n.action = x
    BY <1>1, <1>2, <1>3 DEF WithMemory, OneActionPerId, MemTypes
<1>6. ASSUME NEW n, Formed(n), n.action = x PROVE n \in MessagesFor(x)
    BY <1>2, <1>6 DEF Formed
<1>7. W \in SUBSET MessagesFor(x)
    BY <1>1, <1>3, <1>5, <1>6 DEF WithMemory
<1>8. W = MessagesFor(x)
    BY <1>2, <1>4, <1>7, WriteComplete
<1>9. ASSUME NEW n \in Carried, n.action = x PROVE FALSE
    <2>1. Formed(n)
        BY CarriedFormed
    <2>2. n \in W
        BY <1>6, <1>8, <1>9, <2>1
    <2> QED BY <1>1, <1>3, <2>2 DEF WithMemory
<1> QED BY <1>2, <1>3, <1>4, <1>5, <1>9

\* Memory's acknowledgement answers one write there.
LEMMA AcknowledgeMapped ==
    ASSUME MInv, MInv', RInv, NEW m \in atMemory, AcknowledgeWrite(m.action.txnId)
    PROVE  System!Deliver
<1>1. /\ UNCHANGED <<cache, tables, counters, fault, sending, issued, got, reqIn, datIn>>
      /\ fault = "none" /\ actions' = <<>>
      /\ rspIn' = rspIn \cup {Response("Comp", m.action.txnId)}
    BY DEF AcknowledgeWrite
<1>2. Carried' = Carried /\ Received' = Received
    BY <1>1 DEF Carried, sending, Received
<1>3. PICK x : x = m.action /\ x.type = "SendWriteNoSnp"
    BY DEF RInv, WithMemory
<1>4. /\ CarriedActions(SnoopTypes)' = CarriedActions(SnoopTypes)
      /\ CarriedActions({"SendCompDBIDResp"})' = CarriedActions({"SendCompDBIDResp"})
      /\ CarriedActions({"SendReadNoSnp"})' = CarriedActions({"SendReadNoSnp"})
    BY <1>2 DEF CarriedActions
<1>5. AnsweredIds' = AnsweredIds
    BY <1>1, <1>2 DEF AnsweredIds, CarriedActions
<1>6. ReceivedTxns' = ReceivedTxns /\ EvictsSeen' = EvictsSeen
    BY <1>2 DEF ReceivedTxns, EvictsSeen
<1>7. ResponsesIn' = ResponsesIn \cup {x.txnId}
    BY <1>1, <1>3, MoreResponses
<1>8. /\ \A n \in atMemory : n \in atMemory' <=> n.action # x
      /\ \A n \in Carried : n.action # x
      /\ atMemory' \subseteq atMemory
    BY <1>3, WriteGone
<1>9. x \in MemRequestsOut /\ MemRequestsOut' = MemRequestsOut \ {x}
    <2>1. x \in MemRequestsOut
        BY <1>3 DEF MemRequestsOut
    <2>2. x \notin CarriedActions({"SendReadNoSnp"})
        BY <1>8, ActionsCarried
    <2>3. {n.action : n \in {k \in Carried' \cup atMemory' :
                               k.action.type = "SendWriteNoSnp"}}
          = {n.action : n \in {k \in Carried \cup atMemory :
                               k.action.type = "SendWriteNoSnp"}} \ {x}
        BY <1>2, <1>8
    <2> QED BY <1>4, <2>1, <2>2, <2>3 DEF MemRequestsOut
<1>10. System!EngineIdle
    BY <1>1, <1>5, <1>6
       DEF System!EngineIdle, System!tables, System!counters, tables, counters
<1>11. System!AnswerMemRequest(x)
    BY <1>1, <1>3, <1>4, <1>7, <1>9, <1>10 DEF System!AnswerMemRequest
<1> QED BY <1>9, <1>11 DEF System!Deliver

-----------------------------------------------------------------------------
(* Steps that the engine takes no part in *)

\* A request that an RN-F sends is seen when it comes.
LEMMA SendMapped ==
    ASSUME MInv, RInv, NEW r \in Requests, SendRequest(r)
    PROVE  UNCHANGED System!vars
<1>1. /\ UNCHANGED <<engineVars, sending, got, atMemory, rspIn, datIn>>
      /\ issued' = issued \cup {r} /\ reqIn' = reqIn \cup {r}
      /\ \A q \in issued : q.txnID # r.txnID
    BY DEF SendRequest
<1>2. Carried' = Carried
    BY <1>1 DEF Carried, sending
<1>3. Received' = Received
    <2>1. r \notin issued
        BY <1>1
    <2> QED BY <1>1, <2>1 DEF Received
<1>4. /\ ReceivedTxns' = ReceivedTxns /\ EvictsSeen' = EvictsSeen
      /\ ResponsesIn' = ResponsesIn
    BY <1>1, <1>3 DEF ReceivedTxns, EvictsSeen, ResponsesIn
<1>5. AnsweredIds' = AnsweredIds
    <2>1. CarriedActions({"SendComp", "SendCompData"})'
              = CarriedActions({"SendComp", "SendCompData"})
        BY <1>2 DEF CarriedActions
    <2>2. ASSUME NEW b, <<r.txnID, b>> \in got PROVE FALSE
        <3>1. PICK q \in Received : q.txnID = r.txnID
            BY <2>2 DEF RInv, RequestsInTurn
        <3> QED BY <1>1, <3>1 DEF Received
    <2>3. \A x : (\E q \in issued' : /\ IsRead(q) /\ q.txnID = x
                                    /\ \E b \in 0 .. Beats : <<x, b>> \in got')
                <=> (\E q \in issued : /\ IsRead(q) /\ q.txnID = x
                                      /\ \E b \in 0 .. Beats : <<x, b>> \in got)
        BY <1>1, <2>2
    <2>4. \A x : x \in AnsweredIds' <=> x \in AnsweredIds
        BY <2>1, <2>3, AnsweredCases
    <2> QED BY <2>4
<1>6. /\ CarriedActions(SnoopTypes)' = CarriedActions(SnoopTypes)
      /\ CarriedActions({"SendCompDBIDResp"})' = CarriedActions({"SendCompDBIDResp"})
      /\ MemRequestsOut' = MemRequestsOut
    BY <1>1, <1>2 DEF CarriedActions, MemRequestsOut
<1> QED BY <1>1, <1>4, <1>5, <1>6
        DEF System!vars, System!engineVars, System!tables, System!counters,
            System!channels, engineVars, tables, counters

\* What waits is retried, or nothing of this component moves.
LEMMA RestMapped ==
    ASSUME UNCHANGED <<engineVars, peers, incoming>>, Carried' = Carried
    PROVE  UNCHANGED System!vars
<1>1. UNCHANGED <<issued, got, atMemory, datIn, rspIn, reqIn>>
    BY DEF peers, incoming
<1>2. Received' = Received
    BY <1>1 DEF Received
<1>3. UNCHANGED <<ReceivedTxns, ResponsesIn, EvictsSeen>>
    BY <1>1, <1>2 DEF ReceivedTxns, EvictsSeen, ResponsesIn
<1> QED BY <1>1, <1>3, SameView

\* A debug write is one there.
LEMMA WriteMapped ==
    ASSUME NEW addr, NEW data, FunctionalWrite(addr, data)
    PROVE  System!FunctionalWrite(addr, data)
<1>1. /\ UNCHANGED <<tables, counters, fault, sending, issued, got, atMemory>>
      /\ UNCHANGED <<reqIn, rspIn, datIn>>
      /\ fault = "none" /\ actions' = <<>>
      /\ Present(cache, addr) /\ cache' = WriteData(cache, addr, data)
    BY DEF FunctionalWrite, peers, incoming
<1>2. Carried' = Carried /\ Received' = Received
    BY <1>1 DEF Carried, sending, Received
<1>3. /\ CarriedActions(SnoopTypes)' = CarriedActions(SnoopTypes)
      /\ CarriedActions({"SendCompDBIDResp"})' = CarriedActions({"SendCompDBIDResp"})
      /\ MemRequestsOut' = MemRequestsOut
    BY <1>1, <1>2 DEF CarriedActions, MemRequestsOut
<1>4. AnsweredIds' = AnsweredIds
    BY <1>1, <1>2 DEF AnsweredIds, CarriedActions
<1>5. UNCHANGED <<ReceivedTxns, ResponsesIn, EvictsSeen>>
    BY <1>1, <1>2 DEF ReceivedTxns, EvictsSeen, ResponsesIn
<1>6. System!Present(cache, addr) /\ cache' = System!WriteData(cache, addr, data)
    BY <1>1, SamePresent, SameWriteData
<1> QED BY <1>1, <1>3, <1>4, <1>5, <1>6
        DEF System!FunctionalWrite, System!tables, System!counters, System!channels,
            tables, counters

-----------------------------------------------------------------------------
(* The refinement *)

\* The initial state is one there.
LEMMA InitMapped == Init => System!Init
<1> SUFFICES ASSUME Init PROVE System!Init
    OBVIOUS
<1>1. /\ EngineInit
      /\ out = [c \in Channel |-> <<>>] /\ triggerQueue = <<>>
      /\ issued = {} /\ got = {} /\ atMemory = {}
      /\ reqIn = {} /\ rspIn = {} /\ datIn = {}
    BY DEF Init
<1>2. Carried = {} /\ Received = {}
    BY <1>1 DEF Carried, ToSet, Received
<1>3. \A types : CarriedActions(types) = {}
    BY <1>2 DEF CarriedActions
<1>4. MemRequestsOut = {} /\ AnsweredIds = {}
    BY <1>1, <1>2, <1>3 DEF MemRequestsOut, AnsweredIds
<1>5. ReceivedTxns = {} /\ ResponsesIn = {}
    BY <1>1, <1>2 DEF ReceivedTxns, ResponsesIn
<1>6. EvictsSeen = 0
    <2>1. {r \in Received : r.type = "Evict"} = {}
        BY <1>2
    <2> QED BY <2>1, FS_EmptySet DEF EvictsSeen
<1>7. System!EngineInit
    BY <1>1, SameEngineInit
<1> QED BY <1>1, <1>3, <1>4, <1>5, <1>6, <1>7 DEF System!Init

\* Every step is a step or a stutter there.
LEMMA NextMapped ==
    ASSUME MInv, MInv', RInv, [Next]_vars
    PROVE  [System!Next]_(System!vars)
<1>1. ASSUME NEW r \in reqIn, RecvRequestMsg(r) PROVE System!Next
    BY <1>1, RequestMapped, EvictMapped DEF System!Next
<1>2. ASSUME NEW d \in datIn, RecvDataMsg(d) PROVE System!Next
    BY <1>2, DataMapped DEF System!Next, System!Deliver
<1>3. ASSUME NEW m \in rspIn, RecvResponseMsg(m)
      PROVE  UNCHANGED System!vars \/ System!Next
    BY <1>3, ResponseMapped DEF System!Next, System!Deliver
<1>4. CASE ProcessTriggerQueue
    <2>1. Carried' = Carried
        BY <1>4, RetryCarried DEF RInv
    <2>2. UNCHANGED System!vars
        BY <1>4, <2>1, RestMapped DEF ProcessTriggerQueue
    <2> QED BY <2>2
<1>5. ASSUME NEW c \in Channel, Take(c) PROVE UNCHANGED System!vars \/ System!Next
    BY <1>5, TakeMapped DEF System!Next
<1>6. CASE Acknowledge
    BY <1>6, AcknowledgeMapped DEF Acknowledge, System!Next
<1>7. ASSUME NEW r \in Requests, SendRequest(r) PROVE UNCHANGED System!vars
    BY <1>7, SendMapped
<1>8. ASSUME UNCHANGED <<engineVars, sending, peers, incoming>>
      PROVE  UNCHANGED System!vars
    <2>1. Carried' = Carried
        BY <1>8 DEF Carried, sending
    <2> QED BY <1>8, <2>1, RestMapped
<1>9. CASE RetryWakeup
    BY <1>8, <1>9 DEF RetryWakeup
<1>10. ASSUME NEW addr \in Addrs, NEW data \in Data, FunctionalWrite(addr, data)
       PROVE  System!Next
    BY <1>10, WriteMapped DEF System!Next
<1>11. CASE UNCHANGED vars
    BY <1>8, <1>11 DEF vars
<1> QED BY <1>1, <1>2, <1>3, <1>4, <1>5, <1>6, <1>7, <1>9, <1>10, <1>11 DEF Next, Wakeup

\* Every behaviour of the middleware, with its buffers, retries and ports, is one of the
\* engine between channels that neither lose nor repeat: nothing that executeActions
\* sends is dropped, sent twice or taken for another message.
THEOREM MiddlewareImplementsSystem == Spec => ImplementsSystem
<1>1. Init => System!Init
    BY InitMapped
<1>2. (MInv /\ RInv) /\ (MInv /\ RInv)' /\ [Next]_vars => [System!Next]_(System!vars)
    BY NextMapped
<1>3. Spec => [](MInv /\ RInv)
    BY OwedInOnePlace
<1> QED BY <1>1, <1>2, <1>3, PTL DEF Spec, ImplementsSystem, System!Spec

-----------------------------------------------------------------------------
(* What is proved of ChiL2System is proved of the middleware *)

\* What ChiL2System assumes of its parameters holds of those it is given here, so
\* that its theorems are about the middleware's engine.
LEMMA SystemAssumptions ==
    /\ {Gem5ToOpcode[t] : t \in RequestTypes \ {"Evict"}} \subseteq Opcode
    /\ {} \subseteq Nat
    /\ \A id \in L1TxnIds \cup {} : id < SnoopIdBase
    /\ SnoopIdBase <= MemIdBase
    /\ "never" \in {"never", "afterWriteBack", "anytime"}
    /\ {op \in WriteOps : \A t \in RequestTypes \ {"Evict"} :
                             Gem5ToOpcode[t] = op => t \in WriteBackTypes}
           \subseteq System!WriteOps
    /\ Cardinality(L1TxnIds) \in Nat
<1>1. \A t \in DOMAIN Gem5ToOpcode : Gem5ToOpcode[t] \in Opcode
    BY DEF Gem5ToOpcode, Opcode, ReadOps, WriteOps
<1>2. \A t \in RequestTypes \ {"Evict"} : t \in DOMAIN Gem5ToOpcode
    BY RequestTypesAssumption
<1>3. Cardinality(L1TxnIds) \in Nat /\ Cardinality(Nodes) \in Nat
    BY EnoughIdsAssumption, NodesAssumption, FS_CardinalityType
<1>4. SnoopIdBase <= MemIdBase
    <2>1. Cardinality(L1TxnIds) * Cardinality(Nodes) \in Nat
        BY <1>3
    <2> QED BY <2>1, EnoughIdsAssumption, IdsAssumption
<1>5. WriteOps \subseteq System!WriteOps
    BY DEF WriteOps, System!WriteOps
<1> QED BY <1>1, <1>2, <1>3, <1>4, <1>5, EnoughIdsAssumption
=============================================================================
