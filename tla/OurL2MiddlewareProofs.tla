------------------------- MODULE OurL2MiddlewareProofs -------------------------
(***************************************************************************)
(* The middleware, for any number of RN-Fs, requests, beats, messages and  *)
(* buffer sizes: the types of its state, the trigger queue, and the order  *)
(* in which the beats of a line reach their RN-F.                          *)
(*                                                                         *)
(* The order rests on where a beat may be.  Behind a beat in the data      *)
(* buffer, or already taken by the RN-F, are all the earlier beats of its  *)
(* line; a beat in the trigger queue has them in front of it there, in the *)
(* data buffer, or taken.  A beat that finds the data buffer full therefore *)
(* has to make all later ones wait: it is put at the end of the queue, and *)
(* a retry keeps the order of what it cannot send.                         *)
(***************************************************************************)
EXTENDS OurL2Middleware, ChiProtocolEngineProofs, SequenceTheorems

-----------------------------------------------------------------------------
(* Recursion over the messages *)

\* Induction up to n, as a statement about a set.
LEMMA UpTo ==
    ASSUME NEW n \in Nat, NEW G, 0 \in G, \A k \in 1 .. n : k - 1 \in G => k \in G
    PROVE  \A k \in 0 .. n : k \in G
<1> DEFINE B == {k \in 0 .. n : k \notin G}
<1> SUFFICES ASSUME B # {} PROVE FALSE
    OBVIOUS
<1>1. B \in SUBSET Nat
    OBVIOUS
<1>2. PICK b \in B : \A k \in B : b <= k
    <2> HIDE DEF B
    <2> QED BY <1>1, LeastElement
<1>3. b # 0 /\ b - 1 \in 0 .. n /\ b - 1 \notin B
    BY <1>2
<1> QED BY <1>2, <1>3

\* The function that SendAll defines: one message after the other is tried.
LEMMA SendAllSteps ==
    ASSUME NEW s, NEW ms, Len(ms) \in Nat
    PROVE  \E f : /\ f[0] = s
                  /\ \A k \in 1 .. Len(ms) : f[k] = TrySend(f[k - 1], ms[k])
                  /\ SendAll(s, ms) = f[Len(ms)]
<1> DEFINE n == Len(ms)
           Defines(f, m) ==
               f = [k \in 0 .. m |-> IF k = 0 THEN s ELSE TrySend(f[k - 1], ms[k])]
           G == {m \in 0 .. n : \E f : Defines(f, m)}
<1>1. 0 \in G
    <2> DEFINE g == [k \in 0 .. 0 |-> s]
    <2>1. Defines(g, 0)
        OBVIOUS
    <2> HIDE DEF g, Defines
    <2> QED BY <2>1
<1>2. ASSUME NEW m \in 1 .. n, m - 1 \in G PROVE m \in G
    <2>1. PICK f : Defines(f, m - 1)
        BY <1>2
    <2> DEFINE g == [k \in 0 .. m |-> IF k = m THEN TrySend(f[m - 1], ms[m]) ELSE f[k]]
    <2>2. \A k \in 0 .. m : g[k] = IF k = 0 THEN s ELSE TrySend(g[k - 1], ms[k])
        BY <2>1
    <2>3. Defines(g, m)
        BY <2>2
    <2> HIDE DEF g, Defines
    <2> QED BY <2>3
<1>3. n \in G
    <2>1. n \in Nat
        OBVIOUS
    <2> HIDE DEF G, n
    <2> QED BY <1>1, <1>2, <2>1, UpTo
<1>4. PICK f : Defines(f, n)
    BY <1>3
<1> DEFINE h == CHOOSE g : Defines(g, n)
<1>5. Defines(h, n)
    <2> HIDE DEF Defines
    <2> QED BY <1>4
<1>6. SendAll(s, ms) = h[n]
    BY Zenon DEF SendAll
<1> HIDE DEF h
<1>7. h[0] = s /\ \A k \in 1 .. n : h[k] = TrySend(h[k - 1], ms[k])
    BY <1>5
<1> QED BY <1>6, <1>7

\* The function that RetryAll defines.
LEMMA RetryAllSteps ==
    ASSUME NEW ms, Len(ms) \in Nat
    PROVE  \E f : /\ f[0] = [out |-> out, queue |-> <<>>]
                  /\ \A k \in 1 .. Len(ms) : f[k] = Retry(f[k - 1], ms[k])
                  /\ RetryAll(ms) = f[Len(ms)]
<1> DEFINE n == Len(ms)
           Defines(f, m) ==
               f = [k \in 0 .. m |-> IF k = 0 THEN [out |-> out, queue |-> <<>>]
                                     ELSE Retry(f[k - 1], ms[k])]
           G == {m \in 0 .. n : \E f : Defines(f, m)}
<1>1. 0 \in G
    <2> DEFINE g == [k \in 0 .. 0 |-> [out |-> out, queue |-> <<>>]]
    <2>1. Defines(g, 0)
        OBVIOUS
    <2> HIDE DEF g, Defines
    <2> QED BY <2>1
<1>2. ASSUME NEW m \in 1 .. n, m - 1 \in G PROVE m \in G
    <2>1. PICK f : Defines(f, m - 1)
        BY <1>2
    <2> DEFINE g == [k \in 0 .. m |-> IF k = m THEN Retry(f[m - 1], ms[m]) ELSE f[k]]
    <2>2. \A k \in 0 .. m : g[k] = IF k = 0 THEN [out |-> out, queue |-> <<>>]
                                   ELSE Retry(g[k - 1], ms[k])
        BY <2>1
    <2>3. Defines(g, m)
        BY <2>2
    <2> HIDE DEF g, Defines
    <2> QED BY <2>3
<1>3. n \in G
    <2>1. n \in Nat
        OBVIOUS
    <2> HIDE DEF G, n
    <2> QED BY <1>1, <1>2, <2>1, UpTo
<1>4. PICK f : Defines(f, n)
    BY <1>3
<1> DEFINE h == CHOOSE g : Defines(g, n)
<1>5. Defines(h, n)
    <2> HIDE DEF Defines
    <2> QED BY <1>4
<1>6. RetryAll(ms) = h[n]
    BY Zenon DEF RetryAll
<1> HIDE DEF h
<1>7. /\ h[0] = [out |-> out, queue |-> <<>>]
      /\ \A k \in 1 .. n : h[k] = Retry(h[k - 1], ms[k])
    BY <1>5
<1> QED BY <1>6, <1>7

\* The function that ExecuteActions defines: the messages of one action after the
\* other.
LEMMA ExecuteSteps ==
    ASSUME ExecuteActions, Len(actions') \in Nat
    PROVE  \E f : /\ f[0] = Buffers
                  /\ \A k \in 1 .. Len(actions') :
                        f[k] = SendAll(f[k - 1], MessagesOf(actions'[k]))
                  /\ out' = f[Len(actions')].out
                  /\ triggerQueue' = f[Len(actions')].queue
<1> DEFINE n == Len(actions')
           Defines(f, m) ==
               f = [k \in 0 .. m |-> IF k = 0 THEN Buffers
                                     ELSE SendAll(f[k - 1], MessagesOf(actions'[k]))]
           G == {m \in 0 .. n : \E f : Defines(f, m)}
<1>1. 0 \in G
    <2> DEFINE g == [k \in 0 .. 0 |-> Buffers]
    <2>1. Defines(g, 0)
        OBVIOUS
    <2> HIDE DEF g, Defines
    <2> QED BY <2>1
<1>2. ASSUME NEW m \in 1 .. n, m - 1 \in G PROVE m \in G
    <2>1. PICK f : Defines(f, m - 1)
        BY <1>2
    <2> DEFINE g == [k \in 0 .. m |->
                         IF k = m THEN SendAll(f[m - 1], MessagesOf(actions'[m]))
                                  ELSE f[k]]
    <2>2. \A k \in 0 .. m : g[k] = IF k = 0 THEN Buffers
                                   ELSE SendAll(g[k - 1], MessagesOf(actions'[k]))
        BY <2>1
    <2>3. Defines(g, m)
        BY <2>2
    <2> HIDE DEF g, Defines
    <2> QED BY <2>3
<1>3. n \in G
    <2>1. n \in Nat
        OBVIOUS
    <2> HIDE DEF G, n
    <2> QED BY <1>1, <1>2, <2>1, UpTo
<1>4. PICK f : Defines(f, n)
    BY <1>3
<1> DEFINE h == CHOOSE g : Defines(g, n)
<1>5. Defines(h, n)
    <2> HIDE DEF Defines
    <2> QED BY <1>4
<1>6. out' = h[n].out /\ triggerQueue' = h[n].queue
    BY Zenon DEF ExecuteActions
<1> HIDE DEF h
<1>7. /\ h[0] = Buffers
      /\ \A k \in 1 .. n : h[k] = SendAll(h[k - 1], MessagesOf(actions'[k]))
    BY <1>5
<1> QED BY <1>6, <1>7

-----------------------------------------------------------------------------
(* What the buffers and the queue carry *)

\* Buffers and queue with messages of M.
Flows(M) == [out : [Channel -> Seq(M)], queue : Seq(M)]

\* No buffer is overfull, and each has the messages of its channel.
Sound(s) ==
    \A c \in Channel :
        /\ Len(s.out[c]) <= Capacity
        /\ \A i \in DOMAIN s.out[c] : s.out[c][i].channel = c

\* Where a message may be.
InBuffer(s, m) == \E c \in Channel : \E i \in DOMAIN s.out[c] : s.out[c][i] = m
InQueue(s, m) == \E i \in DOMAIN s.queue : s.queue[i] = m
Carries(s, m) == InBuffer(s, m) \/ InQueue(s, m)

\* m is put last in its buffer, or last in the queue.
Buffered(s, t, m) ==
    /\ HasRoom(s.out, m)
    /\ t.out = [s.out EXCEPT ![m.channel] = Append(s.out[m.channel], m)]
    /\ t.queue = s.queue

Queued(s, t, m) ==
    /\ t.out = s.out
    /\ t.queue = Append(s.queue, m)

Puts(s, t, m) == Buffered(s, t, m) \/ Queued(s, t, m)

\* r is q with m put last.
Extended(q, r, m) ==
    /\ Len(q) \in Nat /\ DOMAIN q = 1 .. Len(q)
    /\ Len(r) = Len(q) + 1 /\ DOMAIN r = 1 .. Len(q) + 1
    /\ r[Len(q) + 1] = m
    /\ \A i \in 1 .. Len(q) : r[i] = q[i]

\* What Append does to each place.
LEMMA Appended ==
    ASSUME NEW M, NEW q \in Seq(M), NEW m \in M
    PROVE  Append(q, m) \in Seq(M) /\ Extended(q, Append(q, m), m)
<1>1. Append(q, m) \in Seq(M) /\ Len(Append(q, m)) = Len(q) + 1
    BY AppendProperties
<1>2. Len(q) \in Nat /\ DOMAIN q = 1 .. Len(q)
    BY LenProperties
<1>3. DOMAIN Append(q, m) = 1 .. Len(q) + 1
    BY <1>1, LenProperties
<1>4. \A i \in 1 .. Len(q) + 1 : Append(q, m)[i] = IF i = Len(q) + 1 THEN m ELSE q[i]
    BY AppendProperties
<1> QED BY <1>1, <1>2, <1>3, <1>4 DEF Extended

\* Either way there are buffers and a queue again.
LEMMA PutFlows ==
    ASSUME NEW M, NEW s \in Flows(M), NEW m \in M, m.channel \in Channel,
           NEW t, \/ t = [out |-> [s.out EXCEPT ![m.channel] = Append(@, m)],
                         queue |-> s.queue]
                  \/ t = [out |-> s.out, queue |-> Append(s.queue, m)]
    PROVE  t \in Flows(M)
<1>1. PICK c \in Channel, q \in Seq(M) : c = m.channel /\ q = s.out[c]
    BY DEF Flows
<1>2. Append(q, m) \in Seq(M) /\ Append(s.queue, m) \in Seq(M)
    BY Appended DEF Flows
<1>3. PICK r \in Seq(M) : r = Append(q, m)
    BY <1>2
<1>4. [s.out EXCEPT ![c] = r] \in [Channel -> Seq(M)]
    BY DEF Flows
<1>5. CASE t = [out |-> [s.out EXCEPT ![c] = r], queue |-> s.queue]
    BY <1>4, <1>5 DEF Flows
<1>6. CASE t = [out |-> s.out, queue |-> Append(s.queue, m)]
    BY <1>2, <1>6 DEF Flows
<1> QED BY <1>1, <1>3, <1>5, <1>6

\* A send puts the message in its buffer if there is room.
LEMMA TrySendPuts ==
    ASSUME NEW M, NEW s \in Flows(M), NEW m \in M, m.channel \in Channel
    PROVE  /\ Puts(s, TrySend(s, m), m)
           /\ HasRoom(s.out, m) => Buffered(s, TrySend(s, m), m)
           /\ TrySend(s, m) \in Flows(M)
BY PutFlows DEF TrySend, Puts, Buffered, Queued

\* A retry puts it there only if no message before it was left.
LEMMA RetryPuts ==
    ASSUME NEW M, NEW s \in Flows(M), NEW m \in M, m.channel \in Channel
    PROVE  /\ Puts(s, Retry(s, m), m)
           /\ s.queue # <<>> => Queued(s, Retry(s, m), m)
           /\ Retry(s, m) \in Flows(M)
BY PutFlows DEF Retry, Puts, Buffered, Queued

\* What is put somewhere is carried, and all else stays where it was.
LEMMA PutCarries ==
    ASSUME NEW M, NEW s \in Flows(M), NEW t \in Flows(M), NEW m \in M,
           m.channel \in Channel, Sound(s), Puts(s, t, m)
    PROVE  /\ Sound(t)
           /\ \A x : InBuffer(s, x) => InBuffer(t, x)
           /\ \A x : InQueue(s, x) => InQueue(t, x)
           /\ \A x : Carries(t, x) <=> Carries(s, x) \/ x = m
<1>1. CASE Buffered(s, t, m)
    <2>1. PICK c \in Channel : c = m.channel
        OBVIOUS
    <2>2. PICK q \in Seq(M) : q = s.out[c]
        BY <2>1 DEF Flows
    <2>3. /\ Len(q) < Capacity
          /\ \A d \in Channel : t.out[d] = IF d = c THEN Append(q, m) ELSE s.out[d]
          /\ t.queue = s.queue
        BY <1>1, <2>1, <2>2 DEF Buffered, HasRoom, Flows
    <2>4. PICK r : r = Append(q, m) /\ Extended(q, r, m)
        BY Appended
    <2>5. t.out[c] = r
        BY <2>3, <2>4
    <2>6. Len(q) < Capacity
        BY <2>3
    <2>7. Sound(t)
        <3>1. /\ Len(t.out[c]) <= Capacity
              /\ \A i \in DOMAIN t.out[c] : t.out[c][i].channel = c
            BY ONLY <2>1, <2>2, <2>6, <2>4, <2>5, CapacityAssumption, Sound(s)
            DEF Sound, Extended
        <3>2. \A d \in Channel \ {c} : t.out[d] = s.out[d]
            BY <2>3
        <3> QED BY <3>1, <3>2 DEF Sound
    <2>8. ASSUME NEW x PROVE InBuffer(t, x) <=> InBuffer(s, x) \/ x = m
        <3>1. (\E i \in DOMAIN t.out[c] : t.out[c][i] = x)
                <=> (\E i \in DOMAIN s.out[c] : s.out[c][i] = x) \/ x = m
            BY ONLY <2>2, <2>4, <2>5 DEF Extended
        <3>2. \A d \in Channel \ {c} : t.out[d] = s.out[d]
            BY <2>3
        <3> QED BY <3>1, <3>2 DEF InBuffer
    <2> QED BY <2>3, <2>7, <2>8 DEF InQueue, Carries
<1>2. CASE Queued(s, t, m)
    <2>1. Extended(s.queue, t.queue, m)
        BY <1>2, Appended DEF Queued, Flows
    <2>2. \A x : InQueue(t, x) <=> InQueue(s, x) \/ x = m
        BY <2>1 DEF InQueue, Extended
    <2> QED BY <1>2, <2>2 DEF Queued, InBuffer, Sound, Carries
<1> QED BY <1>1, <1>2 DEF Puts

-----------------------------------------------------------------------------
(* The order of the beats of a line *)

\* m is a beat of a line that is sent to an RN-F.
IsBeat(m) == m.action.type = "SendCompData"

\* Beat a of the line that m is a beat of.
Prior(m, a) == Message(m.channel, m.type, a, m.action)

\* x is in one of the first n places of q.
Within(q, n, x) == \E h \in 1 .. n : q[h] = x

\* An RN-F that has received g has beat a of m's line, or will have it from the
\* first n places of the data buffer q.
Ahead(q, n, g, m, a) == <<m.action.txnId, a>> \in g \/ Within(q, n, Prior(m, a))

\* In the data buffer q, and in the queue p behind it, each beat comes after those
\* before it.
DatOrdered(q, g) ==
    \A i \in 1 .. Len(q) : IsBeat(q[i]) =>
        \A a \in 1 .. q[i].beat - 1 : Ahead(q, i - 1, g, q[i], a)

QueueOrdered(q, p, g) ==
    \A i \in 1 .. Len(p) : IsBeat(p[i]) =>
        \A a \in 1 .. p[i].beat - 1 :
            Ahead(q, Len(q), g, p[i], a) \/ Within(p, i - 1, Prior(p[i], a))

\* Both, in buffers and queue s.
Ordered(s, g) ==
    DatOrdered(s.out["dat"], g) /\ QueueOrdered(s.out["dat"], s.queue, g)

\* m may be put where t has it.
Follows(s, t, g, m) ==
    IsBeat(m) =>
        /\ m.channel = "dat"
        /\ \A a \in 1 .. m.beat - 1 :
              \/ Ahead(s.out["dat"], Len(s.out["dat"]), g, m, a)
              \/ Queued(s, t, m) /\ Within(s.queue, Len(s.queue), Prior(m, a))

\* What is within a sequence is within it where it is extended.
LEMMA WithinExtended ==
    ASSUME NEW q, NEW r, NEW m, Extended(q, r, m), NEW x
    PROVE  /\ \A n \in 0 .. Len(q) : Within(q, n, x) <=> Within(r, n, x)
           /\ Within(q, Len(q), x) => Within(r, Len(r), x)
           /\ Within(r, Len(r), x) => Within(q, Len(q), x) \/ x = m
BY DEF Within, Extended

\* The data buffer is extended by a message that those before it are ahead of.
LEMMA DatExtended ==
    ASSUME NEW q, NEW r, NEW m, Extended(q, r, m), NEW g, DatOrdered(q, g),
           IsBeat(m) => \A a \in 1 .. m.beat - 1 : Ahead(q, Len(q), g, m, a)
    PROVE  DatOrdered(r, g)
<1>1. ASSUME NEW i \in 1 .. Len(r), IsBeat(r[i]), NEW a \in 1 .. r[i].beat - 1
      PROVE  Ahead(r, i - 1, g, r[i], a)
    <2>1. PICK x : x = r[i]
        OBVIOUS
    <2>2. i - 1 \in 0 .. Len(q) /\ Len(q) \in Nat
        BY <1>1 DEF Extended
    <2>3. Ahead(q, i - 1, g, x, a)
        <3>1. CASE i \in 1 .. Len(q)
            <4>1. q[i] = x
                BY <3>1, <2>1 DEF Extended
            <4> QED BY <1>1, <2>1, <3>1, <4>1 DEF DatOrdered
        <3>2. CASE i = Len(q) + 1
            BY <1>1, <2>1, <2>2, <3>2 DEF Extended
        <3> QED BY <3>1, <3>2, <1>1 DEF Extended
    <2> QED BY <2>1, <2>2, <2>3, WithinExtended DEF Ahead
<1> QED BY <1>1 DEF DatOrdered

\* The queue is extended likewise.
LEMMA QueueExtended ==
    ASSUME NEW q, NEW p, NEW r, NEW m, Extended(p, r, m), NEW g, QueueOrdered(q, p, g),
           IsBeat(m) => \A a \in 1 .. m.beat - 1 :
                            Ahead(q, Len(q), g, m, a) \/ Within(p, Len(p), Prior(m, a))
    PROVE  QueueOrdered(q, r, g)
<1>1. ASSUME NEW i \in 1 .. Len(r), IsBeat(r[i]), NEW a \in 1 .. r[i].beat - 1
      PROVE  Ahead(q, Len(q), g, r[i], a) \/ Within(r, i - 1, Prior(r[i], a))
    <2>1. PICK x : x = r[i]
        OBVIOUS
    <2>2. i - 1 \in 0 .. Len(p) /\ Len(p) \in Nat
        BY <1>1 DEF Extended
    <2>3. Ahead(q, Len(q), g, x, a) \/ Within(p, i - 1, Prior(x, a))
        <3>1. CASE i \in 1 .. Len(p)
            <4>1. p[i] = x
                BY <3>1, <2>1 DEF Extended
            <4> QED BY <1>1, <2>1, <3>1, <4>1 DEF QueueOrdered
        <3>2. CASE i = Len(p) + 1
            BY <1>1, <2>1, <2>2, <3>2 DEF Extended
        <3> QED BY <3>1, <3>2, <1>1 DEF Extended
    <2> QED BY <2>1, <2>2, <2>3, WithinExtended
<1> QED BY <1>1 DEF QueueOrdered

\* More is ahead of the queue when the data buffer is extended.
LEMMA QueueBehindMore ==
    ASSUME NEW q, NEW p, NEW r, NEW m, Extended(q, r, m), NEW g, QueueOrdered(q, p, g)
    PROVE  QueueOrdered(r, p, g)
<1>1. ASSUME NEW x, NEW a, Ahead(q, Len(q), g, x, a) PROVE Ahead(r, Len(r), g, x, a)
    BY <1>1, WithinExtended DEF Ahead
<1> QED BY <1>1 DEF QueueOrdered

\* A message that follows its line's keeps the order.
LEMMA PutOrdered ==
    ASSUME NEW M, NEW s \in Flows(M), NEW t \in Flows(M), NEW m \in M,
           m.channel \in Channel, Puts(s, t, m), NEW g,
           Ordered(s, g), Follows(s, t, g, m)
    PROVE  Ordered(t, g)
<1>1. PICK q \in Seq(M), p \in Seq(M) : q = s.out["dat"] /\ p = s.queue
    BY DEF Flows, Channel
<1>2. DatOrdered(q, g) /\ QueueOrdered(q, p, g)
    BY <1>1 DEF Ordered
<1>3. CASE Buffered(s, t, m) /\ m.channel # "dat"
    <2>1. t.out["dat"] = q /\ t.queue = p
        BY <1>1, <1>3 DEF Buffered, Flows, Channel
    <2> QED BY <1>2, <2>1 DEF Ordered
<1>4. CASE Buffered(s, t, m) /\ m.channel = "dat"
    <2>1. t.out["dat"] = Append(q, m) /\ t.queue = p
        BY <1>1, <1>4 DEF Buffered, Flows, Channel
    <2>2. PICK r : r = t.out["dat"] /\ Extended(q, r, m)
        BY <2>1, Appended
    <2>3. CASE ~Queued(s, t, m)
        <3>1. IsBeat(m) => \A a \in 1 .. m.beat - 1 : Ahead(q, Len(q), g, m, a)
            BY <1>1, <2>3 DEF Follows
        <3> QED BY <1>2, <2>1, <2>2, <3>1, DatExtended, QueueBehindMore DEF Ordered
    <2>4. CASE Queued(s, t, m)
        BY <1>1, <2>2, <2>4 DEF Queued, Extended
    <2> QED BY <2>3, <2>4
<1>5. CASE Queued(s, t, m)
    <2>1. t.out["dat"] = q /\ t.queue = Append(p, m)
        BY <1>1, <1>5 DEF Queued
    <2>2. PICK r : r = t.queue /\ Extended(p, r, m)
        BY <2>1, Appended
    <2>3. IsBeat(m) => \A a \in 1 .. m.beat - 1 :
              Ahead(q, Len(q), g, m, a) \/ Within(p, Len(p), Prior(m, a))
        BY <1>1 DEF Follows
    <2>4. QueueOrdered(q, r, g)
        BY <1>2, <2>2, <2>3, QueueExtended
    <2> QED BY <1>2, <2>1, <2>2, <2>4 DEF Ordered
<1> QED BY <1>3, <1>4, <1>5 DEF Puts

-----------------------------------------------------------------------------
(* Several messages, one after the other *)

\* What is within k places is within k - 1, or is in the last.
LEMMA WithinOneMore ==
    ASSUME NEW q, NEW k \in Nat \ {0}, NEW x
    PROVE  Within(q, k, x) <=> Within(q, k - 1, x) \/ q[k] = x
BY DEF Within

\* Steps that each put the next message somewhere carry them all, and keep what
\* was carried where it was.
LEMMA PutAll ==
    ASSUME NEW M, NEW n \in Nat, NEW ms, NEW f, f[0] \in Flows(M), Sound(f[0]),
           \A k \in 1 .. n : ms[k] \in M /\ ms[k].channel \in Channel,
           \A k \in 1 .. n : f[k - 1] \in Flows(M) =>
               f[k] \in Flows(M) /\ Puts(f[k - 1], f[k], ms[k])
    PROVE  \A k \in 0 .. n :
               /\ f[k] \in Flows(M)
               /\ Sound(f[k])
               /\ \A x : Carries(f[k], x) <=> Carries(f[0], x) \/ Within(ms, k, x)
<1> DEFINE Done(k) ==
               /\ f[k] \in Flows(M)
               /\ Sound(f[k])
               /\ \A x : Carries(f[k], x) <=> Carries(f[0], x) \/ Within(ms, k, x)
           G == {k \in 0 .. n : Done(k)}
<1>1. 0 \in G
    BY DEF Within
<1>2. ASSUME NEW k \in 1 .. n, k - 1 \in G PROVE k \in G
    <2>1. PICK s : s = f[k - 1] /\ s \in Flows(M) /\ Sound(s)
        BY <1>2
    <2>2. PICK t : t = f[k] /\ t \in Flows(M) /\ Puts(s, t, ms[k])
        BY <2>1
    <2>3. PICK m \in M : m = ms[k] /\ m.channel \in Channel
        OBVIOUS
    <2>4. Sound(t) /\ \A x : Carries(t, x) <=> Carries(s, x) \/ x = m
        BY <2>1, <2>2, <2>3, PutCarries
    <2>5. \A x : Within(ms, k, x) <=> Within(ms, k - 1, x) \/ ms[k] = x
        BY WithinOneMore
    <2>6. \A x : Carries(s, x) <=> Carries(f[0], x) \/ Within(ms, k - 1, x)
        BY <1>2, <2>1
    <2> QED BY <2>2, <2>3, <2>4, <2>5, <2>6
<1>3. \A k \in 0 .. n : k \in G
    <2> HIDE DEF G
    <2> QED BY <1>1, <1>2, UpTo
<1> QED BY <1>3

\* The messages of an action are all carried after it.
LEMMA SendAllCarries ==
    ASSUME NEW M, NEW s \in Flows(M), Sound(s), NEW ms \in Seq(M),
           \A k \in 1 .. Len(ms) : ms[k].channel \in Channel
    PROVE  /\ SendAll(s, ms) \in Flows(M)
           /\ Sound(SendAll(s, ms))
           /\ \A x : Carries(SendAll(s, ms), x) <=>
                         Carries(s, x) \/ Within(ms, Len(ms), x)
<1>1. Len(ms) \in Nat /\ \A k \in 1 .. Len(ms) : ms[k] \in M
    BY LenProperties
<1>2. PICK f : /\ f[0] = s
               /\ \A k \in 1 .. Len(ms) : f[k] = TrySend(f[k - 1], ms[k])
               /\ SendAll(s, ms) = f[Len(ms)]
    BY <1>1, SendAllSteps
<1>3. \A k \in 1 .. Len(ms) : f[k - 1] \in Flows(M) =>
          f[k] \in Flows(M) /\ Puts(f[k - 1], f[k], ms[k])
    BY <1>1, <1>2, TrySendPuts
<1>4. PICK n \in Nat : n = Len(ms)
    BY <1>1
<1>5. \A k \in 0 .. n :
          /\ f[k] \in Flows(M)
          /\ Sound(f[k])
          /\ \A x : Carries(f[k], x) <=> Carries(f[0], x) \/ Within(ms, k, x)
    BY ONLY <1>1, <1>2, <1>3, <1>4, s \in Flows(M), Sound(s),
            \A k \in 1 .. Len(ms) : ms[k].channel \in Channel, PutAll
<1> QED BY <1>2, <1>4, <1>5

\* A retry of the queue carries all that was in it and in the buffers.
LEMMA RetryAllCarries ==
    ASSUME NEW M, Buffers \in Flows(M), Sound(Buffers),
           \A k \in 1 .. Len(triggerQueue) : triggerQueue[k].channel \in Channel
    PROVE  /\ RetryAll(triggerQueue) \in Flows(M)
           /\ Sound(RetryAll(triggerQueue))
           /\ \A x : Carries(RetryAll(triggerQueue), x) <=> Carries(Buffers, x)
<1>1. PICK ms \in Seq(M) : ms = triggerQueue
    BY DEF Buffers, Flows
<1>2. Len(ms) \in Nat /\ DOMAIN ms = 1 .. Len(ms) /\ \A k \in 1 .. Len(ms) : ms[k] \in M
    BY LenProperties
<1>3. PICK f : /\ f[0] = [out |-> out, queue |-> <<>>]
               /\ \A k \in 1 .. Len(ms) : f[k] = Retry(f[k - 1], ms[k])
               /\ RetryAll(ms) = f[Len(ms)]
    BY <1>2, RetryAllSteps
<1>4. f[0] \in Flows(M)
    <2>1. <<>> \in Seq(M)
        OBVIOUS
    <2>2. out \in [Channel -> Seq(M)]
        BY DEF Buffers, Flows
    <2> QED BY <1>3, <2>1, <2>2 DEF Flows
<1>5. Sound(f[0])
    BY <1>3 DEF Sound, Buffers
<1>6. \A x : Carries(f[0], x) <=> InBuffer(Buffers, x)
    BY <1>3 DEF Carries, InBuffer, InQueue, Buffers
<1>7. \A k \in 1 .. Len(ms) : f[k - 1] \in Flows(M) =>
          f[k] \in Flows(M) /\ Puts(f[k - 1], f[k], ms[k])
    BY <1>1, <1>2, <1>3, RetryPuts
<1>8. PICK n \in Nat : n = Len(ms)
    BY <1>2
<1>9. \A k \in 0 .. n :
          /\ f[k] \in Flows(M)
          /\ Sound(f[k])
          /\ \A x : Carries(f[k], x) <=> Carries(f[0], x) \/ Within(ms, k, x)
    BY ONLY <1>1, <1>2, <1>4, <1>5, <1>7, <1>8,
            \A k \in 1 .. Len(triggerQueue) : triggerQueue[k].channel \in Channel, PutAll
<1>10. \A x : Within(ms, n, x) <=> InQueue(Buffers, x)
    BY <1>1, <1>2, <1>8 DEF Within, InQueue, Buffers
<1> QED BY <1>1, <1>3, <1>6, <1>8, <1>9, <1>10 DEF Carries

\* Messages that are no beats of a line for an RN-F keep the order of those that are.
LEMMA SendOthersOrdered ==
    ASSUME NEW M, NEW s \in Flows(M), NEW ms \in Seq(M), NEW g, Ordered(s, g),
           \A k \in 1 .. Len(ms) : ms[k].channel \in Channel /\ ~IsBeat(ms[k])
    PROVE  SendAll(s, ms) \in Flows(M) /\ Ordered(SendAll(s, ms), g)
<1>1. Len(ms) \in Nat /\ \A k \in 1 .. Len(ms) : ms[k] \in M
    BY LenProperties
<1>2. PICK f : /\ f[0] = s
               /\ \A k \in 1 .. Len(ms) : f[k] = TrySend(f[k - 1], ms[k])
               /\ SendAll(s, ms) = f[Len(ms)]
    BY <1>1, SendAllSteps
<1> DEFINE G == {k \in 0 .. Len(ms) : f[k] \in Flows(M) /\ Ordered(f[k], g)}
<1>3. 0 \in G
    BY <1>1, <1>2
<1>4. ASSUME NEW k \in 1 .. Len(ms), k - 1 \in G PROVE k \in G
    <2>1. PICK r : r = f[k - 1] /\ r \in Flows(M) /\ Ordered(r, g)
        BY <1>4
    <2>2. PICK m \in M : m = ms[k] /\ m.channel \in Channel /\ ~IsBeat(m)
        BY <1>1
    <2>3. PICK t : t = TrySend(r, m) /\ t \in Flows(M) /\ Puts(r, t, m)
        BY <2>1, <2>2, TrySendPuts
    <2>4. Follows(r, t, g, m)
        BY <2>2 DEF Follows
    <2>5. Ordered(t, g)
        BY <2>1, <2>2, <2>3, <2>4, PutOrdered
    <2> QED BY <1>2, <2>1, <2>2, <2>3, <2>5
<1>5. \A k \in 0 .. Len(ms) : k \in G
    <2> HIDE DEF G
    <2> QED BY <1>1, <1>3, <1>4, UpTo
<1> QED BY <1>1, <1>2, <1>5

\* The first k beats of a line are in the data buffer or, when that is full, in the
\* queue.
BeatsSent(s, ms, k) ==
    \A b \in 1 .. k :
        \/ Within(s.out["dat"], Len(s.out["dat"]), ms[b])
        \/ /\ Len(s.out["dat"]) >= Capacity
           /\ Within(s.queue, Len(s.queue), ms[b])

\* One more beat.
LEMMA BeatSent ==
    ASSUME NEW M, NEW s \in Flows(M), NEW ms, NEW k \in Nat \ {0}, NEW m \in M,
           m = ms[k], m.channel = "dat", NEW t \in Flows(M), Puts(s, t, m),
           HasRoom(s.out, m) => Buffered(s, t, m), BeatsSent(s, ms, k - 1)
    PROVE  BeatsSent(t, ms, k)
<1>1. PICK q \in Seq(M), p \in Seq(M) : q = s.out["dat"] /\ p = s.queue
    BY DEF Flows, Channel
<1>2. Len(q) \in Nat /\ Len(p) \in Nat
    BY LenProperties
<1>3. CASE Buffered(s, t, m)
    <2>1. t.out["dat"] = Append(q, m) /\ Len(q) < Capacity
        BY <1>1, <1>3 DEF Buffered, Flows, Channel, HasRoom
    <2>2. PICK r : r = t.out["dat"] /\ Extended(q, r, m)
        BY <2>1, Appended
    <2>3. Within(r, Len(r), m)
        BY <2>2 DEF Within, Extended
    <2>4. \A b \in 1 .. k - 1 : Within(q, Len(q), ms[b])
        BY <1>1, <1>2, <2>1, CapacityAssumption DEF BeatsSent
    <2>5. \A b \in 1 .. k - 1 : Within(r, Len(r), ms[b])
        BY <2>2, <2>4, WithinExtended
    <2> QED BY <2>2, <2>3, <2>5 DEF BeatsSent
<1>4. CASE ~Buffered(s, t, m)
    <2>1. Queued(s, t, m) /\ Len(q) >= Capacity
        BY <1>1, <1>2, <1>4, CapacityAssumption DEF Puts, HasRoom
    <2>2. t.out["dat"] = q /\ t.queue = Append(p, m)
        BY <1>1, <2>1 DEF Queued
    <2>3. PICK r : r = t.queue /\ Extended(p, r, m)
        BY <2>2, Appended
    <2>4. Within(r, Len(r), m)
        BY <2>3 DEF Within, Extended
    <2>5. \A b \in 1 .. k - 1 : Within(p, Len(p), ms[b]) => Within(r, Len(r), ms[b])
        BY <2>3, WithinExtended
    <2>6. \A b \in 1 .. k - 1 : Within(q, Len(q), ms[b]) \/ Within(p, Len(p), ms[b])
        BY <1>1 DEF BeatsSent
    <2> QED BY <2>1, <2>2, <2>3, <2>4, <2>5, <2>6 DEF BeatsSent
<1> QED BY <1>3, <1>4

\* The beats of a line keep the order: one that waits has those after it wait.
LEMMA SendLineOrdered ==
    ASSUME NEW M, NEW s \in Flows(M), NEW ms \in Seq(M), NEW g, Ordered(s, g),
           NEW type, NEW x, \A k \in 1 .. Len(ms) : ms[k] = Message("dat", type, k, x)
    PROVE  SendAll(s, ms) \in Flows(M) /\ Ordered(SendAll(s, ms), g)
<1>1. Len(ms) \in Nat /\ \A k \in 1 .. Len(ms) : ms[k] \in M
    BY LenProperties
<1>2. PICK f : /\ f[0] = s
               /\ \A k \in 1 .. Len(ms) : f[k] = TrySend(f[k - 1], ms[k])
               /\ SendAll(s, ms) = f[Len(ms)]
    BY <1>1, SendAllSteps
<1> DEFINE G == {k \in 0 .. Len(ms) : /\ f[k] \in Flows(M)
                                      /\ Ordered(f[k], g)
                                      /\ BeatsSent(f[k], ms, k)}
<1>3. 0 \in G
    BY <1>1, <1>2 DEF BeatsSent
<1>4. ASSUME NEW k \in 1 .. Len(ms), k - 1 \in G PROVE k \in G
    <2>1. PICK r : r = f[k - 1] /\ r \in Flows(M) /\ Ordered(r, g)
                     /\ BeatsSent(r, ms, k - 1)
        BY <1>4
    <2>2. PICK m \in M : m = ms[k] /\ m = Message("dat", type, k, x)
        BY <1>1
    <2>3. m.channel = "dat" /\ m.type = type /\ m.beat = k /\ m.action = x
            /\ m.channel \in Channel
        BY <2>2 DEF Message, Channel
    <2>4. PICK t : /\ t = TrySend(r, m) /\ t \in Flows(M) /\ Puts(r, t, m)
                   /\ HasRoom(r.out, m) => Buffered(r, t, m)
        BY <2>1, <2>3, TrySendPuts
    <2>5. \A a \in 1 .. k - 1 : Prior(m, a) = ms[a]
        BY <2>3, <1>1 DEF Prior
    <2>6. PICK q \in Seq(M), p \in Seq(M) : q = r.out["dat"] /\ p = r.queue
        BY <2>1 DEF Flows, Channel
    <2>7. Len(q) \in Nat
        BY LenProperties
    <2>8. Follows(r, t, g, m)
        <3>1. ASSUME NEW a \in 1 .. k - 1
              PROVE  \/ Ahead(q, Len(q), g, m, a)
                     \/ Queued(r, t, m) /\ Within(p, Len(p), Prior(m, a))
            <4>1. CASE Within(q, Len(q), ms[a])
                BY <2>5, <4>1 DEF Ahead
            <4>2. CASE Len(q) >= Capacity /\ Within(p, Len(p), ms[a])
                <5>1. ~Buffered(r, t, m)
                    BY <2>3, <2>6, <2>7, <4>2, CapacityAssumption DEF Buffered, HasRoom
                <5> QED BY <2>4, <2>5, <4>2, <5>1 DEF Puts
            <4> QED BY <2>1, <2>6, <4>1, <4>2 DEF BeatsSent
        <3> QED BY <2>3, <2>6, <3>1 DEF Follows
    <2>9. Ordered(t, g)
        BY <2>1, <2>3, <2>4, <2>8, PutOrdered
    <2>10. BeatsSent(t, ms, k)
        BY <2>1, <2>2, <2>3, <2>4, BeatSent
    <2> QED BY <1>2, <2>1, <2>2, <2>4, <2>9, <2>10
<1>5. \A k \in 0 .. Len(ms) : k \in G
    <2> HIDE DEF G
    <2> QED BY <1>1, <1>3, <1>4, UpTo
<1> QED BY <1>1, <1>2, <1>5

\* The data buffer q still leads to r, and the first k messages of the queue ms that
\* are beats are in it or wait again.
BeatsRetried(q, s, ms, k) ==
    /\ \A x : Within(q, Len(q), x) => Within(s.out["dat"], Len(s.out["dat"]), x)
    /\ \A b \in 1 .. k : IsBeat(ms[b]) =>
          \/ Within(s.out["dat"], Len(s.out["dat"]), ms[b])
          \/ s.queue # <<>> /\ Within(s.queue, Len(s.queue), ms[b])

\* One more message of the queue.
LEMMA BeatRetried ==
    ASSUME NEW M, NEW s \in Flows(M), NEW ms, NEW k \in Nat \ {0}, NEW m \in M,
           m = ms[k], IsBeat(m) => m.channel = "dat", m.channel \in Channel,
           NEW t \in Flows(M), Puts(s, t, m), NEW q, BeatsRetried(q, s, ms, k - 1)
    PROVE  BeatsRetried(q, t, ms, k)
<1>1. PICK d \in Seq(M), p \in Seq(M) : d = s.out["dat"] /\ p = s.queue
    BY DEF Flows, Channel
<1>2. Len(d) \in Nat /\ Len(p) \in Nat
    BY LenProperties
<1>3. CASE Buffered(s, t, m) /\ m.channel # "dat"
    <2>1. t.out["dat"] = d /\ t.queue = p
        BY <1>1, <1>3 DEF Buffered, Flows, Channel
    <2> QED BY <1>1, <1>3, <2>1 DEF BeatsRetried
<1>4. CASE Buffered(s, t, m) /\ m.channel = "dat"
    <2>1. t.out["dat"] = Append(d, m) /\ t.queue = p
        BY <1>1, <1>4 DEF Buffered, Flows, Channel
    <2>2. PICK r : r = t.out["dat"] /\ Extended(d, r, m)
        BY <2>1, Appended
    <2>3. Within(r, Len(r), m)
        BY <2>2 DEF Within, Extended
    <2>4. \A x : Within(d, Len(d), x) => Within(r, Len(r), x)
        BY <2>2, WithinExtended
    <2> QED BY <1>1, <2>1, <2>2, <2>3, <2>4 DEF BeatsRetried
<1>5. CASE Queued(s, t, m)
    <2>1. t.out["dat"] = d /\ t.queue = Append(p, m)
        BY <1>1, <1>5 DEF Queued
    <2>2. PICK r : r = t.queue /\ Extended(p, r, m)
        BY <2>1, Appended
    <2>3. Within(r, Len(r), m) /\ r # <<>>
        BY <2>2, <1>2 DEF Within, Extended
    <2>4. \A x : Within(p, Len(p), x) => Within(r, Len(r), x)
        BY <2>2, WithinExtended
    <2> QED BY <1>1, <2>1, <2>2, <2>3, <2>4 DEF BeatsRetried
<1> QED BY <1>3, <1>4, <1>5 DEF Puts

\* A retry keeps the order: after the first message that stays, all stay.
LEMMA RetryAllOrdered ==
    ASSUME NEW M, Buffers \in Flows(M), NEW g, Ordered(Buffers, g),
           \A k \in 1 .. Len(triggerQueue) :
               /\ triggerQueue[k].channel \in Channel
               /\ IsBeat(triggerQueue[k]) => triggerQueue[k].channel = "dat"
    PROVE  Ordered(RetryAll(triggerQueue), g)
<1>1. PICK ms \in Seq(M), q \in Seq(M) : ms = triggerQueue /\ q = out["dat"]
    BY DEF Buffers, Flows, Channel
<1>2. Len(ms) \in Nat /\ \A k \in 1 .. Len(ms) : ms[k] \in M
    BY LenProperties
<1>3. PICK f : /\ f[0] = [out |-> out, queue |-> <<>>]
               /\ \A k \in 1 .. Len(ms) : f[k] = Retry(f[k - 1], ms[k])
               /\ RetryAll(ms) = f[Len(ms)]
    BY <1>2, RetryAllSteps
<1>4. DatOrdered(q, g) /\ QueueOrdered(q, ms, g)
    BY <1>1 DEF Ordered, Buffers
<1> DEFINE G == {k \in 0 .. Len(ms) : /\ f[k] \in Flows(M)
                                      /\ Ordered(f[k], g)
                                      /\ BeatsRetried(q, f[k], ms, k)}
<1>5. 0 \in G
    <2>1. f[0] \in Flows(M)
        <3>1. <<>> \in Seq(M)
            OBVIOUS
        <3>2. out \in [Channel -> Seq(M)]
            BY DEF Buffers, Flows
        <3> QED BY <1>3, <3>1, <3>2 DEF Flows
    <2>2. Ordered(f[0], g)
        <3>1. QueueOrdered(q, <<>>, g)
            BY DEF QueueOrdered
        <3> QED BY <1>1, <1>3, <1>4, <3>1 DEF Ordered
    <2>3. BeatsRetried(q, f[0], ms, 0)
        BY <1>1, <1>3 DEF BeatsRetried
    <2> QED BY <1>2, <2>1, <2>2, <2>3
<1>6. ASSUME NEW k \in 1 .. Len(ms), k - 1 \in G PROVE k \in G
    <2>1. PICK r : r = f[k - 1] /\ r \in Flows(M) /\ Ordered(r, g)
                     /\ BeatsRetried(q, r, ms, k - 1)
        BY <1>6
    <2>2. PICK m \in M : m = ms[k] /\ m.channel \in Channel
                           /\ (IsBeat(m) => m.channel = "dat")
        BY <1>1, <1>2
    <2>3. PICK t : /\ t = Retry(r, m) /\ t \in Flows(M) /\ Puts(r, t, m)
                   /\ r.queue # <<>> => Queued(r, t, m)
        BY <2>1, <2>2, RetryPuts
    <2>4. PICK d \in Seq(M), p \in Seq(M) : d = r.out["dat"] /\ p = r.queue
        BY <2>1 DEF Flows, Channel
    <2>5. Follows(r, t, g, m)
        <3>1. ASSUME IsBeat(m), NEW a \in 1 .. m.beat - 1
              PROVE  \/ Ahead(d, Len(d), g, m, a)
                     \/ Queued(r, t, m) /\ Within(p, Len(p), Prior(m, a))
            <4>1. Ahead(q, Len(q), g, m, a) \/ Within(ms, k - 1, Prior(m, a))
                BY <1>4, <2>2, <3>1 DEF QueueOrdered
            <4>2. CASE Ahead(q, Len(q), g, m, a)
                BY <2>1, <2>4, <4>2 DEF Ahead, BeatsRetried
            <4>3. CASE Within(ms, k - 1, Prior(m, a))
                <5>1. PICK h \in 1 .. k - 1 : ms[h] = Prior(m, a)
                    BY <4>3 DEF Within
                <5>2. IsBeat(ms[h])
                    BY <3>1, <5>1 DEF IsBeat, Prior, Message
                <5>3. \/ Within(d, Len(d), ms[h])
                      \/ p # <<>> /\ Within(p, Len(p), ms[h])
                    BY <2>1, <2>4, <5>2 DEF BeatsRetried
                <5> QED BY <2>3, <2>4, <5>1, <5>3 DEF Ahead
            <4> QED BY <4>1, <4>2, <4>3
        <3> QED BY <2>2, <2>4, <3>1 DEF Follows
    <2>6. Ordered(t, g)
        BY <2>1, <2>2, <2>3, <2>5, PutOrdered
    <2>7. BeatsRetried(q, t, ms, k)
        BY <2>1, <2>2, <2>3, BeatRetried
    <2> QED BY <1>3, <2>1, <2>2, <2>3, <2>6, <2>7
<1>7. \A k \in 0 .. Len(ms) : k \in G
    <2> HIDE DEF G
    <2> QED BY <1>2, <1>5, <1>6, UpTo
<1> QED BY <1>1, <1>2, <1>3, <1>7

-----------------------------------------------------------------------------
(* The messages of an action *)

\* What the engine asks of the middleware.
ActionTypes ==
    SnoopTypes \cup {"SendReadNoSnp", "SendWriteNoSnp", "SendCompData", "SendComp",
                     "SendCompDBIDResp"}

\* The messages that an action is sent as.
MessagesFor(x) ==
    IF x.type = "SendReadNoSnp" THEN {Message("req", "ReadNoSnp", 0, x)}
    ELSE IF x.type = "SendWriteNoSnp"
    THEN {Message("req", "WriteNoSnp", 0, x)}
             \cup {Message("dat", "NCBWrData", b, x) : b \in 1 .. Beats}
    ELSE IF x.type = "SendCompData"
    THEN {Message("dat", CompDataType(x.respState), b, x) : b \in 1 .. Beats}
    ELSE IF x.type = "SendComp" THEN {Message("rsp", "Comp_UC", 0, x)}
    ELSE IF x.type = "SendCompDBIDResp" THEN {Message("rsp", "CompDBIDResp", 0, x)}
    ELSE {Message("snp", SnoopType[x.type], 0, x)}

\* q lists each element of S once.
ListsOnce(q, S) ==
    /\ q \in Seq(S)
    /\ \A m \in S : Within(q, Len(q), m)
    /\ \A i, j \in 1 .. Len(q) : q[i] = q[j] => i = j

\* One message is listed alone.
LEMMA ListedAlone ==
    ASSUME NEW m
    PROVE  ListsOnce(<<m>>, {m})
BY DEF ListsOnce, Within

\* The beats of a line are listed in their order.
LEMMA ListedLine ==
    ASSUME NEW type, NEW x
    PROVE  /\ ListsOnce(Line(type, x), {Message("dat", type, b, x) : b \in 1 .. Beats})
           /\ Len(Line(type, x)) = Beats
           /\ \A b \in 1 .. Beats : Line(type, x)[b] = Message("dat", type, b, x)
<1> DEFINE S == {Message("dat", type, b, x) : b \in 1 .. Beats}
           F == [b \in 1 .. Beats |-> Message("dat", type, b, x)]
<1>1. F \in Seq(S) /\ Len(F) = Beats
    BY BeatsAssumption
<1>2. \A b \in 1 .. Beats : F[b] = Message("dat", type, b, x) /\ F[b].beat = b
    BY DEF Message
<1>3. F = Line(type, x)
    BY DEF Line
<1>4. \A m \in S : Within(F, Beats, m)
    BY <1>2 DEF Within
<1>5. \A i, j \in 1 .. Beats : F[i] = F[j] => i = j
    BY <1>2
<1> HIDE DEF F
<1> QED BY <1>1, <1>2, <1>3, <1>4, <1>5 DEF ListsOnce

\* A first message and then others list both.
LEMMA ListedBoth ==
    ASSUME NEW m, NEW S, m \notin S, NEW q, ListsOnce(q, S)
    PROVE  ListsOnce(<<m>> \o q, {m} \cup S)
<1> DEFINE U == {m} \cup S
<1>1. PICK h : h = <<m>> /\ h \in Seq(U) /\ Len(h) = 1 /\ h[1] = m
    <2>1. <<m>> \in Seq(U) /\ Len(<<m>>) = 1 /\ <<m>>[1] = m
        OBVIOUS
    <2> HIDE DEF U
    <2> QED BY <2>1
<1>2. \A i \in 1 .. Len(q) : q[i] \in S
    BY LenProperties DEF ListsOnce
<1>3. q \in Seq(U) /\ Len(q) \in Nat
    <2>1. q \in Seq(S) /\ Len(q) \in Nat /\ q = [i \in 1 .. Len(q) |-> q[i]]
        BY LenProperties DEF ListsOnce
    <2> QED BY <1>2, <2>1
<1>4. PICK r : r = h \o q
    OBVIOUS
<1>5. /\ r \in Seq(U) /\ Len(r) = 1 + Len(q)
      /\ \A i \in 1 .. 1 + Len(q) : r[i] = IF i <= 1 THEN h[i] ELSE q[i - 1]
    <2> HIDE DEF U
    <2> QED BY <1>1, <1>3, <1>4, ConcatProperties
<1>6. r[1] = m /\ \A i \in 1 .. Len(q) : r[i + 1] = q[i]
    BY <1>1, <1>3, <1>5
<1>7. PICK l \in Nat : l = Len(q) /\ Len(r) = 1 + l
    BY <1>3, <1>5
<1>8. ASSUME NEW y \in U PROVE Within(r, Len(r), y)
    <2>1. CASE y = m
        BY <1>6, <1>7, <2>1 DEF Within
    <2>2. CASE y \in S
        <3>1. PICK i \in 1 .. l : q[i] = y
            BY <1>7, <2>2 DEF Within, ListsOnce
        <3>2. r[i + 1] = y /\ i + 1 \in 1 .. 1 + l
            BY <1>6, <1>7, <3>1
        <3> QED BY <1>7, <3>2 DEF Within
    <2> QED BY <2>1, <2>2
<1>9. ASSUME NEW i \in 1 .. 1 + l, NEW j \in 1 .. 1 + l, r[i] = r[j] PROVE i = j
    <2>1. \A k \in 2 .. 1 + l : r[k] = q[k - 1] /\ k - 1 \in 1 .. l /\ r[k] # m
        BY <1>2, <1>5, <1>7
    <2>2. \A h1, h2 \in 1 .. l : q[h1] = q[h2] => h1 = h2
        BY <1>7 DEF ListsOnce
    <2>3. CASE i = 1 \/ j = 1
        BY <1>6, <1>9, <2>1, <2>3
    <2>4. CASE i # 1 /\ j # 1
        <3>1. i \in 2 .. 1 + l /\ j \in 2 .. 1 + l
            BY <2>4
        <3>2. q[i - 1] = q[j - 1] /\ i - 1 \in 1 .. l /\ j - 1 \in 1 .. l
            BY <1>9, <2>1, <3>1
        <3>3. i - 1 = j - 1
            BY <2>2, <3>2
        <3> QED BY <3>1, <3>3
    <2> QED BY <2>3, <2>4
<1> QED BY <1>1, <1>4, <1>5, <1>8, <1>9, <1>7 DEF ListsOnce

\* An action is sent as each of its messages, once.
LEMMA MessagesListed ==
    ASSUME NEW x, x.type \in ActionTypes
    PROVE  ListsOnce(MessagesOf(x), MessagesFor(x))
<1>1. CASE x.type = "SendReadNoSnp"
    BY <1>1, ListedAlone DEF MessagesOf, MessagesFor, SendReadNoSnp, SnoopTypes
<1>2. CASE x.type = "SendWriteNoSnp"
    <2> DEFINE S == {Message("dat", "NCBWrData", b, x) : b \in 1 .. Beats}
    <2>1. PICK m : m = Message("req", "WriteNoSnp", 0, x)
        OBVIOUS
    <2>2. m \notin S
        BY <2>1 DEF Message
    <2>3. MessagesOf(x) = <<m>> \o Line("NCBWrData", x)
        BY <1>2, <2>1 DEF MessagesOf, SendWriteNoSnp, SnoopTypes
    <2>4. MessagesFor(x) = {m} \cup S
        BY <1>2, <2>1 DEF MessagesFor
    <2>5. ListsOnce(Line("NCBWrData", x), S)
        BY ListedLine
    <2> HIDE DEF S
    <2> QED BY <2>2, <2>3, <2>4, <2>5, ListedBoth
<1>3. CASE x.type = "SendCompData"
    <2>1. MessagesOf(x) = Line(CompDataType(x.respState), x)
        BY <1>3 DEF MessagesOf, SendCompData, SnoopTypes
    <2>2. MessagesFor(x) =
              {Message("dat", CompDataType(x.respState), b, x) : b \in 1 .. Beats}
        BY <1>3 DEF MessagesFor
    <2> QED BY <2>1, <2>2, ListedLine
<1>4. CASE x.type = "SendComp"
    BY <1>4, ListedAlone DEF MessagesOf, MessagesFor, SendComp, SnoopTypes
<1>5. CASE x.type = "SendCompDBIDResp"
    BY <1>5, ListedAlone DEF MessagesOf, MessagesFor, SendCompDBIDResp, SnoopTypes
<1>6. CASE x.type \in SnoopTypes
    BY <1>6, ListedAlone DEF MessagesOf, MessagesFor, SendSnoop, SnoopTypes
<1> QED BY <1>1, <1>2, <1>3, <1>4, <1>5, <1>6 DEF ActionTypes

\* What such a message is.
LEMMA MessageForms ==
    ASSUME NEW x, x.type \in ActionTypes, NEW m \in MessagesFor(x)
    PROVE  /\ m.action = x
           /\ m.channel \in Channel
           /\ m.beat \in 0 .. Beats
           /\ IsBeat(m) <=> x.type = "SendCompData"
           /\ IsBeat(m) => m.channel = "dat" /\ m.beat \in 1 .. Beats
           /\ m.channel = "snp" <=> x.type \in SnoopTypes
           /\ m.type = "CompDBIDResp" <=> x.type = "SendCompDBIDResp"
           /\ m.type = "ReadNoSnp" <=> x.type = "SendReadNoSnp"
           /\ m.type # "Comp_I"
<1>1. CompDataType(x.respState) \notin {"CompDBIDResp", "ReadNoSnp", "Comp_I"}
    BY DEF CompDataType
<1>2. CASE x.type \in SnoopTypes
    BY <1>2, BeatsAssumption
    DEF MessagesFor, Message, Channel, IsBeat, SnoopTypes, SnoopType
<1>3. CASE x.type \notin SnoopTypes
    BY <1>1, <1>3, BeatsAssumption
       DEF ActionTypes, MessagesFor, Message, Channel, IsBeat, SnoopTypes
<1> QED BY <1>2, <1>3

-----------------------------------------------------------------------------
(* What a call of the engine returns *)

\* The actions of the call come in a sequence, and the middleware knows each.
Listed ==
    /\ \E S : actions' \in Seq(S)
    /\ \A j \in DOMAIN actions' : actions'[j].type \in ActionTypes

\* No action and one action are sequences.
LEMMA ShortLists ==
    /\ actions' = <<>> => Listed
    /\ \A x : actions' = <<x>> /\ x.type \in ActionTypes => Listed
    /\ \A x, y : actions' = <<x, y>> /\ {x.type, y.type} \subseteq ActionTypes => Listed
<1>1. ASSUME actions' = <<>> PROVE Listed
    <2>1. <<>> \in Seq({}) /\ DOMAIN <<>> = {}
        OBVIOUS
    <2> QED BY <1>1, <2>1 DEF Listed
<1>2. ASSUME NEW x, actions' = <<x>>, x.type \in ActionTypes PROVE Listed
    <2>1. <<x>> \in Seq({x}) /\ \A j \in DOMAIN <<x>> : <<x>>[j] = x
        OBVIOUS
    <2> QED BY ONLY <1>2, <2>1 DEF Listed
<1>3. ASSUME NEW x, NEW y, actions' = <<x, y>>,
             x.type \in ActionTypes, y.type \in ActionTypes
      PROVE  Listed
    <2>1. <<x, y>> \in Seq({x, y}) /\ \A j \in DOMAIN <<x, y>> : <<x, y>>[j] \in {x, y}
        OBVIOUS
    <2> QED BY ONLY <1>3, <2>1 DEF Listed
<1> QED BY ONLY <1>1, <1>2, <1>3

\* The snoops of a request are as many as there are other sharers.
LEMMA SnoopsListed ==
    ASSUME EngineTypeOK, NEW txn \in ChiTransaction, NEW type \in SnoopTypes,
           NEW retToSrc, NEW target, SnoopOthers(txn, type, retToSrc, target)
    PROVE  Listed
<1> DEFINE count == Cardinality(OtherSharers(txn))
<1>1. count \in Nat
    BY OtherSharersCount
<1>2. PICK node :
          actions' = [k \in 1 .. count |->
                        Snoop(type, txn.addr, nextSnoopTxnId + k - 1, node[k], retToSrc)]
    BY DEF SnoopOthers
<1> DEFINE msg(k) == Snoop(type, txn.addr, nextSnoopTxnId + k - 1, node[k], retToSrc)
<1>3. \A k \in 1 .. count : msg(k).type \in ActionTypes
    BY DEF Snoop, ActionTypes
<1>4. actions' = [k \in 1 .. count |-> msg(k)]
    BY <1>2
<1> HIDE DEF msg, count
<1>5. actions' \in Seq({msg(k) : k \in 1 .. count})
    BY <1>1, <1>4
<1>6. \A j \in DOMAIN actions' : actions'[j].type \in ActionTypes
    BY <1>3, <1>4
<1> QED BY <1>1, <1>5, <1>6 DEF Listed, count

\* A request's.
LEMMA RequestListed ==
    ASSUME EngineTypeOK, NEW txn \in ChiTransaction, RecvRequest(txn)
    PROVE  Listed
<1>1. \A target : FetchFromMemory(txn, target) => Listed
    BY ShortLists DEF FetchFromMemory, ReadNoSnp, ActionTypes
<1>2. \A target : ReadMiss(txn, target) => Listed
    BY <1>1, ShortLists DEF ReadMiss, Fault
<1>3. \A type \in SnoopTypes : \A retToSrc, target :
          SnoopOthers(txn, type, retToSrc, target) => Listed
    BY SnoopsListed
<1>4. \A c, state, data : Serve(c, CompData(txn, state, data)) => Listed
    BY ShortLists DEF Serve, CompData, ActionTypes
<1>5. \A c : Serve(c, Comp(txn)) => Listed
    BY ShortLists DEF Serve, Comp, ActionTypes
<1>6. \A id, data : actions' = <<WriteNoSnp(txn.addr, id, data), Comp(txn)>> => Listed
    BY ShortLists DEF WriteNoSnp, Comp, ActionTypes
<1>7. HandleReadShared(txn) => Listed
    BY <1>2, <1>3, <1>4 DEF HandleReadShared, SnoopTypes
<1>8. HandleReadUnique(txn) => Listed
    BY <1>2, <1>3, <1>4 DEF HandleReadUnique, SnoopTypes
<1>9. HandleReadOnce(txn) => Listed
    BY <1>2, <1>3, <1>4 DEF HandleReadOnce, SnoopTypes
<1>10. HandleCleanUnique(txn) => Listed
    BY <1>2, <1>3, <1>5, <1>6 DEF HandleCleanUnique, SnoopTypes
<1>11. HandleWrite(txn) => Listed
    BY ShortLists DEF HandleWrite, AwaitL1Data, CompDBIDResp, ActionTypes
<1>12. HandleWriteNoSnp(txn) => Listed
    BY ShortLists DEF HandleWriteNoSnp, AwaitL1Data
<1> QED
    BY <1>1, <1>7, <1>8, <1>9, <1>10, <1>11, <1>12
       DEF RecvRequest, HandleReadNotSharedDirty, HandleUnmapped

\* An answer's.
LEMMA AnswersListed ==
    ASSUME NEW id
    PROVE  /\ \A addr, data : RecvData(id, addr, data) => Listed
           /\ RecvResponse(id) => Listed
<1>1. \A k, c : CompletePending(k, c) => Listed
    BY ShortLists DEF CompletePending, Comp, CompData, ActionTypes
<1>2. \A k, pt, c : KeepWaiting(k, pt, c) => Listed
    BY ShortLists DEF KeepWaiting
<1>3. NothingToDo => Listed
    BY ShortLists DEF NothingToDo
<1>4. \A k, data : RecvWriteData(k, data) => Listed
    BY ShortLists DEF RecvWriteData
<1>5. \A data : RecvMemData(id, data) => Listed
    BY ShortLists DEF RecvMemData, Comp, CompData, ActionTypes
<1>6. \A data : RecvSnoopData(id, data) => Listed
    BY <1>1, <1>2, <1>3 DEF RecvSnoopData
<1>7. RecvWriteAck(id) => Listed
    BY ShortLists DEF RecvWriteAck
<1>8. Fault("NullData") => Listed
    BY ShortLists DEF Fault
<1>9. RecvSnoopResp(id) => Listed
    BY <1>1, <1>2, <1>3, <1>8 DEF RecvSnoopResp
<1> QED BY <1>3, <1>4, <1>5, <1>6, <1>7, <1>9 DEF RecvData, RecvResponse

-----------------------------------------------------------------------------
(* All actions of a call *)

\* More messages may flow where some do.
LEMMA FlowsMore ==
    ASSUME NEW M, NEW N, M \subseteq N, NEW s \in Flows(M)
    PROVE  s \in Flows(N)
<1>1. ASSUME NEW q \in Seq(M) PROVE q \in Seq(N)
    <2>1. Len(q) \in Nat /\ q = [i \in 1 .. Len(q) |-> q[i]]
        BY LenProperties
    <2>2. \A i \in 1 .. Len(q) : q[i] \in N
        BY LenProperties
    <2> QED BY <2>1, <2>2
<1> QED BY <1>1 DEF Flows

\* The messages that the call's actions are sent as.
SentMessages == UNION {MessagesFor(actions'[j]) : j \in DOMAIN actions'}

\* They can all be put in the buffers.
LEMMA SentMessagesFlow ==
    ASSUME Listed, NEW M, SentMessages \subseteq M
    PROVE  /\ Len(actions') \in Nat /\ DOMAIN actions' = 1 .. Len(actions')
           /\ \A j \in 1 .. Len(actions') :
                 /\ MessagesOf(actions'[j]) \in Seq(M)
                 /\ ListsOnce(MessagesOf(actions'[j]), MessagesFor(actions'[j]))
                 /\ \A k \in 1 .. Len(MessagesOf(actions'[j])) :
                       MessagesOf(actions'[j])[k] \in MessagesFor(actions'[j])
<1>1. Len(actions') \in Nat /\ DOMAIN actions' = 1 .. Len(actions')
    BY LenProperties DEF Listed
<1>2. ASSUME NEW j \in DOMAIN actions'
      PROVE  /\ MessagesOf(actions'[j]) \in Seq(M)
             /\ ListsOnce(MessagesOf(actions'[j]), MessagesFor(actions'[j]))
             /\ \A k \in 1 .. Len(MessagesOf(actions'[j])) :
                   MessagesOf(actions'[j])[k] \in MessagesFor(actions'[j])
    <2>1. PICK x : x = actions'[j] /\ x.type \in ActionTypes
        BY DEF Listed
    <2>2. PICK S : S = MessagesFor(x) /\ S \subseteq M
        BY <2>1 DEF SentMessages
    <2>3. PICK q : q = MessagesOf(x)
        OBVIOUS
    <2>4. ListsOnce(q, S)
        BY <2>1, <2>2, <2>3, MessagesListed
    <2>5. /\ Len(q) \in Nat
          /\ q = [i \in 1 .. Len(q) |-> q[i]]
          /\ \A i \in 1 .. Len(q) : q[i] \in S
        BY <2>4, LenProperties DEF ListsOnce
    <2>6. q \in Seq(M)
        BY <2>2, <2>5
    <2> QED BY <2>1, <2>2, <2>3, <2>4, <2>5, <2>6
<1> QED BY <1>1, <1>2

\* After the call has been executed, they are carried and nothing is lost.
LEMMA ExecuteCarries ==
    ASSUME NEW M, Buffers \in Flows(M), Sound(Buffers), Listed, ExecuteActions
    PROVE  /\ Buffers' \in Flows(M \cup SentMessages)
           /\ Sound(Buffers')
           /\ \A x : Carries(Buffers', x) <=> Carries(Buffers, x) \/ x \in SentMessages
<1>1. PICK N : N = M \cup SentMessages /\ SentMessages \subseteq N
    OBVIOUS
<1>2. /\ Len(actions') \in Nat /\ DOMAIN actions' = 1 .. Len(actions')
      /\ \A j \in 1 .. Len(actions') :
            /\ MessagesOf(actions'[j]) \in Seq(N)
            /\ ListsOnce(MessagesOf(actions'[j]), MessagesFor(actions'[j]))
            /\ \A k \in 1 .. Len(MessagesOf(actions'[j])) :
                  MessagesOf(actions'[j])[k] \in MessagesFor(actions'[j])
    BY <1>1, SentMessagesFlow
<1>3. PICK n \in Nat : n = Len(actions')
    BY <1>2
<1>4. PICK f : /\ f[0] = Buffers
               /\ \A k \in 1 .. n : f[k] = SendAll(f[k - 1], MessagesOf(actions'[k]))
               /\ out' = f[n].out
               /\ triggerQueue' = f[n].queue
    BY <1>2, <1>3, ExecuteSteps
<1> DEFINE SentBy(k, x) == \E j \in 1 .. k : x \in MessagesFor(actions'[j])
           Done(k) == /\ f[k] \in Flows(N)
                      /\ Sound(f[k])
                      /\ \A x : Carries(f[k], x) <=> Carries(Buffers, x) \/ SentBy(k, x)
           G == {k \in 0 .. n : Done(k)}
<1>5. 0 \in G
    <2>1. Buffers \in Flows(N)
        BY <1>1, FlowsMore
    <2> QED BY <1>4, <2>1
<1>6. ASSUME NEW k \in 1 .. n, k - 1 \in G PROVE k \in G
    <2>1. PICK s : s = f[k - 1] /\ s \in Flows(N) /\ Sound(s)
        BY <1>6
    <2>2. PICK ms, S : ms = MessagesOf(actions'[k]) /\ S = MessagesFor(actions'[k])
        OBVIOUS
    <2>3. /\ ms \in Seq(N) /\ ListsOnce(ms, S)
          /\ \A i \in 1 .. Len(ms) : ms[i] \in S
        BY <1>2, <1>3, <2>2
    <2>4. \A m \in S : m.channel \in Channel
        BY <1>2, <1>3, <2>2, MessageForms DEF Listed
    <2>5. \A i \in 1 .. Len(ms) : ms[i].channel \in Channel
        BY <2>3, <2>4
    <2>6. PICK t : t = f[k] /\ t = SendAll(s, ms)
        BY <1>4, <2>1, <2>2
    <2>7. t \in Flows(N) /\ Sound(t)
            /\ \A x : Carries(t, x) <=> Carries(s, x) \/ Within(ms, Len(ms), x)
        BY <2>1, <2>3, <2>5, <2>6, SendAllCarries
    <2>8. \A x : Within(ms, Len(ms), x) <=> x \in S
        BY <2>3 DEF ListsOnce, Within
    <2>9. \A x : SentBy(k, x) <=> SentBy(k - 1, x) \/ x \in S
        BY <2>2
    <2>10. \A x : Carries(s, x) <=> Carries(Buffers, x) \/ SentBy(k - 1, x)
        BY <1>6, <2>1
    <2>11. \A x : Carries(t, x) <=> Carries(Buffers, x) \/ SentBy(k, x)
        <3> HIDE DEF SentBy
        <3> QED BY ONLY <2>7, <2>8, <2>9, <2>10
    <2>12. k \in 0 .. n
        OBVIOUS
    <2>13. Done(k)
        <3> HIDE DEF SentBy
        <3> QED BY ONLY <2>6, <2>7, <2>11
    <2> HIDE DEF Done
    <2> QED BY <2>12, <2>13
<1>7. n \in G
    <2>1. \A k \in 0 .. n : k \in G
        <3> HIDE DEF G
        <3> QED BY <1>5, <1>6, UpTo
    <2> QED BY <2>1
<1>8. f[n] \in Flows(N) /\ Sound(f[n])
        /\ \A x : Carries(f[n], x) <=> Carries(Buffers, x) \/ x \in SentMessages
    BY <1>2, <1>3, <1>7 DEF SentMessages
<1>9. f[n] = Buffers'
    BY <1>4, <1>8 DEF Buffers, Flows
<1> QED BY <1>1, <1>8, <1>9

\* And the beats keep their order.
LEMMA ExecuteOrdered ==
    ASSUME NEW M, Buffers \in Flows(M), Listed, ExecuteActions,
           NEW g, Ordered(Buffers, g)
    PROVE  Ordered(Buffers', g)
<1>1. PICK N : N = M \cup SentMessages /\ SentMessages \subseteq N
    OBVIOUS
<1>2. /\ Len(actions') \in Nat /\ DOMAIN actions' = 1 .. Len(actions')
      /\ \A j \in 1 .. Len(actions') :
            /\ MessagesOf(actions'[j]) \in Seq(N)
            /\ \A k \in 1 .. Len(MessagesOf(actions'[j])) :
                  MessagesOf(actions'[j])[k] \in MessagesFor(actions'[j])
    BY <1>1, SentMessagesFlow
<1>3. PICK n \in Nat : n = Len(actions')
    BY <1>2
<1>4. PICK f : /\ f[0] = Buffers
               /\ \A k \in 1 .. n : f[k] = SendAll(f[k - 1], MessagesOf(actions'[k]))
               /\ out' = f[n].out
               /\ triggerQueue' = f[n].queue
    BY <1>2, <1>3, ExecuteSteps
<1> DEFINE G == {k \in 0 .. n : f[k] \in Flows(N) /\ Ordered(f[k], g)}
<1>5. 0 \in G
    <2>1. Buffers \in Flows(N)
        BY <1>1, FlowsMore
    <2> QED BY <1>4, <2>1
<1>6. ASSUME NEW k \in 1 .. n, k - 1 \in G PROVE k \in G
    <2>1. PICK s : s = f[k - 1] /\ s \in Flows(N) /\ Ordered(s, g)
        BY <1>6
    <2>2. PICK x : x = actions'[k] /\ x.type \in ActionTypes
        BY <1>2, <1>3 DEF Listed
    <2>3. PICK ms : ms = MessagesOf(x) /\ ms \in Seq(N)
                      /\ \A i \in 1 .. Len(ms) : ms[i] \in MessagesFor(x)
        BY <1>2, <1>3, <2>2
    <2>4. PICK t : t = f[k] /\ t = SendAll(s, ms)
        BY <1>4, <2>1, <2>2, <2>3
    <2>5. \A i \in 1 .. Len(ms) :
              ms[i].channel \in Channel /\ (IsBeat(ms[i]) <=> x.type = "SendCompData")
        BY <2>2, <2>3, MessageForms
    <2>6. t \in Flows(N) /\ Ordered(t, g)
        <3>1. CASE x.type # "SendCompData"
            BY <2>1, <2>3, <2>4, <2>5, <3>1, SendOthersOrdered
        <3>2. CASE x.type = "SendCompData"
            <4>1. PICK type : type = CompDataType(x.respState)
                OBVIOUS
            <4>2. ms = Line(type, x)
                BY <2>3, <3>2, <4>1 DEF MessagesOf, SendCompData, SnoopTypes
            <4>3. \A i \in 1 .. Len(ms) : ms[i] = Message("dat", type, i, x)
                BY <4>2, ListedLine
            <4> QED BY <2>1, <2>3, <2>4, <4>3, SendLineOrdered
        <3> QED BY <3>1, <3>2
    <2>7. k \in 0 .. n
        OBVIOUS
    <2> QED BY ONLY <2>4, <2>6, <2>7
<1>7. n \in G
    <2>1. \A k \in 0 .. n : k \in G
        <3> HIDE DEF G
        <3> QED BY <1>5, <1>6, UpTo
    <2> QED BY <2>1
<1>8. f[n] = Buffers'
    BY <1>4, <1>7 DEF Buffers, Flows
<1> QED BY <1>7, <1>8

-----------------------------------------------------------------------------
(* The inductive invariant *)

\* The answers to an RN-F's request.
CompletionTypes == {"SendComp", "SendCompData", "SendCompDBIDResp"}

\* What a message that is carried looks like: it is one of those its action is sent
\* as, or the answer to an Evict.
Formed(m) ==
    /\ m.action.type \in ActionTypes
    /\ m.action.addr \in Addr
    /\ m.action.type \in CompletionTypes => m.action.txnId \in L1TxnIds
    /\ \/ m \in MessagesFor(m.action)
       \/ m.action.type = "SendComp" /\ m = Message("rsp", "Comp_I", 0, m.action)

\* All that is carried is well formed.
Flowing ==
    /\ \E M : Buffers \in Flows(M)
    /\ \A m : Carries(Buffers, m) => Formed(m)

\* The order in the buffers and the queue is what keeps the order of arrival.
MInv ==
    /\ TypeOK
    /\ Flowing
    /\ \A d \in datIn : d.data \in Data
    /\ Ordered(Buffers, got)
    /\ BeatsInOrder

\* What a message that is carried is.
LEMMA FormedFacts ==
    ASSUME NEW m, Formed(m)
    PROVE  /\ m.channel \in Channel
           /\ m.beat \in 0 .. Beats
           /\ IsBeat(m) => m.channel = "dat" /\ m.beat \in 1 .. Beats
           /\ m.channel = "snp" <=> m.action.type \in SnoopTypes
           /\ m.type = "CompDBIDResp" <=> m.action.type = "SendCompDBIDResp"
           /\ m.type = "ReadNoSnp" <=> m.action.type = "SendReadNoSnp"
<1>1. PICK x : x = m.action
    OBVIOUS
<1>2. CASE m \in MessagesFor(x)
    BY <1>1, <1>2, MessageForms DEF Formed
<1>3. CASE x.type = "SendComp" /\ m = Message("rsp", "Comp_I", 0, x)
    BY <1>1, <1>3, BeatsAssumption DEF Message, Channel, IsBeat, SnoopTypes
<1> QED BY <1>1, <1>2, <1>3 DEF Formed

\* The types speak of the buffers as Sound does.
LEMMA SoundBuffers ==
    ASSUME NEW s
    PROVE  Sound(s) <=> \A c \in Channel : /\ Len(s.out[c]) <= Capacity
                                          /\ \A m \in ToSet(s.out[c]) : m.channel = c
BY DEF Sound, ToSet

\* The call's messages are formed as they should be.
LEMMA SentFormed ==
    ASSUME Listed, ActionsInRange, NEW m \in SentMessages
    PROVE  Formed(m)
<1>1. PICK j \in DOMAIN actions' : m \in MessagesFor(actions'[j])
    BY DEF SentMessages
<1>2. PICK x : x = actions'[j] /\ x.type \in ActionTypes
    BY <1>1 DEF Listed
<1>3. m.action = x
    BY <1>1, <1>2, MessageForms
<1> QED BY <1>1, <1>2, <1>3 DEF Formed, ActionsInRange, CompletionTypes

\* What is not the engine's in the types, and the order that has been received.
OthersKept ==
    /\ scheduled' \in BOOLEAN
    /\ port' \in {Asleep, RspPort, DatPort, ReqPort}
    /\ issued' \subseteq Requests
    /\ reqIn' \subseteq issued'
    /\ \A d \in datIn' : d.data \in Data

\* A call whose actions are executed keeps the invariant.
LEMMA CallKeeps ==
    ASSUME MInv, EngineTypeOK', Listed, ActionsInRange, ExecuteActions,
           OthersKept, got' = got
    PROVE  MInv'
<1>1. PICK M : Buffers \in Flows(M)
    BY DEF MInv, Flowing
<1>2. Sound(Buffers)
    BY SoundBuffers DEF MInv, TypeOK, Buffers
<1>3. /\ Buffers' \in Flows(M \cup SentMessages)
      /\ Sound(Buffers')
      /\ \A x : Carries(Buffers', x) <=> Carries(Buffers, x) \/ x \in SentMessages
    BY <1>1, <1>2, ExecuteCarries
<1>4. PICK N : N = M \cup SentMessages
    OBVIOUS
<1>5. Flowing'
    BY <1>3, <1>4, SentFormed DEF MInv, Flowing
<1>6. Ordered(Buffers', got)
    BY <1>1, ExecuteOrdered DEF MInv
<1>7. Ordered(Buffers, got)'
    BY <1>6
<1>8. BeatsInOrder'
    BY DEF MInv, BeatsInOrder
<1>9. \A c \in Channel :
          Len(out'[c]) <= Capacity /\ \A m \in ToSet(out'[c]) : m.channel = c
    <2>1. Buffers'.out = out'
        BY DEF Buffers
    <2> QED BY <1>3, <2>1, SoundBuffers
<1>10. TypeOK'
    BY <1>9 DEF MInv, TypeOK, OthersKept
<1> QED BY <1>5, <1>7, <1>8, <1>10 DEF MInv, OthersKept

-----------------------------------------------------------------------------
(* A wakeup *)

\* The transaction that the engine is given for a request.
LEMMA TxnTypes ==
    ASSUME NEW r \in Requests, r.type # "Evict"
    PROVE  TxnOf(r) \in ChiTransaction
<1>1. r.type \in DOMAIN Gem5ToOpcode /\ r.addr \in Addr
    BY AddrsAssumption, RequestTypesAssumption DEF Requests
<1>2. Gem5ToOpcode[r.type] \in Opcode
    BY <1>1 DEF Gem5ToOpcode, Opcode, ReadOps, WriteOps
<1> QED BY <1>1, <1>2 DEF TxnOf, ChiTransaction, Requests

\* Sends that are no beats of a line keep the invariant.
LEMMA SendKeeps ==
    ASSUME MInv, EngineTypeOK', OthersKept, got' = got,
           NEW m, m.channel \in Channel, ~IsBeat(m), Formed(m), Send(<<m>>)
    PROVE  MInv'
<1>1. PICK M : Buffers \in Flows(M)
    BY DEF MInv, Flowing
<1>2. PICK N : N = M \cup {m}
    OBVIOUS
<1>3. Buffers \in Flows(N) /\ Sound(Buffers) /\ Ordered(Buffers, got)
    <2>1. M \subseteq N
        BY <1>2
    <2>2. Buffers \in Flows(N)
        BY ONLY <1>1, <2>1, FlowsMore
    <2> QED BY <2>2, SoundBuffers DEF MInv, TypeOK, Buffers
<1>4. PICK ms : ms = <<m>>
    OBVIOUS
<1>5. ms \in Seq(N) /\ Len(ms) = 1 /\ ms[1] = m
    BY <1>2, <1>4
<1>6. \A k \in 1 .. Len(ms) : ms[k].channel \in Channel /\ ~IsBeat(ms[k])
    BY <1>5
<1>7. PICK t : t = SendAll(Buffers, ms)
    OBVIOUS
<1>8. /\ t \in Flows(N) /\ Sound(t) /\ Ordered(t, got)
      /\ \A x : Carries(t, x) <=> Carries(Buffers, x) \/ Within(ms, Len(ms), x)
    BY ONLY <1>3, <1>5, <1>6, <1>7, SendAllCarries, SendOthersOrdered
<1>9. Buffers' = t
    BY <1>4, <1>7, <1>8 DEF Send, Buffers, Flows
<1>10. Flowing'
    <2>1. \A x : Within(ms, Len(ms), x) => x = m
        BY <1>5 DEF Within
    <2> QED BY <1>8, <1>9, <2>1 DEF MInv, Flowing
<1>11. Ordered(Buffers, got)'
    BY <1>8, <1>9
<1>12. BeatsInOrder'
    BY DEF MInv, BeatsInOrder
<1>13. \A c \in Channel :
          Len(out'[c]) <= Capacity /\ \A x \in ToSet(out'[c]) : x.channel = c
    <2>1. Buffers'.out = out'
        BY DEF Buffers
    <2> QED BY <1>8, <1>9, <2>1, SoundBuffers
<1>14. TypeOK'
    BY <1>13 DEF MInv, TypeOK, OthersKept
<1> QED BY <1>10, <1>11, <1>12, <1>14 DEF MInv, OthersKept

\* A request that has come.
LEMMA RequestKeeps ==
    ASSUME MInv, NEW r \in reqIn, RecvRequestMsg(r)
    PROVE  MInv'
<1>1. r \in Requests /\ EngineTypeOK
    BY DEF MInv, TypeOK
<1>2. OthersKept /\ got' = got
    BY DEF MInv, TypeOK, RecvRequestMsg, DequeueRequest, Reach, peers, OthersKept, ReqPort
<1>3. CASE r.type = "Evict" /\ InvalidateLine(r.addr) /\ Send(SendComp("Comp_I", Comp(r)))
    <2>1. r.addr \in Addr /\ r.txnID \in L1TxnIds
        BY <1>1, AddrsAssumption DEF Requests
    <2>2. EngineTypeOK'
        <3>1. cache' \in Caches
            BY <1>1, <1>3, <2>1, UpdateTypes DEF InvalidateLine, EngineTypeOK
        <3> QED BY <1>1, <1>3, <3>1 DEF InvalidateLine, EngineTypeOK, tables, counters
    <2>3. PICK x : x = Comp(r)
        OBVIOUS
    <2>4. PICK m : m = Message("rsp", "Comp_I", 0, x)
        OBVIOUS
    <2>5. Send(<<m>>)
        BY <1>3, <2>3, <2>4 DEF SendComp
    <2>6. x.type = "SendComp" /\ x.addr \in Addr /\ x.txnId \in L1TxnIds
        BY <2>1, <2>3 DEF Comp
    <2>7. m.channel \in Channel /\ m.action = x /\ ~IsBeat(m) /\ Formed(m)
        BY <2>4, <2>6 DEF Message, Channel, IsBeat, Formed, ActionTypes
    <2> QED BY <1>2, <2>2, <2>5, <2>7, SendKeeps
<1>4. CASE r.type # "Evict" /\ RecvRequest(TxnOf(r)) /\ ExecuteActions
    <2>1. PICK txn \in ChiTransaction : txn = TxnOf(r) /\ RecvRequest(txn)
        BY <1>1, <1>4, TxnTypes
    <2>2. RequestMove(txn) /\ Listed
        BY <1>1, <2>1, RequestMoves, RequestListed
    <2>3. EngineTypeOK' /\ ActionsInRange
        BY <1>1, <2>2, RequestKeepsEngine DEF RequestMove
    <2> QED BY <1>2, <1>4, <2>2, <2>3, CallKeeps
<1> QED BY <1>3, <1>4 DEF RecvRequestMsg

\* Data that has come.
LEMMA DataKeeps ==
    ASSUME MInv, NEW d \in datIn, RecvDataMsg(d)
    PROVE  MInv'
<1>1. d.data \in Data /\ EngineTypeOK
    BY DEF MInv, TypeOK
<1>2. OthersKept /\ got' = got
    BY DEF MInv, TypeOK, RecvDataMsg, DequeueData, Reach, peers, OthersKept, DatPort
<1>3. RecvData(d.txnId, d.addr, d.data) /\ ExecuteActions
    BY DEF RecvDataMsg
<1>4. EngineTypeOK' /\ ActionsInRange
    BY <1>1, <1>3, AnswersKeepEngine
<1>5. Listed
    BY <1>3, AnswersListed
<1> QED BY <1>2, <1>3, <1>4, <1>5, CallKeeps

\* A response that has come.
LEMMA ResponseKeeps ==
    ASSUME MInv, NEW m \in rspIn, RecvResponseMsg(m)
    PROVE  MInv'
<1>1. OthersKept /\ got' = got
    BY DEF MInv, TypeOK, RecvResponseMsg, DequeueResponse, Reach, peers, OthersKept,
           RspPort
<1>2. CASE m.type = "CompAck" /\ UNCHANGED <<engineVars, sending>>
    <2>1. Buffers' = Buffers /\ Carried' = Carried
        BY <1>2 DEF sending, Buffers, Carried
    <2>2. TypeOK'
        BY <1>1, <1>2 DEF MInv, TypeOK, OthersKept, EngineTypeOK, engineVars, tables,
                          counters, sending
    <2> QED BY <1>1, <2>1, <2>2 DEF MInv, OthersKept, Flowing, BeatsInOrder
<1>3. CASE RecvResponse(m.txnId) /\ ExecuteActions
    <2>1. EngineTypeOK' /\ ActionsInRange
        BY <1>3, AnswersKeepEngine DEF MInv, TypeOK
    <2>2. Listed
        BY <1>3, AnswersListed
    <2> QED BY <1>1, <1>3, <2>1, <2>2, CallKeeps
<1> QED BY <1>2, <1>3 DEF RecvResponseMsg

\* A retry of what waits.
LEMMA RetryKeeps ==
    ASSUME MInv, ProcessTriggerQueue
    PROVE  MInv'
<1>1. PICK M : Buffers \in Flows(M)
    BY DEF MInv, Flowing
<1>2. Sound(Buffers) /\ Ordered(Buffers, got)
    BY SoundBuffers DEF MInv, TypeOK, Buffers
<1>3. Len(triggerQueue) \in Nat /\ DOMAIN triggerQueue = 1 .. Len(triggerQueue)
    <2>1. triggerQueue \in Seq(M)
        BY <1>1 DEF Buffers, Flows
    <2> QED BY <2>1, LenProperties
<1>4. \A k \in 1 .. Len(triggerQueue) :
          /\ triggerQueue[k].channel \in Channel
          /\ IsBeat(triggerQueue[k]) => triggerQueue[k].channel = "dat"
    <2> SUFFICES ASSUME NEW k \in 1 .. Len(triggerQueue)
                 PROVE  Formed(triggerQueue[k])
        BY FormedFacts
    <2>1. Carries(Buffers, triggerQueue[k])
        BY <1>3 DEF Carries, InQueue, Buffers
    <2> QED BY <2>1 DEF MInv, Flowing
<1>5. PICK t : /\ t = RetryAll(triggerQueue)
               /\ t \in Flows(M) /\ Sound(t) /\ Ordered(t, got)
               /\ \A x : Carries(t, x) <=> Carries(Buffers, x)
    BY ONLY <1>1, <1>2, <1>4, RetryAllCarries, RetryAllOrdered
<1>6. Buffers' = t
    BY <1>5 DEF ProcessTriggerQueue, Buffers, Flows
<1>7. Flowing'
    BY <1>5, <1>6 DEF MInv, Flowing
<1>8. Ordered(Buffers, got)' /\ BeatsInOrder'
    BY <1>5, <1>6 DEF ProcessTriggerQueue, peers, MInv, BeatsInOrder
<1>9. \A c \in Channel :
          Len(out'[c]) <= Capacity /\ \A m \in ToSet(out'[c]) : m.channel = c
    <2>1. t.out = out'
        BY <1>6 DEF Buffers
    <2> QED BY <1>5, <2>1, SoundBuffers
<1>10. TypeOK'
    <2>1. UNCHANGED <<engineVars, peers, incoming>> /\ port' = Asleep
            /\ scheduled' \in BOOLEAN
        BY DEF MInv, TypeOK, ProcessTriggerQueue, RetriesPending
    <2> QED BY <1>9, <2>1
            DEF MInv, TypeOK, EngineTypeOK, engineVars, tables, counters, peers, incoming
<1> QED BY <1>7, <1>8, <1>10 DEF MInv, ProcessTriggerQueue, incoming

-----------------------------------------------------------------------------
(* The peers *)

\* Steps that leave the buffers alone keep the invariant.
LEMMA OutsideKeeps ==
    ASSUME MInv, UNCHANGED sending, OthersKept, got' = got, EngineTypeOK'
    PROVE  MInv'
<1>1. Buffers' = Buffers /\ out' = out
    BY DEF sending, Buffers
<1>2. Flowing' /\ Ordered(Buffers, got)' /\ BeatsInOrder'
    BY <1>1 DEF MInv, Flowing, BeatsInOrder
<1>3. TypeOK'
    BY <1>1 DEF MInv, TypeOK, OthersKept
<1> QED BY <1>2, <1>3 DEF MInv, OthersKept

\* Among them those of the simulator, of a new request and of an acknowledgement.
LEMMA QuietKeeps ==
    ASSUME MInv,
           \/ RetryWakeup
           \/ \E r \in Requests : SendRequest(r)
           \/ Acknowledge
           \/ \E addr \in Addrs, data \in Data : FunctionalWrite(addr, data)
           \/ UNCHANGED vars
    PROVE  MInv'
<1>1. CASE RetryWakeup
    BY <1>1, OutsideKeeps
       DEF MInv, TypeOK, RetryWakeup, EngineTypeOK, engineVars, tables, counters, peers,
           incoming, OthersKept
<1>2. ASSUME NEW r \in Requests, SendRequest(r) PROVE MInv'
    BY <1>2, OutsideKeeps
       DEF MInv, TypeOK, SendRequest, EngineTypeOK, engineVars, tables, counters,
           OthersKept
<1>3. ASSUME NEW id, AcknowledgeWrite(id) PROVE MInv'
    BY <1>3, OutsideKeeps
       DEF MInv, TypeOK, AcknowledgeWrite, EngineTypeOK, tables, counters, OthersKept
<1>4. ASSUME NEW addr \in Addrs, NEW data \in Data, FunctionalWrite(addr, data)
      PROVE  MInv'
    <2>1. cache' \in Caches
        <3>1. addr \in Addr /\ cache \in Caches
            BY AddrsAssumption DEF MInv, TypeOK, EngineTypeOK
        <3> QED BY <1>4, <3>1, UpdateTypes DEF FunctionalWrite
    <2> QED BY <1>4, <2>1, OutsideKeeps
            DEF MInv, TypeOK, FunctionalWrite, EngineTypeOK, tables, counters, peers,
                incoming, OthersKept
<1>5. CASE UNCHANGED vars
    BY <1>5, OutsideKeeps
       DEF vars, MInv, TypeOK, EngineTypeOK, engineVars, tables, counters, peers,
           incoming, OthersKept
<1> QED BY <1>1, <1>2, <1>3, <1>4, <1>5 DEF Acknowledge

\* q without its first message.
Shortened(q, r) ==
    /\ Len(q) \in Nat \ {0} /\ DOMAIN q = 1 .. Len(q)
    /\ Len(r) = Len(q) - 1 /\ DOMAIN r = 1 .. Len(q) - 1
    /\ \A i \in 1 .. Len(q) - 1 : r[i] = q[i + 1]

\* What Tail does to each place.
LEMMA TailShortens ==
    ASSUME NEW M, NEW q \in Seq(M), q # <<>>
    PROVE  Tail(q) \in Seq(M) /\ Shortened(q, Tail(q)) /\ Head(q) = q[1]
<1>1. Len(q) \in Nat /\ DOMAIN q = 1 .. Len(q) /\ Len(q) # 0
    BY LenProperties, EmptySeq
<1>2. /\ Tail(q) \in Seq(M)
      /\ Len(Tail(q)) = Len(q) - 1
      /\ \A i \in 1 .. Len(Tail(q)) : Tail(q)[i] = q[i + 1]
    BY HeadTailProperties
<1>3. DOMAIN Tail(q) = 1 .. Len(Tail(q))
    BY <1>2, LenProperties
<1> QED BY <1>1, <1>2, <1>3 DEF Shortened


\* All else stays.
LEMMA TakenCarries ==
    ASSUME NEW M, NEW s \in Flows(M), Sound(s), NEW c \in Channel, NEW t,
           t.out = [s.out EXCEPT ![c] = Tail(s.out[c])],
           t = [out |-> t.out, queue |-> s.queue], s.out[c] # <<>>
    PROVE  /\ t \in Flows(M)
           /\ Sound(t)
           /\ \A x : Carries(s, x) <=> Carries(t, x) \/ x = Head(s.out[c])
<1>1. PICK q \in Seq(M) : q = s.out[c] /\ q # <<>>
    BY DEF Flows
<1>2. PICK r \in Seq(M) : r = Tail(q) /\ Shortened(q, r) /\ Head(q) = q[1]
    BY <1>1, TailShortens
<1>3. \A d \in Channel : t.out[d] = IF d = c THEN r ELSE s.out[d]
    BY <1>1, <1>2 DEF Flows
<1>4. t \in Flows(M)
    <2>1. [s.out EXCEPT ![c] = r] \in [Channel -> Seq(M)]
        BY DEF Flows
    <2>2. t.out \in [Channel -> Seq(M)]
        BY <1>1, <1>2, <2>1
    <2>3. s.queue \in Seq(M)
        BY DEF Flows
    <2> QED BY ONLY <2>2, <2>3, t = [out |-> t.out, queue |-> s.queue] DEF Flows
<1>5. Sound(t)
    <2>1. Len(r) <= Capacity /\ \A i \in DOMAIN r : r[i].channel = c
        BY ONLY <1>1, <1>2, Sound(s), c \in Channel, CapacityAssumption
           DEF Sound, Shortened
    <2> QED BY <1>3, <2>1 DEF Sound
<1>6. ASSUME NEW x
      PROVE  (\E i \in DOMAIN q : q[i] = x) <=> (\E i \in DOMAIN r : r[i] = x) \/ x = q[1]
    <2>1. ASSUME NEW i \in DOMAIN q, q[i] = x, i # 1 PROVE \E j \in DOMAIN r : r[j] = x
        <3>1. i - 1 \in DOMAIN r /\ r[i - 1] = x
            BY <1>2, <2>1 DEF Shortened
        <3> QED BY <3>1
    <2>2. ASSUME NEW i \in DOMAIN r, r[i] = x PROVE \E j \in DOMAIN q : q[j] = x
        <3>1. i + 1 \in DOMAIN q /\ q[i + 1] = x
            BY <1>2, <2>2 DEF Shortened
        <3> QED BY <3>1
    <2>3. 1 \in DOMAIN q
        BY <1>2 DEF Shortened
    <2> QED BY <2>1, <2>2, <2>3
<1>7. ASSUME NEW x PROVE InBuffer(s, x) <=> InBuffer(t, x) \/ x = q[1]
    <2> DEFINE S(d) == \E i \in DOMAIN s.out[d] : s.out[d][i] = x
               T(d) == \E i \in DOMAIN t.out[d] : t.out[d][i] = x
    <2>1. S(c) <=> T(c) \/ x = q[1]
        BY <1>1, <1>3, <1>6
    <2>2. \A d \in Channel \ {c} : S(d) <=> T(d)
        BY <1>3
    <2>3. /\ InBuffer(s, x) <=> \E d \in Channel : S(d)
          /\ InBuffer(t, x) <=> \E d \in Channel : T(d)
        BY DEF InBuffer
    <2> HIDE DEF S, T
    <2> QED BY <2>1, <2>2, <2>3
<1>8. \A x : InQueue(s, x) <=> InQueue(t, x)
    BY DEF InQueue
<1> QED BY <1>1, <1>2, <1>4, <1>5, <1>7, <1>8 DEF Carries

\* x is ahead of the rest of q too: in it, or received with the first of q.
LEMMA AheadOfRest ==
    ASSUME NEW q, NEW r, Shortened(q, r), NEW g, NEW h, g \subseteq h,
           IsBeat(q[1]) => <<q[1].action.txnId, q[1].beat>> \in h,
           NEW x, IsBeat(x), NEW a, NEW n \in 1 .. Len(q), Ahead(q, n, g, x, a)
    PROVE  Ahead(r, n - 1, h, x, a)
<1>1. CASE <<x.action.txnId, a>> \in g
    BY <1>1 DEF Ahead
<1>2. CASE Within(q, n, Prior(x, a))
    <2>1. PICK i \in 1 .. n : q[i] = Prior(x, a)
        BY <1>2 DEF Within
    <2>2. CASE i = 1
        <3>1. q[1].action = x.action /\ q[1].beat = a
            BY <2>1, <2>2 DEF Prior, Message
        <3> QED BY <3>1 DEF Ahead, IsBeat
    <2>3. CASE i # 1
        <3>1. i - 1 \in 1 .. n - 1 /\ r[i - 1] = q[i]
            BY <2>3 DEF Shortened
        <3> QED BY <2>1, <3>1 DEF Ahead, Within
    <2> QED BY <2>2, <2>3
<1> QED BY <1>1, <1>2 DEF Ahead

\* The order stays when the first message of the data buffer is received.
LEMMA TakenOrdered ==
    ASSUME NEW q, NEW r, Shortened(q, r), NEW p, NEW g, NEW h, g \subseteq h,
           IsBeat(q[1]) => <<q[1].action.txnId, q[1].beat>> \in h,
           DatOrdered(q, g), QueueOrdered(q, p, g)
    PROVE  DatOrdered(r, h) /\ QueueOrdered(r, p, h)
<1>1. Len(q) \in 1 .. Len(q) /\ Len(r) = Len(q) - 1
    BY DEF Shortened
<1>2. ASSUME NEW i \in 1 .. Len(r), IsBeat(r[i]), NEW a \in 1 .. r[i].beat - 1
      PROVE  Ahead(r, i - 1, h, r[i], a)
    <2>1. PICK x : x = r[i] /\ x = q[i + 1]
        BY <1>2 DEF Shortened
    <2>2. i + 1 \in 1 .. Len(q) /\ i \in 1 .. Len(q) /\ (i + 1) - 1 = i
        BY <1>2 DEF Shortened
    <2>3. Ahead(q, i, g, x, a)
        BY <1>2, <2>1, <2>2 DEF DatOrdered
    <2>4. Ahead(r, i - 1, h, x, a)
        <3>1. IsBeat(x)
            BY <1>2, <2>1
        <3> QED BY ONLY <2>2, <2>3, <3>1, Shortened(q, r), g \subseteq h,
                IsBeat(q[1]) => <<q[1].action.txnId, q[1].beat>> \in h, AheadOfRest
    <2> QED BY <2>1, <2>4
<1>3. ASSUME NEW i \in 1 .. Len(p), IsBeat(p[i]), NEW a \in 1 .. p[i].beat - 1
      PROVE  Ahead(r, Len(r), h, p[i], a) \/ Within(p, i - 1, Prior(p[i], a))
    <2>1. PICK x : x = p[i]
        OBVIOUS
    <2>2. Ahead(q, Len(q), g, x, a) => Ahead(r, Len(r), h, x, a)
        BY <1>1, <1>3, <2>1, AheadOfRest
    <2> QED BY <1>3, <2>1, <2>2 DEF QueueOrdered
<1> QED BY <1>2, <1>3 DEF DatOrdered, QueueOrdered

\* More received keeps the order.
LEMMA MoreReceived ==
    ASSUME NEW s, NEW g, NEW h, g \subseteq h, Ordered(s, g)
    PROVE  Ordered(s, h)
<1>1. \A q, n, x, a : Ahead(q, n, g, x, a) => Ahead(q, n, h, x, a)
    BY DEF Ahead
<1>2. DatOrdered(s.out["dat"], h)
    BY <1>1 DEF Ordered, DatOrdered
<1>3. QueueOrdered(s.out["dat"], s.queue, h)
    BY <1>1 DEF Ordered, QueueOrdered
<1> QED BY <1>2, <1>3 DEF Ordered

\* What the receiver of m does with it.
Receives(m) ==
    \/ ReceiveCompletion(m)
    \/ AnswerSnoop(m)
    \/ SendWriteData(m)
    \/ AnswerRead(m)
    \/ CollectWrite(m)

\* Only a completion is remembered as received; data in flight is data.
LEMMA ReceivedOnly ==
    ASSUME NEW m, Formed(m), Receives(m), \A d \in datIn : d.data \in Data
    PROVE  /\ got' = IF m.action.type \in CompletionTypes
                     THEN got \cup {<<m.action.txnId, m.beat>>} ELSE got
           /\ \A d \in datIn' : d.data \in Data
<1>1. CASE ReceiveCompletion(m)
    BY <1>1 DEF ReceiveCompletion, CompletionTypes
<1>2. CASE AnswerSnoop(m)
    BY <1>2, FormedFacts DEF AnswerSnoop, DataFor, CompletionTypes, SnoopTypes
<1>3. CASE SendWriteData(m)
    <2>1. m.action.type = "SendCompDBIDResp"
        BY <1>3, FormedFacts DEF SendWriteData
    <2>2. m.beat = 0
        BY <2>1 DEF Formed, MessagesFor, Message, SnoopTypes
    <2> QED BY <1>3, <2>1, <2>2 DEF SendWriteData, DataFor, CompletionTypes
<1>4. CASE AnswerRead(m)
    BY <1>4, FormedFacts DEF AnswerRead, DataFor, CompletionTypes
<1>5. CASE CollectWrite(m)
    BY <1>5 DEF CollectWrite, CompletionTypes
<1> QED BY <1>1, <1>2, <1>3, <1>4, <1>5 DEF Receives

\* A message that is received keeps the invariant.
LEMMA TakeKeeps ==
    ASSUME MInv, NEW c \in Channel, Take(c)
    PROVE  MInv'
<1>1. PICK M : Buffers \in Flows(M)
    BY DEF MInv, Flowing
<1>2. PICK s : s = Buffers /\ s.out = out /\ s.queue = triggerQueue /\ s \in Flows(M)
    BY <1>1 DEF Buffers
<1>3. Sound(s) /\ Ordered(s, got)
    BY <1>2, SoundBuffers DEF MInv, TypeOK
<1>4. PICK t : t = Buffers' /\ t.out = out' /\ t.queue = triggerQueue'
                 /\ t = [out |-> t.out, queue |-> s.queue]
    <2>1. triggerQueue' = s.queue
        BY <1>2 DEF Take
    <2>2. Buffers' = [out |-> out', queue |-> triggerQueue']
        BY DEF Buffers
    <2> QED BY <2>1, <2>2
<1>5. s.out[c] # <<>> /\ t.out = [s.out EXCEPT ![c] = Tail(s.out[c])]
    BY <1>2, <1>4 DEF Take
<1>6. /\ t \in Flows(M) /\ Sound(t)
      /\ \A x : Carries(s, x) <=> Carries(t, x) \/ x = Head(s.out[c])
    BY <1>2, <1>3, <1>4, <1>5, TakenCarries
<1>7. PICK m : m = Head(s.out[c])
    OBVIOUS
<1>8. Formed(m) /\ \A x : Carries(t, x) => Formed(x)
    BY <1>2, <1>6, <1>7 DEF MInv, Flowing
<1>9. Receives(m)
    BY <1>2, <1>7 DEF Take, Receives
<1>10. /\ got' = IF m.action.type \in CompletionTypes
                 THEN got \cup {<<m.action.txnId, m.beat>>} ELSE got
       /\ \A d \in datIn' : d.data \in Data
    BY <1>8, <1>9, ReceivedOnly DEF MInv
<1>11. got \subseteq got' /\ (IsBeat(m) => <<m.action.txnId, m.beat>> \in got')
    BY <1>10 DEF IsBeat, CompletionTypes
<1>12. PICK q \in Seq(M) : q = s.out[c] /\ q # <<>>
    BY <1>2, <1>5 DEF Flows
<1>13. PICK r : r = Tail(q) /\ Shortened(q, r) /\ m = q[1]
    BY <1>7, <1>12, TailShortens
<1>14. Ordered(t, got')
    <2>1. CASE c = "dat"
        <3>1. t.out["dat"] = r
            BY <1>2, <1>5, <1>12, <1>13, <2>1 DEF Flows
        <3>2. DatOrdered(q, got) /\ QueueOrdered(q, s.queue, got)
            BY <1>3, <1>12, <2>1 DEF Ordered
        <3>3. t.queue = s.queue
            BY <1>4
        <3> QED BY <1>11, <1>13, <3>1, <3>2, <3>3, TakenOrdered DEF Ordered
    <2>2. CASE c # "dat"
        <3>1. t.out["dat"] = s.out["dat"] /\ t.queue = s.queue
            BY <1>2, <1>4, <1>5, <2>2 DEF Flows, Channel
        <3> QED BY <1>3, <1>11, <3>1, MoreReceived DEF Ordered
    <2> QED BY <2>1, <2>2
<1>15. ASSUME IsBeat(m), NEW a \in 1 .. m.beat - 1 PROVE <<m.action.txnId, a>> \in got
    <2>1. c = "dat"
        <3>1. m.channel = "dat"
            BY <1>8, <1>15, FormedFacts
        <3>2. m.channel = c
            BY <1>2, <1>3, <1>12, <1>13 DEF Sound, Shortened
        <3> QED BY <3>1, <3>2
    <2>2. DatOrdered(q, got)
        BY <1>3, <1>12, <2>1 DEF Ordered
    <2>3. 1 \in 1 .. Len(q) /\ 1 - 1 = 0
        BY <1>13 DEF Shortened
    <2>4. Ahead(q, 0, got, m, a)
        BY <1>13, <1>15, <2>2, <2>3 DEF DatOrdered
    <2> QED BY <2>4 DEF Ahead, Within
<1>16. BeatsInOrder'
    <2> SUFFICES ASSUME NEW id \in L1TxnIds, NEW b \in 1 .. Beats, <<id, b>> \in got',
                        NEW a \in 1 .. b
                 PROVE  <<id, a>> \in got'
        BY DEF BeatsInOrder
    <2>1. CASE <<id, b>> \in got
        BY <1>11, <2>1 DEF MInv, BeatsInOrder
    <2>2. CASE <<id, b>> \notin got
        <3>1. id = m.action.txnId /\ b = m.beat /\ m.action.type \in CompletionTypes
            BY <1>10, <2>2
        <3>2. IsBeat(m)
            <4>1. m.beat # 0
                BY <3>1, BeatsAssumption
            <4> QED BY <1>8, <3>1, <4>1
                    DEF Formed, MessagesFor, Message, IsBeat, CompletionTypes, SnoopTypes
        <3>3. a = b \/ a \in 1 .. m.beat - 1
            BY <3>1, BeatsAssumption
        <3> QED BY <1>11, <1>15, <3>1, <3>2, <3>3
    <2> QED BY <2>1, <2>2
<1>17. TypeOK'
    <2>1. \A d \in Channel :
              Len(out'[d]) <= Capacity /\ \A x \in ToSet(out'[d]) : x.channel = d
        BY <1>4, <1>6, SoundBuffers
    <2>2. got' \subseteq L1TxnIds \X (0 .. Beats)
        BY <1>8, <1>10, FormedFacts DEF MInv, TypeOK, Formed
    <2>3. UNCHANGED <<cache, tables, counters, fault, scheduled, port, issued, reqIn>>
        BY DEF Take
    <2> QED BY <2>1, <2>2, <2>3 DEF MInv, TypeOK, EngineTypeOK, tables, counters
<1>18. Flowing' /\ Ordered(Buffers, got)'
    BY <1>4, <1>6, <1>8, <1>14 DEF Flowing
<1> QED BY <1>10, <1>16, <1>17, <1>18 DEF MInv

-----------------------------------------------------------------------------
(* The theorems *)

\* The initial state satisfies the invariant.
LEMMA InitMInv == Init => MInv
<1> SUFFICES ASSUME Init PROVE MInv
    OBVIOUS
<1>1. /\ cache = EmptyCache /\ pending = <<>> /\ snoopToOrig = <<>>
      /\ memToOrig = <<>> /\ snoopRespCounted = {}
      /\ nextSnoopTxnId = SnoopIdBase /\ nextInternalTxnId = MemIdBase
      /\ fault = "none"
      /\ out = [c \in Channel |-> <<>>] /\ triggerQueue = <<>>
      /\ scheduled = FALSE /\ port = Asleep
      /\ issued = {} /\ got = {} /\ reqIn = {} /\ datIn = {}
    BY DEF Init, EngineInit
<1>2. EmptyCache \in Caches
    <2>1. ClearedLine \in CacheLine
        BY DataAssumption DEF ClearedLine, CacheLine, LineState
    <2>2. EmptySet \in CacheSets
        BY <2>1 DEF EmptySet, CacheSets
    <2> QED BY <2>2 DEF EmptyCache, Caches
<1>3. DOMAIN pending = {} /\ DOMAIN snoopToOrig = {} /\ DOMAIN memToOrig = {}
    BY <1>1
<1>4. EngineTypeOK
    BY <1>1, <1>2, <1>3, IdsAssumption DEF EngineTypeOK
<1>5. <<>> \in Seq({}) /\ Len(<<>>) = 0 /\ DOMAIN <<>> = {}
    OBVIOUS
<1>6. Buffers \in Flows({}) /\ \A m : ~Carries(Buffers, m)
    BY <1>1, <1>5 DEF Buffers, Flows, Carries, InBuffer, InQueue
<1>7. TypeOK
    <2>1. \A c \in Channel : out[c] = <<>>
        BY <1>1
    <2>2. \A c \in Channel :
              Len(out[c]) <= Capacity /\ \A m \in ToSet(out[c]) : m.channel = c
        BY <1>5, <2>1, CapacityAssumption DEF ToSet
    <2> QED BY <1>1, <1>4, <2>2 DEF TypeOK
<1>8. Ordered(Buffers, got)
    <2>1. Buffers.out["dat"] = <<>> /\ Buffers.queue = <<>>
        BY <1>1 DEF Buffers, Channel
    <2>2. DatOrdered(<<>>, got) /\ QueueOrdered(<<>>, <<>>, got)
        BY <1>5 DEF DatOrdered, QueueOrdered
    <2> QED BY <2>1, <2>2 DEF Ordered
<1> QED BY <1>1, <1>6, <1>7, <1>8 DEF MInv, Flowing, BeatsInOrder

\* Every step keeps it.
LEMMA NextMInv == MInv /\ [Next]_vars => MInv'
<1> SUFFICES ASSUME MInv, [Next]_vars PROVE MInv'
    OBVIOUS
<1>1. CASE Wakeup
    <2>1. RetryWakeup => MInv'
        BY QuietKeeps
    <2> QED BY <1>1, <2>1, RequestKeeps, DataKeeps, ResponseKeeps, RetryKeeps DEF Wakeup
<1>2. CASE \E c \in Channel : Take(c)
    BY <1>2, TakeKeeps
<1>3. CASE ~Wakeup /\ ~\E c \in Channel : Take(c)
    <2>1. \/ Acknowledge
          \/ \E r \in Requests : SendRequest(r)
          \/ \E addr \in Addrs, data \in Data : FunctionalWrite(addr, data)
          \/ UNCHANGED vars
        BY <1>3 DEF Next
    <2> QED BY <2>1, QuietKeeps
<1> QED BY <1>1, <1>2, <1>3

\* The invariant holds always.
LEMMA MiddlewareInvariant == Spec => []MInv
<1> QED BY InitMInv, NextMInv, PTL DEF Spec

\* Buffers never hold more than their capacity, nor messages of another channel, and
\* engine, requests and completions keep their types.
THEOREM MiddlewareTypes == Spec => []TypeOK
<1>1. MInv => TypeOK
    BY DEF MInv
<1> QED BY <1>1, MiddlewareInvariant, PTL

\* The beats of a line reach the RN-F in their order, whichever had to wait for room,
\* whatever the number of beats, the size of the buffers and the load.
THEOREM BeatsArriveInOrder == Spec => []BeatsInOrder
<1>1. MInv => BeatsInOrder
    BY DEF MInv
<1> QED BY <1>1, MiddlewareInvariant, PTL

-----------------------------------------------------------------------------
(* The trigger queue *)

\* A wakeup is going on whenever messages may be put into the queue, and the queue
\* changes at no other time.
LEMMA QueueMovesInWakeup ==
    ASSUME [Next]_vars
    PROVE  \/ port' # Asleep
           \/ ProcessTriggerQueue
           \/ UNCHANGED <<triggerQueue, scheduled, port>>
<1>1. CASE Wakeup
    <2>1. ASSUME NEW r \in reqIn, RecvRequestMsg(r) PROVE port' # Asleep
        BY <2>1 DEF RecvRequestMsg, DequeueRequest, Reach, ReqPort, Asleep
    <2>2. ASSUME NEW m \in datIn, RecvDataMsg(m) PROVE port' # Asleep
        BY <2>2 DEF RecvDataMsg, DequeueData, Reach, DatPort, Asleep
    <2>3. ASSUME NEW m \in rspIn, RecvResponseMsg(m) PROVE port' # Asleep
        BY <2>3 DEF RecvResponseMsg, DequeueResponse, Reach, RspPort, Asleep
    <2>4. ASSUME RetryWakeup PROVE port' # Asleep
        BY <2>4 DEF RetryWakeup, RspPort, Asleep
    <2> QED BY <1>1, <2>1, <2>2, <2>3, <2>4 DEF Wakeup
<1>2. ASSUME NEW c \in Channel, Take(c)
      PROVE  UNCHANGED <<triggerQueue, scheduled, port>>
    BY <1>2 DEF Take
<1>3. ASSUME NEW id, AcknowledgeWrite(id)
      PROVE  UNCHANGED <<triggerQueue, scheduled, port>>
    BY <1>3 DEF AcknowledgeWrite, sending
<1>4. ASSUME NEW r \in Requests, SendRequest(r)
      PROVE  UNCHANGED <<triggerQueue, scheduled, port>>
    BY <1>4 DEF SendRequest, sending
<1>5. ASSUME NEW addr \in Addrs, NEW data \in Data, FunctionalWrite(addr, data)
      PROVE  UNCHANGED <<triggerQueue, scheduled, port>>
    BY <1>5 DEF FunctionalWrite, sending
<1>6. CASE UNCHANGED vars
    BY <1>6 DEF vars, sending
<1> QED BY <1>1, <1>2, <1>3, <1>4, <1>5, <1>6 DEF Next, Acknowledge

\* No message is ever left in the trigger queue without a wakeup to retry it.
THEOREM RetriesScheduled == Spec => []NoStrandedRetry
<1>1. Init => NoStrandedRetry
    BY DEF Init, NoStrandedRetry
<1>2. NoStrandedRetry /\ [Next]_vars => NoStrandedRetry'
    <2> SUFFICES ASSUME NoStrandedRetry, [Next]_vars PROVE NoStrandedRetry'
        OBVIOUS
    <2>1. CASE port' # Asleep
        BY <2>1 DEF NoStrandedRetry
    <2>2. CASE ProcessTriggerQueue
        BY <2>2 DEF ProcessTriggerQueue, RetriesPending, NoStrandedRetry
    <2>3. CASE UNCHANGED <<triggerQueue, scheduled, port>>
        BY <2>3 DEF NoStrandedRetry
    <2> QED BY <2>1, <2>2, <2>3, QueueMovesInWakeup
<1> QED BY <1>1, <1>2, PTL DEF Spec
=============================================================================
