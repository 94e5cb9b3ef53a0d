# A TLA+ development of the CHI L2 cache model

The repository models the shared L2 cache (home node, HN-F) of an Arm CHI system
and plugs it into gem5. This directory holds TLA+ modules of its storage, of its
protocol engine and of the gem5 controller around them, TLC configurations that check
them on small instances, and proofs, checked by TLAPS, that hold for every size.
Paths below are relative to the repository; `engine.cc` is
`cache_model/src/chi_protocol_engine.cc`, `engine.hh` its header, `middleware.cc` is
`gem5/src/mem/my_l2/our_l2_middleware.cc`.

## 1. Inventory

| Part | State it keeps | Operations | Talks to |
|---|---|---|---|
| `CacheSet` (`cache_line.hh`) | lines, LRU rank per way | `lookup`, `touch`, `victimWay`, `findInvalid` | owned by `L2Cache` |
| `L2Cache` (`l2_cache.cc`) | a vector of sets | `lookup`, `fill`, sharer set, state, data, `invalidate` | called by the engine |
| `ChiProtocolEngine` (`engine.cc`) | `pending_`, `snoopToOrig_`, `memToOrig_`, `snoopRespCounted_`, two id counters | `recvRequest` (ten opcodes and a default), `recvData`, `recvResponse`, `invalidate` | returns a vector of actions to the middleware |
| `OurL2Middleware` (`middleware.cc`) | the storage, the engine, `triggerQueue_` | four `recv*Msg`, `executeActions`, `trySend*`, `processTriggerQueue`, `wakeup`, functional accesses | gem5 message buffers |
| L1 caches (RN-F), memory controller (SN-F) | in gem5 | requests, snoop answers, data, acks | the middleware, over four channels |

**How they interact.** A gem5 message arrives at one of the `recv*Msg` callbacks of a
`wakeup`. The middleware translates it, calls the engine once, and sends every action of
the vector the engine returns; what finds its output buffer full goes to the trigger
queue, which the end of each wakeup retries. The engine calls the storage directly.
gem5's event queue is single-threaded, so a callback is atomic and nobody else moves
during a wakeup; what interleaves is *messages*.

**What a request does.** It is answered at once (hit, nobody to ask), or it snoops
the other sharers (entry under the L1's id, state `WaitSnoopResp`, two counts), or
goes to memory (entry under an internal id, `WaitMemData` or `WaitMemWriteAck`), or
waits for write data (`WaitL1Data`). Data and responses come back later, are
matched by id, and complete the entry.

**What is hard here.** Snoop answers come on two channels, in several beats, in any
order, and data counts as a response as well, once. Nothing serialises requests for
one line. State is looked up when a request comes and used a memory round trip
later. Completion may be triggered by either entry point and must clean four tables.
Ids come from three ranges in one key space. Write data may bear the wrong id and is
then searched for by address. Dirty evictions are not implemented, only asserted
against. A full output buffer splits the messages of one call, and the queue behind it
is shared by all channels. `PROJECT.json` lists each hazard at its line, with the
properties for it.

**What makes each part correct.**
- *Storage*: it is a set-associative LRU cache: one copy of a line, found by its
  address, and the least recently used line is the one displaced.
- *Engine*: every request is completed once, not before its last snoop is answered,
  and at last; the tables agree with each other and are empty when nothing is in
  flight; no dirty line is recorded with two sharers.
- *Middleware*: every message is sent once, the beats of a line in order, every retry
  is made and ends, and what the peers see is what they would see with unlimited room.
- *Together*: one writer at a time, and reads see the last write.

## 2. Modules

| Module | Models | How it corresponds to the code |
|---|---|---|
| `CacheSet` | `CacheLine`, `CacheSet` | a set is a record of two functions on ways; `touch` and the scans are operators |
| `L2Cache` | `L2Cache` | a cache is a function on set indices; one operator per method. Shifts and masks are divisions, as `NumSets` is a power of two |
| `L2CacheStore` | the class used on its own | one action per method, any order; `resp` is what the last `lookup` returned |
| `RecencyCache` | *abstract*: an LRU cache | held contents and which of two addresses was used first; no ways, no ranks |
| `ChiProtocolEngine` | the engine | the member variables, `fault`, and `actions`, the vector just returned; one operator per handler, one action per entry point |
| `ChiL2System` | engine and peers, over unordered channels | sets of messages in flight; an action for each message delivered or answered |
| `Gem5Messages` | opcode and message-type tables, send helpers of the middleware | `MessagesOf(action)`: what each helper puts in which output buffer, in its order |
| `OurL2Middleware` | the middleware | `out` and `triggerQueue` are the buffers and `triggerQueue_`; `port` is where in a wakeup the controller is; one action per `recv*Msg`, `ProcessTriggerQueue` with its rescheduling |
| `ChiL2Coherent` | engine and L1 caches with their contents | the data of a line is the number of writes it has seen; `latest` counts the writes made |
| `MC*` | TLC instances | the mapping to `RecencyCache`, workloads, symmetry constraints |
| `*Proofs` | | theorems, see section 5 |

Composition. `ChiL2System` EXTENDS `ChiProtocolEngine` EXTENDS `L2Cache` EXTENDS
`CacheSet`; `OurL2Middleware` and `ChiL2Coherent` EXTEND `Gem5Messages`, which EXTENDS
`ChiProtocolEngine`; `L2CacheStore` EXTENDS `L2Cache`. There are two refinements:
`MCL2CacheStore` INSTANCEs `RecencyCache` (`ImplementsRecency`), and `OurL2Middleware`
INSTANCEs `ChiL2System` (`ImplementsSystem`): a message is in flight from the moment
the engine returns its action until its peer takes it, whether it lies in an output
buffer or in the trigger queue. So what is checked and proved of `ChiL2System`, where
channels are sets and sending never fails, holds of the code that has to queue.

Modelling decisions:
- **Data.** A line's 64 bytes are one value. Where the code copies bytes, the model
  copies the value.
- **Maps** are functions whose domain is the set of present keys. The order in which
  an `unordered_map` is searched is left open: `WriteDataEntries` is a set, and any
  member may be the one found.
- **Faults.** A failed assertion, or a `memcpy` from the null pointer that `getData`
  returns on a miss, ends the simulator: `fault` records it and nothing follows.
  The assertion is live in the gem5 builds the project uses; a build with `NDEBUG`
  would continue instead.
- **Uninitialised `targetState`.** An entry in `WaitL1Data` has one; no code reads it
  in that state, so the model stores a fixed value.
- **Opcodes.** The engine's interface is modelled in full. `ReadNoSnp`, `WriteNoSnp`
  and the default branch are there for a cache below another one; the middleware's
  opcode table never produces them. The middleware has a helper for `SnpShared`,
  which the engine never asks for.
- **A wakeup** is a sequence of steps between two values `Asleep` of `port`: messages
  of the response, data and request ports, in that order, then the retries. Peers and
  the network move only while `port = Asleep`. The snoop port receives nothing, as
  there is one home node.
- **Peers** are external. In `ChiL2System` an RN-F makes requests under ids not used
  before, has one transaction at a time for a line, writes back only lines it was
  granted (`GrantedOps` are the opcodes that only write back; gem5's WriteUnique
  requests reach the engine as write-backs and need no grant), and answers each snoop
  once: with `Beats` data messages or with one response. `SilentAnswers` says when an
  RN-F that owes data may answer without any.
  Memory answers each read with data and each write with an ack. Messages are
  delivered in any order and neither lost nor duplicated, as gem5's buffers guarantee.
  In `OurL2Middleware` the peers take from the output buffers in order and what they
  send back may overtake. In `ChiL2Coherent` RN-Fs also have line states and data, and
  change them as the repository's transaction tables say.
- **Evict.** The middleware drops the line itself and sends `Comp_I`; no step of the
  modelled peers depends on that answer, so only `OurL2Middleware`, where it takes
  room in a buffer, has the message.

Operators whose comment starts with "Mutant:" are plausible slips of the code next
to the definition they vary. No specification uses them; substituted for the
original they show that a property notices.

## 3. Runs

Passing runs:

| Run | Instance | Shows |
|---|---|---|
| `cache_store` | 2 sets of 2 ways, 4 line addresses, a clean and a dirty state | ranks stay a permutation; every valid line is found, and only once, by the address rebuilt from its tag; the storage refines `RecencyCache` |
| `engine_core` | 3 RN-Fs, 1 line, 3 requests, 2 beats per line, the opcodes that snoop, pass-through, 1 Evict, snoops answered with or without data at will | beat counting: no response counted twice or missed, nothing completed twice or early; tables agree; a line in `SD` has one sharer at most |
| `engine_pressure` | 1 line of storage for 2 addresses, the other opcodes as well, write data under id 0, 1 Evict | displacement and faults in the middle of transactions; an empty network means empty tables |
| `middleware` | 2 RN-Fs, 2 requests of gem5 types, Evicts, 2 beats, buffers of one message, fairness | nothing is lost or repeated (`ChiL2System` is implemented), beats keep their order, retries are scheduled and end, every request is answered |
| `coherent` | 3 RN-Fs, 3 lines in 3 ways, 4 requests, `SafeWorkload`, which uses all that `SafeUse` admits | single writer, directory knows every copy, no write lost or unseen, no fault, as long as the limits below are kept |

Runs that reproduce a disagreement between the code and what is written about it
(`PROJECT.json`, `findings`, quotes the lines):

| Run | What happens |
|---|---|
| `silent_snoop` | a snooped L1 that has written the line back answers without data; the response count is zero, the data count never is, the request hangs |
| `dirty_victim` | two misses for one way pass the dirty-victim assertion; the second fill drops a dirty line |
| `late_beat` | the second beat of a finished transaction is taken for write data of the same line, since beats are not collected |
| `stale_read` | after a CleanUnique the L2 has the line in `UC` while the L1 writes it; another L1's ReadShared is served from the L2 and reads the old value |
| `lost_write` | a read of a dirty line leaves it in `SC`; when the reader evicts its copy the L2 drops the line and the write is nowhere |
| `overlap` | two ReadUnique for one line both miss and both are granted the line |
| `id_reuse` | two L1s write back lines under one id; one entry replaces the other |

One disagreement shows in a property that holds. By `openspec/specs/cache-coherence/spec.md`
(61-62, 92-94) a ReadShared of a line in `UD` or `SD` is served directly, leaves `SD`
and adds the requester to the sharers; the dual-core validation design (84-102) has its
line in `SD` with both cores as sharers, and the engine's tests (`test_protocol_engine.cc`
279-281, 346-348, 365-367) fill lines in `SD` and add two sharers by hand.
`handleReadShared` instead takes the line back from the other sharers and leaves `SC` with
the requester alone, as `chi-transaction-support.md:9` says; `SD` is left for a dirty line
that is read by an RN-F which shares it with no other. So a line in `SD` never has two sharers:
`SharedDirtySingleSharer` holds in `engine_core` and is proved (`DirtySharedByOne`), and
the finding on it names the lines. The handler the spec describes is the mutant
`HandleReadSharedUnasked`, which violates the property. The code needs it: a CleanUnique
of a line in `SD` leaves the other sharers a clean copy (`SnpNotSharedDirty`), forgets them
and grants the line as unique. The state the tests start from, `SD` with two
sharers of which one upgrades, would end with a writer and a copy nobody knows of.

**What `coherent` assumes, and why.** Coherence does not hold for arbitrary traffic;
each assumption of this run is one that a violation run drops:
requests for a line come one at a time, after the messages of the one before it have
arrived (`Overlap = FALSE`; `overlap`); two L1s do not use one id at once
(`IdsPerNode = FALSE`; `id_reuse`); an upgraded line is afterwards only asked for as
unique (`stale_read`); only a line that one L1 alone uses is evicted, and it is clean
(`lost_write`). Messages still overtake each other, and different lines are
in progress together.

**Bounds and why they are enough.** Three RN-Fs are the fewest for a requester with
two sharers to snoop, whose answers can be ordered, mixed and counted. Two beats are
the fewest with a "later" beat. One line suffices for counting, which never relates two
lines; displacement needs two addresses and one way (`engine_pressure`). Two ways and
two sets are enough for a rank to be top or bottom and for an index to be wrong; an
invalidation leaves a hole in either place (the proofs cover any number). With buffers of
one message (`Capacity = 1`) every second message of a call finds no room, so
splitting, queueing, blocking at the head and overtaking by a direct send all happen.
`L1TxnIds` bounds the number of requests, `MaxEvicts` that of Evicts, and in
`coherent` `MaxRequests` and `Data` (the highest number of writes to a line) do.
`SnoopIdsLeft` and `EnoughIdsAssumption` stop short of the point where the snoop
counter reaches `MemIdBase`. `InOrder` is a symmetry reduction: ids are compared only
for equality, and the order of nodes decides only which reserved snoop id a node gets,
so requests take ids and nodes in increasing order. In `middleware`, which checks
liveness, it cuts only steps that send a request; these are not fair, so no fair action
loses a step by it. `coherent` has one beat, since beats change what is counted, not
what is stored. Deadlock is not checked in the system runs: requests run out, and a
fault is the end of the simulator.

`QuiescentMeansIdle` and `RequestsFinish` are stated for peers that give the data they
owe (`Obliging` in the theorem); `silent_snoop` shows that this is needed. With an Evict
in the middle of a transaction the null copy in `completePending` is reached (`fault = "NullData"`), so
`NoFault` is stated in `coherent`, where lines fit and the evicted line has no other
user; it says nothing of dirty victims (`dirty_victim`) or of that null copy.

**Fairness** (`OurL2Middleware`). `WF_incoming(Arrival)`: while messages are on their
way to the L2, one arrives in the end; the event queue delivers them, and no handler
refuses one. `WF_vars(RetryWakeup \/ ProcessTriggerQueue)`: a scheduled wakeup runs and
one that has begun ends. `WF_vars(Acknowledge)`: memory acknowledges a write it has
all of. `SF_vars(\E c \in Channel : Take(c))`: the network takes from the output
buffers; it is a component with a wakeup of its own each cycle, but between two of its
turns the controller may be awake any number of times, hence strong fairness. Nothing
is assumed about which channel or which message is next, nor that anybody makes a
request.

## 4. Properties

| Property | What it says |
|---|---|
| `LruIsPermutation` | no two ways of a set have one rank |
| `EveryLineReachable` | a valid line is the one its own address finds |
| `ImplementsRecency` | the storage is an LRU cache |
| `SnoopAccounting` | `pendingSnoopCount` is the number of snoops still unanswered |
| `SnoopTablesAgree` | snoop ids lead to live entries, and counted ids are live |
| `NoEarlyCompletion` | a completion happens only with the last answer |
| `CompletesOnce` | a completion answers an open request, at its node and address |
| `SharedDirtySingleSharer` | a line in `SD` has at most one recorded sharer, so that an upgrade of it leaves no copy behind; the documents say otherwise |
| `QuiescentMeansIdle` | nothing in flight, nothing pending |
| `NoStrandedRetry` | what waits for a retry has a wakeup scheduled |
| `BeatsInOrder` | an RN-F receives the beats of a line in their order |
| `ImplementsSystem` | the middleware implements `ChiL2System` |
| `RetriesEnd` | the trigger queue becomes empty again |
| `RequestsFinish` | every request is answered and every write finds its data |
| `NoFault` | no assertion fails and no null copy is made |
| `SingleWriter` | a line that one L1 may write is in no other L1 |
| `DirectoryCovers` | an L1 that holds a line is a recorded sharer of it |
| `LastWriteKept` | the last write is in some cache, message or memory |
| `ReadsSeeLastWrite` | a line that reaches an L1 has the last write in it |

## 5. Proofs

All theorems hold for every value of the constants that the named assumptions admit
(finite `Nodes`, positive sizes, L1 ids below the snoop ids, snoop ids below the
memory ids). There is no proof step without a proof. TLC checked each invariant, and
each part of the inductive ones, before it was proved.

*`L2CacheProofs`* has the lemmas about operators: the scans return a way, and the
victim's rank is the least (from well-foundedness of the naturals and finiteness of the
ways), tag and index rebuild the address (`MakeAddrRoundTrip`), `TouchedRanks` keeps
distinct ranks distinct, and what each update does to the type and to the line of an
address.

*`L2CacheStoreProofs`* proves `TypeCorrect`, `RanksStayAPermutation` and
`LinesStayReachable`. The inductive invariant is: the cache has its type, ranks in a
set are distinct, and the tags of valid lines in a set are distinct. Distinct tags are
what makes reachability inductive: a fill takes a way other than the hit's only if the
tag is not in the set.

The same module proves `RecencyImplemented`, that the storage implements
`RecencyCache`. The mapping is functional, so the proof is a step simulation. The
invariant adds that valid lines are of addresses and in states in use
(`LinesInUse`). `OneLineMoves` says which addresses gain, lose and keep their line when
one way changes; `TouchedOrder` that a touch keeps the order of the other ways and puts
the touched one last; together they give the new order of uses for each call
(`OrderKept`, `OrderAfterUse`). `FullMeansNoFreeWay` matches the abstract count of held
addresses with the scan for a free way through an injection of addresses onto ways,
and `OldestIsVictim` the oldest address with the way of the least rank.

*`ChiProtocolEngineProofs`* states, for each handler, which of a few kinds of move it
makes on the tables (opens an entry, opens one with fresh snoop ids, changes counts,
completes, only serves). *`ChiL2SystemProofs`* then proves over the moves
`TypeCorrect`, `TablesAgree` and `SnoopsAccountedFor`. The counting property is not
inductive alone. The invariant `IInv` adds
- `IdRanges`: ids in use lie below the counters and in their own ranges, so a new id
  is new and no two kinds of id meet (this is what `SnoopIdsLeft` is for);
- `OneAnswerPerSnoop`: a snoop id is in only one of: unanswered at the RN-F, answered
  by a response, answered by data, so one message cannot be counted for two;
- `SnoopTablesAgree`, so that a message with a known snoop id finds its entry.

*`ChiL2SafetyProofs`* proves the action properties `RequestsCompleteOnce` and
`LastAnswerCompletes`, for which it adds to `IInv` `OneEntryPerRequest` (no two entries
are for one request, though they may be under keys of different kinds) and
`CompletedOnlyOnce` (an entry whose end will answer its request is for one not answered
yet). It also proves `DirtySharedByOne`. What makes that inductive is `TargetsClean`: no
transaction waits with `SD` as the state to give its line. So a line becomes `SD` only
in `handleReadShared`, with the one sharer that is recorded there, and every other step
that adds a sharer has taken the line out of `SD` before.

Its third invariant, `QInv`, gives `NothingStranded` (`QuiescentMeansIdle`) and
`CountReachesZeroLast` (`ZeroMeansComplete`), under the assumption `Obliging`: an RN-F
that is asked for data gives it, and the ids that write data may bear in place of the
request's are not ids of requests. `engine_pressure` satisfies it; `silent_snoop` gives
up its first half, and there `ZeroMeansComplete` fails. The parts of `QInv`:
- `WriteDataOwed`: for each line, there are as many requests whose write data is still to
  come as entries that wait for write data of it, or more. It has to be a count, since data
  under another id, or a beat that comes after the first, may end another entry's
  wait than that of its own request; `WriteDataKnown` says what such data can be;
- `SnoopAnswersOwed`: a transaction that waits for data of snoops has at least as many snoops
  unanswered, all of which ask for data, as data it waits for;
- `MemAnswersOwed`: for each entry that waits for memory, the request to memory or its
  answer is in flight;
- `MemTableAgrees`: `memToOrig_` has no entry of a transaction that is over.

*`ChiL2CoherentProofs`* proves the coherence of L1s and L2: `CoherentTypes`,
`NeverFaults`, `WritersAreAlone`, `CopiesAreKnown`, `WritesAreKept` and
`ReadersSeeLastWrite`, each under the assumption `SafeUse`. The assumption is the four
limits of section 3 in general form: requests for a line come one at a time and ids are
not shared, the lines in use fit in their sets, there are snoop ids enough, and each
line is used in one of three ways (shared and written by all, `SharedUse`; upgraded by
one RN-F and asked for as unique by the others, `UpgradedBy`; kept and evicted by one,
`EvictedBy`). The workload of the `coherent` run satisfies it, which TLC checks
(`SafeWorkloadIsSafe`), and each violation run shows that a limit it drops is needed.
None of the properties is inductive, and no single stronger formula is natural: what is
true of a line depends on how far the request for it has got. So `CInv` says that
every line is in one *phase* - `Idle`, `Fetching`, `Snooping`, `Answering`,
`AwaitingWrite` - and each phase says which messages and table entries the line has
and what its copies may be. In `Snooping` the directory and the copies disagree for a
while: the L2 has forgotten the sharers it asks, and each that still holds the line has
yet to get its snoop (the last conjunct of the phase), while `OpenSnoops` counts the
answers outstanding over all three places they can be. The other parts of a line's
invariant, `Copies`, `DataCurrent` and `L2Current`, hold in every phase. Then each action
is shown to move its own line from one phase to the next and to leave every other line's
phase alone, for which `L2CacheProofs` says what a storage operation changes
in the view of another address: nothing, as lines that fit are never displaced.

*`OurL2MiddlewareProofs`* proves `MiddlewareTypes`, `BeatsArriveInOrder` and
`RetriesScheduled`. The last is short: the queue grows only while a wakeup goes on, and
its end returns whether anything is left. The order of beats is not inductive by
itself, since a beat may be in the data buffer while its predecessors wait, or may
overtake them by a direct send; `MInv` says why neither happens. `Ordered`: behind each
beat in the data buffer, or taken already, are all earlier ones of its line, and a beat
in the queue has them before it there, in the data buffer, or taken. A beat joins the
queue only when the data buffer is full, so those sent after it in the same call find it
full too and join behind it (`SendLineOrdered`); a retry leaves everything behind the
first message that stays (`RetryAllOrdered`); a peer takes from the front
(`TakenOrdered`). `Flowing` says that all that is carried is a message of some action,
which is what gives a beat its channel, line and predecessors. The messages of a call
are sent by recursive functions, about which the proof reasons by a least-counterexample
argument over the prefix sent so far (`UpTo`), as the induction theorems of the library
cannot be instantiated.

*`OurL2RefinementProofs`* proves `MiddlewareImplementsSystem`, that every behaviour of
the middleware is one of `ChiL2System`. The mapping takes the contents of the buffers
and the queue as sets of actions, and there lies the difficulty: in `ChiL2System` an
answered action is gone, so it must not lie a second time in a buffer. `RInv` says that
it does not, and is proved in `OwedInOnePlace`. Its parts:
- `Once`: a message whose receiver owes an answer (a snoop, a read or write for memory,
  a request for write data) is in one place of one buffer or of the queue. Every send
  and retry keeps it if what is sent is new;
- `Current`, with `IdsCounted` and `RequestsInTurn`: what is carried bears an id below
  the engine's counters, or that of a request which has been received, so that what a call
  sends is new. A request takes at most as many snoop ids as there are RN-Fs and
  there are only so many requests, which with `EnoughIdsAssumption` gives `SnoopIdsLeft`;
- `EntriesOfRequests`: each entry is for a received request, and only reads are snooped
  for, so the id of a completion is not that of a request for write data;
- `WithMemory`, `OneActionPerId`: a write is carried or with memory and an id stands for
  one action, so when `Beats + 1` messages of an id have come all of that write has;
- `ResponsesApart`: responses differ in their ids, as snoops and writes do.

Then each action is matched to its step. A receive callback is the delivery of its
message (`RequestMapped`, `EvictMapped`, `DataMapped`, `ResponseMapped`); what a peer
takes is the answer to a snoop, a read or a request for data, or nothing while a
completion or part of a write is taken (`TakeMapped`); memory's acknowledgement answers
the write (`AcknowledgeMapped`); sending a request, a retry, and a CompAck that the
middleware drops are stutters. `ChiL2System` has copies of the engine's operators, which
the `Same...` lemmas identify with those of the middleware. `SystemAssumptions` shows
that the parameters it is given satisfy what it assumes, so that the engine's theorems
apply to the middleware.

Only model-checked: the liveness properties. Liveness under
fairness and ENABLED are outside what TLAPS supports here. No module has a RECURSIVE
operator.

## 6. Not modelled, and why

- Statistics and logging: nothing depends on them. `memToOrig_` is modelled although
  the code only ever writes it.
- `functionalRead` changes nothing and `recvSnoopMsg` only logs: one home node receives
  no snoops.
- What happens once the snoop counter has run into the memory ids, after 10000 snoops:
  the tables can then not be told apart, and the model stops before it. It is listed as a
  hazard without a property.
- Contents of memory in `ChiL2Coherent`: only a CleanUnique that finds `UD` writes
  to memory, which one that comes by itself does not. That its answer precedes memory's
  acknowledgement is listed as a hazard.
- gem5's own L1 transient states, credits and replacement, and its memory controller's
  reaction to write data that comes before its request: external code, represented by
  the order of messages left open.
- Payload vectors, string conversions and response opcodes that no code produces
  (`chi_types.hh`, `chi_opcode.hh`).
- Configuration, build files, simulation scripts and guest programs: not the cache's
  logic. `gem5_integration/our_l2.sm` is a sketch whose actions are empty.

## 7. What could come next

1. An engine that orders requests for one line, as the overlap, stale_read and
   lost_write runs suggest; `SingleWriter` and `ReadsSeeLastWrite` should then be
   provable without `SafeUse`.
2. Collected beats in `recvDataMsg`, after which `OnlyWriteDataEndsWait` should hold.
