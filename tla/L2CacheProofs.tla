---------------------------- MODULE L2CacheProofs ----------------------------
(***************************************************************************)
(* Lemmas about the operators of CacheSet and L2Cache, for every number of *)
(* sets and ways: what the scans return, and that the updates keep a cache *)
(* a cache.  They are cited by the proofs about the state machines.        *)
(***************************************************************************)
EXTENDS L2Cache, FiniteSetTheorems, WellFoundedInduction, TLAPS

\* A nonempty set of naturals has a least element.
LEMMA LeastElement ==
    ASSUME NEW S \in SUBSET Nat, S # {}
    PROVE  \E x \in S : \A y \in S : x <= y
<1> DEFINE Less == {p \in Nat \X Nat : p[1] < p[2]}
<1>1. IsWellFoundedOn(Less, Nat)
    BY NatLessThanWellFounded, Zenon DEF OpToRel
<1>2. PICK x \in S : \A y \in S : <<y, x>> \notin Less
    <2> HIDE DEF Less
    <2> QED BY <1>1, WFMin
<1>3. \A y \in S : x <= y
    <2> SUFFICES ASSUME NEW y \in S PROVE x <= y
        OBVIOUS
    <2>1. <<y, x>> \notin Less
        BY <1>2
    <2>2. ~ (y < x)
        BY <2>1
    <2> QED BY <2>2
<1> QED BY <1>3

\* The scan returns the first way of a nonempty set, and NoWay for the empty one.
LEMMA FirstWayType ==
    ASSUME NEW ways \in SUBSET Way
    PROVE  /\ ways = {} => FirstWay(ways) = NoWay
           /\ ways # {} => FirstWay(ways) \in ways
           /\ FirstWay(ways) # NoWay => FirstWay(ways) \in ways
<1>1. CASE ways = {}
    BY <1>1 DEF FirstWay
<1>2. CASE ways # {}
    <2>1. ways \in SUBSET Nat
        BY NumWaysAssumption DEF Way
    <2>2. \E w \in ways : \A v \in ways : w <= v
        BY <1>2, <2>1, LeastElement
    <2>3. FirstWay(ways) \in ways
        BY <1>2, <2>2 DEF FirstWay
    <2> QED BY <1>2, <2>3
<1> QED BY <1>1, <1>2

\* Some way is the least recently used one, and it is the one found.
LEMMA VictimWayType ==
    ASSUME NEW set \in CacheSets
    PROVE  /\ VictimWay(set) \in Way
           /\ \A v \in Way : set.lru[VictimWay(set)] <= set.lru[v]
<1> DEFINE Oldest == {w \in Way : \A v \in Way : set.lru[w] <= set.lru[v]}
<1>1. \A w \in Way : set.lru[w] \in Nat /\ w \in Nat
    BY NumWaysAssumption DEF CacheSets, Way
<1>2. Way # {}
    BY NumWaysAssumption DEF Way
<1>3. Oldest # {}
    <2> DEFINE Ranks == {set.lru[w] : w \in Way}
    <2>1. Ranks \in SUBSET Nat /\ Ranks # {}
        BY <1>1, <1>2
    <2>2. PICK r \in Ranks : \A q \in Ranks : r <= q
        <3> HIDE DEF Ranks
        <3> QED BY <2>1, LeastElement
    <2> QED BY <2>2
<1>4. PICK w \in Oldest : \A v \in Oldest : v <= w
    <2> DEFINE Gaps == {NumWays - 1 - w : w \in Oldest}
    <2>1. Gaps \in SUBSET Nat /\ Gaps # {}
        BY <1>3, NumWaysAssumption DEF Way
    <2>2. PICK g \in Gaps : \A h \in Gaps : g <= h
        <3> HIDE DEF Gaps
        <3> QED BY <2>1, LeastElement
    <2>3. PICK w \in Oldest : g = NumWays - 1 - w
        BY <2>2
    <2>4. ASSUME NEW v \in Oldest PROVE v <= w
        <3>1. g <= NumWays - 1 - v
            BY <2>2
        <3> QED BY <2>3, <3>1, <1>1, NumWaysAssumption
    <2> QED BY <2>4
<1>5. ASSUME NEW v \in Way
      PROVE  set.lru[w] < set.lru[v] \/ (set.lru[w] = set.lru[v] /\ v <= w)
    <2>1. CASE v \in Oldest
        BY <2>1, <1>1, <1>4
    <2>2. CASE v \notin Oldest
        <3>1. set.lru[w] # set.lru[v]
            BY <2>2, <1>4
        <3> QED BY <3>1, <1>1, <1>4
    <2> QED BY <2>1, <2>2
<1>6. w \in Way
    BY <1>4
<1> DEFINE First(x) == \A v \in Way : \/ set.lru[x] < set.lru[v]
                                      \/ set.lru[x] = set.lru[v] /\ v <= x
<1>7. VictimWay(set) \in Way /\ First(VictimWay(set))
    BY <1>5, <1>6 DEF VictimWay
<1> QED BY <1>1, <1>7

-----------------------------------------------------------------------------
(* Addresses *)

\* An address has a set index in range and a natural tag.
LEMMA AddrTypes ==
    ASSUME NEW addr \in Addr
    PROVE  GetSetIndex(addr) \in SetIndex /\ GetTag(addr) \in Nat
<1> DEFINE line == addr \div LineSize
<1>1. line \in Nat
    BY LineSizeAssumption DEF Addr
<1>2. line % NumSets \in SetIndex
    <2> HIDE DEF line
    <2> QED BY <1>1, NumSetsAssumption DEF SetIndex
<1>3. line \div NumSets \in Nat
    <2> HIDE DEF line
    <2> QED BY <1>1, NumSetsAssumption
<1> QED BY <1>2, <1>3 DEF GetSetIndex, GetTag

\* The address rebuilt from a tag and a set index is split into them again.
LEMMA MakeAddrRoundTrip ==
    ASSUME NEW tag \in Nat, NEW i \in SetIndex
    PROVE  /\ MakeAddr(tag, i) \in Addr
           /\ GetSetIndex(MakeAddr(tag, i)) = i
           /\ GetTag(MakeAddr(tag, i)) = tag
<1> DEFINE line == tag * NumSets + i
<1>1. line \in Nat
    BY NumSetsAssumption DEF SetIndex
<1>2. line * LineSize \in Nat /\ (line * LineSize) \div LineSize = line
    <2> HIDE DEF line
    <2> QED BY <1>1, LineSizeAssumption
<1>3. line % NumSets = i /\ line \div NumSets = tag
    BY NumSetsAssumption DEF SetIndex
<1> QED BY <1>2, <1>3 DEF MakeAddr, GetSetIndex, GetTag, Addr

-----------------------------------------------------------------------------
(* The queries and updates of a cache *)

\* The set of an address is a cache set.
LEMMA SetOfType ==
    ASSUME NEW c \in Caches, NEW addr \in Addr
    PROVE  /\ SetOf(c, addr) \in CacheSets
           /\ GetSetIndex(addr) \in SetIndex
BY AddrTypes DEF SetOf, Caches

\* A hit names a way of the set, and that way holds a valid line with the tag.
LEMMA HitWay ==
    ASSUME NEW c \in Caches, NEW addr \in Addr, Present(c, addr)
    PROVE  /\ WayOf(c, addr) \in Way
           /\ LineOf(c, addr) \in CacheLine
           /\ IsValid(LineOf(c, addr))
           /\ LineOf(c, addr).tag = GetTag(addr)
<1> DEFINE set == SetOf(c, addr)
           ways == {w \in Way : IsValid(set.lines[w]) /\ set.lines[w].tag = GetTag(addr)}
<1>1. ways \in SUBSET Way
    OBVIOUS
<1>2. WayOf(c, addr) = FirstWay(ways)
    BY DEF WayOf, FindWay
<1>3. WayOf(c, addr) \in ways
    <2> HIDE DEF ways
    <2> QED BY <1>1, <1>2, FirstWayType DEF Present
<1> QED BY <1>3, SetOfType DEF LineOf, CacheSets

\* Touching a way yields ranks again.
LEMMA TouchedRanksType ==
    ASSUME NEW lru \in [Way -> Way], NEW w \in Way
    PROVE  TouchedRanks(lru, w) \in [Way -> Way]
<1>1. ASSUME NEW v \in Way
      PROVE  (IF v = w THEN NumWays - 1
              ELSE IF lru[v] > lru[w] THEN lru[v] - 1 ELSE lru[v]) \in Way
    <2> DEFINE old == lru[v]
               touched == lru[w]
    <2>1. old \in Way /\ touched \in Way
        OBVIOUS
    <2> HIDE DEF old, touched
    <2>2. NumWays - 1 \in Way
        BY NumWaysAssumption DEF Way
    <2>3. ASSUME old > touched PROVE old - 1 \in Way
        BY <2>1, <2>3, NumWaysAssumption DEF Way
    <2> QED BY <2>1, <2>2, <2>3 DEF old, touched
<1> QED BY <1>1 DEF TouchedRanks

\* A lookup keeps a cache a cache.
LEMMA LookupType ==
    ASSUME NEW c \in Caches, NEW addr \in Addr
    PROVE  Lookup(c, addr) \in Caches
<1> DEFINE i == GetSetIndex(addr)
           w == WayOf(c, addr)
<1>1. CASE Present(c, addr)
    <2>1. i \in SetIndex /\ w \in Way /\ c[i] \in CacheSets
        BY <1>1, HitWay, SetOfType DEF Caches
    <2>2. TouchedRanks(c[i].lru, w) \in [Way -> Way]
        BY <2>1, TouchedRanksType DEF CacheSets
    <2>3. Touch(c[i], w) \in CacheSets
        <3> HIDE DEF i, w
        <3> QED BY <2>1, <2>2 DEF Touch, CacheSets
    <2> QED BY <1>1, <2>1, <2>3 DEF Lookup, Caches
<1>2. CASE ~Present(c, addr)
    BY <1>2 DEF Lookup
<1> QED BY <1>1, <1>2

\* A fill always finds a way.
LEMMA FillWayType ==
    ASSUME NEW c \in Caches, NEW addr \in Addr
    PROVE  FillWay(c, addr) \in Way
<1> DEFINE set == SetOf(c, addr)
           free == {w \in Way : ~IsValid(set.lines[w])}
<1>1. set \in CacheSets
    BY SetOfType
<1>2. FindInvalid(set) # NoWay => FindInvalid(set) \in Way
    <2>1. free \in SUBSET Way /\ FindInvalid(set) = FirstWay(free)
        BY DEF FindInvalid
    <2> QED
        <3> HIDE DEF free
        <3> QED BY <2>1, FirstWayType
<1>3. VictimWay(set) \in Way
    BY <1>1, VictimWayType
<1> QED BY <1>2, <1>3, HitWay DEF FillWay

\* A fill keeps a cache a cache.
LEMMA FillType ==
    ASSUME NEW c \in Caches, NEW addr \in Addr,
           NEW state \in LineState, NEW data \in Data
    PROVE  Fill(c, addr, state, data) \in Caches
<1> DEFINE i == GetSetIndex(addr)
           w == FillWay(c, addr)
           line == [tag |-> GetTag(addr), state |-> state, data |-> data,
                    sharers |-> GetSharers(c, addr)]
<1>1. i \in SetIndex /\ w \in Way /\ c[i] \in CacheSets
    BY FillWayType, SetOfType DEF Caches
<1>2. line \in CacheLine
    <2>1. GetSharers(c, addr) \in SUBSET Nodes
        BY HitWay DEF GetSharers, CacheLine
    <2>2. GetTag(addr) \in Nat
        BY AddrTypes
    <2> QED BY <2>1, <2>2 DEF CacheLine
<1>3. WithLine(c[i], w, line) \in CacheSets
    <2> HIDE DEF i, w, line
    <2> QED BY <1>1, <1>2 DEF WithLine, CacheSets
<1>4. TouchedRanks(WithLine(c[i], w, line).lru, w) \in [Way -> Way]
    <2>1. WithLine(c[i], w, line).lru \in [Way -> Way]
        <3> HIDE DEF i, w, line
        <3> QED BY <1>3 DEF CacheSets
    <2> QED BY <1>1, <2>1, TouchedRanksType
<1>5. Touch(WithLine(c[i], w, line), w) \in CacheSets
    <2> HIDE DEF i, w, line
    <2> QED BY <1>3, <1>4 DEF Touch, CacheSets
<1> QED BY <1>1, <1>5 DEF Fill, Caches

\* d is c with the line in one way of one set replaced, and the ranks untouched.
LineReplaced(c, d, i, w, line) ==
    \A j \in SetIndex :
        /\ d[j].lru = c[j].lru
        /\ \A v \in Way :
              d[j].lines[v] = IF j = i /\ v = w THEN line ELSE c[j].lines[v]

PutLine(c, i, w, line) == [c EXCEPT ![i].lines[w] = line]

\* Replacing a line keeps a cache a cache and changes that line alone.
LEMMA ReplaceLine ==
    ASSUME NEW c \in Caches, NEW i \in SetIndex, NEW w \in Way,
           NEW line \in CacheLine
    PROVE  /\ PutLine(c, i, w, line) \in Caches
           /\ LineReplaced(c, PutLine(c, i, w, line), i, w, line)
<1>1. c[i] \in CacheSets
    BY DEF Caches
<1>2. [c[i].lines EXCEPT ![w] = line] \in [Way -> CacheLine]
    BY <1>1 DEF CacheSets
<1>3. [c[i] EXCEPT !.lines[w] = line] \in CacheSets
    BY <1>1, <1>2 DEF CacheSets
<1>4. PutLine(c, i, w, line) \in Caches
    BY <1>3 DEF PutLine, Caches
<1>5. LineReplaced(c, PutLine(c, i, w, line), i, w, line)
    BY <1>1, <1>2 DEF PutLine, LineReplaced, Caches, CacheSets
<1> QED BY <1>4, <1>5

\* On a hit each update in place replaces the line it hits, and only that one.
LEMMA UpdateOnHit ==
    ASSUME NEW c \in Caches, NEW addr \in Addr, Present(c, addr)
    PROVE  LET i == GetSetIndex(addr)
               w == WayOf(c, addr)
               line == c[i].lines[w]
           IN /\ \A n \in Nodes :
                    /\ AddSharer(c, addr, n) \in Caches
                    /\ LineReplaced(c, AddSharer(c, addr, n), i, w,
                            [line EXCEPT !.sharers = @ \cup {n}])
                    /\ RemoveSharer(c, addr, n) \in Caches
                    /\ LineReplaced(c, RemoveSharer(c, addr, n), i, w,
                            [line EXCEPT !.sharers = @ \ {n}])
              /\ ClearSharers(c, addr) \in Caches
              /\ LineReplaced(c, ClearSharers(c, addr), i, w,
                            [line EXCEPT !.sharers = {}])
              /\ \A state \in LineState :
                    /\ SetState(c, addr, state) \in Caches
                    /\ LineReplaced(c, SetState(c, addr, state), i, w,
                            [line EXCEPT !.state = state])
              /\ \A data \in Data :
                    /\ WriteData(c, addr, data) \in Caches
                    /\ LineReplaced(c, WriteData(c, addr, data), i, w,
                            [line EXCEPT !.data = data])
              /\ Invalidate(c, addr) \in Caches
              /\ LineReplaced(c, Invalidate(c, addr), i, w, ClearedLine)
<1> DEFINE i == GetSetIndex(addr)
           w == WayOf(c, addr)
           line == c[i].lines[w]
<1>1. i \in SetIndex /\ w \in Way /\ c[i] \in CacheSets
    BY HitWay, SetOfType DEF Caches
<1>2. line \in CacheLine
    BY <1>1 DEF CacheSets
<1>3. ASSUME NEW n \in Nodes
      PROVE  /\ AddSharer(c, addr, n) \in Caches
             /\ LineReplaced(c, AddSharer(c, addr, n), i, w,
                             [line EXCEPT !.sharers = @ \cup {n}])
    <2>1. AddSharer(c, addr, n) = PutLine(c, i, w, [line EXCEPT !.sharers = @ \cup {n}])
        BY DEF AddSharer, PutLine
    <2>2. [line EXCEPT !.sharers = @ \cup {n}] \in CacheLine
        BY <1>2 DEF CacheLine
    <2> QED
        <3> HIDE DEF i, w, line
        <3> QED BY <1>1, <2>1, <2>2, ReplaceLine
<1>4. /\ ClearSharers(c, addr) \in Caches
      /\ LineReplaced(c, ClearSharers(c, addr), i, w, [line EXCEPT !.sharers = {}])
    <2>1. ClearSharers(c, addr) = PutLine(c, i, w, [line EXCEPT !.sharers = {}])
        BY DEF ClearSharers, PutLine
    <2>2. [line EXCEPT !.sharers = {}] \in CacheLine
        BY <1>2 DEF CacheLine
    <2> QED
        <3> HIDE DEF i, w, line
        <3> QED BY <1>1, <2>1, <2>2, ReplaceLine
<1>5. ASSUME NEW state \in LineState
      PROVE  /\ SetState(c, addr, state) \in Caches
             /\ LineReplaced(c, SetState(c, addr, state), i, w,
                             [line EXCEPT !.state = state])
    <2>1. SetState(c, addr, state) = PutLine(c, i, w, [line EXCEPT !.state = state])
        BY DEF SetState, PutLine
    <2>2. [line EXCEPT !.state = state] \in CacheLine
        BY <1>2 DEF CacheLine
    <2> QED
        <3> HIDE DEF i, w, line
        <3> QED BY <1>1, <2>1, <2>2, ReplaceLine
<1>6. /\ Invalidate(c, addr) \in Caches
      /\ LineReplaced(c, Invalidate(c, addr), i, w, ClearedLine)
    <2>1. Invalidate(c, addr) = PutLine(c, i, w, ClearedLine)
        BY DEF Invalidate, PutLine
    <2>2. ClearedLine \in CacheLine
        BY DataAssumption DEF ClearedLine, CacheLine, LineState
    <2> QED
        <3> HIDE DEF i, w, line
        <3> QED BY <1>1, <2>1, <2>2, ReplaceLine
<1>7. ASSUME NEW n \in Nodes
      PROVE  /\ RemoveSharer(c, addr, n) \in Caches
             /\ LineReplaced(c, RemoveSharer(c, addr, n), i, w, [line EXCEPT !.sharers = @ \ {n}])
    <2>1. RemoveSharer(c, addr, n) = PutLine(c, i, w, [line EXCEPT !.sharers = @ \ {n}])
        BY DEF RemoveSharer, PutLine
    <2>2. [line EXCEPT !.sharers = @ \ {n}] \in CacheLine
        BY <1>2 DEF CacheLine
    <2> QED
        <3> HIDE DEF i, w, line
        <3> QED BY <1>1, <2>1, <2>2, ReplaceLine
<1>8. ASSUME NEW data \in Data
      PROVE  /\ WriteData(c, addr, data) \in Caches
             /\ LineReplaced(c, WriteData(c, addr, data), i, w, [line EXCEPT !.data = data])
    <2>1. WriteData(c, addr, data) = PutLine(c, i, w, [line EXCEPT !.data = data])
        BY DEF WriteData, PutLine
    <2>2. [line EXCEPT !.data = data] \in CacheLine
        BY <1>2 DEF CacheLine
    <2> QED
        <3> HIDE DEF i, w, line
        <3> QED BY <1>1, <2>1, <2>2, ReplaceLine
<1> QED BY <1>3, <1>4, <1>5, <1>6, <1>7, <1>8

\* The updates in place keep a cache a cache, on a hit and on a miss.
LEMMA UpdateTypes ==
    ASSUME NEW c \in Caches, NEW addr \in Addr
    PROVE  /\ \A n \in Nodes : AddSharer(c, addr, n) \in Caches
           /\ \A n \in Nodes : RemoveSharer(c, addr, n) \in Caches
           /\ \A data \in Data : WriteData(c, addr, data) \in Caches
           /\ ClearSharers(c, addr) \in Caches
           /\ \A state \in LineState : SetState(c, addr, state) \in Caches
           /\ Invalidate(c, addr) \in Caches
<1>1. CASE Present(c, addr)
    BY <1>1, UpdateOnHit
<1>2. CASE ~Present(c, addr)
    BY <1>2 DEF AddSharer, RemoveSharer, WriteData, ClearSharers, SetState, Invalidate
<1> QED BY <1>1, <1>2

-----------------------------------------------------------------------------
(* Distinct ranks and distinct tags *)

RanksDistinct(lru) == \A v, w \in Way : lru[v] = lru[w] => v = w

TagsDistinct(lines) ==
    \A v, w \in Way :
        (IsValid(lines[v]) /\ IsValid(lines[w]) /\ lines[v].tag = lines[w].tag)
            => v = w

\* Touching a way keeps the ranks distinct.
LEMMA TouchKeepsRanksDistinct ==
    ASSUME NEW lru \in [Way -> Way], NEW w \in Way, RanksDistinct(lru)
    PROVE  RanksDistinct(TouchedRanks(lru, w))
<1> SUFFICES ASSUME NEW u \in Way, NEW v \in Way, u # v,
                    TouchedRanks(lru, w)[u] = TouchedRanks(lru, w)[v]
             PROVE  FALSE
    BY DEF RanksDistinct
<1> DEFINE ru == lru[u]
           rv == lru[v]
           rw == lru[w]
           top == NumWays - 1
<1>1. ru \in 0 .. top /\ rv \in 0 .. top /\ rw \in 0 .. top
    BY DEF Way
<1>2. ru # rv /\ (u # w => ru # rw) /\ (v # w => rv # rw)
    BY DEF RanksDistinct
<1>3. (IF u = w THEN top ELSE IF ru > rw THEN ru - 1 ELSE ru)
        = (IF v = w THEN top ELSE IF rv > rw THEN rv - 1 ELSE rv)
    BY DEF TouchedRanks
<1>4. top \in Int
    BY NumWaysAssumption
<1> HIDE DEF ru, rv, rw, top
<1> QED BY <1>1, <1>2, <1>3, <1>4

\* On a miss no valid line of the set has the tag.
LEMMA MissTag ==
    ASSUME NEW c \in Caches, NEW addr \in Addr, ~Present(c, addr)
    PROVE  \A w \in Way : IsValid(SetOf(c, addr).lines[w])
                             => SetOf(c, addr).lines[w].tag # GetTag(addr)
<1> DEFINE set == SetOf(c, addr)
           ways == {w \in Way : IsValid(set.lines[w]) /\ set.lines[w].tag = GetTag(addr)}
<1>1. ways \in SUBSET Way /\ FirstWay(ways) = NoWay
    BY DEF Present, WayOf, FindWay
<1>2. NoWay \notin ways
    BY NumWaysAssumption DEF NoWay, Way
<1>3. ways = {}
    <2> HIDE DEF ways
    <2> QED BY <1>1, <1>2, FirstWayType
<1> QED BY <1>3

-----------------------------------------------------------------------------
(* What an address sees of a cache *)

SameLine(c, d, addr) ==
    /\ Present(d, addr) <=> Present(c, addr)
    /\ GetState(d, addr) = GetState(c, addr)
    /\ GetSharers(d, addr) = GetSharers(c, addr)
    /\ Present(c, addr) => GetData(d, addr) = GetData(c, addr)

\* Every address of A is that of a line.
Aligned(A) == A \subseteq Addr /\ \A addr \in A : addr % LineSize = 0

\* The valid lines are those of addresses in A, each in one way.
Stores(c, A) ==
    /\ c \in Caches
    /\ \A i \in SetIndex : TagsDistinct(c[i].lines)
    /\ \A i \in SetIndex, w \in Way :
          IsValid(c[i].lines[w]) => MakeAddr(c[i].lines[w].tag, i) \in A

\* d is c with this line for addr, and with the same lines for the rest of A.
Becomes(c, d, A, addr, state, sharers, data) ==
    /\ Stores(d, A)
    /\ Present(d, addr)
    /\ GetState(d, addr) = state
    /\ GetSharers(d, addr) = sharers
    /\ GetData(d, addr) = data
    /\ \A b \in A \ {addr} : SameLine(c, d, b)

LinesReplaced(c, d, i, w, line) ==
    \A j \in SetIndex, v \in Way :
        d[j].lines[v] = IF j = i /\ v = w THEN line ELSE c[j].lines[v]

\* The line of an aligned address has that address.
LEMMA AlignedAddr ==
    ASSUME NEW addr \in Addr, addr % LineSize = 0
    PROVE  MakeAddr(GetTag(addr), GetSetIndex(addr)) = addr
<1> DEFINE line == addr \div LineSize
           tag == line \div NumSets
           index == line % NumSets
<1>1. line \in Nat /\ addr = LineSize * line
    BY LineSizeAssumption DEF Addr
<1> HIDE DEF line
<1>2. tag \in Nat /\ index \in Nat /\ line = NumSets * tag + index
    BY <1>1, NumSetsAssumption
<1>3. MakeAddr(tag, index) = (tag * NumSets + index) * LineSize
    BY DEF MakeAddr
<1> HIDE DEF tag, index
<1>4. (tag * NumSets + index) * LineSize = LineSize * line
    BY <1>1, <1>2, NumSetsAssumption, LineSizeAssumption
<1> QED BY <1>1, <1>3, <1>4 DEF GetTag, GetSetIndex, tag, index, line

Matches(c, addr) ==
    {w \in Way : /\ IsValid(SetOf(c, addr).lines[w])
                 /\ SetOf(c, addr).lines[w].tag = GetTag(addr)}

\* The way an address hits is the only one with its tag.
LEMMA OneMatch ==
    ASSUME NEW c \in Caches, NEW addr \in Addr
    PROVE  /\ WayOf(c, addr) = FirstWay(Matches(c, addr))
           /\ Present(c, addr) <=> Matches(c, addr) # {}
           /\ Present(c, addr) => WayOf(c, addr) \in Matches(c, addr)
           /\ (TagsDistinct(SetOf(c, addr).lines) /\ Present(c, addr))
                => Matches(c, addr) = {WayOf(c, addr)}
<1>1. WayOf(c, addr) = FirstWay(Matches(c, addr))
    BY DEF WayOf, FindWay, Matches
<1>2. Matches(c, addr) \in SUBSET Way
    BY DEF Matches
<1>3. \A w \in Way : w # NoWay
    BY NumWaysAssumption DEF NoWay, Way
<1>4. /\ Present(c, addr) <=> Matches(c, addr) # {}
      /\ Present(c, addr) => WayOf(c, addr) \in Matches(c, addr)
    BY <1>1, <1>2, <1>3, FirstWayType DEF Present
<1>5. ASSUME TagsDistinct(SetOf(c, addr).lines), Present(c, addr)
      PROVE  Matches(c, addr) = {WayOf(c, addr)}
    BY <1>4, <1>5 DEF Matches, TagsDistinct
<1> QED BY <1>1, <1>4, <1>5

\* An address with the same matches, and the same lines in them, sees no change.
LEMMA SameMatches ==
    ASSUME NEW c \in Caches, NEW d \in Caches, NEW addr \in Addr,
           Matches(d, addr) = Matches(c, addr),
           \A w \in Matches(c, addr) :
               SetOf(d, addr).lines[w] = SetOf(c, addr).lines[w]
    PROVE  SameLine(c, d, addr)
<1>1. WayOf(d, addr) = WayOf(c, addr)
    BY OneMatch
<1>2. Present(d, addr) <=> Present(c, addr)
    BY <1>1 DEF Present
<1>3. Present(c, addr) => LineOf(d, addr) = LineOf(c, addr)
    BY <1>1, OneMatch DEF LineOf
<1> QED BY <1>2, <1>3 DEF SameLine, GetState, GetSharers, GetData

\* A lookup moves ranks only.
LEMMA LookupSees ==
    ASSUME NEW A, Aligned(A), NEW c, Stores(c, A), NEW addr \in A
    PROVE  /\ Stores(Lookup(c, addr), A)
           /\ \A b \in A : SameLine(c, Lookup(c, addr), b)
<1> DEFINE i == GetSetIndex(addr)
           w == WayOf(c, addr)
           d == Lookup(c, addr)
<1>1. addr \in Addr /\ c \in Caches /\ A \subseteq Addr
    BY DEF Aligned, Stores
<1>2. d \in Caches
    BY <1>1, LookupType
<1>3. \A j \in SetIndex : d[j].lines = c[j].lines
    <2>1. CASE ~Present(c, addr)
        BY <2>1 DEF Lookup
    <2>2. CASE Present(c, addr)
        <3>1. i \in SetIndex /\ w \in Way /\ c[i] \in CacheSets
            BY <1>1, <2>2, HitWay, SetOfType DEF Caches
        <3>2. Touch(c[i], w).lines = c[i].lines
            <4> HIDE DEF i, w
            <4> QED BY <3>1 DEF Touch, CacheSets
        <3>3. d = [c EXCEPT ![i] = Touch(c[i], w)]
            BY <2>2 DEF Lookup
        <3> HIDE DEF i, w, d
        <3> QED BY <1>1, <3>1, <3>2, <3>3 DEF Caches
    <2> QED BY <2>1, <2>2
<1> HIDE DEF d
<1>4. Stores(d, A)
    BY <1>2, <1>3 DEF Stores
<1>5. ASSUME NEW b \in A PROVE SameLine(c, d, b)
    <2>1. SetOf(d, b).lines = SetOf(c, b).lines
        BY <1>1, <1>3, SetOfType DEF SetOf
    <2>2. Matches(d, b) = Matches(c, b)
        BY <2>1 DEF Matches
    <2> QED BY <1>1, <1>2, <2>1, <2>2, SameMatches
<1> QED BY <1>4, <1>5 DEF d

\* Replacing the line an address hits, or one that is not valid, by a line with its
\* tag or by a cleared one.
LEMMA ReplaceSees ==
    ASSUME NEW A, Aligned(A), NEW c, Stores(c, A), NEW addr \in A,
           NEW d \in Caches, NEW w \in Way, NEW line,
           LinesReplaced(c, d, GetSetIndex(addr), w, line),
           IF Present(c, addr) THEN w = WayOf(c, addr)
           ELSE ~IsValid(SetOf(c, addr).lines[w])
    PROVE  /\ (IsValid(line) /\ line.tag = GetTag(addr)) =>
                 Becomes(c, d, A, addr, line.state, line.sharers, line.data)
           /\ ~IsValid(line) =>
                 /\ Stores(d, A)
                 /\ ~Present(d, addr)
                 /\ \A b \in A \ {addr} : SameLine(c, d, b)
<1> DEFINE i == GetSetIndex(addr)
           old == c[i].lines[w]
<1>1. addr \in Addr /\ c \in Caches /\ A \subseteq Addr /\ i \in SetIndex
    BY SetOfType DEF Aligned, Stores
<1>2. \A j \in SetIndex, v \in Way :
          d[j].lines[v] = IF j = i /\ v = w THEN line ELSE c[j].lines[v]
    BY DEF LinesReplaced
<1>3. Matches(c, addr) \subseteq {w}
    BY <1>1, OneMatch DEF Stores, SetOf
<1>4. \A v \in Way : v # w /\ IsValid(c[i].lines[v]) => c[i].lines[v].tag # GetTag(addr)
    BY <1>3 DEF Matches, SetOf
<1>5. IsValid(old) => old.tag = GetTag(addr)
    BY <1>1, HitWay DEF LineOf, SetOf
<1>6. ASSUME NEW b \in A \ {addr}
      PROVE  GetSetIndex(b) # i \/ GetTag(b) # GetTag(addr)
    <2>1. MakeAddr(GetTag(b), GetSetIndex(b)) = b
        BY AlignedAddr DEF Aligned
    <2>2. MakeAddr(GetTag(addr), i) = addr
        BY AlignedAddr DEF Aligned
    <2> HIDE DEF i
    <2> QED BY <2>1, <2>2
<1>7. ASSUME IsValid(line) => line.tag = GetTag(addr), NEW b \in A \ {addr}
      PROVE  SameLine(c, d, b)
    <2>1. b \in Addr /\ GetSetIndex(b) \in SetIndex
        BY <1>1, SetOfType
    <2>2. \A v \in Way : GetSetIndex(b) = i /\ v = w =>
              v \notin Matches(c, b) /\ v \notin Matches(d, b)
        <3> SUFFICES ASSUME GetSetIndex(b) = i
                     PROVE  w \notin Matches(c, b) /\ w \notin Matches(d, b)
            OBVIOUS
        <3>1. SetOf(c, b).lines[w] = old /\ SetOf(d, b).lines[w] = line
            <4> HIDE DEF i
            <4> QED BY <1>1, <1>2 DEF SetOf
        <3>2. GetTag(b) # GetTag(addr)
            BY <1>6
        <3> HIDE DEF old, i
        <3> QED BY <1>5, <1>7, <3>1, <3>2 DEF Matches
    <2>3. \A v \in Way : ~(GetSetIndex(b) = i /\ v = w) =>
              SetOf(d, b).lines[v] = SetOf(c, b).lines[v]
        <3> HIDE DEF i
        <3> QED BY <1>2, <2>1 DEF SetOf
    <2> HIDE DEF i
    <2>4. Matches(d, b) = Matches(c, b)
        BY <2>2, <2>3 DEF Matches
    <2>5. \A v \in Matches(c, b) : SetOf(d, b).lines[v] = SetOf(c, b).lines[v]
        BY <2>2, <2>3 DEF Matches
    <2> QED BY <1>1, <2>1, <2>4, <2>5, SameMatches
<1>8. ASSUME IsValid(line) => line.tag = GetTag(addr)
      PROVE  Stores(d, A)
    <2>1. ASSUME NEW j \in SetIndex PROVE TagsDistinct(d[j].lines)
        <3>1. TagsDistinct(c[j].lines)
            BY DEF Stores
        <3> HIDE DEF i
        <3>2. CASE j # i
            BY <1>2, <3>1, <3>2 DEF TagsDistinct
        <3>3. CASE j = i
            BY <1>2, <1>4, <1>8, <3>1, <3>3 DEF TagsDistinct
        <3> QED BY <3>2, <3>3
    <2>2. ASSUME NEW j \in SetIndex, NEW v \in Way, IsValid(d[j].lines[v])
          PROVE  MakeAddr(d[j].lines[v].tag, j) \in A
        <3>1. MakeAddr(GetTag(addr), i) = addr
            BY AlignedAddr DEF Aligned
        <3> HIDE DEF i
        <3> QED BY <1>2, <1>8, <2>2, <3>1 DEF Stores
    <2> QED BY <2>1, <2>2 DEF Stores
<1>9. \A v \in Way : SetOf(d, addr).lines[v] = IF v = w THEN line ELSE SetOf(c, addr).lines[v]
    <2> HIDE DEF i
    <2> QED BY <1>1, <1>2 DEF SetOf, i
<1>10. ASSUME IsValid(line), line.tag = GetTag(addr)
       PROVE  Becomes(c, d, A, addr, line.state, line.sharers, line.data)
    <2>1. Matches(d, addr) = {w}
        BY <1>3, <1>9, <1>10 DEF Matches
    <2>2. Present(d, addr) /\ WayOf(d, addr) = w
        BY <1>1, <2>1, OneMatch
    <2>3. LineOf(d, addr) = line
        BY <1>9, <2>2 DEF LineOf
    <2> QED BY <1>7, <1>8, <1>10, <2>2, <2>3 DEF Becomes, GetState, GetSharers, GetData
<1>11. ASSUME ~IsValid(line) PROVE ~Present(d, addr)
    <2>1. Matches(d, addr) = {}
        BY <1>3, <1>9, <1>11 DEF Matches
    <2> QED BY <1>1, <2>1, OneMatch
<1> QED BY <1>7, <1>8, <1>10, <1>11

\* Two changes of one line in a row.
LEMMA BecomesTwice ==
    ASSUME NEW A, NEW c, NEW d, NEW e, NEW addr,
           NEW s, NEW n, NEW t, Becomes(c, d, A, addr, s, n, t),
           NEW s2, NEW n2, NEW t2, Becomes(d, e, A, addr, s2, n2, t2)
    PROVE  Becomes(c, e, A, addr, s2, n2, t2)
BY DEF Becomes, SameLine

\* A change of a line that nobody saw, followed by a change.
LEMMA BecomesAfterLookup ==
    ASSUME NEW A, NEW c, NEW d, NEW e, NEW addr, \A b \in A : SameLine(c, d, b),
           NEW s, NEW n, NEW t, Becomes(d, e, A, addr, s, n, t)
    PROVE  Becomes(c, e, A, addr, s, n, t)
BY DEF Becomes, SameLine

\* The updates in place of a line that is there.
LEMMA UpdatesSee ==
    ASSUME NEW A, Aligned(A), NEW c, Stores(c, A), NEW addr \in A, Present(c, addr)
    PROVE  LET s == GetState(c, addr)
               n == GetSharers(c, addr)
               t == GetData(c, addr)
           IN /\ s \in LineState \ {"I"} /\ n \subseteq Nodes /\ t \in Data
              /\ \A m \in Nodes :
                    Becomes(c, AddSharer(c, addr, m), A, addr, s, n \cup {m}, t)
              /\ Becomes(c, ClearSharers(c, addr), A, addr, s, {}, t)
              /\ \A state \in LineState \ {"I"} :
                    Becomes(c, SetState(c, addr, state), A, addr, state, n, t)
<1> DEFINE i == GetSetIndex(addr)
           w == WayOf(c, addr)
           line == c[i].lines[w]
           s == GetState(c, addr)
           n == GetSharers(c, addr)
           t == GetData(c, addr)
<1>1. addr \in Addr /\ c \in Caches
    BY DEF Aligned, Stores
<1>2. w \in Way /\ line \in CacheLine /\ line.tag = GetTag(addr) /\ IsValid(line)
    BY <1>1, HitWay DEF LineOf, SetOf
<1>3. line.state = s /\ line.sharers = n /\ line.data = t
    BY DEF GetState, GetSharers, GetData, LineOf, SetOf
<1> DEFINE Puts(d, new) == d \in Caches /\ LineReplaced(c, d, i, w, new)
<1>4. ASSUME NEW d, NEW new, Puts(d, new), IsValid(new), new.tag = GetTag(addr)
      PROVE  Becomes(c, d, A, addr, new.state, new.sharers, new.data)
    <2>1. LinesReplaced(c, d, i, w, new)
        BY <1>4 DEF LineReplaced, LinesReplaced
    <2> QED BY <1>2, <1>4, <2>1, ReplaceSees
<1>5. s \in LineState \ {"I"} /\ n \subseteq Nodes /\ t \in Data
    <2> HIDE DEF line, s, n, t
    <2> QED BY <1>2, <1>3 DEF CacheLine, IsValid
<1>6. ASSUME NEW m \in Nodes
      PROVE  Becomes(c, AddSharer(c, addr, m), A, addr, s, n \cup {m}, t)
    <2> DEFINE new == [line EXCEPT !.sharers = @ \cup {m}]
    <2>1. Puts(AddSharer(c, addr, m), new)
        BY <1>1, UpdateOnHit
    <2> HIDE DEF line, s, n, t, Puts
    <2>2. /\ new.tag = GetTag(addr) /\ IsValid(new)
          /\ new.state = s /\ new.sharers = n \cup {m} /\ new.data = t
        BY <1>2, <1>3 DEF CacheLine, IsValid
    <2> HIDE DEF new
    <2>3. Becomes(c, AddSharer(c, addr, m), A, addr, new.state, new.sharers, new.data)
        BY <1>4, <2>1, <2>2
    <2> QED BY <2>2, <2>3
<1>7. Becomes(c, ClearSharers(c, addr), A, addr, s, {}, t)
    <2> DEFINE new == [line EXCEPT !.sharers = {}]
    <2>1. Puts(ClearSharers(c, addr), new)
        BY <1>1, UpdateOnHit
    <2> HIDE DEF line, s, n, t, Puts
    <2>2. /\ new.tag = GetTag(addr) /\ IsValid(new)
          /\ new.state = s /\ new.sharers = {} /\ new.data = t
        BY <1>2, <1>3 DEF CacheLine, IsValid
    <2> HIDE DEF new
    <2>3. Becomes(c, ClearSharers(c, addr), A, addr, new.state, new.sharers, new.data)
        BY <1>4, <2>1, <2>2
    <2> QED BY <2>2, <2>3
<1>8. ASSUME NEW state \in LineState \ {"I"}
      PROVE  Becomes(c, SetState(c, addr, state), A, addr, state, n, t)
    <2> DEFINE new == [line EXCEPT !.state = state]
    <2>1. Puts(SetState(c, addr, state), new)
        BY <1>1, UpdateOnHit
    <2> HIDE DEF line, s, n, t, Puts
    <2>2. /\ new.tag = GetTag(addr) /\ IsValid(new)
          /\ new.state = state /\ new.sharers = n /\ new.data = t
        BY <1>2, <1>3 DEF CacheLine, IsValid
    <2> HIDE DEF new
    <2>3. Becomes(c, SetState(c, addr, state), A, addr, new.state, new.sharers, new.data)
        BY <1>4, <2>1, <2>2
    <2> QED BY <2>2, <2>3
<1> QED BY <1>5, <1>6, <1>7, <1>8

\* An invalidated line has gone, and the others are as they were.
LEMMA InvalidateSees ==
    ASSUME NEW A, Aligned(A), NEW c, Stores(c, A), NEW addr \in A, Present(c, addr)
    PROVE  /\ Stores(Invalidate(c, addr), A)
           /\ ~Present(Invalidate(c, addr), addr)
           /\ \A b \in A \ {addr} : SameLine(c, Invalidate(c, addr), b)
<1> DEFINE d == Invalidate(c, addr)
<1>1. addr \in Addr /\ c \in Caches
    BY DEF Aligned, Stores
<1>2. d \in Caches /\ LineReplaced(c, d, GetSetIndex(addr), WayOf(c, addr), ClearedLine)
    BY <1>1, UpdateOnHit
<1>3. LinesReplaced(c, d, GetSetIndex(addr), WayOf(c, addr), ClearedLine)
    BY <1>2 DEF LineReplaced, LinesReplaced
<1>4. WayOf(c, addr) \in Way /\ ~IsValid(ClearedLine)
    BY <1>1, HitWay DEF IsValid, ClearedLine
<1> HIDE DEF d
<1>5. /\ Stores(d, A)
      /\ ~Present(d, addr)
      /\ \A b \in A \ {addr} : SameLine(c, d, b)
    BY <1>2, <1>3, <1>4, ReplaceSees
<1> QED BY <1>5 DEF d

\* A fill of a line that is there or finds a free way.
LEMMA FillSees ==
    ASSUME NEW A, Aligned(A), NEW c, Stores(c, A), NEW addr \in A,
           Present(c, addr) \/ FindInvalid(SetOf(c, addr)) # NoWay,
           NEW state \in LineState \ {"I"}, NEW data \in Data
    PROVE  Becomes(c, Fill(c, addr, state, data), A, addr, state,
                   GetSharers(c, addr), data)
<1> DEFINE i == GetSetIndex(addr)
           w == FillWay(c, addr)
           line == [tag |-> GetTag(addr), state |-> state, data |-> data,
                    sharers |-> GetSharers(c, addr)]
           mid == WithLine(c[i], w, line)
           d == Fill(c, addr, state, data)
           free == {v \in Way : ~IsValid(SetOf(c, addr).lines[v])}
<1>1. addr \in Addr /\ c \in Caches
    BY DEF Aligned, Stores
<1>2. i \in SetIndex /\ w \in Way /\ c[i] \in CacheSets
    BY <1>1, FillWayType, SetOfType DEF Caches
<1>3. \A v \in Way : Touch(mid, w).lines[v] = IF v = w THEN line ELSE c[i].lines[v]
    <2> HIDE DEF i, w, line
    <2> QED BY <1>2 DEF Touch, WithLine, CacheSets
<1>4. d = [c EXCEPT ![i] = Touch(mid, w)]
    BY DEF Fill
<1>5. LinesReplaced(c, d, i, w, line)
    <2> HIDE DEF i, w, line, mid, d
    <2> QED BY <1>1, <1>2, <1>3, <1>4 DEF Caches, LinesReplaced
<1>6. d \in Caches
    BY <1>1, FillType
<1>7. CASE Present(c, addr)
    <2>1. w = WayOf(c, addr)
        BY <1>7 DEF FillWay
    <2>2. IsValid(line) /\ line.tag = GetTag(addr) /\ line.state = state
            /\ line.sharers = GetSharers(c, addr) /\ line.data = data
        BY DEF IsValid
    <2> HIDE DEF w, line, d
    <2>3. Becomes(c, d, A, addr, line.state, line.sharers, line.data)
        BY <1>2, <1>5, <1>6, <1>7, <2>1, <2>2, ReplaceSees
    <2> QED BY <2>2, <2>3 DEF d
<1>8. CASE ~Present(c, addr)
    <2>1. w = FirstWay(free) /\ FirstWay(free) # NoWay
        BY <1>8 DEF FillWay, FindInvalid
    <2>2. w \in free
        BY <2>1, FirstWayType
    <2>3. ~IsValid(SetOf(c, addr).lines[w])
        BY <2>2
    <2>4. IsValid(line) /\ line.tag = GetTag(addr) /\ line.state = state
            /\ line.sharers = GetSharers(c, addr) /\ line.data = data
        BY DEF IsValid
    <2> HIDE DEF w, line, d
    <2>5. Becomes(c, d, A, addr, line.state, line.sharers, line.data)
        BY <1>2, <1>5, <1>6, <1>8, <2>3, <2>4, ReplaceSees
    <2> QED BY <2>4, <2>5 DEF d
<1> QED BY <1>7, <1>8

\* The lines of A fit: no set has to hold more of them than it has ways.
Fits(A) ==
    \A i \in SetIndex :
        LET lines == {addr \in A : GetSetIndex(addr) = i}
        IN IsFiniteSet(lines) /\ Cardinality(lines) <= NumWays

\* When the lines fit, a miss finds a free way.
LEMMA RoomForMiss ==
    ASSUME NEW A, Aligned(A), Fits(A), NEW c, Stores(c, A), NEW addr \in A,
           ~Present(c, addr)
    PROVE  /\ FindInvalid(SetOf(c, addr)) # NoWay
           /\ LookupResult(c, addr) = "Miss"
<1> DEFINE i == GetSetIndex(addr)
           lines == {b \in A : GetSetIndex(b) = i}
           others == lines \ {addr}
           f == [w \in Way |-> MakeAddr(c[i].lines[w].tag, i)]
           free == {v \in Way : ~IsValid(SetOf(c, addr).lines[v])}
<1>1. addr \in Addr /\ c \in Caches /\ i \in SetIndex /\ c[i] \in CacheSets
    BY SetOfType DEF Aligned, Stores, Caches
<1>2. SUFFICES ASSUME FindInvalid(SetOf(c, addr)) = NoWay PROVE FALSE
    BY DEF LookupResult
<1>3. \A w \in Way : IsValid(c[i].lines[w])
    <2>1. free = {}
        <3>1. free \in SUBSET Way /\ FirstWay(free) = NoWay
            BY <1>2 DEF FindInvalid
        <3>2. NoWay \notin free
            BY NumWaysAssumption DEF NoWay, Way
        <3> HIDE DEF free
        <3> QED BY <3>1, <3>2, FirstWayType
    <2> QED BY <2>1 DEF SetOf
<1>4. \A w \in Way : c[i].lines[w].tag \in Nat
    BY <1>1 DEF CacheSets, CacheLine
<1>5. \A w \in Way : f[w] \in A /\ GetSetIndex(f[w]) = i /\ GetTag(f[w]) = c[i].lines[w].tag
    <2> HIDE DEF i
    <2> QED BY <1>1, <1>3, <1>4, MakeAddrRoundTrip DEF Stores
<1>6. \A w \in Way : f[w] # addr
    <2>1. \A w \in Way : c[i].lines[w].tag # GetTag(addr)
        BY <1>1, <1>3, MissTag DEF SetOf
    <2> HIDE DEF f, i
    <2> QED BY <1>5, <2>1
<1>7. f \in Injection(Way, others)
    <2>1. f \in [Way -> others]
        <3> HIDE DEF i
        <3> QED BY <1>5, <1>6
    <2>2. \A v, w \in Way : f[v] = f[w] => v = w
        <3>1. TagsDistinct(c[i].lines)
            BY <1>1 DEF Stores
        <3> HIDE DEF f, i
        <3> QED BY <1>3, <1>5, <3>1 DEF TagsDistinct
    <2> HIDE DEF f, others
    <2> QED BY <2>1, <2>2 DEF Injection, IsInjective
<1>8. IsFiniteSet(lines) /\ Cardinality(lines) <= NumWays
    BY <1>1 DEF Fits
<1>9. addr \in lines
    OBVIOUS
<1>10. IsFiniteSet(others) /\ Cardinality(others) = Cardinality(lines) - 1
        /\ Cardinality(lines) \in Nat
    <2> HIDE DEF lines
    <2> QED BY <1>8, <1>9, FS_RemoveElement, FS_CardinalityType
<1>11. Cardinality(Way) = NumWays
    BY NumWaysAssumption, FS_Interval DEF Way
<1>12. Cardinality(Way) <= Cardinality(others)
    <2> HIDE DEF f, others
    <2> QED BY <1>7, <1>10, FS_Injection
<1> HIDE DEF others, lines
<1> QED BY <1>8, <1>10, <1>11, <1>12, NumWaysAssumption
=============================================================================
