-------------------------- MODULE L2CacheStoreProofs --------------------------
(***************************************************************************)
(* The invariants of the cache on its own, and that the array of ways with *)
(* ranks implements RecencyCache, for every number of sets, ways, nodes    *)
(* and addresses.  The inductive invariant adds to the property wanted     *)
(* what the scans rely on: no two valid lines of a set have the same tag.  *)
(* The initial states map to initial states of RecencyCache, and every     *)
(* call to one of its steps.                                               *)
(***************************************************************************)
EXTENDS MCL2CacheStore, L2CacheProofs

SoundSet(set) == RanksDistinct(set.lru) /\ TagsDistinct(set.lines)

SoundCache(c) == c \in Caches /\ \A i \in SetIndex : SoundSet(c[i])

\* Replacing the line that an address hits keeps a cache sound when the new line
\* has the address's tag or is invalid.
LEMMA ReplacedHitSound ==
    ASSUME NEW c, SoundCache(c), NEW addr \in Addr, Present(c, addr),
           NEW d \in Caches, NEW line \in CacheLine,
           line.tag = GetTag(addr) \/ ~IsValid(line),
           LineReplaced(c, d, GetSetIndex(addr), WayOf(c, addr), line)
    PROVE  SoundCache(d)
<1> DEFINE i == GetSetIndex(addr)
           w == WayOf(c, addr)
<1>1. c \in Caches
    BY DEF SoundCache
<1>2. i \in SetIndex /\ w \in Way
    BY <1>1, HitWay, SetOfType
<1>3. IsValid(c[i].lines[w]) /\ c[i].lines[w].tag = GetTag(addr)
    BY <1>1, HitWay DEF LineOf, SetOf
<1>4. ASSUME NEW j \in SetIndex PROVE SoundSet(d[j])
    <2>1. RanksDistinct(d[j].lru)
        BY DEF LineReplaced, SoundCache, SoundSet
    <2>2. TagsDistinct(c[j].lines)
        BY DEF SoundCache, SoundSet
    <2>3. \A v \in Way : d[j].lines[v] = IF j = i /\ v = w THEN line
                                         ELSE c[j].lines[v]
        BY DEF LineReplaced
    <2>4. TagsDistinct(d[j].lines)
        <3> HIDE DEF i, w
        <3> QED BY <1>2, <1>3, <2>2, <2>3 DEF TagsDistinct
    <2> QED BY <2>1, <2>4 DEF SoundSet
<1> QED BY <1>4 DEF SoundCache

\* The updates in place keep a cache sound.
LEMMA UpdatesSound ==
    ASSUME NEW c, SoundCache(c), NEW addr \in Addr
    PROVE  /\ \A n \in Nodes : SoundCache(AddSharer(c, addr, n))
           /\ \A n \in Nodes : SoundCache(RemoveSharer(c, addr, n))
           /\ SoundCache(ClearSharers(c, addr))
           /\ \A state \in LineState : SoundCache(SetState(c, addr, state))
           /\ \A data \in Data : SoundCache(WriteData(c, addr, data))
           /\ SoundCache(Invalidate(c, addr))
<1>1. CASE ~Present(c, addr)
    BY <1>1 DEF AddSharer, RemoveSharer, ClearSharers, SetState, WriteData,
                Invalidate
<1>2. CASE Present(c, addr)
    <2> DEFINE line == c[GetSetIndex(addr)].lines[WayOf(c, addr)]
    <2>1. c \in Caches
        BY DEF SoundCache
    <2>2. line \in CacheLine /\ line.tag = GetTag(addr)
        BY <1>2, <2>1, HitWay DEF LineOf, SetOf
    <2> HIDE DEF line
    <2>3. ASSUME NEW n \in Nodes PROVE SoundCache(AddSharer(c, addr, n))
        <3> DEFINE new == [line EXCEPT !.sharers = @ \cup {n}]
        <3>1. new \in CacheLine /\ new.tag = GetTag(addr)
            BY <2>2 DEF CacheLine
        <3>2. /\ AddSharer(c, addr, n) \in Caches
              /\ LineReplaced(c, AddSharer(c, addr, n), GetSetIndex(addr),
                              WayOf(c, addr), new)
            BY <1>2, <2>1, UpdateOnHit DEF line
        <3> QED BY <1>2, <3>1, <3>2, ReplacedHitSound
    <2>4. ASSUME NEW n \in Nodes PROVE SoundCache(RemoveSharer(c, addr, n))
        <3> DEFINE new == [line EXCEPT !.sharers = @ \ {n}]
        <3>1. new \in CacheLine /\ new.tag = GetTag(addr)
            BY <2>2 DEF CacheLine
        <3>2. /\ RemoveSharer(c, addr, n) \in Caches
              /\ LineReplaced(c, RemoveSharer(c, addr, n), GetSetIndex(addr),
                              WayOf(c, addr), new)
            BY <1>2, <2>1, UpdateOnHit DEF line
        <3> QED BY <1>2, <3>1, <3>2, ReplacedHitSound
    <2>5. SoundCache(ClearSharers(c, addr))
        <3> DEFINE new == [line EXCEPT !.sharers = {}]
        <3>1. new \in CacheLine /\ new.tag = GetTag(addr)
            BY <2>2 DEF CacheLine
        <3>2. /\ ClearSharers(c, addr) \in Caches
              /\ LineReplaced(c, ClearSharers(c, addr), GetSetIndex(addr),
                              WayOf(c, addr), new)
            BY <1>2, <2>1, UpdateOnHit DEF line
        <3> QED BY <1>2, <3>1, <3>2, ReplacedHitSound
    <2>6. ASSUME NEW state \in LineState
          PROVE  SoundCache(SetState(c, addr, state))
        <3> DEFINE new == [line EXCEPT !.state = state]
        <3>1. new \in CacheLine /\ new.tag = GetTag(addr)
            BY <2>2 DEF CacheLine
        <3>2. /\ SetState(c, addr, state) \in Caches
              /\ LineReplaced(c, SetState(c, addr, state), GetSetIndex(addr),
                              WayOf(c, addr), new)
            BY <1>2, <2>1, UpdateOnHit DEF line
        <3> QED BY <1>2, <3>1, <3>2, ReplacedHitSound
    <2>7. ASSUME NEW data \in Data PROVE SoundCache(WriteData(c, addr, data))
        <3> DEFINE new == [line EXCEPT !.data = data]
        <3>1. new \in CacheLine /\ new.tag = GetTag(addr)
            BY <2>2 DEF CacheLine
        <3>2. /\ WriteData(c, addr, data) \in Caches
              /\ LineReplaced(c, WriteData(c, addr, data), GetSetIndex(addr),
                              WayOf(c, addr), new)
            BY <1>2, <2>1, UpdateOnHit DEF line
        <3> QED BY <1>2, <3>1, <3>2, ReplacedHitSound
    <2>8. SoundCache(Invalidate(c, addr))
        <3>1. ClearedLine \in CacheLine /\ ~IsValid(ClearedLine)
            BY DataAssumption DEF ClearedLine, CacheLine, LineState, IsValid
        <3>2. /\ Invalidate(c, addr) \in Caches
              /\ LineReplaced(c, Invalidate(c, addr), GetSetIndex(addr),
                              WayOf(c, addr), ClearedLine)
            BY <1>2, <2>1, UpdateOnHit
        <3> QED BY <1>2, <3>1, <3>2, ReplacedHitSound
    <2> QED BY <2>3, <2>4, <2>5, <2>6, <2>7, <2>8
<1> QED BY <1>1, <1>2

\* A lookup keeps a cache sound.
LEMMA LookupSound ==
    ASSUME NEW c, SoundCache(c), NEW addr \in Addr
    PROVE  SoundCache(Lookup(c, addr))
<1> DEFINE i == GetSetIndex(addr)
           w == WayOf(c, addr)
<1>1. c \in Caches
    BY DEF SoundCache
<1>2. CASE ~Present(c, addr)
    BY <1>2 DEF Lookup
<1>3. CASE Present(c, addr)
    <2>1. i \in SetIndex /\ w \in Way /\ c[i] \in CacheSets
        BY <1>1, <1>3, HitWay, SetOfType DEF Caches
    <2>2. SoundSet(Touch(c[i], w))
        <3>1. RanksDistinct(c[i].lru) /\ TagsDistinct(c[i].lines)
            BY <2>1 DEF SoundCache, SoundSet
        <3>2. RanksDistinct(TouchedRanks(c[i].lru, w))
            <4> HIDE DEF i, w
            <4> QED BY <2>1, <3>1, TouchKeepsRanksDistinct DEF CacheSets
        <3>3. /\ Touch(c[i], w).lru = TouchedRanks(c[i].lru, w)
              /\ Touch(c[i], w).lines = c[i].lines
            <4> HIDE DEF i, w
            <4> QED BY <2>1 DEF Touch, CacheSets
        <3> QED BY <3>1, <3>2, <3>3 DEF SoundSet
    <2>3. Lookup(c, addr) = [c EXCEPT ![i] = Touch(c[i], w)]
        BY <1>3 DEF Lookup
    <2>4. \A j \in SetIndex : SoundSet(Lookup(c, addr)[j])
        <3> HIDE DEF i, w
        <3> QED BY <1>1, <2>1, <2>2, <2>3 DEF SoundCache, Caches
    <2> QED BY <1>1, <2>4, LookupType DEF SoundCache
<1> QED BY <1>2, <1>3

\* A fill keeps a cache sound: it never makes a second copy of a tag.
LEMMA FillSound ==
    ASSUME NEW c, SoundCache(c), NEW addr \in Addr,
           NEW state \in LineState, NEW data \in Data
    PROVE  SoundCache(Fill(c, addr, state, data))
<1> DEFINE i == GetSetIndex(addr)
           w == FillWay(c, addr)
           line == [tag |-> GetTag(addr), state |-> state, data |-> data,
                    sharers |-> GetSharers(c, addr)]
           mid == WithLine(c[i], w, line)
<1>1. c \in Caches
    BY DEF SoundCache
<1>2. i \in SetIndex /\ w \in Way /\ c[i] \in CacheSets
    BY <1>1, FillWayType, SetOfType DEF Caches
<1>3. line.tag = GetTag(addr)
    OBVIOUS
<1>4. \A v \in Way \ {w} : IsValid(c[i].lines[v]) => c[i].lines[v].tag # GetTag(addr)
    <2>1. CASE Present(c, addr)
        <3>1. w = WayOf(c, addr)
            BY <2>1 DEF FillWay
        <3>2. IsValid(c[i].lines[w]) /\ c[i].lines[w].tag = GetTag(addr)
            BY <1>1, <2>1, <3>1, HitWay DEF LineOf, SetOf
        <3>3. TagsDistinct(c[i].lines)
            BY <1>2 DEF SoundCache, SoundSet
        <3> HIDE DEF i, w
        <3> QED BY <1>2, <3>2, <3>3 DEF TagsDistinct
    <2>2. CASE ~Present(c, addr)
        BY <1>1, <2>2, MissTag DEF SetOf
    <2> QED BY <2>1, <2>2
<1>5. mid.lru = c[i].lru /\ mid.lines = [c[i].lines EXCEPT ![w] = line]
    <2> HIDE DEF i, w, line
    <2> QED BY <1>2 DEF WithLine, CacheSets
<1>6. TagsDistinct(mid.lines)
    <2>1. TagsDistinct(c[i].lines)
        BY <1>2 DEF SoundCache, SoundSet
    <2>2. \A v \in Way : mid.lines[v] = IF v = w THEN line ELSE c[i].lines[v]
        <3> HIDE DEF i, w, line, mid
        <3> QED BY <1>2, <1>5 DEF CacheSets
    <2> HIDE DEF i, w, line, mid
    <2> QED BY <1>2, <1>3, <1>4, <2>1, <2>2 DEF TagsDistinct
<1>7. RanksDistinct(TouchedRanks(mid.lru, w))
    <2>1. RanksDistinct(c[i].lru) /\ c[i].lru \in [Way -> Way]
        BY <1>2 DEF SoundCache, SoundSet, CacheSets
    <2> HIDE DEF i, w, mid
    <2> QED BY <1>2, <1>5, <2>1, TouchKeepsRanksDistinct
<1>8. SoundSet(Touch(mid, w))
    <2>1. /\ Touch(mid, w).lru = TouchedRanks(mid.lru, w)
          /\ Touch(mid, w).lines = mid.lines
        <3>1. mid = [c[i] EXCEPT !.lines = mid.lines]
            <4> HIDE DEF i, w, line
            <4> QED BY <1>2 DEF WithLine, CacheSets
        <3> HIDE DEF i, w, mid
        <3> QED BY <1>2, <3>1 DEF Touch, CacheSets
    <2> QED BY <1>6, <1>7, <2>1 DEF SoundSet
<1>9. Fill(c, addr, state, data) = [c EXCEPT ![i] = Touch(mid, w)]
    BY DEF Fill
<1>10. \A j \in SetIndex : SoundSet(Fill(c, addr, state, data)[j])
    <2> HIDE DEF i, w, mid
    <2> QED BY <1>1, <1>2, <1>8, <1>9 DEF SoundCache, Caches
<1> QED BY <1>1, <1>10, FillType DEF SoundCache

-----------------------------------------------------------------------------
(* The invariants of the state machine *)

Inv ==
    /\ SoundCache(cache)
    /\ resp.result \in {"None", "Hit", "Miss", "MissEvictDirty"}

\* The empty cache is sound.
LEMMA InitInv == Init => Inv
<1> SUFFICES ASSUME Init PROVE Inv
    OBVIOUS
<1>1. ClearedLine \in CacheLine /\ ~IsValid(ClearedLine)
    BY DataAssumption DEF ClearedLine, CacheLine, LineState, IsValid
<1>2. EmptySet \in CacheSets
    BY <1>1 DEF EmptySet, CacheSets
<1>3. SoundSet(EmptySet)
    BY <1>1 DEF EmptySet, SoundSet, RanksDistinct, TagsDistinct
<1>4. SoundCache(cache)
    BY <1>2, <1>3 DEF Init, EmptyCache, SoundCache, Caches
<1> QED BY <1>4 DEF Init, Inv, NoResp

\* Every call of the interface keeps the invariant.
LEMMA NextInv == Inv /\ [Next]_vars => Inv'
<1> SUFFICES ASSUME Inv, [Next]_vars PROVE Inv'
    OBVIOUS
<1>1. SoundCache(cache)
    BY DEF Inv
<1>2. ASSUME NEW a \in Addrs, DoLookup(a) PROVE Inv'
    <2>1. a \in Addr
        BY AddrsAssumption
    <2>2. SoundCache(cache')
        BY <1>1, <1>2, <2>1, LookupSound DEF DoLookup
    <2>3. resp'.result \in {"Hit", "Miss", "MissEvictDirty"}
        BY <1>2 DEF DoLookup, LookupResponse, LookupResult
    <2> QED BY <2>2, <2>3 DEF Inv
<1>3. ASSUME NEW a \in Addrs, NEW state \in States, NEW data \in Data,
             DoFill(a, state, data)
      PROVE  Inv'
    <2>1. a \in Addr /\ state \in LineState
        BY AddrsAssumption, StatesAssumption
    <2>2. SoundCache(cache')
        BY <1>1, <1>3, <2>1, FillSound DEF DoFill
    <2> QED BY <1>3, <2>2 DEF Inv, DoFill, NoResp
<1>4. ASSUME NEW a \in Addrs, resp' = NoResp,
             \/ \E n \in Nodes : DoAddSharer(a, n)
             \/ \E n \in Nodes : DoRemoveSharer(a, n)
             \/ DoClearSharers(a)
             \/ \E state \in States : DoSetState(a, state)
             \/ \E data \in Data : DoWriteData(a, data)
             \/ DoInvalidate(a)
      PROVE  Inv'
    <2>1. a \in Addr /\ States \subseteq LineState
        BY AddrsAssumption, StatesAssumption
    <2>2. SoundCache(cache')
        BY <1>1, <1>4, <2>1, UpdatesSound
           DEF DoAddSharer, DoRemoveSharer, DoClearSharers, DoSetState,
               DoWriteData, DoInvalidate
    <2> QED BY <1>4, <2>2 DEF Inv, NoResp
<1>5. CASE UNCHANGED vars
    BY <1>5 DEF Inv, vars
<1>6. CASE Next
    BY <1>2, <1>3, <1>4, <1>6
       DEF Next, DoAddSharer, DoRemoveSharer, DoClearSharers, DoSetState,
           DoWriteData, DoInvalidate
<1> QED BY <1>5, <1>6

\* In every reachable state all lines and ranks of the cache are sound: distinct
\* ranks within a set and distinct tags among its valid lines.
LEMMA Invariance == Spec => []Inv
BY InitInv, NextInv, PTL DEF Spec

\* The cache keeps its type whatever is called on it.
THEOREM TypeCorrect == Spec => []TypeOK
<1>1. Inv => TypeOK
    BY DEF Inv, TypeOK, SoundCache
<1> QED BY <1>1, Invariance, PTL

\* No sequence of calls gives two ways of a set the same rank, so victimWay()
\* always finds one least recently used way.
THEOREM RanksStayAPermutation == Spec => []LruIsPermutation
<1>1. Inv => LruIsPermutation
    BY DEF Inv, LruIsPermutation, SoundCache, SoundSet, RanksDistinct
<1> QED BY <1>1, Invariance, PTL

\* lookup() finds every valid line, and finds it in its own way, under the
\* address that eviction and write-back code rebuild from tag and set index.
THEOREM LinesStayReachable == Spec => []EveryLineReachable
<1>1. ASSUME Inv, NEW i \in SetIndex, NEW w \in Way, IsValid(cache[i].lines[w])
      PROVE  LET a == MakeAddr(cache[i].lines[w].tag, i)
             IN GetSetIndex(a) = i /\ WayOf(cache, a) = w
    <2> DEFINE tag == cache[i].lines[w].tag
               a == MakeAddr(tag, i)
    <2>1. tag \in Nat /\ TagsDistinct(cache[i].lines)
        BY <1>1 DEF Inv, SoundCache, SoundSet, Caches, CacheSets, CacheLine
    <2>2. a \in Addr /\ GetSetIndex(a) = i /\ GetTag(a) = tag
        <3> HIDE DEF tag
        <3> QED BY <2>1, MakeAddrRoundTrip
    <2>3. Present(cache, a)
        <3> HIDE DEF a
        <3>1. cache \in Caches
            BY <1>1 DEF Inv, SoundCache
        <3> QED BY <1>1, <2>2, <3>1, MissTag DEF SetOf
    <2>4. WayOf(cache, a) \in Way /\ IsValid(cache[i].lines[WayOf(cache, a)])
              /\ cache[i].lines[WayOf(cache, a)].tag = tag
        <3> HIDE DEF a
        <3>1. cache \in Caches
            BY <1>1 DEF Inv, SoundCache
        <3> QED BY <2>2, <2>3, <3>1, HitWay DEF LineOf, SetOf
    <2>5. WayOf(cache, a) = w
        BY <1>1, <2>1, <2>4 DEF TagsDistinct
    <2> QED BY <2>2, <2>5
<1>2. Inv => EveryLineReachable
    BY <1>1 DEF EveryLineReachable
<1> QED BY <1>2, Invariance, PTL

-----------------------------------------------------------------------------
(* The refinement mapping for any cache value. *)

RankIn(c, a) == SetOf(c, a).lru[WayOf(c, a)]

HeldIn(c) == {a \in Addrs : Present(c, a)}

OlderIn(c) ==
    {p \in HeldIn(c) \X HeldIn(c) :
        GetSetIndex(p[1]) = GetSetIndex(p[2]) /\ RankIn(c, p[1]) < RankIn(c, p[2])}

Carried(line) == [state |-> line.state, data |-> line.data, sharers |-> line.sharers]

ContentIn(c) ==
    [a \in Addrs |-> IF Present(c, a) THEN Carried(LineOf(c, a)) ELSE NotHeld]

PeersIn(c, a) == {b \in HeldIn(c) : GetSetIndex(b) = GetSetIndex(a)}

\* Valid lines are lines of addresses that are used, in states that are used.
LinesInUse(c) ==
    \A i \in SetIndex, w \in Way :
        IsValid(c[i].lines[w]) =>
            /\ MakeAddr(c[i].lines[w].tag, i) \in Addrs
            /\ c[i].lines[w].state \in States

\* The inductive invariant, with Inv: all of a state that the mapping looks at.
RInv == Inv /\ LinesInUse(cache)

\* The mapping for any value is the mapping of the instance.
LEMMA MappingIs ==
    /\ OlderUse = OlderIn(cache)
    /\ HeldContent = ContentIn(cache)
    /\ OlderUse' = OlderIn(cache')
    /\ HeldContent' = ContentIn(cache')
<1>1. OlderUse = OlderIn(cache) /\ OlderUse' = OlderIn(cache')
    BY DEF OlderUse, OlderIn, HeldIn, Rank, RankIn
<1>2. HeldContent = ContentIn(cache) /\ HeldContent' = ContentIn(cache')
    BY DEF HeldContent, ContentIn, Carried
<1> QED BY <1>1, <1>2

-----------------------------------------------------------------------------
(* Addresses and ways *)

\* Division with remainder.
LEMMA DivMod ==
    ASSUME NEW n \in Nat, NEW k \in Nat \ {0}
    PROVE  n \div k \in Nat /\ (n \div k) * k + (n % k) = n
OBVIOUS

\* A line address is made of its tag and set index.
LEMMA AddrRebuilt ==
    ASSUME NEW a \in Addrs
    PROVE  /\ a \in Addr
           /\ GetSetIndex(a) \in SetIndex
           /\ GetTag(a) \in Nat
           /\ MakeAddr(GetTag(a), GetSetIndex(a)) = a
<1>1. a \in Nat /\ a % LineSize = 0
    BY AddrsAssumption DEF Addr
<1> DEFINE q == a \div LineSize
           t == q \div NumSets
           m == q % NumSets
<1>2. q \in Nat /\ q * LineSize + (a % LineSize) = a
    BY <1>1, DivMod, LineSizeAssumption
<1>3. q * LineSize = a
    <2> HIDE DEF q
    <2> QED BY <1>1, <1>2, LineSizeAssumption
<1>4. t * NumSets + m = q
    <2> HIDE DEF q
    <2> QED BY <1>2, DivMod, NumSetsAssumption
<1>5. MakeAddr(GetTag(a), GetSetIndex(a)) = (t * NumSets + m) * LineSize
    BY DEF MakeAddr, GetTag, GetSetIndex
<1>6. MakeAddr(GetTag(a), GetSetIndex(a)) = a
    <2> HIDE DEF q, t, m
    <2> QED BY <1>3, <1>4, <1>5
<1> QED BY <1>1, <1>6, AddrTypes DEF Addr

\* Two line addresses with one tag and one set index are the same.
LEMMA SameAddr ==
    ASSUME NEW a \in Addrs, NEW b \in Addrs,
           GetTag(a) = GetTag(b), GetSetIndex(a) = GetSetIndex(b)
    PROVE  a = b
BY AddrRebuilt

\* The way of an address is the one that holds a valid line with its tag.
LEMMA TheWay ==
    ASSUME NEW c, SoundCache(c), NEW a \in Addr
    PROVE  /\ Present(c, a) =>
                 /\ WayOf(c, a) \in Way
                 /\ IsValid(c[GetSetIndex(a)].lines[WayOf(c, a)])
                 /\ c[GetSetIndex(a)].lines[WayOf(c, a)].tag = GetTag(a)
                 /\ LineOf(c, a) = c[GetSetIndex(a)].lines[WayOf(c, a)]
                 /\ LineOf(c, a) \in CacheLine
           /\ \A w \in Way :
                 /\ IsValid(c[GetSetIndex(a)].lines[w])
                 /\ c[GetSetIndex(a)].lines[w].tag = GetTag(a)
                 => Present(c, a) /\ WayOf(c, a) = w
<1>1. c \in Caches /\ GetSetIndex(a) \in SetIndex
    BY SetOfType DEF SoundCache
<1>2. TagsDistinct(c[GetSetIndex(a)].lines)
    BY <1>1 DEF SoundCache, SoundSet
<1>3. Present(c, a) =>
         /\ WayOf(c, a) \in Way
         /\ IsValid(c[GetSetIndex(a)].lines[WayOf(c, a)])
         /\ c[GetSetIndex(a)].lines[WayOf(c, a)].tag = GetTag(a)
         /\ LineOf(c, a) = c[GetSetIndex(a)].lines[WayOf(c, a)]
         /\ LineOf(c, a) \in CacheLine
    BY <1>1, HitWay DEF LineOf, SetOf
<1>4. ASSUME NEW w \in Way, IsValid(c[GetSetIndex(a)].lines[w]),
             c[GetSetIndex(a)].lines[w].tag = GetTag(a)
      PROVE  Present(c, a) /\ WayOf(c, a) = w
    <2>1. Present(c, a)
        BY <1>1, <1>4, MissTag DEF SetOf
    <2> QED BY <1>2, <1>3, <1>4, <2>1 DEF TagsDistinct
<1> QED BY <1>3, <1>4

\* What is held, seen from the abstract side.
LEMMA HeldMeansPresent ==
    ASSUME RInv, NEW a \in Addrs
    PROVE  /\ Recency!Held(a) <=> Present(cache, a)
           /\ Recency!Companions(a) = PeersIn(cache, a)
<1>1. \A b \in Addrs : HeldContent[b] # NotHeld <=> Present(cache, b)
    <2> TAKE b \in Addrs
    <2>1. HeldContent[b] = IF Present(cache, b) THEN Carried(LineOf(cache, b)) ELSE NotHeld
        BY MappingIs DEF ContentIn
    <2>2. Present(cache, b) => LineOf(cache, b).state # "I"
        BY AddrRebuilt, TheWay DEF RInv, Inv, IsValid
    <2>3. Present(cache, b) => Carried(LineOf(cache, b)).state # NotHeld.state
        BY <2>2 DEF Carried, NotHeld
    <2> QED BY <2>1, <2>3
<1> QED BY <1>1 DEF Recency!Held, Recency!Companions, PeersIn, HeldIn

-----------------------------------------------------------------------------
(* Full sets *)

\* As many lines are held as ways are valid, so the set is full when no way is free.
LEMMA FullMeansNoFreeWay ==
    ASSUME RInv, NEW a \in Addrs
    PROVE  /\ Recency!Full(a) <=> FindInvalid(SetOf(cache, a)) = NoWay
           /\ FindInvalid(SetOf(cache, a)) # NoWay =>
                 /\ FindInvalid(SetOf(cache, a)) \in Way
                 /\ ~IsValid(SetOf(cache, a).lines[FindInvalid(SetOf(cache, a))])
           /\ FindInvalid(SetOf(cache, a)) = NoWay =>
                 \A w \in Way : IsValid(SetOf(cache, a).lines[w])
<1> DEFINE i == GetSetIndex(a)
           used == {w \in Way : IsValid(cache[i].lines[w])}
           free == {w \in Way : ~IsValid(cache[i].lines[w])}
           f == [b \in PeersIn(cache, a) |-> WayOf(cache, b)]
<1>1. SoundCache(cache) /\ cache \in Caches /\ i \in SetIndex /\ LinesInUse(cache)
    BY AddrRebuilt DEF RInv, Inv, SoundCache
<1>2. \A b \in PeersIn(cache, a) :
          /\ b \in Addrs /\ Present(cache, b) /\ GetSetIndex(b) = i
          /\ WayOf(cache, b) \in Way
          /\ IsValid(cache[i].lines[WayOf(cache, b)])
          /\ cache[i].lines[WayOf(cache, b)].tag = GetTag(b)
    BY <1>1, AddrRebuilt, TheWay DEF PeersIn, HeldIn
<1>3. f \in [PeersIn(cache, a) -> used]
    BY <1>2
<1>4. \A b1, b2 \in PeersIn(cache, a) : f[b1] = f[b2] => b1 = b2
    BY <1>2, SameAddr
<1>5. ASSUME NEW w \in used PROVE \E b \in PeersIn(cache, a) : f[b] = w
    <2> DEFINE tag == cache[i].lines[w].tag
               b == MakeAddr(tag, i)
    <2>1. tag \in Nat /\ b \in Addrs
        BY <1>1 DEF LinesInUse, Caches, CacheSets, CacheLine
    <2>2. b \in Addr /\ GetSetIndex(b) = i /\ GetTag(b) = tag
        <3> HIDE DEF tag, i
        <3> QED BY <1>1, <2>1, MakeAddrRoundTrip
    <2>3. Present(cache, b) /\ WayOf(cache, b) = w
        <3> HIDE DEF b
        <3> QED BY <1>1, <2>2, TheWay
    <2>4. b \in PeersIn(cache, a)
        <3> HIDE DEF b
        <3> QED BY <2>1, <2>2, <2>3 DEF PeersIn, HeldIn
    <2> HIDE DEF b
    <2> QED BY <2>3, <2>4
<1>7. IsFiniteSet(Way) /\ Cardinality(Way) = NumWays
    BY NumWaysAssumption, FS_Interval DEF Way
<1>8. /\ Cardinality(PeersIn(cache, a)) = Cardinality(used)
      /\ Cardinality(used) = NumWays <=> used = Way
    <2>1. /\ IsFiniteSet(used)
          /\ Cardinality(Way) = Cardinality(used) => Way = used
        <3>1. used \in SUBSET Way
            OBVIOUS
        <3> HIDE DEF used
        <3> QED BY <1>7, <3>1, FS_Subset
    <2>2. f \in Injection(PeersIn(cache, a), used) /\ f \in Surjection(PeersIn(cache, a), used)
        <3> HIDE DEF f, used
        <3> QED BY <1>3, <1>4, <1>5 DEF Injection, Surjection, IsInjective
    <2>3. Cardinality(PeersIn(cache, a)) = Cardinality(used)
        <3> HIDE DEF f, used
        <3> QED BY <2>1, <2>2, FS_Injection
    <2> HIDE DEF used
    <2> QED BY <1>7, <2>1, <2>3
<1>9. Recency!Full(a) <=> used = Way
    <2>1. \A S : Recency!Cardinality(S) = Cardinality(S)
        BY DEF Recency!Cardinality, Cardinality
    <2> HIDE DEF used
    <2> QED BY <1>8, <2>1, HeldMeansPresent DEF Recency!Full
<1>10. /\ FindInvalid(SetOf(cache, a)) = NoWay <=> free = {}
       /\ FindInvalid(SetOf(cache, a)) # NoWay => FindInvalid(SetOf(cache, a)) \in free
    <2>1. FindInvalid(SetOf(cache, a)) = FirstWay(free) /\ free \in SUBSET Way
        BY DEF FindInvalid, SetOf
    <2>2. NoWay \notin free
        BY NumWaysAssumption DEF NoWay, Way
    <2> HIDE DEF free
    <2> QED BY <2>1, <2>2, FirstWayType
<1>11. used = Way <=> free = {}
    OBVIOUS
<1> QED BY <1>9, <1>10, <1>11 DEF SetOf

\* The victim of a full set is the way of an address that is held.
LEMMA VictimAddress ==
    ASSUME RInv, NEW a \in Addrs, FindInvalid(SetOf(cache, a)) = NoWay
    PROVE  LET e == MakeAddr(VictimLine(cache, a).tag, GetSetIndex(a))
           IN /\ e \in Addrs /\ GetSetIndex(e) = GetSetIndex(a)
              /\ Present(cache, e) /\ WayOf(cache, e) = VictimWay(SetOf(cache, a))
              /\ LineOf(cache, e) = VictimLine(cache, a)
<1> DEFINE i == GetSetIndex(a)
           v == VictimWay(SetOf(cache, a))
           tag == cache[i].lines[v].tag
           e == MakeAddr(tag, i)
<1>1. SoundCache(cache) /\ cache \in Caches /\ i \in SetIndex /\ LinesInUse(cache)
    BY AddrRebuilt DEF RInv, Inv, SoundCache
<1>2. v \in Way
    BY <1>1, AddrRebuilt, SetOfType, VictimWayType
<1>3. VictimLine(cache, a) = cache[i].lines[v]
    BY DEF VictimLine, SetOf
<1>4. IsValid(cache[i].lines[v])
    BY <1>2, FullMeansNoFreeWay DEF SetOf
<1>5. tag \in Nat /\ e \in Addrs
    BY <1>1, <1>2, <1>4 DEF LinesInUse, Caches, CacheSets, CacheLine
<1>6. e \in Addr /\ GetSetIndex(e) = i /\ GetTag(e) = tag
    <2> HIDE DEF tag, i
    <2> QED BY <1>1, <1>5, MakeAddrRoundTrip
<1>7. Present(cache, e) /\ WayOf(cache, e) = v
    <2> HIDE DEF e, v
    <2> QED BY <1>1, <1>2, <1>4, <1>6, TheWay
<1>8. LineOf(cache, e) = cache[i].lines[v]
    BY <1>6, <1>7 DEF LineOf, SetOf
<1> QED BY <1>3, <1>5, <1>6, <1>7, <1>8

\* Of the addresses of a full set the oldest is the victim's.
LEMMA OldestIsVictim ==
    ASSUME RInv, NEW a \in Addrs, NEW b \in Addrs,
           FindInvalid(SetOf(cache, a)) = NoWay
    PROVE  Recency!Oldest(a, b) <=>
               b = MakeAddr(VictimLine(cache, a).tag, GetSetIndex(a))
<1> DEFINE i == GetSetIndex(a)
           v == VictimWay(SetOf(cache, a))
           e == MakeAddr(VictimLine(cache, a).tag, i)
<1>1. SoundCache(cache) /\ cache \in Caches /\ i \in SetIndex
    BY AddrRebuilt DEF RInv, Inv, SoundCache
<1>2. /\ v \in Way
      /\ \A w \in Way : cache[i].lru[v] <= cache[i].lru[w]
    BY <1>1, AddrRebuilt, SetOfType, VictimWayType DEF SetOf
<1>5. e \in Addrs
    BY VictimAddress
<1>6. GetSetIndex(e) = i
    BY VictimAddress
<1>7. Present(cache, e) /\ WayOf(cache, e) = v
    BY VictimAddress
<1>8. e \in PeersIn(cache, a)
    <2> HIDE DEF e
    <2> QED BY <1>5, <1>6, <1>7 DEF PeersIn, HeldIn
<1>9. \A x \in PeersIn(cache, a) :
          /\ x \in HeldIn(cache) /\ GetSetIndex(x) = i
          /\ WayOf(cache, x) \in Way
          /\ RankIn(cache, x) = cache[i].lru[WayOf(cache, x)]
          /\ RankIn(cache, x) \in Int
          /\ x # e => WayOf(cache, x) # v
    <2> TAKE x \in PeersIn(cache, a)
    <2>1. x \in Addrs /\ x \in Addr /\ Present(cache, x) /\ GetSetIndex(x) = i
        BY AddrRebuilt DEF PeersIn, HeldIn
    <2>2. WayOf(cache, x) \in Way /\ cache[i].lines[WayOf(cache, x)].tag = GetTag(x)
        BY <1>1, <2>1, TheWay
    <2>3. RankIn(cache, x) = cache[i].lru[WayOf(cache, x)]
        BY <2>1 DEF RankIn, SetOf
    <2>4. cache[i].lru[WayOf(cache, x)] \in Int
        <3> HIDE DEF i
        <3> QED BY <1>1, <2>2, NumWaysAssumption DEF Caches, CacheSets, Way
    <2>5. x # e => WayOf(cache, x) # v
        <3> HIDE DEF e
        <3>1. cache[i].lines[WayOf(cache, e)].tag = GetTag(e)
            BY <1>1, <1>5, <1>6, <1>7, AddrRebuilt, TheWay
        <3> QED BY <1>5, <1>6, <1>7, <2>1, <2>2, <3>1, SameAddr
    <2> QED BY <2>1, <2>2, <2>3, <2>4, <2>5 DEF PeersIn
<1>10. \A x \in PeersIn(cache, a) : x # e => RankIn(cache, e) < RankIn(cache, x)
    <2> TAKE x \in PeersIn(cache, a)
    <2> HAVE x # e
    <2>1. RankIn(cache, e) = cache[i].lru[v]
        <3> HIDE DEF e
        <3> QED BY <1>7, <1>8, <1>9
    <2>2. RankIn(cache, e) # RankIn(cache, x)
        <3>1. RanksDistinct(cache[i].lru)
            BY <1>1 DEF SoundCache, SoundSet
        <3> HIDE DEF e, v, i
        <3> QED BY <1>2, <1>9, <2>1, <3>1 DEF RanksDistinct
    <2>3. RankIn(cache, e) \in Int /\ RankIn(cache, x) \in Int
        <3> HIDE DEF e
        <3> QED BY <1>8, <1>9
    <2>4. RankIn(cache, e) <= RankIn(cache, x)
        <3> HIDE DEF e, v
        <3> QED BY <1>2, <1>9, <2>1
    <2> QED BY <2>2, <2>3, <2>4
<1>11. Recency!Oldest(a, e)
    <2> HIDE DEF e
    <2>1. \A x \in PeersIn(cache, a) : x # e => <<e, x>> \in OlderIn(cache)
        BY <1>6, <1>8, <1>9, <1>10 DEF OlderIn
    <2> QED BY <1>8, <2>1, HeldMeansPresent, MappingIs DEF Recency!Oldest
<1>12. Recency!Oldest(a, b) => b = e
    <2> HIDE DEF e
    <2> SUFFICES ASSUME Recency!Oldest(a, b), b # e PROVE FALSE
        OBVIOUS
    <2>1. b \in PeersIn(cache, a) /\ <<b, e>> \in OlderIn(cache)
        BY <1>8, HeldMeansPresent, MappingIs DEF Recency!Oldest
    <2>2. RankIn(cache, b) < RankIn(cache, e)
        BY <2>1 DEF OlderIn
    <2> QED BY <1>8, <1>9, <1>10, <2>1, <2>2
<1> QED BY <1>11, <1>12

-----------------------------------------------------------------------------
(* What a call changes, address by address *)

\* x is held in d where it is held in c, or in neither.
SamePlace(c, d, x) ==
    /\ Present(d, x) <=> Present(c, x)
    /\ Present(c, x) => WayOf(d, x) = WayOf(c, x)

SameCarried(c, d, x) ==
    /\ SamePlace(c, d, x)
    /\ Present(c, x) => LineOf(d, x) = LineOf(c, x)

\* The lines of d are those of c but for one way of one set, whatever the ranks.
OneLineChanged(c, d, i, w, line) ==
    \A j \in SetIndex, v \in Way :
        d[j].lines[v] = IF j = i /\ v = w THEN line ELSE c[j].lines[v]

\* Who gains, who loses and who keeps its line when one way changes.
LEMMA OneLineMoves ==
    ASSUME NEW c, SoundCache(c), NEW d, SoundCache(d),
           NEW i \in SetIndex, NEW w \in Way, NEW line,
           OneLineChanged(c, d, i, w, line), NEW x \in Addrs
    PROVE  LET placed == GetSetIndex(x) = i /\ IsValid(line) /\ line.tag = GetTag(x)
               was == GetSetIndex(x) = i /\ Present(c, x) /\ WayOf(c, x) = w
           IN /\ placed => Present(d, x) /\ WayOf(d, x) = w /\ LineOf(d, x) = line
              /\ ~placed /\ was => ~Present(d, x)
              /\ ~placed /\ ~was => SameCarried(c, d, x)
<1> DEFINE j == GetSetIndex(x)
           placed == j = i /\ IsValid(line) /\ line.tag = GetTag(x)
           was == j = i /\ Present(c, x) /\ WayOf(c, x) = w
<1>1. x \in Addr /\ j \in SetIndex
    BY AddrRebuilt
<1>2. \A v \in Way : d[j].lines[v] = IF j = i /\ v = w THEN line ELSE c[j].lines[v]
    BY <1>1 DEF OneLineChanged
<1>3. Present(d, x) => \/ placed /\ WayOf(d, x) = w
                       \/ Present(c, x) /\ WayOf(c, x) = WayOf(d, x) /\ ~was
    <2> HAVE Present(d, x)
    <2> DEFINE v == WayOf(d, x)
    <2>1. v \in Way /\ IsValid(d[j].lines[v]) /\ d[j].lines[v].tag = GetTag(x)
        BY <1>1, TheWay
    <2>2. CASE j = i /\ v = w
        <3>1. d[j].lines[v] = line
            <4> HIDE DEF v, j
            <4> QED BY <1>2, <2>1, <2>2
        <3> QED BY <2>1, <2>2, <3>1
    <2>3. CASE ~(j = i /\ v = w)
        <3>1. IsValid(c[j].lines[v]) /\ c[j].lines[v].tag = GetTag(x)
            <4> HIDE DEF v, j
            <4> QED BY <1>2, <2>1, <2>3
        <3>2. Present(c, x) /\ WayOf(c, x) = v
            BY <1>1, <2>1, <3>1, TheWay
        <3> QED BY <2>3, <3>2
    <2> QED BY <2>2, <2>3
<1>4. placed => Present(d, x) /\ WayOf(d, x) = w /\ LineOf(d, x) = line
    <2> HAVE placed
    <2>1. d[j].lines[w] = line
        BY <1>2
    <2>2. Present(d, x) /\ WayOf(d, x) = w
        BY <1>1, <2>1, TheWay
    <2> QED BY <1>1, <2>1, <2>2, TheWay
<1>5. ~was /\ Present(c, x) => SameCarried(c, d, x)
    <2> HAVE ~was /\ Present(c, x)
    <2> DEFINE v == WayOf(c, x)
    <2>1. /\ v \in Way /\ IsValid(c[j].lines[v]) /\ c[j].lines[v].tag = GetTag(x)
          /\ LineOf(c, x) = c[j].lines[v]
        BY <1>1, TheWay
    <2>2. d[j].lines[v] = c[j].lines[v]
        <3> HIDE DEF j
        <3> QED BY <1>2, <2>1
    <2>3. Present(d, x) /\ WayOf(d, x) = v
        BY <1>1, <2>1, <2>2, TheWay
    <2>4. LineOf(d, x) = d[j].lines[v]
        BY <1>1, <2>3, TheWay
    <2> QED BY <2>1, <2>2, <2>3, <2>4 DEF SameCarried, SamePlace
<1>6. ~placed /\ was => ~Present(d, x)
    BY <1>3
<1>7. ~placed /\ ~was => SameCarried(c, d, x)
    BY <1>3, <1>5 DEF SameCarried, SamePlace
<1> QED BY <1>4, <1>6, <1>7

\* The lines in use stay of the addresses and states in use.
LEMMA InUseKept ==
    ASSUME NEW c, LinesInUse(c), NEW d,
           NEW i \in SetIndex, NEW w \in Way, NEW line,
           OneLineChanged(c, d, i, w, line),
           IsValid(line) => MakeAddr(line.tag, i) \in Addrs /\ line.state \in States
    PROVE  LinesInUse(d)
BY DEF LinesInUse, OneLineChanged

-----------------------------------------------------------------------------
(* What a call does to the order of uses *)

UnusedIn(c, gone) == {p \in OlderIn(c) : p[1] \notin gone /\ p[2] \notin gone}

AfterUse(c, a, gone) ==
    UnusedIn(c, {a} \cup gone)
        \cup {<<b, a>> : b \in PeersIn(c, a) \ ({a} \cup gone)}

\* Without a touch the order only loses what is gone.
LEMMA OrderKept ==
    ASSUME NEW c, NEW d, NEW gone \in SUBSET Addrs,
           \A j \in SetIndex : d[j].lru = c[j].lru,
           \A x \in Addrs \ gone : SamePlace(c, d, x),
           \A x \in gone : ~Present(d, x)
    PROVE  OlderIn(d) = UnusedIn(c, gone)
<1>1. HeldIn(d) = HeldIn(c) \ gone
    BY DEF HeldIn, SamePlace
<1>2. \A x \in HeldIn(d) : RankIn(d, x) = RankIn(c, x)
    <2> TAKE x \in HeldIn(d)
    <2>1. x \in Addrs /\ x \notin gone /\ Present(c, x) /\ GetSetIndex(x) \in SetIndex
        BY <1>1, AddrRebuilt DEF HeldIn
    <2> QED BY <2>1 DEF RankIn, SetOf, SamePlace
<1> QED BY <1>1, <1>2 DEF OlderIn, UnusedIn

\* A touch keeps the order of the other ways and puts the touched way last.
LEMMA TouchedOrder ==
    ASSUME NEW lru \in [Way -> Way], RanksDistinct(lru), NEW w \in Way,
           NEW u \in Way \ {w}
    PROVE  /\ TouchedRanks(lru, w)[u] < TouchedRanks(lru, w)[w]
           /\ ~(TouchedRanks(lru, w)[w] < TouchedRanks(lru, w)[u])
           /\ \A v \in Way \ {w} :
                 TouchedRanks(lru, w)[u] < TouchedRanks(lru, w)[v] <=> lru[u] < lru[v]
<1> DEFINE top == NumWays - 1
           Moved(r) == IF r > lru[w] THEN r - 1 ELSE r
<1>1. top \in Int
    BY NumWaysAssumption
<1>2. \A v \in Way : lru[v] \in 0 .. top
    BY DEF Way
<1>3. \A v \in Way \ {w} : lru[v] # lru[w]
    BY DEF RanksDistinct
<1>4. \A v \in Way : TouchedRanks(lru, w)[v] = IF v = w THEN top ELSE Moved(lru[v])
    BY DEF TouchedRanks
<1>5. ASSUME NEW r \in 0 .. top, r # lru[w] PROVE Moved(r) \in Int /\ Moved(r) < top
    <2>1. lru[w] \in 0 .. top
        BY <1>2
    <2> HIDE DEF top
    <2> QED BY <1>1, <1>5, <2>1
<1>6. ASSUME NEW r \in 0 .. top, NEW s \in 0 .. top, r # lru[w], s # lru[w]
      PROVE  Moved(r) < Moved(s) <=> r < s
    <2>1. lru[w] \in 0 .. top
        BY <1>2
    <2> HIDE DEF top
    <2> QED BY <1>1, <1>6, <2>1
<1>7. /\ TouchedRanks(lru, w)[w] = top
      /\ TouchedRanks(lru, w)[u] = Moved(lru[u])
      /\ Moved(lru[u]) \in Int /\ Moved(lru[u]) < top
    BY <1>2, <1>3, <1>4, <1>5
<1>8. \A v \in Way \ {w} :
          TouchedRanks(lru, w)[u] < TouchedRanks(lru, w)[v] <=> lru[u] < lru[v]
    BY <1>2, <1>3, <1>4, <1>6
<1>9. ~(top < Moved(lru[u]))
    <2> HIDE DEF top, Moved
    <2> QED BY <1>1, <1>7
<1> QED BY <1>7, <1>8, <1>9

\* With a touch of its way an address is used after all that stay in its set.
LEMMA OrderAfterUse ==
    ASSUME NEW c, SoundCache(c), NEW d, SoundCache(d), NEW a \in Addrs,
           NEW gone \in SUBSET (Addrs \ {a}),
           Present(d, a),
           \A x \in Addrs \ ({a} \cup gone) : SamePlace(c, d, x),
           \A x \in gone : ~Present(d, x),
           \A j \in SetIndex :
              d[j].lru = IF j = GetSetIndex(a)
                         THEN TouchedRanks(c[j].lru, WayOf(d, a))
                         ELSE c[j].lru
    PROVE  OlderIn(d) = AfterUse(c, a, gone)
<1> DEFINE i == GetSetIndex(a)
           w == WayOf(d, a)
           others == HeldIn(c) \ ({a} \cup gone)
<1>1. i \in SetIndex /\ w \in Way /\ a \in Addr
    BY AddrRebuilt, TheWay
<1>2. HeldIn(d) = others \cup {a} /\ a \notin others
    BY DEF HeldIn, SamePlace
<1>3. c[i].lru \in [Way -> Way] /\ RanksDistinct(c[i].lru)
    BY <1>1 DEF SoundCache, SoundSet, Caches, CacheSets
<1>4. ASSUME NEW x \in others
      PROVE  /\ x \in Addrs /\ GetSetIndex(x) \in SetIndex
             /\ WayOf(d, x) = WayOf(c, x) /\ WayOf(c, x) \in Way
             /\ GetSetIndex(x) = i => WayOf(c, x) # w
    <2>1. x \in Addrs /\ x \in Addr /\ x # a /\ GetSetIndex(x) \in SetIndex
        BY AddrRebuilt DEF HeldIn
    <2>2. Present(c, x) /\ Present(d, x) /\ WayOf(d, x) = WayOf(c, x)
        BY <1>4 DEF HeldIn, SamePlace
    <2>3. WayOf(c, x) \in Way
        BY <2>1, <2>2, TheWay
    <2>4. d[GetSetIndex(x)].lines[WayOf(d, x)].tag = GetTag(x)
        BY <2>1, <2>2, TheWay
    <2>5. d[i].lines[w].tag = GetTag(a)
        BY <1>1, TheWay
    <2>6. GetSetIndex(x) = i => WayOf(c, x) # w
        <3> HIDE DEF w, i
        <3>1. i = GetSetIndex(a)
            BY DEF i
        <3> QED BY <2>1, <2>2, <2>4, <2>5, <3>1, SameAddr
    <2> QED BY <2>1, <2>2, <2>3, <2>6
<1>5. RankIn(d, a) = TouchedRanks(c[i].lru, w)[w]
    BY <1>1 DEF RankIn, SetOf
<1>6. \A x \in others :
          RankIn(d, x) = IF GetSetIndex(x) = i THEN TouchedRanks(c[i].lru, w)[WayOf(c, x)]
                         ELSE RankIn(c, x)
    BY <1>4 DEF RankIn, SetOf
<1>7. \A x \in others : RankIn(c, x) = c[GetSetIndex(x)].lru[WayOf(c, x)]
    BY DEF RankIn, SetOf
<1>8. \A x, y \in others : GetSetIndex(x) = GetSetIndex(y) =>
          (RankIn(d, x) < RankIn(d, y) <=> RankIn(c, x) < RankIn(c, y))
    <2> TAKE x, y \in others
    <2> HAVE GetSetIndex(x) = GetSetIndex(y)
    <2>1. CASE GetSetIndex(x) = i
        <3>1. /\ WayOf(c, x) \in Way \ {w} /\ WayOf(c, y) \in Way \ {w}
            BY <1>4, <2>1
        <3>2. TouchedRanks(c[i].lru, w)[WayOf(c, x)] < TouchedRanks(c[i].lru, w)[WayOf(c, y)]
                <=> c[i].lru[WayOf(c, x)] < c[i].lru[WayOf(c, y)]
            <4> HIDE DEF i, w
            <4> QED BY <1>1, <1>3, <3>1, TouchedOrder
        <3> HIDE DEF i, w, others
        <3> QED BY <1>6, <1>7, <2>1, <3>2
    <2>2. CASE GetSetIndex(x) # i
        <3> HIDE DEF i, w, others
        <3> QED BY <1>6, <2>2
    <2> QED BY <2>1, <2>2
<1>9. \A x \in others : GetSetIndex(x) = i =>
          RankIn(d, x) < RankIn(d, a) /\ ~(RankIn(d, a) < RankIn(d, x))
    <2> TAKE x \in others
    <2> HAVE GetSetIndex(x) = i
    <2>1. WayOf(c, x) \in Way \ {w}
        BY <1>4
    <2>2. RankIn(d, x) = TouchedRanks(c[i].lru, w)[WayOf(c, x)]
        BY <1>6
    <2> HIDE DEF i, w, others
    <2> QED BY <1>1, <1>3, <1>5, <2>1, <2>2, TouchedOrder
<1>10. ~(RankIn(d, a) < RankIn(d, a))
    <2>1. RankIn(d, a) \in Int
        <3>1. d[i].lru[w] \in Way
            BY <1>1 DEF SoundCache, Caches, CacheSets
        <3> QED BY <3>1, NumWaysAssumption DEF RankIn, SetOf, Way
    <2> QED BY <2>1
<1>11. PeersIn(c, a) \ ({a} \cup gone) = {b \in others : GetSetIndex(b) = i}
    BY DEF PeersIn
<1> HIDE DEF others, i, w
<1>12. ASSUME NEW x, NEW y
       PROVE  <<x, y>> \in OlderIn(d) <=> <<x, y>> \in AfterUse(c, a, gone)
    <2>1. <<x, y>> \in OlderIn(d) <=>
             /\ x \in others \cup {a} /\ y \in others \cup {a}
             /\ GetSetIndex(x) = GetSetIndex(y) /\ RankIn(d, x) < RankIn(d, y)
        BY <1>2 DEF OlderIn
    <2>2. <<x, y>> \in UnusedIn(c, {a} \cup gone) <=>
             /\ x \in others /\ y \in others
             /\ GetSetIndex(x) = GetSetIndex(y) /\ RankIn(c, x) < RankIn(c, y)
        BY DEF UnusedIn, OlderIn, others
    <2>3. <<x, y>> \in AfterUse(c, a, gone) <=>
             \/ <<x, y>> \in UnusedIn(c, {a} \cup gone)
             \/ y = a /\ x \in others /\ GetSetIndex(x) = i
        BY <1>11 DEF AfterUse
    <2>4. i = GetSetIndex(a)
        BY DEF i
    <2> QED BY <1>2, <1>8, <1>9, <1>10, <2>1, <2>2, <2>3, <2>4
<1>13. /\ \A p \in OlderIn(d) : p = <<p[1], p[2]>>
       /\ \A p \in AfterUse(c, a, gone) : p = <<p[1], p[2]>>
    BY DEF OlderIn, AfterUse, UnusedIn
<1> QED BY <1>12, <1>13

-----------------------------------------------------------------------------
(* The calls, as changes of the order and of the contents *)

\* An update of a held line changes its content and no order; clearing the line
\* takes it from both.
LEMMA Updated ==
    ASSUME NEW c, SoundCache(c), LinesInUse(c), NEW d, SoundCache(d),
           NEW a \in Addrs, Present(c, a), NEW line,
           LineReplaced(c, d, GetSetIndex(a), WayOf(c, a), line),
           IsValid(line) => line.tag = GetTag(a) /\ line.state \in States
    PROVE  /\ LinesInUse(d)
           /\ IsValid(line) =>
                 /\ ContentIn(d) = [ContentIn(c) EXCEPT ![a] = Carried(line)]
                 /\ OlderIn(d) = OlderIn(c)
           /\ ~IsValid(line) =>
                 /\ ContentIn(d) = [ContentIn(c) EXCEPT ![a] = NotHeld]
                 /\ OlderIn(d) = UnusedIn(c, {a})
<1> DEFINE i == GetSetIndex(a)
           w == WayOf(c, a)
<1>1. /\ i \in SetIndex /\ a \in Addr /\ MakeAddr(GetTag(a), i) = a
      /\ w \in Way /\ c[i].lines[w].tag = GetTag(a)
    BY AddrRebuilt, TheWay
<1>2. OneLineChanged(c, d, i, w, line) /\ \A j \in SetIndex : d[j].lru = c[j].lru
    BY DEF LineReplaced, OneLineChanged
<1>3. LinesInUse(d)
    <2>1. IsValid(line) => MakeAddr(line.tag, i) \in Addrs /\ line.state \in States
        BY <1>1
    <2> HIDE DEF i, w
    <2> QED BY <1>1, <1>2, <2>1, InUseKept
<1>4. ASSUME NEW x \in Addrs, x # a PROVE SameCarried(c, d, x)
    <2>1. x \in Addr
        BY AddrRebuilt
    <2>2. ~(GetSetIndex(x) = i /\ IsValid(line) /\ line.tag = GetTag(x))
        BY <1>4, SameAddr
    <2>3. ~(GetSetIndex(x) = i /\ Present(c, x) /\ WayOf(c, x) = w)
        <3> SUFFICES ASSUME GetSetIndex(x) = i, Present(c, x), WayOf(c, x) = w
                     PROVE  FALSE
            OBVIOUS
        <3>1. c[i].lines[w].tag = GetTag(x)
            BY <2>1, TheWay
        <3> QED BY <1>1, <1>4, <3>1, SameAddr
    <2> HIDE DEF i, w
    <2> QED BY <1>1, <1>2, <2>2, <2>3, OneLineMoves
<1>5. CASE IsValid(line)
    <2>1. Present(d, a) /\ WayOf(d, a) = w /\ LineOf(d, a) = line
        <3>1. GetSetIndex(a) = i
            OBVIOUS
        <3> HIDE DEF i, w
        <3> QED BY <1>1, <1>2, <1>5, <3>1, OneLineMoves
    <2>2. \A x \in Addrs \ {} : SamePlace(c, d, x)
        BY <1>4, <2>1 DEF SameCarried, SamePlace
    <2>3. OlderIn(d) = UnusedIn(c, {})
        BY <1>2, <2>2, OrderKept
    <2>4. ContentIn(d) = [ContentIn(c) EXCEPT ![a] = Carried(line)]
        BY <1>4, <2>1 DEF ContentIn, SameCarried, SamePlace
    <2> QED BY <1>3, <1>5, <2>3, <2>4 DEF UnusedIn
<1>6. CASE ~IsValid(line)
    <2>1. ~Present(d, a)
        <3>1. GetSetIndex(a) = i /\ Present(c, a) /\ WayOf(c, a) = w
            OBVIOUS
        <3> HIDE DEF i, w
        <3> QED BY <1>1, <1>2, <1>6, <3>1, OneLineMoves
    <2>2. \A x \in Addrs \ {a} : SamePlace(c, d, x)
        BY <1>4 DEF SameCarried
    <2>3. OlderIn(d) = UnusedIn(c, {a})
        BY <1>2, <2>1, <2>2, OrderKept
    <2>4. ContentIn(d) = [ContentIn(c) EXCEPT ![a] = NotHeld]
        BY <1>4, <2>1 DEF ContentIn, SameCarried, SamePlace
    <2> QED BY <1>3, <1>6, <2>3, <2>4
<1> QED BY <1>5, <1>6

\* A lookup that hits makes its line the most recent and changes no content.
LEMMA LookedUp ==
    ASSUME NEW c, SoundCache(c), LinesInUse(c), NEW a \in Addrs, Present(c, a)
    PROVE  /\ LinesInUse(Lookup(c, a))
           /\ ContentIn(Lookup(c, a)) = ContentIn(c)
           /\ OlderIn(Lookup(c, a)) = AfterUse(c, a, {})
<1> DEFINE i == GetSetIndex(a)
           w == WayOf(c, a)
           d == Lookup(c, a)
<1>1. a \in Addr /\ i \in SetIndex /\ w \in Way /\ c[i] \in CacheSets /\ c \in Caches
    BY AddrRebuilt, TheWay DEF SoundCache, Caches
<1>2. d = [c EXCEPT ![i] = Touch(c[i], w)]
    BY DEF Lookup
<1>3. SoundCache(d)
    BY <1>1, LookupSound
<1>4. /\ Touch(c[i], w).lru = TouchedRanks(c[i].lru, w)
      /\ Touch(c[i], w).lines = c[i].lines
    <2> HIDE DEF i, w
    <2> QED BY <1>1 DEF Touch, CacheSets
<1>5. \A j \in SetIndex :
          /\ d[j].lines = c[j].lines
          /\ d[j].lru = IF j = i THEN TouchedRanks(c[j].lru, w) ELSE c[j].lru
    <2> HIDE DEF i, w, d
    <2> QED BY <1>1, <1>2, <1>4 DEF Caches
<1>6. ASSUME NEW x \in Addrs PROVE SameCarried(c, d, x)
    <2>1. GetSetIndex(x) \in SetIndex
        BY AddrRebuilt
    <2>2. d[GetSetIndex(x)].lines = c[GetSetIndex(x)].lines
        <3> HIDE DEF d
        <3> QED BY <1>5, <2>1
    <2> HIDE DEF d
    <2> QED BY <2>2 DEF SameCarried, SamePlace, Present, WayOf, LineOf, FindWay, SetOf
<1>7. LinesInUse(d)
    <2> HIDE DEF d
    <2> QED BY <1>5 DEF LinesInUse
<1>8. ContentIn(d) = ContentIn(c)
    <2> HIDE DEF d
    <2> QED BY <1>6 DEF ContentIn, SameCarried, SamePlace
<1>9. OlderIn(d) = AfterUse(c, a, {})
    <2>1. Present(d, a) /\ WayOf(d, a) = w
        BY <1>6 DEF SameCarried, SamePlace
    <2>2. \A x \in Addrs \ ({a} \cup {}) : SamePlace(c, d, x)
        BY <1>6 DEF SameCarried
    <2>3. \A j \in SetIndex :
              d[j].lru = IF j = GetSetIndex(a)
                         THEN TouchedRanks(c[j].lru, WayOf(d, a)) ELSE c[j].lru
        BY <1>5, <2>1
    <2> HIDE DEF d
    <2> QED BY <1>3, <2>1, <2>2, <2>3, OrderAfterUse
<1> QED BY <1>7, <1>8, <1>9

\* The addresses that lose their way to a fill of a.
Displaced(c, a) ==
    {x \in Addrs \ {a} : /\ GetSetIndex(x) = GetSetIndex(a)
                         /\ Present(c, x) /\ WayOf(c, x) = FillWay(c, a)}

\* A fill places its line, displaces what was in the way, and is a use.
LEMMA Filled ==
    ASSUME NEW c, SoundCache(c), LinesInUse(c), NEW a \in Addrs,
           NEW state \in States, NEW data \in Data
    PROVE  LET d == Fill(c, a, state, data)
               new == [state |-> state, data |-> data, sharers |-> GetSharers(c, a)]
           IN /\ LinesInUse(d)
              /\ ContentIn(d) =
                    [x \in Addrs |-> IF x = a THEN new
                                     ELSE IF x \in Displaced(c, a) THEN NotHeld
                                     ELSE ContentIn(c)[x]]
              /\ OlderIn(d) = AfterUse(c, a, Displaced(c, a))
<1> DEFINE i == GetSetIndex(a)
           w == FillWay(c, a)
           line == [tag |-> GetTag(a), state |-> state, data |-> data,
                    sharers |-> GetSharers(c, a)]
           mid == WithLine(c[i], w, line)
           d == Fill(c, a, state, data)
           gone == Displaced(c, a)
<1>1. /\ a \in Addr /\ i \in SetIndex /\ c \in Caches /\ w \in Way /\ c[i] \in CacheSets
      /\ MakeAddr(GetTag(a), i) = a
    BY AddrRebuilt, FillWayType DEF SoundCache, Caches
<1>2. state \in LineState /\ state # "I"
    BY StatesAssumption
<1>3. SoundCache(d)
    BY <1>1, <1>2, FillSound
<1>4. IsValid(line) /\ line.tag = GetTag(a) /\ line.state \in States
    BY <1>2 DEF IsValid
<1>5. d = [c EXCEPT ![i] = Touch(mid, w)]
    BY DEF Fill
<1>6. mid = [lines |-> [c[i].lines EXCEPT ![w] = line], lru |-> c[i].lru]
    <2> HIDE DEF i, w, line
    <2> QED BY <1>1 DEF WithLine, CacheSets
<1>7. /\ Touch(mid, w).lines = [c[i].lines EXCEPT ![w] = line]
      /\ Touch(mid, w).lru = TouchedRanks(c[i].lru, w)
    <2> HIDE DEF i, w, line, mid
    <2> QED BY <1>1, <1>6 DEF Touch
<1>8. OneLineChanged(c, d, i, w, line)
    <2> HIDE DEF i, w, line, mid, d
    <2> QED BY <1>1, <1>5, <1>7 DEF OneLineChanged, Caches, CacheSets
<1>9. \A j \in SetIndex :
          d[j].lru = IF j = i THEN TouchedRanks(c[j].lru, w) ELSE c[j].lru
    <2> HIDE DEF i, w, line, mid, d
    <2> QED BY <1>1, <1>5, <1>7 DEF Caches
<1>10. LinesInUse(d)
    <2>1. IsValid(line) => MakeAddr(line.tag, i) \in Addrs /\ line.state \in States
        BY <1>1, <1>4
    <2> HIDE DEF i, w, line, d
    <2> QED BY <1>1, <1>8, <2>1, InUseKept
<1>11. Present(d, a) /\ WayOf(d, a) = w /\ LineOf(d, a) = line
    <2>1. GetSetIndex(a) = i
        OBVIOUS
    <2> HIDE DEF i, w, line, d
    <2> QED BY <1>1, <1>3, <1>4, <1>8, <2>1, OneLineMoves
<1>12. ASSUME NEW x \in Addrs, x # a
       PROVE  /\ x \in gone => ~Present(d, x) /\ Present(c, x)
              /\ x \notin gone => SameCarried(c, d, x)
    <2>1. ~(GetSetIndex(x) = i /\ IsValid(line) /\ line.tag = GetTag(x))
        BY <1>12, SameAddr
    <2>2. x \in gone <=> GetSetIndex(x) = i /\ Present(c, x) /\ WayOf(c, x) = w
        BY <1>12 DEF Displaced
    <2> HIDE DEF i, w, line, d, gone
    <2> QED BY <1>1, <1>3, <1>8, <2>1, <2>2, OneLineMoves
<1>13. a \notin gone /\ gone \in SUBSET (Addrs \ {a})
    BY DEF Displaced
<1>14. ContentIn(d) =
          [x \in Addrs |-> IF x = a
                           THEN [state |-> state, data |-> data, sharers |-> GetSharers(c, a)]
                           ELSE IF x \in gone THEN NotHeld
                           ELSE ContentIn(c)[x]]
    <2>1. Carried(line) = [state |-> state, data |-> data, sharers |-> GetSharers(c, a)]
        BY DEF Carried
    <2> HIDE DEF line, d, gone
    <2> QED BY <1>11, <1>12, <1>13, <2>1 DEF ContentIn, SameCarried, SamePlace
<1>15. OlderIn(d) = AfterUse(c, a, gone)
    <2>1. /\ \A x \in Addrs \ ({a} \cup gone) : SamePlace(c, d, x)
          /\ \A x \in gone : ~Present(d, x)
        <3> HIDE DEF d, gone
        <3> QED BY <1>12, <1>13 DEF SameCarried
    <2>2. \A j \in SetIndex :
              d[j].lru = IF j = GetSetIndex(a)
                         THEN TouchedRanks(c[j].lru, WayOf(d, a)) ELSE c[j].lru
        BY <1>9, <1>11
    <2> HIDE DEF d, gone
    <2> QED BY <1>3, <1>11, <1>13, <2>1, <2>2, OrderAfterUse
<1> QED BY <1>10, <1>14, <1>15

-----------------------------------------------------------------------------
(* Every call is a step of RecencyCache *)

\* A fill displaces a line only when the set is full, and then the oldest.
LEMMA DisplacesOldest ==
    ASSUME RInv, NEW a \in Addrs
    PROVE  /\ Present(cache, a) \/ FindInvalid(SetOf(cache, a)) # NoWay
                 => Displaced(cache, a) = {}
           /\ ~Present(cache, a) /\ FindInvalid(SetOf(cache, a)) = NoWay =>
                 \E b \in Addrs : /\ Displaced(cache, a) = {b} /\ b # a
                                  /\ Recency!Oldest(a, b)
<1> DEFINE i == GetSetIndex(a)
           w == FillWay(cache, a)
<1>1. SoundCache(cache) /\ i \in SetIndex /\ a \in Addr
    BY AddrRebuilt DEF RInv, Inv
<1>2. ASSUME NEW x \in Addrs, x # a, NEW y \in Addrs, Present(cache, x), Present(cache, y),
             GetSetIndex(x) = i, GetSetIndex(y) = i, WayOf(cache, x) = WayOf(cache, y)
      PROVE  x = y
    <2>1. /\ cache[i].lines[WayOf(cache, x)].tag = GetTag(x)
          /\ cache[i].lines[WayOf(cache, y)].tag = GetTag(y)
        BY <1>1, <1>2, AddrRebuilt, TheWay
    <2> QED BY <1>2, <2>1, SameAddr
<1>3. CASE Present(cache, a)
    <2>1. w = WayOf(cache, a)
        BY <1>3 DEF FillWay
    <2> QED BY <1>2, <1>3, <2>1 DEF Displaced
<1>4. CASE ~Present(cache, a) /\ FindInvalid(SetOf(cache, a)) # NoWay
    <2>1. w = FindInvalid(SetOf(cache, a)) /\ ~IsValid(cache[i].lines[w])
        BY <1>4, FullMeansNoFreeWay DEF FillWay, SetOf
    <2>2. \A x \in Addrs : Present(cache, x) /\ GetSetIndex(x) = i =>
              IsValid(cache[i].lines[WayOf(cache, x)])
        BY <1>1, AddrRebuilt, TheWay
    <2> QED BY <1>4, <2>1, <2>2 DEF Displaced
<1>5. CASE ~Present(cache, a) /\ FindInvalid(SetOf(cache, a)) = NoWay
    <2> DEFINE e == MakeAddr(VictimLine(cache, a).tag, GetSetIndex(a))
    <2>1. w = VictimWay(SetOf(cache, a))
        BY <1>5 DEF FillWay
    <2>2. /\ e \in Addrs /\ GetSetIndex(e) = i
          /\ Present(cache, e) /\ WayOf(cache, e) = w
        BY <1>5, <2>1, VictimAddress
    <2>3. Recency!Oldest(a, e)
        BY <1>5, <2>2, OldestIsVictim
    <2> HIDE DEF e, w
    <2>4. e # a
        BY <1>5, <2>2
    <2>5. Displaced(cache, a) = {e}
        BY <1>2, <2>2, <2>4 DEF Displaced, w
    <2> QED BY <1>5, <2>2, <2>3, <2>4, <2>5
<1> QED BY <1>3, <1>4, <1>5

\* The use of an address, seen from the abstract side.
LEMMA UseIsUse ==
    ASSUME RInv, NEW a \in Addrs, NEW gone, OlderIn(cache') = AfterUse(cache, a, gone)
    PROVE  Recency!Used(a, gone)
<1>1. OlderUse = OlderIn(cache) /\ OlderUse' = AfterUse(cache, a, gone)
    BY MappingIs
<1>2. Recency!Companions(a) = PeersIn(cache, a)
    BY HeldMeansPresent
<1> QED BY <1>1, <1>2 DEF Recency!Used, Recency!Unused, AfterUse, UnusedIn

\* lookup() reports a hit, a miss, or the dirty victim a fill would displace.
LEMMA LookupSimulated ==
    ASSUME RInv, NEW a \in Addrs, DoLookup(a)
    PROVE  LinesInUse(cache') /\ (Recency!LookupHit(a) \/ Recency!LookupMiss(a))
<1>1. SoundCache(cache) /\ LinesInUse(cache)
    BY DEF RInv, Inv
<1>2. CASE Present(cache, a)
    <2>1. cache' = Lookup(cache, a)
        BY DEF DoLookup
    <2>2. /\ LinesInUse(cache') /\ ContentIn(cache') = ContentIn(cache)
          /\ OlderIn(cache') = AfterUse(cache, a, {})
        BY <1>1, <1>2, <2>1, LookedUp
    <2>3. Recency!Held(a) /\ Recency!Used(a, {})
        BY <1>2, <2>2, HeldMeansPresent, UseIsUse
    <2>4. HeldContent' = HeldContent
        BY <2>2, MappingIs
    <2>5. LookupAnswer' = [result |-> "Hit", addr |-> a]
        <3>1. resp' = [result |-> "Hit", addr |-> a, state |-> GetState(cache, a)]
            BY <1>2 DEF DoLookup, LookupResponse, LookupResult
        <3> QED BY <3>1 DEF LookupAnswer
    <2> QED BY <2>2, <2>3, <2>4, <2>5 DEF Recency!LookupHit
<1>3. CASE ~Present(cache, a)
    <2>1. cache' = cache
        BY <1>3 DEF DoLookup, Lookup
    <2>2. LinesInUse(cache') /\ OlderUse' = OlderUse /\ HeldContent' = HeldContent
        BY <1>1, <2>1, MappingIs
    <2>3. ~Recency!Held(a)
        BY <1>3, HeldMeansPresent
    <2> DEFINE victim == VictimLine(cache, a)
               e == MakeAddr(victim.tag, GetSetIndex(a))
               full == FindInvalid(SetOf(cache, a)) = NoWay
    <2>4. full => /\ e \in Addrs /\ Recency!Full(a)
                  /\ DirtyContent(HeldContent[e]) <=> IsDirty(victim)
                  /\ \A b \in Addrs : Recency!Oldest(a, b) <=> b = e
        <3> HAVE full
        <3>1. e \in Addrs /\ Present(cache, e) /\ LineOf(cache, e) = victim
            BY VictimAddress
        <3>2. HeldContent[e] = Carried(victim)
            <4> HIDE DEF e, victim
            <4> QED BY <3>1, MappingIs DEF ContentIn
        <3>3. DirtyContent(HeldContent[e]) <=> IsDirty(victim)
            <4> HIDE DEF e, victim
            <4> QED BY <3>2 DEF DirtyContent, IsDirty, Carried
        <3>4. Recency!Full(a) /\ \A b \in Addrs : Recency!Oldest(a, b) <=> b = e
            BY FullMeansNoFreeWay, OldestIsVictim
        <3> QED BY <3>1, <3>3, <3>4
    <2>5. CASE full /\ IsDirty(victim)
        <3>1. /\ resp'.result = "MissEvictDirty" /\ resp'.addr = a
              /\ resp'.evictTag = victim.tag
            <4>1. LookupResult(cache, a) = "MissEvictDirty"
                BY <1>3, <2>5 DEF LookupResult
            <4> QED BY <4>1 DEF DoLookup, LookupResponse
        <3>2. LookupAnswer' = [result |-> "MissEvictDirty", victim |-> e]
            BY <3>1 DEF LookupAnswer
        <3>3. e \in Addrs /\ Recency!DirtyVictim(a, e)
            BY <2>4, <2>5 DEF Recency!DirtyVictim
        <3> HIDE DEF e
        <3> QED BY <2>2, <2>3, <3>2, <3>3 DEF Recency!LookupMiss
    <2>6. CASE ~(full /\ IsDirty(victim))
        <3>1. resp' = [result |-> "Miss", addr |-> a, state |-> "I"]
            <4>1. LookupResult(cache, a) = "Miss"
                BY <1>3, <2>6 DEF LookupResult
            <4> QED BY <4>1 DEF DoLookup, LookupResponse
        <3>2. LookupAnswer' = [result |-> "Miss", addr |-> a]
            BY <3>1 DEF LookupAnswer
        <3>3. \A b \in Addrs : ~Recency!DirtyVictim(a, b)
            <4>1. ~full => ~Recency!Full(a)
                BY FullMeansNoFreeWay
            <4> HIDE DEF e, victim, full
            <4> QED BY <2>4, <2>6, <4>1 DEF Recency!DirtyVictim
        <3> QED BY <2>2, <2>3, <3>2, <3>3 DEF Recency!LookupMiss
    <2> QED BY <2>5, <2>6
<1> QED BY <1>2, <1>3

\* fill() refreshes a held line, or installs one in a free or in the oldest place.
LEMMA FillSimulated ==
    ASSUME RInv, NEW a \in Addrs, NEW state \in States, NEW data \in Data,
           DoFill(a, state, data)
    PROVE  LinesInUse(cache') /\ Recency!Update(a)
<1> DEFINE new == [state |-> state, data |-> data, sharers |-> GetSharers(cache, a)]
           gone == Displaced(cache, a)
<1>1. SoundCache(cache) /\ LinesInUse(cache) /\ a \in Addr
    BY AddrRebuilt DEF RInv, Inv
<1>2. cache' = Fill(cache, a, state, data) /\ resp' = NoResp
    BY DEF DoFill
<1>3. /\ LinesInUse(cache')
      /\ ContentIn(cache') = [x \in Addrs |-> IF x = a THEN new
                                            ELSE IF x \in gone THEN NotHeld
                                            ELSE ContentIn(cache)[x]]
      /\ OlderIn(cache') = AfterUse(cache, a, gone)
    BY <1>1, <1>2, Filled
<1>4. LookupAnswer' = Recency!NoAnswer
    BY <1>2 DEF LookupAnswer, NoResp, Recency!NoAnswer
<1>5. Recency!Used(a, gone)
    BY <1>3, UseIsUse
<1>6. HeldContent = ContentIn(cache) /\ HeldContent' = ContentIn(cache')
    BY MappingIs
<1>7. new \in LineContents
    <2>1. GetSharers(cache, a) \in SUBSET Nodes
        BY <1>1, TheWay DEF GetSharers, CacheLine
    <2> QED BY <2>1 DEF LineContents
<1>8. /\ Recency!Held(a) <=> Present(cache, a)
      /\ Recency!Full(a) <=> FindInvalid(SetOf(cache, a)) = NoWay
    BY HeldMeansPresent, FullMeansNoFreeWay
<1>9. CASE Present(cache, a)
    <2>1. gone = {}
        BY <1>9, DisplacesOldest
    <2>2. HeldContent' = [HeldContent EXCEPT ![a] = new]
        <3> HIDE DEF new, gone
        <3> QED BY <1>3, <1>6, <2>1 DEF ContentIn
    <2>3. FreshContent(HeldContent[a], new)
        <3>1. HeldContent[a] = Carried(LineOf(cache, a)) /\ HeldContent[a] # NotHeld
            BY <1>6, <1>8, <1>9 DEF ContentIn, Recency!Held
        <3> QED BY <1>9, <3>1 DEF FreshContent, Carried, GetSharers
    <2>4. Recency!Refill(a, new)
        <3> HIDE DEF new, gone
        <3> QED BY <1>5, <1>8, <1>9, <2>1, <2>2, <2>3 DEF Recency!Refill
    <2> HIDE DEF new
    <2> QED BY <1>3, <1>4, <1>7, <2>4 DEF Recency!Update
<1>10. ~Present(cache, a) => FreshContent(NotHeld, new)
    BY DEF FreshContent, GetSharers
<1>11. CASE ~Present(cache, a) /\ FindInvalid(SetOf(cache, a)) # NoWay
    <2>1. gone = {}
        BY <1>11, DisplacesOldest
    <2>2. HeldContent' = [HeldContent EXCEPT ![a] = new]
        <3> HIDE DEF new, gone
        <3> QED BY <1>3, <1>6, <2>1 DEF ContentIn
    <2>3. Recency!InstallFree(a, new)
        <3> HIDE DEF new, gone
        <3> QED BY <1>5, <1>8, <1>10, <1>11, <2>1, <2>2 DEF Recency!InstallFree
    <2> HIDE DEF new
    <2> QED BY <1>3, <1>4, <1>7, <2>3 DEF Recency!Update
<1>12. CASE ~Present(cache, a) /\ FindInvalid(SetOf(cache, a)) = NoWay
    <2>1. PICK b \in Addrs : gone = {b} /\ b # a /\ Recency!Oldest(a, b)
        BY <1>12, DisplacesOldest
    <2>2. HeldContent' = [HeldContent EXCEPT ![a] = new, ![b] = NotHeld]
        <3> HIDE DEF new, gone
        <3> QED BY <1>3, <1>6, <2>1 DEF ContentIn
    <2>3. Recency!InstallDisplacing(a, new, b)
        <3> HIDE DEF new, gone
        <3> QED BY <1>5, <1>8, <1>10, <1>12, <2>1, <2>2 DEF Recency!InstallDisplacing
    <2> HIDE DEF new
    <2> QED BY <1>3, <1>4, <1>7, <2>3 DEF Recency!Update
<1> QED BY <1>9, <1>11, <1>12

\* A call that finds no line to work on changes nothing.
LEMMA NothingToDo ==
    ASSUME RInv, cache' = cache, resp' = NoResp
    PROVE  LinesInUse(cache') /\ Recency!Idle
<1>1. OlderUse' = OlderUse /\ HeldContent' = HeldContent
    BY MappingIs
<1>2. LookupAnswer' = Recency!NoAnswer
    BY DEF LookupAnswer, NoResp, Recency!NoAnswer
<1> QED BY <1>1, <1>2 DEF Recency!Idle, RInv

\* A call that replaces the line it hits modifies or drops its content.
LEMMA ReplacementSimulated ==
    ASSUME RInv, SoundCache(cache'), NEW a \in Addrs, Present(cache, a),
           NEW line \in CacheLine,
           LineReplaced(cache, cache', GetSetIndex(a), WayOf(cache, a), line),
           IsValid(line) => line.tag = GetTag(a) /\ line.state \in States,
           resp' = NoResp
    PROVE  LinesInUse(cache') /\ Recency!Update(a)
<1>1. SoundCache(cache) /\ LinesInUse(cache)
    BY DEF RInv, Inv
<1>2. /\ LinesInUse(cache')
      /\ IsValid(line) =>
            /\ ContentIn(cache') = [ContentIn(cache) EXCEPT ![a] = Carried(line)]
            /\ OlderIn(cache') = OlderIn(cache)
      /\ ~IsValid(line) =>
            /\ ContentIn(cache') = [ContentIn(cache) EXCEPT ![a] = NotHeld]
            /\ OlderIn(cache') = UnusedIn(cache, {a})
    BY <1>1, Updated
<1>3. LookupAnswer' = Recency!NoAnswer
    BY DEF LookupAnswer, NoResp, Recency!NoAnswer
<1>4. Recency!Held(a)
    BY HeldMeansPresent
<1>5. CASE IsValid(line)
    <2>1. Carried(line) \in LineContents
        BY <1>5 DEF Carried, LineContents, CacheLine
    <2>2. Recency!Modify(a, Carried(line))
        BY <1>2, <1>4, <1>5, MappingIs DEF Recency!Modify
    <2> QED BY <1>2, <1>3, <2>1, <2>2 DEF Recency!Update
<1>6. CASE ~IsValid(line)
    <2>1. Recency!Drop(a)
        BY <1>2, <1>4, <1>6, MappingIs DEF Recency!Drop, Recency!Unused, UnusedIn
    <2> QED BY <1>2, <1>3, <2>1 DEF Recency!Update
<1> QED BY <1>5, <1>6

\* The updates in place are updates of a held line, or find nothing to do.
LEMMA UpdateSimulated ==
    ASSUME RInv, NEW a \in Addrs, resp' = NoResp,
           \/ \E n \in Nodes : DoAddSharer(a, n)
           \/ \E n \in Nodes : DoRemoveSharer(a, n)
           \/ DoClearSharers(a)
           \/ \E state \in States : DoSetState(a, state)
           \/ \E data \in Data : DoWriteData(a, data)
           \/ DoInvalidate(a)
    PROVE  LinesInUse(cache') /\ (Recency!Update(a) \/ Recency!Idle)
<1> DEFINE i == GetSetIndex(a)
           w == WayOf(cache, a)
           old == cache[i].lines[w]
<1>1. /\ SoundCache(cache) /\ LinesInUse(cache) /\ cache \in Caches
      /\ a \in Addr /\ i \in SetIndex /\ States \subseteq LineState \ {"I"}
    BY AddrRebuilt, StatesAssumption DEF RInv, Inv, SoundCache
<1>2. SoundCache(cache')
    BY <1>1, UpdatesSound
       DEF DoAddSharer, DoRemoveSharer, DoClearSharers, DoSetState,
           DoWriteData, DoInvalidate
<1>3. CASE ~Present(cache, a)
    <2>1. cache' = cache
        BY <1>3 DEF DoAddSharer, DoRemoveSharer, DoClearSharers, DoSetState,
                    DoWriteData, DoInvalidate, AddSharer, RemoveSharer,
                    ClearSharers, SetState, WriteData, Invalidate
    <2> QED BY <2>1, NothingToDo
<1>4. CASE Present(cache, a)
    <2>1. /\ old \in CacheLine /\ old.tag = GetTag(a) /\ w \in Way
          /\ old.state \in States
        <3>1. /\ w \in Way /\ IsValid(old) /\ old.tag = GetTag(a)
            BY <1>1, <1>4, TheWay
        <3>2. old.state \in States
            <4> HIDE DEF i, w
            <4> QED BY <1>1, <3>1 DEF LinesInUse
        <3> QED BY <1>1, <3>1, <3>2 DEF Caches, CacheSets
    <2>2. \E line \in CacheLine :
             /\ LineReplaced(cache, cache', i, w, line)
             /\ IsValid(line) => line.tag = GetTag(a) /\ line.state \in States
        <3> HIDE DEF old
        <3>1. ASSUME NEW n \in Nodes, DoAddSharer(a, n)
              PROVE  LineReplaced(cache, cache', i, w, [old EXCEPT !.sharers = @ \cup {n}])
            BY <1>1, <1>4, <3>1, UpdateOnHit DEF DoAddSharer, old
        <3>2. ASSUME NEW n \in Nodes, DoRemoveSharer(a, n)
              PROVE  LineReplaced(cache, cache', i, w, [old EXCEPT !.sharers = @ \ {n}])
            BY <1>1, <1>4, <3>2, UpdateOnHit DEF DoRemoveSharer, old
        <3>3. ASSUME DoClearSharers(a)
              PROVE  LineReplaced(cache, cache', i, w, [old EXCEPT !.sharers = {}])
            BY <1>1, <1>4, <3>3, UpdateOnHit DEF DoClearSharers, old
        <3>4. ASSUME NEW state \in States, DoSetState(a, state)
              PROVE  LineReplaced(cache, cache', i, w, [old EXCEPT !.state = state])
            <4>1. state \in LineState
                BY <1>1
            <4> QED BY <1>1, <1>4, <3>4, <4>1, UpdateOnHit DEF DoSetState, old
        <3>5. ASSUME NEW data \in Data, DoWriteData(a, data)
              PROVE  LineReplaced(cache, cache', i, w, [old EXCEPT !.data = data])
            BY <1>1, <1>4, <3>5, UpdateOnHit DEF DoWriteData, old
        <3>6. ASSUME DoInvalidate(a)
              PROVE  LineReplaced(cache, cache', i, w, ClearedLine)
            BY <1>1, <1>4, <3>6, UpdateOnHit DEF DoInvalidate
        <3>7. ClearedLine \in CacheLine /\ ~IsValid(ClearedLine)
            BY DataAssumption DEF ClearedLine, CacheLine, LineState, IsValid
        <3>8. /\ \A n \in Nodes :
                    /\ [old EXCEPT !.sharers = @ \cup {n}] \in CacheLine
                    /\ [old EXCEPT !.sharers = @ \cup {n}].tag = GetTag(a)
                    /\ [old EXCEPT !.sharers = @ \cup {n}].state \in States
                    /\ [old EXCEPT !.sharers = @ \ {n}] \in CacheLine
                    /\ [old EXCEPT !.sharers = @ \ {n}].tag = GetTag(a)
                    /\ [old EXCEPT !.sharers = @ \ {n}].state \in States
              /\ [old EXCEPT !.sharers = {}] \in CacheLine
              /\ [old EXCEPT !.sharers = {}].tag = GetTag(a)
              /\ [old EXCEPT !.sharers = {}].state \in States
            BY <2>1 DEF CacheLine
        <3>9. /\ \A state \in States :
                    /\ [old EXCEPT !.state = state] \in CacheLine
                    /\ [old EXCEPT !.state = state].tag = GetTag(a)
                    /\ [old EXCEPT !.state = state].state \in States
              /\ \A data \in Data :
                    /\ [old EXCEPT !.data = data] \in CacheLine
                    /\ [old EXCEPT !.data = data].tag = GetTag(a)
                    /\ [old EXCEPT !.data = data].state \in States
            BY <1>1, <2>1 DEF CacheLine
        <3>10. CASE \E n \in Nodes : DoAddSharer(a, n)
            BY <3>1, <3>8, <3>10
        <3>11. CASE \E n \in Nodes : DoRemoveSharer(a, n)
            BY <3>2, <3>8, <3>11
        <3>12. CASE DoClearSharers(a)
            BY <3>3, <3>8, <3>12
        <3>13. CASE \E state \in States : DoSetState(a, state)
            BY <3>4, <3>9, <3>13
        <3>14. CASE \E data \in Data : DoWriteData(a, data)
            BY <3>5, <3>9, <3>14
        <3>15. CASE DoInvalidate(a)
            BY <3>6, <3>7, <3>15
        <3> QED BY <3>10, <3>11, <3>12, <3>13, <3>14, <3>15
    <2> QED BY <1>2, <1>4, <2>2, ReplacementSimulated
<1> QED BY <1>3, <1>4

-----------------------------------------------------------------------------
(* The refinement *)

\* The empty cache is the abstract cache that holds nothing.
LEMMA InitSimulated == Init => RInv /\ Recency!Init
<1> SUFFICES ASSUME Init PROVE RInv /\ Recency!Init
    OBVIOUS
<1>1. Inv
    BY InitInv
<1>2. \A i \in SetIndex, w \in Way : ~IsValid(cache[i].lines[w])
    BY DEF Init, EmptyCache, EmptySet, ClearedLine, IsValid
<1>3. LinesInUse(cache)
    BY <1>2 DEF LinesInUse
<1>4. \A a \in Addrs : ~Present(cache, a)
    BY <1>1, <1>2, AddrRebuilt, TheWay DEF Inv
<1>5. OlderIn(cache) = {} /\ ContentIn(cache) = [a \in Addrs |-> NotHeld]
    BY <1>4 DEF OlderIn, HeldIn, ContentIn
<1>6. LookupAnswer = Recency!NoAnswer
    BY DEF Init, LookupAnswer, NoResp, Recency!NoAnswer
<1> QED BY <1>1, <1>3, <1>5, <1>6, MappingIs DEF RInv, Recency!Init

\* Every step keeps the invariant and is a step of the abstract cache.
LEMMA StepSimulated == RInv /\ [Next]_vars => RInv' /\ [Recency!Next]_(Recency!vars)
<1> SUFFICES ASSUME RInv, [Next]_vars PROVE RInv' /\ [Recency!Next]_(Recency!vars)
    OBVIOUS
<1>1. Inv'
    BY NextInv DEF RInv
<1>2. CASE UNCHANGED vars
    <2>1. OlderUse' = OlderUse /\ HeldContent' = HeldContent /\ LinesInUse(cache')
        BY <1>2, MappingIs DEF vars, RInv
    <2>2. LookupAnswer' = LookupAnswer
        BY <1>2 DEF vars, LookupAnswer
    <2> QED BY <1>1, <2>1, <2>2 DEF RInv, Recency!vars
<1>3. CASE Next
    <2>1. PICK a \in Addrs :
             \/ DoLookup(a)
             \/ \E state \in States, data \in Data : DoFill(a, state, data)
             \/ \E n \in Nodes : DoAddSharer(a, n)
             \/ \E n \in Nodes : DoRemoveSharer(a, n)
             \/ DoClearSharers(a)
             \/ \E state \in States : DoSetState(a, state)
             \/ \E data \in Data : DoWriteData(a, data)
             \/ DoInvalidate(a)
        BY <1>3 DEF Next
    <2>2. CASE DoLookup(a)
        BY <1>1, <2>2, LookupSimulated DEF RInv, Recency!Next
    <2>3. CASE \E state \in States, data \in Data : DoFill(a, state, data)
        BY <1>1, <2>3, FillSimulated DEF RInv, Recency!Next
    <2>4. CASE \/ \E n \in Nodes : DoAddSharer(a, n)
               \/ \E n \in Nodes : DoRemoveSharer(a, n)
               \/ DoClearSharers(a)
               \/ \E state \in States : DoSetState(a, state)
               \/ \E data \in Data : DoWriteData(a, data)
               \/ DoInvalidate(a)
        <3>1. resp' = NoResp
            BY <2>4 DEF DoAddSharer, DoRemoveSharer, DoClearSharers, DoSetState,
                        DoWriteData, DoInvalidate
        <3>2. LinesInUse(cache') /\ (Recency!Update(a) \/ Recency!Idle)
            BY <2>4, <3>1, UpdateSimulated
        <3> QED BY <1>1, <3>2 DEF RInv, Recency!Next
    <2> QED BY <2>1, <2>2, <2>3, <2>4
<1> QED BY <1>2, <1>3

\* L2Cache with its ways and ranks is a least-recently-used cache: hits, fills and
\* evictions find exactly the line used before all others of its set, whatever
\* holes invalidations have left in the ranking.
THEOREM RecencyImplemented == Spec => ImplementsRecency
BY InitSimulated, StepSimulated, PTL DEF Spec, ImplementsRecency, Recency!Spec
=============================================================================
