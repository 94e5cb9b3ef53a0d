------------------------------ MODULE L2Cache -------------------------------
(***************************************************************************)
(* The storage interface of L2Cache (l2_cache.cc) as operators on a cache  *)
(* value: a function from set indices to cache sets.  An address is a      *)
(* natural number; its offset, set index and tag are obtained by division, *)
(* which is what the shifts and masks compute when NumSets is a power of   *)
(* two (the constructor asserts that it is).                               *)
(***************************************************************************)
EXTENDS CacheSet

CONSTANTS
    NumSets,    \* number of sets, a power of two
    LineSize    \* bytes per line, CACHE_LINE_SIZE

ASSUME NumSetsAssumption  == NumSets \in Nat \ {0}
ASSUME LineSizeAssumption == LineSize \in Nat \ {0}

Addr == Nat
SetIndex == 0 .. NumSets - 1

GetTag(addr)        == (addr \div LineSize) \div NumSets
GetSetIndex(addr)   == (addr \div LineSize) % NumSets
MakeAddr(tag, index) == (tag * NumSets + index) * LineSize

Caches == [SetIndex -> CacheSets]

EmptyCache == [i \in SetIndex |-> EmptySet]

SetOf(c, addr) == c[GetSetIndex(addr)]
WayOf(c, addr) == FindWay(SetOf(c, addr), GetTag(addr))
Present(c, addr) == WayOf(c, addr) # NoWay
LineOf(c, addr) == SetOf(c, addr).lines[WayOf(c, addr)]

-----------------------------------------------------------------------------
(* Queries *)

GetSharers(c, addr) == IF Present(c, addr) THEN LineOf(c, addr).sharers ELSE {}
GetState(c, addr)   == IF Present(c, addr) THEN LineOf(c, addr).state ELSE "I"
NeedsWriteback(c, addr) == Present(c, addr) /\ IsDirty(LineOf(c, addr))

\* What a read of getData() yields; it returns a null pointer on a miss, so
\* every use of it is guarded by Present.
GetData(c, addr) == LineOf(c, addr).data

\* The line that a fill of addr would displace, when every way is occupied.
VictimLine(c, addr) ==
    LET set == SetOf(c, addr) IN set.lines[VictimWay(set)]

LookupResult(c, addr) ==
    IF Present(c, addr) THEN "Hit"
    ELSE IF FindInvalid(SetOf(c, addr)) # NoWay THEN "Miss"
    ELSE IF IsDirty(VictimLine(c, addr)) THEN "MissEvictDirty"
    ELSE "Miss"

-----------------------------------------------------------------------------
(* Updates *)

\* lookup() changes the cache only on a hit, by touching the way.
Lookup(c, addr) ==
    IF Present(c, addr)
    THEN [c EXCEPT ![GetSetIndex(addr)] = Touch(@, WayOf(c, addr))]
    ELSE c

\* Mutant: fill() does not look for the line before it takes a way.
FillWayUnsearched(c, addr) ==
    LET set == SetOf(c, addr)
    IN IF FindInvalid(set) # NoWay THEN FindInvalid(set) ELSE VictimWay(set)

\* Where fill() puts a line: in place, else a free way, else the victim's.
FillWay(c, addr) ==
    LET set == SetOf(c, addr)
    IN IF Present(c, addr) THEN WayOf(c, addr)
       ELSE IF FindInvalid(set) # NoWay THEN FindInvalid(set)
       ELSE VictimWay(set)

\* An in-place fill keeps the sharers; any other fill clears them.
Fill(c, addr, state, data) ==
    LET way  == FillWay(c, addr)
        line == [tag |-> GetTag(addr), state |-> state, data |-> data,
                 sharers |-> GetSharers(c, addr)]
    IN [c EXCEPT ![GetSetIndex(addr)] = Touch(WithLine(@, way, line), way)]

\* The other updates change the line in its way, and do nothing on a miss.
AddSharer(c, addr, node) ==
    IF Present(c, addr)
    THEN [c EXCEPT ![GetSetIndex(addr)].lines[WayOf(c, addr)].sharers = @ \cup {node}]
    ELSE c

RemoveSharer(c, addr, node) ==
    IF Present(c, addr)
    THEN [c EXCEPT ![GetSetIndex(addr)].lines[WayOf(c, addr)].sharers = @ \ {node}]
    ELSE c

ClearSharers(c, addr) ==
    IF Present(c, addr)
    THEN [c EXCEPT ![GetSetIndex(addr)].lines[WayOf(c, addr)].sharers = {}]
    ELSE c

SetState(c, addr, state) ==
    IF Present(c, addr)
    THEN [c EXCEPT ![GetSetIndex(addr)].lines[WayOf(c, addr)].state = state]
    ELSE c

WriteData(c, addr, data) ==
    IF Present(c, addr)
    THEN [c EXCEPT ![GetSetIndex(addr)].lines[WayOf(c, addr)].data = data]
    ELSE c

Invalidate(c, addr) ==
    IF Present(c, addr)
    THEN [c EXCEPT ![GetSetIndex(addr)].lines[WayOf(c, addr)] = ClearedLine]
    ELSE c
=============================================================================
