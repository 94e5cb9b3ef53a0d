------------------------------ MODULE CacheSet ------------------------------
(***************************************************************************)
(* One set of the L2 cache (cache_line.hh): NumWays lines and an LRU rank  *)
(* for every way.  Rank 0 is the least recently used way, NumWays - 1 the  *)
(* most recently used one.  All operators are pure: they map a set to a    *)
(* set, and the state machines that own sets are built from them.          *)
(***************************************************************************)
EXTENDS Integers, FiniteSets

CONSTANTS
    NumWays,    \* associativity, numWays in the code
    Nodes,      \* the RN-F node identifiers that may be recorded as sharers
    Data,       \* the contents a cache line can have
    ZeroData    \* the contents of a line that has been cleared

ASSUME NumWaysAssumption == NumWays \in Nat \ {0}
ASSUME NodesAssumption   == Nodes \subseteq Nat /\ IsFiniteSet(Nodes)
ASSUME DataAssumption    == ZeroData \in Data

LineState == {"I", "UC", "SC", "UD", "SD"}

Way == 0 .. NumWays - 1
NoWay == -1     \* "not found", as the code's int results say it

CacheLine == [tag : Nat, state : LineState, data : Data, sharers : SUBSET Nodes]

IsValid(line)  == line.state # "I"
IsDirty(line)  == line.state \in {"UD", "SD"}
IsShared(line) == line.state \in {"SC", "SD"}

\* A line as the constructor and invalidate() leave it.
ClearedLine == [tag |-> 0, state |-> "I", data |-> ZeroData, sharers |-> {}]

CacheSets == [lines : [Way -> CacheLine], lru : [Way -> Way]]

EmptySet == [lines |-> [w \in Way |-> ClearedLine], lru |-> [w \in Way |-> w]]

-----------------------------------------------------------------------------
\* The first way, in the order of the scan, whose line satisfies the test.
FirstWay(ways) ==
    IF ways = {} THEN NoWay ELSE CHOOSE w \in ways : \A v \in ways : w <= v

FindWay(set, tag) ==
    FirstWay({w \in Way : IsValid(set.lines[w]) /\ set.lines[w].tag = tag})

FindInvalid(set) == FirstWay({w \in Way : ~IsValid(set.lines[w])})

\* Mutant: the comparison of the scan the other way round.
VictimWayNewest(set) ==
    CHOOSE w \in Way : \A v \in Way : set.lru[v] <= set.lru[w]

\* The least recently used way; the scan uses <=, so the last of equals wins.
VictimWay(set) ==
    CHOOSE w \in Way : \A v \in Way :
        \/ set.lru[w] < set.lru[v]
        \/ set.lru[w] = set.lru[v] /\ v <= w

\* Mutant: the ranks above the touched way's stay where they are.
TouchedRanksUnshifted(lru, way) ==
    [w \in Way |-> IF w = way THEN NumWays - 1 ELSE lru[w]]

\* Mutant: the top rank is off by one.
TouchedRanksTooHigh(lru, way) ==
    [w \in Way |-> IF w = way THEN NumWays
                   ELSE IF lru[w] > lru[way] THEN lru[w] - 1
                   ELSE lru[w]]

\* Ranks above the touched way's move down by one and it takes the top rank.
TouchedRanks(lru, way) ==
    [w \in Way |-> IF w = way THEN NumWays - 1
                   ELSE IF lru[w] > lru[way] THEN lru[w] - 1
                   ELSE lru[w]]

Touch(set, way) == [set EXCEPT !.lru = TouchedRanks(@, way)]

\* Replace the line in a way.
WithLine(set, way, line) == [set EXCEPT !.lines[way] = line]
=============================================================================
