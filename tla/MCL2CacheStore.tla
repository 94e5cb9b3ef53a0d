--------------------------- MODULE MCL2CacheStore ---------------------------
(***************************************************************************)
(* TLC instance of L2CacheStore, and the refinement mapping by which it    *)
(* implements RecencyCache: of two addresses held in a set, the one whose  *)
(* way has the lower rank was used first.                                  *)
(***************************************************************************)
EXTENDS L2CacheStore

Rank(a) == SetOf(cache, a).lru[WayOf(cache, a)]

OlderUse ==
    LET held == {a \in Addrs : Present(cache, a)}
    IN {p \in held \X held :
            /\ GetSetIndex(p[1]) = GetSetIndex(p[2])
            /\ Rank(p[1]) < Rank(p[2])}

NotHeld == [state |-> "I"]

HeldContent ==
    [a \in Addrs |->
        LET line == LineOf(cache, a)
        IN IF Present(cache, a)
           THEN [state |-> line.state, data |-> line.data, sharers |-> line.sharers]
           ELSE NotHeld]

LookupAnswer ==
    IF resp.result \in {"Hit", "Miss"}
    THEN [result |-> resp.result, addr |-> resp.addr]
    ELSE IF resp.result = "MissEvictDirty"
    THEN [result |-> resp.result,
          victim |-> MakeAddr(resp.evictTag, GetSetIndex(resp.addr))]
    ELSE [result |-> "None"]

LineContents == [state : States, data : Data, sharers : SUBSET Nodes]
DirtyContent(c) == c.state \in {"UD", "SD"}

\* A refill keeps the recorded sharers and an installed line starts with none.
FreshContent(old, new) ==
    new.sharers = IF old = NotHeld THEN {} ELSE old.sharers

Recency ==
    INSTANCE RecencyCache WITH
        SetFor <- GetSetIndex, Capacity <- NumWays,
        Contents <- LineContents, Absent <- NotHeld, Dirty <- DirtyContent,
        Fresh <- FreshContent,
        older <- OlderUse, content <- HeldContent, answer <- LookupAnswer

\* The array of ways with its ranks behaves as the recency order of RecencyCache:
\* hits, refills and evictions see exactly the least recently used line, also
\* after invalidations have left holes in the ranking.
ImplementsRecency == Recency!Spec
=============================================================================
