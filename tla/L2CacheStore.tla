---------------------------- MODULE L2CacheStore ----------------------------
(***************************************************************************)
(* The L2 cache on its own: any sequence of calls of the public interface  *)
(* of L2Cache, on line addresses of a finite set.  The variable resp is    *)
(* what the last lookup() returned, and NoResp after any other call.       *)
(***************************************************************************)
EXTENDS L2Cache

CONSTANTS
    Addrs,      \* the line-aligned addresses the callers use
    States      \* the line states they give to fill() and setState()

ASSUME AddrsAssumption ==
    Addrs \subseteq {a \in Addr : a % LineSize = 0}
ASSUME StatesAssumption == States \subseteq LineState \ {"I"}

VARIABLES cache, resp

vars == <<cache, resp>>

NoResp == [result |-> "None"]

\* LookupResponse, without the copies of line contents.
LookupResponse(c, addr) ==
    LET result == LookupResult(c, addr)
        victim == VictimLine(c, addr)
    IN  CASE result = "Hit" ->
                [result |-> result, addr |-> addr, state |-> GetState(c, addr)]
          [] result = "Miss" ->
                [result |-> result, addr |-> addr, state |-> "I"]
          [] OTHER ->
                [result |-> result, addr |-> addr, state |-> "I",
                 evictTag |-> victim.tag,
                 evictSharer |-> IF IsShared(victim) /\ victim.sharers # {}
                                 THEN CHOOSE n \in victim.sharers :
                                          \A m \in victim.sharers : n <= m
                                 ELSE 0]

TypeOK ==
    /\ cache \in Caches
    /\ resp.result \in {"None", "Hit", "Miss", "MissEvictDirty"}

Init ==
    /\ cache = EmptyCache
    /\ resp = NoResp

-----------------------------------------------------------------------------
DoLookup(a) ==
    /\ cache' = Lookup(cache, a)
    /\ resp' = LookupResponse(cache, a)

DoFill(a, state, data) ==
    /\ cache' = Fill(cache, a, state, data)
    /\ resp' = NoResp

DoAddSharer(a, n) ==
    /\ cache' = AddSharer(cache, a, n)
    /\ resp' = NoResp

DoRemoveSharer(a, n) ==
    /\ cache' = RemoveSharer(cache, a, n)
    /\ resp' = NoResp

DoClearSharers(a) ==
    /\ cache' = ClearSharers(cache, a)
    /\ resp' = NoResp

DoSetState(a, state) ==
    /\ cache' = SetState(cache, a, state)
    /\ resp' = NoResp

DoWriteData(a, data) ==
    /\ cache' = WriteData(cache, a, data)
    /\ resp' = NoResp

DoInvalidate(a) ==
    /\ cache' = Invalidate(cache, a)
    /\ resp' = NoResp

Next ==
    \E a \in Addrs :
        \/ DoLookup(a)
        \/ \E state \in States, data \in Data : DoFill(a, state, data)
        \/ \E n \in Nodes : DoAddSharer(a, n)
        \/ \E n \in Nodes : DoRemoveSharer(a, n)
        \/ DoClearSharers(a)
        \/ \E state \in States : DoSetState(a, state)
        \/ \E data \in Data : DoWriteData(a, data)
        \/ DoInvalidate(a)

Spec == Init /\ [][Next]_vars

-----------------------------------------------------------------------------
\* The ranks of a set are a permutation of its ways: touch() must never give
\* two ways the same rank, or the scan of victimWay() would pick by position
\* instead of by age.
LruIsPermutation ==
    \A i \in SetIndex :
        \A v, w \in Way : cache[i].lru[v] = cache[i].lru[w] => v = w

\* The address rebuilt from a line's tag and set index leads back to that very
\* line: no line is shadowed by another copy in the set and none is filed under
\* an index that lookup() would not search.
EveryLineReachable ==
    \A i \in SetIndex, w \in Way :
        IsValid(cache[i].lines[w]) =>
            LET a == MakeAddr(cache[i].lines[w].tag, i)
            IN GetSetIndex(a) = i /\ WayOf(cache, a) = w
=============================================================================
