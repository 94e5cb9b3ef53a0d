---------------------------- MODULE RecencyCache ----------------------------
(***************************************************************************)
(* What a set-associative LRU cache promises, with no ways and no ranks:   *)
(* the contents of the addresses it holds, never more than Capacity of     *)
(* them in a set, and which of two addresses of a set was used before the  *)
(* other.  Only a full set displaces a line, and only the one that was     *)
(* used before all others; a lookup that reports a dirty victim reports    *)
(* that one.                                                               *)
(***************************************************************************)
EXTENDS Naturals, FiniteSets

CONSTANTS
    Addrs,          \* line addresses
    SetFor(_),      \* the set an address belongs to
    Capacity,       \* lines per set
    Contents,       \* what a held line can carry
    Absent,         \* the content of an address that is not held
    Dirty(_),       \* is this content dirty?
    Fresh(_, _)     \* Fresh(old, new): may a fill turn old content into new?

VARIABLES
    older,          \* pairs of held addresses of one set, the older use first
    content,        \* address -> its content, or Absent
    answer          \* the outcome of the last call, if it was a lookup

vars == <<older, content, answer>>

NoAnswer == [result |-> "None"]

Held(a) == content[a] # Absent

Companions(a) == {b \in Addrs : Held(b) /\ SetFor(b) = SetFor(a)}

Init ==
    /\ older = {}
    /\ content = [a \in Addrs |-> Absent]
    /\ answer = NoAnswer

Full(a) == Cardinality(Companions(a)) = Capacity

\* Of the lines that share the set of a, the one used before all others.
Oldest(a, b) ==
    /\ b \in Companions(a)
    /\ \A c \in Companions(a) : c # b => <<b, c>> \in older

Unused(gone) == {p \in older : p[1] \notin gone /\ p[2] \notin gone}

\* a has just been used, after all that stay in its set.
Used(a, gone) ==
    older' = Unused({a} \cup gone)
                \cup {<<b, a>> : b \in Companions(a) \ ({a} \cup gone)}

LookupHit(a) ==
    /\ Held(a)
    /\ answer' = [result |-> "Hit", addr |-> a]
    /\ Used(a, {})
    /\ UNCHANGED content

\* What a fill of a would displace, and the caller would have to write back.
DirtyVictim(a, b) == Full(a) /\ Oldest(a, b) /\ Dirty(content[b])

LookupMiss(a) ==
    /\ ~Held(a)
    /\ \/ \E b \in Addrs :
             /\ DirtyVictim(a, b)
             /\ answer' = [result |-> "MissEvictDirty", victim |-> b]
       \/ /\ \A b \in Addrs : ~DirtyVictim(a, b)
          /\ answer' = [result |-> "Miss", addr |-> a]
    /\ UNCHANGED <<older, content>>

\* A line already held is refreshed and becomes the most recent.
Refill(a, new) ==
    /\ Held(a)
    /\ Fresh(content[a], new)
    /\ content' = [content EXCEPT ![a] = new]
    /\ Used(a, {})

InstallFree(a, new) ==
    /\ ~Held(a)
    /\ ~Full(a)
    /\ Fresh(Absent, new)
    /\ content' = [content EXCEPT ![a] = new]
    /\ Used(a, {})

\* A full set gives up its least recently used line, and no other.
InstallDisplacing(a, new, victim) ==
    /\ ~Held(a)
    /\ Full(a)
    /\ Oldest(a, victim)
    /\ Fresh(Absent, new)
    /\ content' = [content EXCEPT ![a] = new, ![victim] = Absent]
    /\ Used(a, {victim})

\* Changing what a held line carries is not a use of it.
Modify(a, new) ==
    /\ Held(a)
    /\ content' = [content EXCEPT ![a] = new]
    /\ UNCHANGED older

Drop(a) ==
    /\ Held(a)
    /\ content' = [content EXCEPT ![a] = Absent]
    /\ older' = Unused({a})

Update(a) ==
    /\ answer' = NoAnswer
    /\ \/ \E new \in Contents :
             \/ Refill(a, new)
             \/ InstallFree(a, new)
             \/ \E victim \in Addrs : InstallDisplacing(a, new, victim)
             \/ Modify(a, new)
       \/ Drop(a)

\* A call that finds nothing to do.
Idle ==
    /\ answer' = NoAnswer
    /\ UNCHANGED <<older, content>>

Next ==
    \/ Idle
    \/ \E a \in Addrs : LookupHit(a) \/ LookupMiss(a) \/ Update(a)

Spec == Init /\ [][Next]_vars
=============================================================================
