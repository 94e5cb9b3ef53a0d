----------------------------- MODULE Gem5Messages -----------------------------
(***************************************************************************)
(* What the middleware (our_l2_middleware.cc) makes of the engine's        *)
(* actions and of gem5's requests: the tables and the send helpers.  A     *)
(* message keeps the action whose address, id, destination and data it     *)
(* bears.                                                                  *)
(***************************************************************************)
EXTENDS ChiProtocolEngine

CONSTANT Beats      \* dataMsgsPerLine: data messages per line

ASSUME BeatsAssumption == Beats \in Nat \ {0}

Channel == {"req", "rsp", "dat", "snp"}

\* The engine's opcode for a gem5 request type; any other type but Evict is a
\* panic, and the L1 caches of this configuration send none.
Gem5ToOpcode ==
    [ReadShared |-> "ReadShared", StashOnceShared |-> "ReadShared",
     StashOnceUnique |-> "ReadShared",
     ReadUnique |-> "ReadUnique", MakeReadUnique |-> "ReadUnique",
     CleanUnique |-> "CleanUnique",
     WriteBackFull |-> "WriteBackFull", WriteUniquePtl |-> "WriteBackFull",
     WriteUniqueZero |-> "WriteBackFull", WriteCleanFull |-> "WriteBackFull",
     ReadNotSharedDirty |-> "ReadNotSharedDirty", ReadOnce |-> "ReadOnce",
     WriteUniqueFull |-> "WriteUniqueFull", WriteEvictFull |-> "WriteEvictFull"]

\* The state in which an L1 may take the line: a line that the L2 keeps in SD is
\* sent as shared and clean.
CompDataType(state) ==
    IF state = "UC" THEN "CompData_UC"
    ELSE IF state = "UD" THEN "CompData_UD_PD" ELSE "CompData_SC"

SnoopType ==
    [SendSnpCleanInvalid |-> "SnpCleanInvalid", SendSnpUnique |-> "SnpUnique",
     SendSnpNotSharedDirty |-> "SnpNotSharedDirtyFwd", SendSnpOnce |-> "SnpOnce"]

Message(channel, type, beat, action) ==
    [channel |-> channel, type |-> type, beat |-> beat, action |-> action]

\* A line goes out as Beats data messages.
Line(type, action) == [b \in 1 .. Beats |-> Message("dat", type, b, action)]

\* The send helpers: what each puts in the output buffers, in its order.
SendReadNoSnp(action) == <<Message("req", "ReadNoSnp", 0, action)>>

SendWriteNoSnp(action) ==
    <<Message("req", "WriteNoSnp", 0, action)>> \o Line("NCBWrData", action)

SendCompData(action) == Line(CompDataType(action.respState), action)

SendComp(type, action) == <<Message("rsp", type, 0, action)>>

SendCompDBIDResp(action) == <<Message("rsp", "CompDBIDResp", 0, action)>>

SendSnoop(action) == <<Message("snp", SnoopType[action.type], 0, action)>>

\* The messages of one action, in the order in which they are sent.
MessagesOf(action) ==
    CASE action.type = "SendReadNoSnp"    -> SendReadNoSnp(action)
      [] action.type = "SendWriteNoSnp"   -> SendWriteNoSnp(action)
      [] action.type = "SendCompData"     -> SendCompData(action)
      [] action.type = "SendComp"         -> SendComp("Comp_UC", action)
      [] action.type = "SendCompDBIDResp" -> SendCompDBIDResp(action)
      [] action.type \in SnoopTypes       -> SendSnoop(action)
=============================================================================
