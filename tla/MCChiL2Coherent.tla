--------------------------- MODULE MCChiL2Coherent ---------------------------
(***************************************************************************)
(* TLC instances of ChiL2Coherent.  What is left out of SafeWorkload the   *)
(* other workloads show to be unsafe.                                      *)
(***************************************************************************)
EXTENDS ChiL2Coherent

\* One line is read and written by everybody; one is upgraded by the first RN-F,
\* and only asked for as unique by the others; one is kept and evicted by the
\* first RN-F alone.
SafeWorkload ==
    (Nodes \X {64} \X {"ReadShared", "ReadUnique", "ReadNotSharedDirty", "ReadOnce",
                       "WriteBackFull"})
    \cup ({1} \X {0} \X {"ReadShared", "CleanUnique"})
    \cup ((Nodes \ {1}) \X {0} \X {"ReadUnique", "ReadNotSharedDirty", "WriteBackFull"})
    \cup ({1} \X {128} \X {"ReadShared", "ReadOnce", "Evict"})
    \cup ((Nodes \ {1}) \X {128} \X {"ReadOnce"})

\* It is one of those for which coherence is proved in ChiL2CoherentProofs.
ASSUME SafeWorkloadIsSafe == Workload = SafeWorkload => SafeUse

\* An upgraded line is read by others.
UpgradeWorkload == Nodes \X {64} \X {"ReadShared", "CleanUnique"}

\* A line that was written is evicted by a reader.
EvictWorkload == Nodes \X {64} \X {"ReadShared", "ReadUnique", "Evict"}

\* Everybody writes one line.
WriteWorkload == Nodes \X {64} \X {"ReadUnique"}

\* Each RN-F writes a line of its own.
OwnLinesWorkload ==
    ({1} \X {64} \X {"ReadUnique", "WriteBackFull"})
    \cup ({2} \X {0} \X {"ReadUnique", "WriteBackFull"})
=============================================================================
