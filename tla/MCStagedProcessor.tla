-------------------------- MODULE MCStagedProcessor --------------------------
(***************************************************************************)
(* StagedProcessor over a ring of four slots (three usable, so the caller  *)
(* can find it full) and up to five events and the Shutdown event, which   *)
(* go round the ring.                                                      *)
(***************************************************************************)
EXTENDS StagedProcessor, Bitwise

PipelineItems == Event \cup {Shutdown}

\* Advance and Distance are what the code computes with its mask.
ASSUME MaskAssumption ==
    /\ \A i \in Index : Advance(i) = (i + 1) & (Capacity - 1)
    /\ \A i, j \in Index : Distance(i, j) = (j - i + Capacity) & (Capacity - 1)
=============================================================================
