------------------------- MODULE MCCheckpointStore -------------------------
(***************************************************************************)
(* Model-checking instances of CheckpointStore with three runs.  Each      *)
(* behaviour is one of them and part says which.                           *)
(*                                                                         *)
(*   faults     nothing is pruned; two writes or unlinks may fail, and a   *)
(*              second active run is refused                               *)
(*   retention  one ended run is retained, one write or unlink may fail,   *)
(*              and two runs may be active                                 *)
(*                                                                         *)
(* In both only the first run is delivered.                                *)
(***************************************************************************)
EXTENDS CheckpointStore

VARIABLE part

Retention == INSTANCE CheckpointStore WITH Retained <- 1, MaxActive <- 2, MaxFaults <- 1

\* A bound: one run whose mark of delivery may be lost is enough.
FirstDelivered == receipts' \cup history'.received \subseteq {1}

MCInit == part \in {"faults", "retention"} /\ Init
MCNext == /\ UNCHANGED part
          /\ \/ part = "faults" /\ Next
             \/ part = "retention" /\ Retention!Next
          /\ FirstDelivered
MCSpec == MCInit /\ [][MCNext]_<<part, vars>>
=============================================================================
