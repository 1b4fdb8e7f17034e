------------------------------ MODULE MuonStep ------------------------------
(***************************************************************************)
(* What DistMuon's pipelined step() promises the training loop: a backward *)
(* sees every update of the step before it, and then each bucket of the    *)
(* new step is updated once, in any order the streams choose.              *)
(***************************************************************************)
EXTENDS Naturals

VARIABLES
  step,     \* backwards the device has run
  pending,  \* buckets of this step still to be updated
  raised    \* whether a callback raised, which ends the job

vars == <<step, pending, raised>>

Init == step = 0 /\ pending = {} /\ raised = FALSE

Backward ==
  /\ pending = {}
  /\ step' = step + 1
  /\ pending' \in SUBSET Nat
  /\ UNCHANGED raised

Update ==
  /\ \E p \in pending : pending' = pending \ {p}
  /\ UNCHANGED <<step, raised>>

Raise ==
  /\ ~raised /\ raised' = TRUE
  /\ UNCHANGED <<step, pending>>

Next == Backward \/ Update \/ Raise

\* Every update of a step happens, unless a callback raised.
Spec == Init /\ [][Next]_vars /\ WF_vars(~raised /\ Update)
=============================================================================
