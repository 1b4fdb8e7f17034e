------------------------------- MODULE MuonState -------------------------------
(***************************************************************************)
(* DistMuon on one rank between its program's calls: what a step checks of *)
(* gradients, storage and momentum before it touches anything, and what    *)
(* load_state_dict replaces and has checked again.                         *)
(***************************************************************************)
EXTENDS Naturals, FiniteSets

CONSTANTS
  Params,        \* 1 .. n, in the order of the plan
  ComputeReady,  \* those stored as they are computed
  GoesOn,        \* whether the program goes on after load_state_dict raised
  MaxSteps       \* bound on steps

ASSUME ParamsAssumption == IsFiniteSet(Params) /\ Params = 1 .. Cardinality(Params)
ASSUME ReadyAssumption == ComputeReady \subseteq Params

\* A gradient or momentum is absent, laid out like the parameter, or otherwise.
Layouts == {"none", "stored", "moved"}

VARIABLES
  grad,       \* parameter -> layout of its gradient
  kept,       \* parameters whose local storage is the one planned for
  momentum,   \* parameter -> [layout, steps]: gradients it averages
  updates,    \* parameter -> updates applied
  validated,  \* _first_step_validated
  phase,      \* "idle", "running", "dead"
  prepared,   \* parameters prepared by the running step
  applied,    \* parameters it updated
  before,     \* momentum and updates when the last step began
  raised,     \* whether it raised, until another state is loaded
  saved       \* momentum of the last state_dict

vars == <<grad, kept, momentum, updates, validated, phase, prepared, applied,
          before, raised, saved>>
program == <<grad, kept>>
running == <<phase, prepared, applied, before, raised>>
stepped == <<phase, prepared, applied, before>>

NoMomentum == [p \in Params |-> [layout |-> "none", steps |-> 0]]
Began == [momentum |-> momentum, updates |-> updates]

Init ==
  /\ grad = [p \in Params |-> "none"]
  /\ kept = Params
  /\ momentum = NoMomentum
  /\ updates = [p \in Params |-> 0]
  /\ validated = FALSE
  /\ phase = "idle" /\ prepared = {} /\ applied = {}
  /\ before = Began /\ raised = FALSE
  /\ saved = momentum

----------------------------------------------------------------------------
(* The program. *)

\* A backward reaches some parameters; one may come with a gradient of
\* another layout, and zero_grad may leave them without any.
Backward ==
  /\ phase = "idle"
  /\ \E reached \in SUBSET Params, odd \in SUBSET Params :
       /\ Cardinality(odd) <= 1 /\ odd \subseteq reached
       /\ grad' = [p \in Params |-> CASE p \in odd -> "moved"
                                      [] p \in reached \ odd -> "stored"
                                      [] OTHER -> "none"]
  /\ UNCHANGED <<kept, momentum, updates, validated, running, saved>>

\* Someone replaces the local storage of a parameter, to_empty for one.
ReplaceStorage(p) ==
  /\ phase = "idle"
  /\ kept' = kept \ {p}
  /\ UNCHANGED <<grad, momentum, updates, validated, running, saved>>

StateDict ==
  /\ phase = "idle"
  /\ saved' = momentum
  /\ UNCHANGED <<program, momentum, updates, validated, running>>

----------------------------------------------------------------------------
(* Steps. *)

InputsValid ==
  /\ \A p \in Params : grad[p] = "stored"
  /\ ComputeReady \subseteq kept

\* Checks everything, and momentum on the first step of a state only; creates
\* momentum when nothing is wrong.
Preflight ==
  LET momentumValid == validated \/ \A p \in Params : momentum[p].layout # "moved"
      valid == InputsValid /\ momentumValid
  IN  /\ phase = "idle"
      /\ \A p \in Params : updates[p] < MaxSteps
      /\ before' = Began
      /\ prepared' = {} /\ applied' = {}
      /\ raised' = ~valid
      /\ IF ~valid THEN UNCHANGED <<momentum, validated, phase>>
         ELSE /\ phase' = "running" /\ validated' = TRUE
              /\ momentum' = IF validated THEN momentum
                             ELSE [p \in Params |->
                                     IF momentum[p].layout # "none" THEN momentum[p]
                                     ELSE [layout |-> "stored", steps |-> 0]]
      /\ UNCHANGED <<program, updates, saved>>

\* Folds the gradient into the momentum; momentum that is gone or laid out
\* otherwise raises out of the step.
PrepareLocal(p) ==
  /\ phase = "running" /\ p \notin prepared /\ \A q \in Params : q < p => q \in prepared
  /\ IF momentum[p].layout = "stored"
     THEN /\ momentum' = [momentum EXCEPT ![p].steps = @ + 1]
          /\ prepared' = prepared \cup {p}
          /\ UNCHANGED <<phase, raised>>
     ELSE /\ phase' = "dead" /\ raised' = TRUE
          /\ UNCHANGED <<momentum, prepared>>
  /\ UNCHANGED <<program, updates, validated, applied, before, saved>>

ApplyUpdate(p) ==
  /\ phase = "running" /\ p \in prepared \ applied /\ \A q \in Params : q < p => q \in applied
  /\ updates' = [updates EXCEPT ![p] = @ + 1]
  /\ applied' = applied \cup {p}
  /\ UNCHANGED <<program, momentum, validated, phase, prepared, before, raised, saved>>

\* Mutant of EndStep: returns when the last parameter was prepared.
MutEndStepEarly ==
  /\ phase = "running" /\ prepared = Params
  /\ phase' = "idle"
  /\ UNCHANGED <<program, momentum, updates, validated, prepared, applied,
                 before, raised, saved>>

EndStep ==
  /\ phase = "running" /\ applied = Params
  /\ phase' = "idle"
  /\ UNCHANGED <<program, momentum, updates, validated, prepared, applied,
                 before, raised, saved>>

----------------------------------------------------------------------------
(* load_state_dict. *)

\* What a loaded state may hold: what was saved, nothing, or one momentum laid
\* out for another mesh.
Loadable == {saved, NoMomentum} \cup {[saved EXCEPT ![p].layout = "moved"] : p \in Params}

\* Mutant of LoadStateDict: keeps the first-step check as done.
MutLoadStateDictValidated ==
  /\ phase = "idle"
  /\ momentum' \in Loadable
  /\ raised' = FALSE
  /\ UNCHANGED <<program, updates, validated, stepped, saved>>

\* The state is replaced first.  Then the group that came with it is validated,
\* everything replanned and the plans compared across ranks, any of which may
\* raise; the check of the next step is asked for only after all of them.
LoadStateDict ==
  /\ phase = "idle"
  /\ \E accepted \in BOOLEAN :
       /\ accepted \/ GoesOn
       /\ validated' = (validated /\ ~accepted)
  /\ momentum' \in Loadable
  /\ raised' = FALSE
  /\ UNCHANGED <<program, updates, stepped, saved>>

Next ==
  \/ Backward
  \/ StateDict
  \/ Preflight
  \/ EndStep
  \/ LoadStateDict
  \/ \E p \in Params : ReplaceStorage(p) \/ PrepareLocal(p) \/ ApplyUpdate(p)

Spec == Init /\ [][Next]_vars

----------------------------------------------------------------------------
(* Properties. *)

\* "A deterministic input error cannot partially update an earlier bucket": a
\* step that raised left every parameter and every momentum as it was.
RaisedStepChangedNothing == raised => before = Began

\* Outside a step, whatever was saved, loaded and refused between, every
\* momentum has seen as many gradients as the others, and every parameter as
\* many updates.
ParamsInStep ==
  phase = "idle" =>
    \A p, q \in Params :
      /\ updates[p] = updates[q]
      /\ momentum[p].steps = momentum[q].steps
================================================================================
