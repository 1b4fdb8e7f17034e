--------------------------- MODULE MuonStateProofs ---------------------------
(***************************************************************************)
(* What holds of MuonState for any parameters and bounds.                  *)
(***************************************************************************)
EXTENDS MuonState, TLAPS

\* The gradient a running step has folded into a momentum already.
Folded(p) == IF phase = "running" /\ p \in prepared THEN 1 ELSE 0
Applied(p) == IF phase = "running" /\ p \in applied THEN 1 ELSE 0

Momenta == [Params -> [layout : Layouts, steps : Nat]]

\* Momentum that does not exist averages nothing.
AbsentIsNew(m) == \A p \in Params : m[p].layout = "none" => m[p].steps = 0
InStep(m) == \A p, q \in Params : m[p].steps = m[q].steps

Typed ==
  /\ momentum \in Momenta /\ saved \in Momenta
  /\ updates \in [Params -> Nat]
  /\ phase \in {"idle", "running", "dead"}
  /\ validated \in BOOLEAN
  /\ prepared \subseteq Params /\ applied \subseteq prepared

\* ParamsInStep within a step: what is not folded or applied yet is one short.
StepsAgree ==
  /\ AbsentIsNew(momentum) /\ AbsentIsNew(saved) /\ InStep(saved)
  /\ phase # "dead" =>
       \A p, q \in Params :
         /\ momentum[p].steps - Folded(p) = momentum[q].steps - Folded(q)
         /\ updates[p] - Applied(p) = updates[q] - Applied(q)

IInv == Typed /\ StepsAgree

\* Every momentum the program can load is one a step may start from.
LEMMA LoadableMomentum ==
  ASSUME IInv, NEW m \in Loadable
  PROVE  m \in Momenta /\ AbsentIsNew(m) /\ InStep(m)
<1>1. CASE m = saved
  BY <1>1 DEF IInv, Typed, StepsAgree
<1>2. CASE m = NoMomentum
  BY <1>2 DEF NoMomentum, Momenta, Layouts, AbsentIsNew, InStep
<1>3. ASSUME NEW p \in Params, m = [saved EXCEPT ![p].layout = "moved"]
      PROVE  m \in Momenta /\ AbsentIsNew(m) /\ InStep(m)
  <2>1. saved \in Momenta /\ AbsentIsNew(saved) /\ InStep(saved)
    BY DEF IInv, Typed, StepsAgree
  <2>2. m \in Momenta
    BY <1>3, <2>1 DEF Momenta, Layouts
  <2>3. \A q \in Params : /\ m[q].steps = saved[q].steps
                          /\ m[q].layout = "none" => saved[q].layout = "none"
    BY <1>3, <2>1 DEF Momenta, Layouts
  <2> QED
    BY <2>1, <2>2, <2>3 DEF AbsentIsNew, InStep
<1> QED
  BY <1>1, <1>2, <1>3 DEF Loadable

LEMMA InitIInv == Init => IInv
<1> SUFFICES ASSUME Init PROVE IInv
  OBVIOUS
<1>1. NoMomentum \in Momenta /\ AbsentIsNew(NoMomentum) /\ InStep(NoMomentum)
  BY DEF NoMomentum, Momenta, Layouts, AbsentIsNew, InStep
<1>2. Typed
  BY <1>1 DEF Init, Typed
<1>3. StepsAgree
  BY <1>1 DEF Init, StepsAgree, Folded, Applied, AbsentIsNew, InStep
<1> QED
  BY <1>2, <1>3 DEF IInv

\* Steps of the program, which touch neither momentum nor updates.
LEMMA ProgramKeeps ==
  ASSUME IInv, \/ Backward \/ StateDict \/ \E p \in Params : ReplaceStorage(p)
  PROVE  IInv'
<1>1. /\ phase = "idle" /\ phase' = "idle"
      /\ UNCHANGED <<momentum, updates, validated, prepared, applied>>
      /\ saved' \in {saved, momentum}
  BY DEF Backward, StateDict, ReplaceStorage, running
<1>2. Typed'
  BY <1>1 DEF IInv, Typed
<1>3. \A p \in Params : Folded(p) = 0 /\ Folded(p)' = 0 /\ Applied(p) = 0 /\ Applied(p)' = 0
  BY <1>1 DEF Folded, Applied
<1>4. \A p, q \in Params : momentum[p].steps - 0 = momentum[q].steps - 0 /\ updates[p] - 0 = updates[q] - 0
  BY <1>1, <1>3 DEF IInv, StepsAgree
<1>5. InStep(momentum)
  BY <1>4 DEF InStep, IInv, Typed, Momenta
<1> QED
  BY <1>1, <1>2, <1>3, <1>4, <1>5 DEF IInv, StepsAgree, AbsentIsNew, InStep

LEMMA PreflightKeeps ==
  ASSUME IInv, Preflight
  PROVE  IInv'
<1>1. /\ phase = "idle" /\ phase' \in {"idle", "running"} /\ validated' \in BOOLEAN
      /\ prepared' = {} /\ applied' = {} /\ UNCHANGED <<updates, saved>>
  BY DEF Preflight, IInv, Typed
<1>2. \A p \in Params : Folded(p) = 0 /\ Folded(p)' = 0 /\ Applied(p) = 0 /\ Applied(p)' = 0
  BY <1>1 DEF Folded, Applied
<1>3. /\ momentum' \in Momenta
      /\ \A p \in Params : momentum'[p].steps = momentum[p].steps
      /\ AbsentIsNew(momentum')
  <2>1. CASE momentum' = momentum
    BY <2>1 DEF IInv, Typed, StepsAgree
  <2>2. CASE momentum' = [p \in Params |-> IF momentum[p].layout # "none" THEN momentum[p]
                                           ELSE [layout |-> "stored", steps |-> 0]]
    <3>1. \A p \in Params : momentum[p] \in [layout : Layouts, steps : Nat]
      BY DEF IInv, Typed, Momenta
    <3>2. momentum' \in Momenta
      BY <2>2, <3>1 DEF Momenta, Layouts
    <3>3. \A p \in Params : momentum'[p].steps = momentum[p].steps /\ momentum'[p].layout # "none"
      BY <2>2, <3>1 DEF IInv, StepsAgree, AbsentIsNew
    <3> QED
      BY <3>2, <3>3 DEF AbsentIsNew
  <2> QED
    BY <2>1, <2>2 DEF Preflight
<1>4. Typed'
  BY <1>1, <1>3 DEF IInv, Typed
<1> QED
  BY <1>1, <1>2, <1>3, <1>4 DEF IInv, StepsAgree, AbsentIsNew, InStep

LEMMA PrepareLocalKeeps ==
  ASSUME IInv, NEW p \in Params, PrepareLocal(p)
  PROVE  IInv'
<1>1. /\ phase = "running" /\ p \notin prepared /\ UNCHANGED <<updates, validated, applied, saved>>
      /\ momentum[p] \in [layout : Layouts, steps : Nat]
  BY DEF PrepareLocal, IInv, Typed, Momenta
<1>2. CASE momentum[p].layout = "stored"
  <2>1. /\ momentum' = [momentum EXCEPT ![p].steps = @ + 1]
        /\ prepared' = prepared \cup {p} /\ phase' = phase
    BY <1>2 DEF PrepareLocal
  <2>2. Typed'
    BY <1>1, <2>1 DEF IInv, Typed, Momenta
  <2>3. \A q \in Params : /\ momentum'[q].layout = momentum[q].layout
                          /\ momentum[q].steps \in Nat
                          /\ momentum'[q].steps = momentum[q].steps + (IF q = p THEN 1 ELSE 0)
                          /\ Folded(q)' = Folded(q) + (IF q = p THEN 1 ELSE 0)
                          /\ Folded(q) \in {0, 1}
                          /\ Applied(q)' = Applied(q)
    BY <1>1, <2>1 DEF IInv, Typed, Momenta, Folded, Applied
  <2>4. \A q \in Params : momentum'[q].steps - Folded(q)' = momentum[q].steps - Folded(q)
    BY <2>3
  <2>5. AbsentIsNew(momentum')
    BY <1>2, <2>3 DEF IInv, StepsAgree, AbsentIsNew
  <2> QED
    BY <1>1, <2>1, <2>2, <2>3, <2>4, <2>5 DEF IInv, StepsAgree, AbsentIsNew, InStep
<1>3. CASE momentum[p].layout # "stored"
  <2>1. phase' = "dead" /\ UNCHANGED <<momentum, prepared>>
    BY <1>3 DEF PrepareLocal
  <2> QED
    BY <1>1, <2>1 DEF IInv, Typed, StepsAgree, AbsentIsNew, InStep
<1> QED
  BY <1>2, <1>3

LEMMA ApplyUpdateKeeps ==
  ASSUME IInv, NEW p \in Params, ApplyUpdate(p)
  PROVE  IInv'
<1>1. /\ phase = "running" /\ phase' = phase /\ p \in prepared /\ p \notin applied
      /\ updates' = [updates EXCEPT ![p] = @ + 1] /\ applied' = applied \cup {p}
      /\ UNCHANGED <<momentum, validated, prepared, saved>>
  BY DEF ApplyUpdate
<1>2. Typed'
  BY <1>1 DEF IInv, Typed
<1>3. \A q \in Params : /\ updates[q] \in Nat /\ Applied(q) \in {0, 1}
                        /\ updates'[q] = updates[q] + (IF q = p THEN 1 ELSE 0)
                        /\ Applied(q)' = Applied(q) + (IF q = p THEN 1 ELSE 0)
                        /\ Folded(q)' = Folded(q)
  BY <1>1 DEF IInv, Typed, Applied, Folded
<1>4. \A q \in Params : updates'[q] - Applied(q)' = updates[q] - Applied(q)
  BY <1>3
<1> QED
  BY <1>1, <1>2, <1>3, <1>4 DEF IInv, StepsAgree, AbsentIsNew, InStep

\* The step is over when all were applied, so all were prepared: each gives up
\* its one.
LEMMA EndStepKeeps ==
  ASSUME IInv, EndStep
  PROVE  IInv'
<1>1. /\ phase = "running" /\ phase' = "idle" /\ applied = Params /\ prepared = Params
      /\ UNCHANGED <<momentum, updates, validated, prepared, applied, saved>>
  BY DEF EndStep, IInv, Typed
<1>2. \A p \in Params : /\ Folded(p) = 1 /\ Folded(p)' = 0 /\ Applied(p) = 1 /\ Applied(p)' = 0
                        /\ momentum[p].steps \in Nat /\ updates[p] \in Nat
  BY <1>1 DEF Folded, Applied, IInv, Typed, Momenta
<1>3. \A p, q \in Params : momentum[p].steps - 1 = momentum[q].steps - 1 /\ updates[p] - 1 = updates[q] - 1
  BY <1>1, <1>2 DEF IInv, StepsAgree
<1>4. \A p, q \in Params : momentum[p].steps - 0 = momentum[q].steps - 0 /\ updates[p] - 0 = updates[q] - 0
  BY <1>2, <1>3
<1>5. Typed'
  BY <1>1 DEF IInv, Typed
<1> QED
  BY <1>1, <1>2, <1>4, <1>5 DEF IInv, StepsAgree, AbsentIsNew, InStep

LEMMA LoadStateDictKeeps ==
  ASSUME IInv, LoadStateDict
  PROVE  IInv'
<1>1. /\ phase = "idle" /\ phase' = phase /\ validated' \in BOOLEAN
      /\ UNCHANGED <<updates, prepared, applied, saved>>
      /\ momentum' \in Loadable
  BY DEF LoadStateDict, stepped, IInv, Typed
<1>2. momentum' \in Momenta /\ AbsentIsNew(momentum') /\ InStep(momentum')
  BY <1>1, LoadableMomentum
<1>3. \A p \in Params : Folded(p) = 0 /\ Folded(p)' = 0 /\ Applied(p) = 0 /\ Applied(p)' = 0
  BY <1>1 DEF Folded, Applied
<1>4. Typed'
  BY <1>1, <1>2 DEF IInv, Typed
<1> QED
  BY <1>1, <1>2, <1>3, <1>4 DEF IInv, StepsAgree, AbsentIsNew, InStep

LEMMA NextKeeps == IInv /\ [Next]_vars => IInv'
<1> SUFFICES ASSUME IInv, [Next]_vars PROVE IInv'
  OBVIOUS
<1>1. CASE UNCHANGED vars
  BY <1>1 DEF vars, IInv, Typed, StepsAgree, Folded, Applied, AbsentIsNew, InStep
<1>2. CASE \/ Backward \/ StateDict \/ \E p \in Params : ReplaceStorage(p)
  BY <1>2, ProgramKeeps
<1>3. CASE Preflight
  BY <1>3, PreflightKeeps
<1>4. CASE EndStep
  BY <1>4, EndStepKeeps
<1>5. CASE LoadStateDict
  BY <1>5, LoadStateDictKeeps
<1>6. CASE \E p \in Params : PrepareLocal(p)
  BY <1>6, PrepareLocalKeeps
<1>7. CASE \E p \in Params : ApplyUpdate(p)
  BY <1>7, ApplyUpdateKeeps
<1> QED
  BY <1>1, <1>2, <1>3, <1>4, <1>5, <1>6, <1>7 DEF Next

\* Outside a step all momenta have seen as many gradients, and all parameters
\* as many updates (DistMuon.step, _prepare_local, load_state_dict), even for a
\* program that goes on after an exception.
THEOREM StepsStayTogether == Spec => []ParamsInStep
<1>1. IInv => ParamsInStep
  <2> SUFFICES ASSUME IInv, phase = "idle", NEW p \in Params, NEW q \in Params
               PROVE  updates[p] = updates[q] /\ momentum[p].steps = momentum[q].steps
    BY DEF ParamsInStep
  <2>1. Folded(p) = 0 /\ Folded(q) = 0 /\ Applied(p) = 0 /\ Applied(q) = 0
    BY DEF Folded, Applied
  <2>2. momentum[p].steps - 0 = momentum[q].steps - 0 /\ updates[p] - 0 = updates[q] - 0
    BY <2>1 DEF IInv, StepsAgree
  <2> QED
    BY <2>2 DEF IInv, Typed, Momenta
<1> QED
  BY <1>1, InitIInv, NextKeeps, PTL DEF Spec

----------------------------------------------------------------------------
(* A program that stops when load_state_dict raises: then what passed the   *)
(* first step's check is still there.                                       *)

Checked ==
  /\ validated => \A p \in Params : momentum[p].layout = "stored"
  /\ phase = "running" => validated /\ ~raised
  /\ phase # "dead"
  /\ raised => before = Began

LEMMA InitChecked == Init => Checked
BY DEF Init, Checked

LEMMA PreflightChecks ==
  ASSUME IInv, Checked, Preflight
  PROVE  Checked'
<1>1. UNCHANGED updates /\ before' = Began /\ phase = "idle"
  BY DEF Preflight
<1>2. CASE raised'
  <2>1. UNCHANGED <<momentum, validated, phase>>
    BY <1>2 DEF Preflight
  <2> QED
    BY <1>1, <2>1 DEF Checked, Began
<1>3. CASE ~raised'
  <2>1. /\ phase' = "running" /\ validated' = TRUE
        /\ validated \/ \A p \in Params : momentum[p].layout # "moved"
        /\ momentum' = IF validated THEN momentum
                       ELSE [p \in Params |->
                               IF momentum[p].layout # "none" THEN momentum[p]
                               ELSE [layout |-> "stored", steps |-> 0]]
    BY <1>3 DEF Preflight
  <2>2. \A p \in Params : momentum[p].layout \in Layouts
    BY DEF IInv, Typed, Momenta
  <2>3. \A p \in Params : momentum'[p].layout = "stored"
    BY <2>1, <2>2 DEF Checked, Layouts
  <2> QED
    BY <1>1, <1>3, <2>1, <2>3 DEF Checked
<1> QED
  BY <1>2, <1>3

LEMMA PrepareLocalChecks ==
  ASSUME IInv, Checked, NEW p \in Params, PrepareLocal(p)
  PROVE  Checked'
<1>1. phase = "running" /\ momentum[p].layout = "stored" /\ ~raised
  BY DEF PrepareLocal, Checked
<1>2. /\ momentum' = [momentum EXCEPT ![p].steps = @ + 1]
      /\ UNCHANGED <<phase, raised, validated>>
  BY <1>1 DEF PrepareLocal
<1>3. \A q \in Params : momentum'[q].layout = momentum[q].layout
  BY <1>2 DEF IInv, Typed, Momenta
<1> QED
  BY <1>1, <1>2, <1>3 DEF Checked

LEMMA NextChecks ==
  ASSUME GoesOn = FALSE
  PROVE  IInv /\ Checked /\ [Next]_vars => Checked'
<1> SUFFICES ASSUME IInv, Checked, [Next]_vars PROVE Checked'
  OBVIOUS
<1>1. CASE UNCHANGED vars
  BY <1>1 DEF vars, Checked, Began
<1>2. CASE \/ Backward \/ StateDict \/ \E p \in Params : ReplaceStorage(p)
  BY <1>2 DEF Backward, StateDict, ReplaceStorage, running, Checked, Began
<1>3. CASE Preflight
  BY <1>3, PreflightChecks
<1>4. CASE EndStep
  BY <1>4 DEF EndStep, Checked, Began
<1>5. CASE LoadStateDict
  <2>1. /\ validated' = FALSE
        /\ raised' = FALSE /\ phase' = phase /\ phase = "idle"
    BY <1>5 DEF LoadStateDict, stepped
  <2> QED
    BY <2>1 DEF Checked
<1>6. CASE \E p \in Params : PrepareLocal(p)
  BY <1>6, PrepareLocalChecks
<1>7. CASE \E p \in Params : ApplyUpdate(p)
  BY <1>7 DEF ApplyUpdate, Checked
<1> QED
  BY <1>1, <1>2, <1>3, <1>4, <1>5, <1>6, <1>7 DEF Next

\* A step that raised changed no parameter and no momentum (the comment of
\* DistMuon._preflight_step), for a program that stops after a
\* load_state_dict that raised.
THEOREM RaisedStepsAreClean ==
  ASSUME GoesOn = FALSE
  PROVE  Spec => []RaisedStepChangedNothing
<1>1. Checked => RaisedStepChangedNothing
  BY DEF Checked, RaisedStepChangedNothing
<1>2. IInv /\ Checked /\ [Next]_vars => Checked'
  BY NextChecks
<1> QED
  BY <1>1, <1>2, InitIInv, InitChecked, NextKeeps, PTL DEF Spec
==============================================================================
