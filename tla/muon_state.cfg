\* Two parameters; the program stops when load_state_dict raises.
CONSTANTS
  Params <- TwoParams
  ComputeReady <- FirstReady
  GoesOn = FALSE
  MaxSteps = 2
SPECIFICATION Spec
INVARIANTS ParamsInStep RaisedStepChangedNothing
CHECK_DEADLOCK FALSE
