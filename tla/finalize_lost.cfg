\* A bucket without a post-backward trigger, finalized by hand.
SPECIFICATION Spec
CONSTANTS
  b1 = b1
  b2 = b2
  b3 = b3
  Bucket = {b1, b2}
  Registration <- Registration2
  ModuleOrder <- Registration2
  ReshardAfterForward = {b1}
  ReshardAfterBackward = {b1}
  RefillsInFinish = {b2}
  Defers = {}
  NoInputGrad = {b1}
  Results <- Grads2
  ForwardPrefetch <- NoLists
  BackwardPrefetch <- NoLists
  MaxPendingReduceGrads = 1
  Calls = {"manual", "finalize", "unused"}
  MaxForwards = 3
  MaxGraphs = 2
  MaxWeights = 2
PROPERTIES
  FinalizeReducesAll
CHECK_DEADLOCK FALSE
