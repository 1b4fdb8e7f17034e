\* Two buckets, one with late weight grads, finalized by hand.
SPECIFICATION Spec
CONSTANTS
  b1 = b1
  b2 = b2
  b3 = b3
  Bucket = {b1, b2}
  Registration <- Registration2
  ModuleOrder <- Registration2
  ReshardAfterForward = {b1}
  ReshardAfterBackward = {b1}
  RefillsInFinish = {b2}
  Defers = {b2}
  NoInputGrad = {}
  Results <- Grads2
  ForwardPrefetch <- NoLists
  BackwardPrefetch <- NoLists
  MaxPendingReduceGrads = 1
  Calls = {"manual", "finalize", "no_sync"}
  MaxForwards = 4
  MaxGraphs = 2
  MaxWeights = 2
INVARIANTS
  ReadyForStep
CHECK_DEADLOCK FALSE
