\* Two buckets, microbatches accumulated with and without gradient sync.
SPECIFICATION Spec
CONSTANTS
  b1 = b1
  b2 = b2
  b3 = b3
  Bucket = {b1, b2}
  Registration <- Registration2
  ModuleOrder <- Registration2
  ReshardAfterForward = {b1}
  ReshardAfterBackward = {b1}
  RefillsInFinish = {b2}
  Defers = {}
  NoInputGrad = {b1}
  Results <- Tensors2
  ForwardPrefetch <- NoLists
  BackwardPrefetch <- NoLists
  MaxPendingReduceGrads = 1
  Calls = {"no_sync", "drop", "unused", "eval", "state_dict", "load", "prefetch", "reshard"}
  MaxForwards = 3
  MaxGraphs = 2
  MaxWeights = 2
INVARIANTS
  TypeOK
  CurrentWeights
  ReadyForStep
  ReduceBacklogBounded
PROPERTIES
  BackwardSettles
CHECK_DEADLOCK FALSE
