\* Three buckets, prefetched by list and by learned order, with recomputation and manual gathers.
SPECIFICATION Spec
CONSTANTS
  b1 = b1
  b2 = b2
  b3 = b3
  Bucket = {b1, b2, b3}
  Registration <- Registration3
  ModuleOrder <- ModuleOrder3
  ReshardAfterForward = {b1, b2}
  ReshardAfterBackward = {b1}
  RefillsInFinish = {b2}
  Defers = {}
  NoInputGrad = {b1}
  Results <- Outputs3
  ForwardPrefetch <- Lists3
  BackwardPrefetch <- NoLists
  MaxPendingReduceGrads = 1
  Calls = {"eval", "recompute", "unshard", "prefetch", "reshard", "reset", "state_dict", "unused", "raise"}
  MaxForwards = 3
  MaxGraphs = 1
  MaxWeights = 2
INVARIANTS
  NoFreedRead
  StorageAccounted
  PrefetchesBounded
PROPERTIES
  NoEarlyPostBackward
CHECK_DEADLOCK FALSE
