\* Buckets of every placement over up to three ranks, one step and one restart.
SPECIFICATION Spec
CONSTANTS
  Buckets <- SomeBuckets
  MaxVersion = 1
INVARIANTS
  FullParamsExact
  GradsReduced
  NothingUnwrittenReduced
  AveragedOnce
  SegmentsHeld
  CheckpointExact
