\* A replicated and a sharded parameter in one bucket.
CONSTANT Worlds <- MixedBuckets
SPECIFICATION Spec
INVARIANT UpdatesApplied
