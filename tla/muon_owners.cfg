\* Buckets of a few matrices over up to five ranks and hosts of all shapes.
CONSTANT Inputs <- SomeInputs
SPECIFICATION Spec
INVARIANTS TypeOK HostsAndRanksBalanced Deterministic HeavyHostsAlternate BucketsShareLoad
