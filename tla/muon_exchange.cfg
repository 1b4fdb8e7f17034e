\* Every storage and layout of one parameter on five meshes, and buckets of up
\* to three parameters stored alike.
CONSTANT Worlds <- SomeWorlds
SPECIFICATION Spec
INVARIANTS AcceptedLayoutsPlan MatricesWhole UpdatesApplied RanksAgree
