\* Up to three groups of matrices and blocks over three or four ranks.
CONSTANT Inputs <- SomeInputs
SPECIFICATION Spec
INVARIANTS TypeOK GroupsBalanced BlocksLevel OtherHostsNext
