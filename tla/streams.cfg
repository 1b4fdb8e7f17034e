\* Up to three buckets, gathered by hooks, several at once, or by the program.
CONSTANTS
  b1 = b1
  b2 = b2
  b3 = b3
  Buckets = {b1, b2, b3}
  Setups <- SomeSetups
  MaxReductions = 2
SPECIFICATION Spec
INVARIANTS NoRace NoEarlyReuse
