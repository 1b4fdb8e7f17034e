\* Two steps of an optimizer whose plans may change between them; a callback
\* may raise.
SPECIFICATION Spec
CONSTANTS
  Plans <- SomeLists
  NumSlots = 2
  MaxSteps = 2
  MayRaise = TRUE
INVARIANTS
  TypeOK
  ExchangeIntact
  PrefetchedInOrder
  SlotsSuffice
  CleanedUp
PROPERTIES
  ImplementsMuonStep
CHECK_DEADLOCK FALSE
