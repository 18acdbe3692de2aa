\* One console, a command of each kind, a clock that outruns the lanes, a fault and a pass.
SPECIFICATION Spec
CONSTANTS
  k1 = k1
  k2 = k2
  Consoles = {k1}
  FactoryThreads = 1
  Commands = {1, 2, 3, 4}
  NoCommand = NoCommand
  Kind <- MixedKind
  Aggregate <- MixedAggregate
  StaleAfter = 0
  MaxTime = 2
  MaxPresses = 1
  MaxPasses = 1
  MaxFaults = 1
INVARIANTS TypeOK HonestStatus
PROPERTY ImplementsCommandQueue
CHECK_DEADLOCK FALSE
