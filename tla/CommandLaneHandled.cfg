\* One console, two live factory lanes, nothing fails.
SPECIFICATION Spec
CONSTANTS
  k1 = k1
  k2 = k2
  Consoles = {k1}
  FactoryThreads = 2
  Commands = {1, 2}
  NoCommand = NoCommand
  Kind <- ItemKind
  Aggregate <- ItemAggregate
  StaleAfter = 0
  MaxTime = 1
  MaxPresses = 2
  MaxPasses = 0
  MaxFaults = 0
PROPERTY EveryCommandHandled
CHECK_DEADLOCK FALSE
