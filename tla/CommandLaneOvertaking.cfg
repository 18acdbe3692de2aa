\* Two sessions opened at different times.
SPECIFICATION Spec
CONSTANTS
  k1 = k1
  k2 = k2
  Consoles = {k1, k2}
  FactoryThreads = 1
  Commands = {1, 2}
  NoCommand = NoCommand
  Kind <- ItemKind
  Aggregate <- ItemAggregate
  StaleAfter = 0
  MaxTime = 2
  MaxPresses = 2
  MaxPasses = 0
  MaxFaults = 0
INVARIANT NoOvertaking
CHECK_DEADLOCK FALSE
