\* Two rows, requests without end, a quit at any moment.
SPECIFICATION Spec
CONSTANTS
  Sources = {s1, s2}
  Sweep = Sweep
  Shutdown = Shutdown
  Cadence = 2
  Grace = 1
  MaxQueue = 3
INVARIANTS
  TypeOK
PROPERTIES
  PacedPolls
  QuitEnds
  NamedSourcesPolled
  SweepsMade
CHECK_DEADLOCK FALSE
