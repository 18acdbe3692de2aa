SPECIFICATION FairSpec
CONSTANTS
  Consoles = {p1, p2}
  Backfills = {b}
  i1 = i1
  Items = {i1}
  Versions = {v1, v2}
  Causes = {c1}
  None = None
  Gone = Gone
  LeaseTTL = 1
  SweepTime = 2
  MaxChanges = 2
  MaxFaults = 1
INVARIANTS
  TypeOK
  WritersApart
  TallyFollowsPoll
  BoardFollowsPoll
CONSTRAINT Converged
PROPERTY CatchesUp
