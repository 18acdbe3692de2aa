\* Two items that move and are re-ranked, three findings that fold into a group.
SPECIFICATION Spec
CONSTANTS
  i1 = i1
  i2 = i2
  f1 = f1
  f2 = f2
  f3 = f3
  hygiene = hygiene
  pending = pending
  ready = ready
  approve = approve
  Items = {i1, i2}
  Findings <- ThreeFindings
  About <- FirstNamesItem
  Class <- OneClass
  Found <- Scans
  Lanes = {pending, ready}
  AttentionLanes = {pending}
  ReadyLane = ready
  Valves = {approve}
  ValidIn <- OfferedIn
  Queries <- Texts
  None = None
INVARIANTS
  TypeOK
  ConsentHeld
  LaneVerbKeepsItem
PROPERTY CursorFollows
