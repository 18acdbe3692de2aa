\* A valve item and an escalated item, every order of sweeps and reflections.
SPECIFICATION FairSpec
CONSTANTS
  approve = approve
  admission = admission
  Ids = {approve, admission}
  c1 = c1
  c2 = c2
  f = f
  Own = {c1, c2}
  Contents <- ItemContents
  Valves = {approve}
  Escalations = {admission}
  Dispositions = {auto}
  Settings = {cap}
  Consoles = {k1}
  None = None
  MaxChanges = 4
  MaxDecisions = 1
  MaxFaults = 1
INVARIANTS
  TypeOK
  NothingLingers
  NewsIsShown
  OutagesTold
  UnlistedEscalationStays
  CompletedIsReflected
PROPERTY InboxHeals
