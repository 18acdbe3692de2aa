\* Two consoles press a setting and a valve; refusals, failing calls, recoveries.
SPECIFICATION Spec
CONSTANTS
  Consoles = {k1, k2}
  Lanes = {l1}
  Settings = {cap}
  Valves = {approve}
  off = off
  on = on
  Values = {off, on}
  NextValue <- Flip
  Launch <- AllOff
  NotYetRead = NotYetRead
  NotObserved = NotObserved
  None = None
  MaxRows = 2
  MaxFaults = 1
INVARIANTS TypeOK LaunchReadFirst
PROPERTIES
  RepeatablesLand
  FailedValveRetried
  WritesAnswered
