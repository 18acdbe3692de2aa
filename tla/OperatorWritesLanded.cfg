\* One console, two rows of settings, no fault.
SPECIFICATION Spec
CONSTANTS
  Consoles = {k1}
  Lanes = {l1}
  Settings = {cap, accept}
  Valves = {}
  off = off
  on = on
  Values = {off, on}
  NextValue <- Flip
  Launch <- AllOff
  NotYetRead = NotYetRead
  NotObserved = NotObserved
  None = None
  MaxRows = 2
  MaxFaults = 0
INVARIANTS LandedIsShown
