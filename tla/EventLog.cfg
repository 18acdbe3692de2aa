SPECIFICATION Spec
CONSTANTS
  i1 = i1
  i2 = i2
  s1 = s1
  Connections = {c1, c2}
  NoConnection = NoConnection
  EventIds = {i1, i2}
  SourceKeys = {k1}
  Streams = {s1, s2}
  NoKey = NoKey
  LegacyLogs <- MCLegacyLogs
  MaxRows = 3
INVARIANTS
  TypeOK
  StreamPositions
  AppendedOnce
  AnswersHold
  RefusedOnlyForTakenId
PROPERTIES
  LogStable
  ImplementsDedupLog
  AppendsAnswered
