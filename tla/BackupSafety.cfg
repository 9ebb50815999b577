SPECIFICATION Spec
CONSTANTS
  Contents = {c1, c2}
  NoContent = NoContent
  MaxFiles = 2
  Slots = {s1, s2}
  MaxSecond = 3
  MaxNonce = 3
  FaultKinds = {"write", "sum", "hash", "restore", "stale", "load", "apply", "crash"}
  MaxFailed = 1
  MaxHasty = 1
INVARIANTS
  TypeOK
  ActsOnTheOneAskedWhenCalm
  RetentionHolds
  ListIsCurrent
  RestoresWholeBackups
  RestoredIsRunning
PROPERTIES
  AcknowledgedIsKept
  RetentionKeepsTheNewest
SYMMETRY Alike
VIEW Seen
