SPECIFICATION FairSpec
CONSTANTS
  Procs = {p1, p2}
  Edits = {e1}
  Migration = migration
  NoProc = NoProc
  NoEdit = NoEdit
  Ops = {"get", "update"}
  FaultKinds = {}
  Outsiders = {}
  StartFiles = {"ok"}
  MaxTime = 1
  MaxFaults = 0
  MaxCrashes = 0
  MaxOutside = 0
PROPERTY
  CallsReturn
CHECK_DEADLOCK FALSE
