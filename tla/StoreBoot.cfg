SPECIFICATION Spec
CONSTANTS
  Procs = {p1, p2}
  Edits = {e1}
  Migration = migration
  NoProc = NoProc
  NoEdit = NoEdit
  Ops = {"get", "update"}
  FaultKinds = {"read"}
  Outsiders = {}
  StartFiles = {"ok"}
  MaxTime = 1
  MaxFaults = 1
  MaxCrashes = 1
  MaxOutside = 0
INVARIANTS
  NoLostUpdate
CHECK_DEADLOCK FALSE
