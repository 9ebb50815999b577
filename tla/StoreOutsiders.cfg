SPECIFICATION Spec
CONSTANTS
  Procs = {p1, p2}
  Edits = {e1}
  Migration = migration
  NoProc = NoProc
  NoEdit = NoEdit
  Ops = {"get", "update"}
  FaultKinds = {"stat", "read", "restat"}
  Outsiders = {"restore", "cron"}
  StartFiles = {"absent", "ok", "bad"}
  MaxTime = 1
  MaxFaults = 2
  MaxCrashes = 1
  MaxOutside = 2
SYMMETRY Symmetry
INVARIANTS
  NoDirtyRead
\* GetConfig and UpdateConfig can block each other for ever: see StoreDeadlock.
CHECK_DEADLOCK FALSE
