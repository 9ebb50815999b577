SPECIFICATION FairSpec
CONSTANTS
  Procs = {p1, p2, p3}
  Edits = {e1, e2}
  Migration = migration
  NoProc = NoProc
  NoEdit = NoEdit
  Ops = {"update", "migrate"}
  FaultKinds = {"stat", "read", "temp", "rename", "restat"}
  Outsiders = {}
  StartFiles = {"absent", "ok", "bad"}
  MaxTime = 1
  MaxFaults = 1
  MaxCrashes = 0
  MaxOutside = 0
INVARIANTS
  NoCircularWait
PROPERTY
  CallsReturn
\* Every edit may be acknowledged: nothing is left to do.
CHECK_DEADLOCK FALSE
