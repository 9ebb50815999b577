SPECIFICATION Spec
CONSTANTS
  Procs = {p1, p2, p3}
  Edits = {e1, e2}
  Migration = migration
  NoProc = NoProc
  NoEdit = NoEdit
  Ops = {"get", "update", "migrate"}
  FaultKinds = {"temp", "rename", "restat"}
  Outsiders = {}
  StartFiles = {"absent", "ok"}
  MaxTime = 1
  MaxFaults = 1
  MaxCrashes = 1
  MaxOutside = 0
SYMMETRY Symmetry
INVARIANTS
  TypeOK
  CacheCoherent
  NoLostUpdate
  ReadsAreCurrent
  FailedSaveKeepsFile
PROPERTY
  Linearizable
\* GetConfig and UpdateConfig can block each other for ever: see StoreDeadlock.
CHECK_DEADLOCK FALSE
