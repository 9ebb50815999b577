SPECIFICATION Spec
CONSTANTS
  FieldEdits = {}
  PortEdits = {}
  RouteEdits = {warp}
  CertEdits = {}
  LogEdits = {level}
  CredEdits = {}
  SwitchEdits = {}
  InstallEdits = {}
  NoEdit = NoEdit
  Objs = {o1, o2, o3, o4}
  NoObj = NoObj
  Slots = {c1, c2}
  FaultKinds = {}
  MaxFailed = 0
  Sessions <- MCMixed
  Patient = TRUE
INVARIANT
  KeptUntilDecided
