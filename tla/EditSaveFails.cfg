SPECIFICATION Spec
CONSTANTS
  FieldEdits = {sni}
  PortEdits = {}
  RouteEdits = {}
  CertEdits = {}
  LogEdits = {}
  CredEdits = {}
  SwitchEdits = {}
  InstallEdits = {}
  NoEdit = NoEdit
  Objs = {o1, o2, o3, o4}
  NoObj = NoObj
  Slots = {c1, c2}
  FaultKinds = {"save"}
  MaxFailed = 1
  Sessions <- MCConfigOnly
  Patient = TRUE
INVARIANT
  FlagIsHonest
