SPECIFICATION FairSpec
CONSTANTS
  FieldEdits = {sni}
  PortEdits = {port}
  RouteEdits = {warp}
  CertEdits = {mode}
  LogEdits = {level}
  CredEdits = {token}
  SwitchEdits = {acme}
  InstallEdits = {protos}
  NoEdit = NoEdit
  Objs = {o1, o2, o3, o4}
  NoObj = NoObj
  Slots = {c1, c2}
  FaultKinds = {"load", "invalid", "save", "apply", "restore", "reload", "obtain"}
  MaxFailed = 1
  Sessions <- MCApart
  Patient = TRUE
INVARIANTS
  TypeOK
  FlagIsHonestWhenCalm
  KeptWhenCalm
  RunningIsSaved
PROPERTY
  AnswersAreSaved
