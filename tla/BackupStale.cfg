SPECIFICATION Spec
CONSTANTS
  Contents = {c1, c2}
  NoContent = NoContent
  MaxFiles = 2
  Slots = {s1, s2}
  MaxSecond = 2
  MaxNonce = 2
  FaultKinds = {}
  MaxFailed = 0
  MaxHasty = 2
INVARIANT
  ActsOnTheOneAsked
CHECK_DEADLOCK FALSE
