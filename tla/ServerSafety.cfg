SPECIFICATION Spec
CONSTANTS
  Uuids = {"u1", "u2"}
  Domains = {"a.org", "b.org"}
  Draws <- MCDraws
  Obfuscations = {"", "salamander"}
  Typed = {80, 10000, 2053, 70000}
  Hops <- MCHops
  MaxEdits = 3
  Callers = {"k1", "k2"}
  Configs = {"A", "B", "R"}
  ConfigOf <- MCConfigOf
  Refused = {"R"}
  Backends = {"nftables", "ufw", "firewalld", "iptables"}
  Overlapping = {"iptables"}
  MaxApplies = 2
  MaxFaults = 1
  MaxControls = 1
  MaxEvents <- MCMaxEvents
INVARIANTS
  ServerTypeOK EnabledIsServed ClientsReachTheServer EveryTagIsThere OnlySinglePortsClash
  SuccessMeansRunning LastIsKept AppliedPortsAreOpen NothingElseIsOpen
PROPERTY ApplyEnds
\* Edits, calls, commands and failures are bounded: when they are used up, and every
\* call has returned, nothing is left to do.
CHECK_DEADLOCK FALSE
