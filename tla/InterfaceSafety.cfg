SPECIFICATION Spec
CONSTANTS
  MaxFlight = 2
  MaxAsked = 1
  Domains = {"a.org", "b.org"}
  Tasks = {"t1", "t2"}
  Life = 2
  Threshold = 1
  MaxTasks = 2
  MaxCertFaults = 2
  Jobs = {"u1"}
  MaxRemovalFaults = 1
  MaxWrites = 1
  Goers = {"g1", "g2"}
  MaxToolRuns = 3
  MaxToolFaults = 1
INVARIANTS
  InterfaceTypeOK FreshQuestions InstallationIsOne PairsMatch RenewedInTime
  LeavesWhatWasChosen MachineStartsAsItIs
PROPERTY EscapeDescends
\* Operations, writes and runs of tools are bounded, and a removal ends the program:
\* then nothing is left to do.
CHECK_DEADLOCK FALSE
