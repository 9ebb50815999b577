------------------------------- MODULE Uninstall -------------------------------
(***************************************************************************)
(* Taking prism off the machine: what the user chose to keep               *)
(* (tui/state/uninstall_state.go, key_handler.go), and the goroutine that  *)
(* removes the rest (UninstallPrismCmd, command_builder.go:3698), while    *)
(* other commands may still write what it has removed, or a second removal *)
(* is begun from the main menu, where Esc leads meanwhile.                 *)
(***************************************************************************)
EXTENDS Naturals, Sequences

CONSTANTS
  Jobs,             \* goroutines that remove prism
  MaxRemovalFaults, \* bound: steps that fail, the end of the program among them
  MaxWrites         \* bound: what other commands write

ASSUME UninstallConstants == MaxRemovalFaults \in Nat /\ MaxWrites \in Nat

VARIABLES
  production,   \* appctx.isProduction: the logs and the core are elsewhere
  there,        \* what is on the disk
  runs,         \* sing-box runs
  keep,         \* UninstallState.Keep...
  confirm,      \* UninstallState.ConfirmStep; 2 off its page, 3 when prism has ended
  job,          \* the removals
  promised,     \* what none of the removals begun so far was to take away
  spoiled,      \* a step failed, or another command wrote something
  removalFaults, writes

removalVars == <<production, there, runs, keep, confirm, job, promised, spoiled,
                 removalFaults, writes>>

Choices == {"config", "certs", "backups", "logs"}
Things == Choices \cup {"data", "config.json", "enabled", "unit", "core"}

\* The entries of the base directory; data holds the key of the backups.
Entries ==
  {"config", "certs", "backups", "data", "config.json"}
    \cup (IF production THEN {} ELSE {"logs", "core"})

\* As os.ReadDir lists them.
Sorted == <<"backups", "core", "certs", "config.json", "config", "data", "logs">>

NotAfter(x, y) == \E m, n \in DOMAIN Sorted : m <= n /\ Sorted[m] = x /\ Sorted[n] = y

Steps == {"stop", "disable", "unit", "core", "logs", "base", "entries", "done"}
Resting == [pc |-> "idle", keep |-> {}, todo |-> {}]

UninstallTypeOK ==
  /\ production \in BOOLEAN /\ runs \in BOOLEAN /\ spoiled \in BOOLEAN
  /\ there \subseteq Things /\ keep \subseteq Choices /\ promised \subseteq Choices
  /\ confirm \in 0 .. 3
  /\ job \in [Jobs -> [pc : Steps \cup {"idle"},
                       keep : SUBSET Choices, todo : SUBSET Things]]
  /\ removalFaults \in 0 .. MaxRemovalFaults /\ writes \in 0 .. MaxWrites

UninstallInit ==
  /\ production \in BOOLEAN
  /\ there = Things /\ runs = TRUE
  /\ keep = {} /\ confirm = 2
  /\ job = [j \in Jobs |-> Resting]
  /\ promised = Choices /\ spoiled = FALSE
  /\ removalFaults = 0 /\ writes = 0

-----------------------------------------------------------------------------
(* The page.                                                               *)

Disk == <<production, there, runs>>
Removals == <<job, promised, spoiled, removalFaults, writes>>

\* From the main menu; UninstallState.Reset.
OpenPage ==
  /\ confirm = 2 /\ confirm' = 0 /\ keep' = {}
  /\ UNCHANGED <<Disk, Removals>>

ToggleKeep(c) ==
  /\ confirm = 0
  /\ keep' = IF c \in keep THEN keep \ {c} ELSE keep \cup {c}
  /\ UNCHANGED <<Disk, Removals, confirm>>

NextConfirmStep ==
  /\ confirm = 0 /\ confirm' = 1
  /\ UNCHANGED <<Disk, Removals, keep>>

\* Esc: from the confirmation to the choice, from there to the main menu.
EscapeRemoval ==
  /\ confirm < 2 /\ confirm' = IF confirm = 1 THEN 0 ELSE 2
  /\ UNCHANGED <<Disk, Removals, keep>>

\* The word was typed.  The choice is read when the command is made, so that
\* opening the page again does not change what is under way.
UninstallPrismCmd(j) ==
  /\ confirm = 1 /\ job[j].pc = "idle"
  /\ confirm' = 2
  /\ job' = [job EXCEPT ![j] = [pc |-> "stop", keep |-> keep, todo |-> {}]]
  /\ promised' = promised \cap keep
  /\ UNCHANGED <<Disk, keep, spoiled, removalFaults, writes>>

-----------------------------------------------------------------------------
(* The goroutine.  A step that fails is noted, and the next one follows.   *)

At(j, step) == job[j].pc = step
Then(j, step) == job' = [job EXCEPT ![j].pc = step]

NotOften == UNCHANGED <<production, keep, confirm, promised, writes>>

StepWorks == UNCHANGED <<spoiled, removalFaults>>
StepFails ==
  /\ removalFaults < MaxRemovalFaults /\ removalFaults' = removalFaults + 1
  /\ spoiled' = TRUE

\* The step from pc to next either takes `gone' away or fails.
Step(j, pc, next, gone) ==
  /\ At(j, pc) /\ Then(j, next)
  /\ \/ StepWorks /\ there' = there \ gone
     \/ StepFails /\ UNCHANGED there
  /\ NotOften

StopService(j) ==
  /\ At(j, "stop") /\ Then(j, "disable")
  /\ \/ StepWorks /\ runs' = FALSE
     \/ StepFails /\ UNCHANGED runs
  /\ UNCHANGED there /\ NotOften

DisableService(j) == Step(j, "disable", "unit", {"enabled"}) /\ UNCHANGED runs
RemoveUnit(j) == Step(j, "unit", "core", {"unit"}) /\ UNCHANGED runs

\* exec.LookPath does not find the core that lies in the base directory.
RemoveCore(j) ==
  Step(j, "core", "logs", IF production THEN {"core"} ELSE {}) /\ UNCHANGED runs

RemoveLogs(j) ==
  Step(j, "logs", "base", IF "logs" \in job[j].keep THEN {} ELSE {"logs"}) /\ UNCHANGED runs

\* Slip: logs that are kept do not keep the base directory they lie in.
KeepsAnyOfConfig(j) == job[j].keep \cap {"config", "certs", "backups"} # {}

KeepsAny(j) ==
  job[j].keep \cap (IF production THEN Choices \ {"logs"} ELSE Choices) # {}

\* The base directory as a whole, or, when any of it is kept, what is in it now.
RemoveBase(j) ==
  \/ ~KeepsAny(j) /\ Step(j, "base", "done", Entries) /\ UNCHANGED runs
  \/ /\ KeepsAny(j) /\ At(j, "base")
     /\ job' = [job EXCEPT ![j].pc = "entries",
                           ![j].todo = (there \cap Entries) \ job[j].keep]
     /\ UNCHANGED <<there, runs>> /\ StepWorks /\ NotOften

RemoveEntry(j) ==
  /\ At(j, "entries")
  /\ \/ job[j].todo = {} /\ Then(j, "done") /\ StepWorks /\ UNCHANGED there
     \/ \E x \in job[j].todo :
          /\ \A y \in job[j].todo : NotAfter(x, y)
          /\ job' = [job EXCEPT ![j].todo = @ \ {x}]
          /\ \/ StepWorks /\ there' = there \ {x}
             \/ StepFails /\ UNCHANGED there
  /\ UNCHANGED runs /\ NotOften

\* Another command writes: a configuration that is saved, a certificate, a backup;
\* or the core is installed, and its service started.
OtherWrites ==
  /\ confirm # 3
  /\ writes < MaxWrites /\ writes' = writes + 1
  /\ \/ \E x \in {"config", "certs", "backups", "config.json", "core", "unit", "enabled"} :
          there' = there \cup {x} /\ UNCHANGED runs
     \/ {"core", "unit"} \subseteq there /\ runs' = TRUE /\ UNCHANGED there
  /\ spoiled' = TRUE
  /\ UNCHANGED <<production, keep, confirm, job, promised, removalFaults>>

\* prism ends, on its own three seconds after the first removal; what a later
\* start would do to what is left is not of interest here.
EndOfProgram ==
  /\ \E j \in Jobs : ~At(j, "idle")
  /\ StepFails \/ (StepWorks /\ \E j \in Jobs : At(j, "done"))
  /\ job' = [j \in Jobs |-> IF At(j, "done") THEN job[j] ELSE Resting]
  /\ confirm' = 3
  /\ UNCHANGED <<Disk, keep, promised, writes>>

RemovalStep(j) ==
  \/ StopService(j) \/ DisableService(j) \/ RemoveUnit(j) \/ RemoveCore(j)
  \/ RemoveLogs(j) \/ RemoveBase(j) \/ RemoveEntry(j)

UninstallNext ==
  \/ OpenPage \/ NextConfirmStep \/ EscapeRemoval \/ OtherWrites \/ EndOfProgram
  \/ \E c \in Choices : ToggleKeep(c)
  \/ \E j \in Jobs : UninstallPrismCmd(j) \/ RemovalStep(j)

UninstallSpec == UninstallInit /\ [][UninstallNext]_removalVars

-----------------------------------------------------------------------------
\* What no removal was to take away is there from the first to the last step,
\* whatever fails and whatever is chosen afterwards (command_builder.go:3700); and
\* where nothing failed and no other command wrote, a removal that has ended leaves
\* nothing but what it was to keep.  The key of the backups is not among that
\* (command_builder.go:3807, setup.go:48).
LeavesWhatWasChosen ==
  /\ promised \subseteq there
  /\ \A j \in Jobs :
       At(j, "done") /\ ~spoiled => there \subseteq job[j].keep /\ ~runs

=============================================================================
