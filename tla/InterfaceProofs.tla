---------------------------- MODULE InterfaceProofs ----------------------------
(***************************************************************************)
(* Proofs about Uninstall, for any number of removals, failures and writes *)
(* of other commands, and about Tools, for any number of goroutines,       *)
(* commands, failures and restarts of the machine; and the types of all    *)
(* that MCInterface is made of.                                            *)
(***************************************************************************)
EXTENDS MCInterface, PagesProofs, CertificatesProofs, TLAPS

\* A removal in progress was not to take away what none of them is to.
Promises ==
  /\ promised \subseteq there
  /\ \A j \in Jobs : job[j].pc # "idle" => promised \subseteq job[j].keep

\* What is still to be removed from the base directory.
Todos ==
  \A j \in Jobs : At(j, "entries") =>
    job[j].todo \subseteq Entries /\ job[j].todo \cap job[j].keep = {}

\* What a removal has taken away by now, if nothing has come in its way.
Taken(j) ==
  /\ ~At(j, "idle") /\ ~At(j, "stop") => ~runs
  /\ job[j].pc \in {"unit", "core", "logs", "base", "entries", "done"} => "enabled" \notin there
  /\ job[j].pc \in {"core", "logs", "base", "entries", "done"} => "unit" \notin there
  /\ production /\ job[j].pc \in {"logs", "base", "entries", "done"} => "core" \notin there
  /\ job[j].pc \in {"base", "entries", "done"} /\ "logs" \notin job[j].keep => "logs" \notin there
  /\ At(j, "entries") => there \cap Entries \subseteq job[j].keep \cup job[j].todo
  /\ At(j, "done") => there \subseteq job[j].keep

RemovalCounts ==
  /\ confirm \in 0 .. 3
  /\ removalFaults \in 0 .. MaxRemovalFaults /\ writes \in 0 .. MaxWrites

JobRange == [pc : Steps \cup {"idle"}, keep : SUBSET Choices, todo : SUBSET Things]

Shape ==
  /\ production \in BOOLEAN /\ runs \in BOOLEAN /\ spoiled \in BOOLEAN
  /\ there \subseteq Things /\ keep \subseteq Choices /\ promised \subseteq Choices
  /\ job \in [Jobs -> JobRange]

RemovalInv ==
  /\ RemovalCounts /\ Shape /\ Promises /\ Todos
  /\ ~spoiled => \A j \in Jobs : Taken(j)

LEMMA RemovalInvInit == UninstallInit => RemovalInv
<1> SUFFICES ASSUME UninstallInit PROVE RemovalInv
  OBVIOUS
<1>1. job \in [Jobs -> JobRange]
  BY DEF UninstallInit, Resting, JobRange
<1>2. RemovalCounts
  BY UninstallConstants DEF UninstallInit, RemovalCounts
<1>3. promised \subseteq there
  BY DEF UninstallInit, Things
<1>4. Shape
  <2>1. production \in BOOLEAN /\ runs \in BOOLEAN /\ spoiled \in BOOLEAN
    BY DEF UninstallInit
  <2>2. there \subseteq Things /\ keep \subseteq Choices /\ promised \subseteq Choices
    BY DEF UninstallInit
  <2> QED
    BY <1>1, <2>1, <2>2 DEF Shape
<1>5. ASSUME NEW j \in Jobs PROVE job[j].pc = "idle"
  BY DEF UninstallInit, Resting
<1> QED
  BY <1>2, <1>3, <1>4, <1>5 DEF RemovalInv, Promises, Todos, Taken, At

LEMMA Counted ==
  ASSUME RemovalInv, StepWorks \/ StepFails
  PROVE  /\ removalFaults' \in 0 .. MaxRemovalFaults
         /\ spoiled' \in BOOLEAN /\ (spoiled => spoiled') /\ (StepFails => spoiled')
<1>1. removalFaults' \in 0 .. MaxRemovalFaults
  <2>1. removalFaults' = removalFaults \/
        (removalFaults < MaxRemovalFaults /\ removalFaults' = removalFaults + 1)
    BY DEF StepWorks, StepFails
  <2> QED
    BY <2>1, UninstallConstants DEF RemovalInv, RemovalCounts
<1>2. spoiled \in BOOLEAN /\ (spoiled' = spoiled \/ spoiled' = TRUE) /\ (StepFails => spoiled' = TRUE)
  BY DEF StepWorks, StepFails, RemovalInv, Shape
<1> QED
  BY <1>1, <1>2

\* Steps of the page, which leave the removals and the disk alone.
LEMMA PageKeeps ==
  ASSUME RemovalInv,
         OpenPage \/ NextConfirmStep \/ EscapeRemoval \/ \E c \in Choices : ToggleKeep(c)
  PROVE  RemovalInv'
<1>1. keep' \subseteq Choices /\ confirm' \in 0 .. 3
  BY DEF RemovalInv, Shape, OpenPage, NextConfirmStep, EscapeRemoval, ToggleKeep
<1>2. UNCHANGED <<production, there, runs, job, promised, spoiled, removalFaults, writes>>
  BY DEF OpenPage, NextConfirmStep, EscapeRemoval, ToggleKeep, Disk, Removals
<1> QED
  BY <1>1, <1>2 DEF RemovalInv, RemovalCounts, Shape, Promises, Todos, Taken, At, Entries

LEMMA UninstallPrismCmdKeeps ==
  ASSUME RemovalInv, NEW j \in Jobs, UninstallPrismCmd(j)
  PROVE  RemovalInv'
<1>1. /\ job' = [job EXCEPT ![j] = [pc |-> "stop", keep |-> keep, todo |-> {}]]
      /\ promised' = promised \cap keep /\ confirm' = 2
      /\ UNCHANGED <<production, there, runs, keep, spoiled, removalFaults, writes>>
  BY DEF UninstallPrismCmd, Disk
<1>2. RemovalCounts'
  BY <1>1 DEF RemovalInv, RemovalCounts
<1>3. job' \in [Jobs -> JobRange]
  BY <1>1 DEF RemovalInv, Shape, JobRange, Steps
<1>4. promised' \subseteq Choices
  BY <1>1 DEF RemovalInv, Shape
<1>5. Shape'
  BY <1>1, <1>3, <1>4 DEF RemovalInv, Shape
<1>6. Promises' /\ Todos'
  BY <1>1 DEF RemovalInv, Shape, Promises, Todos, At, Entries
<1>7. ASSUME ~spoiled', NEW i \in Jobs PROVE Taken(i)'
  BY <1>1, <1>7 DEF RemovalInv, Shape, Taken, At, Entries
<1> QED
  BY <1>2, <1>5, <1>6, <1>7 DEF RemovalInv

\* A step of a removal takes nothing away that was promised to stay; if it fails
\* it has taken nothing.
Takes(j, gone) ==
  /\ (StepWorks /\ there' = there \ gone) \/ (StepFails /\ there' = there)
  /\ UNCHANGED <<production, keep, confirm, promised, writes>>
  /\ \A i \in Jobs : i # j => job'[i] = job[i]
  /\ job'[j].keep = job[j].keep

LEMMA TakesOf ==
  ASSUME RemovalInv, NEW j \in Jobs, NEW pc, NEW next \in Steps, NEW gone, Step(j, pc, next, gone)
  PROVE  /\ Takes(j, gone) /\ At(j, pc) /\ job'[j].pc = next /\ job'[j].todo = job[j].todo
         /\ job' \in [Jobs -> JobRange]
         /\ production' = production /\ job'[j].keep = job[j].keep
         /\ ~spoiled' => there' = there \ gone /\ Taken(j)
<1>1. /\ job' = [job EXCEPT ![j].pc = next] /\ At(j, pc)
      /\ UNCHANGED <<production, keep, confirm, promised, writes>>
  BY DEF Step, Then, NotOften
<1>2. (StepWorks /\ there' = there \ gone) \/ (StepFails /\ there' = there)
  BY DEF Step
<1>3. (StepFails => spoiled') /\ (~spoiled' /\ StepWorks => Taken(j))
  BY DEF StepFails, StepWorks, RemovalInv
<1>4. /\ job' \in [Jobs -> JobRange] /\ job'[j].pc = next /\ job'[j].keep = job[j].keep
      /\ job'[j].todo = job[j].todo /\ \A i \in Jobs : i # j => job'[i] = job[i]
  BY <1>1 DEF RemovalInv, Shape, JobRange
<1> QED
  BY <1>1, <1>2, <1>3, <1>4 DEF Takes

\* Such a step keeps the invariant, if it did to its own removal what it should.
LEMMA TakesKeeps ==
  ASSUME RemovalInv, NEW j \in Jobs, NEW gone, Takes(j, gone),
         gone \cap promised = {}, runs' \in BOOLEAN, runs' => runs,
         job' \in [Jobs -> JobRange],
         ~At(j, "idle"), Todos', ~spoiled' => Taken(j)'
  PROVE  RemovalInv'
<1>0. /\ removalFaults' \in 0 .. MaxRemovalFaults /\ there' \subseteq there
      /\ spoiled' \in BOOLEAN /\ (spoiled => spoiled')
  BY Counted DEF Takes
<1>1. RemovalCounts' /\ Shape'
  BY <1>0 DEF RemovalInv, RemovalCounts, Shape, Takes
<1>2. Promises'
  BY DEF RemovalInv, Promises, Takes, At
<1>3. ASSUME ~spoiled', NEW i \in Jobs, i # j PROVE Taken(i)'
  <2>1. ~spoiled /\ there' \subseteq there /\ job'[i] = job[i] /\ production' = production
    BY <1>0, <1>3 DEF Takes
  <2>2. Taken(i)
    BY <2>1, <1>3 DEF RemovalInv
  <2> QED
    BY <2>1, <2>2 DEF Taken, At, Entries
<1> QED
  BY <1>1, <1>2, <1>3 DEF RemovalInv

LEMMA StopServiceKeeps ==
  ASSUME RemovalInv, NEW j \in Jobs, StopService(j) PROVE RemovalInv'
<1>1. /\ job' = [job EXCEPT ![j].pc = "disable"] /\ At(j, "stop") /\ there' = there
      /\ UNCHANGED <<production, keep, confirm, promised, writes>>
  BY DEF StopService, Then, NotOften
<1>2. (StepWorks /\ runs' = FALSE) \/ (StepFails /\ runs' = runs)
  BY DEF StopService
<1>3. runs \in BOOLEAN /\ runs' \in BOOLEAN /\ (runs' => runs) /\ (~spoiled' => ~runs')
  <2>1. runs' = FALSE \/ (runs' = runs /\ spoiled' = TRUE)
    BY <1>2 DEF StepFails
  <2>2. runs = TRUE \/ runs = FALSE
    BY DEF RemovalInv, Shape
  <2>3. CASE runs' = FALSE
    BY <2>2, <2>3, Zenon
  <2>4. CASE runs' = runs /\ spoiled' = TRUE
    BY <2>2, <2>4, Zenon
  <2> QED
    BY <2>1, <2>3, <2>4
<1>4. /\ job' \in [Jobs -> JobRange]
      /\ \A i \in Jobs : i # j => job'[i] = job[i]
      /\ job'[j].keep = job[j].keep /\ job'[j].pc = "disable"
  BY <1>1 DEF RemovalInv, Shape, JobRange, Steps
<1>5. Takes(j, {})
  BY <1>1, <1>2, <1>4 DEF Takes
<1>6. Todos'
  BY <1>1, <1>4 DEF RemovalInv, Todos, At, Entries
<1>7. ~spoiled' => Taken(j)'
  BY <1>3, <1>4 DEF Taken, At
<1> QED
  BY <1>1, <1>3, <1>4, <1>5, <1>6, <1>7, TakesKeeps DEF At

LEMMA StepKeeps ==
  ASSUME RemovalInv, NEW j \in Jobs, runs' = runs,
         NEW pc, NEW next \in Steps \ {"entries"}, NEW gone, pc # "idle",
         Step(j, pc, next, gone), gone \cap promised = {},
         ~spoiled' => Taken(j)'
  PROVE  RemovalInv'
<1>1. /\ Takes(j, gone) /\ At(j, pc) /\ job'[j].pc = next
      /\ job' \in [Jobs -> JobRange]
  BY TakesOf
<1>2. Todos'
  BY <1>1 DEF RemovalInv, Todos, Takes, At, Entries
<1>3. runs' \in BOOLEAN /\ (runs' => runs) /\ ~At(j, "idle")
  BY <1>1 DEF RemovalInv, Shape, At
<1> QED
  BY <1>1, <1>2, <1>3, TakesKeeps

LEMMA DisableServiceKeeps ==
  ASSUME RemovalInv, NEW j \in Jobs, DisableService(j) PROVE RemovalInv'
<1>1. Step(j, "disable", "unit", {"enabled"}) /\ runs' = runs
  BY DEF DisableService
<1>2. {"enabled"} \cap promised = {}
  BY DEF RemovalInv, Shape, Choices
<1>3. /\ production' = production /\ job'[j].pc = "unit" /\ job'[j].keep = job[j].keep
      /\ ~spoiled' => there' = there \ {"enabled"} /\ Taken(j)
  BY <1>1, TakesOf DEF Steps
<1>4. ~spoiled' => Taken(j)'
  BY <1>1, <1>3 DEF Step, Taken, At
<1> QED
  BY <1>1, <1>2, <1>4, StepKeeps DEF Steps

LEMMA RemoveUnitKeeps ==
  ASSUME RemovalInv, NEW j \in Jobs, RemoveUnit(j) PROVE RemovalInv'
<1>1. Step(j, "unit", "core", {"unit"}) /\ runs' = runs
  BY DEF RemoveUnit
<1>2. {"unit"} \cap promised = {}
  BY DEF RemovalInv, Shape, Choices
<1>3. /\ production' = production /\ job'[j].pc = "core" /\ job'[j].keep = job[j].keep
      /\ ~spoiled' => there' = there \ {"unit"} /\ Taken(j)
  BY <1>1, TakesOf DEF Steps
<1>4. ~spoiled' => Taken(j)'
  BY <1>1, <1>3 DEF Step, Taken, At
<1> QED
  BY <1>1, <1>2, <1>4, StepKeeps DEF Steps

LEMMA RemoveCoreKeeps ==
  ASSUME RemovalInv, NEW j \in Jobs, RemoveCore(j) PROVE RemovalInv'
<1> DEFINE gone == IF production THEN {"core"} ELSE {}
<1>1. Step(j, "core", "logs", gone) /\ runs' = runs
  BY DEF RemoveCore
<1>2. gone \cap promised = {}
  BY DEF RemovalInv, Shape, Choices
<1>3. production => "core" \in gone
  OBVIOUS
<1> HIDE DEF gone
<1>4. /\ production' = production /\ job'[j].pc = "logs" /\ job'[j].keep = job[j].keep
      /\ ~spoiled' => there' = there \ gone /\ Taken(j)
  BY <1>1, TakesOf DEF Steps
<1>5. ~spoiled' => Taken(j)'
  BY <1>1, <1>3, <1>4 DEF Step, Taken, At
<1> QED
  BY <1>1, <1>2, <1>5, StepKeeps DEF Steps

LEMMA RemoveLogsKeeps ==
  ASSUME RemovalInv, NEW j \in Jobs, RemoveLogs(j) PROVE RemovalInv'
<1> DEFINE gone == IF "logs" \in job[j].keep THEN {} ELSE {"logs"}
<1>1. Step(j, "logs", "base", gone) /\ runs' = runs
  BY DEF RemoveLogs
<1>2. job[j].pc = "logs"
  BY <1>1 DEF Step, At
<1>3. gone \cap promised = {}
  BY <1>2 DEF RemovalInv, Promises
<1>4. "logs" \notin job[j].keep => "logs" \in gone
  OBVIOUS
<1> HIDE DEF gone
<1>5. /\ production' = production /\ job'[j].pc = "base" /\ job'[j].keep = job[j].keep
      /\ ~spoiled' => there' = there \ gone /\ Taken(j)
  BY <1>1, TakesOf DEF Steps
<1>6. ~spoiled' => Taken(j)'
  BY <1>1, <1>4, <1>5 DEF Step, Taken, At
<1> QED
  BY <1>1, <1>3, <1>6, StepKeeps DEF Steps

LEMMA RemoveBaseKeeps ==
  ASSUME RemovalInv, NEW j \in Jobs, RemoveBase(j) PROVE RemovalInv'
<1>1. CASE ~KeepsAny(j) /\ Step(j, "base", "done", Entries) /\ runs' = runs
  <2>1. job[j].pc = "base"
    BY <1>1 DEF Step, At
  <2>2. promised \subseteq job[j].keep /\ promised \subseteq Choices
    BY <2>1 DEF RemovalInv, Shape, Promises
  <2>3. Entries \cap promised = {}
    BY <1>1, <2>2 DEF KeepsAny, Entries, Choices
  <2>4. there \subseteq Things
    BY DEF RemovalInv, Shape
  <2>5. Taken(j) /\ At(j, "base") => there \ Entries \subseteq job[j].keep
    BY <2>4 DEF Taken, At, Entries, Things, Choices
  <2>6. /\ production' = production /\ job'[j].pc = "done" /\ job'[j].keep = job[j].keep
        /\ ~spoiled' => there' = there \ Entries /\ Taken(j)
    BY <1>1, TakesOf DEF Steps
  <2>7. ~spoiled' => Taken(j)'
    BY <1>1, <2>5, <2>6 DEF Step, Taken, At
  <2> QED
    BY <1>1, <2>3, <2>7, StepKeeps DEF Steps
<1>2. CASE KeepsAny(j) /\ At(j, "base")
           /\ job' = [job EXCEPT ![j].pc = "entries",
                                 ![j].todo = (there \cap Entries) \ job[j].keep]
           /\ UNCHANGED <<there, runs>> /\ StepWorks /\ NotOften
  <2> DEFINE todo == (there \cap Entries) \ job[j].keep
  <2>1. todo \subseteq Things /\ todo \subseteq Entries /\ todo \cap job[j].keep = {}
        /\ there \cap Entries \subseteq job[j].keep \cup todo
    BY DEF RemovalInv, Shape
  <2> HIDE DEF todo
  <2>2. /\ job' \in [Jobs -> JobRange]
        /\ \A i \in Jobs : i # j => job'[i] = job[i]
        /\ job'[j].keep = job[j].keep /\ job'[j].pc = "entries" /\ job'[j].todo = todo
    BY <1>2, <2>1 DEF RemovalInv, Shape, JobRange, Steps, todo
  <2>3. Takes(j, {})
    BY <1>2, <2>2 DEF Takes, NotOften
  <2>4. Todos'
    BY <1>2, <2>1, <2>2 DEF RemovalInv, Todos, At, Entries, NotOften
  <2>5. ASSUME ~spoiled' PROVE Taken(j)'
    <3>1. ~spoiled /\ UNCHANGED <<production, there, runs>>
      BY <1>2, <2>5 DEF StepWorks, NotOften
    <3>2. Taken(j)
      BY <3>1 DEF RemovalInv
    <3> QED
      BY <1>2, <2>1, <2>2, <3>1, <3>2 DEF Taken, At, Entries
  <2>6. runs' \in BOOLEAN /\ (runs' => runs) /\ ~At(j, "idle")
    BY <1>2 DEF RemovalInv, Shape, At
  <2> QED
    BY <2>2, <2>3, <2>4, <2>5, <2>6, TakesKeeps
<1> QED
  BY <1>1, <1>2 DEF RemoveBase

LEMMA RemoveEntryKeeps ==
  ASSUME RemovalInv, NEW j \in Jobs, RemoveEntry(j) PROVE RemovalInv'
<1>1. At(j, "entries") /\ runs' = runs
      /\ UNCHANGED <<production, keep, confirm, promised, writes>>
  BY DEF RemoveEntry, NotOften
<1>2. job[j].todo \subseteq Entries /\ job[j].todo \cap job[j].keep = {}
      /\ promised \subseteq job[j].keep /\ runs \in BOOLEAN
  BY <1>1 DEF RemovalInv, Todos, Promises, Shape, At
<1>3. CASE job[j].todo = {} /\ Then(j, "done") /\ StepWorks /\ there' = there
  <2>1. /\ job' \in [Jobs -> JobRange]
        /\ \A i \in Jobs : i # j => job'[i] = job[i]
        /\ job'[j].keep = job[j].keep /\ job'[j].pc = "done"
    BY <1>3 DEF RemovalInv, Shape, JobRange, Steps, Then
  <2>2. Takes(j, {})
    BY <1>1, <1>3, <2>1 DEF Takes
  <2>3. Todos'
    BY <1>1, <1>3, <2>1 DEF RemovalInv, Todos, At, Entries
  <2>4. ~spoiled' => Taken(j)'
    <3>1. there \subseteq Things
      BY DEF RemovalInv, Shape
    <3>2. Taken(j) => there \subseteq job[j].keep
      BY <1>1, <1>3, <3>1 DEF Taken, At, Entries, Things, Choices
    <3> QED
      BY <1>1, <1>3, <2>1, <3>2 DEF RemovalInv, Taken, At, StepWorks
  <2> QED
    BY <1>1, <1>2, <2>1, <2>2, <2>3, <2>4, TakesKeeps DEF At
<1>4. ASSUME NEW x \in job[j].todo, job' = [job EXCEPT ![j].todo = @ \ {x}],
             (StepWorks /\ there' = there \ {x}) \/ (StepFails /\ there' = there)
      PROVE  RemovalInv'
  <2>1. /\ job' \in [Jobs -> JobRange]
        /\ \A i \in Jobs : i # j => job'[i] = job[i]
        /\ job'[j].keep = job[j].keep /\ job'[j].pc = "entries"
        /\ job'[j].todo = job[j].todo \ {x}
    BY <1>1, <1>4 DEF RemovalInv, Shape, JobRange, At
  <2>2. StepFails => spoiled'
    BY DEF StepFails
  <2>3. Takes(j, {x})
    BY <1>1, <1>4, <2>1 DEF Takes
  <2>4. {x} \cap promised = {}
    BY <1>2
  <2>5. Todos'
    BY <1>1, <1>2, <2>1 DEF RemovalInv, Todos, At, Entries
  <2>6. ~spoiled' => Taken(j)'
    BY <1>1, <1>4, <2>1, <2>2 DEF RemovalInv, Taken, At, Entries, StepWorks
  <2> QED
    BY <1>1, <1>2, <2>1, <2>3, <2>4, <2>5, <2>6, TakesKeeps DEF At
<1> QED
  BY <1>3, <1>4 DEF RemoveEntry

LEMMA OtherWritesKeeps == ASSUME RemovalInv, OtherWrites PROVE RemovalInv'
<1>1. there \subseteq there' /\ there' \subseteq Things
  BY DEF OtherWrites, RemovalInv, Shape, Things, Choices
<1>2. runs' \in BOOLEAN /\ spoiled' = TRUE
  BY DEF OtherWrites, RemovalInv, Shape
<1>3. UNCHANGED <<production, keep, confirm, job, promised, removalFaults>>
  BY DEF OtherWrites
<1>4. writes' \in 0 .. MaxWrites
  <2>1. writes < MaxWrites /\ writes' = writes + 1
    BY DEF OtherWrites
  <2> QED
    BY <2>1, UninstallConstants DEF RemovalInv, RemovalCounts
<1>5. RemovalCounts' /\ Shape'
  BY <1>1, <1>2, <1>3, <1>4 DEF RemovalInv, RemovalCounts, Shape
<1> QED
  BY <1>1, <1>2, <1>3, <1>5 DEF RemovalInv, Promises, Todos, At, Entries

LEMMA EndOfProgramKeeps == ASSUME RemovalInv, EndOfProgram PROVE RemovalInv'
<1>1. /\ UNCHANGED <<production, there, runs, keep, promised, writes>> /\ confirm' = 3
      /\ StepWorks \/ StepFails
  BY DEF EndOfProgram, Disk
<1>2. /\ removalFaults' \in 0 .. MaxRemovalFaults
      /\ spoiled' \in BOOLEAN /\ (spoiled => spoiled')
  BY <1>1, Counted
<1>3. /\ job' \in [Jobs -> JobRange]
      /\ \A j \in Jobs : job'[j] = job[j] \/ job'[j].pc = "idle"
  BY DEF EndOfProgram, Resting, RemovalInv, Shape, JobRange
<1>4. RemovalCounts' /\ Shape'
  BY <1>1, <1>2, <1>3 DEF RemovalInv, RemovalCounts, Shape
<1>5. Promises' /\ Todos'
  BY <1>1, <1>3 DEF RemovalInv, Promises, Todos, At, Entries
<1>6. ASSUME ~spoiled', NEW j \in Jobs PROVE Taken(j)'
  <2>1. Taken(j)
    BY <1>2, <1>6 DEF RemovalInv
  <2> QED
    BY <1>1, <1>3, <2>1 DEF Taken, At, Entries
<1> QED
  BY <1>4, <1>5, <1>6 DEF RemovalInv

LEMMA RemovalInvStep == RemovalInv /\ [UninstallNext]_removalVars => RemovalInv'
<1> SUFFICES ASSUME RemovalInv, [UninstallNext]_removalVars PROVE RemovalInv'
  OBVIOUS
<1>1. CASE UNCHANGED removalVars
  BY <1>1 DEF removalVars, RemovalInv, RemovalCounts, Shape, Promises, Todos, Taken, At, Entries
<1>2. ASSUME OpenPage \/ NextConfirmStep \/ EscapeRemoval \/ \E c \in Choices : ToggleKeep(c)
      PROVE  RemovalInv'
  BY <1>2, PageKeeps
<1>3. ASSUME NEW j \in Jobs, UninstallPrismCmd(j) \/ RemovalStep(j) PROVE RemovalInv'
  BY <1>3, UninstallPrismCmdKeeps, StopServiceKeeps, DisableServiceKeeps, RemoveUnitKeeps,
     RemoveCoreKeeps, RemoveLogsKeeps, RemoveBaseKeeps, RemoveEntryKeeps DEF RemovalStep
<1> QED
  BY <1>1, <1>2, <1>3, OtherWritesKeeps, EndOfProgramKeeps DEF UninstallNext

\* What each removal has promised and has still to remove; and, where nothing has
\* come in its way, what it has taken away by now (command_builder.go:3698).
THEOREM RemovalInvHolds == UninstallSpec => []RemovalInv
  BY RemovalInvInit, RemovalInvStep, PTL DEF UninstallSpec

\* What was to be kept stays, whatever fails, however many removals there are and
\* whatever other commands write; a removal that nothing came in the way of leaves
\* nothing else (command_builder.go:3698).
THEOREM RemovalLeavesWhatWasChosen == UninstallSpec => []LeavesWhatWasChosen
<1>1. RemovalInv => LeavesWhatWasChosen
  BY DEF RemovalInv, Promises, Taken, At, LeavesWhatWasChosen
<1> QED
  BY <1>1, RemovalInvHolds, PTL

-----------------------------------------------------------------------------
(* Tools.                                                                  *)

\* Where a goroutine is in its command, and what it is called with.
StagesOf ==
  [none    |-> {"idle"},
   create  |-> {"fallocate", "mkswap", "swapon", "tee", "info"},
   delete  |-> {"swapoff", "sed", "remove", "info"},
   enable  |-> {"append", "sysctl -p"},
   disable |-> {"sed", "sysctl -w"},
   kernel  |-> {"write", "bash", "fetch", "dpkg"},
   install |-> {"package", "restart"},
   config  |-> {"write", "restart"},
   toggle  |-> {"stop", "restart"},
   remove  |-> {"package", "files"}]

ArgsOf(op) ==
  IF op \in {"create", "delete"} THEN Spaces
  ELSE IF op = "enable" THEN {"bbr", "bbr2"}
  ELSE IF op = "kernel" THEN {"bbr2", "xanmod"}
  ELSE {"none", "default", "custom"}

GoersOK ==
  /\ goer \in [Goers -> [op : DOMAIN StagesOf, pc : UNION {StagesOf[o] : o \in DOMAIN StagesOf},
                         arg : Spaces \cup Kernels \cup Rules \cup {"bbr"}]]
  /\ \A g \in Goers : goer[g].pc \in StagesOf[goer[g].op] /\ goer[g].arg \in ArgsOf(goer[g].op)

\* A command that may leave tool t in pieces runs alone, unless that is recorded.
Alone(t) ==
  t \notin upset =>
    \A g, h \in Goers : t \in ToolOf(goer[g].op) /\ t \in ToolOf(goer[h].op) => g = h

\* A swap file is listed last, and struck off before it is removed.
ListedInv ==
  "fstab" \notin upset =>
    /\ \A s \in fstab \ byUUID : space[s] = "swap"
    /\ \A g \in Goers :
         /\ goer[g].op = "create" /\ goer[g].pc # "info" => "/swapfile" \notin fstab
         /\ Comes(g, "create", "tee") => space["/swapfile"] = "swap"
         /\ Comes(g, "delete", "remove") => goer[g].arg \notin fstab \ byUUID

\* The swap spaces A, that are on, are those that are listed, but for some of U.
Agree(A, F, U) == A \subseteq F /\ F \subseteq A \cup U

\* What is swapped on is what is listed, but for the space that a command is at, and
\* for a partition that was deleted and is listed by UUID.
ActiveInv ==
  "swap" \notin upset =>
    /\ "fstab" \notin upset
    /\ (\A g \in Goers : "swap" \notin ToolOf(goer[g].op)) => Agree(active, fstab, byUUID)
    /\ \A g \in Goers : "swap" \in ToolOf(goer[g].op) =>
         Agree(active,
               IF Comes(g, "create", "tee") THEN fstab \cup {"/swapfile"}
               ELSE IF Comes(g, "delete", "sed") THEN fstab \ {goer[g].arg}
               ELSE fstab,
               byUUID)

SwapInv == Alone("swap") /\ Alone("fstab") /\ ListedInv /\ ActiveInv

BBRInv ==
  /\ Alone("bbr")
  /\ \A g \in Goers : goer[g].op = "enable" => goer[g].arg \in Supports(kernel)
  /\ "bbr" \notin upset =>
       /\ (\A g \in Goers : "bbr" \notin ToolOf(goer[g].op)) => algorithm = Loaded(kernel, "cubic")
       /\ \A g \in Goers :
            /\ Comes(g, "enable", "sysctl -p") => sysctl \in Supports(kernel)
            /\ Comes(g, "disable", "sysctl -w") => sysctl = "none"

BanInv ==
  /\ Alone("fail2ban")
  /\ "fail2ban" \notin upset =>
       /\ (\A g \in Goers : "fail2ban" \notin ToolOf(goer[g].op)) =>
            daemon \in {"off", jail} /\ (daemon # "off" => package)
       /\ \A g \in Goers : Comes(g, "remove", "files") => daemon = "off"

KernelInv == told \subseteq kernels

ToolsInv == ToolsTypeOK /\ GoersOK /\ SwapInv /\ BBRInv /\ BanInv /\ KernelInv

-----------------------------------------------------------------------------
(* Tools and goroutines.                                                   *)

LEMMA ToolOfIs ==
  \A op : /\ "swap" \in ToolOf(op) <=> op \in {"create", "delete"}
          /\ "fstab" \in ToolOf(op) <=> op \in {"create", "delete"}
          /\ "bbr" \in ToolOf(op) <=> op \in {"enable", "disable"}
          /\ "fail2ban" \in ToolOf(op) <=> op \in {"install", "config", "toggle", "remove"}
          /\ ToolOf(op) \subseteq {"swap", "fstab", "bbr", "fail2ban"}
BY DEF ToolOf

LEMMA StagesAre ==
  /\ DOMAIN StagesOf = {"none", "create", "delete", "enable", "disable", "kernel", "install",
                        "config", "toggle", "remove"}
  /\ StagesOf["none"] = {"idle"}
  /\ StagesOf["create"] = {"fallocate", "mkswap", "swapon", "tee", "info"}
  /\ StagesOf["delete"] = {"swapoff", "sed", "remove", "info"}
  /\ StagesOf["enable"] = {"append", "sysctl -p"} /\ StagesOf["disable"] = {"sed", "sysctl -w"}
  /\ StagesOf["kernel"] = {"write", "bash", "fetch", "dpkg"}
  /\ StagesOf["install"] = {"package", "restart"} /\ StagesOf["config"] = {"write", "restart"}
  /\ StagesOf["toggle"] = {"stop", "restart"} /\ StagesOf["remove"] = {"package", "files"}
BY DEF StagesOf

LEMMA BusyStages ==
  /\ "idle" \notin StagesOf["create"] /\ "idle" \notin StagesOf["delete"]
  /\ "idle" \notin StagesOf["enable"] /\ "idle" \notin StagesOf["disable"]
  /\ "idle" \notin StagesOf["kernel"] /\ "idle" \notin StagesOf["install"]
  /\ "idle" \notin StagesOf["config"] /\ "idle" \notin StagesOf["toggle"]
  /\ "idle" \notin StagesOf["remove"]
BY StagesAre

Place == [op : DOMAIN StagesOf, pc : UNION {StagesOf[o] : o \in DOMAIN StagesOf},
          arg : Spaces \cup Kernels \cup Rules \cup {"bbr"}]

LEMMA PlaceIs ==
  ASSUME NEW op \in DOMAIN StagesOf, NEW pc \in StagesOf[op], NEW arg \in ArgsOf(op)
  PROVE  [op |-> op, pc |-> pc, arg |-> arg] \in Place
BY DEF Place, ArgsOf, Kernels, Rules

LEMMA UnoccupiedIs ==
  /\ Unoccupied \in Place /\ Unoccupied.op = "none" /\ Unoccupied.pc = "idle"
  /\ Unoccupied.pc \in StagesOf[Unoccupied.op] /\ Unoccupied.arg \in ArgsOf(Unoccupied.op)
<1>1. "none" \in DOMAIN StagesOf /\ "idle" \in StagesOf["none"] /\ "none" \in ArgsOf("none")
  BY StagesAre DEF ArgsOf
<1>2. Unoccupied \in Place
  BY <1>1, PlaceIs DEF Unoccupied
<1> QED
  BY <1>1, <1>2 DEF Unoccupied

LEMMA PlaceExcept ==
  ASSUME NEW r \in Place, NEW pc
  PROVE  [r EXCEPT !.pc = pc] = [op |-> r.op, pc |-> pc, arg |-> r.arg]
<1> DEFINE A == DOMAIN StagesOf
           B == UNION {StagesOf[o] : o \in DOMAIN StagesOf}
           C == Spaces \cup Kernels \cup Rules \cup {"bbr"}
<1>1. r \in [op : A, pc : B, arg : C]
  BY DEF Place
<1> HIDE DEF A, B, C
<1> QED
  BY <1>1

LEMMA GoesIs ==
  ASSUME GoersOK, NEW g \in Goers, NEW pc \in StagesOf[goer[g].op], Goes(g, pc)
  PROVE  /\ GoersOK' /\ \A h \in Goers \ {g} : goer'[h] = goer[h]
         /\ goer'[g].op = goer[g].op /\ goer'[g].pc = pc /\ goer'[g].arg = goer[g].arg
<1>1. goer \in [Goers -> Place]
  BY DEF GoersOK, Place
<1>2. goer' = [goer EXCEPT ![g] = [op |-> goer[g].op, pc |-> pc, arg |-> goer[g].arg]]
  <2>1. [goer[g] EXCEPT !.pc = pc] = [op |-> goer[g].op, pc |-> pc, arg |-> goer[g].arg]
    BY <1>1, PlaceExcept
  <2>2. goer' = [goer EXCEPT ![g] = [goer[g] EXCEPT !.pc = pc]]
    BY DEF Goes
  <2> QED
    BY <2>1, <2>2
<1>3. /\ goer[g].op \in DOMAIN StagesOf /\ goer[g].arg \in ArgsOf(goer[g].op)
  BY <1>1 DEF GoersOK, Place
<1>4. [op |-> goer[g].op, pc |-> pc, arg |-> goer[g].arg] \in Place
  BY <1>3, PlaceIs
<1>5. goer' \in [Goers -> Place]
  BY <1>1, <1>2, <1>4
<1> QED
  BY <1>1, <1>2, <1>3, <1>5 DEF GoersOK, Place

LEMMA EndsIs ==
  ASSUME GoersOK, NEW g \in Goers, Ends(g)
  PROVE  /\ GoersOK' /\ \A h \in Goers \ {g} : goer'[h] = goer[h]
         /\ goer'[g].op = "none" /\ goer'[g].pc = "idle"
BY UnoccupiedIs DEF GoersOK, Place, Ends

\* A step of goroutine g: it goes on with its command or ends it, and leaves in
\* pieces at most its tool.
StepOf(g) ==
  /\ \A h \in Goers \ {g} : goer'[h] = goer[h]
  /\ goer'[g].op \in {goer[g].op, "none"}
  /\ goer'[g].op # "none" => goer'[g].arg = goer[g].arg
  /\ upset \subseteq upset' /\ upset' \subseteq upset \cup ToolOf(goer[g].op)

LEMMA AloneKeeps ==
  ASSUME NEW t, Alone(t), upset \subseteq upset',
         \A h \in Goers : t \in ToolOf(goer'[h].op) => t \in ToolOf(goer[h].op)
  PROVE  Alone(t)'
BY DEF Alone

LEMMA StepAlone ==
  ASSUME NEW t, Alone(t), GoersOK, NEW g \in Goers, StepOf(g), ToolOf("none") = {}
  PROVE  Alone(t)'
BY AloneKeeps DEF StepOf

LEMMA NoTool == ToolOf("none") = {}
BY ToolOfIs DEF ToolOf

\* A step that is no step of a tool leaves what is said of the tool.
LEMMA SwapOther ==
  ASSUME SwapInv, GoersOK, NEW g \in Goers, StepOf(g),
         goer[g].op \notin {"create", "delete"}, UNCHANGED swapVars
  PROVE  SwapInv'
<1>1. Alone("swap")' /\ Alone("fstab")'
  BY StepAlone, NoTool DEF SwapInv
<1>2. /\ "swap" \notin ToolOf(goer[g].op) /\ "fstab" \notin ToolOf(goer[g].op)
      /\ goer'[g].op \notin {"create", "delete"} /\ "swap" \notin ToolOf(goer'[g].op)
      /\ "swap" \in upset' <=> "swap" \in upset
      /\ "fstab" \in upset' <=> "fstab" \in upset
  BY ToolOfIs DEF StepOf
<1>3. ListedInv'
  BY <1>2 DEF SwapInv, ListedInv, swapVars, Comes, StepOf
<1>4. ActiveInv'
  BY <1>2 DEF SwapInv, ActiveInv, swapVars, Comes, StepOf
<1> QED
  BY <1>1, <1>3, <1>4 DEF SwapInv

LEMMA BBROther ==
  ASSUME BBRInv, GoersOK, NEW g \in Goers, StepOf(g),
         goer[g].op \notin {"enable", "disable"}, UNCHANGED bbrVars, kernel' = kernel
  PROVE  BBRInv'
<1>1. Alone("bbr")'
  BY StepAlone, NoTool DEF BBRInv
<1>2. /\ "bbr" \notin ToolOf(goer[g].op) /\ "bbr" \notin ToolOf(goer'[g].op)
      /\ goer'[g].op \notin {"enable", "disable"}
      /\ "bbr" \in upset' <=> "bbr" \in upset
  BY ToolOfIs DEF StepOf
<1> QED
  BY <1>1, <1>2 DEF BBRInv, bbrVars, Comes, StepOf, Loaded

LEMMA BanOther ==
  ASSUME BanInv, GoersOK, NEW g \in Goers, StepOf(g),
         goer[g].op \notin {"install", "config", "toggle", "remove"}, UNCHANGED banVars
  PROVE  BanInv'
<1>1. Alone("fail2ban")'
  BY StepAlone, NoTool DEF BanInv
<1>2. /\ "fail2ban" \notin ToolOf(goer[g].op) /\ "fail2ban" \notin ToolOf(goer'[g].op)
      /\ goer'[g].op # "remove"
      /\ "fail2ban" \in upset' <=> "fail2ban" \in upset
  BY ToolOfIs DEF StepOf
<1> QED
  BY <1>1, <1>2 DEF BanInv, banVars, Comes, StepOf

-----------------------------------------------------------------------------
(* A command begins.                                                       *)

\* The steps that the commands begin with.
Begins(op, pc, arg) ==
  /\ op \in DOMAIN StagesOf \ {"none"} /\ pc \in StagesOf[op] /\ arg \in ArgsOf(op)
  /\ op = "create" => pc = "fallocate" /\ space["/swapfile"] = "none"
  /\ op = "delete" => pc = "swapoff"
  /\ op = "enable" => pc = "append" /\ arg \in Supports(kernel)
  /\ op = "disable" => pc = "sed"
  /\ op = "remove" => pc = "package"

LEMMA ToolBegins ==
  ASSUME GoersOK, NEW g \in Goers, NEW op, NEW pc, NEW arg, BeginTool(g, op, pc, arg),
         Begins(op, pc, arg)
  PROVE  /\ GoersOK' /\ \A h \in Goers \ {g} : goer'[h] = goer[h]
         /\ goer'[g].op = op /\ goer'[g].pc = pc /\ goer'[g].arg = arg
         /\ goer[g].op = "none" /\ upset \subseteq upset'
         /\ \A t : t \notin upset' /\ t \in ToolOf(op) =>
              \A h \in Goers : t \notin ToolOf(goer[h].op)
<1>1. /\ goer' = [goer EXCEPT ![g] = [op |-> op, pc |-> pc, arg |-> arg]]
      /\ goer[g].pc = "idle"
      /\ upset' = upset \cup {t \in ToolOf(op) :
           \E h \in Goers \ {g} : goer[h].pc # "idle" /\ t \in ToolOf(goer[h].op)}
  BY DEF BeginTool
<1>2. goer \in [Goers -> Place] /\ [op |-> op, pc |-> pc, arg |-> arg] \in Place
  BY PlaceIs DEF GoersOK, Place, Begins
<1>3. goer' \in [Goers -> Place]
  BY <1>1, <1>2
<1>4. \A h \in Goers : goer[h].op \in DOMAIN StagesOf /\ goer[h].pc \in StagesOf[goer[h].op]
  BY DEF GoersOK
<1>5. \A h \in Goers : goer[h].pc = "idle" => goer[h].op = "none"
  <2>1. \A o \in DOMAIN StagesOf : o # "none" => "idle" \notin StagesOf[o]
    <3> SUFFICES ASSUME NEW o \in DOMAIN StagesOf, o # "none" PROVE "idle" \notin StagesOf[o]
      OBVIOUS
    <3>1. o \in {"create", "delete", "enable", "disable", "kernel", "install", "config",
                 "toggle", "remove"}
      BY StagesAre
    <3> QED
      BY <3>1, BusyStages
  <2> QED
    BY <1>4, <2>1
<1>6. GoersOK'
  BY <1>1, <1>2, <1>3 DEF GoersOK, Place, Begins
<1> QED
  BY <1>1, <1>2, <1>5, <1>6, NoTool

LEMMA BeginKeeps ==
  ASSUME ToolsInv, NEW g \in Goers, NEW op, NEW pc, NEW arg, BeginTool(g, op, pc, arg),
         Begins(op, pc, arg)
  PROVE  ToolsInv'
<1>1. /\ GoersOK' /\ \A h \in Goers \ {g} : goer'[h] = goer[h]
      /\ goer'[g].op = op /\ goer'[g].pc = pc /\ goer'[g].arg = arg
      /\ goer[g].op = "none" /\ upset \subseteq upset'
      /\ \A t : t \notin upset' /\ t \in ToolOf(op) => \A h \in Goers : t \notin ToolOf(goer[h].op)
  BY ToolBegins DEF ToolsInv
<1>2. UNCHANGED <<swapVars, bbrVars, kernelVars, banVars>>
  BY DEF BeginTool
<1>3. ASSUME NEW t, Alone(t) PROVE Alone(t)'
  BY <1>1, <1>3 DEF Alone
<1>4. ToolsTypeOK'
  <2>1. upset' \subseteq {"swap", "fstab", "bbr", "fail2ban"}
    BY ToolOfIs DEF BeginTool, ToolsInv, ToolsTypeOK
  <2>2. toolRuns' \in 0 .. MaxToolRuns /\ toolFaults' \in 0 .. MaxToolFaults
    BY ToolsConstants DEF BeginTool, ToolsInv, ToolsTypeOK
  <2>3. \A h \in Goers : goer'[h].op \in {"none", "create", "delete", "enable", "disable",
                                          "kernel", "install", "config", "toggle", "remove"}
    BY <1>1, StagesAre DEF ToolsInv, ToolsTypeOK, Begins
  <2> QED
    BY <1>2, <2>1, <2>2, <2>3 DEF ToolsInv, ToolsTypeOK, swapVars, bbrVars, kernelVars, banVars
<1>5. ListedInv'
  <2> SUFFICES ASSUME "fstab" \notin upset' PROVE ListedInv'
    BY DEF ListedInv
  <2>1. /\ \A s \in fstab \ byUUID : space[s] = "swap"
        /\ \A h \in Goers :
             /\ goer[h].op = "create" /\ goer[h].pc # "info" => "/swapfile" \notin fstab
             /\ Comes(h, "create", "tee") => space["/swapfile"] = "swap"
             /\ Comes(h, "delete", "remove") => goer[h].arg \notin fstab \ byUUID
    BY <1>1 DEF ToolsInv, SwapInv, ListedInv
  <2>3. "/swapfile" \notin byUUID
    BY DEF ToolsInv, ToolsTypeOK
  <2>2. ASSUME NEW h \in Goers
        PROVE  /\ goer'[h].op = "create" /\ goer'[h].pc # "info" => "/swapfile" \notin fstab
               /\ Comes(h, "create", "tee")' => space["/swapfile"] = "swap"
               /\ Comes(h, "delete", "remove")' => goer'[h].arg \notin fstab \ byUUID
    BY <1>1, <2>1, <2>3 DEF Comes, Begins
  <2> QED
    BY <1>2, <2>1, <2>2 DEF ListedInv, swapVars
<1>6. ActiveInv'
  <2> SUFFICES ASSUME "swap" \notin upset' PROVE ActiveInv'
    BY DEF ActiveInv
  <2>1. "swap" \notin upset /\ "fstab" \notin upset /\ ActiveInv
    BY <1>1 DEF ToolsInv, SwapInv, ActiveInv
  <2>2. "fstab" \notin upset'
    BY <2>1, ToolOfIs DEF BeginTool
  <2>3. CASE "swap" \in ToolOf(op)
    <3>1. Agree(active, fstab, byUUID) /\ \A h \in Goers \ {g} : "swap" \notin ToolOf(goer'[h].op)
      BY <1>1, <2>1, <2>3 DEF ActiveInv
    <3>2. /\ "swap" \in ToolOf(goer'[g].op)
          /\ ~Comes(g, "create", "tee")' /\ ~Comes(g, "delete", "sed")'
      BY <1>1, <2>3 DEF Comes, Begins
    <3> QED
      BY <1>2, <2>2, <3>1, <3>2 DEF ActiveInv, swapVars
  <2>4. CASE "swap" \notin ToolOf(op)
    <3>1. \A h \in Goers : "swap" \in ToolOf(goer'[h].op) => h # g /\ goer'[h] = goer[h]
      BY <1>1, <2>4
    <3>2. (\A h \in Goers : "swap" \notin ToolOf(goer'[h].op)) =>
            \A h \in Goers : "swap" \notin ToolOf(goer[h].op)
      BY <1>1, <2>4, NoTool
    <3> QED
      BY <1>2, <2>1, <2>2, <3>1, <3>2 DEF ActiveInv, Comes, swapVars
  <2> QED
    BY <2>3, <2>4
<1>7. SwapInv'
  BY <1>3, <1>5, <1>6 DEF ToolsInv, SwapInv
<1>8. BBRInv'
  <2>1. BBRInv
    BY DEF ToolsInv
  <2>2. (\A h \in Goers : "bbr" \notin ToolOf(goer'[h].op)) =>
          \A h \in Goers : "bbr" \notin ToolOf(goer[h].op)
    BY <1>1, NoTool
  <2>3. \A h \in Goers : goer'[h].op = "enable" => goer'[h].arg \in Supports(kernel)
    BY <1>1, <2>1 DEF BBRInv, Begins
  <2>4. "bbr" \notin upset' => \A h \in Goers :
          /\ Comes(h, "enable", "sysctl -p")' => sysctl \in Supports(kernel)
          /\ Comes(h, "disable", "sysctl -w")' => sysctl = "none"
    BY <1>1, <2>1 DEF BBRInv, Begins, Comes
  <2> QED
    BY <1>1, <1>2, <1>3, <2>1, <2>2, <2>3, <2>4 DEF BBRInv, bbrVars, kernelVars, Loaded
<1>9. BanInv'
  <2>1. BanInv
    BY DEF ToolsInv
  <2>2. (\A h \in Goers : "fail2ban" \notin ToolOf(goer'[h].op)) =>
          \A h \in Goers : "fail2ban" \notin ToolOf(goer[h].op)
    BY <1>1, NoTool
  <2>3. "fail2ban" \notin upset' => \A h \in Goers : Comes(h, "remove", "files")' => daemon = "off"
    BY <1>1, <2>1 DEF BanInv, Begins, Comes
  <2> QED
    BY <1>1, <1>2, <1>3, <2>1, <2>2, <2>3 DEF BanInv, banVars
<1> QED
  BY <1>1, <1>2, <1>4, <1>7, <1>8, <1>9 DEF ToolsInv, KernelInv, kernelVars

-----------------------------------------------------------------------------
(* The steps of a command.                                                 *)

LEMMA GoesStep ==
  ASSUME GoersOK, NEW g \in Goers, NEW pc \in StagesOf[goer[g].op],
         Goes(g, pc) \/ Ends(g), upset \subseteq upset', upset' \subseteq upset \cup ToolOf(goer[g].op)
  PROVE  StepOf(g) /\ GoersOK'
BY GoesIs, EndsIs DEF StepOf

LEMMA WellDoneIs ==
  /\ WellDone => upset' = upset /\ toolRuns' = toolRuns /\ toolFaults' = toolFaults
  /\ \A S : Fails(S) => upset' = upset \cup S
BY DEF WellDone, Fails

\* Ops and stages that go together.
LEMMA StageIs ==
  ASSUME GoersOK, NEW g \in Goers
  PROVE  /\ goer[g].op \in DOMAIN StagesOf /\ goer[g].pc \in StagesOf[goer[g].op]
         /\ goer[g].arg \in ArgsOf(goer[g].op)
BY DEF GoersOK

LEMMA CallsAre ==
  /\ DOMAIN CallsOfCreate = {"fallocate", "mkswap", "swapon", "tee"}
  /\ CallsOfCreate["fallocate"] = "mkswap" /\ CallsOfCreate["mkswap"] = "swapon"
  /\ CallsOfCreate["swapon"] = "tee" /\ CallsOfCreate["tee"] = "info"
BY DEF CallsOfCreate

LEMMA CreateStepIs ==
  ASSUME GoersOK, NEW g \in Goers, CreateStep(g)
  PROVE  StepOf(g) /\ GoersOK' /\ goer[g].op = "create"
<1>1. PICK call \in DOMAIN CallsOfCreate :
        /\ Comes(g, "create", call)
        /\ \/ Goes(g, CallsOfCreate[call]) /\ upset' = upset
           \/ Ends(g) /\ upset' = upset \cup {"swap"}
  BY WellDoneIs DEF CreateStep
<1>2. CallsOfCreate[call] \in StagesOf["create"]
  <2>1. {"mkswap", "swapon", "tee", "info"} \subseteq StagesOf["create"]
    BY StagesAre
  <2> QED
    BY <2>1, CallsAre
<1>3. "swap" \in ToolOf(goer[g].op) /\ goer[g].op = "create"
  BY <1>1, ToolOfIs DEF Comes
<1> QED
  BY <1>1, <1>2, <1>3, GoesStep

LEMMA DeleteStepIs ==
  ASSUME GoersOK, NEW g \in Goers, DeleteStep(g)
  PROVE  StepOf(g) /\ GoersOK' /\ goer[g].op = "delete"
<1>1. goer[g].op = "delete"
  BY DEF DeleteStep, Comes
<1>2. {"sed", "remove", "info"} \subseteq StagesOf["delete"]
  BY StagesAre
<1>3. {"swap", "fstab"} \subseteq ToolOf("delete")
  BY ToolOfIs
<1>4. /\ Goes(g, "sed") \/ Goes(g, "remove") \/ Goes(g, "info") \/ Ends(g)
      /\ upset' = upset \/ upset' = upset \cup {"swap"} \/ upset' = upset \cup {"swap", "fstab"}
  BY WellDoneIs DEF DeleteStep
<1> QED
  BY <1>1, <1>2, <1>3, <1>4, GoesStep

LEMMA InfoStepIs ==
  ASSUME GoersOK, NEW g \in Goers, LoadSwapInfoCmd(g)
  PROVE  StepOf(g) /\ GoersOK' /\ goer[g].op \in {"create", "delete"} /\ goer[g].pc = "info"
<1>1. goer[g].pc = "info" /\ Ends(g) /\ upset' = upset
  BY DEF LoadSwapInfoCmd, WellDone
<1>2. goer[g].op \in {"create", "delete"}
  <2>1. /\ "info" \notin StagesOf["none"] /\ "info" \notin StagesOf["enable"]
        /\ "info" \notin StagesOf["disable"] /\ "info" \notin StagesOf["kernel"]
        /\ "info" \notin StagesOf["install"] /\ "info" \notin StagesOf["config"]
        /\ "info" \notin StagesOf["toggle"] /\ "info" \notin StagesOf["remove"]
    BY StagesAre
  <2>2. goer[g].op \in DOMAIN StagesOf /\ "info" \in StagesOf[goer[g].op]
    BY <1>1, StageIs
  <2>3. DOMAIN StagesOf = {"none", "create", "delete", "enable", "disable", "kernel", "install",
                           "config", "toggle", "remove"}
    BY StagesAre
  <2> QED
    BY <2>1, <2>2, <2>3
<1> QED
  BY <1>1, <1>2, GoesStep, StageIs

LEMMA EnableStepIs ==
  ASSUME GoersOK, NEW g \in Goers, EnableStep(g)
  PROVE  StepOf(g) /\ GoersOK' /\ goer[g].op = "enable"
<1>1. /\ goer[g].op = "enable" /\ (Goes(g, "sysctl -p") \/ Ends(g))
      /\ upset' = upset \/ upset' = upset \cup {"bbr"}
  BY WellDoneIs DEF EnableStep, Comes
<1>2. "sysctl -p" \in StagesOf["enable"] /\ "bbr" \in ToolOf("enable")
  BY StagesAre, ToolOfIs
<1> QED
  BY <1>1, <1>2, GoesStep DEF EnableStep, Comes

LEMMA DisableStepIs ==
  ASSUME GoersOK, NEW g \in Goers, DisableStep(g)
  PROVE  StepOf(g) /\ GoersOK' /\ goer[g].op = "disable"
<1>1. /\ goer[g].op = "disable"
      /\ Goes(g, "sysctl -w") \/ Ends(g)
      /\ upset' = upset \/ upset' = upset \cup {"bbr"}
  BY WellDoneIs DEF DisableStep, Comes
<1>2. "sysctl -w" \in StagesOf["disable"] /\ "bbr" \in ToolOf("disable")
  BY StagesAre, ToolOfIs
<1> QED
  BY <1>1, <1>2, GoesStep

LEMMA KernelStepIs ==
  ASSUME GoersOK, NEW g \in Goers, KernelStep(g)
  PROVE  StepOf(g) /\ GoersOK' /\ goer[g].op = "kernel"
<1>1. /\ goer[g].op = "kernel"
      /\ Goes(g, "bash") \/ Goes(g, "fetch") \/ Goes(g, "dpkg") \/ Ends(g)
      /\ upset' = upset
  BY WellDoneIs DEF KernelStep, Comes
<1>2. {"bash", "fetch", "dpkg"} \subseteq StagesOf["kernel"]
  BY StagesAre
<1> QED
  BY <1>1, <1>2, GoesStep

LEMMA BanStepIs ==
  ASSUME GoersOK, NEW g \in Goers, BanStep(g)
  PROVE  StepOf(g) /\ GoersOK' /\ goer[g].op \in {"install", "config", "toggle", "remove"}
<1>1. ASSUME goer[g].pc = "restart" PROVE goer[g].op \in {"install", "config", "toggle"}
  <2>1. /\ "restart" \notin StagesOf["none"] /\ "restart" \notin StagesOf["enable"]
        /\ "restart" \notin StagesOf["disable"] /\ "restart" \notin StagesOf["kernel"]
        /\ "restart" \notin StagesOf["create"] /\ "restart" \notin StagesOf["delete"]
        /\ "restart" \notin StagesOf["remove"]
    BY StagesAre
  <2>2. goer[g].op \in DOMAIN StagesOf /\ "restart" \in StagesOf[goer[g].op]
    BY <1>1, StageIs
  <2>3. DOMAIN StagesOf = {"none", "create", "delete", "enable", "disable", "kernel", "install",
                           "config", "toggle", "remove"}
    BY StagesAre
  <2> QED
    BY <2>1, <2>2, <2>3
<1>2. goer[g].op \in {"install", "config", "toggle", "remove"}
  BY <1>1 DEF BanStep, BanWrites, Comes
<1>3. /\ \/ goer[g].op \in {"install", "config"} /\ Goes(g, "restart")
         \/ goer[g].op = "remove" /\ Goes(g, "files")
         \/ Ends(g)
      /\ upset' = upset \/ upset' = upset \cup {"fail2ban"}
  BY WellDoneIs DEF BanStep, BanWrites, Comes
<1>4. /\ "restart" \in StagesOf["install"] /\ "restart" \in StagesOf["config"]
      /\ "files" \in StagesOf["remove"] /\ "fail2ban" \in ToolOf(goer[g].op)
  BY <1>2, StagesAre, ToolOfIs
<1> QED
  BY <1>2, <1>3, <1>4, GoesStep, StageIs

-----------------------------------------------------------------------------
(* Swap.                                                                   *)

LEMMA OthersOf ==
  ASSUME NEW t, Alone(t), t \notin upset, NEW g \in Goers, t \in ToolOf(goer[g].op)
  PROVE  \A h \in Goers \ {g} : t \notin ToolOf(goer[h].op)
BY DEF Alone

LEMMA CreateKeeps ==
  ASSUME ToolsTypeOK, GoersOK, SwapInv, NEW g \in Goers, CreateStep(g)
  PROVE  SwapInv'
<1>1. StepOf(g) /\ GoersOK' /\ goer[g].op = "create"
  BY CreateStepIs
<1>2. Alone("swap")' /\ Alone("fstab")'
  BY <1>1, StepAlone, NoTool DEF SwapInv
<1>3. PICK call \in {"fallocate", "mkswap", "swapon", "tee"} :
        /\ Comes(g, "create", call)
        /\ \/ CreateCall(g, call) /\ Goes(g, CallsOfCreate[call]) /\ WellDone
           \/ /\ upset' = upset \cup {"swap"} /\ Ends(g)
              /\ space' = [space EXCEPT !["/swapfile"] =
                                         IF "/swapfile" \in active THEN @ ELSE "none"]
              /\ UNCHANGED <<active, fstab, byUUID, shownSwap>>
  BY CallsAre, WellDoneIs DEF CreateStep
<1>4. ASSUME CreateCall(g, call), Goes(g, CallsOfCreate[call]), WellDone
      PROVE  goer'[g].op = "create" /\ goer'[g].pc = CallsOfCreate[call] /\ upset' = upset
  <2>1. CallsOfCreate[call] \in StagesOf[goer[g].op]
    <3>1. {"mkswap", "swapon", "tee", "info"} \subseteq StagesOf["create"]
      BY StagesAre
    <3> QED
      BY <1>1, <3>1, CallsAre
  <2> QED
    BY <1>1, <1>4, <2>1, GoesIs DEF WellDone
<1>5. space \in [Spaces -> {"none", "plain", "swap", "removed"}] /\ "/swapfile" \in Spaces
      /\ fstab \subseteq Spaces /\ byUUID' = byUUID /\ "/swapfile" \notin byUUID
  BY <1>3 DEF ToolsTypeOK, Spaces, CreateCall
<1>6. ListedInv'
  <2> SUFFICES ASSUME "fstab" \notin upset' PROVE ListedInv'
    BY DEF ListedInv
  <2>1. "fstab" \notin upset /\ "fstab" \in ToolOf(goer[g].op)
    BY <1>1, ToolOfIs DEF StepOf
  <2>2. \A h \in Goers \ {g} : goer'[h].op \notin {"create", "delete"}
    BY <1>1, <2>1, OthersOf, ToolOfIs DEF SwapInv, StepOf
  <2>3. "/swapfile" \notin fstab /\ (\A s \in fstab \ byUUID : space[s] = "swap")
        /\ (call = "tee" => space["/swapfile"] = "swap")
    BY <1>3, <2>1 DEF SwapInv, ListedInv, Comes
  <2>4. CASE CreateCall(g, call) /\ Goes(g, CallsOfCreate[call]) /\ WellDone
    <3>1. goer'[g].op = "create" /\ goer'[g].pc = CallsOfCreate[call]
      BY <1>4, <2>4
    <3>2. \A s \in fstab' \ byUUID' : space'[s] = "swap"
      BY <1>5, <2>3, <2>4 DEF CreateCall
    <3>3. call # "tee" => "/swapfile" \notin fstab'
      BY <2>3, <2>4 DEF CreateCall
    <3>4. call = "swapon" => space'["/swapfile"] = "swap"
      BY <1>5, <2>4 DEF CreateCall
    <3>5. /\ CallsOfCreate[call] = "tee" => call = "swapon"
          /\ CallsOfCreate[call] # "info" => call # "tee"
      BY <1>3, CallsAre
    <3>6. \A h \in Goers :
         /\ goer'[h].op = "create" /\ goer'[h].pc # "info" => "/swapfile" \notin fstab'
         /\ Comes(h, "create", "tee")' => space'["/swapfile"] = "swap"
         /\ Comes(h, "delete", "remove")' => goer'[h].arg \notin fstab' \ byUUID'
      BY <2>2, <3>1, <3>3, <3>4, <3>5 DEF Comes
    <3> QED
      BY <3>2, <3>6 DEF ListedInv
  <2>5. CASE /\ Ends(g) /\ UNCHANGED <<active, fstab, byUUID, shownSwap>>
             /\ space' = [space EXCEPT !["/swapfile"] =
                                         IF "/swapfile" \in active THEN @ ELSE "none"]
    <3>1. goer'[g].op = "none"
      BY <2>5, EndsIs
    <3>2. \A s \in fstab' \ byUUID' : space'[s] = "swap"
      BY <1>5, <2>3, <2>5
    <3> QED
      BY <2>2, <3>1, <3>2 DEF ListedInv, Comes
  <2> QED
    BY <1>3, <2>4, <2>5
<1>7. ActiveInv'
  <2> SUFFICES ASSUME "swap" \notin upset' PROVE ActiveInv'
    BY DEF ActiveInv
  <2>1. "swap" \notin upset /\ "fstab" \notin upset /\ "swap" \in ToolOf(goer[g].op)
    BY <1>1, ToolOfIs DEF StepOf, SwapInv, ActiveInv
  <2>2. \A h \in Goers \ {g} : "swap" \notin ToolOf(goer'[h].op)
    BY <1>1, <2>1, OthersOf DEF SwapInv, StepOf
  <2>3. CreateCall(g, call) /\ Goes(g, CallsOfCreate[call]) /\ WellDone
    BY <1>3
  <2>4. goer'[g].op = "create" /\ goer'[g].pc = CallsOfCreate[call] /\ upset' = upset
    BY <1>4, <2>3
  <2>5. Agree(active, IF call = "tee" THEN fstab \cup {"/swapfile"} ELSE fstab, byUUID)
    BY <1>1, <1>3, <2>1 DEF SwapInv, ActiveInv, Comes
  <2>6. Agree(active',
              IF CallsOfCreate[call] = "tee" THEN fstab' \cup {"/swapfile"} ELSE fstab', byUUID')
    BY <1>3, <1>5, <2>3, <2>5, CallsAre DEF CreateCall, Agree
  <2>7. "swap" \in ToolOf(goer'[g].op)
    BY <2>4, ToolOfIs
  <2> QED
    BY <2>1, <2>2, <2>4, <2>6, <2>7 DEF ActiveInv, Comes
<1> QED
  BY <1>2, <1>6, <1>7 DEF SwapInv

LEMMA DeleteSwapKeeps ==
  ASSUME ToolsTypeOK, GoersOK, SwapInv, NEW g \in Goers, DeleteStep(g)
  PROVE  SwapInv'
<1>1. StepOf(g) /\ GoersOK' /\ goer[g].op = "delete"
  BY DeleteStepIs
<1>2. Alone("swap")' /\ Alone("fstab")'
  BY <1>1, StepAlone, NoTool DEF SwapInv
<1> DEFINE target == goer[g].arg
<1>3. space \in [Spaces -> {"none", "plain", "swap", "removed"}] /\ target \in Spaces
      /\ fstab \subseteq Spaces /\ byUUID' = byUUID
  BY <1>1, StageIs DEF ToolsTypeOK, ArgsOf, DeleteStep
<1>4. {"sed", "remove", "info"} \subseteq StagesOf[goer[g].op]
  BY <1>1, StagesAre
<1>5. \/ /\ Comes(g, "delete", "swapoff") /\ Goes(g, "sed") /\ UNCHANGED <<space, fstab>>
         /\ (active' = active \ {target} /\ upset' = upset) \/ "swap" \in upset'
      \/ /\ Comes(g, "delete", "sed") /\ Goes(g, "remove") /\ UNCHANGED <<space, active>>
         /\ \/ fstab' = fstab \ ({target} \ byUUID) /\ upset' = upset
            \/ "swap" \in upset' /\ "fstab" \in upset'
      \/ /\ Comes(g, "delete", "remove") /\ UNCHANGED <<active, fstab>>
         /\ \/ space' = [space EXCEPT ![target] = Removed(target)] /\ Goes(g, "info")
              /\ upset' = upset
            \/ "swap" \in upset' /\ Ends(g) /\ UNCHANGED space
  BY WellDoneIs DEF DeleteStep, SedTakes
<1>6. /\ Goes(g, "sed") => goer'[g].op = "delete" /\ goer'[g].pc = "sed" /\ goer'[g].arg = target
      /\ Goes(g, "remove") =>
           goer'[g].op = "delete" /\ goer'[g].pc = "remove" /\ goer'[g].arg = target
      /\ Goes(g, "info") => goer'[g].op = "delete" /\ goer'[g].pc = "info"
      /\ Ends(g) => goer'[g].op = "none"
  BY <1>1, <1>4, GoesIs, EndsIs
<1> HIDE DEF target
<1>7. ListedInv'
  <2> SUFFICES ASSUME "fstab" \notin upset' PROVE ListedInv'
    BY DEF ListedInv
  <2>1. "fstab" \notin upset /\ "fstab" \in ToolOf(goer[g].op)
    BY <1>1, ToolOfIs DEF StepOf
  <2>2. \A h \in Goers \ {g} : goer'[h].op \notin {"create", "delete"}
    BY <1>1, <2>1, OthersOf, ToolOfIs DEF SwapInv, StepOf
  <2>3. /\ \A s \in fstab \ byUUID : space[s] = "swap"
        /\ Comes(g, "delete", "remove") => target \notin fstab \ byUUID
    BY <2>1 DEF SwapInv, ListedInv, target
  <2>4. \A s \in fstab' \ byUUID' : space'[s] = "swap"
    BY <1>3, <1>5, <2>3
  <2>5. Goes(g, "remove") => target \notin fstab' \ byUUID'
    BY <1>3, <1>4, <1>5, <1>6 DEF Comes
  <2>6. Comes(g, "delete", "remove")' => goer'[g].arg \notin fstab' \ byUUID'
    BY <1>5, <1>6, <2>5 DEF Comes
  <2>7. goer'[g].op # "create"
    BY <1>1 DEF StepOf
  <2> QED
    BY <2>2, <2>4, <2>6, <2>7 DEF ListedInv, Comes
<1>8. ActiveInv'
  <2> SUFFICES ASSUME "swap" \notin upset' PROVE ActiveInv'
    BY DEF ActiveInv
  <2>1. "swap" \notin upset /\ "fstab" \notin upset /\ "swap" \in ToolOf(goer[g].op)
        /\ "fstab" \notin upset'
    BY <1>1, <1>5, ToolOfIs DEF StepOf, SwapInv, ActiveInv
  <2>2. \A h \in Goers \ {g} : "swap" \notin ToolOf(goer'[h].op)
    BY <1>1, <2>1, OthersOf DEF SwapInv, StepOf
  <2>3. Agree(active, IF goer[g].pc = "sed" THEN fstab \ {target} ELSE fstab, byUUID)
    BY <1>1, <2>1 DEF SwapInv, ActiveInv, Comes, target
  <2>4. goer'[g].op = "delete"
        /\ Agree(active', IF goer'[g].pc = "sed" THEN fstab' \ {goer'[g].arg} ELSE fstab',
                 byUUID')
    <3>1. CASE Comes(g, "delete", "swapoff")
      <4>1. Agree(active, fstab, byUUID) /\ active' = active \ {target} /\ fstab' = fstab
        BY <1>5, <2>1, <2>3, <3>1 DEF Comes
      <4>2. goer'[g].op = "delete" /\ goer'[g].pc = "sed" /\ goer'[g].arg = target
        BY <1>5, <1>6, <3>1 DEF Comes
      <4> QED
        BY <1>3, <4>1, <4>2 DEF Agree
    <3>2. CASE Comes(g, "delete", "sed")
      <4>1. /\ Agree(active, fstab \ {target}, byUUID) /\ active' = active
            /\ fstab' = fstab \ ({target} \ byUUID)
        BY <1>5, <2>1, <2>3, <3>2 DEF Comes
      <4>2. goer'[g].op = "delete" /\ goer'[g].pc = "remove"
        BY <1>5, <1>6, <3>2 DEF Comes
      <4>3. Agree(active', fstab', byUUID')
        BY <1>3, <4>1 DEF Agree
      <4> QED
        BY <4>2, <4>3
    <3>3. CASE Comes(g, "delete", "remove")
      <4>1. Agree(active, fstab, byUUID) /\ active' = active /\ fstab' = fstab
        BY <1>5, <2>1, <2>3, <3>3 DEF Comes
      <4>2. goer'[g].op = "delete" /\ goer'[g].pc = "info"
        BY <1>5, <1>6, <2>1, <3>3 DEF Comes
      <4> QED
        BY <1>3, <4>1, <4>2
    <3> QED
      BY <1>5, <3>1, <3>2, <3>3
  <2>5. "swap" \in ToolOf(goer'[g].op)
    BY <2>4, ToolOfIs
  <2> QED
    BY <2>1, <2>2, <2>4, <2>5 DEF ActiveInv, Comes
<1> QED
  BY <1>2, <1>7, <1>8 DEF SwapInv

LEMMA InfoKeeps ==
  ASSUME ToolsTypeOK, GoersOK, SwapInv, NEW g \in Goers, LoadSwapInfoCmd(g)
  PROVE  SwapInv'
<1>1. StepOf(g) /\ GoersOK' /\ goer[g].op \in {"create", "delete"} /\ goer[g].pc = "info"
  BY InfoStepIs
<1>2. Alone("swap")' /\ Alone("fstab")'
  BY <1>1, StepAlone, NoTool DEF SwapInv
<1>3. UNCHANGED <<space, active, fstab, byUUID, upset>> /\ goer'[g].op = "none"
  BY EndsIs DEF LoadSwapInfoCmd, WellDone
<1>4. ListedInv'
  BY <1>1, <1>3 DEF SwapInv, ListedInv, StepOf, Comes
<1>5. ActiveInv'
  <2> SUFFICES ASSUME "swap" \notin upset' PROVE ActiveInv'
    BY DEF ActiveInv
  <2>1. "swap" \notin upset /\ "fstab" \notin upset /\ "swap" \in ToolOf(goer[g].op)
    BY <1>1, <1>3, ToolOfIs DEF SwapInv, ActiveInv
  <2>2. Agree(active, fstab, byUUID)
    BY <1>1, <2>1 DEF SwapInv, ActiveInv, Comes
  <2>3. \A h \in Goers \ {g} : "swap" \notin ToolOf(goer'[h].op)
    BY <1>1, <2>1, OthersOf DEF SwapInv, StepOf
  <2> QED
    BY <1>3, <2>1, <2>2, <2>3, NoTool DEF ActiveInv
<1> QED
  BY <1>2, <1>4, <1>5 DEF SwapInv

-----------------------------------------------------------------------------
(* Congestion control, fail2ban.                                           *)

LEMMA BBRKeeps ==
  ASSUME GoersOK, BBRInv, NEW g \in Goers, EnableStep(g) \/ DisableStep(g)
  PROVE  BBRInv'
<1>1. StepOf(g) /\ GoersOK' /\ goer[g].op \in {"enable", "disable"}
  BY EnableStepIs, DisableStepIs
<1>2. Alone("bbr")' /\ (kernel' = kernel)
  BY <1>1, StepAlone, NoTool DEF BBRInv, EnableStep, DisableStep, OtherThanBBR, kernelVars
<1>3. \A h \in Goers : goer'[h].op = "enable" => goer'[h].arg \in Supports(kernel')
  BY <1>1, <1>2 DEF BBRInv, StepOf
<1>4. ASSUME "bbr" \notin upset'
      PROVE  /\ (\A h \in Goers : "bbr" \notin ToolOf(goer'[h].op)) =>
                  algorithm' = Loaded(kernel, "cubic")'
             /\ \A h \in Goers :
                  /\ Comes(h, "enable", "sysctl -p")' => sysctl' \in Supports(kernel')
                  /\ Comes(h, "disable", "sysctl -w")' => sysctl' = "none"
  <2>1. "bbr" \notin upset /\ "bbr" \in ToolOf(goer[g].op)
    BY <1>1, <1>4, ToolOfIs DEF StepOf
  <2>2. \A h \in Goers \ {g} : goer'[h].op \notin {"enable", "disable"}
    BY <1>1, <2>1, OthersOf, ToolOfIs DEF BBRInv, StepOf
  <2>3. \/ /\ Comes(g, "enable", "append") /\ sysctl' = goer[g].arg /\ Goes(g, "sysctl -p")
        \/ /\ Comes(g, "enable", "sysctl -p") /\ Ends(g) /\ sysctl' = sysctl
           /\ algorithm' = Loaded(kernel, algorithm)
        \/ Comes(g, "disable", "sed") /\ sysctl' = "none" /\ Goes(g, "sysctl -w")
        \/ /\ Comes(g, "disable", "sysctl -w") /\ Ends(g) /\ sysctl' = sysctl
           /\ algorithm' = "cubic"
    BY <1>4 DEF EnableStep, DisableStep, Fails
  <2>4. /\ Goes(g, "sysctl -p") /\ goer[g].op = "enable" =>
             goer'[g].op = "enable" /\ goer'[g].pc = "sysctl -p"
        /\ Goes(g, "sysctl -w") /\ goer[g].op = "disable" =>
             goer'[g].op = "disable" /\ goer'[g].pc = "sysctl -w"
        /\ Ends(g) => goer'[g].op = "none"
    <3>1. "sysctl -p" \in StagesOf["enable"] /\ "sysctl -w" \in StagesOf["disable"]
      BY StagesAre
    <3> QED
      BY <3>1, GoesIs, EndsIs
  <2>5. /\ goer[g].op = "enable" => goer[g].arg \in Supports(kernel)
        /\ Comes(g, "enable", "sysctl -p") => sysctl \in Supports(kernel)
        /\ Comes(g, "disable", "sysctl -w") => sysctl = "none"
    BY <2>1 DEF BBRInv
  <2>6. ASSUME \A h \in Goers : "bbr" \notin ToolOf(goer'[h].op)
        PROVE  algorithm' = Loaded(kernel, "cubic")'
    <3>1. goer'[g].op = "none" \/ goer'[g].op \notin {"enable", "disable"}
      BY <2>6, ToolOfIs
    <3>2. "none" \notin Supports(kernel)
      BY DEF Supports
    <3> QED
      BY <1>2, <2>3, <2>4, <2>5, <3>1, <3>2 DEF Loaded, Comes
  <2>7. ASSUME NEW h \in Goers
        PROVE  /\ Comes(h, "enable", "sysctl -p")' => sysctl' \in Supports(kernel')
               /\ Comes(h, "disable", "sysctl -w")' => sysctl' = "none"
    BY <1>2, <2>2, <2>3, <2>4, <2>5 DEF Comes
  <2> QED
    BY <2>6, <2>7
<1> QED
  BY <1>2, <1>3, <1>4 DEF BBRInv

LEMMA BanKeeps ==
  ASSUME GoersOK, BanInv, NEW g \in Goers, BanStep(g)
  PROVE  BanInv'
<1>1. StepOf(g) /\ GoersOK' /\ goer[g].op \in {"install", "config", "toggle", "remove"}
  BY BanStepIs
<1>2. Alone("fail2ban")'
  BY <1>1, StepAlone, NoTool DEF BanInv
<1>3. ASSUME "fail2ban" \notin upset'
      PROVE  /\ (\A h \in Goers : "fail2ban" \notin ToolOf(goer'[h].op)) =>
                  daemon' \in {"off", jail'} /\ (daemon' # "off" => package')
             /\ \A h \in Goers : Comes(h, "remove", "files")' => daemon' = "off"
  <2>1. "fail2ban" \notin upset /\ "fail2ban" \in ToolOf(goer[g].op)
    BY <1>1, <1>3, ToolOfIs DEF StepOf
  <2>2. \A h \in Goers \ {g} : goer'[h].op \notin {"install", "config", "toggle", "remove"}
    BY <1>1, <2>1, OthersOf, ToolOfIs DEF BanInv, StepOf
  <2>3. Comes(g, "remove", "files") => daemon = "off"
    BY <2>1 DEF BanInv
  <2>4. \/ goer[g].op \in {"install", "config"} /\ Goes(g, "restart")
        \/ Ends(g) /\ daemon' = "off"
        \/ Ends(g) /\ daemon' = (IF package THEN jail ELSE "off") /\ UNCHANGED <<jail, package>>
        \/ Comes(g, "remove", "package") /\ Goes(g, "files") /\ daemon' = "off"
        \/ Comes(g, "remove", "files") /\ Ends(g) /\ daemon' = daemon
    BY <1>3 DEF BanStep, BanWrites, Fails, Comes
  <2>5. /\ goer[g].op \in {"install", "config"} /\ Goes(g, "restart") => goer'[g].op = goer[g].op
        /\ goer[g].op = "remove" /\ Goes(g, "files") => goer'[g].op = "remove"
        /\ Ends(g) => goer'[g].op = "none"
    <3>1. /\ "restart" \in StagesOf["install"] /\ "restart" \in StagesOf["config"]
          /\ "files" \in StagesOf["remove"]
      BY StagesAre
    <3> QED
      BY <3>1, GoesIs, EndsIs
  <2>6. ASSUME \A h \in Goers : "fail2ban" \notin ToolOf(goer'[h].op)
        PROVE  daemon' \in {"off", jail'} /\ (daemon' # "off" => package')
    <3>1. goer'[g].op \notin {"install", "config", "toggle", "remove"}
      BY <2>6, ToolOfIs
    <3> QED
      BY <2>3, <2>4, <2>5, <3>1 DEF Comes
  <2>7. ASSUME NEW h \in Goers PROVE Comes(h, "remove", "files")' => daemon' = "off"
    BY <2>2, <2>3, <2>4, <2>5 DEF Comes
  <2> QED
    BY <2>6, <2>7
<1> QED
  BY <1>2, <1>3 DEF BanInv

-----------------------------------------------------------------------------
(* Every step.                                                             *)

LEMMA StepTypes ==
  ASSUME ToolsTypeOK, GoersOK, GoersOK', NEW g \in Goers, StepOf(g), ToolStep(g)
  PROVE  ToolsTypeOK'
<1>1. /\ \A h \in Goers : goer'[h].op \in {"none", "create", "delete", "enable", "disable", "kernel",
                                          "install", "config", "toggle", "remove"}
      /\ upset' \subseteq {"swap", "fstab", "bbr", "fail2ban"}
  BY StagesAre, ToolOfIs DEF GoersOK, StepOf, ToolsTypeOK
<1>2. toolRuns' \in 0 .. MaxToolRuns /\ toolFaults' \in 0 .. MaxToolFaults
  <2>1. \/ toolFaults < MaxToolFaults /\ toolFaults' = toolFaults + 1 /\ UNCHANGED toolRuns
        \/ UNCHANGED <<toolRuns, toolFaults>>
    BY DEF ToolStep, CreateStep, DeleteStep, LoadSwapInfoCmd, EnableStep, DisableStep, KernelStep,
       BanStep, WellDone, Fails
  <2> QED
    BY <2>1, ToolsConstants DEF ToolsTypeOK
<1>3. goer[g].arg \in ArgsOf(goer[g].op)
  BY StageIs
<1>4. CASE CreateStep(g)
  <2>1. /\ space' \in [Spaces -> {"none", "plain", "swap", "removed"}]
        /\ active' \subseteq Spaces /\ fstab' \subseteq Spaces /\ UNCHANGED <<byUUID, shownSwap>>
    BY <1>4 DEF CreateStep, CreateCall, ToolsTypeOK, Spaces
  <2> QED
    BY <1>1, <1>2, <1>4, <2>1 DEF ToolsTypeOK, CreateStep, OtherThanSwap, bbrVars, kernelVars, banVars
<1>5. CASE DeleteStep(g)
  <2>1. goer[g].arg \in Spaces
    BY <1>3, <1>5 DEF DeleteStep, Comes, ArgsOf
  <2>2. /\ space' \in [Spaces -> {"none", "plain", "swap", "removed"}]
        /\ active' \subseteq Spaces /\ fstab' \subseteq Spaces /\ UNCHANGED shownSwap
    BY <1>5, <2>1 DEF DeleteStep, Removed, ToolsTypeOK
  <2> QED
    BY <1>1, <1>2, <1>5, <2>2 DEF ToolsTypeOK, DeleteStep, OtherThanSwap, bbrVars, kernelVars, banVars
<1>6. CASE LoadSwapInfoCmd(g)
  <2>1. shownSwap' \in Spaces \cup {"none"}
    BY <1>6 DEF LoadSwapInfoCmd, ShowSwap, Spaces
  <2> QED
    BY <1>1, <1>2, <1>6, <2>1
    DEF ToolsTypeOK, LoadSwapInfoCmd, OtherThanSwap, bbrVars, kernelVars, banVars
<1>7. CASE EnableStep(g) \/ DisableStep(g)
  <2>1. goer[g].op = "enable" => goer[g].arg \in {"bbr", "bbr2"}
    BY <1>3 DEF ArgsOf
  <2>2. \A a : Loaded(kernel, a) \in {a, "bbr", "bbr2"}
    BY DEF Loaded, Supports
  <2>3. sysctl' \in {"none", "bbr", "bbr2"} /\ algorithm' \in {"cubic", "bbr", "bbr2"}
    BY <1>7, <2>1, <2>2 DEF EnableStep, DisableStep, Comes, ToolsTypeOK
  <2> QED
    BY <1>1, <1>2, <1>7, <2>3
    DEF ToolsTypeOK, EnableStep, DisableStep, OtherThanBBR, swapVars, kernelVars, banVars
<1>8. CASE KernelStep(g)
  <2>1. goer[g].arg \in Kernels
    BY <1>3, <1>8 DEF KernelStep, Comes, ArgsOf, Kernels
  <2>2. /\ kernels \subseteq kernels' /\ kernels' \subseteq Kernels /\ told' \subseteq Kernels
        /\ tmp' \subseteq {"script", "packages"} /\ UNCHANGED kernel
    BY <1>8, <2>1 DEF KernelStep, ToolsTypeOK
  <2> QED
    BY <1>1, <1>2, <1>8, <2>2
    DEF ToolsTypeOK, KernelStep, OtherThanKernel, swapVars, bbrVars, banVars
<1>9. CASE BanStep(g)
  <2>1. jail' \in Rules /\ daemon' \in Rules \cup {"off"} /\ package' \in BOOLEAN
    BY <1>9 DEF BanStep, BanWrites, ToolsTypeOK, Rules
  <2> QED
    BY <1>1, <1>2, <1>9, <2>1 DEF ToolsTypeOK, BanStep, OtherThanBan, swapVars, bbrVars, kernelVars
<1> QED
  BY <1>4, <1>5, <1>6, <1>7, <1>8, <1>9 DEF ToolStep

LEMMA StepKeepsTools == ASSUME ToolsInv, NEW g \in Goers, ToolStep(g) PROVE ToolsInv'
<1>1. ToolsTypeOK /\ GoersOK /\ SwapInv /\ BBRInv /\ BanInv /\ KernelInv
  BY DEF ToolsInv
<1>2. StepOf(g) /\ GoersOK'
  BY <1>1, CreateStepIs, DeleteStepIs, InfoStepIs, EnableStepIs, DisableStepIs, KernelStepIs,
     BanStepIs DEF ToolStep
<1>3. ToolsTypeOK'
  BY <1>1, <1>2, StepTypes
<1>4. SwapInv'
  <2>1. CASE CreateStep(g) \/ DeleteStep(g) \/ LoadSwapInfoCmd(g)
    BY <1>1, <2>1, CreateKeeps, DeleteSwapKeeps, InfoKeeps
  <2>2. CASE EnableStep(g) \/ DisableStep(g) \/ KernelStep(g) \/ BanStep(g)
    <3>1. UNCHANGED swapVars
      BY <2>2 DEF EnableStep, DisableStep, KernelStep, BanStep, OtherThanBBR, OtherThanKernel,
         OtherThanBan
    <3>2. goer[g].op \notin {"create", "delete"}
      BY <1>1, <2>2, EnableStepIs, DisableStepIs, KernelStepIs, BanStepIs
    <3> QED
      BY <1>1, <1>2, <3>1, <3>2, SwapOther
  <2> QED
    BY <2>1, <2>2 DEF ToolStep
<1>5. BBRInv'
  <2>1. CASE CreateStep(g) \/ DeleteStep(g) \/ LoadSwapInfoCmd(g) \/ KernelStep(g) \/ BanStep(g)
    <3>1. UNCHANGED bbrVars /\ kernel' = kernel
      BY <2>1 DEF CreateStep, DeleteStep, LoadSwapInfoCmd, KernelStep, BanStep, OtherThanSwap,
         OtherThanKernel, OtherThanBan, kernelVars
    <3>2. goer[g].op \notin {"enable", "disable"}
      BY <1>1, <2>1, CreateStepIs, DeleteStepIs, InfoStepIs, KernelStepIs, BanStepIs
    <3> QED
      BY <1>1, <1>2, <3>1, <3>2, BBROther
  <2> QED
    BY <1>1, <2>1, BBRKeeps DEF ToolStep
<1>6. BanInv'
  <2>1. CASE ~BanStep(g)
    <3>1. UNCHANGED banVars
      BY <2>1 DEF ToolStep, CreateStep, DeleteStep, LoadSwapInfoCmd, EnableStep, DisableStep,
         KernelStep, OtherThanSwap, OtherThanBBR, OtherThanKernel
    <3>2. goer[g].op \notin {"install", "config", "toggle", "remove"}
      BY <1>1, <2>1, CreateStepIs, DeleteStepIs, InfoStepIs, EnableStepIs, DisableStepIs,
         KernelStepIs DEF ToolStep
    <3> QED
      BY <1>1, <1>2, <3>1, <3>2, BanOther
  <2> QED
    BY <1>1, <2>1, BanKeeps
<1>7. KernelInv'
  BY <1>1 DEF KernelInv, ToolStep, CreateStep, DeleteStep, LoadSwapInfoCmd, EnableStep, DisableStep,
     KernelStep, BanStep, OtherThanSwap, OtherThanBBR, OtherThanBan, kernelVars
<1> QED
  BY <1>2, <1>3, <1>4, <1>5, <1>6, <1>7 DEF ToolsInv

LEMMA CleanKeeps == ASSUME ToolsInv, CleanSystemCmd PROVE ToolsInv'
<1>1. /\ UNCHANGED <<swapVars, bbrVars, banVars, kernels, kernel, told, goer, upset, toolFaults>>
      /\ tmp' = {} /\ toolRuns' \in 0 .. MaxToolRuns
  BY ToolsConstants DEF CleanSystemCmd, OtherThanKernel, ToolsInv, ToolsTypeOK
<1>2. ToolsTypeOK'
  BY <1>1 DEF ToolsInv, ToolsTypeOK, swapVars, bbrVars, banVars
<1>3. GoersOK' /\ Alone("swap")' /\ Alone("fstab")' /\ Alone("bbr")' /\ Alone("fail2ban")'
  BY <1>1 DEF ToolsInv, GoersOK, SwapInv, BBRInv, BanInv, Alone
<1>4. ListedInv' /\ ActiveInv'
  BY <1>1 DEF ToolsInv, SwapInv, ListedInv, ActiveInv, swapVars, Comes
<1>5. BBRInv'
  BY <1>1, <1>3 DEF ToolsInv, BBRInv, bbrVars, Comes, Loaded
<1>6. BanInv'
  BY <1>1, <1>3 DEF ToolsInv, BanInv, banVars, Comes
<1> QED
  BY <1>1, <1>2, <1>3, <1>4, <1>5, <1>6 DEF ToolsInv, SwapInv, KernelInv

\* What the files say is what runs.
LEMMA RebootKeeps == ASSUME ToolsInv, Reboot PROVE ToolsInv'
<1>1. /\ goer' = [g \in Goers |-> Unoccupied]
      /\ upset' = upset \cup {t \in {"swap", "bbr", "fail2ban"} :
           \E g \in Goers : t \in ToolOf(goer[g].op)}
      /\ UNCHANGED <<fstab, byUUID, sysctl, kernels, told, jail, package>>
  BY DEF Reboot, Fails
<1>2. \A g \in Goers : goer'[g] = Unoccupied /\ goer'[g].op = "none"
  BY <1>1, UnoccupiedIs
<1>3. GoersOK'
  <2>1. goer' \in [Goers -> Place]
    BY <1>1, UnoccupiedIs
  <2> QED
    BY <1>2, <2>1, UnoccupiedIs DEF GoersOK, Place
<1>4. \A t : Alone(t)'
  BY <1>2, NoTool DEF Alone
<1>5. space' = [s \in Spaces |-> IF space[s] = "removed" THEN "swap" ELSE space[s]]
      /\ active' = {s \in fstab : space'[s] = "swap"}
  BY DEF Reboot
<1>6. ToolsTypeOK'
  <2>1. /\ space' \in [Spaces -> {"none", "plain", "swap", "removed"}]
        /\ active' \subseteq Spaces /\ fstab' \subseteq Spaces /\ byUUID' \subseteq {"partition"}
    BY <1>1, <1>5 DEF ToolsInv, ToolsTypeOK
  <2>2. sysctl' \in {"none", "bbr", "bbr2"} /\ algorithm' \in {"cubic", "bbr", "bbr2"}
    BY <1>1 DEF Reboot, ToolsInv, ToolsTypeOK, Loaded, Supports
  <2>3. /\ jail' \in Rules /\ daemon' \in Rules \cup {"off"} /\ package' \in BOOLEAN
        /\ kernel' \in kernels' /\ kernels' \subseteq Kernels /\ told' \subseteq Kernels
        /\ tmp' \subseteq {"script", "packages"} /\ shownSwap' \in Spaces \cup {"none"}
    BY <1>1 DEF Reboot, ToolsInv, ToolsTypeOK
  <2>4. /\ toolRuns' \in 0 .. MaxToolRuns /\ toolFaults' \in 0 .. MaxToolFaults
        /\ upset' \subseteq {"swap", "fstab", "bbr", "fail2ban"}
    <3>1. upset' \subseteq {"swap", "fstab", "bbr", "fail2ban"}
      BY <1>1 DEF ToolsInv, ToolsTypeOK
    <3>2. toolFaults < MaxToolFaults /\ toolFaults' = toolFaults + 1 /\ toolRuns' = toolRuns
      BY DEF Reboot, Fails
    <3> QED
      BY <3>1, <3>2, ToolsConstants DEF ToolsInv, ToolsTypeOK
  <2> QED
    BY <1>2, <2>1, <2>2, <2>3, <2>4 DEF ToolsTypeOK
<1>7. ListedInv'
  <2> SUFFICES ASSUME "fstab" \notin upset' PROVE ListedInv'
    BY DEF ListedInv
  <2>1. \A s \in fstab \ byUUID : space[s] = "swap" /\ s \in Spaces
    BY <1>1 DEF ToolsInv, ToolsTypeOK, SwapInv, ListedInv
  <2>2. \A s \in fstab' \ byUUID' : space'[s] = "swap"
    BY <1>1, <1>5, <2>1
  <2> QED
    BY <1>2, <2>2 DEF ListedInv, Comes
<1>8. ActiveInv'
  <2> SUFFICES ASSUME "swap" \notin upset' PROVE ActiveInv'
    BY DEF ActiveInv
  <2>1. "fstab" \notin upset /\ "fstab" \notin upset'
    BY <1>1 DEF ToolsInv, SwapInv, ActiveInv
  <2>2. \A s \in fstab \ byUUID : space'[s] = "swap"
    BY <1>1, <1>7, <2>1 DEF ListedInv
  <2>3. Agree(active', fstab', byUUID')
    BY <1>1, <1>5, <2>2 DEF Agree
  <2> QED
    BY <1>2, <2>1, <2>3, NoTool DEF ActiveInv
<1>9. BBRInv'
  BY <1>2, <1>4 DEF Reboot, BBRInv, Comes, Loaded
<1>10. BanInv'
  BY <1>1, <1>2, <1>4 DEF Reboot, BanInv, Comes
<1> QED
  BY <1>1, <1>3, <1>4, <1>6, <1>7, <1>8, <1>9, <1>10 DEF ToolsInv, SwapInv, KernelInv

LEMMA ToolsInvInit == ToolsInit => ToolsInv
<1> SUFFICES ASSUME ToolsInit PROVE ToolsInv
  OBVIOUS
<1>1. PICK S \in SUBSET {"partition"} :
        /\ space = [s \in Spaces |-> IF s \in S THEN "swap" ELSE "none"]
        /\ active = S /\ fstab = S /\ byUUID \in SUBSET S
  BY DEF ToolsInit
<1>2. goer = [g \in Goers |-> Unoccupied] /\ \A g \in Goers : goer[g].op = "none"
  BY UnoccupiedIs DEF ToolsInit
<1>3. GoersOK
  <2>1. goer \in [Goers -> Place]
    BY <1>2, UnoccupiedIs
  <2> QED
    BY <1>2, <2>1, UnoccupiedIs DEF GoersOK, Place
<1>4. ToolsTypeOK
  <2>1. /\ space \in [Spaces -> {"none", "plain", "swap", "removed"}]
        /\ active \subseteq Spaces /\ fstab \subseteq Spaces /\ byUUID \subseteq {"partition"}
    BY <1>1 DEF Spaces
  <2>2. toolRuns \in 0 .. MaxToolRuns /\ toolFaults \in 0 .. MaxToolFaults
    BY ToolsConstants DEF ToolsInit
  <2>3. /\ kernel \in kernels /\ kernels \subseteq Kernels
        /\ jail \in Rules /\ daemon \in Rules \cup {"off"} /\ package \in BOOLEAN
    BY DEF ToolsInit, Kernels, Rules
  <2> QED
    BY <1>2, <2>1, <2>2, <2>3 DEF ToolsInit, ToolsTypeOK
<1>5. SwapInv
  <2>1. upset = {} /\ Alone("swap") /\ Alone("fstab")
    BY <1>2, NoTool DEF ToolsInit, Alone
  <2>2. \A s \in fstab : space[s] = "swap"
    BY <1>1 DEF Spaces
  <2>3. ListedInv
    BY <1>2, <2>2 DEF ListedInv, Comes
  <2>4. ActiveInv
    BY <1>1, <1>2, <2>1, NoTool DEF ActiveInv, Agree
  <2> QED
    BY <2>1, <2>3, <2>4 DEF SwapInv
<1>6. BBRInv /\ BanInv /\ KernelInv
  BY <1>2, NoTool DEF ToolsInit, BBRInv, BanInv, KernelInv, Alone, Comes, Loaded, Supports
<1> QED
  BY <1>3, <1>4, <1>5, <1>6 DEF ToolsInv

LEMMA ToolsInvStep == ToolsInv /\ [ToolsNext]_toolVars => ToolsInv'
<1> SUFFICES ASSUME ToolsInv, [ToolsNext]_toolVars PROVE ToolsInv'
  OBVIOUS
<1>1. CASE UNCHANGED toolVars
  <2>1. UNCHANGED <<space, active, fstab, byUUID, shownSwap, sysctl, algorithm, kernels, kernel, tmp,
                    told, jail, daemon, package, goer, upset, toolRuns, toolFaults>>
    BY <1>1 DEF toolVars, swapVars, bbrVars, kernelVars, banVars
  <2>2. ToolsTypeOK' /\ GoersOK' /\ KernelInv'
    BY <2>1 DEF ToolsInv, ToolsTypeOK, GoersOK, KernelInv
  <2>3. SwapInv'
    BY <2>1 DEF ToolsInv, SwapInv, Alone, ListedInv, ActiveInv, Comes
  <2>4. BBRInv' /\ BanInv'
    BY <2>1 DEF ToolsInv, BBRInv, BanInv, Alone, Comes, Loaded
  <2> QED
    BY <2>2, <2>3, <2>4 DEF ToolsInv
<1>2. ASSUME NEW g \in Goers,
             \/ CreateSwapCmd(g) \/ DeleteSwapCmd(g) \/ DisableBBRCmd(g)
             \/ \E a \in {"bbr", "bbr2"} : EnableBBRCmd(g, a)
             \/ InstallBBR2KernelCmd(g) \/ InstallXanModCmd(g)
             \/ InstallFail2BanCmd(g) \/ UpdateFail2BanConfigCmd(g) \/ UninstallFail2BanCmd(g)
             \/ \E running \in BOOLEAN : ToggleFail2BanCmd(g, running)
      PROVE  ToolsInv'
  <2>1. shownSwap \in Spaces \cup {"none"}
    BY DEF ToolsInv, ToolsTypeOK
  <2>2. ASSUME CreateSwapCmd(g) PROVE Begins("create", "fallocate", "/swapfile")
    BY <2>2, StagesAre DEF CreateSwapCmd, Begins, ArgsOf, Spaces
  <2>3. Begins("delete", "swapoff", IF shownSwap = "none" THEN "/swapfile" ELSE shownSwap)
    BY <2>1, StagesAre DEF Begins, ArgsOf, Spaces
  <2>4. ASSUME NEW a \in {"bbr", "bbr2"}, EnableBBRCmd(g, a) PROVE Begins("enable", "append", a)
    BY <2>4, StagesAre DEF EnableBBRCmd, Begins, ArgsOf
  <2>5. /\ Begins("disable", "sed", "none")
        /\ Begins("kernel", "write", "bbr2") /\ Begins("kernel", "write", "xanmod")
    BY StagesAre DEF Begins, ArgsOf
  <2>6. /\ Begins("install", "package", "default") /\ Begins("config", "write", "custom")
        /\ Begins("remove", "package", "none")
        /\ Begins("toggle", "stop", "none") /\ Begins("toggle", "restart", "none")
    BY StagesAre DEF Begins, ArgsOf
  <2> QED
    BY <1>2, <2>2, <2>3, <2>4, <2>5, <2>6, BeginKeeps
    DEF CreateSwapCmd, DeleteSwapCmd, DisableBBRCmd, EnableBBRCmd, InstallBBR2KernelCmd,
        InstallXanModCmd, InstallFail2BanCmd, UpdateFail2BanConfigCmd, UninstallFail2BanCmd,
        ToggleFail2BanCmd
<1> QED
  BY <1>1, <1>2, StepKeepsTools, CleanKeeps, RebootKeeps DEF ToolsNext

LEMMA ToolsInvHolds == ToolsSpec => []ToolsInv
BY ToolsInvInit, ToolsInvStep, PTL DEF ToolsSpec

\* In whichever call a command fails or the machine stops, fstab lists no path of a
\* swap space that is not there; where nothing failed and no two commands of a tool
\* met, what runs is what the next start of the machine would bring, but for a deleted
\* partition that fstab lists by UUID or label (command_builder.go:1983-2040).
THEOREM StartsAsItIs == ToolsSpec => []MachineStartsAsItIs
<1>1. ToolsInv => MachineStartsAsItIs
  BY DEF ToolsInv, SwapInv, ListedInv, ActiveInv, BBRInv, BanInv, KernelInv, MachineStartsAsItIs,
     Unharmed, Agree
<1> QED
  BY <1>1, ToolsInvHolds, PTL

-----------------------------------------------------------------------------
(* All parts together.                                                     *)

CertificatesInv == CertInv /\ PairInv /\ CertTypeInv

InterfaceInv == PagesInv /\ CertificatesInv /\ RemovalInv /\ ToolsInv

LEMMA CertificatesInvStep == CertificatesInv /\ [CertNext]_certVars => CertificatesInv'
BY CertInvStep, PairInvNext, CertTypeInvStep DEF CertificatesInv

LEMMA InterfaceInvInit == Init => InterfaceInv
BY PagesInvInit, CertInvInit, PairInvInit, CertTypeInvInit, RemovalInvInit, ToolsInvInit
   DEF Init, InterfaceInv, CertificatesInv

LEMMA InterfaceInvStep == InterfaceInv /\ [Next]_vars => InterfaceInv'
<1> SUFFICES ASSUME InterfaceInv, [Next]_vars PROVE InterfaceInv'
  OBVIOUS
<1>1. /\ [PagesNext]_pageVars /\ [CertNext]_certVars
      /\ [UninstallNext]_removalVars /\ [ToolsNext]_toolVars
  BY DEF Next, vars
<1> QED
  BY <1>1, PagesInvStep, CertificatesInvStep, RemovalInvStep, ToolsInvStep DEF InterfaceInv

LEMMA InterfaceInvHolds == Spec => []InterfaceInv
BY InterfaceInvInit, InterfaceInvStep, PTL DEF Spec

\* Pages, certificates, the removal of prism and the tools never leave the values
\* their code has for them: every page and flag, every task and place of a
\* goroutine (tui/handlers/command_builder.go, application/cert_service.go).
THEOREM InterfaceTypes == Spec => []InterfaceTypeOK
<1>1. InterfaceInv => PagesTypeOK /\ CertTypeOK /\ ToolsTypeOK
  BY CertTypeInvGives DEF InterfaceInv, PagesInv, CertificatesInv, ToolsInv
<1>2. InterfaceInv => UninstallTypeOK
  BY DEF InterfaceInv, RemovalInv, RemovalCounts, Shape, JobRange, UninstallTypeOK
<1>3. InterfaceInv => InterfaceTypeOK
  BY <1>1, <1>2 DEF InterfaceTypeOK
<1> QED
  BY <1>3, InterfaceInvHolds, PTL

=============================================================================
