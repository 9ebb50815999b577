---------------------------- MODULE ApplyConfigProofs ----------------------------
(***************************************************************************)
(* Proofs about ApplyConfig: config.json, the server and what is reported  *)
(* of them, and the firewall, for any number of overlapping calls, for all *)
(* configurations, faults and commands; and, last, about the two parts of  *)
(* MCServer together.                                                      *)
(***************************************************************************)
EXTENDS MCServer, ConfigModelProofs, TLAPS

\* A call that has touched config.json, one that has written it, and one that has
\* not checked it since.
Past == {"writing", "validate", "flush", "open", "hop", "save", "reload", "restart", "await"}
Written == Past \ {"writing"}
Unchecked == {"writing", "validate"}

CallRange ==
  [pc : {"idle", "check", "write"} \cup Past, cfg : Configs \cup {NoConfig},
   todo : SUBSET InboundNames, expired : BOOLEAN, alone : BOOLEAN, fine : BOOLEAN]

Callings ==
  /\ apply \in [Callers -> CallRange]
  /\ \A k \in Callers :
       /\ At(k, "idle") => apply[k] = Idle
       /\ ~At(k, "idle") => apply[k].cfg \in Configs
       /\ ~At(k, "idle") /\ ~At(k, "check") => apply[k].cfg \in Good

\* A call that is alone finds in config.json what it has written there.
Alone ==
  \A k \in Callers : apply[k].alone =>
    /\ \A j \in Callers : j # k => At(j, "idle")
    /\ At(k, "writing") => file = "torn"
    /\ apply[k].pc \in Written => file = apply[k].cfg

\* Who waits for a job holds the lock of the manager.
Waiting ==
  /\ job \in [op : {"none", "start", "stop", "restart"}, by : Callers \cup {"control", Free}]
  /\ \A k \in Callers : At(k, "await") <=> job.by = k
  /\ job.by \in Callers => job.op = "restart"
  /\ job.by # Free => lock = job.by
  /\ control \in {"await_start", "await"} => lock = "control"

Commanded ==
  /\ faults \in Nat /\ controls \in Nat
  /\ control # "idle" => controls > 0
  /\ job.op = "stop" => controls > 0

Kept ==
  /\ file \in Good \cup {"none", "torn"}
  /\ service \in Good \cup {"stopped", "trying"}
  /\ last \in Good \cup {NoConfig}
  /\ last # NoConfig =>
       /\ file = last /\ service \in {last, "trying", "stopped"}
       /\ \A k \in Callers : ~At(k, "writing")

\* As long as no call has failed, some call is to put right what is not.
Mending ==
  ~erred =>
    /\ file \notin Good /\ file # "none" => \E k \in Callers : apply[k].pc \in Unchecked
    /\ file \in Good /\ service \in Good /\ service # file =>
         \E k \in Callers : apply[k].pc \in Past
    /\ file # "none" /\ service = "stopped" =>
         \/ controls > 0 \/ faults > 0
         \/ \E k \in Callers : apply[k].pc \in Past

ApplyInv ==
  /\ Callings /\ Alone /\ Waiting /\ Commanded /\ Kept /\ Mending
  /\ erred \in BOOLEAN

-----------------------------------------------------------------------------
LEMMA ApplyInvInit == ApplyInit => ApplyInv
<1> SUFFICES ASSUME ApplyInit PROVE ApplyInv
  OBVIOUS
<1>1. /\ apply \in [Callers -> CallRange]
      /\ \A k \in Callers : apply[k] = Idle /\ apply[k].pc = "idle" /\ ~apply[k].alone
  BY DEF ApplyInit, Idle, CallRange
<1>2. /\ file = "none" /\ service = "stopped" /\ last = NoConfig /\ erred = FALSE
      /\ job = [op |-> "none", by |-> Free] /\ control = "idle" /\ faults = 0 /\ controls = 0
  BY DEF ApplyInit, NoJob
<1>3. Callings /\ Alone
  BY <1>1 DEF Callings, Alone, At
<1>4. Waiting /\ Commanded
  BY <1>1, <1>2, ApplyConstants DEF Waiting, Commanded, At, Free
<1>5. Kept /\ Mending
  BY <1>2, ApplyConstants DEF Kept, Mending, Good, NoConfig
<1> QED
  BY <1>2, <1>3, <1>4, <1>5 DEF ApplyInv

-----------------------------------------------------------------------------
\* What a call does on its own: it stays the call it is and goes to l, ...
GoesTo(k, l) ==
  /\ apply' \in [Callers -> CallRange]
  /\ \A j \in Callers : j # k => apply'[j] = apply[j]
  /\ apply'[k].pc = l /\ apply'[k].cfg = apply[k].cfg /\ apply'[k].alone = apply[k].alone

\* ... or ends.
Ends(k) ==
  /\ apply' \in [Callers -> CallRange]
  /\ \A j \in Callers : j # k => apply'[j] = apply[j]
  /\ apply'[k] = Idle

LEMMA MoveGoes ==
  ASSUME Callings, NEW k \in Callers, NEW l \in {"write"} \cup Past, Move(k, l)
  PROVE  GoesTo(k, l)
BY DEF Callings, Move, CallRange, GoesTo

LEMMA IdleEnds ==
  ASSUME Callings, NEW k \in Callers, apply' = [apply EXCEPT ![k] = Idle]
  PROVE  Ends(k)
BY DEF Callings, CallRange, Ends, Idle

LEMMA IdleIs == Idle.pc = "idle" /\ Idle.alone = FALSE
BY DEF Idle

Counted == faults' = faults \/ faults' = faults + 1

\* A call goes on and leaves the file, the service and the lock alone.
LEMMA ForwardKeeps ==
  ASSUME ApplyInv, NEW k \in Callers, NEW l \in {"check", "write"} \cup Past, GoesTo(k, l),
         ~At(k, "idle"),
         UNCHANGED <<file, service, last, erred, job, lock, control, controls>>, Counted,
         l # "check" => apply[k].cfg \in Good,
         l = "await" <=> At(k, "await"),
         l = "writing" => At(k, "writing"),
         l \in Written => apply[k].pc \in Written,
         apply[k].pc \in Past => l \in Past,
         apply[k].pc \in Unchecked => l \in Unchecked \/ file \in Good
  PROVE  ApplyInv'
<1>1. Callings'
  BY DEF ApplyInv, Callings, GoesTo, At, Past
<1>2. Alone'
  BY DEF ApplyInv, Alone, GoesTo, At, Past
<1>3. Waiting'
  BY DEF ApplyInv, Waiting, GoesTo, At
<1>4. Commanded'
  BY DEF ApplyInv, Commanded, Counted
<1>5. Kept'
  BY DEF ApplyInv, Kept, GoesTo, At
<1>6. Mending'
  <2>1. faults > 0 => faults' > 0
    BY DEF ApplyInv, Commanded, Counted
  <2>2. \A j \in Callers : apply[j].pc \in Past => apply'[j].pc \in Past
    BY DEF GoesTo
  <2>3. \/ file \in Good
        \/ \A j \in Callers : apply[j].pc \in Unchecked => apply'[j].pc \in Unchecked
    BY DEF GoesTo
  <2> QED
    BY <2>1, <2>2, <2>3 DEF ApplyInv, Mending
<1> QED
  BY <1>1, <1>2, <1>3, <1>4, <1>5, <1>6 DEF ApplyInv

\* A call ends with an error, before it has changed anything or after.
LEMMA FailureKeeps ==
  ASSUME ApplyInv, NEW k \in Callers, Ends(k), ~At(k, "await"),
         UNCHANGED <<file, service, last, job, lock, control, controls>>, Counted,
         erred' = TRUE \/ (At(k, "check") /\ erred' = erred)
  PROVE  ApplyInv'
<1>1. Callings'
  BY DEF ApplyInv, Callings, Ends, At, Idle
<1>2. Alone'
  BY IdleIs DEF ApplyInv, Alone, Ends, At
<1>3. Waiting'
  BY IdleIs DEF ApplyInv, Waiting, Ends, At
<1>4. Commanded'
  BY DEF ApplyInv, Commanded, Counted
<1>5. Kept'
  BY IdleIs DEF ApplyInv, Kept, Ends, At
<1>6. Mending'
  <2>1. CASE erred' = TRUE
    BY <2>1 DEF Mending
  <2>2. CASE At(k, "check") /\ erred' = erred
    <3>1. faults > 0 => faults' > 0
      BY DEF ApplyInv, Commanded, Counted
    <3>2. \A j \in Callers : apply[j].pc \in Past => apply'[j].pc \in Past
      BY <2>2 DEF Ends, At, Past
    <3>3. \A j \in Callers : apply[j].pc \in Unchecked => apply'[j].pc \in Unchecked
      BY <2>2 DEF Ends, At, Unchecked
    <3> QED
      BY <2>2, <3>1, <3>2, <3>3 DEF ApplyInv, Mending
  <2> QED
    BY <2>1, <2>2
<1>7. erred' \in BOOLEAN
  BY DEF ApplyInv
<1> QED
  BY <1>1, <1>2, <1>3, <1>4, <1>5, <1>6, <1>7 DEF ApplyInv

-----------------------------------------------------------------------------
\* The steps of a call, one by one.
NotChanged == UNCHANGED <<file, service, last, erred, job, lock, control, controls>>

LEMMA Faulty == Fault => Counted
BY DEF Fault, Counted

LEMMA CheckConfigKeeps ==
  ASSUME ApplyInv, NEW k \in Callers, CheckConfig(k) PROVE ApplyInv'
<1>1. At(k, "check") /\ UNCHANGED <<file, service, job, lock, control, controls>>
  BY DEF CheckConfig, Managed
<1>2. CASE apply[k].cfg \in Good /\ Move(k, "write") /\ UNCHANGED <<faults, last, erred>>
  <2>1. GoesTo(k, "write")
    BY <1>2, MoveGoes DEF ApplyInv
  <2> QED
    BY <1>1, <1>2, <2>1, ForwardKeeps DEF At, Past, Written, Unchecked, Counted
<1>3. CASE Refuse(k) /\ Counted
  <2>1. Ends(k)
    BY <1>3, IdleEnds DEF ApplyInv, Refuse
  <2> QED
    BY <1>1, <1>3, <2>1, FailureKeeps DEF Refuse, At
<1> QED
  BY <1>2, <1>3, Faulty DEF CheckConfig, Counted

LEMMA TruncateFileKeeps ==
  ASSUME ApplyInv, NEW k \in Callers, TruncateFile(k) PROVE ApplyInv'
<1>1. /\ At(k, "write") /\ file' = "torn" /\ last' = NoConfig
      /\ UNCHANGED <<service, erred, job, lock, control, controls, faults>>
  BY DEF TruncateFile, Managed
<1>2. GoesTo(k, "writing")
  BY MoveGoes DEF ApplyInv, TruncateFile, Past
<1>3. Callings'
  BY <1>1, <1>2 DEF ApplyInv, Callings, GoesTo, At
<1>4. Alone'
  BY <1>1, <1>2 DEF ApplyInv, Alone, GoesTo, At, Written, Past
<1>5. Waiting' /\ Commanded'
  BY <1>1, <1>2 DEF ApplyInv, Waiting, Commanded, GoesTo, At
<1>6. Kept'
  BY <1>1 DEF ApplyInv, Kept
<1>7. Mending'
  BY <1>1, <1>2, ApplyConstants DEF Mending, GoesTo, Past, Unchecked, Good
<1> QED
  BY <1>1, <1>3, <1>4, <1>5, <1>6, <1>7 DEF ApplyInv

LEMMA WriteFileKeeps ==
  ASSUME ApplyInv, NEW k \in Callers, WriteFile(k) PROVE ApplyInv'
<1>1. At(k, "writing") /\ UNCHANGED <<service, job, lock, control, controls>>
  BY DEF WriteFile, Managed
<1>2. CASE Fault /\ Err(k) /\ UNCHANGED file
  <2>1. Ends(k)
    BY <1>2, IdleEnds DEF ApplyInv, Err
  <2> QED
    BY <1>1, <1>2, <2>1, Faulty, FailureKeeps DEF Err, At
<1>3. CASE /\ file' \in {apply[k].cfg} \cup (IF file = "torn" THEN {} ELSE {"torn"})
           /\ Move(k, "validate") /\ UNCHANGED <<faults, last, erred>>
  <2>1. GoesTo(k, "validate")
    BY <1>3, MoveGoes DEF ApplyInv, Past
  <2>2. apply[k].cfg \in Good
    BY <1>1 DEF ApplyInv, Callings, At
  <2>3. file' \in Good \cup {"torn"} /\ (file = "torn" => file' = apply[k].cfg)
    BY <1>3, <2>2
  <2>4. Callings'
    BY <1>1, <2>1 DEF ApplyInv, Callings, GoesTo, At
  <2>5. Alone'
    BY <1>1, <2>1, <2>3 DEF ApplyInv, Alone, GoesTo, At, Written, Past
  <2>6. Waiting' /\ Commanded'
    BY <1>1, <1>3, <2>1 DEF ApplyInv, Waiting, Commanded, GoesTo, At
  <2>7. last' = NoConfig
    BY <1>1, <1>3 DEF ApplyInv, Kept
  <2>8. Kept'
    BY <1>1, <1>3, <2>3, <2>7 DEF ApplyInv, Kept
  <2>9. Mending'
    BY <1>1, <2>1, <2>3 DEF Mending, GoesTo, Past, Unchecked
  <2> QED
    BY <1>3, <2>4, <2>5, <2>6, <2>8, <2>9 DEF ApplyInv
<1> QED
  BY <1>2, <1>3 DEF WriteFile

LEMMA ValidateFileKeeps ==
  ASSUME ApplyInv, NEW k \in Callers, ValidateFile(k) PROVE ApplyInv'
<1>1. /\ At(k, "validate") /\ UNCHANGED <<file, service, job, lock, control, controls>>
      /\ apply[k].cfg \in Good
  BY DEF ValidateFile, Managed, ApplyInv, Callings, At
<1>2. CASE file \in Good /\ Move(k, "flush") /\ UNCHANGED <<faults, last, erred>>
  <2>1. GoesTo(k, "flush")
    BY <1>2, MoveGoes DEF ApplyInv, Past
  <2> QED
    BY <1>1, <1>2, <2>1, ForwardKeeps DEF At, Past, Written, Counted
<1>3. CASE Err(k) /\ Counted
  <2>1. Ends(k)
    BY <1>3, IdleEnds DEF ApplyInv, Err
  <2> QED
    BY <1>1, <1>3, <2>1, FailureKeeps DEF Err, At
<1> QED
  BY <1>2, <1>3, Faulty DEF ValidateFile, Counted

LEMMA InboundsAreNamed ==
  ASSUME NEW c \in Configs
  PROVE  Inbounds[c] = InboundTags(ConfigOf[c]) /\ Inbounds[c] \subseteq InboundNames
BY DEF Inbounds, InboundTags, Served, FromConfig, InboundNames, AllIDs

\* The firewall: what a command does to it matters nothing here.
LEMMA CommandKeeps ==
  ASSUME ApplyInv, NEW k \in Callers, NEW l \in {"open", "hop", "save", "reload"},
         NEW todo \in SUBSET InboundNames, NEW f, NEW P, Command(k, l, todo, f, P),
         apply[k].pc \in {"flush", "open", "hop", "save"}
  PROVE  ApplyInv'
<1>1. UNCHANGED <<file, service, last, erred, job, lock, control, controls>> /\ Counted
  BY Faulty DEF Command, Managed, Counted
<1>2. GoesTo(k, l)
  BY DEF Command, GoesTo, ApplyInv, Callings, CallRange, Past
<1>3. apply[k].cfg \in Good
  BY DEF ApplyInv, Callings, At
<1> QED
  BY <1>1, <1>2, <1>3, ForwardKeeps DEF At, Past, Written, Unchecked

LEMMA FirewallKeeps ==
  ASSUME ApplyInv, NEW k \in Callers,
         FlushRules(k) \/ OpenPort(k) \/ OpenHysteria2PortHopping(k) \/ SaveRules(k)
  PROVE  ApplyInv'
<1>1. CASE FlushRules(k)
  <2>1. Inbounds[apply[k].cfg] \in SUBSET InboundNames
    BY <1>1, InboundsAreNamed DEF ApplyInv, Callings, FlushRules, At
  <2> QED
    BY <1>1, <2>1, CommandKeeps DEF FlushRules, At
<1>2. CASE OpenPort(k)
  <2>1. apply[k].todo \in SUBSET InboundNames /\ apply[k].pc = "open"
    BY <1>2 DEF ApplyInv, Callings, CallRange, OpenPort, At
  <2>2. \A t : apply[k].todo \ {t} \in SUBSET InboundNames
    BY <2>1
  <2> QED
    BY <1>2, <2>1, <2>2, CommandKeeps DEF OpenPort
<1>3. CASE OpenHysteria2PortHopping(k)
  BY <1>3, CommandKeeps DEF OpenHysteria2PortHopping, At
<1>4. CASE SaveRules(k)
  BY <1>4, CommandKeeps DEF SaveRules, At
<1> QED
  BY <1>1, <1>2, <1>3, <1>4

LEMMA ReloadKeeps == ASSUME ApplyInv, NEW k \in Callers, Reload(k) PROVE ApplyInv'
<1>1. /\ At(k, "reload") /\ NotChanged /\ Counted /\ apply[k].cfg \in Good
  BY DEF Reload, Managed, Else, NotChanged, Counted, ApplyInv, Callings, At
<1>2. GoesTo(k, "restart")
  BY MoveGoes DEF ApplyInv, Reload, Past
<1> QED
  BY <1>1, <1>2, ForwardKeeps DEF At, Past, Written, Unchecked, NotChanged

LEMMA ExpireKeeps == ASSUME ApplyInv, NEW k \in Callers, Expire(k) PROVE ApplyInv'
<1>1. /\ ~At(k, "idle") /\ NotChanged /\ Counted
      /\ apply' = [apply EXCEPT ![k].expired = TRUE]
  BY Faulty DEF Expire, Managed, Else, NotChanged
<1>2. GoesTo(k, apply[k].pc) /\ apply[k].pc \in {"check", "write"} \cup Past
  BY <1>1 DEF GoesTo, ApplyInv, Callings, CallRange, At
<1>3. apply[k].pc # "check" => apply[k].cfg \in Good
  BY <1>1 DEF ApplyInv, Callings, At
<1> QED
  BY <1>1, <1>2, <1>3, ForwardKeeps DEF At, NotChanged

LEMMA RestartKeeps == ASSUME ApplyInv, NEW k \in Callers, Restart(k) PROVE ApplyInv'
<1>1. /\ At(k, "restart") /\ lock = Free
      /\ UNCHANGED <<file, service, control, controls, faults>>
  BY DEF Restart, Else
<1>2. CASE Err(k) /\ UNCHANGED <<job, lock>>
  <2>1. Ends(k)
    BY <1>2, IdleEnds DEF ApplyInv, Err
  <2> QED
    BY <1>1, <1>2, <2>1, FailureKeeps DEF Err, At, Counted
<1>3. CASE /\ job' = [op |-> "restart", by |-> k] /\ lock' = k
           /\ Move(k, "await") /\ UNCHANGED <<last, erred>>
  <2>1. GoesTo(k, "await")
    BY <1>3, MoveGoes DEF ApplyInv, Past
  <2>2. k # "control" /\ k # Free
    BY ApplyConstants DEF Free
  <2>3. Callings'
    BY <1>1, <2>1 DEF ApplyInv, Callings, GoesTo, At
  <2>4. Alone'
    BY <1>1, <1>3, <2>1 DEF ApplyInv, Alone, GoesTo, At, Written, Past
  <2>5. Waiting'
    <3>1. \A j \in Callers : ~At(j, "await")
      BY <1>1, ApplyConstants DEF ApplyInv, Waiting, Free
    <3> QED
      BY <1>1, <1>3, <2>1, <2>2, <3>1, ApplyConstants DEF ApplyInv, Waiting, GoesTo, At, Free
  <2>6. Commanded' /\ Kept'
    BY <1>1, <1>3, <2>1 DEF ApplyInv, Commanded, Kept, GoesTo, At
  <2>7. Mending'
    <3>1. \A j \in Callers : apply[j].pc \in Past => apply'[j].pc \in Past
      BY <2>1 DEF GoesTo, Past
    <3>2. \A j \in Callers : apply[j].pc \in Unchecked => apply'[j].pc \in Unchecked
      BY <1>1, <2>1 DEF GoesTo, Unchecked, At
    <3> QED
      BY <1>1, <1>3, <3>1, <3>2 DEF ApplyInv, Mending
  <2> QED
    BY <1>3, <2>3, <2>4, <2>5, <2>6, <2>7 DEF ApplyInv
<1> QED
  BY <1>2, <1>3 DEF Restart

-----------------------------------------------------------------------------
\* systemd answers: with success ...
LEMMA JobDoneKeeps == ASSUME ApplyInv, JobDone PROVE ApplyInv'
<1>1. /\ job' = [op |-> "none", by |-> Free] /\ UNCHANGED <<file, controls, faults>>
      /\ lock' = (IF job.by = Free THEN lock ELSE Free)
      /\ control' = (IF job.by = "control" THEN "idle" ELSE control)
  BY DEF JobDone, Else, NoJob
<1>2. /\ service' \in {service, "stopped", "trying"}
      /\ service' = "stopped" => controls > 0
      /\ job.op = "restart" => service' = "trying"
  <2>1. service' = CASE job.op = "stop" -> "stopped"
                     [] job.op = "start" /\ service # "stopped" -> service
                     [] OTHER -> "trying"
    BY DEF JobDone
  <2>2. job.op = "stop" => controls > 0
    BY DEF ApplyInv, Commanded
  <2> QED
    BY <2>1, <2>2
<1>3. Commanded'
  BY <1>1 DEF ApplyInv, Commanded
<1>4. CASE job.by \in Callers
  <2> DEFINE k == job.by
  <2>1. k \in Callers /\ Succeed(k) /\ At(k, "await") /\ job.op = "restart" /\ service' = "trying"
    BY <1>2, <1>4 DEF JobDone, ApplyInv, Waiting
  <2>2. lock = k /\ k # Free /\ lock' = Free
    BY <1>1, <1>4, ApplyConstants DEF ApplyInv, Waiting, Free
  <2> HIDE DEF k
  <2>3. Ends(k) /\ apply[k].cfg \in Good /\ (apply[k].alone => file = apply[k].cfg)
    BY <2>1, IdleEnds DEF ApplyInv, Callings, Alone, At, Succeed, Written, Past
  <2>4. \A j \in Callers : ~At(j, "await")'
    BY <2>1, <2>3, IdleIs DEF ApplyInv, Waiting, Ends, At, k
  <2>5. Callings' /\ Alone'
    BY <1>1, <2>3, IdleIs DEF ApplyInv, Callings, Alone, Ends, At, Idle
  <2>6. Waiting'
    BY <1>1, <2>2, <2>4, ApplyConstants DEF ApplyInv, Waiting, Free
  <2>7. (last' = apply[k].cfg /\ apply[k].alone) \/ last' = NoConfig
    BY <2>1 DEF Succeed
  <2>8. apply[k].alone => \A j \in Callers : ~At(j, "writing")'
    BY <2>1, <2>3, IdleIs DEF ApplyInv, Alone, Ends, At
  <2>9. Kept'
    BY <1>1, <2>1, <2>3, <2>7, <2>8 DEF ApplyInv, Kept
  <2>10. ASSUME apply[k].alone PROVE Mending'
    BY <1>1, <2>1, <2>3, <2>10, ApplyConstants DEF ApplyInv, Mending, Good
  <2>11. ASSUME ~apply[k].alone PROVE Mending'
    <3>1. erred' = erred
      BY <2>1, <2>11 DEF Succeed, ApplyInv
    <3>2. \A j \in Callers : apply[j].pc \in Unchecked => apply'[j].pc \in Unchecked
      BY <2>1, <2>3 DEF Ends, At, Unchecked
    <3> QED
      BY <1>1, <2>1, <3>1, <3>2, ApplyConstants DEF ApplyInv, Mending, Good
  <2>12. erred' \in BOOLEAN
    BY <2>1 DEF Succeed
  <2> QED
    BY <1>3, <2>5, <2>6, <2>9, <2>10, <2>11, <2>12 DEF ApplyInv
<1>5. CASE job.by \notin Callers
  <2>1. UNCHANGED <<apply, last, erred>>
    BY <1>5 DEF JobDone
  <2>2. Callings' /\ Alone'
    BY <1>1, <2>1 DEF ApplyInv, Callings, Alone, At
  <2>3. Waiting'
    BY <1>1, <1>5, <2>1, ApplyConstants DEF ApplyInv, Waiting, At, Free
  <2>4. Kept'
    BY <1>1, <1>2, <2>1 DEF ApplyInv, Kept, At
  <2>5. Mending'
    BY <1>1, <1>2, <2>1, ApplyConstants DEF ApplyInv, Mending, Good
  <2> QED
    BY <1>3, <2>1, <2>2, <2>3, <2>4, <2>5 DEF ApplyInv
<1> QED
  BY <1>4, <1>5

\* ... or without, which counts as a fault.
LEMMA JobFailedKeeps == ASSUME ApplyInv, JobFailed PROVE ApplyInv'
<1>1. /\ job' = [op |-> "none", by |-> Free] /\ UNCHANGED <<file, controls>>
      /\ lock' = (IF job.by = Free THEN lock ELSE Free)
      /\ control' = (IF job.by = "control" THEN "idle" ELSE control)
      /\ service' \in {service, "stopped"} /\ faults' = faults + 1
  BY DEF JobFailed, Else, NoJob, Fault
<1>2. faults \in Nat /\ faults' \in Nat /\ faults' > 0
  BY <1>1 DEF ApplyInv, Commanded
<1>3. Commanded'
  BY <1>1, <1>2 DEF ApplyInv, Commanded
<1>4. CASE job.by \in Callers
  <2> DEFINE k == job.by
  <2>1. k \in Callers /\ Err(k) /\ At(k, "await")
    BY <1>4 DEF JobFailed, ApplyInv, Waiting
  <2>2. lock = k /\ k # Free /\ lock' = Free
    BY <1>1, <1>4, ApplyConstants DEF ApplyInv, Waiting, Free
  <2> HIDE DEF k
  <2>3. Ends(k) /\ erred' = TRUE /\ last' = last
    BY <2>1, IdleEnds DEF ApplyInv, Err
  <2>4. \A j \in Callers : ~At(j, "await")'
    BY <2>1, <2>3, IdleIs DEF ApplyInv, Waiting, Ends, At, k
  <2>5. Callings' /\ Alone'
    BY <1>1, <2>3, IdleIs DEF ApplyInv, Callings, Alone, Ends, At, Idle
  <2>6. Waiting'
    BY <1>1, <2>2, <2>4, ApplyConstants DEF ApplyInv, Waiting, Free
  <2>7. Kept'
    BY <1>1, <2>3, IdleIs DEF ApplyInv, Kept, Ends, At
  <2> QED
    BY <1>3, <2>3, <2>5, <2>6, <2>7 DEF ApplyInv, Mending
<1>5. CASE job.by \notin Callers
  <2>1. UNCHANGED <<apply, last, erred>>
    BY <1>5 DEF JobFailed
  <2>2. Callings' /\ Alone'
    BY <1>1, <2>1 DEF ApplyInv, Callings, Alone, At
  <2>3. Waiting'
    BY <1>1, <1>5, <2>1, ApplyConstants DEF ApplyInv, Waiting, At, Free
  <2>4. Kept'
    BY <1>1, <2>1 DEF ApplyInv, Kept, At
  <2>5. Mending'
    BY <1>1, <1>2, <2>1, ApplyConstants DEF ApplyInv, Mending, Good
  <2> QED
    BY <1>3, <2>1, <2>2, <2>3, <2>4, <2>5 DEF ApplyInv
<1> QED
  BY <1>4, <1>5

\* The commands that control the service, which leave the calls alone.
LEMMA ControlKeeps ==
  ASSUME ApplyInv,
         (\E op \in {"start", "stop", "restart"} : Control(op)) \/ ControlJob \/ StartGivesUp
  PROVE  ApplyInv'
<1>1. UNCHANGED <<apply, file, service, faults, last, erred>>
  BY DEF Control, ControlJob, StartGivesUp, Else
<1>2. Callings' /\ Alone' /\ Kept'
  BY <1>1 DEF ApplyInv, Callings, Alone, Kept, At
<1>3. controls' \in Nat /\ (controls > 0 => controls' > 0)
  BY DEF ApplyInv, Commanded, Control, ControlJob, StartGivesUp
<1>4. Mending'
  BY <1>1, <1>3 DEF ApplyInv, Mending
<1>5. ASSUME NEW op \in {"start", "stop", "restart"}, Control(op) PROVE Waiting' /\ Commanded'
  BY <1>1, <1>5 DEF ApplyInv, Waiting, Commanded, Control, At
<1>6. ASSUME ControlJob PROVE Waiting' /\ Commanded'
  <2>1. /\ lock = Free /\ lock' = "control" /\ job' = [op |-> control, by |-> "control"]
        /\ control \in {"start", "stop", "restart"} /\ control' \in {"await_start", "await"}
        /\ controls' = controls
    BY <1>6 DEF ControlJob
  <2>2. \A k \in Callers : ~At(k, "await") /\ k # "control"
    BY <2>1, ApplyConstants DEF ApplyInv, Waiting, Free
  <2> QED
    BY <1>1, <2>1, <2>2 DEF ApplyInv, Waiting, Commanded, At
<1>7. ASSUME StartGivesUp PROVE Waiting' /\ Commanded'
  <2>1. /\ control = "await_start" /\ control' = "idle" /\ lock' = Free
        /\ job' = [job EXCEPT !.by = Free] /\ controls' = controls
    BY <1>7 DEF StartGivesUp
  <2>2. lock = "control" /\ \A k \in Callers : ~At(k, "await") /\ k # Free
    BY <2>1, ApplyConstants DEF ApplyInv, Waiting, Free
  <2> QED
    BY <1>1, <2>1, <2>2 DEF ApplyInv, Waiting, Commanded, At
<1> QED
  BY <1>1, <1>2, <1>4, <1>5, <1>6, <1>7 DEF ApplyInv

LEMMA ProcessKeeps == ASSUME ApplyInv, ProcessStarts \/ ProcessDies PROVE ApplyInv'
<1>1. UNCHANGED <<apply, file, job, lock, control, controls, last, erred>> /\ Counted
  BY Faulty DEF ProcessStarts, ProcessDies, Else, Counted
<1>2. (file \in Good /\ service' = file) \/ service' = "trying"
  BY DEF ProcessStarts, ProcessDies
<1>3. Callings' /\ Alone' /\ Waiting'
  BY <1>1 DEF ApplyInv, Callings, Alone, Waiting, At
<1>4. Commanded'
  BY <1>1 DEF ApplyInv, Commanded, Counted
<1>5. Kept'
  BY <1>1, <1>2 DEF ApplyInv, Kept, At
<1>6. Mending'
  BY <1>1, <1>2, ApplyConstants DEF ApplyInv, Mending, Good
<1> QED
  BY <1>1, <1>3, <1>4, <1>5, <1>6 DEF ApplyInv

LEMMA CrashKeeps == ASSUME ApplyInv, Crash PROVE ApplyInv'
<1>1. /\ apply' = [k \in Callers |-> Idle] /\ control' = "idle" /\ lock' = Free
      /\ job' = [job EXCEPT !.by = Free] /\ faults' = faults + 1
      /\ UNCHANGED <<file, service, controls, last>>
  BY DEF Crash, Else, Fault
<1>2. apply' \in [Callers -> CallRange] /\ \A k \in Callers : apply'[k] = Idle
  BY <1>1 DEF CallRange, Idle
<1>3. Callings' /\ Alone' /\ Kept'
  BY <1>1, <1>2, IdleIs DEF ApplyInv, Callings, Alone, Kept, At
<1>4. Waiting'
  BY <1>1, <1>2, IdleIs, ApplyConstants DEF ApplyInv, Waiting, At, Free
<1>5. Commanded' /\ faults' > 0
  BY <1>1 DEF ApplyInv, Commanded
<1>6. erred' = (erred \/ \E k \in Callers : ~At(k, "idle") /\ ~At(k, "check"))
  BY DEF Crash
<1>7. erred' \in BOOLEAN
  BY <1>6
<1>8. Mending'
  <2> SUFFICES ASSUME ~erred' PROVE Mending'
    BY DEF Mending
  <2>1. ~erred /\ \A k \in Callers : apply[k].pc \notin Past
    BY <1>6 DEF At, Past
  <2> QED
    BY <1>1, <1>5, <2>1 DEF ApplyInv, Mending, Past, Unchecked
<1> QED
  BY <1>3, <1>4, <1>5, <1>7, <1>8 DEF ApplyInv

-----------------------------------------------------------------------------
\* A call begins: it is alone if all others rest, and they no longer are.
LEMMA BeginApplyKeeps == ASSUME ApplyInv, NEW c \in Configs, BeginApply(c) PROVE ApplyInv'
<1> DEFINE k == CHOOSE j \in Callers : At(j, "idle")
<1>1. UNCHANGED <<file, service, last, erred, job, lock, control, controls, faults>>
  BY DEF BeginApply, Else
<1>2. k \in Callers /\ At(k, "idle")
  <2>1. \E j \in Callers : At(j, "idle")
    BY ApplyConstants, IdleIs DEF BeginApply, AllIdle, At
  <2> QED
    BY <2>1
<1>3. apply' = [j \in Callers |->
        IF j = k THEN [Idle EXCEPT !.pc = "check", !.cfg = c, !.alone = AllIdle, !.fine = TRUE]
                 ELSE [apply[j] EXCEPT !.alone = FALSE]]
  BY DEF BeginApply
<1> HIDE DEF k
<1>4. /\ apply' \in [Callers -> CallRange]
      /\ apply'[k].pc = "check" /\ apply'[k].cfg = c
      /\ \A j \in Callers : j # k => apply'[j] = [apply[j] EXCEPT !.alone = FALSE]
  BY <1>2, <1>3 DEF ApplyInv, Callings, CallRange, Idle, AllIdle
<1>5. apply'[k].alone => AllIdle
  BY <1>2, <1>3 DEF Idle, AllIdle
<1>6. \A j \in Callers : j # k =>
        apply'[j].pc = apply[j].pc /\ apply'[j].cfg = apply[j].cfg /\ ~apply'[j].alone
  BY <1>4 DEF ApplyInv, Callings, CallRange
<1>7. Callings'
  <2>1. \A j \in Callers : j # k /\ At(j, "idle") => apply'[j] = Idle
    BY <1>4 DEF ApplyInv, Callings, Idle
  <2> QED
    BY <1>4, <1>6, <2>1 DEF ApplyInv, Callings, At
<1>8. Alone'
  BY <1>1, <1>4, <1>5, <1>6, IdleIs DEF Alone, AllIdle, At, Written, Past
<1>9. Waiting' /\ Commanded' /\ Kept'
  BY <1>1, <1>2, <1>4, <1>6 DEF ApplyInv, Waiting, Commanded, Kept, At
<1>10. Mending'
  <2>1. \A j \in Callers : apply[j].pc \in Past => apply'[j].pc \in Past
    BY <1>2, <1>6 DEF At, Past
  <2>2. \A j \in Callers : apply[j].pc \in Unchecked => apply'[j].pc \in Unchecked
    BY <1>2, <1>6 DEF At, Unchecked
  <2> QED
    BY <1>1, <2>1, <2>2 DEF ApplyInv, Mending
<1> QED
  BY <1>1, <1>7, <1>8, <1>9, <1>10 DEF ApplyInv

-----------------------------------------------------------------------------
LEMMA ApplyInvStep == ApplyInv /\ [ApplyNext]_applyVars => ApplyInv'
<1> SUFFICES ASSUME ApplyInv, [ApplyNext]_applyVars PROVE ApplyInv'
  OBVIOUS
<1>1. CASE UNCHANGED applyVars
  BY <1>1 DEF applyVars, ApplyInv, Callings, Alone, Waiting, Commanded, Kept, Mending, At
<1>2. ASSUME NEW k \in Callers, CallerStep(k) \/ Expire(k) PROVE ApplyInv'
  BY <1>2, CheckConfigKeeps, TruncateFileKeeps, WriteFileKeeps, ValidateFileKeeps,
     FirewallKeeps, ReloadKeeps, RestartKeeps, ExpireKeeps DEF CallerStep
<1> QED
  BY <1>1, <1>2, BeginApplyKeeps, ControlKeeps, JobDoneKeeps, JobFailedKeeps, ProcessKeeps,
     CrashKeeps DEF ApplyNext

\* The inductive invariant: what calls under way, the lock, the file, the server and
\* what is reported have to do with one another (singbox_service.go:43).
THEOREM ApplyInvHolds == ApplySpec => []ApplyInv
  BY ApplyInvInit, ApplyInvStep, PTL DEF ApplySpec

\* The file and the server stay those of the last success, and a configuration that
\* sing-box refuses never takes their place (singbox_service.go:43).
THEOREM TheLastIsKept == ApplySpec => []LastIsKept
<1>1. ApplyInv => LastIsKept
  BY ApplyConstants DEF ApplyInv, Kept, LastIsKept, Good
<1> QED
  BY <1>1, ApplyInvHolds, PTL

\* Once all calls have returned, and none with an error, the server runs what the
\* file holds, or is about to, unless it was stopped (singbox_service.go:43).
THEOREM SuccessIsRunning == ApplySpec => []SuccessMeansRunning
<1>1. ASSUME ApplyInv, AllIdle, ~erred, file # "none"
      PROVE  /\ file \in Good /\ service \in {file, "trying", "stopped"}
             /\ service = "stopped" => controls > 0 \/ faults > 0
  <2>1. \A k \in Callers : apply[k].pc \notin Past /\ apply[k].pc \notin Unchecked
    BY <1>1, IdleIs DEF AllIdle, Past, Unchecked
  <2> QED
    BY <1>1, <2>1 DEF ApplyInv, Kept, Mending
<1>2. ApplyInv => SuccessMeansRunning
  BY <1>1 DEF SuccessMeansRunning
<1> QED
  BY <1>2, ApplyInvHolds, PTL

-----------------------------------------------------------------------------
(* The firewall.                                                           *)

\* A call whose ports are being opened, or have been; one past the range to hop in.
Opened == {"open", "hop", "save", "reload", "restart", "await"}
AfterHop == {"save", "reload", "restart", "await"}

FwRange == [rules : SUBSET AllPorts, permanent : SUBSET AllPorts, ranges : SUBSET AllRanges]

PortsFor(c, t) == {ListenPort(ConfigOf[c], t)} \X Transports(t)

IsOpen(f, p) == p \in f.rules \/ (backend = "ufw" /\ \E q \in f.rules : HiddenBy(p, q))

\* The rules f are those of the inbounds of c, but for some that are still to come;
\* firewalld keeps what it has opened, and would find it again if it were reloaded.
OpenFor(f, c, todo) ==
  /\ \A t \in Inbounds[c] \ todo : \A p \in PortsFor(c, t) : IsOpen(f, p)
  /\ IF backend = "firewalld" THEN f.rules = f.permanent
     ELSE f.rules \subseteq PortsOf[c] /\ f.ranges \subseteq {Hopping[c]}

HopFor(f, c) ==
  backend \in {"nftables", "iptables"} /\ Hopping[c] # <<>> => Hopping[c] \in f.ranges

\* A call that ran alone and has had no command fail has opened what it says, and
\* from its return on no call has been at the file or the firewall.
Walled ==
  /\ fw \in FwRange /\ backend \in Backends
  /\ last # NoConfig =>
       /\ \A k \in Callers : apply[k].pc \notin Past
       /\ OpenFor(fw, last, {}) /\ HopFor(fw, last)
  /\ \A k \in Callers :
       IF apply[k].pc = "open" THEN apply[k].todo \subseteq Inbounds[apply[k].cfg]
                               ELSE apply[k].todo = {}
  /\ \A k \in Callers : apply[k].pc \in Opened /\ apply[k].alone /\ apply[k].fine =>
       /\ OpenFor(fw, apply[k].cfg, apply[k].todo)
       /\ apply[k].pc \in AfterHop => HopFor(fw, apply[k].cfg)

LEMMA WalledInit == ApplyInit => Walled
<1> SUFFICES ASSUME ApplyInit PROVE Walled
  OBVIOUS
<1>1. \A k \in Callers : apply[k].pc = "idle" /\ apply[k].todo = {}
  BY DEF ApplyInit, Idle
<1>2. /\ fw = [rules |-> {}, permanent |-> {}, ranges |-> {}]
      /\ backend \in Backends /\ last = NoConfig
  BY DEF ApplyInit
<1>3. fw \in FwRange
  BY <1>2 DEF FwRange
<1> QED
  BY <1>1, <1>2, <1>3 DEF Walled, Opened

-----------------------------------------------------------------------------
\* What the operations of the managers make of the rules.
LEMMA PortsAreThere ==
  ASSUME NEW c \in Configs, NEW t \in Inbounds[c]
  PROVE  PortsFor(c, t) \subseteq PortsOf[c] /\ PortsOf[c] \subseteq AllPorts
<1>1. t \in InboundTags(ConfigOf[c]) /\ PortsOf[c] = ExtractPorts(ConfigOf[c])
  BY InboundsAreNamed DEF PortsOf
<1> QED
  BY <1>1 DEF PortsFor, ExtractPorts, AllPorts

LEMMA PortsForIs ==
  ASSUME NEW c, NEW t
  PROVE  PortsFor(c, t) = {<<ListenPort(ConfigOf[c], t), "tcp">>}
           \cup (IF "udp" \in Transports(t) THEN {<<ListenPort(ConfigOf[c], t), "udp">>} ELSE {})
<1>1. Transports(t) = {"tcp", "udp"} \/ (Transports(t) = {"tcp"} /\ "udp" \notin Transports(t))
  BY DEF Transports
<1> DEFINE n == ListenPort(ConfigOf[c], t)
<1> HIDE DEF n
<1>2. {n} \X {"tcp", "udp"} = {<<n, "tcp">>} \cup {<<n, "udp">>}
  OBVIOUS
<1>3. {n} \X {"tcp"} = {<<n, "tcp">>}
  OBVIOUS
<1> QED
  BY <1>1, <1>2, <1>3 DEF PortsFor, n

\* What opening a port does.
Allows(f, g, p) ==
  /\ g \in FwRange
  /\ f.rules \subseteq g.rules /\ g.rules \subseteq f.rules \cup {p}
  /\ IsOpen(g, p)
  /\ g.ranges = f.ranges
  /\ backend = "firewalld" /\ f.rules = f.permanent => g.rules = g.permanent

LEMMA AllowAllows ==
  ASSUME NEW f \in FwRange, NEW p \in AllPorts
  PROVE  Allows(f, Allow(f, p), p)
<1> DEFINE P == SUBSET AllPorts
           R == SUBSET AllRanges
           g == Allow(f, p)
<1>1. f \in [rules : P, permanent : P, ranges : R]
  BY DEF FwRange
<1>2. \A r \in P : r \cup {p} \in P
  OBVIOUS
<1>3. CASE backend = "ufw"
  <2>1. g = [f EXCEPT !.rules = IF \E q \in @ : HiddenBy(p, q) THEN @ ELSE @ \cup {p}]
    BY <1>3 DEF Allow
  <2> DEFINE r == IF \E q \in f.rules : HiddenBy(p, q) THEN f.rules ELSE f.rules \cup {p}
  <2>2. r \in P /\ f.rules \subseteq r /\ r \subseteq f.rules \cup {p}
    BY <1>1, <1>2
  <2>3. p \in r \/ \E q \in r : HiddenBy(p, q)
    OBVIOUS
  <2>4. g = [f EXCEPT !.rules = r]
    BY <2>1
  <2> HIDE DEF r, P, R, g
  <2>5. g \in [rules : P, permanent : P, ranges : R] /\ g.rules = r /\ g.ranges = f.ranges
    BY <1>1, <2>2, <2>4
  <2> QED
    BY <1>3, <2>2, <2>3, <2>5 DEF Allows, IsOpen, FwRange, P, R, g
<1>4. CASE backend = "firewalld"
  <2>1. CASE p \in f.rules
    BY <1>4, <2>1 DEF Allow, Allows, IsOpen
  <2>2. CASE p \notin f.rules
    <3> DEFINE r == f.rules \cup {p}
               s == f.permanent \cup {p}
    <3>1. g = [f EXCEPT !.rules = r, !.permanent = s] /\ r \in P /\ s \in P
      BY <1>1, <1>2, <1>4, <2>2 DEF Allow
    <3>2. p \in r /\ f.rules \subseteq r /\ (f.rules = f.permanent => r = s)
      OBVIOUS
    <3>3. r \subseteq f.rules \cup {p}
      OBVIOUS
    <3> HIDE DEF r, s, P, R, g
    <3>4. /\ g \in [rules : P, permanent : P, ranges : R]
          /\ g.rules = r /\ g.permanent = s /\ g.ranges = f.ranges
      BY <1>1, <3>1
    <3> QED
      BY <3>2, <3>3, <3>4 DEF Allows, IsOpen, FwRange, P, R, g
  <2> QED
    BY <2>1, <2>2
<1>5. CASE backend # "ufw" /\ backend # "firewalld"
  <2> DEFINE r == f.rules \cup {p}
  <2>1. g = [f EXCEPT !.rules = r] /\ r \in P /\ p \in r /\ f.rules \subseteq r
    BY <1>1, <1>2, <1>5 DEF Allow
  <2>2. r \subseteq f.rules \cup {p}
    OBVIOUS
  <2> HIDE DEF r, P, R, g
  <2>3. g \in [rules : P, permanent : P, ranges : R] /\ g.rules = r /\ g.ranges = f.ranges
    BY <1>1, <2>1
  <2> QED
    BY <1>5, <2>1, <2>2, <2>3 DEF Allows, IsOpen, FwRange, P, R, g
<1> QED
  BY <1>3, <1>4, <1>5

LEMMA AllowBothIs ==
  ASSUME NEW f, NEW c \in Configs, NEW t \in Inbounds[c]
  PROVE  LET n == ListenPort(ConfigOf[c], t)
             g == Allow(f, <<n, "tcp">>) IN
         /\ Openings[c][t].port = n
         /\ AllowBoth(f, Openings[c][t]) =
              IF "udp" \in Transports(t) THEN Allow(g, <<n, "udp">>) ELSE g
<1> DEFINE b == "udp" \in Transports(t)
           n == ListenPort(ConfigOf[c], t)
           o == Openings[c][t]
<1>1. o = [port |-> n, both |-> b] /\ b \in BOOLEAN
  BY DEF Openings
<1> HIDE DEF b, n, o
<1>2. o.port = n /\ o.both = b
  BY <1>1
<1>3. AllowBoth(f, o) = IF o.both THEN Allow(Allow(f, <<o.port, "tcp">>), <<o.port, "udp">>)
                                 ELSE Allow(f, <<o.port, "tcp">>)
  BY DEF AllowBoth
<1> QED
  BY <1>2, <1>3 DEF b, n, o

\* Opening the ports of one inbound leaves the others' open.
LEMMA AllowBothOpens ==
  ASSUME NEW f \in FwRange, NEW c \in Configs, NEW t \in Inbounds[c],
         NEW todo, OpenFor(f, c, todo)
  PROVE  OpenFor(AllowBoth(f, Openings[c][t]), c, todo \ {t})
<1> DEFINE n == ListenPort(ConfigOf[c], t)
           g == Allow(f, <<n, "tcp">>)
           h == AllowBoth(f, Openings[c][t])
<1>2. h = IF "udp" \in Transports(t) THEN Allow(g, <<n, "udp">>) ELSE g
  BY AllowBothIs
<1>3. /\ PortsFor(c, t) = IF "udp" \in Transports(t) THEN {<<n, "tcp">>, <<n, "udp">>}
                                                     ELSE {<<n, "tcp">>}
      /\ <<n, "tcp">> \in PortsFor(c, t)
  BY PortsForIs
<1>4. PortsFor(c, t) \subseteq PortsOf[c] /\ PortsFor(c, t) \subseteq AllPorts
  BY PortsAreThere
<1>5. Allows(f, g, <<n, "tcp">>)
  BY <1>3, <1>4, AllowAllows
<1> HIDE DEF n, g, h
<1>6. /\ h = g \/ Allows(g, h, <<n, "udp">>)
      /\ "udp" \in Transports(t) => Allows(g, h, <<n, "udp">>)
  BY <1>2, <1>3, <1>4, <1>5, AllowAllows DEF Allows
<1>7. \A p : IsOpen(f, p) => IsOpen(g, p)
  BY <1>5 DEF Allows, IsOpen
<1>8. \A p : IsOpen(g, p) => IsOpen(h, p)
  BY <1>6 DEF Allows, IsOpen
<1>9. \A p \in PortsFor(c, t) : IsOpen(h, p)
  BY <1>3, <1>5, <1>6, <1>8 DEF Allows
<1>10. \A u \in Inbounds[c] \ (todo \ {t}) : \A p \in PortsFor(c, u) : IsOpen(h, p)
  BY <1>7, <1>8, <1>9 DEF OpenFor
<1>11. h.rules \subseteq f.rules \cup PortsFor(c, t) /\ h.ranges = f.ranges
  BY <1>2, <1>3, <1>5, <1>6 DEF Allows
<1>12. backend = "firewalld" /\ f.rules = f.permanent => h.rules = h.permanent
  BY <1>5, <1>6 DEF Allows
<1> QED
  BY <1>4, <1>10, <1>11, <1>12 DEF OpenFor, h

\* What a call of OpenPort leaves, or one that fails, is a firewall's.
LEMMA AllowedRange ==
  ASSUME NEW f \in FwRange, NEW c \in Configs, NEW t \in Inbounds[c]
  PROVE  /\ AllowBoth(f, Openings[c][t]) \in FwRange
         /\ AllowPart(f, Openings[c][t]) \subseteq FwRange
<1> DEFINE o == Openings[c][t]
           n == ListenPort(ConfigOf[c], t)
           g == Allow(f, <<n, "tcp">>)
<1>2. <<n, "tcp">> \in AllPorts /\ ("udp" \in Transports(t) => <<n, "udp">> \in AllPorts)
  <2>1. PortsFor(c, t) \subseteq AllPorts
    BY PortsAreThere
  <2> QED
    BY <2>1, PortsForIs
<1>3. g \in FwRange
  BY <1>2, AllowAllows DEF Allows
<1>4. AllowBoth(f, o) = IF "udp" \in Transports(t) THEN Allow(g, <<n, "udp">>) ELSE g
  BY AllowBothIs
<1>5. Allow(f, <<o.port, "tcp">>) = g
  BY AllowBothIs
<1> HIDE DEF o, n, g
<1>6. AllowBoth(f, o) \in FwRange
  BY <1>2, <1>3, <1>4, AllowAllows DEF Allows
<1>7. \A e, d \in FwRange : [e EXCEPT !.permanent = d.permanent] \in FwRange
  <2> DEFINE P == SUBSET AllPorts
             R == SUBSET AllRanges
  <2>1. FwRange = [rules : P, permanent : P, ranges : R]
    BY DEF FwRange
  <2> HIDE DEF P, R
  <2> QED
    BY <2>1
<1>8. \A e \in AllowPart(f, o) :
        \/ e \in {f, g}
        \/ e = [g EXCEPT !.permanent = f.permanent]
        \/ e = [AllowBoth(f, o) EXCEPT !.permanent = g.permanent]
  BY <1>5 DEF AllowPart
<1>9. AllowPart(f, o) \subseteq FwRange
  BY <1>3, <1>6, <1>7, <1>8
<1> QED
  BY <1>6, <1>9 DEF o

\* The firewall is emptied, or reloaded, and a range is redirected.
LEMMA FlushedRange ==
  ASSUME NEW f \in FwRange
  PROVE  /\ Reloaded(f) \in FwRange /\ Reloaded(f).rules = Reloaded(f).permanent
         /\ Reloaded(f).permanent = f.permanent /\ Reloaded(f).ranges = f.ranges
         /\ f.rules = f.permanent => Reloaded(f) = f
         /\ Cleared(f) \in FwRange /\ Cleared(f).rules = {} /\ Cleared(f).ranges = {}
         /\ ClearedPart(f) \subseteq FwRange
<1> DEFINE P == SUBSET AllPorts
           R == SUBSET AllRanges
<1>1. FwRange = [rules : P, permanent : P, ranges : R] /\ {} \in P /\ {} \in R
  BY DEF FwRange
<1>2. ClearedPart(f) \subseteq FwRange
  BY DEF ClearedPart, FwRange
<1> HIDE DEF P, R
<1>3. /\ Reloaded(f) \in FwRange /\ Reloaded(f).rules = f.permanent
      /\ Reloaded(f).permanent = f.permanent /\ Reloaded(f).ranges = f.ranges
  BY <1>1 DEF Reloaded
<1>4. f.rules = f.permanent => Reloaded(f) = f
  BY <1>1 DEF Reloaded
<1>5. Cleared(f) \in FwRange /\ Cleared(f).rules = {} /\ Cleared(f).ranges = {}
  BY <1>1 DEF Cleared
<1> QED
  BY <1>2, <1>3, <1>4, <1>5

LEMMA RedirectedIs ==
  ASSUME NEW f \in FwRange, NEW r \in AllRanges
  PROVE  /\ Redirected(f, r) \in FwRange
         /\ Redirected(f, r).rules = f.rules /\ Redirected(f, r).permanent = f.permanent
         /\ Redirected(f, r).ranges = f.ranges \cup {r}
<1> DEFINE P == SUBSET AllPorts
           R == SUBSET AllRanges
           s == f.ranges \cup {r}
<1>1. FwRange = [rules : P, permanent : P, ranges : R] /\ s \in R
  BY DEF FwRange
<1>2. Redirected(f, r) = [f EXCEPT !.ranges = s]
  BY DEF Redirected
<1> HIDE DEF P, R, s
<1>3. Redirected(f, r) \in FwRange /\ Redirected(f, r).rules = f.rules
      /\ Redirected(f, r).permanent = f.permanent /\ Redirected(f, r).ranges = s
  BY <1>1, <1>2
<1> QED
  BY <1>3 DEF s

-----------------------------------------------------------------------------
\* Call j is no further with the firewall than it was.
NoFurther(j) ==
  /\ IF apply'[j].pc = "open"
       THEN /\ apply[j].pc = "open"
            /\ apply'[j].todo = apply[j].todo /\ apply'[j].cfg = apply[j].cfg
       ELSE apply'[j].todo = {}
  /\ apply'[j].pc \in Opened /\ apply'[j].alone /\ apply'[j].fine =>
       /\ apply[j].pc \in Opened /\ apply[j].alone /\ apply[j].fine
       /\ apply'[j].cfg = apply[j].cfg /\ apply'[j].todo = apply[j].todo
       /\ apply'[j].pc \in AfterHop => apply[j].pc \in AfterHop

\* A step that leaves the firewall alone.
LEMMA StillWalled ==
  ASSUME Walled, fw' = fw, backend' = backend, \A j \in Callers : NoFurther(j),
         \/ last' = NoConfig
         \/ last' = last /\ \A j \in Callers : apply'[j].pc \in Past => apply[j].pc \in Past
  PROVE  Walled'
<1>1. \A c, todo : /\ OpenFor(fw, c, todo) => OpenFor(fw, c, todo)'
                   /\ HopFor(fw, c) => HopFor(fw, c)'
  BY DEF OpenFor, HopFor, IsOpen
<1>2. /\ (fw \in FwRange /\ backend \in Backends)'
      /\ (last # NoConfig => /\ \A k \in Callers : apply[k].pc \notin Past
                             /\ OpenFor(fw, last, {}) /\ HopFor(fw, last))'
  BY <1>1 DEF Walled, OpenFor, HopFor, IsOpen
<1>3. \A k \in Callers : IF apply'[k].pc = "open"
                           THEN apply'[k].todo \subseteq Inbounds[apply'[k].cfg]
                           ELSE apply'[k].todo = {}
  BY DEF Walled, NoFurther
<1>4. ASSUME NEW k \in Callers, apply'[k].pc \in Opened, apply'[k].alone, apply'[k].fine
      PROVE  /\ OpenFor(fw', apply'[k].cfg, apply'[k].todo)
             /\ apply'[k].pc \in AfterHop => HopFor(fw', apply'[k].cfg)
  BY <1>4 DEF Walled, NoFurther
<1>5. \A c, todo : /\ OpenFor(fw', c, todo) => OpenFor(fw, c, todo)'
                   /\ HopFor(fw', c) => HopFor(fw, c)'
  BY DEF OpenFor, HopFor, IsOpen
<1> QED
  BY <1>2, <1>3, <1>4, <1>5 DEF Walled

\* The calls as they go on, end, or begin.
LEMMA GoingIsNoFurther ==
  ASSUME ApplyInv, Walled, NEW k \in Callers,
         NEW l \in {"write", "writing", "validate", "flush", "restart", "await"},
         Move(k, l), l \in Opened => apply[k].pc \in AfterHop, apply[k].pc # "open"
  PROVE  \A j \in Callers : NoFurther(j)
<1>1. /\ \A j \in Callers : j # k => apply'[j] = apply[j]
      /\ apply'[k].pc = l /\ apply'[k].cfg = apply[k].cfg /\ apply'[k].todo = apply[k].todo
      /\ apply'[k].alone = apply[k].alone /\ apply'[k].fine = apply[k].fine
  BY DEF Move, ApplyInv, Callings, CallRange
<1> QED
  BY <1>1 DEF NoFurther, Walled, Opened, AfterHop

LEMMA IdleIsNoFurther ==
  ASSUME NEW j \in Callers, apply'[j] = Idle PROVE NoFurther(j)
BY DEF NoFurther, Idle, Opened

LEMMA SameIsNoFurther ==
  ASSUME Walled, NEW j \in Callers, apply'[j] = apply[j] PROVE NoFurther(j)
BY DEF NoFurther, Walled

LEMMA EndingIsNoFurther ==
  ASSUME ApplyInv, Walled, NEW k \in Callers, apply' = [apply EXCEPT ![k] = Idle]
  PROVE  \A j \in Callers : NoFurther(j) /\ (apply'[j].pc \in Past => apply[j].pc \in Past)
<1>1. apply'[k] = Idle /\ \A j \in Callers : j # k => apply'[j] = apply[j]
  BY DEF ApplyInv, Callings
<1> QED
  BY <1>1, IdleIsNoFurther, SameIsNoFurther, IdleIs DEF Past

-----------------------------------------------------------------------------
\* A command to the firewall: whoever runs it has set last aside, and if it runs
\* alone, no other call does.
LEMMA CommandWalls ==
  ASSUME ApplyInv, Walled, NEW k \in Callers, NEW l \in {"open", "hop", "save", "reload"},
         NEW todo \in SUBSET InboundNames, NEW f \in FwRange, NEW P \in SUBSET FwRange,
         Command(k, l, todo, f, P), apply[k].pc \in {"flush", "open", "hop", "save"},
         IF l = "open" THEN todo \subseteq Inbounds[apply[k].cfg] ELSE todo = {},
         apply[k].alone /\ apply[k].fine =>
           OpenFor(f, apply[k].cfg, todo) /\ (l \in AfterHop => HopFor(f, apply[k].cfg))
  PROVE  Walled'
<1>1. /\ fw' \in FwRange /\ backend' = backend /\ last' = last
      /\ \A j \in Callers : j # k => apply'[j] = apply[j]
      /\ apply'[k].pc = l /\ apply'[k].todo = todo /\ apply'[k].cfg = apply[k].cfg
      /\ apply'[k].alone = apply[k].alone
      /\ apply'[k].fine => apply[k].fine /\ fw' = f
  <2>1. fw' \in FwRange /\ backend' = backend /\ last' = last
    BY DEF Command, Managed, Walled
  <2>2. CASE fw' = f /\ apply' = [apply EXCEPT ![k].pc = l, ![k].todo = todo]
    BY <2>1, <2>2 DEF ApplyInv, Callings, CallRange, Past
  <2>3. CASE apply' = [apply EXCEPT ![k].pc = l, ![k].todo = todo, ![k].fine = FALSE]
    BY <2>1, <2>3 DEF ApplyInv, Callings, CallRange, Past
  <2> QED
    BY <2>2, <2>3 DEF Command
<1>2. last = NoConfig
  BY DEF Walled, Past
<1>3. \A j \in Callers : j # k => ~apply[j].alone
  BY DEF ApplyInv, Alone, At
<1>4. \A j \in Callers : IF apply'[j].pc = "open"
                           THEN apply'[j].todo \subseteq Inbounds[apply'[j].cfg]
                           ELSE apply'[j].todo = {}
  BY <1>1 DEF Walled
<1>5. \A c : /\ OpenFor(f, c, todo) /\ fw' = f => OpenFor(fw, c, todo)'
             /\ HopFor(f, c) /\ fw' = f => HopFor(fw, c)'
  BY <1>1 DEF OpenFor, HopFor, IsOpen
<1>6. ASSUME NEW j \in Callers, apply'[j].pc \in Opened, apply'[j].alone, apply'[j].fine
      PROVE  /\ OpenFor(fw, apply[k].cfg, todo)' /\ j = k
             /\ l \in AfterHop => HopFor(fw, apply[k].cfg)'
  BY <1>1, <1>3, <1>5, <1>6 DEF AfterHop
<1> QED
  BY <1>1, <1>2, <1>4, <1>6 DEF Walled

LEMMA FirewallWalls ==
  ASSUME ApplyInv, Walled, NEW k \in Callers,
         FlushRules(k) \/ OpenPort(k) \/ OpenHysteria2PortHopping(k) \/ SaveRules(k)
  PROVE  Walled'
<1> DEFINE c == apply[k].cfg
           mine == apply[k].alone /\ apply[k].fine
<1>1. /\ c \in Configs /\ fw \in FwRange /\ {fw} \in SUBSET FwRange /\ {} \in SUBSET FwRange
      /\ {} \in SUBSET InboundNames
  BY DEF FlushRules, OpenPort, OpenHysteria2PortHopping, SaveRules, At, ApplyInv, Callings, Walled
<1>2. Inbounds[c] \in SUBSET InboundNames
  BY <1>1, InboundsAreNamed
<1>3. mine /\ apply[k].pc \in Opened => OpenFor(fw, c, apply[k].todo)
  BY DEF Walled
<1>4. mine /\ apply[k].pc \in AfterHop => HopFor(fw, c)
  BY DEF Walled, Opened, AfterHop
<1> HIDE DEF mine
<1>5. CASE FlushRules(k)
  <2>1. apply[k].pc = "flush"
    BY <1>5 DEF FlushRules, At
  <2>2. CASE backend = "firewalld" /\ Command(k, "open", Inbounds[c], Reloaded(fw), {fw})
    <3>1. OpenFor(Reloaded(fw), c, Inbounds[c]) /\ Reloaded(fw) \in FwRange
      BY <1>1, <2>2, FlushedRange DEF OpenFor
    <3> QED
      BY <1>1, <1>2, <2>1, <2>2, <3>1, CommandWalls DEF AfterHop
  <2>3. CASE /\ backend # "firewalld"
             /\ Command(k, "open", Inbounds[c], Cleared(fw), ClearedPart(fw))
    <3>1. OpenFor(Cleared(fw), c, Inbounds[c]) /\ Cleared(fw) \in FwRange
          /\ ClearedPart(fw) \in SUBSET FwRange
      BY <1>1, <2>3, FlushedRange DEF OpenFor
    <3> QED
      BY <1>1, <1>2, <2>1, <2>3, <3>1, CommandWalls DEF AfterHop
  <2> QED
    BY <1>5, <2>2, <2>3 DEF FlushRules
<1>6. CASE OpenPort(k)
  <2>1. apply[k].pc = "open" /\ apply[k].todo \subseteq Inbounds[c]
    BY <1>6 DEF OpenPort, At, Walled
  <2>2. mine => OpenFor(fw, c, apply[k].todo)
    BY <1>3, <2>1 DEF Opened
  <2>3. ASSUME NEW t \in apply[k].todo,
               Command(k, "open", apply[k].todo \ {t}, AllowBoth(fw, Openings[c][t]),
                                                       AllowPart(fw, Openings[c][t]))
        PROVE  Walled'
    <3>1. t \in Inbounds[c] /\ apply[k].todo \ {t} \subseteq Inbounds[c]
      BY <2>1
    <3>2. mine => OpenFor(AllowBoth(fw, Openings[c][t]), c, apply[k].todo \ {t})
      BY <1>1, <2>2, <3>1, AllowBothOpens
    <3>3. /\ AllowBoth(fw, Openings[c][t]) \in FwRange
          /\ AllowPart(fw, Openings[c][t]) \in SUBSET FwRange
      BY <1>1, <3>1, AllowedRange
    <3>4. apply[k].todo \ {t} \in SUBSET InboundNames
      BY <1>2, <3>1
    <3> QED
      BY <2>1, <2>3, <3>1, <3>2, <3>3, <3>4, CommandWalls DEF AfterHop, mine
  <2>4. ASSUME apply[k].todo = {}, Command(k, "hop", {}, fw, {}) PROVE Walled'
    BY <1>1, <2>1, <2>2, <2>4, CommandWalls DEF AfterHop, mine
  <2> QED
    BY <1>6, <2>3, <2>4 DEF OpenPort
<1>7. CASE OpenHysteria2PortHopping(k)
  <2> DEFINE r == Hopping[c]
  <2>1. apply[k].pc = "hop" /\ apply[k].todo = {}
    BY <1>7 DEF OpenHysteria2PortHopping, At, Walled
  <2>2. mine => OpenFor(fw, c, {})
    BY <1>3, <2>1 DEF Opened
  <2>3. CASE /\ r # <<>> /\ backend \in {"nftables", "iptables"}
             /\ Command(k, "save", {}, Redirected(fw, r), RedirectedPart(fw, r))
    <3>1. r \in AllRanges /\ <<r[1], r[2], 0>> \in AllRanges
      BY <1>1, <2>3 DEF AllRanges
    <3> HIDE DEF r
    <3>2. Redirected(fw, r) \in FwRange /\ RedirectedPart(fw, r) \in SUBSET FwRange
      BY <1>1, <3>1, RedirectedIs DEF RedirectedPart
    <3>3. HopFor(Redirected(fw, r), c)
      BY <1>1, <3>1, RedirectedIs DEF HopFor, r
    <3>4. mine => OpenFor(Redirected(fw, r), c, {})
      BY <1>1, <2>2, <2>3, <3>1, RedirectedIs DEF OpenFor, IsOpen, r
    <3> QED
      BY <1>1, <2>1, <2>3, <3>2, <3>3, <3>4, CommandWalls DEF mine
  <2>4. CASE ~(r # <<>> /\ backend \in {"nftables", "iptables"}) /\ Command(k, "save", {}, fw, {})
    <3>1. HopFor(fw, c)
      BY <2>4 DEF HopFor
    <3> QED
      BY <1>1, <2>1, <2>2, <2>4, <3>1, CommandWalls DEF mine
  <2> QED
    BY <1>7, <2>3, <2>4 DEF OpenHysteria2PortHopping
<1>8. CASE SaveRules(k)
  <2> DEFINE f == IF backend = "firewalld" THEN Reloaded(fw) ELSE fw
  <2>1. apply[k].pc = "save" /\ apply[k].todo = {} /\ Command(k, "reload", {}, f, {fw})
    BY <1>8 DEF SaveRules, At, Walled
  <2>2. mine => OpenFor(fw, c, {}) /\ HopFor(fw, c)
    BY <1>3, <1>4, <2>1 DEF Opened, AfterHop
  <2>3. f \in FwRange
    BY <1>1, FlushedRange
  <2>4. mine => OpenFor(f, c, {}) /\ HopFor(f, c)
    <3>1. CASE backend = "firewalld"
      BY <1>1, <2>2, <3>1, FlushedRange DEF OpenFor
    <3> QED
      BY <2>2, <3>1
  <2> HIDE DEF f
  <2> QED
    BY <1>1, <2>1, <2>3, <2>4, CommandWalls DEF mine
<1> QED
  BY <1>5, <1>6, <1>7, <1>8

\* The other steps of a call.
LEMMA CallerWalls ==
  ASSUME ApplyInv, Walled, NEW k \in Callers, CallerStep(k) \/ Expire(k)
  PROVE  Walled'
<1>1. ASSUME apply' = [apply EXCEPT ![k] = Idle], fw' = fw, backend' = backend, last' = last
      PROVE  Walled'
  BY <1>1, EndingIsNoFurther, StillWalled
<1>2. ASSUME NEW l \in {"write", "writing", "validate", "flush", "restart", "await"},
             Move(k, l), l \in Opened => apply[k].pc \in AfterHop, apply[k].pc # "open",
             fw' = fw, backend' = backend,
             last' = NoConfig \/ (last' = last /\ (l \in Past => apply[k].pc \in Past))
      PROVE  Walled'
  <2>1. \A j \in Callers : NoFurther(j)
    BY <1>2, GoingIsNoFurther
  <2>2. apply'[k].pc = l /\ \A j \in Callers : j # k => apply'[j] = apply[j]
    BY <1>2 DEF Move, ApplyInv, Callings
  <2>3. \/ last' = NoConfig
        \/ last' = last /\ \A j \in Callers : apply'[j].pc \in Past => apply[j].pc \in Past
    BY <1>2, <2>2
  <2> QED
    BY <1>2, <2>1, <2>3, StillWalled
<1>3. CASE CheckConfig(k)
  BY <1>1, <1>2, <1>3 DEF CheckConfig, Refuse, At, Opened, Past
<1>4. CASE TruncateFile(k)
  BY <1>2, <1>4 DEF TruncateFile, At, Opened
<1>5. CASE WriteFile(k)
  BY <1>1, <1>2, <1>5 DEF WriteFile, Err, At, Opened, Past
<1>6. CASE ValidateFile(k)
  BY <1>1, <1>2, <1>6 DEF ValidateFile, Err, At, Opened, Past
<1>7. CASE Reload(k)
  BY <1>2, <1>7 DEF Reload, Else, At, AfterHop, Past
<1>8. CASE Restart(k)
  BY <1>1, <1>2, <1>8 DEF Restart, Err, Else, At, AfterHop, Past
<1>9. CASE Expire(k)
  <2>1. /\ apply' = [apply EXCEPT ![k].expired = TRUE]
        /\ fw' = fw /\ backend' = backend /\ last' = last
    BY <1>9 DEF Expire, Else
  <2>2. \A j \in Callers :
          /\ apply'[j].pc = apply[j].pc /\ apply'[j].cfg = apply[j].cfg
          /\ apply'[j].todo = apply[j].todo
          /\ apply'[j].alone = apply[j].alone /\ apply'[j].fine = apply[j].fine
    BY <2>1 DEF ApplyInv, Callings, CallRange
  <2> QED
    BY <2>1, <2>2, StillWalled DEF NoFurther, Walled
<1> QED
  BY <1>3, <1>4, <1>5, <1>6, <1>7, <1>8, <1>9, FirewallWalls DEF CallerStep

\* A call that ran alone returns: what it has opened is now what is kept.
LEMMA SucceedWalls ==
  ASSUME ApplyInv, Walled, NEW k \in Callers, At(k, "await"), Succeed(k),
         fw' = fw, backend' = backend
  PROVE  Walled'
<1>1. apply' = [apply EXCEPT ![k] = Idle]
      /\ last' = IF apply[k].alone /\ apply[k].fine THEN apply[k].cfg ELSE NoConfig
  BY DEF Succeed
<1>2. \A j \in Callers : NoFurther(j)
  BY <1>1, EndingIsNoFurther
<1>3. CASE last' = NoConfig
  BY <1>2, <1>3, StillWalled
<1>4. CASE apply[k].alone /\ apply[k].fine /\ last' = apply[k].cfg
  <2>1. OpenFor(fw, apply[k].cfg, {}) /\ HopFor(fw, apply[k].cfg)
    BY <1>4 DEF Walled, Opened, AfterHop, At
  <2>2. \A j \in Callers : apply'[j].pc = "idle" /\ apply'[j].todo = {}
    <3>1. \A j \in Callers : apply'[j] = Idle
      BY <1>1, <1>4 DEF ApplyInv, Callings, Alone
    <3> QED
      BY <3>1 DEF Idle
  <2>3. (OpenFor(fw, last, {}) /\ HopFor(fw, last))'
    BY <1>4, <2>1 DEF OpenFor, HopFor, IsOpen
  <2> QED
    BY <2>2, <2>3 DEF Walled, Opened, Past
<1> QED
  BY <1>1, <1>3, <1>4

LEMMA WalledStep == ApplyInv /\ Walled /\ [ApplyNext]_applyVars => Walled'
<1> SUFFICES ASSUME ApplyInv, Walled, [ApplyNext]_applyVars PROVE Walled'
  OBVIOUS
<1>1. ASSUME apply' = apply, fw' = fw, backend' = backend, last' = last PROVE Walled'
  BY <1>1, SameIsNoFurther, StillWalled
<1>2. ASSUME NEW k \in Callers, CallerStep(k) \/ Expire(k) PROVE Walled'
  BY <1>2, CallerWalls
<1>3. ASSUME NEW c \in Configs, BeginApply(c) PROVE Walled'
  <2> DEFINE k == CHOOSE j \in Callers : At(j, "idle")
  <2>1. /\ fw' = fw /\ backend' = backend /\ last' = last
        /\ apply' = [j \in Callers |->
             IF j = k THEN [Idle EXCEPT !.pc = "check", !.cfg = c, !.alone = AllIdle,
                                        !.fine = TRUE]
                      ELSE [apply[j] EXCEPT !.alone = FALSE]]
    BY <1>3 DEF BeginApply, Else
  <2> HIDE DEF k
  <2>2. \A j \in Callers : j = k => apply'[j].pc = "check" /\ apply'[j].todo = {}
    BY <2>1 DEF Idle
  <2>3. \A j \in Callers : j # k =>
          /\ apply'[j].pc = apply[j].pc /\ apply'[j].cfg = apply[j].cfg
          /\ apply'[j].todo = apply[j].todo /\ ~apply'[j].alone
    BY <2>1 DEF ApplyInv, Callings, CallRange
  <2>4. \A j \in Callers : NoFurther(j) /\ (apply'[j].pc \in Past => apply[j].pc \in Past)
    BY <2>2, <2>3 DEF NoFurther, Walled, Opened, Past
  <2> QED
    BY <2>1, <2>4, StillWalled
<1>4. CASE JobDone
  BY <1>1, <1>4, SucceedWalls DEF JobDone, Else, ApplyInv, Waiting
<1>5. CASE JobFailed
  BY <1>1, <1>5, EndingIsNoFurther, StillWalled DEF JobFailed, Err, Else
<1>6. CASE Crash
  <2>1. fw' = fw /\ backend' = backend /\ last' = last /\ \A j \in Callers : apply'[j] = Idle
    BY <1>6 DEF Crash, Else
  <2>2. \A j \in Callers : NoFurther(j) /\ apply'[j].pc \notin Past
    BY <2>1, IdleIsNoFurther, IdleIs DEF Past
  <2> QED
    BY <2>1, <2>2, StillWalled
<1>7. CASE ControlJob \/ StartGivesUp \/ ProcessStarts \/ ProcessDies
  BY <1>1, <1>7 DEF ControlJob, StartGivesUp, ProcessStarts, ProcessDies, Else
<1>8. ASSUME NEW op \in {"start", "stop", "restart"}, Control(op) PROVE Walled'
  BY <1>1, <1>8 DEF Control, Else
<1>9. CASE UNCHANGED applyVars
  BY <1>1, <1>9 DEF applyVars
<1> QED
  BY <1>2, <1>3, <1>4, <1>5, <1>6, <1>7, <1>8, <1>9 DEF ApplyNext

\* The strengthening that goes with ApplyInv: what the calls under way have made of
\* the firewall, and that none is at it once one has returned alone.
LEMMA WalledHolds == ApplySpec => []Walled
  BY ApplyInvHolds, WalledInit, WalledStep, PTL DEF ApplySpec

\* After a call that ran alone and without a failing command, the ports the server
\* listens on are open and its range is redirected, but for what ufw mistakes
\* (singbox_service.go:107, ufw.go:176).
THEOREM PortsAreOpen == ApplySpec => []AppliedPortsAreOpen
<1>1. ASSUME ApplyInv, Walled, last # NoConfig
      PROVE  /\ \A p \in PortsOf[last] : p \in fw.rules \/ (backend = "ufw" /\ Hidden(p))
             /\ HopFor(fw, last)
  <2>1. last \in Configs /\ OpenFor(fw, last, {}) /\ HopFor(fw, last)
    BY <1>1 DEF ApplyInv, Kept, Good, Walled
  <2>2. ASSUME NEW p \in PortsOf[last] PROVE p \in fw.rules \/ (backend = "ufw" /\ Hidden(p))
    <3>1. PICK t \in Inbounds[last] : p \in PortsFor(last, t)
      BY <2>1, <2>2, InboundsAreNamed DEF PortsOf, ExtractPorts, PortsFor
    <3> QED
      BY <2>1, <3>1 DEF OpenFor, IsOpen, Hidden
  <2> QED
    BY <2>1, <2>2
<1>2. ApplyInv /\ Walled => AppliedPortsAreOpen
  BY <1>1 DEF AppliedPortsAreOpen, HopFor
<1> QED
  BY <1>2, ApplyInvHolds, WalledHolds, PTL

\* Nor is any other port of prism's open then, nor any other range redirected, under
\* the three firewalls whose rules can be flushed (singbox_service.go:115).
THEOREM NothingElse == ApplySpec => []NothingElseIsOpen
<1>1. Walled => NothingElseIsOpen
  BY DEF Walled, OpenFor, NothingElseIsOpen
<1> QED
  BY <1>1, WalledHolds, PTL

-----------------------------------------------------------------------------
(* Types.                                                                  *)

Bounded ==
  /\ control \in {"idle", "start", "stop", "restart", "await_start", "await"}
  /\ lock \in Callers \cup {"control", Free}
  /\ applies \in 0 .. MaxApplies /\ faults \in 0 .. MaxFaults /\ controls \in 0 .. MaxControls

LEMMA BoundedInit == ApplyInit => Bounded
BY ApplyConstants DEF ApplyInit, Bounded

LEMMA BoundedStep == Bounded /\ [ApplyNext]_applyVars => Bounded'
<1> SUFFICES ASSUME Bounded, [ApplyNext]_applyVars PROVE Bounded'
  OBVIOUS
<1> USE ApplyConstants
<1>1. faults' \in 0 .. MaxFaults
  <2>1. ASSUME NEW k \in Callers, CallerStep(k) \/ Expire(k) PROVE faults' = faults \/ Fault
    BY <2>1 DEF CallerStep, CheckConfig, TruncateFile, WriteFile, ValidateFile, FlushRules,
       OpenPort, OpenHysteria2PortHopping, SaveRules, Command, Reload, Restart, Expire
  <2>2. faults' = faults \/ Fault
    BY <2>1 DEF ApplyNext, applyVars, BeginApply, Control, ControlJob, StartGivesUp, JobDone,
       JobFailed, ProcessStarts, ProcessDies, Crash
  <2> QED
    BY <2>2 DEF Bounded, Fault
<1>2. applies' \in 0 .. MaxApplies
  <2>1. applies' = applies \/ (applies < MaxApplies /\ applies' = applies + 1)
    BY DEF ApplyNext, applyVars, CallerStep, BeginApply, CheckConfig, TruncateFile, WriteFile,
       ValidateFile, FlushRules, OpenPort, OpenHysteria2PortHopping, SaveRules, Command, Reload,
       Restart, Control, ControlJob, StartGivesUp, JobDone, JobFailed, ProcessStarts, ProcessDies,
       Expire, Crash, Managed
  <2> QED
    BY <2>1 DEF Bounded
<1>3. controls' \in 0 .. MaxControls
  <2>1. controls' = controls \/ (controls < MaxControls /\ controls' = controls + 1)
    BY DEF ApplyNext, applyVars, CallerStep, BeginApply, CheckConfig, TruncateFile, WriteFile,
       ValidateFile, FlushRules, OpenPort, OpenHysteria2PortHopping, SaveRules, Command, Reload,
       Restart, Control, ControlJob, StartGivesUp, JobDone, JobFailed, ProcessStarts, ProcessDies,
       Expire, Crash, Managed
  <2> QED
    BY <2>1 DEF Bounded
<1>4. control' \in {"idle", "start", "stop", "restart", "await_start", "await"}
  <2>1. ASSUME NEW op \in {"start", "stop", "restart"}, Control(op) PROVE control' = op
    BY <2>1 DEF Control
  <2>2. ControlJob => control' \in {"await_start", "await"}
    BY DEF ControlJob
  <2>3. StartGivesUp \/ JobDone \/ JobFailed \/ Crash => control' \in {control, "idle"}
    BY DEF StartGivesUp, JobDone, JobFailed, Crash
  <2>4. ASSUME NEW k \in Callers, CallerStep(k) \/ Expire(k) PROVE control' = control
    BY <2>4 DEF CallerStep, CheckConfig, TruncateFile, WriteFile, ValidateFile, FlushRules,
       OpenPort, OpenHysteria2PortHopping, SaveRules, Command, Reload, Restart, Expire, Managed
  <2>5. (\E c \in Configs : BeginApply(c)) \/ ProcessStarts \/ ProcessDies \/ UNCHANGED applyVars
          => control' = control
    BY DEF BeginApply, ProcessStarts, ProcessDies, applyVars
  <2> QED
    BY <2>1, <2>2, <2>3, <2>4, <2>5 DEF Bounded, ApplyNext
<1>5. lock' \in Callers \cup {"control", Free}
  BY DEF Bounded, ApplyNext, applyVars, CallerStep, BeginApply, CheckConfig, TruncateFile,
     WriteFile, ValidateFile, FlushRules, OpenPort, OpenHysteria2PortHopping, SaveRules, Command,
     Reload, Restart, Control, ControlJob, StartGivesUp, JobDone, JobFailed, ProcessStarts,
     ProcessDies, Expire, Crash, Managed
<1> QED
  BY <1>1, <1>2, <1>3, <1>4, <1>5 DEF Bounded

LEMMA ApplyTypes == ApplyInv /\ Walled /\ Bounded => ApplyTypeOK
<1> SUFFICES ASSUME ApplyInv, Walled, Bounded PROVE ApplyTypeOK
  OBVIOUS
<1>1. apply \in [Callers ->
        [pc : {"idle", "check", "write", "writing", "validate", "flush", "open", "hop",
               "save", "reload", "restart", "await"},
         cfg : Configs \cup {NoConfig}, todo : SUBSET InboundNames, expired : BOOLEAN,
         alone : BOOLEAN, fine : BOOLEAN]]
  BY DEF ApplyInv, Callings, CallRange, Past
<1>2. file \in Configs \cup {"none", "torn"}
  BY DEF ApplyInv, Kept, Good
<1> QED
  BY <1>1, <1>2 DEF ApplyInv, Kept, Waiting, Walled, FwRange, Bounded, ApplyTypeOK

\* Whatever calls overlap, fail or die, the state is one the code can be in; among it
\* that prism's rules are those of known configurations (singbox_service.go:43).
THEOREM ApplyTypeCorrect == ApplySpec => []ApplyTypeOK
  BY ApplyInvHolds, WalledHolds, BoundedInit, BoundedStep, ApplyTypes, PTL DEF ApplySpec

-----------------------------------------------------------------------------
(* The two parts of MCServer: one goes on, the other stays as it began.    *)

ServerInv ==
  /\ ConfigTypeOK /\ ApplyTypeOK
  /\ part = "model" => ModelInv
  /\ part = "apply" => ApplyInv /\ Walled /\ Bounded

\* The configuration that the second part starts from.
LEMMA ServedConfig ==
  ASSUME NEW ports, NEW D, D = DOMAIN ports, \A i \in D : ports[i] \in Nat
  PROVE  Serving(ports, <<>>) \in ConfigRange
<1> DEFINE c == NewConfig("u1", [i \in AllIDs |-> 20000])
           d == [c EXCEPT !.hop = <<>>]
           P == [i \in AllIDs |-> IF i \in DOMAIN ports
                                    THEN [c.proto[i] EXCEPT !.on = TRUE, !.port = ports[i]]
                                    ELSE [c.proto[i] EXCEPT !.on = FALSE]]
<1>1. c \in ConfigRange /\ c.hop = <<>>
  <2>1. [i \in AllIDs |-> 20000] \in [AllIDs -> Nat]
    OBVIOUS
  <2> QED
    BY <2>1, FirstUuid, NewConfigFacts
<1>2. Serving(ports, <<>>) = [d EXCEPT !.proto = P]
  BY DEF Serving
<1> HIDE DEF c
<1>3. d \in ConfigRange /\ d.proto = c.proto
  BY <1>1 DEF ConfigRange
<1>4. \A i \in AllIDs : P[i] \in ProtocolConfig
  <2>1. \A i \in AllIDs : c.proto[i] \in ProtocolConfig
    BY <1>1 DEF ConfigRange
  <2> TAKE i \in AllIDs
  <2>2. CASE i \in D
    BY <2>1, <2>2 DEF ProtocolConfig
  <2>3. CASE i \notin D
    BY <2>1, <2>3 DEF ProtocolConfig
  <2> QED
    BY <2>2, <2>3
<1>5. P \in [AllIDs -> ProtocolConfig]
  BY <1>4
<1> HIDE DEF d, P
<1> QED
  BY <1>2, <1>3, <1>5, ConfigProtocols DEF WithProtocols

LEMMA ServerInvInit == Init => ServerInv
<1>1. ASSUME part = "model", ConfigInit, ApplyInit PROVE ServerInv
  BY <1>1, ModelInvInit, ModelInvGives, ApplyInvInit, WalledInit, BoundedInit, ApplyTypes
  DEF ServerInv
<1>2. ASSUME part = "apply", ApplyInit, cfg = MCConfigOf["A"], certs = {}, edits = 0,
             broken = {}, single = AllIDs
      PROVE  ServerInv
  <2> DEFINE ports == [reality_vision |-> 12053, tuic |-> 2053]
  <2>1. cfg = Serving(ports, <<>>)
    BY <1>2 DEF MCConfigOf
  <2>2. DOMAIN ports = {"reality_vision", "tuic"} /\ \A i \in DOMAIN ports : ports[i] \in Nat
    OBVIOUS
  <2> HIDE DEF ports
  <2>3. cfg \in ConfigRange
    BY <2>1, <2>2, ServedConfig
  <2>4. ConfigTypeOK
    BY <1>2, <2>3 DEF ConfigTypeOK, ConfigRange
  <2> QED
    BY <1>2, <2>4, ApplyInvInit, WalledInit, BoundedInit, ApplyTypes DEF ServerInv
<1> QED
  BY <1>1, <1>2 DEF Init

LEMMA ServerInvStep == ServerInv /\ [Next]_vars => ServerInv'
<1> SUFFICES ASSUME ServerInv, [Next]_vars PROVE ServerInv'
  OBVIOUS
<1>1. UNCHANGED modelVars => (ConfigTypeOK => ConfigTypeOK') /\ (ModelInv => ModelInv')
  BY ModelInvStep DEF modelVars, ConfigTypeOK
<1>2. UNCHANGED applyVars => ApplyTypeOK'
  BY DEF ServerInv, ApplyTypeOK, applyVars
<1>3. CASE part = "model" /\ UNCHANGED part /\ ConfigNext /\ UNCHANGED applyVars
  <2>1. ModelInv'
    BY <1>3, ModelInvStep DEF ServerInv
  <2>2. ConfigTypeOK'
    BY <2>1, ModelInvGives, PTL
  <2> QED
    BY <1>2, <1>3, <2>1, <2>2 DEF ServerInv
<1>4. CASE part = "apply" /\ UNCHANGED part /\ ApplyNext /\ UNCHANGED modelVars
  <2>1. (ApplyInv /\ Walled /\ Bounded)'
    BY <1>4, ApplyInvStep, WalledStep, BoundedStep DEF ServerInv
  <2>2. ApplyTypeOK'
    BY <2>1, ApplyTypes, PTL
  <2> QED
    BY <1>1, <1>4, <2>1, <2>2 DEF ServerInv
<1>5. CASE UNCHANGED vars
  <2>1. UNCHANGED <<part, modelVars, applyVars>>
    BY <1>5 DEF vars
  <2> QED
    BY <1>1, <1>2, <2>1, ApplyInvStep, WalledStep, BoundedStep DEF ServerInv
<1> QED
  BY <1>3, <1>4, <1>5 DEF Next

\* Both parts keep to their types, from whichever configurations of the instance
\* they start (domain/config/config.go:25, singbox_service.go:43).
THEOREM ServerTypes == Spec => []ServerTypeOK
<1>1. ServerInv => ServerTypeOK
  BY DEF ServerInv, ServerTypeOK
<1> QED
  BY <1>1, ServerInvInit, ServerInvStep, PTL DEF Spec

=============================================================================
