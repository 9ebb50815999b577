------------------------------ MODULE ApplyConfig ------------------------------
(***************************************************************************)
(* How a configuration reaches the running server:                         *)
(* SingboxService.ApplyConfig and the parts it drives, config.json         *)
(* (infra/singbox/service.go), the firewall (infra/firewall) and systemd   *)
(* (infra/system/systemd.go), with the commands of the interface that      *)
(* start, stop and restart the service.                                    *)
(*                                                                         *)
(* ApplyConfig has no lock of its own.  The firewall manager and the       *)
(* systemd manager each have one: a call of the former is one action here, *)
(* the latter holds its lock while it waits for systemd's answer.  Of the  *)
(* firewall, the IPv4 rules that prism has made are kept.                  *)
(***************************************************************************)
EXTENDS SingboxConfig, FiniteSets

CONSTANTS
  Callers,      \* goroutines in ApplyConfig
  Configs,      \* configurations that are applied
  ConfigOf,     \* what they hold
  Refused,      \* those that `sing-box check' refuses
  Backends,     \* firewalls that may be found at the start
  Overlapping,  \* bound: those under which calls overlap
  MaxApplies,   \* bound: calls of ApplyConfig
  MaxFaults,    \* bound: commands that fail, deadlines, crashes
  MaxControls,  \* bound: commands that start, stop or restart the service
  MaxEvents     \* bound: both together, for each firewall

ASSUME ApplyConstants ==
  /\ Refused \subseteq Configs
  /\ {"none", "torn", "stopped", "trying"} \cap Configs = {}
  /\ Backends \subseteq {"nftables", "ufw", "firewalld", "iptables"}
  /\ Callers # {} /\ {"control", "free"} \cap Callers = {}
  /\ {MaxApplies, MaxFaults, MaxControls} \subseteq Nat
  /\ MaxEvents \in [Backends -> Nat]

VARIABLES
  apply,     \* the calls of ApplyConfig
  control,   \* the command that controls the service
  file,      \* config.json
  backend,   \* the firewall in use
  fw,        \* its rules, those that are permanent, and the ranges to hop in
  service,   \* "stopped", "trying" to start, or the configuration that runs
  job,       \* the job of systemd, and who waits for it
  lock,      \* who holds the lock of dbusManager
  applies, faults, controls,
  last,      \* the configuration of the last ApplyConfig, if it ran alone,
             \* no command of it failed and it succeeded
  erred      \* an ApplyConfig has changed something and not succeeded, and none
             \* that ran alone has succeeded since

applyVars ==
  <<apply, control, file, backend, fw, service, job, lock, applies, faults,
    controls, last, erred>>

Good == Configs \ Refused
NoConfig == "none"
Free == "free"
NoJob == [op |-> "none", by |-> Free]

InboundOrder ==
  <<"reality_vision", "reality_grpc", "hysteria2", "tuic", "anytls", "anytls_reality",
    "shadowtls", "shadowtls-ss-in">>

InboundNames == AllIDs \cup {"shadowtls-ss-in"}

Earlier(t, u) ==
  \E m, n \in DOMAIN InboundOrder : m < n /\ InboundOrder[m] = t /\ InboundOrder[n] = u

\* The inbounds of a configuration, and what updateFirewallRules opens for each.
Inbounds == [c \in Configs |-> InboundTags(ConfigOf[c])]

Openings ==
  [c \in Configs |-> [t \in Inbounds[c] |->
     [port |-> ListenPort(ConfigOf[c], t), both |-> "udp" \in Transports(t)]]]

\* Hysteria 2 may be on and not valid: its range is opened all the same.
Hopping ==
  [c \in Configs |->
     LET h == ConfigOf[c].hop IN
     IF ConfigOf[c].proto["hysteria2"].on /\ h # <<>>
       THEN <<h[1], h[2], ConfigOf[c].proto["hysteria2"].port>> ELSE <<>>]

PortsOf == [c \in Configs |-> ExtractPorts(ConfigOf[c])]
AllPorts == UNION {PortsOf[c] : c \in Configs}
AllRanges == {Hopping[c] : c \in Configs} \cup {<<Hopping[c][1], Hopping[c][2], 0>> :
                                                  c \in {d \in Configs : Hopping[d] # <<>>}}

\* "todo" are the inbounds whose ports are still to be opened.
Idle == [pc |-> "idle", cfg |-> NoConfig, todo |-> {}, expired |-> FALSE,
         alone |-> FALSE, fine |-> FALSE]

ApplyTypeOK ==
  /\ apply \in [Callers ->
       [pc : {"idle", "check", "write", "writing", "validate", "flush", "open", "hop",
              "save", "reload", "restart", "await"},
        cfg : Configs \cup {NoConfig}, todo : SUBSET InboundNames, expired : BOOLEAN,
        alone : BOOLEAN, fine : BOOLEAN]]
  /\ control \in {"idle", "start", "stop", "restart", "await_start", "await"}
  /\ file \in Configs \cup {"none", "torn"}
  /\ backend \in Backends
  /\ fw \in [rules : SUBSET AllPorts, permanent : SUBSET AllPorts, ranges : SUBSET AllRanges]
  /\ service \in Good \cup {"stopped", "trying"}
  /\ job \in [op : {"none", "start", "stop", "restart"}, by : Callers \cup {"control", Free}]
  /\ lock \in Callers \cup {"control", Free}
  /\ applies \in 0 .. MaxApplies /\ faults \in 0 .. MaxFaults /\ controls \in 0 .. MaxControls
  /\ last \in Good \cup {NoConfig}
  /\ erred \in BOOLEAN

ApplyInit ==
  /\ apply = [k \in Callers |-> Idle] /\ control = "idle"
  /\ file = "none" /\ service = "stopped"
  /\ backend \in Backends
  /\ fw = [rules |-> {}, permanent |-> {}, ranges |-> {}]
  /\ job = NoJob /\ lock = Free
  /\ applies = 0 /\ faults = 0 /\ controls = 0
  /\ last = NoConfig /\ erred = FALSE

-----------------------------------------------------------------------------
(* Helpers.                                                                *)

AllIdle == \A k \in Callers : apply[k] = Idle

At(k, l) == apply[k].pc = l

Eventful == faults + controls < MaxEvents[backend]

Fault ==
  /\ Eventful /\ faults < MaxFaults
  /\ faults' = faults + 1

Move(k, l) == apply' = [apply EXCEPT ![k].pc = l]

\* ApplyConfig returns: without an error, with one before anything is changed,
\* or with one after.
Succeed(k) ==
  /\ apply' = [apply EXCEPT ![k] = Idle]
  /\ last' = IF apply[k].alone /\ apply[k].fine THEN apply[k].cfg ELSE NoConfig
  /\ erred' = (erred /\ ~apply[k].alone)

Refuse(k) ==
  /\ apply' = [apply EXCEPT ![k] = Idle]
  /\ UNCHANGED <<last, erred>>

Err(k) ==
  /\ apply' = [apply EXCEPT ![k] = Idle]
  /\ erred' = TRUE
  /\ UNCHANGED last

Managed == <<control, service, job, lock, applies, controls>>

Else == <<file, backend, fw>>

-----------------------------------------------------------------------------
(* The configuration is generated, checked and written.                    *)

\* SaveConfigCmd, InstallPrismCmd, ResetAllConfigCmd and RestoreBackupCmd, each in
\* a goroutine; one is as good as another.
BeginApply(c) ==
  /\ AllIdle \/ (backend \in Overlapping /\ \E k \in Callers : At(k, "idle"))
  /\ applies < MaxApplies
  /\ applies' = applies + 1
  /\ LET k == CHOOSE j \in Callers : At(j, "idle") IN
       apply' = [j \in Callers |->
         IF j = k THEN [Idle EXCEPT !.pc = "check", !.cfg = c, !.alone = AllIdle, !.fine = TRUE]
                  ELSE [apply[j] EXCEPT !.alone = FALSE]]
  /\ UNCHANGED <<control, service, job, lock, controls, Else, faults, last, erred>>

\* Slip: what sing-box says of the temporary file is logged only.
CheckNothing(k) ==
  /\ At(k, "check")
  /\ \/ Move(k, "write") /\ UNCHANGED <<faults, last, erred>>
     \/ apply[k].expired /\ Refuse(k) /\ UNCHANGED faults
     \/ Fault /\ Refuse(k)
  /\ UNCHANGED <<Managed, file, backend, fw>>

\* Generate, the temporary file and `sing-box check' on it.
CheckConfig(k) ==
  /\ At(k, "check")
  /\ \/ /\ apply[k].cfg \in Good /\ ~apply[k].expired
        /\ Move(k, "write") /\ UNCHANGED <<faults, last, erred>>
     \/ /\ apply[k].cfg \in Refused \/ apply[k].expired
        /\ Refuse(k) /\ UNCHANGED faults
     \/ Fault /\ Refuse(k)
  /\ UNCHANGED <<Managed, file, backend, fw>>

\* UpdateConfig writes config.json in place: it is emptied ...
TruncateFile(k) ==
  /\ At(k, "write")
  /\ file' = "torn"
  /\ last' = NoConfig
  /\ Move(k, "writing")
  /\ UNCHANGED <<Managed, backend, fw, faults, erred>>

\* ... and written; over what another call has written since, the end of the
\* longer may remain.
WriteFile(k) ==
  /\ At(k, "writing")
  /\ \/ /\ file' \in {apply[k].cfg} \cup (IF file = "torn" THEN {} ELSE {"torn"})
        /\ Move(k, "validate") /\ UNCHANGED <<faults, last, erred>>
     \/ Fault /\ Err(k) /\ UNCHANGED file
  /\ UNCHANGED <<Managed, backend, fw>>

\* validateConfigSafe reads whatever the file now holds.  It has no deadline.
\* (It is skipped without a binary, which CheckConfig has just run.)
ValidateFile(k) ==
  /\ At(k, "validate")
  /\ \/ file \in Good /\ Move(k, "flush") /\ UNCHANGED <<faults, last, erred>>
     \/ file \notin Good /\ Err(k) /\ UNCHANGED faults
     \/ Fault /\ Err(k)
  /\ UNCHANGED <<Managed, file, backend, fw>>

-----------------------------------------------------------------------------
(* The firewall.  Errors are logged only; after the deadline no command is *)
(* run.                                                                    *)

\* A call of the manager that leaves f if all goes well, one of P otherwise.
Command(k, l, todo, f, P) ==
  /\ \/ /\ ~apply[k].expired
        /\ fw' = f
        /\ apply' = [apply EXCEPT ![k].pc = l, ![k].todo = todo]
        /\ UNCHANGED faults
     \/ /\ ~apply[k].expired /\ Fault
        /\ fw' \in P
        /\ apply' = [apply EXCEPT ![k].pc = l, ![k].todo = todo, ![k].fine = FALSE]
     \/ /\ apply[k].expired
        /\ apply' = [apply EXCEPT ![k].pc = l, ![k].todo = todo, ![k].fine = FALSE]
        /\ UNCHANGED <<fw, faults>>
  /\ UNCHANGED <<Managed, file, backend, last, erred>>

\* ufw finds a rule in the text of its status, so that "12053/tcp" hides
\* "2053/tcp".
HiddenBy(p, q) == p[2] = q[2] /\ (p = q \/ (p[1] < 10000 /\ q[1] % 10000 = p[1]))

Hidden(p) == \E q \in fw.rules : HiddenBy(p, q)

\* openSinglePort of the four managers.
Allow(f, p) ==
  CASE backend = "ufw" ->
         [f EXCEPT !.rules = IF \E q \in @ : HiddenBy(p, q) THEN @ ELSE @ \cup {p}]
    [] backend = "firewalld" ->
         IF p \in f.rules THEN f
         ELSE [f EXCEPT !.rules = @ \cup {p}, !.permanent = @ \cup {p}]
    [] OTHER -> [f EXCEPT !.rules = @ \cup {p}]

\* Slip: of "both", UDP is left out.
AllowTCP(f, o) == Allow(f, <<o.port, "tcp">>)

AllowBoth(f, o) ==
  LET g == Allow(f, <<o.port, "tcp">>) IN
  IF o.both THEN Allow(g, <<o.port, "udp">>) ELSE g

\* What a failed OpenPort leaves: with firewalld, the last rule may be there at run
\* time only.
AllowPart(f, o) ==
  LET tcp == Allow(f, <<o.port, "tcp">>)
      AtRunTime(g, h) == [h EXCEPT !.permanent = g.permanent] IN
  {f, tcp} \cup (IF backend = "firewalld"
                   THEN {AtRunTime(f, tcp), AtRunTime(tcp, AllowBoth(f, o))} ELSE {})

\* firewalld reloads: what is permanent stays, and nothing else.
Reloaded(f) == [f EXCEPT !.rules = f.permanent]

\* The rules that are marked as prism's are removed, and their ranges, ...
Cleared(f) == [f EXCEPT !.rules = {}, !.ranges = {}]

\* ... one after the other, where one that cannot be removed is passed over.
ClearedPart(f) == [rules : SUBSET f.rules, permanent : {f.permanent}, ranges : SUBSET f.ranges]

\* A range is accepted, and then redirected, which may fail after the first.
Redirected(f, r) == [f EXCEPT !.ranges = @ \cup {r}]
RedirectedPart(f, r) == {f, Redirected(f, <<r[1], r[2], 0>>)}

\* Slip: the rules stay.
FlushNothing(k) ==
  /\ At(k, "flush")
  /\ Command(k, "open", Inbounds[apply[k].cfg], fw, {fw})

\* FlushRules: firewalld reloads, the others remove what is marked.
FlushRules(k) ==
  /\ At(k, "flush")
  /\ IF backend = "firewalld"
       THEN Command(k, "open", Inbounds[apply[k].cfg], Reloaded(fw), {fw})
       ELSE Command(k, "open", Inbounds[apply[k].cfg], Cleared(fw), ClearedPart(fw))

\* OpenPort, for one inbound after the other, in their order.
OpenPort(k) ==
  /\ At(k, "open")
  /\ LET todo == apply[k].todo
         Of(t) == Openings[apply[k].cfg][t] IN
     \/ \E t \in todo :
          /\ \A u \in todo \ {t} : Earlier(t, u)
          /\ Command(k, "open", todo \ {t}, AllowBoth(fw, Of(t)), AllowPart(fw, Of(t)))
     \/ /\ todo = {}
        /\ Command(k, "hop", {}, fw, {})

\* OpenHysteria2PortHopping: nftables and iptables accept the range and redirect
\* it, the others refuse.
OpenHysteria2PortHopping(k) ==
  /\ At(k, "hop")
  /\ LET r == Hopping[apply[k].cfg] IN
     IF r # <<>> /\ backend \in {"nftables", "iptables"}
       THEN Command(k, "save", {}, Redirected(fw, r), RedirectedPart(fw, r))
       ELSE Command(k, "save", {}, fw, {})

\* SaveRules: firewalld reloads once more, the others write a file that is read
\* when the machine starts.
SaveRules(k) ==
  /\ At(k, "save")
  /\ Command(k, "reload", {}, IF backend = "firewalld" THEN Reloaded(fw) ELSE fw, {fw})

-----------------------------------------------------------------------------
(* The service.                                                            *)

\* Slip: a reload that systemd refuses is taken for one that it has done.
ReloadUnheeded(k) ==
  /\ At(k, "reload")
  /\ lock = Free
  /\ Succeed(k)
  /\ UNCHANGED <<Managed, Else, faults>>

\* Reload: the unit has no ExecReload (service_installer.go), systemd refuses.
Reload(k) ==
  /\ At(k, "reload")
  /\ lock = Free
  /\ Move(k, "restart")
  /\ UNCHANGED <<Managed, Else, faults, last, erred>>

\* Slip: the lock is kept when systemd is not reached.
RestartForgettingUnlock(k) ==
  /\ At(k, "restart")
  /\ lock = Free
  /\ lock' = k
  /\ \/ ~apply[k].expired /\ job' = [op |-> "restart", by |-> k]
        /\ Move(k, "await") /\ UNCHANGED <<last, erred>>
     \/ apply[k].expired /\ Err(k) /\ UNCHANGED job
  /\ UNCHANGED <<Else, applies, control, service, controls, faults>>

\* Restart asks for a job, which replaces one that is still there; after the
\* deadline it does not get that far.
Restart(k) ==
  /\ At(k, "restart")
  /\ lock = Free
  /\ \/ /\ ~apply[k].expired
        /\ job' = [op |-> "restart", by |-> k] /\ lock' = k
        /\ Move(k, "await") /\ UNCHANGED <<last, erred>>
     \/ apply[k].expired /\ Err(k) /\ UNCHANGED <<job, lock>>
  /\ UNCHANGED <<Else, applies, control, service, controls, faults>>

\* ServiceControlCmd.
Control(op) ==
  /\ control = "idle" /\ Eventful /\ controls < MaxControls
  /\ control' = op /\ controls' = controls + 1
  /\ UNCHANGED <<Else, applies, apply, service, job, lock, faults, last, erred>>

ControlJob ==
  /\ control \in {"start", "stop", "restart"}
  /\ lock = Free /\ lock' = "control"
  /\ job' = [op |-> control, by |-> "control"]
  /\ control' = IF control = "start" THEN "await_start" ELSE "await"
  /\ UNCHANGED <<Else, applies, apply, service, controls, faults, last, erred>>

\* Only Start gives up at its deadline; the job goes on.
StartGivesUp ==
  /\ control = "await_start"
  /\ control' = "idle" /\ lock' = Free
  /\ job' = [job EXCEPT !.by = Free]
  /\ UNCHANGED <<Else, applies, apply, service, controls, faults, last, erred>>

\* systemd has done the job and answers whoever waits, who then unlocks.
JobDone ==
  /\ job # NoJob /\ job' = NoJob
  /\ service' = CASE job.op = "stop" -> "stopped"
                  [] job.op = "start" /\ service # "stopped" -> service
                  [] OTHER -> "trying"
  /\ lock' = IF job.by = Free THEN lock ELSE Free
  /\ control' = IF job.by = "control" THEN "idle" ELSE control
  /\ IF job.by \in Callers THEN Succeed(job.by) ELSE UNCHANGED <<apply, last, erred>>
  /\ UNCHANGED <<Else, applies, controls, faults>>

\* The job fails, or is cancelled from outside.
JobFailed ==
  /\ job # NoJob /\ job' = NoJob
  /\ Fault
  /\ service' \in {service, "stopped"}
  /\ lock' = IF job.by = Free THEN lock ELSE Free
  /\ control' = IF job.by = "control" THEN "idle" ELSE control
  /\ IF job.by \in Callers THEN Err(job.by) ELSE UNCHANGED <<apply, last, erred>>
  /\ UNCHANGED <<Else, applies, controls>>

\* The process starts if it can read the file; if not it is started again.
ProcessStarts ==
  /\ service = "trying" /\ file \in Good
  /\ service' = file
  /\ UNCHANGED <<Else, applies, apply, control, job, lock, controls, faults, last, erred>>

\* Restart=on-failure.
ProcessDies ==
  /\ service \in Good /\ Fault
  /\ service' = "trying"
  /\ UNCHANGED <<Else, applies, apply, control, job, lock, controls, last, erred>>

-----------------------------------------------------------------------------
\* The deadline of one of the calls passes.
Expire(k) ==
  /\ ~At(k, "idle") /\ ~apply[k].expired
  /\ Fault
  /\ apply' = [apply EXCEPT ![k].expired = TRUE]
  /\ UNCHANGED <<Managed, Else, last, erred>>

\* prism dies, or is left; systemd goes on.
Crash ==
  /\ ~AllIdle \/ control # "idle"
  /\ Fault
  /\ apply' = [k \in Callers |-> Idle] /\ control' = "idle"
  /\ lock' = Free /\ job' = [job EXCEPT !.by = Free]
  /\ erred' = (erred \/ \E k \in Callers : ~At(k, "idle") /\ ~At(k, "check"))
  /\ UNCHANGED <<Else, applies, service, controls, last>>

CallerStep(k) ==
  \/ CheckConfig(k) \/ TruncateFile(k) \/ WriteFile(k) \/ ValidateFile(k)
  \/ FlushRules(k) \/ OpenPort(k) \/ OpenHysteria2PortHopping(k) \/ SaveRules(k)
  \/ Reload(k) \/ Restart(k)

ApplyNext ==
  \/ \E c \in Configs : BeginApply(c)
  \/ \E k \in Callers : CallerStep(k) \/ Expire(k)
  \/ \E op \in {"start", "stop", "restart"} : Control(op)
  \/ ControlJob \/ StartGivesUp
  \/ JobDone \/ JobFailed \/ ProcessStarts \/ ProcessDies
  \/ Crash

\* Goroutines are scheduled, the lock is handed to whoever waits for it (a
\* mutex that has starved its waiters passes it on in turn), systemd answers.
ApplyFairness ==
  /\ \A k \in Callers : SF_applyVars(CallerStep(k))
  /\ WF_applyVars(JobDone)

ApplySpec == ApplyInit /\ [][ApplyNext]_applyVars /\ ApplyFairness

-----------------------------------------------------------------------------
(* Properties.                                                             *)

\* However calls have overlapped: once all have returned and none with an error,
\* the server runs the whole configuration that config.json holds, or is about
\* to, unless the user has stopped it (singbox_service.go:43).
SuccessMeansRunning ==
  AllIdle /\ ~erred /\ file # "none" =>
    /\ file \in Good
    /\ service \in {file, "trying", "stopped"}
    /\ service = "stopped" => controls > 0 \/ faults > 0

\* A configuration that sing-box refuses never takes the place of another, and
\* the server and the file stay those of the last success, whatever is refused
\* or dies since (singbox_service.go:43).
LastIsKept ==
  /\ file \notin Refused
  /\ last # NoConfig => file = last /\ service \in {last, "trying", "stopped"}

\* After a call that ran alone and none of whose commands failed, the ports that
\* the server listens on are open, and the range is redirected where that can be
\* done; ufw leaves out those whose rule it takes for another's (ufw.go:176).
AppliedPortsAreOpen ==
  last # NoConfig =>
    /\ \A p \in PortsOf[last] : p \in fw.rules \/ (backend = "ufw" /\ Hidden(p))
    /\ backend \in {"nftables", "iptables"} /\ Hopping[last] # <<>> => Hopping[last] \in fw.ranges

\* Nor are any other ports of prism's: those of former configurations are
\* closed.  firewalld keeps them, for they are permanent (firewalld.go:145).
NothingElseIsOpen ==
  last # NoConfig /\ backend # "firewalld" =>
    /\ fw.rules \subseteq PortsOf[last]
    /\ fw.ranges \subseteq {Hopping[last]}

\* Every call returns, if systemd answers, also when others hold the lock, pass
\* their deadline or die.
ApplyEnds == \A k \in Callers : (~At(k, "idle")) ~> At(k, "idle")

=============================================================================
