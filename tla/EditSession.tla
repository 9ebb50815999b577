----------------------------- MODULE EditSession -----------------------------
(***************************************************************************)
(* Editing the configuration in the terminal interface: the views in which *)
(* it is edited (tui/handlers/key_handler.go), the commands their keys     *)
(* start (tui/handlers/command_builder.go), the messages with which the    *)
(* commands answer (tui/model/router.go) and the state they share          *)
(* (tui/state/config_state.go).                                            *)
(*                                                                         *)
(* Keys and messages are handled one at a time by Router.Update.  A        *)
(* command is a goroutine: it runs beside Update and the other commands,   *)
(* and its message is handled some time after it ends, in any order with   *)
(* the other messages.  Commands share the Config that ConfigState.Config  *)
(* points to: some copy it, some change it in place, some keep the pointer *)
(* across a write to the disk, so configurations are objects here, with an *)
(* identity.  ConfigService is atomic (module ConfigStore).                *)
(*                                                                         *)
(* A configuration is the set of edits it contains; the default is {}.     *)
(***************************************************************************)
EXTENDS Naturals, FiniteSets

CONSTANTS
  FieldEdits,   \* changes of SNI, UUID, padding and protocols: made by Update
  PortEdits,    \* changes of ports: made by a command on a copy
  RouteEdits,   \* changes of routing and outbound: made by a command in place
  CertEdits,    \* changes of a certificate mode: made by a command on disk
  LogEdits,     \* changes of the log level: on disk and in place
  CredEdits,    \* credentials for a DNS provider: made by a request on disk
  SwitchEdits,  \* protocols switched to a certificate by its request, on disk
  InstallEdits, \* protocols chosen in the installation wizard
  NoEdit,
  Objs,         \* addresses of configurations in memory
  NoObj,
  Slots,        \* bound: commands running at a time
  FaultKinds,   \* the operations that may fail, once each
  MaxFailed,    \* bound: operations that fail
  Sessions,     \* the sets of menus a user may visit in one session
  Patient       \* the user waits for all commands before the next key

AllEdits == FieldEdits \cup PortEdits \cup RouteEdits \cup CertEdits \cup LogEdits
            \cup CredEdits \cup SwitchEdits \cup InstallEdits
Behind == CredEdits \cup SwitchEdits  \* the file has them before the memory
Menus == {"config", "route", "cert", "log", "backup", "install"}
Views == {"main", "field", "ports", "progress", "core"} \cup Menus

ASSUME SessionConstants ==
  /\ NoEdit \notin AllEdits
  /\ NoObj \notin Objs
  /\ FaultKinds \subseteq {"load", "invalid", "save", "apply", "restore", "reload", "obtain"}
  /\ Sessions \subseteq SUBSET Menus
  /\ MaxFailed \in Nat
  /\ Patient \in BOOLEAN
  /\ Slots # {}

\* There is memory for one more configuration.
ASSUME ObjsSuffice ==
  /\ Objs # {}
  /\ \A held \in [Slots -> Objs \cup {NoObj}], p \in Objs :
       \E o \in Objs : o # p /\ \A s \in Slots : held[s] # o

VARIABLES
  \* ConfigState, PortState and UIState
  heap,         \* the configurations in memory
  ptr,          \* ConfigState.Config
  unsaved,      \* HasUnsavedChanges
  confirm,      \* ConfirmMode
  exitConfirm,  \* ExitConfirmMode
  portMode,     \* PortEditingMode
  view,         \* CurrentView
  chosen,       \* InstallProtocols, as the edit they amount to
  finished,     \* IsFinished of the installation
  \* outside the interface
  disk,         \* config.yaml
  backup,       \* a backup of it
  json,         \* config.json
  running,      \* what sing-box has read of it
  cmd,          \* the commands under way
  \* history
  visits,       \* the menus this session visits
  failed,       \* the operations that have failed
  made,         \* the edits the user has made
  dropped,      \* the edits the user, or a refusal, has given up
  overwritten,  \* edits in the file that a save from behind it has removed
  answered      \* the edits the user has last asked to save

memVars == <<heap, ptr>>
modes   == <<unsaved, confirm, exitConfirm, portMode>>
screen  == <<view, chosen, finished>>
wizard  == <<chosen, finished>>
outVars == <<disk, backup, json, running>>
past    == <<visits, made, dropped, overwritten, answered>>
history == <<past, failed>>
vars == <<memVars, modes, screen, outVars, cmd, history>>

Kinds == {"none", "load", "port", "reset", "route", "save", "cert", "log", "uuid",
          "restart", "dns", "backup", "restore", "core", "install"}
Places == {"idle", "start", "got", "stored", "restored", "unread", "saved", "generated",
           "applied", "done", "failed"}

TypeOK ==
  /\ heap \in [Objs -> SUBSET AllEdits]
  /\ ptr \in Objs
  /\ {unsaved, confirm, exitConfirm, portMode} \subseteq BOOLEAN
  /\ view \in Views /\ chosen \subseteq AllEdits /\ finished \in BOOLEAN
  /\ {disk, backup, json, running} \subseteq SUBSET AllEdits
  /\ cmd \in [Slots -> [kind : Kinds, at : Places, obj : Objs \cup {NoObj},
                        edit : AllEdits \cup {NoEdit}, cfg : SUBSET AllEdits]]
  /\ visits \in Sessions
  /\ failed \subseteq FaultKinds
  /\ {made, dropped, overwritten, answered} \subseteq SUBSET AllEdits

Idle == [kind |-> "none", at |-> "idle", obj |-> NoObj, edit |-> NoEdit, cfg |-> {}]

Command(k, e) == [Idle EXCEPT !.kind = k, !.at = "start", !.edit = e]

\* InitModel loads the configuration that the start of the program has saved;
\* there is a backup of it.
Init ==
  /\ ptr = CHOOSE o \in Objs : TRUE
  /\ heap = [o \in Objs |-> {}]
  /\ unsaved = FALSE /\ confirm = FALSE /\ exitConfirm = FALSE /\ portMode = FALSE
  /\ view = "main" /\ chosen = {} /\ finished = FALSE
  /\ disk = {} /\ backup = {} /\ json = {} /\ running = {}
  /\ cmd = [s \in Slots |-> IF s = CHOOSE t \in Slots : TRUE
                              THEN Command("load", NoEdit) ELSE Idle]
  /\ visits \in Sessions
  /\ failed = {} /\ made = {} /\ dropped = {} /\ overwritten = {} /\ answered = {}

-----------------------------------------------------------------------------
(* Helpers.                                                                *)

\* The configuration the interface shows and edits.
Mem == heap[ptr]

AtRest == \A s \in Slots : cmd[s] = Idle

FreeSlots == {s \in Slots : cmd[s] = Idle}

\* The user presses a key.
Key == Patient => AtRest

\* One slot is as good as another.
FreeSlot == CHOOSE s \in FreeSlots : TRUE

Start(k, e) == FreeSlots # {} /\ cmd' = [cmd EXCEPT ![FreeSlot] = Command(k, e)]

\* A new configuration is allocated where nothing points.
Held == {cmd[s].obj : s \in Slots}
NewObj == CHOOSE o \in Objs : o # ptr /\ o \notin Held

\* ConfigState.UpdateConfig ends every question but that of a port.
Forget == confirm' = FALSE /\ exitConfirm' = FALSE

\* UpdateConfig with a new configuration, and with one that is in memory; what
\* nothing points to any more is garbage.
Install(c) ==
  /\ ptr' = NewObj
  /\ heap' = [o \in Objs |-> IF o = NewObj THEN c
                             ELSE IF o \in Held THEN heap[o] ELSE {}]
  /\ Forget

PointTo(o) == ptr' = o /\ Forget /\ UNCHANGED heap

EditMem(o, e) == heap' = [heap EXCEPT ![o] = @ \cup {e}]

Fail(k) ==
  /\ k \in FaultKinds \ failed
  /\ Cardinality(failed) < MaxFailed
  /\ failed' = failed \cup {k}

-----------------------------------------------------------------------------
(* Keys: moving between views.                                             *)

OpenMenu(v) ==
  /\ Key /\ view = "main" /\ v \in visits
  /\ view' = v
  /\ UNCHANGED <<memVars, modes, wizard, outVars, cmd, history>>

\* In the configuration menu, with no question open.
OpenPage(v) ==
  /\ Key /\ view = "config" /\ ~exitConfirm /\ ~confirm
  /\ view' = v
  /\ UNCHANGED <<memVars, modes, wizard, outVars, cmd, history>>

Parent == IF view \in {"field", "ports"} THEN "config" ELSE "main"

\* Slip: the configuration menu is left like any other.
EscapeUnasked ==
  /\ Key /\ view \notin {"main", "progress"}
  /\ view' = Parent /\ portMode' = FALSE
  /\ UNCHANGED <<memVars, unsaved, confirm, exitConfirm, wizard, outVars, cmd, history>>

\* Esc closes an open question, or asks about unsaved changes, or goes back.
\* The page of a running installation takes no key.
Escape ==
  /\ Key /\ view # "progress"
  /\ \/ /\ exitConfirm
        /\ exitConfirm' = FALSE
        /\ UNCHANGED <<confirm, portMode, view>>
     \/ /\ ~exitConfirm /\ confirm
        /\ confirm' = FALSE
        /\ UNCHANGED <<exitConfirm, portMode, view>>
     \/ /\ ~exitConfirm /\ ~confirm
        /\ portMode' = FALSE
        /\ \/ /\ view = "config" /\ unsaved
              /\ exitConfirm' = TRUE
              /\ UNCHANGED view
           \/ /\ view # "main" /\ ~(view = "config" /\ unsaved)
              /\ view' = Parent
              /\ UNCHANGED exitConfirm
        /\ UNCHANGED confirm
  /\ UNCHANGED <<memVars, unsaved, wizard, outVars, cmd, history>>

\* Enter, when the installation has ended.
LeaveProgress ==
  /\ Key /\ view = "progress" /\ finished
  /\ view' = "main"
  /\ UNCHANGED <<memVars, modes, wizard, outVars, cmd, history>>

-----------------------------------------------------------------------------
(* Keys: edits.  Every edit is made at most once.                          *)

\* SNI, UUID, padding and protocols are changed in place, by Update itself.
FieldEdit(e) ==
  /\ Key /\ view = "field" /\ e \in FieldEdits \ made
  /\ EditMem(ptr, e)
  /\ unsaved' = TRUE
  /\ made' = made \cup {e}
  /\ UNCHANGED <<ptr, confirm, exitConfirm, portMode, screen, outVars, cmd,
                 visits, failed, dropped, overwritten, answered>>

\* A new UUID comes from a command.
GenerateUUID(e) ==
  /\ Key /\ view = "field" /\ e \in FieldEdits \ made
  /\ Start("uuid", e)
  /\ made' = made \cup {e}
  /\ UNCHANGED <<memVars, modes, screen, outVars,
                 visits, failed, dropped, overwritten, answered>>

\* A port is chosen, and then its number entered.
SelectPort ==
  /\ Key /\ view = "ports" /\ ~portMode /\ ~confirm
  /\ portMode' = TRUE
  /\ UNCHANGED <<memVars, unsaved, confirm, exitConfirm, screen, outVars, cmd, history>>

SubmitPort(e) ==
  /\ Key /\ view = "ports" /\ portMode /\ e \in PortEdits \ made
  /\ portMode' = FALSE
  /\ unsaved' = TRUE
  /\ Start("port", e)
  /\ made' = made \cup {e}
  /\ UNCHANGED <<memVars, confirm, exitConfirm, screen, outVars,
                 visits, failed, dropped, overwritten, answered>>

\* "r" in the port page and in the configuration menu opens one question.
AskReset ==
  /\ Key /\ ~confirm
  /\ \/ view = "ports" /\ ~portMode
     \/ view = "config" /\ ~exitConfirm
  /\ confirm' = TRUE
  /\ UNCHANGED <<memVars, unsaved, exitConfirm, portMode, screen, outVars, cmd, history>>

RefuseReset ==
  /\ Key /\ confirm /\ ~exitConfirm /\ ~portMode /\ view \in {"ports", "config"}
  /\ confirm' = FALSE
  /\ UNCHANGED <<memVars, unsaved, exitConfirm, portMode, screen, outVars, cmd, history>>

\* "y" in the port page draws new ports; the flag is left to the answer.
ResetPorts(e) ==
  /\ Key /\ view = "ports" /\ confirm /\ ~portMode /\ e \in PortEdits \ made
  /\ confirm' = FALSE
  /\ Start("reset", e)
  /\ made' = made \cup {e}
  /\ UNCHANGED <<memVars, unsaved, exitConfirm, portMode, screen, outVars,
                 visits, failed, dropped, overwritten, answered>>

\* "YES" in the configuration menu installs the default configuration.
ResetAll ==
  /\ Key /\ view = "config" /\ confirm /\ ~exitConfirm
  /\ Install({})
  /\ unsaved' = TRUE
  /\ dropped' = dropped \cup made
  /\ UNCHANGED <<portMode, screen, outVars, cmd,
                 visits, failed, made, overwritten, answered>>

\* Routing, outbound strategy, certificate mode, log level, certificate by DNS.
StartEdit(v, k, e) ==
  /\ Key /\ view = v /\ e \notin made
  /\ Start(k, e)
  /\ made' = made \cup {e}
  /\ UNCHANGED <<memVars, modes, screen, outVars,
                 visits, failed, dropped, overwritten, answered>>

RouteEdit(e) == e \in RouteEdits /\ StartEdit("route", "route", e)
CertEdit(e) == e \in CertEdits /\ StartEdit("cert", "cert", e)
LogEdit(e) == e \in LogEdits /\ StartEdit("log", "log", e)
RequestDNS(e) == e \in CredEdits /\ StartEdit("cert", "dns", e)

\* The wizard puts the chosen protocols into the configuration in memory, does
\* not mark it, and starts the installation by drawing ports.
SubmitInstallWizard(f, e) ==
  /\ Key /\ view = "install" /\ f \in InstallEdits \ made /\ e \in PortEdits \ made
  /\ EditMem(ptr, f)
  /\ chosen' = {f} /\ finished' = FALSE
  /\ view' = "progress"
  /\ Start("reset", e)
  /\ made' = made \cup {e, f}
  /\ UNCHANGED <<ptr, modes, outVars, visits, failed, dropped, overwritten, answered>>

-----------------------------------------------------------------------------
(* Keys: the answer to "apply the changes and restart?"; backups.          *)

\* "Y": SaveConfigCmd and RestartServiceCmd start together.
AnswerYes ==
  /\ Key /\ view = "config" /\ exitConfirm
  /\ exitConfirm' = FALSE /\ unsaved' = FALSE
  /\ view' = "main"
  /\ FreeSlots # {}
  /\ \E t \in FreeSlots \ {FreeSlot} :
       cmd' = [cmd EXCEPT ![FreeSlot] = Command("save", NoEdit),
                          ![t] = Command("restart", NoEdit)]
  /\ answered' = Mem
  /\ UNCHANGED <<memVars, confirm, portMode, wizard, outVars,
                 visits, failed, made, dropped, overwritten>>

\* "N": the file is loaded again.
AnswerNo ==
  /\ Key /\ view = "config" /\ exitConfirm
  /\ exitConfirm' = FALSE /\ unsaved' = FALSE
  /\ view' = "main"
  /\ Start("load", NoEdit)
  /\ dropped' = dropped \cup (made \ disk)
  /\ UNCHANGED <<memVars, confirm, portMode, wizard, outVars,
                 visits, failed, made, overwritten, answered>>

\* Anything else: the user goes on editing.
AnswerOther ==
  /\ Key /\ view = "config" /\ exitConfirm
  /\ exitConfirm' = FALSE
  /\ UNCHANGED <<memVars, unsaved, confirm, portMode, screen, outVars, cmd, history>>

RestartKey ==
  /\ Key /\ view = "main"
  /\ Start("restart", NoEdit)
  /\ UNCHANGED <<memVars, modes, screen, outVars, history>>

BackupKey ==
  /\ Key /\ view = "backup"
  /\ Start("backup", NoEdit)
  /\ UNCHANGED <<memVars, modes, screen, outVars, history>>

\* A restore, confirmed, asks for what is in the backup and for nothing else.
RestoreKey ==
  /\ Key /\ view = "backup"
  /\ Start("restore", NoEdit)
  /\ answered' = {}
  /\ UNCHANGED <<memVars, modes, screen, outVars,
                 visits, failed, made, dropped, overwritten>>

-----------------------------------------------------------------------------
(* The steps of a command.                                                 *)

At(s, k, l) == cmd[s].kind = k /\ cmd[s].at = l

Move(s, l) == cmd' = [cmd EXCEPT ![s].at = l]

\* LoadConfigCmd: GetConfig returns a configuration of its own.
LoadConfig(s) ==
  /\ At(s, "load", "start")
  /\ \/ cmd' = [cmd EXCEPT ![s].at = "done", ![s].cfg = disk] /\ UNCHANGED failed
     \/ Fail("load") /\ Move(s, "failed")
  /\ UNCHANGED <<memVars, modes, screen, outVars, past>>

\* The commands that edit take the pointer of the interface when they run.
GetConfig(s) ==
  /\ cmd[s].kind \in {"port", "reset", "route", "save", "log"} /\ cmd[s].at = "start"
  /\ cmd' = [cmd EXCEPT ![s].at = "got", ![s].obj = ptr]
  /\ UNCHANGED <<memVars, modes, screen, outVars, history>>

\* PortService changes a copy of it, or refuses the number that was entered.
ChangePort(s) ==
  /\ cmd[s].kind \in {"port", "reset"} /\ cmd[s].at = "got"
  /\ \/ /\ cmd' = [cmd EXCEPT ![s].at = "done", ![s].obj = NoObj,
                              ![s].cfg = heap[cmd[s].obj] \cup {cmd[s].edit}]
        /\ UNCHANGED <<failed, dropped>>
     \/ /\ cmd[s].kind = "port" /\ Fail("invalid")
        /\ cmd' = [cmd EXCEPT ![s].at = "failed", ![s].obj = NoObj]
        /\ dropped' = dropped \cup {cmd[s].edit}
  /\ UNCHANGED <<memVars, modes, screen, outVars, visits, made, overwritten, answered>>

\* The routing commands change it where it is, or refuse what was entered.
ChangeRoute(s) ==
  /\ At(s, "route", "got")
  /\ \/ EditMem(cmd[s].obj, cmd[s].edit) /\ Move(s, "done") /\ UNCHANGED <<failed, dropped>>
     \/ /\ Fail("invalid") /\ Move(s, "failed") /\ UNCHANGED heap
        /\ dropped' = dropped \cup {cmd[s].edit}
  /\ UNCHANGED <<ptr, modes, screen, outVars, visits, made, overwritten, answered>>

\* Slip: the file's configuration is kept, not the interface's.
SaveNothing(s) ==
  /\ At(s, "save", "got")
  /\ Move(s, "saved")
  /\ UNCHANGED <<memVars, modes, screen, outVars, history>>

\* SaveConfigCmd replaces the whole file with it, and with that what the
\* certificate requests have put there since it was loaded ...
SaveConfig(s) ==
  /\ At(s, "save", "got")
  /\ \/ /\ disk' = heap[cmd[s].obj] /\ Move(s, "saved") /\ UNCHANGED failed
        /\ overwritten' = overwritten \cup ((disk \ heap[cmd[s].obj]) \cap Behind)
     \/ Fail("save") /\ Move(s, "failed") /\ UNCHANGED <<disk, overwritten>>
  /\ UNCHANGED <<memVars, modes, screen, backup, json, running,
                 visits, made, dropped, answered>>

\* ... and ApplyConfig generates config.json from what it has become, checks it ...
GenerateConfig(s) ==
  /\ At(s, "save", "saved")
  /\ \/ /\ cmd' = [cmd EXCEPT ![s].at = "generated", ![s].cfg = heap[cmd[s].obj]]
        /\ UNCHANGED failed
     \/ Fail("apply") /\ Move(s, "failed")
  /\ UNCHANGED <<memVars, modes, screen, outVars, past>>

\* Slip: the service is not told.
ApplyUnread(s, good, bad, c) ==
  /\ json' = cmd[s].cfg
  /\ cmd' = [cmd EXCEPT ![s].at = good, ![s].cfg = c]
  /\ UNCHANGED <<memVars, modes, screen, disk, backup, running, history>>

\* ... writes it, and has sing-box read it, or fails before or after the write.
Apply(s, good, bad, c) ==
  /\ \/ /\ json' = cmd[s].cfg /\ running' = cmd[s].cfg
        /\ cmd' = [cmd EXCEPT ![s].at = good, ![s].cfg = c]
        /\ UNCHANGED failed
     \/ /\ json' \in {json, cmd[s].cfg} /\ Fail("apply")
        /\ cmd' = [cmd EXCEPT ![s].at = bad, ![s].cfg = c]
        /\ UNCHANGED running
  /\ UNCHANGED <<memVars, modes, screen, disk, backup, past>>

\* A restore takes no notice of the error.
ApplyConfig(s) ==
  \/ At(s, "save", "generated") /\ Apply(s, "done", "failed", {})
  \/ At(s, "install", "generated") /\ Apply(s, "applied", "failed", {})
  \/ At(s, "restore", "generated") /\ Apply(s, "done", "done", cmd[s].cfg)

\* ToggleCertModeCmd changes the file.
ToggleCertMode(s) ==
  /\ At(s, "cert", "start")
  /\ \/ disk' = disk \cup {cmd[s].edit} /\ Move(s, "done") /\ UNCHANGED <<failed, dropped>>
     \/ /\ Fail("save") /\ Move(s, "failed") /\ UNCHANGED disk
        /\ dropped' = dropped \cup {cmd[s].edit}
  /\ UNCHANGED <<memVars, modes, screen, backup, json, running,
                 visits, made, overwritten, answered>>

\* ChangeLogLevelCmd changes the configuration of the interface and the file
\* in one modifier, and leaves the former changed when the file is not saved.
ChangeLogLevel(s) ==
  /\ At(s, "log", "got")
  /\ EditMem(cmd[s].obj, cmd[s].edit)
  /\ \/ disk' = disk \cup {cmd[s].edit} /\ Move(s, "saved") /\ UNCHANGED failed
     \/ Fail("save") /\ Move(s, "failed") /\ UNCHANGED disk
  /\ UNCHANGED <<ptr, modes, screen, backup, json, running, past>>

\* RequestACMEDNS puts the credentials into the file ...
StoreCredentials(s) ==
  /\ At(s, "dns", "start")
  /\ \/ disk' = disk \cup {cmd[s].edit} /\ Move(s, "stored") /\ UNCHANGED <<failed, dropped>>
     \/ /\ Fail("save") /\ Move(s, "failed") /\ UNCHANGED disk
        /\ dropped' = dropped \cup {cmd[s].edit}
  /\ UNCHANGED <<memVars, modes, screen, backup, json, running,
                 visits, made, overwritten, answered>>

\* ... asks for the certificate, and switches the protocols whose SNI it is for,
\* in the file again; there may be none.
ObtainCertificate(s) ==
  /\ At(s, "dns", "stored")
  /\ \/ /\ \/ UNCHANGED <<disk, made>>
           \/ \E f \in SwitchEdits \ made : disk' = disk \cup {f} /\ made' = made \cup {f}
        /\ Move(s, "done") /\ UNCHANGED failed
     \/ /\ \E k \in {"obtain", "save"} : Fail(k)
        /\ Move(s, "failed") /\ UNCHANGED <<disk, made>>
  /\ UNCHANGED <<memVars, modes, screen, backup, json, running,
                 visits, dropped, overwritten, answered>>

TakeBackup(s) ==
  /\ At(s, "backup", "start")
  /\ backup' = disk
  /\ Move(s, "done")
  /\ UNCHANGED <<memVars, modes, screen, disk, json, running, history>>

\* RestoreBackupCmd replaces the file ...
RestoreFile(s) ==
  /\ At(s, "restore", "start")
  /\ \/ /\ disk' = backup /\ Move(s, "restored") /\ UNCHANGED failed
        /\ dropped' = dropped \cup (disk \ backup)
     \/ Fail("restore") /\ Move(s, "failed") /\ UNCHANGED <<disk, dropped>>
  /\ UNCHANGED <<memVars, modes, screen, backup, json, running,
                 visits, made, overwritten, answered>>

\* ... and loads it; so does InstallPrismCmd, after its save.
LoadSaved(s) ==
  /\ \/ /\ At(s, "restore", "restored") \/ At(s, "install", "saved")
        /\ cmd' = [cmd EXCEPT ![s].at = "generated", ![s].cfg = disk] /\ UNCHANGED failed
     \/ At(s, "restore", "restored") /\ Fail("reload") /\ Move(s, "unread")
  /\ UNCHANGED <<memVars, modes, screen, outVars, past>>

\* The core is downloaded.
InstallCore(s) ==
  /\ At(s, "core", "start")
  /\ \/ Move(s, "done") /\ UNCHANGED failed
     \/ Fail("obtain") /\ Move(s, "failed")
  /\ UNCHANGED <<memVars, modes, screen, outVars, past>>

\* InstallPrismCmd enables the chosen protocols in the file.
InstallPrism(s) ==
  /\ At(s, "install", "start")
  /\ \/ chosen # {} /\ disk' = disk \cup chosen /\ Move(s, "saved") /\ UNCHANGED failed
     \/ Fail("save") /\ Move(s, "failed") /\ UNCHANGED disk
     \/ chosen = {} /\ Move(s, "failed") /\ UNCHANGED <<disk, failed>>
  /\ UNCHANGED <<memVars, modes, screen, backup, json, running, past>>

\* sing-box starts again and reads config.json as it is.
Restart(s) ==
  /\ At(s, "restart", "start") \/ At(s, "log", "saved") \/ At(s, "install", "applied")
  /\ running' = json
  /\ Move(s, "done")
  /\ UNCHANGED <<memVars, modes, screen, disk, backup, json, history>>

MakeUUID(s) ==
  /\ At(s, "uuid", "start")
  /\ Move(s, "done")
  /\ UNCHANGED <<memVars, modes, screen, outVars, history>>

-----------------------------------------------------------------------------
(* The messages of the commands.                                           *)

End(s) == cmd' = [cmd EXCEPT ![s] = Idle]

Follow(s, k) == cmd' = [cmd EXCEPT ![s] = Command(k, NoEdit)]

\* ConfigLoadedMsg: the loaded configuration, or the default one, replaces
\* what was edited; the flag stays.
ConfigLoaded(s) ==
  /\ cmd[s].kind = "load"
  /\ \/ cmd[s].at = "done" /\ Install(cmd[s].cfg)
     \/ cmd[s].at = "failed" /\ Install({})
  /\ End(s)
  /\ UNCHANGED <<unsaved, portMode, screen, outVars, history>>

\* What a ConfigUpdateMsg that is not applied brings into memory.
Updated(s) ==
  \/ cmd[s].kind \in {"port", "reset"} /\ cmd[s].at = "done" /\ Install(cmd[s].cfg)
  \/ At(s, "route", "done") /\ PointTo(cmd[s].obj)

\* Any ConfigUpdateMsg without an error carries a running installation on.
Continue(s) == IF view = "progress" THEN Follow(s, "core") ELSE End(s)

\* Slip: a change is not marked as unsaved when its command answers.
ConfigUpdatedUnmarked(s) ==
  /\ Updated(s)
  /\ Continue(s)
  /\ UNCHANGED <<unsaved, portMode, screen, outVars, history>>

\* Slip: the copy of a port command is taken for a pointer it still holds.
ConfigUpdatedByPointer(s) ==
  /\ \/ cmd[s].kind \in {"port", "reset"} /\ cmd[s].at = "done"
     \/ At(s, "route", "done")
  /\ PointTo(cmd[s].obj)
  /\ unsaved' = TRUE
  /\ Continue(s)
  /\ UNCHANGED <<portMode, screen, outVars, history>>

\* ConfigUpdateMsg, not applied: from the port and the routing commands.
ConfigUpdated(s) ==
  /\ Updated(s)
  /\ unsaved' = TRUE
  /\ Continue(s)
  /\ UNCHANGED <<portMode, screen, outVars, history>>

\* ConfigUpdateMsg, applied: the file is loaded again.
Reload(s) == Follow(s, IF view = "progress" THEN "core" ELSE "load")

ConfigApplied(s) ==
  /\ At(s, "save", "done") \/ At(s, "log", "done")
  /\ PointTo(cmd[s].obj)
  /\ unsaved' = FALSE
  /\ Reload(s)
  /\ UNCHANGED <<portMode, screen, outVars, history>>

\* That of a restore brings the restored configuration, if it could be loaded.
BackupRestored(s) ==
  /\ \/ At(s, "restore", "done") /\ Install(cmd[s].cfg) /\ unsaved' = FALSE
     \/ At(s, "restore", "unread") /\ UNCHANGED <<memVars, unsaved, confirm, exitConfirm>>
  /\ Reload(s)
  /\ UNCHANGED <<portMode, screen, outVars, history>>

\* Messages that only set the status line, but for the end of an installation:
\* the errors of ConfigUpdateMsg, failed CommandResultMsg, CertRequestMsg and
\* BackupRestoreMsg, BackupCreateMsg, ServiceResultMsg.
StatusOnly(s) ==
  /\ \/ cmd[s].at = "failed" /\ cmd[s].kind \in
          {"port", "reset", "route", "save", "log", "cert", "dns", "restore"}
     \/ At(s, "restart", "done") \/ At(s, "backup", "done")
  /\ finished' = (finished \/ /\ view = "progress" /\ cmd[s].at = "failed"
                              /\ cmd[s].kind \in {"port", "reset", "route", "save", "log"})
  /\ End(s)
  /\ UNCHANGED <<memVars, modes, view, chosen, outVars, history>>

\* CommandResultMsg of the switch of a certificate mode.
CertModeSwitched(s) ==
  /\ At(s, "cert", "done")
  /\ Follow(s, "load")
  /\ UNCHANGED <<memVars, modes, screen, outVars, history>>

\* CertRequestMsg: the memory is left behind the file.
CertRequested(s) ==
  /\ At(s, "dns", "done")
  /\ view' = "cert"
  /\ End(s)
  /\ UNCHANGED <<memVars, modes, wizard, outVars, history>>

\* CoreInstallMsg: on to the second part of the installation, if it is shown.
CoreInstalled(s) ==
  /\ \/ At(s, "core", "done") /\ view = "progress"
        /\ Follow(s, "install") /\ UNCHANGED <<view, finished>>
     \/ At(s, "core", "done") /\ view # "progress"
        /\ view' = "core" /\ End(s) /\ UNCHANGED finished
     \/ At(s, "core", "failed")
        /\ finished' = (finished \/ view = "progress") /\ End(s) /\ UNCHANGED view
  /\ UNCHANGED <<memVars, modes, chosen, outVars, history>>

\* InstallResultMsg.
InstallEnded(s) ==
  /\ cmd[s].kind = "install" /\ cmd[s].at \in {"done", "failed"}
  /\ finished' = TRUE
  /\ End(s)
  /\ UNCHANGED <<memVars, modes, view, chosen, outVars, history>>

\* UUIDGeneratedMsg.
UUIDGenerated(s) ==
  /\ At(s, "uuid", "done")
  /\ EditMem(ptr, cmd[s].edit)
  /\ unsaved' = TRUE
  /\ End(s)
  /\ UNCHANGED <<ptr, confirm, exitConfirm, portMode, screen, outVars, history>>

-----------------------------------------------------------------------------
Press ==
  \/ \E v \in Menus : OpenMenu(v)
  \/ \E v \in {"field", "ports"} : OpenPage(v)
  \/ Escape \/ LeaveProgress
  \/ \E e \in AllEdits :
       \/ FieldEdit(e) \/ GenerateUUID(e) \/ SubmitPort(e) \/ ResetPorts(e)
       \/ RouteEdit(e) \/ CertEdit(e) \/ LogEdit(e) \/ RequestDNS(e)
       \/ \E f \in AllEdits : SubmitInstallWizard(f, e)
  \/ SelectPort \/ AskReset \/ RefuseReset \/ ResetAll
  \/ AnswerYes \/ AnswerNo \/ AnswerOther
  \/ RestartKey \/ BackupKey \/ RestoreKey

Run(s) ==
  \/ LoadConfig(s) \/ GetConfig(s) \/ ChangePort(s) \/ ChangeRoute(s)
  \/ SaveConfig(s) \/ GenerateConfig(s) \/ ApplyConfig(s)
  \/ ToggleCertMode(s) \/ ChangeLogLevel(s) \/ StoreCredentials(s) \/ ObtainCertificate(s)
  \/ TakeBackup(s) \/ RestoreFile(s) \/ LoadSaved(s)
  \/ InstallCore(s) \/ InstallPrism(s) \/ Restart(s) \/ MakeUUID(s)

Update(s) ==
  \/ ConfigLoaded(s) \/ ConfigUpdated(s) \/ ConfigApplied(s) \/ BackupRestored(s)
  \/ StatusOnly(s) \/ CertModeSwitched(s) \/ CertRequested(s)
  \/ CoreInstalled(s) \/ InstallEnded(s) \/ UUIDGenerated(s)

Next == Press \/ \E s \in Slots : Run(s) \/ Update(s)

Spec == Init /\ [][Next]_vars

(* The scheduler runs every command, and Update handles every message.  No   *)
(* key need ever be pressed.                                                 *)
Fairness == \A s \in Slots : WF_vars(Run(s) \/ Update(s))

FairSpec == Spec /\ Fairness

-----------------------------------------------------------------------------
(* Properties.                                                             *)

\* When no command is under way and HasUnsavedChanges is not set, the
\* interface shows what is in the file (config_state.go:11): leaving the
\* configuration menu without a question loses nothing (key_handler.go:1813).
FlagIsHonest == AtRest /\ ~unsaved => Mem = disk

\* When no command is under way, an edit the user made is in the interface or
\* in the file, unless the user answered N, reset or restored the configuration,
\* or the edit was refused.
KeptUntilDecided == AtRest => made \subseteq Mem \cup disk \cup dropped

\* What is in the file is what sing-box runs, but for the log level, the modes
\* of certificates and the credentials, which wait for the next ApplyConfig.
Later == CertEdits \cup LogEdits \cup Behind

RunningIsSaved ==
  AtRest /\ failed \cap {"apply", "reload"} = {} => running \ Later = disk \ Later

\* The first two hold for users who wait, and who do not visit both a menu that
\* leaves unsaved changes behind and one that reloads the file, while the file
\* can be read and written, but for what a request for a certificate has written:
\* that is in the file only, until the next load, and a save before it removes it.
Calm ==
  /\ Patient
  /\ failed \cap {"load", "save"} = {}
  /\ visits \cap {"route", "install"} # {} => visits \cap {"cert", "log", "backup"} = {}

Close == Mem \subseteq disk /\ disk \ Mem \subseteq Behind

FlagIsHonestWhenCalm == Calm /\ AtRest /\ ~unsaved => Close
KeptWhenCalm == Calm /\ AtRest => made \subseteq Mem \cup disk \cup dropped \cup overwritten

\* What is shown when the user answers Y reaches the file, all of it at once, if
\* nothing fails (key_handler.go:370, the status line says so).
AnswersAreSaved == answered # {} ~> answered \subseteq disk \/ failed # {}

=============================================================================
