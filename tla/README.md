# A model of Prism

Prism is a terminal program that configures and runs a sing-box server: one
process, a Bubble Tea interface in `internal/tui`, a handful of services in
`internal/application` and their file, systemd, firewall and ACME backends in
`internal/infra`.  What it must get right is small and awkward: one
configuration exists in several places at once (the file `config.yaml`, the
repository's cache, the object the interface edits, `config.json`, what
sing-box has read, and backups), every menu command is a goroutine, and every
step can fail.

These modules model most of what it decides in TLA+, check it with TLC and prove
the larger part of its safety with TLAPS.

- [Parts of the system](#parts-of-the-system)
- [The modules](#the-modules) and how they correspond to the code
- [The runs](#the-runs): what each shows, its bounds
- [Fairness](#fairness)
- [What is proved](#what-is-proved)
- [What the runs found](#what-the-runs-found)
- [What is only model-checked, and what is left out](#what-is-only-model-checked)
- [What could come next](#what-could-come-next)

All paths below are relative to `src/`.

## Parts of the system

| part | state it keeps | operations | what makes it correct |
|---|---|---|---|
| configuration repository (`internal/infra/config/repository.go`) | `config.yaml`, a cached copy with a modification time, the locks `mu` and `fileMu` | Load, Save | a load returns the last save, or an older value only to a caller that began before it; a failed save changes nothing; nobody waits for ever |
| configuration service (`internal/application/config_service.go`) | the lock `s.mu` | GetConfig, UpdateConfig, LoadWithMigration, SaveWithDefaults | each call is atomic; no acknowledged update is lost |
| start (`cmd/prism/setup.go`, `main.go`) | none | load, write back, build the services; `-cron` | the start loses nothing |
| configuration model (`internal/domain/config`) | a value | DeepCopy, Validate, defaults, migration, field encryption | migration is idempotent and keeps what it can |
| interface, editing (`internal/tui/handlers`, `internal/tui/model/router.go`, `internal/tui/state`) | the shared `*Config`, `HasUnsavedChanges`, the open question, the view | keys, commands, messages | an edit is kept until the user gives it up; the flag says whether there are any |
| apply (`internal/application/singbox_service.go`, `internal/infra/singbox/service.go`) | `config.json`, the firewall rules, what sing-box runs | GenerateConfig, ApplyConfig | what runs is what was saved, also when a step fails or two calls overlap |
| backups (`internal/infra/backup/manager.go`) | `*.enc`, `*.sha256`, `.last-hash`, the list the page shows | Backup, List, Restore, Delete, retention | a backup reported as made can be restored; retention removes the oldest only; a restore takes the backup the user named |
| encryption (`internal/pkg/crypto`) | a key file | Encrypt, Decrypt, HMAC | a torn or foreign file is refused |
| systemd (`internal/infra/system`) | a mutex, unit files | start, stop, restart, reload, install | a call that waits for a job does not block the others for ever |
| firewall (`internal/infra/firewall`) | the rules of four backends | OpenPort, FlushRules, hopping, SaveRules | the open ports are those of the configuration |
| ports, protocols, migration (`port_service.go`, `protocol_service.go`, `domain/config`) | the configuration | change, draw, reset, enable, migrate | ports are in range and parted; what is enabled is served |
| generation of `config.json` and client output (`internal/domain/singbox`, `domain/protocol`, `internal/pkg`) | none | pure functions | every tag is there; what clients are told is what is served |
| pages (`key_handler.go`, `router.go`, `tui/state`) | the page, questions, flags | Enter, Esc, answers | an answer is for the question that is shown; Esc leads home |
| installation wizard (`key_handler.go`, `command_builder.go`, `router.go`) | the page, what was chosen | a chain of commands and messages | one chain at a time, and an end to it |
| certificates (`cert_service.go`, `internal/infra/acme`, `certinfo`, `pkg/cert`) | certificates, keys, metadata | request, renew, delete, make | certificate and key belong together; nothing expires unheeded |
| uninstallation | options of the page | removal of files, exit timer | it leaves what was to be kept, and nothing else |
| tools | swap, sysctl, kernels, fail2ban | chains of calls of system programs | the machine starts again as it was left |
| logs, nodes, system information, rendering, input validation | pages | single commands | - |

**How they interact.**  `Router.Update` handles one key or message at a time.
A key may change state itself or return a command; Bubble Tea runs each command
in a goroutine of its own, and its result comes back as a message, in any order
with other messages.  Commands call the services, which call the repository,
the firewall, systemd and so on; they also read, and some of them write,
`ConfigState.Config` - the object the interface itself is editing - without a
lock.  A restore, and a second process started by cron, write `config.yaml`
without going through the running repository.

**What is hard.**  The lock order of Load and Save; a cache validated by a
coarse time stamp; saves of what was read some steps ago; edits in memory that
a message from the disk replaces; answers in another order than the questions;
questions that name one thing and act on another; files that are written in
several steps with crashes between them; retention that runs beside other
commands; applies that overlap; locks held while systemd is waited for; several
descriptions of one server that must agree.  `PROJECT.json` lists each of these
as a hazard at its line, with the properties that cover it.

## The modules

| module | models |
|---|---|
| `ConfigStore` | repository, configuration service, start of the program, and the two kinds of outside writers |
| `AtomicConfig` | what the configuration service promises: each call takes effect at one instant |
| `ConfigStoreProofs` | theorems about `ConfigStore`, among them that it implements `AtomicConfig` |
| `EditSession` | editing, saving, discarding, resetting and reloading the configuration in the interface |
| `Backup` | the backup directory, its manager, and the page of the interface |
| `SingboxConfig` | what is made of a configuration: `config.json`, the ports to open, links, the page of parameters, the files for clients (operators only) |
| `ConfigModel` | the configuration and everything that edits it, with defaults and migration |
| `ApplyConfig` | how a configuration reaches the running server: `config.json`, firewall, systemd |
| `Pages` | the pages of the interface, their questions, Enter, Esc, and the answers of commands; the chain of the installation |
| `Certificates` | the files of certificates, requested, renewed and deleted by the interface and by the daily renewal |
| `Uninstall`, `Tools` | the removal; the tools that change the machine |
| `EditSessionProofs`, `BackupProofs`, `ConfigModelProofs`, `ApplyConfigProofs`, `PagesProofs`, `CertificatesProofs` | theorems about the module each is named after; `ApplyConfigProofs` has those about `MCServer` too |
| `InterfaceProofs` | theorems about `Uninstall`, `Tools` and `MCInterface` |
| `MCConfigStore`, `MCEditSession`, `MCBackup` | instances of `ConfigStore`, `EditSession` and `Backup` for TLC |
| `MCServer`, `MCInterface` | instances of `ConfigModel` and `ApplyConfig`; of `Pages`, `Certificates`, `Uninstall` and `Tools` |

The state machines meet at narrow seams.  `EditSession` and `Backup` use the
service as one atomic step, which is what `ConfigStore` is proved to provide
(`ServiceIsLinearizable`).  The restore that `Backup` models step by step is one
of `ConfigStore`'s outsiders.  `ConfigModel` says what an edit does to the
configuration, `ConfigStore` and `EditSession` when it is made, saved or lost,
`SingboxConfig` what is made of it, and `ApplyConfig`, whose ports and ranges are
those that `SingboxConfig` gives, how that gets to the server.  `Pages` has the
way through the interface that the others leave open.

Two modules, `MCServer` and `MCInterface`, are unions: a behaviour belongs to one
of their parts, which `part` says from its first state.  The parts share no
variables, and are joined only to be checked in one run.

### ConfigStore

A configuration is the set of edits it contains: that is all that lost, stale
and dirty updates can be told apart by.  `FillDefaults` adds no edit; a
modifier adds one.  `status` distinguishes a file that is absent, readable, or
not parseable; `mtime`, `lastMod` and `now` keep the coarse clock of the file
system, so that two saves in one tick look alike to the cache.

`pc` says where a goroutine is:

| `pc` | in the code |
|---|---|
| `svc` | waiting for `s.mu` |
| `fast` | before the RLock section of Load (one step: `LoadFast`) |
| `slow`, `read` | between RUnlock and Lock (`LoadRecheck`); holding `r.mu`, before `r.fileMu` and the read (`LoadRead`) |
| `loaded`, `loadErr` | Load has returned |
| `save`, `rename`, `cache` | Save before its lock (`SaveTemp`), before the rename (`SaveRename`), before `r.mu` and the cache (`SaveCache`) |
| `saved`, `saveErr` | Save has returned |

A step is what lies between two points at which a goroutine can wait or be
overtaken.  Each I/O call may fail while `MaxFaults` allows.  `Crash` forgets
memory and locks and keeps the files.  `acked`, `floor` and `versions` are
history: the updates that were acknowledged, those acknowledged when a call
began, and everything the file has held.

### AtomicConfig

One `store`, and calls with a beginning, one instant of effect and an end.
`ConfigStore` implements it under the mapping at its end: `store` is `Visible`
(what a Load can see: between the rename of a Save and its update of the cache
this is still the old configuration, because the Save holds `fileMu`), an
update takes effect when it replaces the cache, a load when it returns.

### EditSession

Configurations are objects with an identity (`heap`, `ptr`), because the
commands differ in exactly that: a port change answers with a copy, a routing
change edits the shared object in place and answers with the pointer, a save
keeps the pointer across its write to the disk and applies what the object has
become by then.  `cmd` holds the commands under way, with their place; a place
`done` or `failed` is a message that `Update` has not handled yet.  The views
`field`, `ports`, `config`, `route`, `cert` and `log` stand for groups of pages
whose keys behave alike (the `map` of `PROJECT.json` gives the lines of each).

What writes `config.yaml` is there from wherever it is started: a save, the log
level, the switch of a certificate mode, a certificate request over DNS (it stores
the credentials, and then the modes of the protocols it is for, and its answer
loads nothing: `Behind` are the edits that the memory lacks until the next load), a
restore, and the installation, which enables protocols in memory without marking
them, draws ports, and enables the protocols in the file.  With the
write back at a start these are all that call `UpdateConfig` or replace the file: a
request over HTTP, a renewal and the deletion of a certificate write no
configuration.  Simplifications: there
is one backup, which exists from the start; a restore that answers from a stale
cache is in `Backup` only; the download of the core is one step, and the second
load of the installation, whose error the code ignores, succeeds.

### Backup

A ciphertext is its content and a nonce, a checksum is the ciphertext it was
computed from; `Torn` is a file that no key opens.  `order` is the directory
by age, `lastHash` the third file.  Every access of `Manager` to the directory
is a step of its own, because it has no lock and the commands that call it are
goroutines.  `question` joins `SelectingIndex`, `ConfirmMode`, `PendingOp`, the
cursor and the name the status line shows.  Retention lists the directory once
(`ListSurplus`) and removes a file per step (`Prune`), so that other commands may
list, add and remove between; of its two rules only the number of files is there,
since the program sets no age (`setup.go:49`).  A restore replaces the file
(`ReplaceTarget`), loads it (`LoadRestored`: it may fail, or be answered by the
cache, which holds `known`, when the times agree) and applies what it was given
(`ApplyRestored`), in three steps; elsewhere in the interface a save replaces the file
(`EditConfig`) and applies what it saved (`ApplyEdited`).  `raced` remembers that one
of them replaced the file while another was between its load, or its save, and its
apply: whoever applies last then decides what runs.  Two simplifications: the
removal of a backup and of its checksum is one step (`Unlink`), and one save is under
way at a time.

### SingboxConfig and ConfigModel

Compared are the type of a protocol (`Spoken`), the obfuscation of Hysteria 2
(`Obfs`), ports, names, secrets, certificates and tags.  Left out is what else two
places could disagree on: a user name, the ALPN, flow and padding, and a password
that a protocol has for itself.  `FromConfig`
follows the factory and each protocol, and says what its validation leaves out
(`Served`); `InboundTags`, `Outbounds`, `DNSServers` and `RouteTargets` are the
tags that `config.json` has and refers to, for either kind of core; `ProtocolLinks`, `NodeParams`, `ClientOutbounds` and
`ClashProxies` are what four pieces of code tell a client of one server, and
`Reaches` compares one of them with the inbound.  The actions of `ConfigModel`
are the edits: a reset with a draw for each port, one port, the range of Hysteria
2, names, UUID, protocols, certificate modes, routing, and the migration.
`ConfigInit` is the default configuration, or a file of version 1 with what the
migration is there to repair: no UUID, a name that is none, and ports that are
out of range (`broken` remembers which).  `single` are the protocols whose port
was chosen for itself since the last reset.  The obfuscation is set in the file
only; no edit touches it (`Obfuscations`).  The default draws ports up to 65535
(`config.go:562`), a reset below 60000 (`port_service.go:76`), which `ResetAllPorts`
asks of its draw.

### ApplyConfig

`apply[k].pc` is where a call is: it checks in a temporary file, writes
`config.json` in place (emptied, then filled), checks what the file now holds,
flushes and opens the firewall call by call, and reloads - which systemd refuses,
since the unit has no ExecReload - and so restarts.  systemd answers a
job when it likes (`JobDone`); whoever asked holds `dbusManager`'s lock until
then, whatever its context says, and `job.by` outlives a caller that died.
Each of the four firewalls treats a rule that is there already, a flush, a
permanent rule and a port that it could open for one transport only in its own way, as
its file has it (`FlushRules`, `Allow`, `AllowPart`, `SaveRules`).
`last` and `erred` are history: what the last call that ran alone and without a
failure was given, and whether something has gone wrong since.

### Pages

Enter chooses an entry or answers a question, Esc is as in `handleInputEscape`.
Typing is part of the Enter that ends it.  `pending` are the questions of all
pages: the code keeps them in a state per page, so that one may be open on a page
that is not shown.  `flight` counts the commands whose answer does more than show
something; an answer may arrive on every page.  `left`, `taken` and `alone` are
history.

### Certificates

A file is absent, torn or whole; a certificate names its key and the days it has
left.  Interface goroutines exclude each other by `acme.Service.mu` where the
code holds it (GetClient, and the DNS request; not the HTTP request), the daily
renewal is another process and excludes nobody.  A day passes only when nobody is
at work.  `missed` counts the days on which a certificate that was due met with a
renewal that failed or did not run: nothing in the program sees to it that cron
runs `--cron`.

### Uninstall and Tools

`Uninstall` has one action per step of `UninstallPrismCmd`, for any number of
removals, with the entries of the base directory removed in the order in which
`os.ReadDir` lists them; `promised` is what no removal so far was to take.
`Tools` has one action per call of a system program, and a restart of the machine
between any two; `upset` names the tools that a failed call, or two commands at
once, may have left in pieces, and the property is about the others.  `fstab` are
the swap spaces that `/etc/fstab` lists, `byUUID` those it lists by UUID or label:
DeleteSwap looks for the name that `/proc/swaps` gives, and a sed that finds no such
line succeeds (`SedTakes`).  The pattern is not anchored; that it may take the line
of a device with a longer name is left out.

## The runs

| run | module | expects | shows |
|---|---|---|---|
| `StoreSafety` | MCConfigStore | pass | loads, saves, updates, migrations, crashes and failed saves of three goroutines: the cache is coherent, no acknowledged update is lost, loads are current, failed saves change nothing, and the service implements `AtomicConfig` |
| `StoreOutsiders` | MCConfigStore | pass | with restores and a cron start beside the program, and reads that fail: no load returns what was never in the file |
| `StoreLiveness` | MCConfigStore | pass | without GetConfig, locks are never waited for in a circle and every call returns |
| `StoreDeadlock` | MCConfigStore | violation | with GetConfig, `CallsReturn` fails |
| `StoreBoot` | MCConfigStore | violation | a start after one failed read loses acknowledged updates |
| `EditCalm` | MCEditSession | pass | for a user who waits, in sessions that keep unsaved routing edits and reloads apart: the unsaved flag is honest, edits are kept, what runs is what is saved, and Y leads to the file; what a certificate request has written to the file is excepted |
| `EditSaveFails` | MCEditSession | violation | a failed save leaves edits that no flag marks |
| `EditLogLevel` | MCEditSession | violation | a log level change discards unsaved routing edits |
| `BackupSafety` | MCBackup | pass | creations, restores, deletions and retention, two at a time, with a failure or a crash: what is reported as made is kept, retention keeps the newest and no more than it should, restores take whole files, the page is current |
| `BackupStale` | Backup | violation | restore and delete act on another backup than the one named |
| `ServerSafety` | MCServer | pass | after every series of three edits, the migration of an old file among them: what is enabled is served, clients reach it by what they are told, every tag is there, ports are parted - each with the exceptions the property names; and applies, also two at once, with failures, deadlines, crashes and commands to the service: what runs is what success promised, the last success is kept, ports are open and no others are, and every apply returns |
| `InterfaceSafety` | MCInterface | pass | questions are answered on their pages, Esc leads to the main menu, the installation is one chain; certificate and key match and nothing expires unheeded; a removal leaves what it should; the machine starts as it was |

**Bounds.**  `StoreSafety` has three goroutines (one holds each lock of the
circle and one arrives), two edits (one to lose, one that overwrites it), two
times (a save in the same tick and one in a later), one fault and one crash.
The theorems below hold without these bounds.  `StoreOutsiders` allows two
outside writes, since a single one can only be overwritten and two can also
overwrite each other.  The instance of `StoreLiveness` has no crash, which
would end calls instead of letting them return.

`EditCalm` has one edit of each kind, which is made at most once, two commands
at a time (an answer Y starts two) and four objects: the one shown, one for
each command and a new one.  `Sessions` are the sets of menus one session
visits.  A session with both would hold unsaved routing edits when something reloads the
file, which is what `EditLogLevel` is about.  `BackupSafety` has two contents, three seconds and three backups with
`MaxFiles = 2` (so that retention acts and two backups can meet in one second),
two commands at a time, one fault of any kind, and one key pressed while a
command is under way; contents are only compared and any
free slot is as good as another, so both are symmetric in `MCBackup`, whose view
joins the states that differ in which access has failed, when no property and no
later step can tell (with one failure at most, none fails after it).  With `MaxFiles = 1`, two such keys and crashes as the only
fault (6.6 million states) two backups overlap so that the retention of one removes
the other: this is why `AcknowledgedIsKept` excepts it (`gone`).

`ServerSafety` types one port that is too small, one that is the detour's, one
that is a port of the other configurations and one that is too large, and draws
seven ports that differ or seven that agree; three edits suffice to switch, rename
and move one protocol against another.  Its applies are of two configurations
that share a port, one of them with a range, and of one that sing-box refuses;
two calls, one failure and one command to the service each, with one event in all
where calls overlap.  Calls overlap under one firewall only (`Overlapping`):
under the others two calls differ from that in the firewall alone, which is under
one lock, and each meets failures there by itself.

`InterfaceSafety` has two commands in flight on the pages and one question open
at a time (`MaxAsked`), on the page that is shown or on another; two domains, two goroutines and the
daily renewal, a life of two days with one day of threshold, two operations and
two failures; one removal with one failure and one foreign write; three tools,
two at a time, with one failed call or restart.  Larger instances were checked
once and are too slow for every day: four tools with two failures (2.1 million
states), three certificate operations (2.6 million), two open questions
(3.3 million), two removals at once (3.4 million).

Deadlock is checked where the system has no reason to stop: in `EditSession`
a key can always be pressed, in `BackupSafety` the configuration can always be
edited.  The cfgs that switch the check off say why, or check one property
whose counterexample is the point.

## Fairness

- `ConfigStore`: strong fairness of each goroutine's steps.  The Go scheduler
  runs every runnable goroutine, and a `sync.Mutex` hands itself to a waiter
  that has waited for a millisecond (starvation mode), so a goroutine that
  finds its lock free again and again gets it.  Calls, crashes and outside
  writes are never required.
- `EditSession`: weak fairness of each command and of the handling of its
  message.  No key need ever be pressed; every liveness property is about what
  follows a key that was.
- `ApplyConfig`: strong fairness of each caller's steps, for the same reasons as
  in `ConfigStore`: the callers queue for one `sync.Mutex` that others may take
  again and again.  Weak fairness of `JobDone`: systemd answers every job, with
  success, failure or a time-out of its own (`TimeoutStartSec`).  `ApplyEnds`
  does not hold without it, since the code waits for the answer without a
  deadline (`systemd.go:105`).
- The other modules: none; their properties are safety and action properties.

## What is proved

TLAPS checks these for every value of the constants: any goroutines, edits,
configurations, ports, domains, and any number of ticks, faults and crashes:

| theorem | of | assumes |
|---|---|---|
| `TypeCorrect` | `TypeOK` | - |
| `ServiceCallsCannotDeadlock` | `NoCircularWait` | no GetConfig |
| `NoReadIsDirty` | `NoDirtyRead` | - |
| `NoUpdateIsLost` | `NoLostUpdate` | `Quiet` |
| `CacheIsCoherent` | `CacheCoherent` | `Quiet` |
| `LoadsAreCurrent` | `ReadsAreCurrent` | `Quiet` |
| `FailedSavesChangeNothing` | `FailedSaveKeepsFile` | `Quiet` |
| `ServiceIsLinearizable` | `Linearizable` | `Quiet` |
| `SessionTypeCorrect` | `TypeOK` of `EditSession` | - |
| `TheSavedRuns` | `RunningIsSaved` | `Patient` |
| `AClearFlagIsHonest` | `FlagIsHonestWhenCalm` | - |
| `EditsAreKept` | `KeptWhenCalm` | - |
| `RestoresAreWhole` | `RestoresWholeBackups` | - |
| `TheRestoredRuns` | `RestoredIsRunning` | - |
| `TheOneAskedIsTaken` | `ActsOnTheOneAskedWhenCalm` | - |
| `BackupTypeCorrect` | `TypeOK` of `Backup` | - |
| `WhatIsAcknowledgedIsKept` | `AcknowledgedIsKept` | - |
| `NoMoreThanMaxFilesStay` | `RetentionHolds` | - |
| `TheNewestAreKept` | `RetentionKeepsTheNewest` | - |
| `ThePageIsCurrent` | `ListIsCurrent` | - |
| `ConfigTypeCorrect` | `ConfigTypeOK` | - |
| `PortsArePartedByReset` | `OnlySinglePortsClash` | - |
| `EnabledStaysServed` | `EnabledIsServed` | - |
| `TagsStayThere` | `EveryTagIsThere` | - |
| `ClientsStayInReach` | `ClientsReachTheServer` | - |
| `TheLastIsKept` | `LastIsKept` | - |
| `SuccessIsRunning` | `SuccessMeansRunning` | - |
| `PortsAreOpen` | `AppliedPortsAreOpen` | - |
| `NothingElse` | `NothingElseIsOpen` | - |
| `ApplyTypeCorrect` | `ApplyTypeOK` | - |
| `ServerTypes` | `ServerTypeOK` of `MCServer` | - |
| `PagesTypeCorrect` | `PagesTypeOK` | - |
| `QuestionsAreFresh` | `FreshQuestions` | - |
| `InstallationGoesOn` | `InstallationIsOne` | - |
| `EscapeLeadsOut` | `EscapeDescends` | - |
| `CertTypeCorrect` | `CertTypeOK` | - |
| `NothingExpiresUnheeded` | `RenewedInTime` | - |
| `PairsStayTogether` | `PairsMatch` | - |
| `RemovalLeavesWhatWasChosen` | `LeavesWhatWasChosen` | - |
| `StartsAsItIs` | `MachineStartsAsItIs` | - |
| `InterfaceTypes` | `InterfaceTypeOK` of `MCInterface` | - |

`Quiet` says that nobody else writes the file and that a file that is there can
be read: temporary files, renames and the stat after a rename may fail.  It is
needed: `StoreBoot` is what happens without it.  `Patient` says that the user waits
for a command before pressing the next key; the two theorems below it in the
table have that condition inside the property (`Calm`), with what a certificate request
has written to the file as the one exception.  Besides these, only what
each module says of its constants is assumed (`ConstantsOK`, `SessionConstants`,
`BackupConstants`, `ConfigConstants`, `ApplyConstants`, `CertConstants`,
`UninstallConstants`, and `ObjsSuffice`, which says that memory for one more
configuration can always be had), which the runs evaluate.  `CertConstants` asks
for finitely many domains and tasks: `Keys` has one key more than their files and
workers can hold, so that one can always be drawn.

*The argument for the store.*  None of these properties is inductive.  `LockInv` reads off
the program counters who holds which lock, and says that at most one goroutine
is between `s.mu.Lock()` and its return and that the start runs alone; it is
inductive by itself and gives the first two theorems.  `StoreInv` adds, under
`Quiet`, three groups of facts: about the file and its time stamps (the cache's
time never exceeds the file's, which never exceeds that of a temporary file
about to be renamed: this is what makes a coarse clock harmless), about the
calls under way (the holder of `s.mu` has loaded what is still in the file, so
its save is that plus its edit), and about the cache (one that is not outdated
holds `Visible`).  `StoreStep` shows it inductive, one step per action.
The last part of the module then shows that each step maps to a step of `AtomicConfig`
or leaves its variables alone.  `NoReadIsDirty` has an invariant of its own,
`VersionInv`, since it holds also without `Quiet`.

*The other arguments.*  Each has an inductive invariant, one lemma per action or
kind of action, and the properties as consequences.

- `SessionInv`: for a user who waits, one slot at most holds a command other than a
  restart (`Only`), and it says what that command carries (`InOrder`), on which menu it
  was begun (`Begun`), and what it is still to bring together: file and server
  (`Served`), memory and file where the flag is clear (`Settling`; otherwise they are
  `Close`), an edit and the place it belongs to (`Landed`).  The session's menus
  decide what may be unsaved beside a reload (`Visited`).  `FlagIsHonest` is
  not inductive because the flag is cleared by Y before the save has run.
- `BackupInv`: what a command carries at each of its places (in particular that
  a `verified` restore holds a whole backup), and that the server has what is in
  the file, or a restore or a save is about to give it and none holds anything else,
  unless they have `raced` (`Applied`).  `CalmInv`: a user who waits has one
  command under way at most, and none while a question is shown, so the list
  cannot move between the question and the command.
- `WaitInv` joins these two with the types (`TypeInv`: among them that the directory
  is listed once by each name, which the lemmas on `Lists` keep through every
  removal), and the rest of `Backup` stands on it.  `Shown`: for a user who waits
  the list of the page, or the one an answer brings, is `order`, except while a
  command that changes the directory is under way.  `Superfluous`: what retention
  still has to remove is what comes after the newest `MaxFiles`.  `Retained` and
  `OneMore` count: not the backups there are, which commands under way may take
  over any bound, but those that no command claims (`Stayers`: it neither makes
  them nor is about to remove them) are at most `MaxFiles` and one for each failure;
  the second covers the crash, which drops a claim.  `KeepInv`: as long as no two
  backups shared a second, commands that make backups have distinct files, each
  file is what its command has made of it or was removed and its content is among
  those `gone`, and the last hash is that of a content that is safe.  It is
  inductive together with `AloneInv`: for a user who waits, when nothing has failed,
  the backup that is being made is the newest, so that its retention cannot remove
  it.
- `ModelInv`: types, and for each protocol `ProtoInv`: it has a name; in ACME mode
  the name is the domain of its certificate; a port out of range is one of an old
  file; and two equal ports mean that one was chosen for itself since the last
  reset.  With `ValidHop` of the range this is all that service, tags and clients
  depend on, and the theorems about these are then case analyses of
  `SingboxConfig`.
- `ApplyInv`: who waits for systemd holds the lock and the job is its own; a call
  that is alone finds in the file what it has written; and as long as no call has
  failed, some call is still under way that is to mend what is not right (a file
  that is not whole, a server that runs another configuration).  The last part is
  what makes overlapping calls safe without a lock: whoever writes last reloads
  after it.
- `Walled`: what a call that is alone and has met no failure has made of the
  firewall at each point between the flush and the last port: open are the
  inbounds that it has behind it and nothing else (`OpenFor`, `HopFor`), and no
  call is at the firewall once one has returned alone.  `Bounded` has the types
  that this does not need.
- `PagesInv`: a question is on its page, or was left by Esc or taken away by an
  answer (`Placed`); of what was left only the fields of routing are found again
  (`LeftBehind`); an open exit question keeps the user on a few pages
  (`ExitAlone`), without which Esc would not descend; and of an installation that
  began alone exactly one command is in flight (`OnlyChain`, `GoesOn`).
- `CertInv`: every one of the last days of a certificate was a missed one, and
  what is not known to have been kept from renewal is fresh, expired or still to
  be looked at by the daily renewal.
- `PairInv`: who is between the two files of a domain, who holds the mutex of the
  service, and that two operations which meet at a domain know of each other:
  either the mutex keeps them apart or neither is `clean`, and ends by naming the
  pair in `mixed`.  A pair that does not match is then one whose second file is
  still to come, or one that somebody at it will name.
- `CertTypeInv`: every key is in `Keys`.  `NewKey` takes one that no file and no task
  holds; there is one because the keys held are at most two for each pair and one
  for each worker, which is counted with the library's theorems on cardinality
  (`NewKeyIsKey`).
- `RemovalInv`: what each removal has promised, what it still has to remove
  (`Todos`), and, where nothing has come in its way, what it has taken by now
  (`Taken`, one line per step).
- `ToolsInv`: for each of swap, congestion control and fail2ban, at which call a
  command is and what the calls before it have done, as long as it is the only one
  of its tool and none of them has failed (`SwapInv`, `BBRInv`, `BanInv`); that a
  kernel is reported only when it is there needs nothing but itself (`KernelInv`).

## What the runs found

Each is listed under `findings` in `PROJECT.json` with the lines.

1. Load takes `mu` and then `fileMu`, Save takes `fileMu` and then `mu`; a
   GetConfig that meets the end of a Save blocks both for ever
   (`StoreDeadlock`).  Service calls without GetConfig cannot: proved.
2. A start whose first read fails replaces the file with the defaults
   (`StoreBoot`).
3. Y clears the unsaved flag before the save has been tried (`EditSaveFails`).
4. A log level change answers as if everything had been saved, and reloads the
   file over unsaved routing edits (`EditLogLevel`).
5. A restore is given an index and looks up the name later; a deletion takes
   the name at the index when the user says YES (`BackupStale`).

The passing runs of `EditSession` and `Backup` hold under conditions that name
these: `Calm`, `hasty = 0`.  `AcknowledgedIsKept` names two more: `gone` (the
user deleted the backup, after which `.last-hash` still makes the next one a
duplicate that is reported as made; or leftovers of a failure, or backups made at
the same time by a user who does not wait, took its place in retention) and `clash`
(two backups in one second share a name).  `RestoredIsRunning` names `raced` and a
load that the stale cache has answered.  `RetentionHolds` excepts a crash that
meets several commands: each leaves its file, and the crash counts once.

In the same way the properties of the other modules name what they except.  What
follows are those exceptions, and other things that were met while modelling.  They
are notes: no run has them as its subject.  Where a comment or a message of the
program says something else, it is quoted.

*Editing* (checked once each, by a cfg with the value named)
- The credentials that a request for a certificate has stored
  (`cert_service.go:280`, "更新憑證並持久化") are removed by the next Y: the interface
  has not loaded them, and SaveConfigCmd replaces the whole file
  (`command_builder.go:419`).  So are the modes that the request has switched.
- With `Patient = FALSE` neither `KeptUntilDecided` nor `RunningIsSaved` holds: a load
  that began before an edit replaces it (`router.go:168`; `key_handler.go:583` had said
  "SNI 已更新 (未保存)"), and an edit made while a save is under way is applied and not
  saved (`command_builder.go:429`; `:434` reports "配置已保存並應用").
- A restore replaces unsaved routing edits without a question, and reports success
  whether or not the restored file could be loaded and applied
  (`command_builder.go:697`).
- Of a backup that is deleted, `.last-hash` stays: the next one of the same
  configuration is skipped (`manager.go:76`) and reported as made (`router.go:504`,
  "配置已成功備份").

*Configuration and clients* (`LinkFails`, `PageFails`, `FileFails`, `ClashFails`,
`EnabledIsServed`)
- The links of AnyTLS and AnyTLS Reality carry the UUID where the server wants the
  password (`command_builder.go:3286`, `:3298`); the links of TUIC and AnyTLS and
  the client file do not say that a self-signed certificate is to be accepted; the
  page of parameters shows the UUID that TUIC was once saved with.
- The Clash file writes AnyTLS as a proxy of type http ("AnyTLS 本質是 HTTP/2 代理",
  `clash/client_generator.go:195`), while the inbound is of type anytls
  (`anytls.go:98`): that client does not reach the server.  The link of Hysteria 2
  leaves out the obfuscation (`command_builder.go:3261`).
- A port of an old file that is out of range is set to 0 by the migration, and
  its protocol is on and not served until a port is chosen.  The comment says
  "標記為未設置，後續可由系統重新分配" (marked as not set, the system may assign it
  again later, `version.go:102`); nothing does.
- Port 10000, the detour of ShadowTLS, is opened in the firewall though it listens
  on the loopback only; and ShadowTLS on that very port is logged and left out.
- "legacy" means cores before 1.8 (`generator_impl.go:83`), where the comments at
  `:82`, `:186` and `:220` speak of 1.12; the version is looked up once
  (`generator_impl.go:36`).
- Socks5, DNS, SNI-proxy and all-traffic routing are edited and saved and no
  generator reads them (`Unheeded`).  Routing commands change the shared
  configuration in their goroutine.
- `updateCertMode` compares the domain with the protocols' SNI, so that a request
  hardly ever switches a protocol to the new certificate.
- After the installation the interface goes on with ports that it drew by itself,
  not those that are served, until it loads again (`command_builder.go:346`).
- Without callers: LoadWithMigration, RegenerateRealityKeys (`config_service.go:131`),
  SaveProtocolsOnlyCmd, ChangeSNICmd, ToggleWARPCmd, EnsureConfigJsonCmd
  (`command_builder.go:125`), OpenPortRange, GetOpenedPorts.

*Apply*
- `ufw.go:176` takes a rule for there already when the text of one port contains
  that of another (`Hidden`); firewalld's permanent rules survive a flush
  (`NothingElseIsOpen`); an apply that fails after the flush leaves ports closed,
  and overlapping applies can leave the ports of one and run the other.
- UpdateCore reports a restart and makes none.

*Pages*
- Esc never calls `Routing().StopEditing()` (`key_handler.go:1771`): a routing
  page takes what is typed for a field begun on another (`FreshQuestions`); the
  awaited answer of a certificate deletion takes its page from a second question.
- The outbound menu is left to the main menu with unsaved changes and no question.
- An empty Enter is ignored on most pages, so that announced defaults cannot be
  taken (fail2ban's "1h", the WARP licence, Socks5 without authentication).
- While the installation is shown, a ConfigUpdateMsg or CoreInstallMsg of another
  command is taken for its step (`router.go:224`); `alone` excludes that.
- The service page has no entry in a menu; ViewChangeMsg is sent by nothing.

*Certificates*
- Nothing in the program schedules `--cron` (`main.go:23`, `:70`).  What has
  expired is never renewed.  A request stores `DNSProviders`, a renewal reads
  `DNSProvider` (`cert_service.go:320`); SaveCertificate always records
  "letsencrypt"; CheckAndRenewAll skips the provider "self_signed" while certinfo
  sets "Self-Signed".
- EnsureSelfSigned goes by the existence of the files only (`self_signed.go:42`).
- The HTTP request runs without the mutex, which GetClient has given back.
  DeleteCertificate does not look whether the configuration uses the certificate.

*Removal and tools*
- Keeping backups keeps `backups/`, but `data/` is removed with the key that they
  are sealed with (`setup.go:48`, `command_builder.go:3807`): they cannot be
  opened unless `PRISM_MASTER_KEY` was set (`encryption.go:36`).  The program
  itself is not removed.
- Every failure of CreateSwap removes `/swapfile`, also when it is already in use;
  DeleteSwap acts on the swap that is shown, which may be a partition, whose
  device node it then removes; failures of swapoff and sed are ignored.  A partition
  that `/etc/fstab` lists by UUID or label is off after "SWAP 已刪除"
  (`command_builder.go:2037`), and on again after the next start.  A swap file that is
  in use cannot be removed; CreateSwap ignores that (`command_builder.go:2004`).
- Stopping fail2ban does not last beyond a restart of the machine; switching it
  acts on what is shown.  DisableBBR ignores its errors.  Cleaning `/tmp` during
  the installation of a kernel makes it fail, but never succeed by half.

## What is only model-checked

- `CallsReturn`, `AnswersAreSaved` and `ApplyEnds`: liveness under fairness, and
  with it ENABLED, is out of the reach of the installed provers.

Every other invariant and action property that a passing run checks is a theorem.

Not modelled, and why:

- Contents: what a field means, YAML, validation of strings, layout.  Where the
  code accepts or refuses, the models choose.
- The races of Go memory on `ConfigState.Config` below one field: commands and
  `Update` touch the object without a lock, and the models interleave whole
  accesses.
- The exchange with the CA (a library), accounts, and the switch to another CA;
  download and replacement of the core (`installer.go`) and the update of prism
  itself: chains of network and file operations under no concurrency, whose
  outcome the pages take as an answer.
- Enable, Disable and Status of systemd, which are short calls under the mutex of
  the others; the creation of the key file of the encryption.
- Pages that only show: logs, streaming checks, QR codes, system information,
  rendering, and the predicates that check what is typed.
- `AtomicContainer`, which no other code constructs, the functions without callers
  named above, `ResetAllConfigCmd`, which no key starts, and the encryption of the repository, whose encryptor is nil in
  the program (`setup.go:56`).

## What could come next

- A refinement of `EditSession`'s two steps of an apply by `ApplyConfig`.
- Installation of the core: download, checksum and replacement, with a failure
  between any two.
