----------------------------- MODULE ConfigStore -----------------------------
(***************************************************************************)
(* The configuration file and everything that reads or writes it:          *)
(*   - FileRepository (infra/config/repository.go): Load with its cache    *)
(*     and its double-checked slow path, Save with its temporary file;     *)
(*   - ConfigService (application/config_service.go): GetConfig, which     *)
(*     takes no service lock, UpdateConfig and LoadWithMigration, which    *)
(*     do;                                                                 *)
(*   - the start of the program (cmd/prism/setup.go), which loads the file *)
(*     and writes it back before anything else runs;                       *)
(*   - the writers that go round the repository: the restore of a backup,  *)
(*     and the start of a second prism process by cron.                    *)
(*                                                                         *)
(* A configuration is abstracted to the set of edits it contains: an       *)
(* UpdateConfig call adds one edit, the default configuration is {}.       *)
(* FillDefaults only fills fields that are blank, so it adds no edit.      *)
(*                                                                         *)
(* Each step of a goroutine is the code between two points at which it can *)
(* wait or can be overtaken.  The RLock section of Load is one step: what  *)
(* it reads besides the file's status is protected by mu.  Taking a lock   *)
(* is one step with the first access made under it, and releasing it one   *)
(* step with the last.                                                     *)
(***************************************************************************)
EXTENDS Naturals

CONSTANTS
  Procs,        \* goroutines of the program
  Edits,        \* changes that UpdateConfig callers make
  Migration,    \* the change MigrateToLatest makes
  NoProc,       \* no goroutine: the value of a free lock
  NoEdit,       \* the edit of a call that makes none
  Ops,          \* the calls this instance makes: "get", "update", "migrate"
  FaultKinds,   \* the I/O errors that may occur
  Outsiders,    \* the writers beside the repository: "restore", "cron"
  StartFiles,   \* what the file may be before the first start
  MaxTime,      \* bound: ticks of the file system's clock
  MaxFaults,    \* bound: I/O errors
  MaxCrashes,   \* bound: crashes of the program
  MaxOutside    \* bound: writes by outsiders

AllEdits == Edits \cup {Migration}
AllFaults == {"stat", "read", "temp", "rename", "restat"}
Statuses == {"absent", "ok", "bad"}

ASSUME ConstantsOK ==
  /\ NoProc \notin Procs
  /\ NoEdit \notin AllEdits
  /\ Ops \subseteq {"get", "update", "migrate"}
  /\ FaultKinds \subseteq AllFaults
  /\ Outsiders \subseteq {"restore", "cron"}
  /\ StartFiles \subseteq Statuses
  /\ {MaxTime, MaxFaults, MaxCrashes, MaxOutside} \subseteq Nat

VARIABLES
  \* the file system
  status,       \* config.yaml is absent, readable, or not parseable
  disk,         \* its contents (when status = "ok")
  mtime,        \* its modification time
  now,          \* the file system's clock, as coarse as its time stamps
  \* FileRepository
  mu,           \* holder of the write lock r.mu
  fileMu,       \* holder of r.fileMu
  cached,       \* r.cachedConfig is not nil
  cache,        \* r.cachedConfig
  lastMod,      \* r.lastModTime
  \* ConfigService
  svcMu,        \* holder of s.mu
  \* goroutines
  phase,        \* the program is "down", "booting" or "up"
  pc,           \* where each goroutine is
  op,           \* the call it is making
  edit,         \* the edit it wants to make
  base,         \* currentCfg: the configuration it loaded
  val,          \* newCfg: the configuration it saves, or the one it returns
  stamp,        \* the stat of Load, or the time of Save's temporary file
  \* outsiders
  out,          \* the outsider at work
  \* bounds
  faults, crashes, outside,
  \* history
  acked,        \* edits whose call returned without error
  floor,        \* acked, when the goroutine's call began
  versions      \* every configuration the file has held

fileVars == <<status, disk, mtime>>
repoVars == <<mu, fileMu, cached, cache, lastMod>>
procVars == <<pc, op, edit, base, val, stamp>>
bounds   == <<faults, crashes, outside>>
history  == <<acked, floor, versions>>
vars == <<fileVars, now, repoVars, svcMu, phase, procVars, out, bounds, history>>

PCs == {"idle", "svc", "fast", "slow", "read", "loaded", "loadErr",
        "save", "rename", "cache", "saved", "saveErr"}

NoOutsider == [kind |-> "none", at |-> "idle", cfg |-> {}, time |-> 0]

TypeOK ==
  /\ status \in Statuses
  /\ disk \subseteq AllEdits
  /\ mtime \in Nat
  /\ now \in Nat
  /\ mu \in Procs \cup {NoProc}
  /\ fileMu \in Procs \cup {NoProc}
  /\ svcMu \in Procs \cup {NoProc}
  /\ cached \in BOOLEAN
  /\ cache \subseteq AllEdits
  /\ lastMod \in Nat
  /\ phase \in {"down", "booting", "up"}
  /\ pc \in [Procs -> PCs]
  /\ op \in [Procs -> {"none", "get", "update", "migrate", "boot"}]
  /\ edit \in [Procs -> AllEdits \cup {NoEdit}]
  /\ base \in [Procs -> SUBSET AllEdits]
  /\ val \in [Procs -> SUBSET AllEdits]
  /\ stamp \in [Procs -> Nat]
  /\ out \in [kind : {"none", "restore", "cron"}, at : {"idle", "read", "temp"},
              cfg : SUBSET AllEdits, time : Nat]
  /\ faults \in Nat /\ crashes \in Nat /\ outside \in Nat
  /\ acked \subseteq AllEdits
  /\ floor \in [Procs -> SUBSET AllEdits]
  /\ versions \subseteq SUBSET AllEdits

Init ==
  /\ status \in StartFiles
  /\ disk \in IF status = "ok" THEN SUBSET AllEdits ELSE {{}}
  /\ mtime = 0 /\ now = 0
  /\ mu = NoProc /\ fileMu = NoProc /\ svcMu = NoProc
  /\ cached = FALSE /\ cache = {} /\ lastMod = 0
  /\ phase = "down"
  /\ pc = [p \in Procs |-> "idle"]
  /\ op = [p \in Procs |-> "none"]
  /\ edit = [p \in Procs |-> NoEdit]
  /\ base = [p \in Procs |-> {}]
  /\ val = [p \in Procs |-> {}]
  /\ stamp = [p \in Procs |-> 0]
  /\ out = NoOutsider
  /\ faults = 0 /\ crashes = 0 /\ outside = 0
  /\ acked = disk              \* edits of earlier sessions
  /\ floor = [p \in Procs |-> {}]
  /\ versions = {disk}

-----------------------------------------------------------------------------
(* Helpers.                                                                *)

Goto(p, l) == pc' = [pc EXCEPT ![p] = l]

\* An I/O call of kind k fails.
Fault(k) ==
  /\ k \in FaultKinds
  /\ faults < MaxFaults
  /\ faults' = faults + 1

\* What a reader of the file gets: DefaultConfig() when there is no file.
Content == IF status = "ok" THEN disk ELSE {}

\* The stat of the file calls for no read of it.
Fresh == cached /\ ~(mtime > lastMod)

\* Load returns configuration c to its caller.
LoadReturns(p, c) ==
  /\ base' = [base EXCEPT ![p] = c]
  /\ val' = [val EXCEPT ![p] = c]
  /\ Goto(p, "loaded")

\* The goroutine's call is over: it forgets its local variables.
Return(p) ==
  /\ Goto(p, "idle")
  /\ op' = [op EXCEPT ![p] = "none"]
  /\ edit' = [edit EXCEPT ![p] = NoEdit]
  /\ base' = [base EXCEPT ![p] = {}]
  /\ val' = [val EXCEPT ![p] = {}]
  /\ stamp' = [stamp EXCEPT ![p] = 0]
  /\ floor' = [floor EXCEPT ![p] = {}]

-----------------------------------------------------------------------------
(* FileRepository.Load                                                     *)

\* The fast path, under RLock: no file, no status, a hit, or the slow path.
LoadFast(p) ==
  /\ pc[p] = "fast"
  /\ mu = NoProc
  /\ \/ /\ status = "absent"
        /\ LoadReturns(p, {})
        /\ UNCHANGED faults
     \/ /\ status # "absent" /\ Fresh
        /\ LoadReturns(p, cache)
        /\ UNCHANGED faults
     \/ /\ status # "absent" /\ ~Fresh
        /\ Goto(p, "slow")
        /\ UNCHANGED <<base, val, faults>>
     \/ /\ Fault("stat")
        /\ Goto(p, "loadErr")
        /\ UNCHANGED <<base, val>>
  /\ UNCHANGED <<fileVars, now, repoVars, svcMu, phase, op, edit, stamp, out,
                 crashes, outside, history>>

\* The slow path takes r.mu and looks again: the three early returns release
\* it, otherwise it is kept, with the time stamp of the file as it is now.
LoadRecheck(p) ==
  /\ pc[p] = "slow"
  /\ mu = NoProc
  /\ \/ /\ status = "absent"
        /\ LoadReturns(p, {})
        /\ UNCHANGED <<mu, stamp, faults>>
     \/ /\ status # "absent" /\ Fresh
        /\ LoadReturns(p, cache)
        /\ UNCHANGED <<mu, stamp, faults>>
     \/ /\ status # "absent" /\ ~Fresh
        /\ mu' = p
        /\ stamp' = [stamp EXCEPT ![p] = mtime]
        /\ Goto(p, "read")
        /\ UNCHANGED <<base, val, faults>>
     \/ /\ Fault("stat")
        /\ Goto(p, "loadErr")
        /\ UNCHANGED <<mu, stamp, base, val>>
  /\ UNCHANGED <<fileVars, now, fileMu, cached, cache, lastMod, svcMu, phase,
                 op, edit, out, crashes, outside, history>>

\* Slip: the file is read without r.fileMu.
LoadReadUnlocked(p) ==
  /\ pc[p] = "read"
  /\ mu' = NoProc
  /\ status = "ok"
  /\ cached' = TRUE /\ cache' = disk /\ lastMod' = stamp[p]
  /\ LoadReturns(p, disk)
  /\ UNCHANGED <<fileVars, now, fileMu, svcMu, phase, op, edit, stamp, out,
                 bounds, history>>

\* Still holding r.mu, it waits for r.fileMu, reads the file, parses it and
\* fills the cache; the cache's time is the one seen before the read.
LoadRead(p) ==
  /\ pc[p] = "read"
  /\ fileMu = NoProc
  /\ mu' = NoProc
  /\ \/ /\ status = "ok"
        /\ cached' = TRUE /\ cache' = disk /\ lastMod' = stamp[p]
        /\ LoadReturns(p, disk)
        /\ UNCHANGED faults
     \/ /\ \/ status # "ok" /\ UNCHANGED faults
           \/ Fault("read")
        /\ Goto(p, "loadErr")
        /\ UNCHANGED <<cached, cache, lastMod, base, val>>
  /\ UNCHANGED <<fileVars, now, fileMu, svcMu, phase, op, edit, stamp, out,
                 crashes, outside, history>>

-----------------------------------------------------------------------------
(* FileRepository.Save                                                     *)

\* Slip: the cache is replaced before the file is.
SaveTempCaching(p) ==
  /\ pc[p] = "save"
  /\ fileMu = NoProc /\ mu = NoProc
  /\ fileMu' = p
  /\ stamp' = [stamp EXCEPT ![p] = now]
  /\ cached' = TRUE /\ cache' = val[p]
  /\ Goto(p, "rename")
  /\ UNCHANGED <<fileVars, now, mu, lastMod, svcMu, phase, op, edit, base, val,
                 out, bounds, history>>

\* Save takes r.fileMu and writes its temporary file, or fails to.
SaveTemp(p) ==
  /\ pc[p] = "save"
  /\ fileMu = NoProc
  /\ \/ /\ fileMu' = p
        /\ stamp' = [stamp EXCEPT ![p] = now]
        /\ Goto(p, "rename")
        /\ UNCHANGED faults
     \/ /\ Fault("temp")
        /\ Goto(p, "saveErr")
        /\ UNCHANGED <<fileMu, stamp>>
  /\ UNCHANGED <<fileVars, now, mu, cached, cache, lastMod, svcMu, phase, op,
                 edit, base, val, out, crashes, outside, history>>

\* The rename replaces the file at once, or fails and leaves it alone.
SaveRename(p) ==
  /\ pc[p] = "rename"
  /\ \/ /\ status' = "ok" /\ disk' = val[p] /\ mtime' = stamp[p]
        /\ versions' = versions \cup {val[p]}
        /\ Goto(p, "cache")
        /\ UNCHANGED <<fileMu, faults>>
     \/ /\ Fault("rename")
        /\ fileMu' = NoProc
        /\ Goto(p, "saveErr")
        /\ UNCHANGED <<fileVars, versions>>
  /\ UNCHANGED <<now, mu, cached, cache, lastMod, svcMu, phase, op, edit, base,
                 val, stamp, out, crashes, outside, acked, floor>>

\* Slips: the cached configuration is not replaced ...
SaveCacheTimeOnly(p) ==
  /\ pc[p] = "cache" /\ mu = NoProc
  /\ fileMu' = NoProc
  /\ lastMod' = mtime
  /\ Goto(p, "saved")
  /\ UNCHANGED <<fileVars, now, mu, cached, cache, svcMu, phase, op, edit, base,
                 val, stamp, out, bounds, history>>

\* ... or not when the stat after the rename fails ...
SaveCacheIfStat(p) ==
  /\ pc[p] = "cache" /\ mu = NoProc
  /\ fileMu' = NoProc
  /\ \/ /\ cached' = TRUE /\ cache' = val[p] /\ lastMod' = mtime
        /\ UNCHANGED faults
     \/ Fault("restat") /\ UNCHANGED <<cached, cache, lastMod>>
  /\ Goto(p, "saved")
  /\ UNCHANGED <<fileVars, now, mu, svcMu, phase, op, edit, base, val, stamp,
                 out, crashes, outside, history>>

\* ... or a failed stat is an error of Save.
SaveCacheErr(p) ==
  /\ pc[p] = "cache" /\ mu = NoProc
  /\ fileMu' = NoProc
  /\ cached' = TRUE /\ cache' = val[p]
  /\ \/ lastMod' = mtime /\ Goto(p, "saved") /\ UNCHANGED faults
     \/ Fault("restat") /\ Goto(p, "saveErr") /\ UNCHANGED lastMod
  /\ UNCHANGED <<fileVars, now, mu, svcMu, phase, op, edit, base, val, stamp,
                 out, crashes, outside, history>>

\* Still holding r.fileMu, Save waits for r.mu and replaces the cache.  When
\* the stat fails the cache keeps its old time.
SaveCache(p) ==
  /\ pc[p] = "cache"
  /\ mu = NoProc
  /\ fileMu' = NoProc
  /\ cached' = TRUE /\ cache' = val[p]
  /\ \/ status # "absent" /\ lastMod' = mtime /\ UNCHANGED faults
     \/ Fault("restat") /\ UNCHANGED lastMod
  /\ Goto(p, "saved")
  /\ UNCHANGED <<fileVars, now, mu, svcMu, phase, op, edit, base, val, stamp,
                 out, crashes, outside, history>>

-----------------------------------------------------------------------------
(* ConfigService                                                           *)

\* A goroutine calls GetConfig, UpdateConfig with edit e, or
\* LoadWithMigration.  One edit is the subject of one call at a time.
Call(p, o, e) ==
  /\ phase = "up"
  /\ pc[p] = "idle"
  /\ o \in Ops
  /\ CASE o = "get" -> e = NoEdit
       [] o = "migrate" -> e = Migration
       [] o = "update" -> e \in Edits \ acked
  /\ \A q \in Procs : (e # NoEdit => edit[q] # e)
  /\ op' = [op EXCEPT ![p] = o]
  /\ edit' = [edit EXCEPT ![p] = e]
  /\ floor' = [floor EXCEPT ![p] = acked]
  /\ Goto(p, IF o = "get" THEN "fast" ELSE "svc")
  /\ UNCHANGED <<fileVars, now, repoVars, svcMu, phase, base, val, stamp, out,
                 bounds, acked, versions>>

\* Slip: the service does not lock.
LockServiceNoWait(p) ==
  /\ pc[p] = "svc"
  /\ svcMu' = p
  /\ Goto(p, "fast")
  /\ UNCHANGED <<fileVars, now, repoVars, phase, op, edit, base, val, stamp, out,
                 bounds, history>>

\* UpdateConfig and LoadWithMigration begin with s.mu.Lock().
LockService(p) ==
  /\ pc[p] = "svc"
  /\ svcMu = NoProc
  /\ svcMu' = p
  /\ Goto(p, "fast")
  /\ UNCHANGED <<fileVars, now, repoVars, phase, op, edit, base, val, stamp, out,
                 bounds, history>>

\* Slip: whatever was loaded is modified and saved.
ModifyAny(p) ==
  /\ pc[p] = "loaded"
  /\ val' = [val EXCEPT ![p] = @ \cup {edit[p]}]
  /\ Goto(p, "save")
  /\ UNCHANGED <<fileVars, now, repoVars, svcMu, phase, op, edit, base, stamp,
                 out, bounds, history>>

\* The modifier of UpdateConfig accepts its edit.
Modify(p) ==
  /\ pc[p] = "loaded" /\ op[p] = "update"
  /\ val' = [val EXCEPT ![p] = @ \cup {edit[p]}]
  /\ Goto(p, "save")
  /\ UNCHANGED <<fileVars, now, repoVars, svcMu, phase, op, edit, base, stamp,
                 out, bounds, history>>

\* LoadWithMigration migrates a configuration of an old version.
Migrate(p) ==
  /\ pc[p] = "loaded" /\ op[p] = "migrate"
  /\ Migration \notin val[p]
  /\ val' = [val EXCEPT ![p] = @ \cup {Migration}]
  /\ Goto(p, "save")
  /\ UNCHANGED <<fileVars, now, repoVars, svcMu, phase, op, edit, base, stamp,
                 out, bounds, history>>

\* GetConfig returns, with a configuration or an error.
GetReturns(p) ==
  /\ op[p] = "get"
  /\ pc[p] \in {"loaded", "loadErr"}
  /\ Return(p)
  /\ UNCHANGED <<fileVars, now, repoVars, svcMu, phase, out, bounds, acked, versions>>

\* Slip: the error return does not release s.mu.
CallFailsLocked(p) ==
  /\ op[p] \in {"update", "migrate"}
  /\ \/ pc[p] \in {"loadErr", "saveErr"}
     \/ pc[p] = "loaded" /\ op[p] = "update"
  /\ Return(p)
  /\ UNCHANGED <<fileVars, now, repoVars, svcMu, phase, out, bounds, acked,
                 versions>>

\* UpdateConfig and LoadWithMigration return an error: the load or the save
\* failed, or the modifier refused.  The deferred unlock releases s.mu.
CallFails(p) ==
  /\ op[p] \in {"update", "migrate"}
  /\ \/ pc[p] \in {"loadErr", "saveErr"}
     \/ pc[p] = "loaded" /\ op[p] = "update"
  /\ svcMu' = NoProc
  /\ Return(p)
  /\ UNCHANGED <<fileVars, now, repoVars, phase, out, bounds, acked, versions>>

\* They return without error: the configuration is saved, or was up to date.
CallSucceeds(p) ==
  /\ op[p] \in {"update", "migrate"}
  /\ \/ pc[p] = "saved"
     \/ pc[p] = "loaded" /\ op[p] = "migrate" /\ Migration \in val[p]
  /\ svcMu' = NoProc
  /\ acked' = acked \cup {edit[p]}
  /\ Return(p)
  /\ UNCHANGED <<fileVars, now, repoVars, phase, out, bounds, versions>>

-----------------------------------------------------------------------------
(* The start of the program: initializeDependencies.                       *)

\* configRepo.Load, before there is a ConfigService.
Boot(p) ==
  /\ phase = "down"
  /\ phase' = "booting"
  /\ op' = [op EXCEPT ![p] = "boot"]
  /\ floor' = [floor EXCEPT ![p] = acked]
  /\ Goto(p, "fast")
  /\ UNCHANGED <<fileVars, now, repoVars, svcMu, edit, base, val, stamp, out,
                 bounds, acked, versions>>

\* SaveWithDefaults(initialConfig): what Load returned, or the default
\* configuration when Load returned an error.
BootSave(p) ==
  /\ op[p] = "boot"
  /\ pc[p] \in {"loaded", "loadErr"}
  /\ svcMu = NoProc
  /\ svcMu' = p
  /\ Goto(p, "save")
  /\ UNCHANGED <<fileVars, now, repoVars, phase, op, edit, base, val, stamp, out,
                 bounds, history>>

\* The program runs, whether or not the configuration could be saved.
BootDone(p) ==
  /\ op[p] = "boot"
  /\ pc[p] \in {"saved", "saveErr"}
  /\ svcMu' = NoProc
  /\ phase' = "up"
  /\ Return(p)
  /\ UNCHANGED <<fileVars, now, repoVars, out, bounds, acked, versions>>

\* The program is killed, or the machine stops: what is in memory is lost, the
\* file is not, and a temporary file is left for nobody to remove.
Crash ==
  /\ phase # "down"
  /\ crashes < MaxCrashes
  /\ crashes' = crashes + 1
  /\ phase' = "down"
  /\ mu' = NoProc /\ fileMu' = NoProc /\ svcMu' = NoProc
  /\ cached' = FALSE /\ cache' = {} /\ lastMod' = 0
  /\ pc' = [p \in Procs |-> "idle"]
  /\ op' = [p \in Procs |-> "none"]
  /\ edit' = [p \in Procs |-> NoEdit]
  /\ base' = [p \in Procs |-> {}]
  /\ val' = [p \in Procs |-> {}]
  /\ stamp' = [p \in Procs |-> 0]
  /\ floor' = [p \in Procs |-> {}]
  /\ out' = IF out.kind = "restore" THEN NoOutsider ELSE out
  /\ UNCHANGED <<fileVars, now, faults, outside, acked, versions>>

-----------------------------------------------------------------------------
(* The writers that do not go through the repository.                      *)

\* Manager.Restore writes the contents of a backup, some earlier
\* configuration, to a temporary file of its own.
RestoreTemp(c) ==
  /\ "restore" \in Outsiders /\ phase = "up"
  /\ out = NoOutsider /\ outside < MaxOutside
  /\ outside' = outside + 1
  /\ out' = [kind |-> "restore", at |-> "temp", cfg |-> c, time |-> now]
  /\ UNCHANGED <<fileVars, now, repoVars, svcMu, phase, procVars, faults,
                 crashes, history>>

\* "prism -cron" starts: its own initializeDependencies loads the file ...
CronLoad ==
  /\ "cron" \in Outsiders
  /\ out = NoOutsider /\ outside < MaxOutside
  /\ outside' = outside + 1
  /\ out' = [kind |-> "cron", at |-> "read", cfg |-> Content, time |-> 0]
  /\ UNCHANGED <<fileVars, now, repoVars, svcMu, phase, procVars, faults,
                 crashes, history>>

\* ... and writes it back, with its own locks and its own temporary file.
CronTemp ==
  /\ out.kind = "cron" /\ out.at = "read"
  /\ out' = [out EXCEPT !.at = "temp", !.time = now]
  /\ UNCHANGED <<fileVars, now, repoVars, svcMu, phase, procVars, bounds,
                 history>>

\* Either one renames its temporary file over config.yaml.
OutsiderRename ==
  /\ out.at = "temp"
  /\ status' = "ok" /\ disk' = out.cfg /\ mtime' = out.time
  /\ versions' = versions \cup {out.cfg}
  /\ out' = NoOutsider
  /\ UNCHANGED <<now, repoVars, svcMu, phase, procVars, bounds, acked, floor>>

\* Time passes for the time stamps of files.
Tick ==
  /\ now < MaxTime
  /\ now' = now + 1
  /\ UNCHANGED <<fileVars, repoVars, svcMu, phase, procVars, out, bounds, history>>

-----------------------------------------------------------------------------
Load(p) == LoadFast(p) \/ LoadRecheck(p) \/ LoadRead(p)

Save(p) == SaveTemp(p) \/ SaveRename(p) \/ SaveCache(p)

Service(p) ==
  \/ LockService(p) \/ Modify(p) \/ Migrate(p)
  \/ GetReturns(p) \/ CallFails(p) \/ CallSucceeds(p)

Start(p) == BootSave(p) \/ BootDone(p)

Step(p) == Load(p) \/ Save(p) \/ Service(p) \/ Start(p)

Outside ==
  \/ \E c \in SUBSET AllEdits : RestoreTemp(c)
  \/ CronLoad \/ CronTemp \/ OutsiderRename

Next ==
  \/ \E p \in Procs : Step(p) \/ Boot(p)
  \/ \E p \in Procs, o \in Ops, e \in AllEdits \cup {NoEdit} : Call(p, o, e)
  \/ Crash \/ Tick \/ Outside

Spec == Init /\ [][Next]_vars

(* The scheduler runs every goroutine that can run, and sync.Mutex hands a   *)
(* lock over to a goroutine that has waited for a millisecond (its           *)
(* starvation mode): a goroutine that can take its next step again and again *)
(* takes it.  No call, crash or outside write need ever happen.              *)
Fairness == \A p \in Procs : SF_vars(Step(p))

FairSpec == Spec /\ Fairness

-----------------------------------------------------------------------------
(* Properties.                                                             *)

\* What a load can see: a renamed file is seen only when the Save that renamed
\* it has also replaced the cache, because that Save still holds r.fileMu.
Visible ==
  IF fileMu \in Procs /\ pc[fileMu] = "cache" THEN base[fileMu] ELSE Content

\* A cache that the file's time stamp does not outdate holds what is visible,
\* however coarse the clock is and wherever a Save is between its rename and
\* its update of the cache (repository.go:60 and 86 return it on that ground).
CacheCoherent == phase # "down" /\ Fresh => cache = Visible

\* An edit whose UpdateConfig returned without error is in the file, through
\* concurrent updates, failed saves, crashes and restarts
\* (config_service.go:44, the update is atomic).
NoLostUpdate == acked \subseteq Content

\* A Load returns every edit acknowledged before the call began: the cache
\* never answers with something older (repository.go:58-67, 86-88).
ReadsAreCurrent ==
  \A p \in Procs : pc[p] = "loaded" => floor[p] \subseteq val[p]

\* When Save reports an error the file holds what its caller had loaded: no
\* error is reported after the rename (repository.go:193-202).
FailedSaveKeepsFile ==
  \A p \in Procs : pc[p] = "saveErr" => Content = base[p]

\* What a Load returns, from the file or from the cache, has been in the file:
\* no configuration that failed to be saved, or is not saved yet, is ever
\* returned, whoever else writes the file (repository.go:204-210); the default
\* configuration, {}, stands for a file that is absent.
NoDirtyRead ==
  \A p \in Procs : pc[p] = "loaded" => val[p] \in versions \cup {{}}

\* No Load holds r.mu and waits for r.fileMu while a Save holds r.fileMu and
\* waits for r.mu (repository.go:92 under 73, and 205 under 136).
NoCircularWait ==
  ~ \E p, q \in Procs : pc[p] = "read" /\ mu = p /\ pc[q] = "cache" /\ fileMu = q

\* The assumption of most of them: nobody else writes the file, and it can be
\* read and parsed whenever it is there.  StoreBoot shows what
\* becomes of NoLostUpdate without it.
Quiet ==
  /\ Outsiders = {}
  /\ FaultKinds \subseteq {"temp", "rename", "restat"}
  /\ StartFiles \subseteq {"absent", "ok"}

\* Every call returns, even when readers and writers run together.
CallsReturn == \A p \in Procs : pc[p] # "idle" ~> pc[p] = "idle"

-----------------------------------------------------------------------------
(* ConfigService implements AtomicConfig.  A load takes effect when it       *)
(* returns, an update when its Save has replaced the cache.  The start of    *)
(* the program is invisible: it writes back what it read.                    *)

Served(p) == op[p] \in {"get", "update", "migrate"}

Finished(p) ==
  \/ op[p] = "get" /\ pc[p] = "loaded"
  \/ op[p] = "migrate" /\ pc[p] = "loaded" /\ Migration \in val[p]
  \/ op[p] \in {"update", "migrate"} /\ pc[p] = "saved"

stageBar ==
  [p \in Procs |-> IF ~Served(p) THEN "idle"
                   ELSE IF Finished(p) THEN "done" ELSE "pending"]

kindBar == [p \in Procs |-> IF Served(p) THEN op[p] ELSE "none"]

resultBar ==
  [p \in Procs |-> IF op[p] = "get" /\ pc[p] = "loaded" THEN val[p] ELSE {}]

Atomic == INSTANCE AtomicConfig WITH
  store <- Visible, stage <- stageBar, kind <- kindBar,
  change <- edit, result <- resultBar

\* Each GetConfig, UpdateConfig and LoadWithMigration takes effect at one
\* instant between its call and its return (config_service.go:44 and 85).
Linearizable == Atomic!Spec

=============================================================================
