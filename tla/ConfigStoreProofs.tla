-------------------------- MODULE ConfigStoreProofs --------------------------
(***************************************************************************)
(* Proofs about ConfigStore, for any number of goroutines, edits, errors   *)
(* and crashes.                                                            *)
(***************************************************************************)
EXTENDS ConfigStore, TLAPS

\* Every call that takes s.mu, from the lock to the return; the start of the
\* program only saves under it.
InService(p) ==
  \/ op[p] \in {"update", "migrate"} /\ pc[p] \notin {"idle", "svc"}
  \/ op[p] = "boot" /\ pc[p] \in {"save", "rename", "cache", "saved", "saveErr"}

\* Who holds which lock can be read off the program counters.
Locks ==
  /\ \A p \in Procs : mu = p <=> pc[p] = "read"
  /\ \A p \in Procs : fileMu = p <=> pc[p] \in {"rename", "cache"}
  /\ \A p \in Procs : svcMu = p <=> InService(p)

\* Which call is where, and that the start of the program runs alone.
Control ==
  /\ \A p \in Procs : op[p] = "none" <=> pc[p] = "idle"
  /\ \A p \in Procs : pc[p] = "svc" => op[p] \in {"update", "migrate"}
  /\ \A p \in Procs : op[p] = "get" => pc[p] \in {"fast", "slow", "read", "loaded", "loadErr"}
  /\ \A p \in Procs : op[p] \in Ops \cup {"none", "boot"}
  /\ \A p \in Procs : op[p] \in {"update", "migrate"} => edit[p] \in AllEdits
  /\ \A p \in Procs : op[p] = "migrate" => edit[p] = Migration
  /\ \A p \in Procs : op[p] \in {"none", "boot", "get"} => edit[p] = NoEdit
  /\ \A p \in Procs : op[p] = "boot" => phase = "booting"
  /\ \A p, q \in Procs : op[p] = "boot" /\ q # p => op[q] = "none"
  /\ phase = "down" => \A p \in Procs : op[p] = "none"

LockInv == TypeOK /\ Locks /\ Control

LEMMA LockInvInit == Init => LockInv
<1> SUFFICES ASSUME Init PROVE LockInv
  OBVIOUS
<1>1. disk \subseteq AllEdits
  BY ConstantsOK DEF Init, AllEdits
<1>2. TypeOK
  <2>1. out \in [kind : {"none", "restore", "cron"}, at : {"idle", "read", "temp"},
                cfg : SUBSET AllEdits, time : Nat]
    BY DEF Init, NoOutsider
  <2>2. /\ floor \in [Procs -> SUBSET AllEdits]
        /\ base \in [Procs -> SUBSET AllEdits]
        /\ val \in [Procs -> SUBSET AllEdits]
    BY DEF Init
  <2>3. /\ pc \in [Procs -> PCs] /\ stamp \in [Procs -> Nat]
        /\ op \in [Procs -> {"none", "get", "update", "migrate", "boot"}]
        /\ edit \in [Procs -> AllEdits \cup {NoEdit}]
    BY DEF Init, PCs
  <2>4. status \in Statuses
    BY ConstantsOK DEF Init
  <2> QED
    BY <1>1, <2>1, <2>2, <2>3, <2>4 DEF Init, TypeOK
<1>3. Locks
  BY ConstantsOK DEF Init, Locks, InService
<1>4. Control
  BY DEF Init, Control
<1> QED
  BY <1>2, <1>3, <1>4 DEF LockInv

LEMMA TypeStep == TypeOK /\ Control /\ [Next]_vars => TypeOK'
<1> SUFFICES ASSUME TypeOK, Control, [Next]_vars PROVE TypeOK'
  OBVIOUS
<1> USE DEF TypeOK, Goto, Fault, LoadReturns, Return, Content, PCs, Statuses,
            fileVars, repoVars, procVars, bounds, history
<1>1. ASSUME NEW p \in Procs, LoadFast(p) PROVE TypeOK'
  BY <1>1, ConstantsOK DEF LoadFast
<1>2. ASSUME NEW p \in Procs, LoadRecheck(p) PROVE TypeOK'
  BY <1>2, ConstantsOK DEF LoadRecheck
<1>3. ASSUME NEW p \in Procs, LoadRead(p) PROVE TypeOK'
  <2>1. CASE /\ cached' = TRUE /\ cache' = disk /\ lastMod' = stamp[p]
             /\ LoadReturns(p, disk) /\ UNCHANGED faults
    BY <1>3, <2>1 DEF LoadRead
  <2>2. CASE UNCHANGED <<cached, cache, lastMod, base, val>>
    BY <1>3, <2>2, ConstantsOK DEF LoadRead
  <2> QED
    BY <1>3, <2>1, <2>2 DEF LoadRead
<1>4. ASSUME NEW p \in Procs, SaveTemp(p) PROVE TypeOK'
  BY <1>4, ConstantsOK DEF SaveTemp
<1>5. ASSUME NEW p \in Procs, SaveRename(p) PROVE TypeOK'
  BY <1>5, ConstantsOK DEF SaveRename
<1>6. ASSUME NEW p \in Procs, SaveCache(p) PROVE TypeOK'
  BY <1>6, ConstantsOK DEF SaveCache
<1>7. ASSUME NEW p \in Procs, LockService(p) PROVE TypeOK'
  BY <1>7, ConstantsOK DEF LockService
<1>8. ASSUME NEW p \in Procs, Modify(p) PROVE TypeOK'
  BY <1>8 DEF Modify, Control
<1>9. ASSUME NEW p \in Procs, Migrate(p) PROVE TypeOK'
  <2>1. Migration \in AllEdits
    BY DEF AllEdits
  <2> QED
    BY <1>9, <2>1 DEF Migrate
<1>10. ASSUME NEW p \in Procs, GetReturns(p) PROVE TypeOK'
  BY <1>10, ConstantsOK DEF GetReturns
<1>11. ASSUME NEW p \in Procs, CallFails(p) PROVE TypeOK'
  BY <1>11, ConstantsOK DEF CallFails
<1>12. ASSUME NEW p \in Procs, CallSucceeds(p) PROVE TypeOK'
  BY <1>12, ConstantsOK DEF CallSucceeds, Control
<1>13. ASSUME NEW p \in Procs, BootSave(p) PROVE TypeOK'
  BY <1>13, ConstantsOK DEF BootSave
<1>14. ASSUME NEW p \in Procs, BootDone(p) PROVE TypeOK'
  BY <1>14, ConstantsOK DEF BootDone
<1>15. ASSUME NEW p \in Procs, Boot(p) PROVE TypeOK'
  BY <1>15, ConstantsOK DEF Boot
<1>16. ASSUME NEW p \in Procs, NEW o \in Ops, NEW e \in AllEdits \cup {NoEdit}, Call(p, o, e)
      PROVE  TypeOK'
  BY <1>16, ConstantsOK DEF Call
<1>17. ASSUME Crash PROVE TypeOK'
  <2>1. out' \in [kind : {"none", "restore", "cron"}, at : {"idle", "read", "temp"},
                 cfg : SUBSET AllEdits, time : Nat]
    BY <1>17 DEF Crash, NoOutsider
  <2>2. /\ pc' \in [Procs -> PCs] /\ stamp' \in [Procs -> Nat]
        /\ op' \in [Procs -> {"none", "get", "update", "migrate", "boot"}]
        /\ edit' \in [Procs -> AllEdits \cup {NoEdit}]
        /\ base' \in [Procs -> SUBSET AllEdits]
        /\ val' \in [Procs -> SUBSET AllEdits]
        /\ floor' \in [Procs -> SUBSET AllEdits]
    BY <1>17 DEF Crash
  <2>3. /\ UNCHANGED <<fileVars, now, faults, outside, acked, versions>>
        /\ mu' = NoProc /\ fileMu' = NoProc /\ svcMu' = NoProc
        /\ cached' \in BOOLEAN /\ cache' = {} /\ lastMod' = 0
        /\ phase' = "down" /\ crashes' = crashes + 1
    BY <1>17 DEF Crash
  <2> QED
    BY <2>1, <2>2, <2>3
<1>18. ASSUME Tick PROVE TypeOK'
  BY <1>18, ConstantsOK DEF Tick, NoOutsider
<1>19. ASSUME CronLoad PROVE TypeOK'
  BY <1>19, ConstantsOK DEF CronLoad, NoOutsider
<1>20. ASSUME CronTemp PROVE TypeOK'
  BY <1>20, ConstantsOK DEF CronTemp, NoOutsider
<1>21. ASSUME OutsiderRename PROVE TypeOK'
  BY <1>21, ConstantsOK DEF OutsiderRename, NoOutsider
<1>22. ASSUME NEW c \in SUBSET AllEdits, RestoreTemp(c) PROVE TypeOK'
  <2>1. out' \in [kind : {"none", "restore", "cron"}, at : {"idle", "read", "temp"},
                 cfg : SUBSET AllEdits, time : Nat]
    BY <1>22 DEF RestoreTemp
  <2> QED
    BY <1>22, <2>1 DEF RestoreTemp
<1>23. CASE UNCHANGED vars
  BY <1>23 DEF vars
<1> QED
  BY <1>1, <1>2, <1>3, <1>4, <1>5, <1>6, <1>7, <1>8, <1>9, <1>10, <1>11, <1>12, <1>13, <1>14, <1>15, <1>16, <1>17, <1>18, <1>19, <1>20, <1>21, <1>22, <1>23
     DEF Next, Step, Load, Save, Service, Start, Outside

LEMMA LockStep == LockInv /\ [Next]_vars => Locks' /\ Control'
<1> SUFFICES ASSUME LockInv, [Next]_vars PROVE Locks' /\ Control'
  OBVIOUS
<1>0. TypeOK'
  BY TypeStep DEF LockInv
<1> USE <1>0, ConstantsOK DEF LockInv, TypeOK, Locks, Control, InService, Goto,
        Fault, LoadReturns, Return, PCs, fileVars, repoVars, procVars, bounds, history
<1>1. ASSUME NEW p \in Procs, LoadFast(p) PROVE Locks' /\ Control'
  <2>1. Locks'
    BY <1>1 DEF LoadFast
  <2>2. Control'
    BY <1>1 DEF LoadFast
  <2> QED
    BY <2>1, <2>2
<1>2. ASSUME NEW p \in Procs, LoadRecheck(p) PROVE Locks' /\ Control'
  <2>1. Locks'
    BY <1>2 DEF LoadRecheck
  <2>2. Control'
    BY <1>2 DEF LoadRecheck
  <2> QED
    BY <2>1, <2>2
<1>3. ASSUME NEW p \in Procs, LoadRead(p) PROVE Locks' /\ Control'
  <2>1. Locks'
    BY <1>3 DEF LoadRead
  <2>2. Control'
    BY <1>3 DEF LoadRead
  <2> QED
    BY <2>1, <2>2
<1>4. ASSUME NEW p \in Procs, SaveTemp(p) PROVE Locks' /\ Control'
  <2>1. Locks'
    BY <1>4 DEF SaveTemp
  <2>2. Control'
    BY <1>4 DEF SaveTemp
  <2> QED
    BY <2>1, <2>2
<1>5. ASSUME NEW p \in Procs, SaveRename(p) PROVE Locks' /\ Control'
  <2>1. Locks'
    BY <1>5 DEF SaveRename
  <2>2. Control'
    BY <1>5 DEF SaveRename
  <2> QED
    BY <2>1, <2>2
<1>6. ASSUME NEW p \in Procs, SaveCache(p) PROVE Locks' /\ Control'
  <2>1. Locks'
    BY <1>6 DEF SaveCache
  <2>2. Control'
    BY <1>6 DEF SaveCache
  <2> QED
    BY <2>1, <2>2
<1>7. ASSUME NEW p \in Procs, LockService(p) PROVE Locks' /\ Control'
  <2>1. Locks'
    BY <1>7 DEF LockService
  <2>2. Control'
    BY <1>7 DEF LockService
  <2> QED
    BY <2>1, <2>2
<1>8. ASSUME NEW p \in Procs, Modify(p) PROVE Locks' /\ Control'
  <2>1. Locks'
    BY <1>8 DEF Modify
  <2>2. Control'
    BY <1>8 DEF Modify
  <2> QED
    BY <2>1, <2>2
<1>9. ASSUME NEW p \in Procs, Migrate(p) PROVE Locks' /\ Control'
  <2>1. Locks'
    BY <1>9 DEF Migrate
  <2>2. Control'
    BY <1>9 DEF Migrate
  <2> QED
    BY <2>1, <2>2
<1>10. ASSUME NEW p \in Procs, GetReturns(p) PROVE Locks' /\ Control'
  <2>1. Locks'
    BY <1>10 DEF GetReturns
  <2>2. Control'
    BY <1>10 DEF GetReturns
  <2> QED
    BY <2>1, <2>2
<1>11. ASSUME NEW p \in Procs, CallFails(p) PROVE Locks' /\ Control'
  <2>1. Locks'
    BY <1>11 DEF CallFails
  <2>2. Control'
    BY <1>11 DEF CallFails
  <2> QED
    BY <2>1, <2>2
<1>12. ASSUME NEW p \in Procs, CallSucceeds(p) PROVE Locks' /\ Control'
  <2>1. Locks'
    BY <1>12 DEF CallSucceeds
  <2>2. Control'
    BY <1>12 DEF CallSucceeds
  <2> QED
    BY <2>1, <2>2
<1>13. ASSUME NEW p \in Procs, BootSave(p) PROVE Locks' /\ Control'
  <2>1. Locks'
    BY <1>13 DEF BootSave
  <2>2. Control'
    BY <1>13 DEF BootSave
  <2> QED
    BY <2>1, <2>2
<1>14. ASSUME NEW p \in Procs, BootDone(p) PROVE Locks' /\ Control'
  <2>1. Locks'
    BY <1>14 DEF BootDone
  <2>2. Control'
    BY <1>14 DEF BootDone
  <2> QED
    BY <2>1, <2>2
<1>15. ASSUME NEW p \in Procs, Boot(p) PROVE Locks' /\ Control'
  <2>1. Locks'
    BY <1>15 DEF Boot
  <2>2. Control'
    BY <1>15 DEF Boot
  <2> QED
    BY <2>1, <2>2
<1>16. ASSUME NEW p \in Procs, NEW o \in Ops, NEW e \in AllEdits \cup {NoEdit}, Call(p, o, e)
      PROVE  Locks' /\ Control'
  <2>1. Locks'
    BY <1>16 DEF Call
  <2>2. Control'
    <3>1. o \in {"get", "update", "migrate"}
      BY <1>16
    <3>2. /\ o \in {"update", "migrate"} => e \in AllEdits
          /\ o = "migrate" => e = Migration
          /\ o = "get" => e = NoEdit
      BY <1>16 DEF Call, AllEdits
    <3> QED
      BY <1>16, <3>1, <3>2 DEF Call
  <2> QED
    BY <2>1, <2>2
<1>17. ASSUME Crash PROVE Locks' /\ Control'
  BY <1>17 DEF Crash
<1>18. ASSUME Tick PROVE Locks' /\ Control'
  BY <1>18 DEF Tick
<1>19. ASSUME CronLoad PROVE Locks' /\ Control'
  BY <1>19 DEF CronLoad
<1>20. ASSUME CronTemp PROVE Locks' /\ Control'
  BY <1>20 DEF CronTemp
<1>21. ASSUME OutsiderRename PROVE Locks' /\ Control'
  BY <1>21 DEF OutsiderRename
<1>22. ASSUME NEW c \in SUBSET AllEdits, RestoreTemp(c) PROVE Locks' /\ Control'
  BY <1>22 DEF RestoreTemp
<1>23. CASE UNCHANGED vars
  BY <1>23 DEF vars
<1> QED
  BY <1>1, <1>2, <1>3, <1>4, <1>5, <1>6, <1>7, <1>8, <1>9, <1>10, <1>11, <1>12, <1>13, <1>14, <1>15, <1>16, <1>17, <1>18, <1>19, <1>20, <1>21, <1>22, <1>23
     DEF Next, Step, Load, Save, Service, Start, Outside

\* TypeOK is an invariant of every instance.
THEOREM TypeCorrect == Spec => []TypeOK
<1>1. LockInv /\ [Next]_vars => LockInv'
  BY TypeStep, LockStep DEF LockInv
<1>2. LockInv => TypeOK
  BY DEF LockInv
<1> QED
  BY LockInvInit, <1>1, <1>2, PTL DEF Spec

\* When every call takes s.mu - that is, when nobody calls GetConfig - r.mu and
\* r.fileMu are never waited for in a circle, although Load and Save take them
\* in opposite orders; whatever errors, crashes and outside writers do.
THEOREM ServiceCallsCannotDeadlock ==
  "get" \notin Ops => (Spec => []NoCircularWait)
<1> SUFFICES ASSUME "get" \notin Ops PROVE Spec => []NoCircularWait
  OBVIOUS
<1>1. LockInv /\ [Next]_vars => LockInv'
  BY TypeStep, LockStep DEF LockInv
<1>2. LockInv => NoCircularWait
  <2> SUFFICES ASSUME LockInv, NEW p \in Procs, NEW q \in Procs,
                      pc[p] = "read", pc[q] = "cache"
               PROVE  FALSE
    BY DEF NoCircularWait
  <2>1. p # q /\ op[p] # "none" /\ op[q] # "none"
    BY DEF LockInv, Control
  <2>2. op[p] # "boot" /\ op[q] # "boot"
    BY <2>1 DEF LockInv, Control
  <2>3. InService(p) /\ InService(q)
    BY <2>1, <2>2, ConstantsOK DEF LockInv, Control, InService
  <2> QED
    BY <2>1, <2>3 DEF LockInv, Locks
<1> QED
  BY LockInvInit, <1>1, <1>2, PTL DEF Spec

-----------------------------------------------------------------------------
(***************************************************************************)
(* Under Quiet: what the file, the cache and the calls under way hold.     *)
(***************************************************************************)

\* The file and its time stamps.
FileInv ==
  /\ out = NoOutsider
  /\ status \in {"absent", "ok"}
  /\ lastMod <= mtime /\ mtime <= now
  /\ \A p \in Procs : pc[p] = "read" => status = "ok" /\ stamp[p] <= mtime
  /\ \A p \in Procs : pc[p] = "rename" => mtime <= stamp[p] /\ stamp[p] <= now
  /\ \A p \in Procs : pc[p] # "loadErr"

\* What a call under way knows of the file: s.mu keeps all others from
\* changing it between the load and the return.
CallInv ==
  /\ \A p \in Procs : pc[p] = "loaded" /\ op[p] # "get" =>
       base[p] = Content /\ val[p] = Content
  /\ \A p \in Procs : pc[p] \in {"save", "rename", "saveErr"} => base[p] = Content
  /\ \A p \in Procs : pc[p] \in {"save", "rename", "cache"} =>
       IF op[p] = "boot" THEN val[p] = base[p] ELSE val[p] = base[p] \cup {edit[p]}
  /\ \A p \in Procs : pc[p] = "cache" => status = "ok" /\ disk = val[p]
  /\ \A p \in Procs : pc[p] = "saved" /\ op[p] # "boot" => edit[p] \in Content

\* The cache and the history.
CacheInv ==
  /\ Fresh => cache = Visible
  /\ acked \subseteq Visible
  /\ \A p \in Procs : floor[p] \subseteq acked
  /\ \A p \in Procs : pc[p] = "loaded" => floor[p] \subseteq val[p]

StoreInv == FileInv /\ CallInv /\ CacheInv

\* Visible, read off the program counters.
LEMMA VisibleCases ==
  ASSUME LockInv
  PROVE  /\ \A p \in Procs : pc[p] = "cache" => Visible = base[p]
         /\ (\A p \in Procs : pc[p] # "cache") => Visible = Content
BY ConstantsOK DEF LockInv, TypeOK, Locks, Visible

\* A call in its critical section is alone in it.
LEMMA ServiceAlone ==
  ASSUME LockInv, NEW p \in Procs, op[p] = "boot" \/ InService(p)
  PROVE  \A q \in Procs \ {p} :
           pc[q] \notin {"save", "rename", "cache", "saved", "saveErr"}
<1> SUFFICES ASSUME NEW q \in Procs \ {p},
                    pc[q] \in {"save", "rename", "cache", "saved", "saveErr"}
             PROVE  FALSE
  OBVIOUS
<1>1. op[q] \in {"update", "migrate", "boot"}
  BY ConstantsOK DEF LockInv, Control
<1>2. op[p] # "boot" /\ op[q] # "boot"
  BY <1>1 DEF LockInv, Control, InService
<1>3. InService(p) /\ InService(q)
  BY <1>1, <1>2 DEF InService
<1> QED
  BY <1>3 DEF LockInv, Locks

LEMMA VisibleInService ==
  ASSUME LockInv, NEW p \in Procs, op[p] = "boot" \/ InService(p), pc[p] # "cache"
  PROVE  Visible = Content
<1>1. \A q \in Procs : pc[q] # "cache"
  BY ServiceAlone
<1> QED
  BY <1>1, VisibleCases

\* A step that neither touches the file nor begins or ends a Save's last phase
\* changes nothing that can be seen.
LEMMA VisibleKept ==
  ASSUME TypeOK, Locks, TypeOK', Locks', UNCHANGED <<status, disk>>,
         \A q \in Procs : pc[q] = "cache" <=> pc'[q] = "cache",
         \A q \in Procs : pc[q] = "cache" => base'[q] = base[q]
  PROVE  Visible' = Visible /\ Content' = Content
<1>1. Content' = Content
  BY DEF Content
<1>2. CASE \E q \in Procs : pc[q] = "cache"
  <2> PICK q \in Procs : pc[q] = "cache"
    BY <1>2
  <2>1. fileMu = q /\ fileMu' = q
    BY DEF Locks
  <2> QED
    BY <1>1, <2>1 DEF Visible
<1>3. CASE \A q \in Procs : pc[q] # "cache"
  BY <1>1, <1>3 DEF Visible
<1> QED
  BY <1>1, <1>2, <1>3

LEMMA StoreInvInit == Quiet /\ Init => StoreInv
<1> SUFFICES ASSUME Quiet, Init PROVE StoreInv
  OBVIOUS
<1>1. Visible = Content /\ Content = disk
  BY ConstantsOK DEF Quiet, Init, Visible, Content
<1>2. FileInv
  BY DEF Quiet, Init, FileInv
<1>3. CallInv
  BY DEF Init, CallInv
<1>4. CacheInv
  BY <1>1 DEF Init, CacheInv, Fresh
<1> QED
  BY <1>2, <1>3, <1>4 DEF StoreInv

LEMMA StoreStep ==
  ASSUME Quiet, LockInv, StoreInv, [Next]_vars
  PROVE  StoreInv'
<1>0. TypeOK' /\ Locks' /\ Control'
  BY TypeStep, LockStep DEF LockInv
<1> USE ConstantsOK DEF Goto, Fault, LoadReturns, Return, PCs, fileVars, repoVars,
        procVars, bounds, history
<1>1. ASSUME NEW p \in Procs, LoadFast(p) PROVE StoreInv'
  <2>1. Visible' = Visible /\ Content' = Content
    BY <1>0, <1>1, VisibleKept DEF LoadFast, LockInv, TypeOK
  <2>2. FileInv'
    BY <1>1 DEF LoadFast, StoreInv, FileInv, LockInv, TypeOK, Quiet
  <2>0. pc'[p] = "loaded" => val'[p] = Visible /\ base'[p] = Visible
    <3>1. status = "absent" => Visible = {}
      <4>1. status = "absent" => \A q \in Procs : pc[q] # "cache"
        BY DEF StoreInv, CallInv
      <4> QED
        BY <4>1, VisibleCases DEF Content
    <3> QED
      BY <1>1, <3>1 DEF LoadFast, StoreInv, CacheInv, LockInv, TypeOK
  <2>a. op[p] # "get" => Visible = Content
    <3>1. op[p] # "get" => op[p] = "boot" \/ InService(p)
      BY <1>1 DEF LoadFast, LockInv, Control, InService, TypeOK
    <3> QED
      BY <1>1, <3>1, VisibleInService DEF LoadFast
  <2>3. CallInv'
    BY <1>0, <1>1, <2>1, <2>0, <2>a DEF LoadFast, StoreInv, CallInv, LockInv, TypeOK, Control
  <2>4. CacheInv'
    <3>1. Fresh' => cache' = Visible'
      BY <1>1, <2>1, <2>0, <2>a DEF LoadFast, StoreInv, CacheInv, Fresh
    <3>2. acked' \subseteq Visible' /\ \A q \in Procs : floor'[q] \subseteq acked'
      BY <1>1, <2>1 DEF LoadFast, StoreInv, CacheInv
    <3>3. \A q \in Procs : pc'[q] = "loaded" => floor'[q] \subseteq val'[q]
      BY <1>0, <1>1, <2>1, <2>0, <2>a DEF LoadFast, StoreInv, CacheInv, LockInv, TypeOK
    <3> QED
      BY <3>1, <3>2, <3>3 DEF CacheInv
  <2> QED
    BY <2>2, <2>3, <2>4 DEF StoreInv
<1>2. ASSUME NEW p \in Procs, LoadRecheck(p) PROVE StoreInv'
  <2>1. Visible' = Visible /\ Content' = Content
    BY <1>0, <1>2, VisibleKept DEF LoadRecheck, LockInv, TypeOK
  <2>2. FileInv'
    BY <1>2 DEF LoadRecheck, StoreInv, FileInv, LockInv, TypeOK, Quiet
  <2>0. pc'[p] = "loaded" => val'[p] = Visible /\ base'[p] = Visible
    <3>1. status = "absent" => Visible = {}
      <4>1. status = "absent" => \A q \in Procs : pc[q] # "cache"
        BY DEF StoreInv, CallInv
      <4> QED
        BY <4>1, VisibleCases DEF Content
    <3> QED
      BY <1>2, <3>1 DEF LoadRecheck, StoreInv, CacheInv, LockInv, TypeOK
  <2>a. op[p] # "get" => Visible = Content
    <3>1. op[p] # "get" => op[p] = "boot" \/ InService(p)
      BY <1>2 DEF LoadRecheck, LockInv, Control, InService, TypeOK
    <3> QED
      BY <1>2, <3>1, VisibleInService DEF LoadRecheck
  <2>3. CallInv'
    BY <1>0, <1>2, <2>1, <2>0, <2>a DEF LoadRecheck, StoreInv, CallInv, LockInv, TypeOK, Control
  <2>4. CacheInv'
    <3>1. Fresh' => cache' = Visible'
      BY <1>2, <2>1, <2>0, <2>a DEF LoadRecheck, StoreInv, CacheInv, Fresh
    <3>2. acked' \subseteq Visible' /\ \A q \in Procs : floor'[q] \subseteq acked'
      BY <1>2, <2>1 DEF LoadRecheck, StoreInv, CacheInv
    <3>3. \A q \in Procs : pc'[q] = "loaded" => floor'[q] \subseteq val'[q]
      BY <1>0, <1>2, <2>1, <2>0, <2>a DEF LoadRecheck, StoreInv, CacheInv, LockInv, TypeOK
    <3> QED
      BY <3>1, <3>2, <3>3 DEF CacheInv
  <2> QED
    BY <2>2, <2>3, <2>4 DEF StoreInv
<1>3. ASSUME NEW p \in Procs, LoadRead(p) PROVE StoreInv'
  <2>1. Visible' = Visible /\ Content' = Content
    BY <1>0, <1>3, VisibleKept DEF LoadRead, LockInv, TypeOK
  <2>2. FileInv'
    BY <1>3 DEF LoadRead, StoreInv, FileInv, LockInv, TypeOK, Quiet
  <2>0. /\ Visible = Content /\ Content = disk
        /\ pc'[p] = "loaded" => val'[p] = disk /\ base'[p] = disk
        /\ cached' = TRUE /\ cache' = disk /\ pc'[p] = "loaded"
    BY <1>3 DEF LoadRead, StoreInv, FileInv, LockInv, TypeOK, Visible, Content, Quiet
  <2>3. CallInv'
    BY <1>0, <1>3, <2>1, <2>0 DEF LoadRead, StoreInv, CallInv, LockInv, TypeOK, Control
  <2>4. CacheInv'
    <3>1. Fresh' => cache' = Visible'
      BY <1>3, <2>1, <2>0 DEF LoadRead, StoreInv, CacheInv, Fresh
    <3>2. acked' \subseteq Visible' /\ \A q \in Procs : floor'[q] \subseteq acked'
      BY <1>3, <2>1 DEF LoadRead, StoreInv, CacheInv
    <3>3. \A q \in Procs : pc'[q] = "loaded" => floor'[q] \subseteq val'[q]
      BY <1>0, <1>3, <2>1, <2>0 DEF LoadRead, StoreInv, CacheInv, LockInv, TypeOK
    <3> QED
      BY <3>1, <3>2, <3>3 DEF CacheInv
  <2> QED
    BY <2>2, <2>3, <2>4 DEF StoreInv
<1>4. ASSUME NEW p \in Procs, SaveTemp(p) PROVE StoreInv'
  <2>1. Visible' = Visible /\ Content' = Content
    BY <1>0, <1>4, VisibleKept DEF SaveTemp, LockInv, TypeOK
  <2>2. FileInv'
    BY <1>4 DEF SaveTemp, StoreInv, FileInv, LockInv, TypeOK, Quiet
  <2>3. CallInv'
    BY <1>0, <1>4, <2>1 DEF SaveTemp, StoreInv, CallInv, LockInv, TypeOK, Control
  <2>4. CacheInv'
    BY <1>0, <1>4, <2>1 DEF SaveTemp, StoreInv, CacheInv, LockInv, TypeOK, Fresh
  <2> QED
    BY <2>2, <2>3, <2>4 DEF StoreInv
<1>5. ASSUME NEW p \in Procs, LockService(p) PROVE StoreInv'
  <2>1. Visible' = Visible /\ Content' = Content
    BY <1>0, <1>5, VisibleKept DEF LockService, LockInv, TypeOK
  <2>2. FileInv'
    BY <1>5 DEF LockService, StoreInv, FileInv, LockInv, TypeOK, Quiet
  <2>3. CallInv'
    BY <1>0, <1>5, <2>1 DEF LockService, StoreInv, CallInv, LockInv, TypeOK, Control
  <2>4. CacheInv'
    BY <1>0, <1>5, <2>1 DEF LockService, StoreInv, CacheInv, LockInv, TypeOK, Fresh
  <2> QED
    BY <2>2, <2>3, <2>4 DEF StoreInv
<1>6. ASSUME NEW p \in Procs, Modify(p) PROVE StoreInv'
  <2>1. Visible' = Visible /\ Content' = Content
    BY <1>0, <1>6, VisibleKept DEF Modify, LockInv, TypeOK
  <2>2. FileInv'
    BY <1>6 DEF Modify, StoreInv, FileInv, LockInv, TypeOK, Quiet
  <2>3. CallInv'
    BY <1>0, <1>6, <2>1 DEF Modify, StoreInv, CallInv, LockInv, TypeOK, Control
  <2>4. CacheInv'
    BY <1>0, <1>6, <2>1 DEF Modify, StoreInv, CacheInv, LockInv, TypeOK, Fresh
  <2> QED
    BY <2>2, <2>3, <2>4 DEF StoreInv
<1>7. ASSUME NEW p \in Procs, Migrate(p) PROVE StoreInv'
  <2>1. Visible' = Visible /\ Content' = Content
    BY <1>0, <1>7, VisibleKept DEF Migrate, LockInv, TypeOK
  <2>2. FileInv'
    BY <1>7 DEF Migrate, StoreInv, FileInv, LockInv, TypeOK, Quiet
  <2>3. CallInv'
    BY <1>0, <1>7, <2>1 DEF Migrate, StoreInv, CallInv, LockInv, TypeOK, Control
  <2>4. CacheInv'
    BY <1>0, <1>7, <2>1 DEF Migrate, StoreInv, CacheInv, LockInv, TypeOK, Fresh
  <2> QED
    BY <2>2, <2>3, <2>4 DEF StoreInv
<1>8. ASSUME NEW p \in Procs, GetReturns(p) PROVE StoreInv'
  <2>1. Visible' = Visible /\ Content' = Content
    BY <1>0, <1>8, VisibleKept DEF GetReturns, LockInv, TypeOK
  <2>2. FileInv'
    BY <1>8 DEF GetReturns, StoreInv, FileInv, LockInv, TypeOK, Quiet
  <2>3. CallInv'
    BY <1>0, <1>8, <2>1 DEF GetReturns, StoreInv, CallInv, LockInv, TypeOK, Control
  <2>4. CacheInv'
    BY <1>0, <1>8, <2>1 DEF GetReturns, StoreInv, CacheInv, LockInv, TypeOK, Fresh
  <2> QED
    BY <2>2, <2>3, <2>4 DEF StoreInv
<1>9. ASSUME NEW p \in Procs, CallFails(p) PROVE StoreInv'
  <2>1. Visible' = Visible /\ Content' = Content
    BY <1>0, <1>9, VisibleKept DEF CallFails, LockInv, TypeOK
  <2>2. FileInv'
    BY <1>9 DEF CallFails, StoreInv, FileInv, LockInv, TypeOK, Quiet
  <2>3. CallInv'
    BY <1>0, <1>9, <2>1 DEF CallFails, StoreInv, CallInv, LockInv, TypeOK, Control
  <2>4. CacheInv'
    BY <1>0, <1>9, <2>1 DEF CallFails, StoreInv, CacheInv, LockInv, TypeOK, Fresh
  <2> QED
    BY <2>2, <2>3, <2>4 DEF StoreInv
<1>10. ASSUME NEW p \in Procs, CallSucceeds(p) PROVE StoreInv'
  <2>1. Visible' = Visible /\ Content' = Content
    BY <1>0, <1>10, VisibleKept DEF CallSucceeds, LockInv, TypeOK
  <2>2. FileInv'
    BY <1>10 DEF CallSucceeds, StoreInv, FileInv, LockInv, TypeOK, Quiet
  <2>3. CallInv'
    BY <1>0, <1>10, <2>1 DEF CallSucceeds, StoreInv, CallInv, LockInv, TypeOK, Control
  <2>4. CacheInv'
    <3>1. InService(p) /\ pc[p] # "cache"
      BY <1>10 DEF CallSucceeds, InService
    <3>2. edit[p] \in Visible
      BY <1>10, <3>1, VisibleInService
         DEF CallSucceeds, StoreInv, CallInv, LockInv, Control
    <3> QED
      BY <1>0, <1>10, <2>1, <3>2
         DEF CallSucceeds, StoreInv, CacheInv, LockInv, TypeOK, Fresh
  <2> QED
    BY <2>2, <2>3, <2>4 DEF StoreInv
<1>11. ASSUME NEW p \in Procs, BootSave(p) PROVE StoreInv'
  <2>1. Visible' = Visible /\ Content' = Content
    BY <1>0, <1>11, VisibleKept DEF BootSave, LockInv, TypeOK
  <2>2. FileInv'
    BY <1>11 DEF BootSave, StoreInv, FileInv, LockInv, TypeOK, Quiet
  <2>3. CallInv'
    BY <1>0, <1>11, <2>1 DEF BootSave, StoreInv, FileInv, CallInv, LockInv, TypeOK, Control
  <2>4. CacheInv'
    BY <1>0, <1>11, <2>1 DEF BootSave, StoreInv, CacheInv, LockInv, TypeOK, Fresh
  <2> QED
    BY <2>2, <2>3, <2>4 DEF StoreInv
<1>12. ASSUME NEW p \in Procs, BootDone(p) PROVE StoreInv'
  <2>1. Visible' = Visible /\ Content' = Content
    BY <1>0, <1>12, VisibleKept DEF BootDone, LockInv, TypeOK
  <2>2. FileInv'
    BY <1>12 DEF BootDone, StoreInv, FileInv, LockInv, TypeOK, Quiet
  <2>3. CallInv'
    BY <1>0, <1>12, <2>1 DEF BootDone, StoreInv, CallInv, LockInv, TypeOK, Control
  <2>4. CacheInv'
    BY <1>0, <1>12, <2>1 DEF BootDone, StoreInv, CacheInv, LockInv, TypeOK, Fresh
  <2> QED
    BY <2>2, <2>3, <2>4 DEF StoreInv
<1>13. ASSUME NEW p \in Procs, Boot(p) PROVE StoreInv'
  <2>1. Visible' = Visible /\ Content' = Content
    BY <1>0, <1>13, VisibleKept DEF Boot, LockInv, TypeOK, Control
  <2>2. FileInv'
    BY <1>13 DEF Boot, StoreInv, FileInv, LockInv, TypeOK, Quiet
  <2>3. CallInv'
    BY <1>0, <1>13, <2>1 DEF Boot, StoreInv, CallInv, LockInv, TypeOK, Control
  <2>4. CacheInv'
    BY <1>0, <1>13, <2>1 DEF Boot, StoreInv, CacheInv, LockInv, TypeOK, Fresh
  <2> QED
    BY <2>2, <2>3, <2>4 DEF StoreInv
<1>14. ASSUME NEW p \in Procs, SaveRename(p) PROVE StoreInv'
  <2>0. InService(p) /\ fileMu = p
    BY <1>14 DEF SaveRename, InService, LockInv, Locks, Control
  <2>1. \A q \in Procs \ {p} :
          /\ pc[q] \notin {"save", "rename", "cache", "saved", "saveErr"}
          /\ pc[q] = "loaded" => op[q] = "get"
    <3>1. \A q \in Procs \ {p} : pc[q] = "loaded" => op[q] = "get"
      BY <2>0 DEF InService, LockInv, Locks, Control
    <3> QED
      BY <2>0, <3>1, ServiceAlone
  <2>2. Visible = Content /\ base[p] = Content
    BY <1>14, <2>0, VisibleInService DEF SaveRename, StoreInv, CallInv
  <2>3. CASE /\ status' = "ok" /\ disk' = val[p] /\ mtime' = stamp[p]
             /\ Goto(p, "cache") /\ UNCHANGED <<fileMu, faults>>
    <3>1. Visible' = Visible
      BY <1>14, <2>0, <2>2, <2>3 DEF SaveRename, Visible, LockInv, TypeOK
    <3>2. FileInv'
      BY <1>14, <2>1, <2>3 DEF SaveRename, StoreInv, FileInv, LockInv, TypeOK
    <3>3. CallInv'
      BY <1>0, <1>14, <2>1, <2>3 DEF SaveRename, StoreInv, CallInv, LockInv, TypeOK
    <3>4. CacheInv'
      BY <1>14, <2>3, <3>1
         DEF SaveRename, StoreInv, FileInv, CacheInv, LockInv, TypeOK, Fresh
    <3> QED
      BY <3>2, <3>3, <3>4 DEF StoreInv
  <2>4. CASE fileMu' = NoProc /\ Goto(p, "saveErr") /\ UNCHANGED <<fileVars, versions>>
    <3>1. Visible' = Visible /\ Content' = Content
      BY <1>0, <1>14, <2>4, VisibleKept DEF SaveRename, LockInv, TypeOK
    <3>2. FileInv'
      BY <1>14, <2>4 DEF SaveRename, StoreInv, FileInv, LockInv, TypeOK
    <3>3. CallInv'
      BY <1>14, <2>2, <2>4, <3>1 DEF SaveRename, StoreInv, CallInv, LockInv, TypeOK
    <3>4. CacheInv'
      BY <1>14, <2>4, <3>1 DEF SaveRename, StoreInv, CacheInv, LockInv, TypeOK, Fresh
    <3> QED
      BY <3>2, <3>3, <3>4 DEF StoreInv
  <2> QED
    BY <1>14, <2>3, <2>4 DEF SaveRename
<1>15. ASSUME NEW p \in Procs, SaveCache(p) PROVE StoreInv'
  <2>0. InService(p)
    BY <1>15 DEF SaveCache, InService, LockInv, Locks, Control
  <2>1. \A q \in Procs \ {p} :
          pc[q] \notin {"save", "rename", "cache", "saved", "saveErr"}
    BY <2>0, ServiceAlone
  <2>2. Content = val[p] /\ Content' = Content /\ Visible' = Content
    <3>1. \A q \in Procs : pc'[q] # "cache"
      BY <1>15, <2>1 DEF SaveCache, LockInv, TypeOK
    <3>2. Content = val[p] /\ Content' = Content
      BY <1>15 DEF SaveCache, StoreInv, CallInv, Content
    <3> QED
      BY <3>1, <3>2 DEF Visible
  <2>3. Visible = base[p] /\ base[p] \subseteq val[p]
    BY <1>15, VisibleCases DEF SaveCache, StoreInv, CallInv, LockInv, TypeOK
  <2>4. FileInv'
    BY <1>15 DEF SaveCache, StoreInv, FileInv, LockInv, TypeOK
  <2>5. CallInv'
    BY <1>0, <1>15, <2>1, <2>2 DEF SaveCache, StoreInv, CallInv, LockInv, TypeOK, Control
  <2>6. CacheInv'
    BY <1>15, <2>2, <2>3 DEF SaveCache, StoreInv, CacheInv, LockInv, TypeOK
  <2> QED
    BY <2>4, <2>5, <2>6 DEF StoreInv
<1>16. ASSUME NEW p \in Procs, NEW o \in Ops, NEW e \in AllEdits \cup {NoEdit}, Call(p, o, e)
       PROVE  StoreInv'
  <2>1. Visible' = Visible /\ Content' = Content
    BY <1>0, <1>16, VisibleKept DEF Call, LockInv, TypeOK
  <2>2. FileInv'
    BY <1>16 DEF Call, StoreInv, FileInv, LockInv, TypeOK
  <2>3. CallInv'
    BY <1>16, <2>1 DEF Call, StoreInv, CallInv, LockInv, TypeOK
  <2>4. CacheInv'
    BY <1>16, <2>1 DEF Call, StoreInv, CacheInv, LockInv, TypeOK, Fresh
  <2> QED
    BY <2>2, <2>3, <2>4 DEF StoreInv
<1>17. ASSUME Crash PROVE StoreInv'
  <2>1. Visible' = Content /\ Content' = Content
    BY <1>17 DEF Crash, Visible, Content
  <2>2. Visible \subseteq Content
    <3>1. CASE \E q \in Procs : pc[q] = "cache"
      <4> PICK q \in Procs : pc[q] = "cache"
        BY <3>1
      <4> QED
        BY VisibleCases DEF StoreInv, CallInv, Content
    <3>2. CASE \A q \in Procs : pc[q] # "cache"
      BY <3>2, VisibleCases
    <3> QED
      BY <3>1, <3>2
  <2>3. FileInv'
    BY <1>17 DEF Crash, StoreInv, FileInv, LockInv, TypeOK
  <2>4. CallInv'
    BY <1>17 DEF Crash, CallInv
  <2>5. CacheInv'
    BY <1>17, <2>1, <2>2 DEF Crash, StoreInv, CacheInv, Fresh
  <2> QED
    BY <2>3, <2>4, <2>5 DEF StoreInv
<1>18. ASSUME Tick PROVE StoreInv'
  <2>1. Visible' = Visible /\ Content' = Content
    BY <1>18 DEF Tick, Visible, Content
  <2> QED
    BY <1>18, <2>1 DEF Tick, StoreInv, FileInv, CallInv, CacheInv, LockInv, TypeOK, Fresh
<1>19. ~ Outside
  BY DEF Quiet, Outside, RestoreTemp, CronLoad, CronTemp, OutsiderRename, StoreInv,
         FileInv, NoOutsider
<1>20. CASE UNCHANGED vars
  <2>1. Visible' = Visible /\ Content' = Content
    BY <1>20 DEF vars, Visible, Content
  <2> QED
    BY <1>20, <2>1 DEF vars, StoreInv, FileInv, CallInv, CacheInv, Fresh
<1> QED
  BY <1>1, <1>2, <1>3, <1>4, <1>5, <1>6, <1>7, <1>8, <1>9, <1>10, <1>11, <1>12,
     <1>13, <1>14, <1>15, <1>16, <1>17, <1>18, <1>19, <1>20
     DEF Next, Step, Load, Save, Service, Start

LEMMA StoreInvariant == Quiet => (Spec => [](LockInv /\ StoreInv))
<1> SUFFICES ASSUME Quiet PROVE Spec => [](LockInv /\ StoreInv)
  OBVIOUS
<1>1. Init => LockInv /\ StoreInv
  BY LockInvInit, StoreInvInit
<1>2. LockInv /\ StoreInv /\ [Next]_vars => (LockInv /\ StoreInv)'
  BY TypeStep, LockStep, StoreStep DEF LockInv
<1> QED
  BY <1>1, <1>2, PTL DEF Spec

\* No acknowledged edit is ever missing from the file: not after concurrent
\* updates, not after failed saves, not after crashes and restarts.
THEOREM NoUpdateIsLost == Quiet => (Spec => []NoLostUpdate)
<1> SUFFICES ASSUME Quiet PROVE Spec => []NoLostUpdate
  OBVIOUS
<1>1. LockInv /\ StoreInv => NoLostUpdate
  <2> SUFFICES ASSUME LockInv, StoreInv PROVE acked \subseteq Content
    BY DEF NoLostUpdate
  <2>1. CASE \E q \in Procs : pc[q] = "cache"
    <3> PICK q \in Procs : pc[q] = "cache"
      BY <2>1
    <3> QED
      BY VisibleCases DEF StoreInv, CallInv, CacheInv, Content
  <2>2. CASE \A q \in Procs : pc[q] # "cache"
    BY <2>2, VisibleCases DEF StoreInv, CacheInv
  <2> QED
    BY <2>1, <2>2
<1> QED
  BY StoreInvariant, <1>1, PTL

\* The cache is never believed when it differs from what is visible.
THEOREM CacheIsCoherent == Quiet => (Spec => []CacheCoherent)
<1> SUFFICES ASSUME Quiet PROVE Spec => []CacheCoherent
  OBVIOUS
<1>1. LockInv /\ StoreInv => CacheCoherent
  BY DEF StoreInv, CacheInv, CacheCoherent
<1> QED
  BY StoreInvariant, <1>1, PTL

\* A load returns nothing older than what was acknowledged when it began.
THEOREM LoadsAreCurrent == Quiet => (Spec => []ReadsAreCurrent)
<1> SUFFICES ASSUME Quiet PROVE Spec => []ReadsAreCurrent
  OBVIOUS
<1>1. LockInv /\ StoreInv => ReadsAreCurrent
  BY DEF StoreInv, CacheInv, ReadsAreCurrent
<1> QED
  BY StoreInvariant, <1>1, PTL

\* A Save that reports an error has not changed the file.
THEOREM FailedSavesChangeNothing == Quiet => (Spec => []FailedSaveKeepsFile)
<1> SUFFICES ASSUME Quiet PROVE Spec => []FailedSaveKeepsFile
  OBVIOUS
<1>1. LockInv /\ StoreInv => FailedSaveKeepsFile
  BY DEF StoreInv, CallInv, FailedSaveKeepsFile
<1> QED
  BY StoreInvariant, <1>1, PTL

-----------------------------------------------------------------------------
(***************************************************************************)
(* Whoever writes the file, and whatever fails, what is loaded has been in *)
(* it.                                                                     *)
(***************************************************************************)

VersionInv ==
  /\ status = "ok" => disk \in versions
  /\ cached => cache \in versions
  /\ \A p \in Procs : pc[p] = "cache" => val[p] \in versions
  /\ \A p \in Procs : pc[p] = "loaded" => val[p] \in versions \cup {{}}

LEMMA VersionStep ==
  ASSUME TypeOK, VersionInv, [Next]_vars
  PROVE  VersionInv'
<1> USE DEF TypeOK, VersionInv, Goto, Fault, LoadReturns, Return, fileVars, repoVars,
        procVars, bounds, history, Fresh
<1>1. ASSUME NEW p \in Procs, LoadFast(p) PROVE VersionInv'
  BY <1>1 DEF LoadFast
<1>2. ASSUME NEW p \in Procs, LoadRecheck(p) PROVE VersionInv'
  BY <1>2 DEF LoadRecheck
<1>3. ASSUME NEW p \in Procs, LoadRead(p) PROVE VersionInv'
  BY <1>3 DEF LoadRead
<1>4. ASSUME NEW p \in Procs, Save(p) PROVE VersionInv'
  <2>1. CASE SaveTemp(p)
    BY <2>1 DEF SaveTemp
  <2>2. CASE SaveRename(p)
    BY <2>2 DEF SaveRename
  <2>3. CASE SaveCache(p)
    BY <2>3 DEF SaveCache
  <2> QED
    BY <1>4, <2>1, <2>2, <2>3 DEF Save
<1>5. ASSUME NEW p \in Procs, Service(p) PROVE VersionInv'
  <2>1. CASE LockService(p) \/ Modify(p) \/ Migrate(p)
    BY <2>1 DEF LockService, Modify, Migrate
  <2>2. CASE GetReturns(p) \/ CallFails(p) \/ CallSucceeds(p)
    BY <2>2 DEF GetReturns, CallFails, CallSucceeds
  <2> QED
    BY <1>5, <2>1, <2>2 DEF Service
<1>6. ASSUME NEW p \in Procs, Start(p) \/ Boot(p) PROVE VersionInv'
  BY <1>6 DEF Start, BootSave, BootDone, Boot
<1>7. ASSUME NEW p \in Procs, NEW o \in Ops, NEW e \in AllEdits \cup {NoEdit}, Call(p, o, e)
      PROVE  VersionInv'
  BY <1>7 DEF Call
<1>8. CASE Crash
  BY <1>8 DEF Crash
<1>9. CASE Tick
  BY <1>9 DEF Tick
<1>10. CASE Outside
  BY <1>10 DEF Outside, RestoreTemp, CronLoad, CronTemp, OutsiderRename
<1>11. CASE UNCHANGED vars
  BY <1>11 DEF vars
<1> QED
  BY <1>1, <1>2, <1>3, <1>4, <1>5, <1>6, <1>7, <1>8, <1>9, <1>10, <1>11
     DEF Next, Step, Load

\* No load returns a configuration that has never been in the file.
THEOREM NoReadIsDirty == Spec => []NoDirtyRead
<1>1. Init => VersionInv
  BY DEF Init, VersionInv
<1>2. TypeOK /\ VersionInv /\ [Next]_vars => VersionInv'
  BY VersionStep
<1>3. VersionInv => NoDirtyRead
  BY DEF VersionInv, NoDirtyRead
<1> QED
  BY TypeCorrect, <1>1, <1>2, <1>3, PTL DEF Spec

-----------------------------------------------------------------------------
(* In a quiet environment ConfigService implements AtomicConfig: every     *)
(* step of ConfigStore is a step of AtomicConfig or leaves what it shows   *)
(* unchanged.                                                              *)

Ready == LockInv /\ StoreInv /\ TypeOK' /\ Locks' /\ Control'

\* What AtomicConfig sees of goroutine p.
Shown(p) == <<stageBar[p], kindBar[p], edit[p], resultBar[p]>>

\* A step of one goroutine shows nothing of the others.
OnlyStep(p) ==
  \A q \in Procs \ {p} :
    pc'[q] = pc[q] /\ op'[q] = op[q] /\ edit'[q] = edit[q] /\ val'[q] = val[q]

LEMMA OthersShown ==
  ASSUME Ready, NEW p \in Procs, OnlyStep(p)
  PROVE  \A q \in Procs \ {p} :
           /\ stageBar'[q] = stageBar[q] /\ kindBar'[q] = kindBar[q]
           /\ edit'[q] = edit[q] /\ resultBar'[q] = resultBar[q]
BY DEF OnlyStep, stageBar, kindBar, resultBar, Served, Finished

\* A step that shows nothing at all is a stutter of AtomicConfig.
LEMMA Stutters ==
  ASSUME Ready, NEW p \in Procs, OnlyStep(p), Shown(p)' = Shown(p),
         Visible' = Visible
  PROVE  UNCHANGED Atomic!vars
<1>1. \A q \in Procs :
        /\ stageBar'[q] = stageBar[q] /\ kindBar'[q] = kindBar[q]
        /\ edit'[q] = edit[q] /\ resultBar'[q] = resultBar[q]
  BY OthersShown DEF Shown
<1>2. stageBar' = stageBar
  BY <1>1 DEF stageBar
<1>3. kindBar' = kindBar
  BY <1>1 DEF kindBar
<1>4. resultBar' = resultBar
  BY <1>1 DEF resultBar
<1>5. edit' = edit
  BY <1>1 DEF Ready, LockInv, TypeOK
<1> QED
  BY <1>2, <1>3, <1>4, <1>5 DEF Atomic!vars

\* What a goroutine shows becomes <<s, k, e, r>>.
LEMMA Shows ==
  ASSUME Ready, NEW p \in Procs, OnlyStep(p), NEW s, NEW k, NEW e, NEW r,
         Shown(p)' = <<s, k, e, r>>
  PROVE  /\ stageBar' = [stageBar EXCEPT ![p] = s]
         /\ kindBar' = [kindBar EXCEPT ![p] = k]
         /\ edit' = [edit EXCEPT ![p] = e]
         /\ resultBar' = [resultBar EXCEPT ![p] = r]
<1>1. \A q \in Procs \ {p} :
        /\ stageBar'[q] = stageBar[q] /\ kindBar'[q] = kindBar[q]
        /\ edit'[q] = edit[q] /\ resultBar'[q] = resultBar[q]
  BY OthersShown
<1>2. stageBar'[p] = s /\ kindBar'[p] = k /\ edit'[p] = e /\ resultBar'[p] = r
  BY DEF Shown
<1>3. stageBar' = [stageBar EXCEPT ![p] = s]
  BY <1>1, <1>2 DEF stageBar
<1>4. kindBar' = [kindBar EXCEPT ![p] = k]
  BY <1>1, <1>2 DEF kindBar
<1>5. edit' = [edit EXCEPT ![p] = e]
  BY <1>1, <1>2 DEF Ready, LockInv, TypeOK
<1>6. resultBar' = [resultBar EXCEPT ![p] = r]
  BY <1>1, <1>2 DEF resultBar
<1> QED
  BY <1>3, <1>4, <1>5, <1>6

LEMMA Unfinished ==
  ASSUME NEW p \in Procs
  PROVE  /\ stageBar[p] = IF ~Served(p) THEN "idle"
                          ELSE IF Finished(p) THEN "done" ELSE "pending"
         /\ kindBar[p] = IF Served(p) THEN op[p] ELSE "none"
         /\ resultBar[p] = IF op[p] = "get" /\ pc[p] = "loaded" THEN val[p] ELSE {}
         /\ stageBar'[p] = IF ~Served(p)' THEN "idle"
                          ELSE IF Finished(p)' THEN "done" ELSE "pending"
         /\ kindBar'[p] = IF Served(p)' THEN op'[p] ELSE "none"
         /\ resultBar'[p] = IF op'[p] = "get" /\ pc'[p] = "loaded" THEN val'[p] ELSE {}
BY DEF stageBar, kindBar, resultBar

\* A load that returns: GetConfig has read, LoadWithMigration may be done.
LEMMA LoadRefines ==
  ASSUME Ready, NEW p \in Procs, OnlyStep(p), Visible' = Visible,
         op' = op, edit' = edit, pc[p] \in {"fast", "slow", "read"},
         \/ pc'[p] \in {"slow", "read", "loadErr"}
         \/ pc'[p] = "loaded" /\ val'[p] = Visible
  PROVE  [Atomic!Next]_(Atomic!vars)
<1> USE Unfinished
<1>1. CASE pc'[p] # "loaded"
  <2>1. Shown(p)' = Shown(p)
    BY <1>1 DEF Shown, Served, Finished
  <2> QED
    BY <2>1, Stutters
<1>2. CASE pc'[p] = "loaded" /\ op[p] = "get"
  <2>1. Shown(p)' = <<"done", "get", edit[p], Visible>>
    BY <1>2 DEF Shown, Served, Finished
  <2>2. stageBar[p] = "pending" /\ kindBar[p] = "get"
    BY <1>2 DEF Served, Finished
  <2>3. /\ stageBar' = [stageBar EXCEPT ![p] = "done"]
        /\ kindBar' = [kindBar EXCEPT ![p] = "get"]
        /\ resultBar' = [resultBar EXCEPT ![p] = Visible]
    BY <2>1, Shows
  <2>4. kindBar' = kindBar
    BY <2>2, <2>3 DEF kindBar
  <2>5. Atomic!Read(p)
    BY <2>2, <2>3, <2>4 DEF Atomic!Read
  <2> QED
    BY <2>5 DEF Atomic!Next
<1>3. CASE pc'[p] = "loaded" /\ op[p] = "migrate" /\ Migration \in val'[p]
  <2>1. edit[p] = Migration
    BY <1>3 DEF Ready, LockInv, Control
  <2>2. Shown(p)' = <<"done", "migrate", edit[p], {}>>
    BY <1>3 DEF Shown, Served, Finished
  <2>3. stageBar[p] = "pending" /\ kindBar[p] = "migrate" /\ resultBar[p] = {}
    BY <1>3 DEF Served, Finished
  <2>4. /\ stageBar' = [stageBar EXCEPT ![p] = "done"]
        /\ kindBar' = [kindBar EXCEPT ![p] = "migrate"]
        /\ resultBar' = [resultBar EXCEPT ![p] = {}]
    BY <2>2, Shows
  <2>5. kindBar' = kindBar /\ resultBar' = resultBar
    BY <2>3, <2>4 DEF kindBar, resultBar
  <2>6. Visible' = Visible \cup {edit[p]}
    BY <1>3, <2>1
  <2>7. Atomic!Apply(p)
    BY <2>3, <2>4, <2>5, <2>6 DEF Atomic!Apply
  <2> QED
    BY <2>7 DEF Atomic!Next
<1>4. CASE /\ pc'[p] = "loaded" /\ op[p] # "get"
           /\ ~(op[p] = "migrate" /\ Migration \in val'[p])
  <2>1. Shown(p)' = Shown(p)
    BY <1>4 DEF Shown, Served, Finished
  <2> QED
    BY <2>1, Stutters
<1> QED
  BY <1>1, <1>2, <1>3, <1>4

\* A call returns.
LEMMA ReturnRefines ==
  ASSUME Ready, NEW p \in Procs, Visible' = Visible, Return(p),
         op[p] \in {"get", "update", "migrate"}
  PROVE  [Atomic!Next]_(Atomic!vars)
<1> USE Unfinished
<1>1. OnlyStep(p) /\ pc'[p] = "idle" /\ op'[p] = "none" /\ edit'[p] = NoEdit
  BY DEF Return, Goto, OnlyStep, Ready, LockInv, TypeOK
<1>2. Shown(p)' = <<"idle", "none", NoEdit, {}>>
  BY <1>1 DEF Shown, Served, Finished
<1>3. stageBar[p] \in {"pending", "done"}
  BY DEF Served
<1>4. Atomic!End(p)
  BY <1>1, <1>2, <1>3, Shows DEF Atomic!End
<1> QED
  BY <1>4 DEF Atomic!Next

\* A step of a call before its effect, or of the start of the program.
LEMMA SilentRefines ==
  ASSUME Ready, NEW p \in Procs, OnlyStep(p), Visible' = Visible,
         op'[p] = op[p] \/ {op[p], op'[p]} = {"none", "boot"},
         edit' = edit, ~Finished(p), ~Finished(p)', op[p] # "get"
  PROVE  [Atomic!Next]_(Atomic!vars)
<1>1. Shown(p)' = Shown(p)
  BY Unfinished DEF Shown, Served
<1> QED
  BY <1>1, Stutters

LEMMA StepRefines ==
  ASSUME Quiet, LockInv, StoreInv, [Next]_vars
  PROVE  [Atomic!Next]_(Atomic!vars)
<1>0. Ready
  BY TypeStep, LockStep DEF LockInv, Ready
<1> USE ConstantsOK DEF Goto, Fault, LoadReturns, fileVars, repoVars, procVars,
        bounds, history
<1>v. ASSUME NEW p \in Procs,
             \/ LoadFast(p) \/ LoadRecheck(p) \/ LoadRead(p) \/ SaveTemp(p)
             \/ LockService(p) \/ Modify(p) \/ Migrate(p)
             \/ GetReturns(p) \/ CallFails(p) \/ CallSucceeds(p)
             \/ BootSave(p) \/ BootDone(p) \/ Boot(p)
      PROVE  Visible' = Visible
  <2>1. UNCHANGED <<status, disk>>
    BY <1>v DEF LoadFast, LoadRecheck, LoadRead, SaveTemp, LockService, Modify, Migrate,
                GetReturns, CallFails, CallSucceeds, BootSave, BootDone, Boot
  <2>2. pc[p] # "cache" /\ pc'[p] # "cache"
    BY <1>0, <1>v
       DEF LoadFast, LoadRecheck, LoadRead, SaveTemp, LockService, Modify, Migrate,
           GetReturns, CallFails, CallSucceeds, BootSave, BootDone, Boot, Return,
           Ready, LockInv, TypeOK, Control
  <2>3. \A q \in Procs \ {p} : pc'[q] = pc[q] /\ base'[q] = base[q]
    BY <1>0, <1>v
       DEF LoadFast, LoadRecheck, LoadRead, SaveTemp, LockService, Modify, Migrate,
           GetReturns, CallFails, CallSucceeds, BootSave, BootDone, Boot, Return,
           Ready, LockInv, TypeOK
  <2> QED
    BY <1>0, <2>1, <2>2, <2>3, VisibleKept DEF Ready, LockInv
<1>1. ASSUME NEW p \in Procs, LoadFast(p) PROVE [Atomic!Next]_(Atomic!vars)
  <2>1. status = "absent" => Visible = {}
    <3>1. status = "absent" => \A q \in Procs : pc[q] # "cache"
      BY DEF StoreInv, CallInv
    <3> QED
      BY <3>1, VisibleCases DEF Content
  <2>2. /\ OnlyStep(p) /\ op' = op /\ edit' = edit
    BY <1>1 DEF LoadFast, OnlyStep, LockInv, TypeOK
  <2>3. \/ pc'[p] \in {"slow", "read", "loadErr"}
        \/ pc'[p] = "loaded" /\ val'[p] = Visible
    BY <1>1, <2>1 DEF LoadFast, LockInv, TypeOK, StoreInv, CacheInv
  <2> QED
    BY <1>0, <1>1, <1>v, <2>2, <2>3, LoadRefines DEF LoadFast
<1>2. ASSUME NEW p \in Procs, LoadRecheck(p) PROVE [Atomic!Next]_(Atomic!vars)
  <2>1. status = "absent" => Visible = {}
    <3>1. status = "absent" => \A q \in Procs : pc[q] # "cache"
      BY DEF StoreInv, CallInv
    <3> QED
      BY <3>1, VisibleCases DEF Content
  <2>2. /\ OnlyStep(p) /\ op' = op /\ edit' = edit
    BY <1>2 DEF LoadRecheck, OnlyStep, LockInv, TypeOK
  <2>3. \/ pc'[p] \in {"slow", "read", "loadErr"}
        \/ pc'[p] = "loaded" /\ val'[p] = Visible
    BY <1>2, <2>1 DEF LoadRecheck, LockInv, TypeOK, StoreInv, CacheInv
  <2> QED
    BY <1>0, <1>2, <1>v, <2>2, <2>3, LoadRefines DEF LoadRecheck
<1>3. ASSUME NEW p \in Procs, LoadRead(p) PROVE [Atomic!Next]_(Atomic!vars)
  <2>1. Visible = disk
    BY <1>3 DEF LoadRead, StoreInv, FileInv, LockInv, TypeOK, Visible, Content
  <2>2. /\ OnlyStep(p) /\ op' = op /\ edit' = edit
        /\ \/ pc'[p] \in {"slow", "read", "loadErr"}
           \/ pc'[p] = "loaded" /\ val'[p] = Visible
    BY <1>3, <2>1 DEF LoadRead, OnlyStep, LockInv, TypeOK
  <2> QED
    BY <1>0, <1>3, <1>v, <2>2, LoadRefines DEF LoadRead
<1>4. ASSUME NEW p \in Procs,
             \/ SaveTemp(p) \/ LockService(p) \/ Modify(p) \/ Migrate(p)
             \/ BootSave(p) \/ BootDone(p) \/ Boot(p)
      PROVE  [Atomic!Next]_(Atomic!vars)
  <2>1. OnlyStep(p)
    BY <1>4 DEF SaveTemp, LockService, Modify, Migrate, BootSave, BootDone, Boot, Return,
                OnlyStep, LockInv, TypeOK
  <2>2. /\ op[p] # "get"
        /\ op'[p] = op[p] \/ {op[p], op'[p]} = {"none", "boot"}
    BY <1>4 DEF SaveTemp, LockService, Modify, Migrate, BootSave, BootDone, Boot, Return,
                LockInv, TypeOK, Control
  <2>3. edit' = edit
    <3>1. CASE BootDone(p)
      <4>1. edit[p] = NoEdit /\ edit' = [edit EXCEPT ![p] = NoEdit]
        BY <1>0, <3>1 DEF BootDone, Return, Ready, LockInv, Control
      <4> QED
        BY <4>1 DEF LockInv, TypeOK
    <3> QED
      BY <1>4, <3>1 DEF SaveTemp, LockService, Modify, Migrate, BootSave, Boot
  <2>4. ~Finished(p) /\ ~Finished(p)'
    BY <1>4, <2>2 DEF SaveTemp, LockService, Modify, Migrate, BootSave, BootDone, Boot,
                Return, Finished, LockInv, TypeOK, Control
  <2> QED
    BY <1>0, <1>4, <1>v, <2>1, <2>2, <2>3, <2>4, SilentRefines
<1>5. ASSUME NEW p \in Procs, GetReturns(p) \/ CallFails(p) \/ CallSucceeds(p)
      PROVE  [Atomic!Next]_(Atomic!vars)
  BY <1>0, <1>5, <1>v, ReturnRefines DEF GetReturns, CallFails, CallSucceeds
<1>6. ASSUME NEW p \in Procs, SaveRename(p) PROVE [Atomic!Next]_(Atomic!vars)
  <2>0. InService(p) /\ fileMu = p
    BY <1>6 DEF SaveRename, InService, LockInv, Locks, Control
  <2>1. Visible = Content /\ base[p] = Content
    BY <1>6, <2>0, VisibleInService DEF SaveRename, StoreInv, CallInv
  <2>2. Visible' = Visible
    <3>1. \A q \in Procs : pc[q] # "cache"
      BY <1>6, <2>0, ServiceAlone DEF SaveRename
    <3> QED
      BY <1>0, <1>6, <2>0, <2>1, <3>1
         DEF SaveRename, Visible, Content, Ready, LockInv, TypeOK
  <2>3. /\ OnlyStep(p) /\ op' = op /\ edit' = edit /\ op[p] # "get"
        /\ ~Finished(p) /\ ~Finished(p)'
    BY <1>6 DEF SaveRename, OnlyStep, Finished, LockInv, TypeOK, Control
  <2> QED
    BY <1>0, <2>2, <2>3, SilentRefines
<1>7. ASSUME NEW p \in Procs, SaveCache(p) PROVE [Atomic!Next]_(Atomic!vars)
  <2>0. InService(p)
    BY <1>7 DEF SaveCache, InService, LockInv, Locks, Control
  <2>1. Visible' = Content /\ Content = val[p]
    <3>1. \A q \in Procs : pc'[q] # "cache"
      BY <1>7, <2>0, ServiceAlone DEF SaveCache, LockInv, TypeOK
    <3>2. Content' = Content /\ Content = val[p]
      BY <1>7 DEF SaveCache, StoreInv, CallInv, Content
    <3> QED
      BY <3>1, <3>2 DEF Visible
  <2>2. Visible = base[p]
    BY <1>7, VisibleCases DEF SaveCache
  <2>3. OnlyStep(p) /\ op' = op /\ edit' = edit /\ pc'[p] = "saved"
    BY <1>7 DEF SaveCache, OnlyStep, LockInv, TypeOK
  <2>4. CASE op[p] = "boot"
    <3>1. Visible' = Visible
      BY <1>7, <2>1, <2>2, <2>4 DEF SaveCache, StoreInv, CallInv
    <3>2. ~Finished(p) /\ ~Finished(p)'
      BY <2>3, <2>4 DEF Finished
    <3> QED
      BY <1>0, <2>3, <2>4, <3>1, <3>2, SilentRefines
  <2>5. CASE op[p] # "boot"
    <3>1. op[p] \in {"update", "migrate"}
      BY <2>0, <2>5 DEF InService
    <3>2. Visible' = Visible \cup {edit[p]}
      BY <1>7, <2>1, <2>2, <2>5 DEF SaveCache, StoreInv, CallInv
    <3>3. stageBar[p] = "pending" /\ kindBar[p] = op[p] /\ resultBar[p] = {}
      BY <1>7, <3>1, Unfinished DEF SaveCache, Served, Finished
    <3>4. Shown(p)' = <<"done", op[p], edit[p], {}>>
      BY <2>3, <3>1, Unfinished DEF Shown, Served, Finished
    <3>5. /\ stageBar' = [stageBar EXCEPT ![p] = "done"]
          /\ kindBar' = [kindBar EXCEPT ![p] = op[p]]
          /\ resultBar' = [resultBar EXCEPT ![p] = {}]
      BY <1>0, <2>3, <3>4, Shows
    <3>6. kindBar' = kindBar /\ resultBar' = resultBar
      BY <3>3, <3>5 DEF kindBar, resultBar
    <3>7. Atomic!Apply(p)
      BY <2>3, <3>1, <3>2, <3>3, <3>5, <3>6 DEF Atomic!Apply
    <3> QED
      BY <3>7 DEF Atomic!Next
  <2> QED
    BY <2>4, <2>5
<1>8. ASSUME NEW p \in Procs, NEW o \in Ops, NEW e \in AllEdits \cup {NoEdit}, Call(p, o, e)
      PROVE  [Atomic!Next]_(Atomic!vars)
  <2>1. o \in {"get", "update", "migrate"}
    BY <1>8
  <2>2. /\ OnlyStep(p) /\ op'[p] = o /\ edit'[p] = e /\ op[p] = "none"
        /\ pc'[p] \in {"fast", "svc"} /\ UNCHANGED <<status, disk, base>>
        /\ pc[p] = "idle"
    BY <1>8 DEF Call, OnlyStep, LockInv, TypeOK, Control
  <2>3. Visible' = Visible
    BY <1>0, <2>2, VisibleKept DEF OnlyStep, Ready, LockInv
  <2>4. stageBar[p] = "idle" /\ resultBar[p] = {}
    BY <2>2, Unfinished DEF Served
  <2>5. Shown(p)' = <<"pending", o, e, {}>>
    BY <2>1, <2>2, Unfinished DEF Shown, Served, Finished
  <2>6. /\ stageBar' = [stageBar EXCEPT ![p] = "pending"]
        /\ kindBar' = [kindBar EXCEPT ![p] = o]
        /\ edit' = [edit EXCEPT ![p] = e]
        /\ resultBar' = [resultBar EXCEPT ![p] = {}]
    BY <1>0, <2>2, <2>5, Shows
  <2>7. resultBar' = resultBar
    BY <2>4, <2>6 DEF resultBar
  <2>8. Atomic!Begin(p, o, e)
    BY <2>3, <2>4, <2>6, <2>7 DEF Atomic!Begin
  <2>9. \/ o = "get" /\ e = NoEdit
        \/ o \in {"update", "migrate"} /\ e \in Atomic!AllEdits
    BY <1>8, <2>1 DEF Call, Atomic!AllEdits
  <2> QED
    BY <2>8, <2>9 DEF Atomic!Next
<1>9. ASSUME Crash PROVE [Atomic!Next]_(Atomic!vars)
  <2>1. Visible' = Content
    BY <1>9 DEF Crash, Visible, Content
  <2>2. /\ stageBar' = [p \in Procs |-> "idle"]
        /\ kindBar' = [p \in Procs |-> "none"]
        /\ edit' = [p \in Procs |-> NoEdit]
        /\ resultBar' = [p \in Procs |-> {}]
    BY <1>9 DEF Crash, stageBar, kindBar, resultBar, Served
  <2>3. \/ Visible' = Visible
        \/ \E p \in Procs :
             /\ stageBar[p] = "pending" /\ kindBar[p] \in {"update", "migrate"}
             /\ Visible' = Visible \cup {edit[p]}
    <3>1. CASE \A p \in Procs : pc[p] # "cache"
      BY <2>1, <3>1, VisibleCases
    <3>2. CASE \E p \in Procs : pc[p] = "cache"
      <4> PICK p \in Procs : pc[p] = "cache"
        BY <3>2
      <4>1. Visible = base[p] /\ Content = val[p]
        BY VisibleCases DEF StoreInv, CallInv, Content
      <4>2. op[p] \in {"update", "migrate", "boot"}
        BY DEF LockInv, TypeOK, Control
      <4>3. CASE op[p] = "boot"
        BY <2>1, <4>1, <4>3 DEF StoreInv, CallInv
      <4>4. CASE op[p] \in {"update", "migrate"}
        BY <2>1, <4>1, <4>4, Unfinished DEF StoreInv, CallInv, Served, Finished
      <4> QED
        BY <4>2, <4>3, <4>4
    <3> QED
      BY <3>1, <3>2
  <2>4. Atomic!Crash
    BY <2>2, <2>3 DEF Atomic!Crash
  <2> QED
    BY <2>4 DEF Atomic!Next
<1>10. ASSUME Tick \/ UNCHANGED vars PROVE [Atomic!Next]_(Atomic!vars)
  <2>1. UNCHANGED <<status, disk, fileMu, pc, op, edit, base, val>>
    BY <1>10 DEF Tick, vars
  <2>2. UNCHANGED <<Visible, stageBar, kindBar, resultBar>>
    BY <2>1 DEF Visible, Content, stageBar, kindBar, resultBar, Served, Finished
  <2> QED
    BY <2>1, <2>2 DEF Atomic!vars
<1>11. ~ Outside
  BY DEF Quiet, Outside, RestoreTemp, CronLoad, CronTemp, OutsiderRename, StoreInv,
         FileInv, NoOutsider
<1> QED
  BY <1>1, <1>2, <1>3, <1>4, <1>5, <1>6, <1>7, <1>8, <1>9, <1>10, <1>11
     DEF Next, Step, Load, Save, Service, Start

\* Every GetConfig, UpdateConfig and LoadWithMigration takes effect at one
\* instant between its call and its return, or, when it fails, not at all.
THEOREM ServiceIsLinearizable == Quiet => (Spec => Linearizable)
<1> SUFFICES ASSUME Quiet PROVE Spec => Linearizable
  OBVIOUS
<1>1. Init => Atomic!Init
  <2> SUFFICES ASSUME Init PROVE Atomic!Init
    OBVIOUS
  <2>1. Visible = disk
    BY ConstantsOK DEF Quiet, Init, Visible, Content
  <2>2. disk \subseteq Atomic!AllEdits
    BY DEF Init, AllEdits, Atomic!AllEdits
  <2>3. /\ stageBar = [p \in Procs |-> "idle"]
        /\ kindBar = [p \in Procs |-> "none"]
        /\ resultBar = [p \in Procs |-> {}]
    BY DEF Init, stageBar, kindBar, resultBar, Served
  <2> QED
    BY <2>1, <2>2, <2>3 DEF Init, Atomic!Init
<1>2. LockInv /\ StoreInv /\ [Next]_vars => [Atomic!Next]_(Atomic!vars)
  BY StepRefines
<1>3. Spec => Atomic!Init /\ [][Atomic!Next]_(Atomic!vars)
  BY StoreInvariant, <1>1, <1>2, PTL DEF Spec
<1> QED
  BY <1>3 DEF Linearizable, Atomic!Spec

=============================================================================
