--------------------------- MODULE CertificatesProofs ---------------------------
(***************************************************************************)
(* Proofs about Certificates: no certificate expires unheeded, and the two *)
(* files of a domain belong together, for any number of domains and        *)
(* goroutines, any threshold below the life of a certificate, whatever     *)
(* fails, is deleted or overwritten meanwhile.                             *)
(***************************************************************************)
EXTENDS Certificates, FiniteSetTheorems, TLAPS

\* Nothing is to be renewed here for the time being.
Fresh(c) == ~Whole(c) \/ c.left > Threshold

IsCrt(c) == c = [key |-> c.key, left |-> c.left] /\ c.left \in Int /\ c.left >= -1
            /\ (~Whole(c) => c.left >= 0)

IsTask(t) ==
  t = [op |-> t.op, pc |-> t.pc, dom |-> t.dom, todo |-> t.todo, key |-> t.key,
       open |-> t.open, clean |-> t.clean]

CertShape ==
  /\ DOMAIN task = Workers /\ IsTask(task["cron"])
  /\ DOMAIN crt = Pairs /\ \A d \in Pairs : IsCrt(crt[d])
  /\ missed \in [Domains -> Nat]

\* The daily renewal does nothing but renew, and rests when nothing is left.
CronShape ==
  /\ Doing("cron", "idle") => task["cron"].todo = {}
  /\ ~Doing("cron", "idle") => task["cron"].op = "renew"
  /\ Doing("cron", "key") => \A d \in Domains : task["cron"].dom = d => Fresh(crt[d])

\* Every day of the last ones was missed.
DaysMissed ==
  \A d \in Domains :
    Whole(crt[d]) /\ crt[d].left <= Threshold => missed[d] >= Threshold - crt[d].left

\* What is not known to be kept from its renewal today is fresh, has expired, or
\* is still to be looked after.
LookedAfter ==
  \A d \in Domains :
    \/ d \in due \/ Fresh(crt[d]) \/ crt[d].left = -1 \/ d \in task["cron"].todo
    \/ Busy("cron") /\ task["cron"].dom = d

CertInv == CertShape /\ CronShape /\ DaysMissed /\ LookedAfter

LEMMA CertInvInit == CertInit => CertInv
<1> SUFFICES ASSUME CertInit PROVE CertInv
  OBVIOUS
<1>1. /\ DOMAIN task = Workers /\ task["cron"] = Asleep
      /\ DOMAIN crt = Pairs /\ \A d \in Pairs : crt[d] = NoCrt
      /\ missed \in [Domains -> Nat] /\ due = Domains
  BY DEF CertInit, Workers
<1>2. IsTask(Asleep) /\ Asleep.pc = "idle" /\ Asleep.todo = {}
  BY DEF Asleep, IsTask
<1>3. IsCrt(NoCrt) /\ ~Whole(NoCrt)
  BY DEF NoCrt, IsCrt, Whole
<1>4. CertShape
  BY <1>1, <1>2, <1>3 DEF CertShape
<1>5. CronShape
  BY <1>1, <1>2 DEF CronShape, Doing
<1>6. DaysMissed /\ LookedAfter
  BY <1>1, <1>3 DEF DaysMissed, LookedAfter, Pairs
<1> QED
  BY <1>4, <1>5, <1>6 DEF CertInv

-----------------------------------------------------------------------------
\* What happens to the files in the course of a day: a certificate is removed,
\* opened, or new, and only then are the days counted anew.
FilesChange ==
  /\ DOMAIN crt' = Pairs /\ \A d \in Pairs : IsCrt(crt'[d])
  /\ \A d \in Pairs : crt'[d] = crt[d] \/ Fresh(crt'[d])
  /\ missed' \in [Domains -> Nat]
  /\ \A d \in Domains : missed'[d] = missed[d] \/ Fresh(crt'[d])

\* The daily renewal goes on with what it is at.
CronGoesOn ==
  /\ DOMAIN task' = Workers /\ IsTask(task'["cron"])
  /\ task'["cron"].op = task["cron"].op /\ task'["cron"].dom = task["cron"].dom
  /\ task'["cron"].todo = task["cron"].todo
  /\ \/ task'["cron"].pc = task["cron"].pc
     \/ Busy("cron") /\ task'["cron"].pc \in {"obtain", "crt"}
     \/ /\ Busy("cron") /\ task'["cron"].pc = "key"
        /\ task["cron"].dom \in Domains => Fresh(crt'[task["cron"].dom])

LEMMA GoingOnKeeps ==
  ASSUME CertInv, FilesChange, CronGoesOn, due' = due PROVE CertInv'
<1>1. CertShape'
  BY DEF CertShape, FilesChange, CronGoesOn
<1>2. \A d \in Domains : d \in Pairs /\ (Fresh(crt[d]) => Fresh(crt'[d]))
  BY DEF FilesChange, Pairs
<1>3. CronShape'
  BY <1>2 DEF CertInv, CronShape, CronGoesOn, Doing, Busy
<1>4. DaysMissed'
  <2>1. \A d \in Domains : Fresh(crt'[d]) \/ (crt'[d] = crt[d] /\ missed'[d] = missed[d])
    BY <1>2 DEF FilesChange
  <2>2. \A d \in Domains : Whole(crt'[d]) /\ crt'[d].left <= Threshold => ~Fresh(crt'[d])
    BY <1>2, CertConstants DEF FilesChange, IsCrt, Fresh
  <2> QED
    BY <2>1, <2>2 DEF CertInv, DaysMissed
<1>5. LookedAfter'
  <2>1. Busy("cron") => Busy("cron")'
    BY DEF CronGoesOn, Busy, Doing
  <2>2. \A d \in Domains : Fresh(crt'[d]) \/ crt'[d] = crt[d]
    BY <1>2 DEF FilesChange
  <2> QED
    BY <1>2, <2>1, <2>2 DEF CertInv, LookedAfter, CronGoesOn
<1> QED
  BY <1>1, <1>3, <1>4, <1>5 DEF CertInv

\* It is done with a domain, whose certificate is fresh or counted as missed.
LEMMA OverKeeps ==
  ASSUME CertInv, FilesChange, Over("cron"), ~Doing("cron", "idle"),
         (due' = due /\ Doing("cron", "key")) \/ due' = due \cup {task["cron"].dom}
  PROVE  CertInv'
<1>1. "cron" \in Workers /\ task["cron"].op = "renew"
  BY DEF CertInv, CronShape, Workers
<1>2. /\ DOMAIN task' = Workers
      /\ task'["cron"] = [Asleep EXCEPT !.op = "renew", !.pc = "next", !.todo = task["cron"].todo]
  BY <1>1 DEF Over, Rest, CertInv, CertShape
<1>3. IsTask(task'["cron"]) /\ task'["cron"].op = "renew" /\ task'["cron"].pc = "next"
      /\ task'["cron"].todo = task["cron"].todo
  BY <1>2 DEF Asleep, IsTask
<1>4. CertShape'
  BY <1>2, <1>3 DEF CertShape, FilesChange
<1>5. CronShape'
  BY <1>3 DEF CronShape, Doing
<1>6. \A d \in Domains : d \in Pairs /\ (Fresh(crt[d]) => Fresh(crt'[d]))
                         /\ (Fresh(crt'[d]) \/ (crt'[d] = crt[d] /\ missed'[d] = missed[d]))
  BY DEF FilesChange, Pairs
<1>7. DaysMissed'
  <2>1. \A d \in Domains : Whole(crt'[d]) /\ crt'[d].left <= Threshold => ~Fresh(crt'[d])
    BY <1>6, CertConstants DEF FilesChange, IsCrt, Fresh
  <2> QED
    BY <1>6, <2>1 DEF CertInv, DaysMissed
<1>8. LookedAfter'
  <2> SUFFICES ASSUME NEW d \in Domains
               PROVE  d \in due' \/ Fresh(crt'[d]) \/ crt'[d].left = -1 \/ d \in task'["cron"].todo
    BY DEF LookedAfter
  <2>1. CASE task["cron"].dom = d
    BY <1>6, <2>1 DEF CertInv, CronShape
  <2>2. CASE task["cron"].dom # d
    BY <1>3, <1>6, <2>2 DEF CertInv, LookedAfter
  <2> QED
    BY <2>1, <2>2
<1> QED
  BY <1>4, <1>5, <1>7, <1>8 DEF CertInv


-----------------------------------------------------------------------------
(* The steps.                                                              *)

LEMMA FilesStay == CertInv /\ UNCHANGED <<crt, missed>> => FilesChange
BY DEF CertInv, CertShape, FilesChange

\* One of the files becomes c, and with it the days are counted anew or not.
LEMMA OneFileChanges ==
  ASSUME CertInv, NEW d, NEW c, IsCrt(c), Fresh(c), crt' = [crt EXCEPT ![d] = c],
         missed' = missed \/ missed' = [e \in Domains |-> IF e = d THEN 0 ELSE missed[e]]
  PROVE  FilesChange
<1>1. DOMAIN crt' = Pairs /\ \A e \in Pairs : crt'[e] = IF e = d THEN c ELSE crt[e]
  BY DEF CertInv, CertShape
<1>2. \A e \in Pairs : IsCrt(crt'[e]) /\ (crt'[e] = crt[e] \/ Fresh(crt'[e]))
  BY <1>1 DEF CertInv, CertShape
<1>3. missed' \in [Domains -> Nat] /\ \A e \in Domains : missed'[e] = missed[e] \/ e = d
  BY DEF CertInv, CertShape
<1> QED
  BY <1>1, <1>2, <1>3 DEF FilesChange, Pairs

LEMMA NewFiles ==
  /\ IsCrt(NoCrt) /\ Fresh(NoCrt) /\ IsCrt(TornCrt) /\ Fresh(TornCrt)
  /\ \A k : IsCrt([key |-> k, left |-> Life]) /\ Fresh([key |-> k, left |-> Life])
BY CertConstants DEF IsCrt, Fresh, NoCrt, TornCrt, Whole

\* What goroutines of the interface do leaves the daily renewal alone.
LEMMA CronUntouched ==
  ASSUME CertInv, DOMAIN task' = Workers,
         task'["cron"] = task["cron"] \/ task'["cron"] = [task["cron"] EXCEPT !.clean = FALSE]
  PROVE  CronGoesOn
BY DEF CertInv, CertShape, IsTask, CronGoesOn

LEMMA TurnsElsewhere ==
  ASSUME CertInv, NEW w \in Tasks, NEW t, TurnTo(w, t) PROVE CronGoesOn
<1>1. w # "cron" /\ "cron" \in Workers
  BY CertConstants DEF Workers
<1>2. /\ DOMAIN task' = Workers
      /\ task'["cron"] = task["cron"] \/ task'["cron"] = [task["cron"] EXCEPT !.clean = FALSE]
  BY <1>1 DEF TurnTo
<1> QED
  BY <1>2, CronUntouched

LEMMA BeginTaskKeeps ==
  ASSUME CertInv, NEW w \in Tasks, NEW t, BeginTask(w, t) PROVE CertInv'
<1>1. UNCHANGED <<crt, missed, due>> /\ TurnTo(w, t)
  BY DEF BeginTask, Files, Clock
<1> QED
  BY <1>1, FilesStay, TurnsElsewhere, GoingOnKeeps

LEMMA CheckAndRenewAllKeeps == ASSUME CertInv, CheckAndRenewAll PROVE CertInv'
<1>1. /\ task["cron"].pc = "idle" /\ UNCHANGED <<crt, missed>>
      /\ task' = [task EXCEPT !["cron"].op = "renew", !["cron"].pc = "next",
                              !["cron"].todo = DueCertificates]
      /\ due' = {d \in Domains : ~Whole(crt[d])}
  BY DEF CheckAndRenewAll, Files, Doing
<1>2. /\ DOMAIN task' = Workers /\ IsTask(task'["cron"])
      /\ task'["cron"].op = "renew" /\ task'["cron"].pc = "next"
      /\ task'["cron"].todo = DueCertificates
  BY <1>1 DEF CertInv, CertShape, IsTask, Workers
<1>3. CertShape' /\ DaysMissed'
  BY <1>1, <1>2 DEF CertInv, CertShape, DaysMissed
<1>4. CronShape'
  BY <1>2 DEF CronShape, Doing
<1>5. LookedAfter'
  <2>1. \A d \in Domains : crt[d].left \in Int /\ crt[d].left >= -1
    BY DEF CertInv, CertShape, IsCrt, Pairs
  <2>2. \A d \in Domains : d \in DueCertificates <=>
                             Whole(crt[d]) /\ crt[d].left >= 0 /\ crt[d].left <= Threshold
    BY DEF DueCertificates, Valid
  <2>3. ASSUME NEW d \in Domains, Whole(crt[d]), crt[d].left <= Threshold, d \notin DueCertificates
        PROVE  crt[d].left = -1
    BY <2>1, <2>2, <2>3
  <2>4. \A d \in Domains : ~Fresh(crt[d]) => Whole(crt[d]) /\ crt[d].left <= Threshold
    BY <2>1, CertConstants DEF Fresh
  <2> QED
    BY <1>1, <1>2, <2>3, <2>4 DEF LookedAfter
<1> QED
  BY <1>3, <1>4, <1>5 DEF CertInv

\* The files, whoever works on them; the day's failures are the daily renewal's.
LEMMA WorkChangesFiles ==
  ASSUME CertInv, NEW w \in Workers, WorkerStep(w) PROVE FilesChange
<1>1. CASE NextDomain(w) \/ TakeLock(w) \/ Obtain(w) \/ WriteFails(w) \/ RemoveFails(w)
  BY <1>1, FilesStay DEF NextDomain, TakeLock, Obtain, WriteFails, RemoveFails, Files, Clock
<1>2. CASE OpenFile(w)
  <2>1. UNCHANGED missed /\ (UNCHANGED crt \/ crt' = [crt EXCEPT ![task[w].dom] = TornCrt])
    BY <1>2 DEF OpenFile, Clock
  <2> QED
    BY <2>1, FilesStay, OneFileChanges, NewFiles
<1>3. CASE FillFile(w)
  <2>1. CASE crt' = [crt EXCEPT ![task[w].dom] = [key |-> task[w].key, left |-> Life]]
             /\ missed' = [d \in Domains |-> IF d = task[w].dom THEN 0 ELSE missed[d]]
    BY <2>1, OneFileChanges, NewFiles
  <2>2. CASE UNCHANGED <<crt, missed>>
    BY <2>2, FilesStay
  <2> QED
    BY <1>3, <2>1, <2>2 DEF FillFile
<1>4. CASE RemoveFile(w)
  <2>1. UNCHANGED missed /\ (UNCHANGED crt \/ crt' = [crt EXCEPT ![task[w].dom] = NoCrt])
    BY <1>4 DEF RemoveFile, Clock
  <2> QED
    BY <2>1, FilesStay, OneFileChanges, NewFiles
<1> QED
  BY <1>1, <1>2, <1>3, <1>4 DEF WorkerStep

LEMMA TasksKeep ==
  ASSUME CertInv, NEW w \in Tasks, WorkerStep(w) PROVE CertInv'
<1>1. w # "cron" /\ w \in Workers /\ "cron" \in Workers
  BY CertConstants DEF Workers
<1>2. due' = due
  BY <1>1 DEF WorkerStep, NextDomain, TakeLock, Obtain, OpenFile, FillFile, WriteFails,
              RemoveFile, RemoveFails, Fail, Clock
<1>3. CASE NextDomain(w)
  <2>1. ASSUME task' = [task EXCEPT ![w] = Asleep] PROVE CronGoesOn
    <3>1. DOMAIN task' = Workers /\ task'["cron"] = task["cron"]
      BY <1>1, <2>1 DEF CertInv, CertShape
    <3> QED
      BY <3>1, CronUntouched
  <2>2. CronGoesOn
    BY <1>3, <2>1, TurnsElsewhere DEF NextDomain
  <2> QED
    BY <1>1, <1>2, <1>3, <2>2, WorkChangesFiles, GoingOnKeeps DEF WorkerStep
<1>4. ASSUME ~NextDomain(w) PROVE DOMAIN task' = Workers /\ task'["cron"] = task["cron"]
  BY <1>1, <1>4 DEF CertInv, CertShape, WorkerStep, TakeLock, Obtain, OpenFile, FillFile,
              WriteFails, RemoveFile, RemoveFails, Fail, Done, Over
<1> QED
  BY <1>1, <1>2, <1>3, <1>4, CronUntouched, WorkChangesFiles, GoingOnKeeps

\* The daily renewal turns to the next domain.
LEMMA CronTurnsKeeps == ASSUME CertInv, NextDomain("cron") PROVE CertInv'
<1>1. /\ task["cron"].pc = "next" /\ "cron" \in Workers /\ UNCHANGED <<crt, missed, due>>
      /\ task["cron"].op = "renew" /\ ~Busy("cron")
  BY DEF NextDomain, Doing, Busy, Workers, Files, Clock, CertInv, CronShape
<1>2. CASE task["cron"].todo = {} /\ task' = [task EXCEPT !["cron"] = Asleep]
  <2>1. DOMAIN task' = Workers /\ task'["cron"] = Asleep
    BY <1>1, <1>2 DEF CertInv, CertShape
  <2>2. IsTask(Asleep) /\ Asleep.pc = "idle" /\ Asleep.todo = {}
    BY DEF Asleep, IsTask
  <2> QED
    BY <1>1, <1>2, <2>1, <2>2
       DEF CertInv, CertShape, CronShape, DaysMissed, LookedAfter, Doing
<1>3. ASSUME NEW d \in task["cron"].todo,
             TurnTo("cron", [task["cron"] EXCEPT !.pc = "lock", !.dom = d, !.todo = @ \ {d}])
      PROVE  CertInv'
  <2>1. /\ DOMAIN task' = Workers
        /\ \E b : task'["cron"] = [[task["cron"] EXCEPT !.pc = "lock", !.dom = d, !.todo = @ \ {d}]
                                     EXCEPT !.clean = b]
    BY <1>1, <1>3 DEF TurnTo
  <2>2. /\ IsTask(task'["cron"]) /\ task'["cron"].op = "renew" /\ task'["cron"].pc = "lock"
        /\ task'["cron"].dom = d /\ task'["cron"].todo = task["cron"].todo \ {d}
    BY <1>1, <2>1 DEF CertInv, CertShape, IsTask
  <2>3. CertShape' /\ DaysMissed' /\ CronShape'
    BY <1>1, <2>1, <2>2 DEF CertInv, CertShape, CronShape, DaysMissed, Doing
  <2>4. LookedAfter'
    BY <1>1, <2>2 DEF CertInv, LookedAfter, Busy, Doing
  <2> QED
    BY <2>3, <2>4 DEF CertInv
<1> QED
  BY <1>2, <1>3 DEF NextDomain

\* It works on one.
LEMMA CronWorksKeeps ==
  ASSUME CertInv, WorkerStep("cron"), ~NextDomain("cron") PROVE CertInv'
<1>1. "cron" \in Workers /\ FilesChange
  BY WorkChangesFiles DEF Workers
<1>2. ~Doing("cron", "idle") /\ task["cron"].op = "renew" /\ Writes("cron")
  <2>1. ~Doing("cron", "idle") \/ task["cron"].open
    BY DEF WorkerStep, TakeLock, Obtain, OpenFile, FillFile, WriteFails, RemoveFile, RemoveFails, Doing
  <2>2. ~Doing("cron", "idle")
    BY <2>1 DEF WorkerStep, TakeLock, Obtain, OpenFile, FillFile, WriteFails, RemoveFile, RemoveFails, Doing
  <2> QED
    BY <2>2 DEF CertInv, CronShape, Writes
<1>3. CASE Fail("cron")
  <2>1. Over("cron") /\ due' = due \cup {task["cron"].dom}
    BY <1>3 DEF Fail
  <2> QED
    BY <1>1, <1>2, <2>1, OverKeeps
<1>4. CASE Doing("cron", "key") /\ Done("cron") /\ due' = due
  BY <1>1, <1>2, <1>4, OverKeeps DEF Done
<1>5. CASE /\ \/ Doing("cron", "lock") /\ \E k : task' = [task EXCEPT !["cron"].pc = "obtain", !["cron"].key = k]
              \/ Doing("cron", "obtain") /\ task' = [task EXCEPT !["cron"].pc = "crt"]
              \/ (Doing("cron", "crt") \/ Doing("cron", "key")) /\ task' = [task EXCEPT !["cron"].open = TRUE]
           /\ due' = due
  <2>1. CronGoesOn
    BY <1>1, <1>5 DEF CertInv, CertShape, IsTask, CronGoesOn, Busy, Doing
  <2> QED
    BY <1>1, <1>5, <2>1, GoingOnKeeps
<1>6. CASE /\ Doing("cron", "crt") /\ due' = due
           /\ crt' = [crt EXCEPT ![task["cron"].dom] = [key |-> task["cron"].key, left |-> Life]]
           /\ task' = [task EXCEPT !["cron"].pc = "key", !["cron"].open = FALSE]
  <2>1. task["cron"].dom \in Domains => Fresh(crt'[task["cron"].dom])
    BY <1>6, NewFiles DEF CertInv, CertShape, Pairs
  <2>2. CronGoesOn
    BY <1>1, <1>6, <2>1 DEF CertInv, CertShape, IsTask, CronGoesOn, Busy, Doing
  <2> QED
    BY <1>1, <1>6, <2>2, GoingOnKeeps
<1>7. CASE TakeLock("cron")
  BY <1>3, <1>5, <1>7 DEF TakeLock
<1>8. CASE Obtain("cron")
  BY <1>3, <1>5, <1>8 DEF Obtain
<1>9. CASE OpenFile("cron")
  BY <1>5, <1>9 DEF OpenFile, Clock
<1>10. CASE FillFile("cron")
  BY <1>4, <1>6, <1>10 DEF FillFile
<1>11. CASE WriteFails("cron")
  BY <1>3, <1>11 DEF WriteFails
<1> QED
  BY <1>2, <1>7, <1>8, <1>9, <1>10, <1>11 DEF WorkerStep, RemoveFile, RemoveFails

-----------------------------------------------------------------------------
LEMMA CertCrashKeeps == ASSUME CertInv, NEW S, CertCrash(S) PROVE CertInv'
<1>1. /\ task' = [w \in Workers |-> IF w \in S THEN Asleep ELSE task[w]] /\ "cron" \in Workers
      /\ due' = IF "cron" \in S THEN (due \cup task["cron"].todo \cup {task["cron"].dom}) \cap Domains
                ELSE due
      /\ UNCHANGED <<crt, missed>>
  BY DEF CertCrash, Files, Workers
<1>2. CASE "cron" \notin S
  BY <1>1, <1>2, CronUntouched, FilesStay, GoingOnKeeps
<1>3. CASE "cron" \in S
  <2>1. task'["cron"] = Asleep /\ IsTask(Asleep) /\ Asleep.pc = "idle" /\ Asleep.todo = {}
    BY <1>1, <1>3 DEF Asleep, IsTask
  <2>2. CertShape' /\ DaysMissed' /\ CronShape'
    BY <1>1, <2>1 DEF CertInv, CertShape, CronShape, DaysMissed, Doing
  <2>3. LookedAfter'
    BY <1>1, <1>3 DEF CertInv, LookedAfter
  <2> QED
    BY <2>2, <2>3 DEF CertInv
<1> QED
  BY <1>2, <1>3

\* A day passes: what is due and was kept from its renewal counts as missed.
LEMMA DayPassesKeeps == ASSUME CertInv, DayPasses PROVE CertInv'
<1>1. /\ task' = task /\ due' = Domains /\ Doing("cron", "idle")
      /\ crt' = [d \in Pairs |-> IF d \in Valid THEN [crt[d] EXCEPT !.left = @ - 1] ELSE crt[d]]
      /\ missed' = [d \in Domains |->
           IF d \in Valid /\ crt[d].left <= Threshold /\ d \in due THEN missed[d] + 1 ELSE missed[d]]
  BY DEF DayPasses, Workers
<1>2. \A d \in Domains : d \in Valid <=> Whole(crt[d]) /\ crt[d].left >= 0
  BY DEF Valid
<1>3. ASSUME NEW d \in Pairs
      PROVE  /\ IsCrt(crt'[d])
             /\ crt'[d] = crt[d] \/ (crt'[d].left = crt[d].left - 1 /\ crt'[d].key = crt[d].key)
  <2>1. IsCrt(crt[d])
    BY DEF CertInv, CertShape
  <2>2. CASE d \in Valid
    BY <1>1, <2>1, <2>2 DEF IsCrt, Whole, Valid
  <2>3. CASE d \notin Valid
    BY <1>1, <2>1, <2>3
  <2> QED
    BY <2>2, <2>3 DEF IsCrt
<1>4. CertShape'
  <2>1. missed' \in [Domains -> Nat]
    BY <1>1 DEF CertInv, CertShape
  <2> QED
    BY <1>1, <1>3, <2>1 DEF CertInv, CertShape
<1>5. CronShape' /\ LookedAfter'
  BY <1>1 DEF CertInv, CronShape, LookedAfter, Doing
<1>6. ASSUME NEW d \in Domains, Whole(crt'[d]), crt'[d].left <= Threshold
      PROVE  missed'[d] >= Threshold - crt'[d].left
  <2>1. /\ d \in Pairs /\ crt[d].left \in Int /\ missed[d] \in Nat
        /\ Whole(crt[d]) /\ crt[d].left <= Threshold => missed[d] >= Threshold - crt[d].left
    BY DEF CertInv, CertShape, IsCrt, DaysMissed, Pairs
  <2>2. CASE d \in Valid
    <3>1. crt'[d].left = crt[d].left - 1 /\ Whole(crt[d]) /\ crt[d].left >= 0
      BY <1>1, <1>2, <2>1, <2>2 DEF CertInv, CertShape, IsCrt
    <3>2. crt[d].left <= Threshold => d \in due
      BY <1>1, <2>1, <3>1, CertConstants DEF CertInv, CronShape, LookedAfter, Busy, Doing, Fresh
    <3>3. missed'[d] = IF crt[d].left <= Threshold THEN missed[d] + 1 ELSE missed[d]
      BY <1>1, <2>2, <3>2
    <3> QED
      BY <2>1, <3>1, <3>3, CertConstants
  <2>3. CASE d \notin Valid
    BY <1>1, <1>6, <2>1, <2>3
  <2> QED
    BY <2>2, <2>3
<1> QED
  BY <1>4, <1>5, <1>6 DEF CertInv, DaysMissed

LEMMA CertInvStep == CertInv /\ [CertNext]_certVars => CertInv'
<1> SUFFICES ASSUME CertInv, [CertNext]_certVars PROVE CertInv'
  OBVIOUS
<1>1. CASE UNCHANGED certVars
  BY <1>1 DEF certVars, CertInv, CertShape, CronShape, DaysMissed, LookedAfter, Doing, Busy
<1>2. ASSUME NEW w \in Tasks, NEW t, BeginTask(w, t) PROVE CertInv'
  BY <1>2, BeginTaskKeeps
<1>3. ASSUME NEW w \in Workers, WorkerStep(w) PROVE CertInv'
  BY <1>3, TasksKeep, CronTurnsKeeps, CronWorksKeeps DEF Workers
<1> QED
  BY <1>1, <1>2, <1>3, CheckAndRenewAllKeeps, CertCrashKeeps, DayPassesKeeps
     DEF CertNext, RequestACMEHTTP, RequestACMEDNS, DeleteCertificate, RenewTask, EnsureSelfSigned

\* Which days were missed, and what a pass of the daily renewal over the certificates
\* has still before it (cert_service.go:776).
THEOREM CertInvHolds == CertSpec => []CertInv
  BY CertInvInit, CertInvStep, PTL DEF CertSpec

\* A certificate expires only after more days than the threshold has on each of
\* which its renewal was kept from it, whatever else is requested, deleted or fails
\* (cert_service.go:776).
THEOREM NothingExpiresUnheeded == CertSpec => []RenewedInTime
<1>1. CertInv => RenewedInTime
  <2> SUFFICES ASSUME CertInv, NEW d \in Domains, crt[d].left = -1 PROVE missed[d] > Threshold
    BY DEF RenewedInTime
  <2>0. IsCrt(crt[d])
    BY DEF CertInv, CertShape, Pairs
  <2>1. Whole(crt[d])
    BY <2>0 DEF IsCrt
  <2> QED
    BY <2>1, CertConstants DEF CertInv, CertShape, DaysMissed
<1> QED
  BY <1>1, CertInvHolds, PTL
-----------------------------------------------------------------------------
(* Certificate and key belong together.                                    *)

PairShape ==
  /\ DOMAIN task = Workers /\ \A w \in Workers : IsTask(task[w])
  /\ \A w \in Workers : task[w].open => Writes(w) /\ (Doing(w, "crt") \/ Doing(w, "key"))
  /\ \A w \in Workers : task[w].todo \subseteq Domains /\ (Busy(w) => task[w].dom \in Pairs)
  /\ DOMAIN crt = Pairs /\ DOMAIN key = Pairs

\* Two operations at one domain that the mutex does not keep apart know it.
KnowOfEachOther ==
  \A w, x \in Workers :
    w # x /\ Busy(w) /\ Busy(x) /\ task[w].dom = task[x].dom /\ ~(Locked(w) /\ Locked(x)) =>
      ~task[w].clean /\ ~task[x].clean

\* Who is to hold the mutex holds it.
HoldsMutex ==
  \A w \in Workers : Locked(w) /\ Busy(w) /\ ~Doing(w, "lock") => mutex = w

\* The key that is still to be written, or removed, is that of the certificate.
HalfDone ==
  \A w \in Workers : Doing(w, "key") /\ task[w].clean =>
    IF Writes(w) THEN crt[task[w].dom] # NoCrt /\ crt[task[w].dom].key = task[w].key
                 ELSE crt[task[w].dom] = NoCrt

Match(d) == IF crt[d] = NoCrt THEN key[d] = NoKey ELSE crt[d].key = key[d]

\* w has yet to write the other half, or to own that others were there.
Answers(w, d) ==
  Busy(w) /\ task[w].dom = d /\ (~task[w].clean \/ task[w].open \/ Doing(w, "key"))

Paired == \A d \in Pairs \ mixed : Match(d) \/ \E w \in Workers : Answers(w, d)

PairInv == PairShape /\ KnowOfEachOther /\ HoldsMutex /\ HalfDone /\ Paired

LEMMA AsleepIs ==
  IsTask(Asleep) /\ Asleep.pc = "idle" /\ ~Asleep.open /\ Asleep.op = "none"
  /\ Asleep.todo = {}
BY DEF IsTask, Asleep

LEMMA PairInvInit == CertInit => PairInv
<1> SUFFICES ASSUME CertInit PROVE PairInv
  OBVIOUS
<1>1. /\ DOMAIN task = Workers /\ \A w \in Workers : task[w] = Asleep
      /\ DOMAIN crt = Pairs /\ DOMAIN key = Pairs
      /\ \A d \in Pairs : crt[d] = NoCrt /\ key[d] = NoKey
  BY DEF CertInit
<1>2. \A w \in Workers : ~Busy(w) /\ ~Doing(w, "key")
  BY <1>1, AsleepIs DEF Busy, Doing
<1>3. PairShape
  BY <1>1, <1>2, AsleepIs DEF PairShape
<1> QED
  BY <1>1, <1>2, <1>3 DEF PairInv, KnowOfEachOther, HoldsMutex, HalfDone, Paired, Match

\* All that the others are at stays, but that they may learn of one more.
Others(w) ==
  /\ DOMAIN task' = Workers
  /\ \A x \in Workers \ {w} :
       /\ IsTask(task'[x]) /\ task'[x].op = task[x].op /\ task'[x].pc = task[x].pc
       /\ task'[x].dom = task[x].dom /\ task'[x].key = task[x].key /\ task'[x].todo = task[x].todo
       /\ task'[x].open = task[x].open /\ (task'[x].clean => task[x].clean)

LEMMA OthersAreAtIt ==
  ASSUME NEW w, Others(w), NEW x \in Workers \ {w}
  PROVE  /\ Busy(x)' = Busy(x) /\ Locked(x)' = Locked(x) /\ Writes(x)' = Writes(x)
         /\ \A l : Doing(x, l)' = Doing(x, l)
         /\ \A d : Answers(x, d) => Answers(x, d)'
BY DEF Others, Busy, Doing, Locked, Writes, Answers

\* At most one of two that meet at a domain without knowing it is past the lock.
LEMMA NoneMeet ==
  ASSUME PairInv, NEW w \in Workers, NEW x \in Workers, w # x, Busy(w), Busy(x),
         task[w].dom = task[x].dom, ~Doing(w, "lock"), ~Doing(x, "lock")
  PROVE  ~task[w].clean /\ ~task[x].clean
BY DEF PairInv, KnowOfEachOther, HoldsMutex

\* w is between two operations, and stays so.
LEMMA IdlingKeeps ==
  ASSUME PairInv, NEW w \in Workers, ~Busy(w), Others(w), IsTask(task'[w]),
         task'[w].pc \in {"idle", "next"}, ~task'[w].open, task'[w].todo \subseteq Domains,
         \A x \in Workers \ {w} : task'[x] = task[x],
         UNCHANGED <<crt, key, mutex, mixed>>
  PROVE  PairInv'
<1>1. ~Busy(w)' /\ ~Doing(w, "key")'
  BY DEF Busy, Doing
<1>2. PairShape'
  BY <1>1, OthersAreAtIt DEF PairInv, PairShape, Others
<1>3. KnowOfEachOther'
  BY <1>1, OthersAreAtIt DEF PairInv, KnowOfEachOther
<1>4. HoldsMutex' /\ HalfDone'
  BY <1>1, OthersAreAtIt DEF PairInv, HoldsMutex, HalfDone
<1>5. Paired'
  <2>1. \A d \in Pairs : Match(d)' = Match(d)
    BY DEF Match
  <2>2. \A d : ~Answers(w, d)
    BY DEF Answers
  <2> QED
    BY <2>1, <2>2, OthersAreAtIt DEF PairInv, Paired
<1> QED
  BY <1>2, <1>3, <1>4, <1>5 DEF PairInv

\* w turns to another domain.
LEMMA TurnKeeps ==
  ASSUME PairInv, NEW w \in Workers, NEW t, ~Busy(w), TurnTo(w, t), IsTask(t), ~t.open,
         t.pc \in {"lock", "crt", "next"}, t.pc = "crt" => t.op \notin {"dns", "renew"},
         t.todo \subseteq Domains, t.pc # "next" => t.dom \in Pairs,
         UNCHANGED <<crt, key, mutex, mixed>>
  PROVE  PairInv'
<1> DEFINE With == {x \in Workers \ {w} : Busy(x) /\ task[x].dom = t.dom
                      /\ ~(w # "cron" /\ t.op \in {"dns", "renew"} /\ Locked(x))}
<1>1. /\ DOMAIN task' = Workers
      /\ task'[w] = [t EXCEPT !.clean = (With = {})]
      /\ \A x \in Workers \ {w} :
           task'[x] = IF x \in With THEN [task[x] EXCEPT !.clean = FALSE] ELSE task[x]
  BY DEF TurnTo
<1> HIDE DEF With
<1>2. Others(w) /\ \A x \in With : ~task'[x].clean
  BY <1>1 DEF Others, PairInv, PairShape, IsTask, With
<1>3. /\ IsTask(task'[w]) /\ task'[w].pc = t.pc /\ task'[w].op = t.op /\ task'[w].dom = t.dom
      /\ ~task'[w].open /\ task'[w].todo = t.todo /\ (task'[w].clean => With = {})
  BY <1>1 DEF IsTask
<1>4. PairShape'
  BY <1>2, <1>3, OthersAreAtIt DEF PairInv, PairShape, Others, Busy, Doing
<1>5. KnowOfEachOther'
  <2>1. ASSUME NEW x \in Workers \ {w}, Busy(w)', Busy(x)', task'[w].dom = task'[x].dom,
               ~(Locked(w)' /\ Locked(x)')
        PROVE  ~task'[w].clean /\ ~task'[x].clean
    <3>1. x \in With
      BY <1>2, <1>3, <2>1, OthersAreAtIt DEF With, Others, Locked
    <3> QED
      BY <1>2, <1>3, <3>1
  <2>2. ASSUME NEW x \in Workers \ {w}, NEW y \in Workers \ {w}, x # y, Busy(x)', Busy(y)',
               task'[x].dom = task'[y].dom, ~(Locked(x)' /\ Locked(y)')
        PROVE  ~task'[x].clean /\ ~task'[y].clean
    BY <1>2, <2>2, OthersAreAtIt DEF PairInv, KnowOfEachOther, Others
  <2> QED
    BY <2>1, <2>2 DEF KnowOfEachOther
<1>6. HoldsMutex'
  <2>1. Locked(w)' /\ Busy(w)' => Doing(w, "lock")'
    BY <1>3 DEF Locked, Busy, Doing
  <2> QED
    BY <1>2, <2>1, OthersAreAtIt DEF PairInv, HoldsMutex
<1>7. HalfDone'
  <2>1. ~Doing(w, "key")'
    BY <1>3 DEF Doing
  <2> QED
    BY <1>2, <2>1, OthersAreAtIt DEF PairInv, HalfDone, Others
<1>8. Paired'
  <2>1. \A d \in Pairs : Match(d)' = Match(d)
    BY DEF Match
  <2>2. \A d : ~Answers(w, d)
    BY DEF Answers
  <2> QED
    BY <1>2, <2>1, <2>2, OthersAreAtIt DEF PairInv, Paired
<1> QED
  BY <1>4, <1>5, <1>6, <1>7, <1>8 DEF PairInv

\* The files of one domain change at most.
OnlyAt(d) ==
  /\ DOMAIN crt' = Pairs /\ DOMAIN key' = Pairs
  /\ \A e \in Pairs \ {d} : crt'[e] = crt[e] /\ key'[e] = key[e]

\* w goes on with its operation.
LEMMA AdvanceKeeps ==
  ASSUME PairInv, NEW w \in Workers, Busy(w), Busy(w)', Others(w),
         \A x \in Workers \ {w} : task'[x] = task[x],
         IsTask(task'[w]), task'[w].op = task[w].op, task'[w].dom = task[w].dom,
         task'[w].todo = task[w].todo, task'[w].clean => task[w].clean,
         task'[w].open => Writes(w) /\ (Doing(w, "crt")' \/ Doing(w, "key")'),
         mutex' = mutex \/ (mutex = Nobody /\ mutex' = w),
         Locked(w) /\ ~Doing(w, "lock")' => mutex' = w,
         Doing(w, "key")' /\ task'[w].clean =>
           IF Writes(w) THEN crt'[task[w].dom] # NoCrt /\ crt'[task[w].dom].key = task'[w].key
                        ELSE crt'[task[w].dom] = NoCrt,
         OnlyAt(task[w].dom), UNCHANGED mixed,
         \/ UNCHANGED <<crt, key>> /\ (Answers(w, task[w].dom) => Answers(w, task[w].dom)')
         \/ ~Doing(w, "lock") /\ Answers(w, task[w].dom)'
  PROVE  PairInv'
<1>1. Locked(w)' = Locked(w) /\ Writes(w)' = Writes(w)
  BY DEF Locked, Writes
<1>2. PairShape'
  <2>1. DOMAIN task' = Workers /\ DOMAIN crt' = Pairs /\ DOMAIN key' = Pairs
    BY DEF Others, OnlyAt
  <2>2. task[w].dom \in Pairs /\ task[w].todo \subseteq Domains
    BY DEF PairInv, PairShape
  <2>3. ASSUME NEW x \in Workers \ {w}
        PROVE  /\ IsTask(task'[x])
               /\ (task'[x].open => Writes(x)' /\ (Doing(x, "crt")' \/ Doing(x, "key")'))
               /\ task'[x].todo \subseteq Domains /\ (Busy(x)' => task'[x].dom \in Pairs)
    BY DEF PairInv, PairShape, Busy, Doing, Writes
  <2> QED
    BY <1>1, <2>1, <2>2, <2>3 DEF PairShape
<1>3. KnowOfEachOther'
  <2> SUFFICES ASSUME NEW x \in Workers, NEW y \in Workers, x # y, Busy(x)', Busy(y)',
                      task'[x].dom = task'[y].dom, ~(Locked(x)' /\ Locked(y)')
               PROVE  ~task'[x].clean /\ ~task'[y].clean
    BY DEF KnowOfEachOther
  <2>1. Busy(x) /\ Busy(y) /\ task[x].dom = task[y].dom /\ ~(Locked(x) /\ Locked(y))
    BY <1>1, OthersAreAtIt
  <2>2. ~task[x].clean /\ ~task[y].clean
    BY <2>1 DEF PairInv, KnowOfEachOther
  <2> QED
    BY <2>2
<1>4. HoldsMutex'
  BY <1>1, OthersAreAtIt, CertConstants DEF PairInv, HoldsMutex, Workers, Nobody
<1>5. HalfDone'
  <2> SUFFICES ASSUME NEW x \in Workers \ {w}, Doing(x, "key"), task[x].clean
               PROVE  crt'[task[x].dom] = crt[task[x].dom]
    BY <1>1, OthersAreAtIt DEF PairInv, HalfDone
  <2>1. Busy(x) /\ ~Doing(x, "lock")
    BY DEF Busy, Doing
  <2>2. task[x].dom \in Pairs
    BY <2>1 DEF PairInv, PairShape
  <2>3. CASE task[x].dom # task[w].dom
    BY <2>2, <2>3 DEF OnlyAt
  <2>4. CASE task[x].dom = task[w].dom
    BY <2>1, <2>4, NoneMeet
  <2> QED
    BY <2>3, <2>4
<1>6. Paired'
  <2> SUFFICES ASSUME NEW d \in Pairs \ mixed PROVE Match(d)' \/ \E x \in Workers : Answers(x, d)'
    BY DEF Paired
  <2>1. Match(d) \/ \E x \in Workers : Answers(x, d)
    BY DEF PairInv, Paired
  <2>2. CASE d # task[w].dom
    <3>1. Match(d)' = Match(d) /\ ~Answers(w, d)
      BY <2>2 DEF Match, OnlyAt, Answers
    <3> QED
      BY <2>1, <3>1, OthersAreAtIt
  <2>3. CASE d = task[w].dom
    <3>1. UNCHANGED <<crt, key>> => Match(d)' = Match(d)
      BY DEF Match
    <3> QED
      BY <2>1, <2>3, <3>1, OthersAreAtIt
  <2> QED
    BY <2>2, <2>3
<1> QED
  BY <1>2, <1>3, <1>4, <1>5, <1>6 DEF PairInv

\* w ends its operation.
LEMMA EndKeeps ==
  ASSUME PairInv, NEW w \in Workers, NEW d, Busy(w), d = task[w].dom, Over(w),
         UNCHANGED crt, OnlyAt(d), mixed \subseteq mixed' \cup {d},
         d \in mixed' \/ Match(d)' \/ (UNCHANGED <<key, mixed>> /\ ~Answers(w, d))
  PROVE  PairInv'
<1>1. /\ DOMAIN task' = Workers /\ task'[w] = Rest(w)
      /\ \A x \in Workers \ {w} : task'[x] = task[x]
  BY DEF Over, PairInv, PairShape
<1>2. /\ IsTask(Rest(w)) /\ ~Rest(w).open /\ Rest(w).pc \in {"idle", "next"}
      /\ Rest(w).todo \subseteq Domains
  <2> DEFINE c == [Asleep EXCEPT !.op = "renew", !.pc = "next", !.todo = task[w].todo]
  <2>1. c = [Asleep EXCEPT !.op = "renew", !.pc = "next", !.todo = task[w].todo]
    OBVIOUS
  <2>2. Rest(w) = c \/ Rest(w) = Asleep
    BY DEF Rest
  <2> HIDE DEF c
  <2>3. IsTask(c) /\ ~c.open /\ c.pc = "next" /\ c.todo \subseteq Domains
    BY <2>1, AsleepIs DEF IsTask, PairInv, PairShape
  <2> QED
    BY <2>2, <2>3, AsleepIs
<1>3. Others(w) /\ ~Busy(w)' /\ ~Doing(w, "key")'
  BY <1>1, <1>2 DEF Others, PairInv, PairShape, Busy, Doing
<1>4. PairShape'
  BY <1>1, <1>2, <1>3, OthersAreAtIt DEF PairInv, PairShape, Others, OnlyAt
<1>5. KnowOfEachOther'
  BY <1>1, <1>3, OthersAreAtIt DEF PairInv, KnowOfEachOther
<1>6. HoldsMutex' /\ HalfDone'
  BY <1>1, <1>3, OthersAreAtIt DEF PairInv, HoldsMutex, HalfDone, Over
<1>7. Paired'
  <2> SUFFICES ASSUME NEW e \in Pairs \ mixed' PROVE Match(e)' \/ \E x \in Workers : Answers(x, e)'
    BY DEF Paired
  <2>1. CASE e # d
    <3>1. crt'[e] = crt[e] /\ key'[e] = key[e]
      BY <2>1 DEF OnlyAt
    <3>2. Match(e)' = Match(e)
      BY <3>1 DEF Match
    <3>3. ~Answers(w, e) /\ e \notin mixed
      BY <2>1 DEF Answers
    <3> QED
      BY <1>3, <3>2, <3>3, OthersAreAtIt DEF PairInv, Paired
  <2>2. CASE e = d /\ ~Match(e)'
    <3>1. UNCHANGED <<key, mixed>> /\ ~Answers(w, e)
      BY <2>2
    <3>2. Match(e)' = Match(e)
      BY <3>1 DEF Match
    <3> QED
      BY <1>3, <3>1, <3>2, OthersAreAtIt DEF PairInv, Paired
  <2> QED
    BY <2>1, <2>2
<1> QED
  BY <1>4, <1>5, <1>6, <1>7 DEF PairInv

-----------------------------------------------------------------------------
\* Every step keeps the strengthened invariant.
LEMMA BeginningKeeps ==
  ASSUME PairInv, NEW w \in Tasks, NEW t, BeginTask(w, t), IsTask(t), ~t.open,
         t.pc \in {"lock", "crt", "next"}, t.pc = "crt" => t.op \notin {"dns", "renew"},
         t.todo \subseteq Domains, t.pc # "next" => t.dom \in Pairs
  PROVE  PairInv'
<1>1. w \in Workers /\ ~Busy(w) /\ TurnTo(w, t) /\ UNCHANGED <<crt, key, mutex, mixed>>
  BY DEF BeginTask, Workers, Busy, Files
<1> QED
  BY <1>1, TurnKeeps

LEMMA PairBeginnings ==
  ASSUME PairInv, NEW w \in Tasks,
         \/ \E d \in Domains :
              RequestACMEHTTP(w, d) \/ RequestACMEDNS(w, d) \/ DeleteCertificate(w, d)
         \/ \E S \in SUBSET Domains : RenewTask(w, S)
         \/ EnsureSelfSigned(w)
  PROVE  PairInv'
<1>1. {} \subseteq Domains /\ Domains \subseteq Pairs /\ "self_signed" \in Pairs
  BY DEF Pairs
<1>2. ASSUME NEW d \in Domains, RequestACMEHTTP(w, d) PROVE PairInv'
  <2> DEFINE t == [Asleep EXCEPT !.op = "http", !.pc = "lock", !.dom = d]
  <2>1. t = [Asleep EXCEPT !.op = "http", !.pc = "lock", !.dom = d]
    OBVIOUS
  <2>2. BeginTask(w, t)
    BY <1>2 DEF RequestACMEHTTP
  <2> HIDE DEF t
  <2>3. IsTask(t) /\ ~t.open /\ t.op = "http" /\ t.pc = "lock" /\ t.dom = d /\ t.todo = {}
    BY <2>1 DEF IsTask, Asleep
  <2> QED
    BY <1>1, <2>2, <2>3, BeginningKeeps
<1>3. ASSUME NEW d \in Domains, RequestACMEDNS(w, d) PROVE PairInv'
  <2> DEFINE t == [Asleep EXCEPT !.op = "dns", !.pc = "lock", !.dom = d]
  <2>1. t = [Asleep EXCEPT !.op = "dns", !.pc = "lock", !.dom = d]
    OBVIOUS
  <2>2. BeginTask(w, t)
    BY <1>3 DEF RequestACMEDNS
  <2> HIDE DEF t
  <2>3. IsTask(t) /\ ~t.open /\ t.op = "dns" /\ t.pc = "lock" /\ t.dom = d /\ t.todo = {}
    BY <2>1 DEF IsTask, Asleep
  <2> QED
    BY <1>1, <2>2, <2>3, BeginningKeeps
<1>4. ASSUME NEW d \in Domains, DeleteCertificate(w, d) PROVE PairInv'
  <2> DEFINE t == [Asleep EXCEPT !.op = "delete", !.pc = "crt", !.dom = d]
  <2>1. t = [Asleep EXCEPT !.op = "delete", !.pc = "crt", !.dom = d]
    OBVIOUS
  <2>2. BeginTask(w, t)
    BY <1>4 DEF DeleteCertificate
  <2> HIDE DEF t
  <2>3. IsTask(t) /\ ~t.open /\ t.op = "delete" /\ t.pc = "crt" /\ t.dom = d /\ t.todo = {}
    BY <2>1 DEF IsTask, Asleep
  <2> QED
    BY <1>1, <2>2, <2>3, BeginningKeeps
<1>5. ASSUME NEW S \in SUBSET Domains, RenewTask(w, S) PROVE PairInv'
  <2> DEFINE t == [Asleep EXCEPT !.op = "renew", !.pc = "next", !.todo = S]
  <2>1. t = [Asleep EXCEPT !.op = "renew", !.pc = "next", !.todo = S]
    OBVIOUS
  <2>2. BeginTask(w, t)
    BY <1>5 DEF RenewTask
  <2> HIDE DEF t
  <2>3. IsTask(t) /\ ~t.open /\ t.pc = "next" /\ t.todo = S
    BY <2>1 DEF IsTask, Asleep
  <2> QED
    BY <1>1, <2>2, <2>3, BeginningKeeps
<1>6. CASE EnsureSelfSigned(w)
  <2> DEFINE t == [Asleep EXCEPT !.op = "ensure", !.pc = "crt", !.dom = "self_signed",
                                 !.key = NewKey]
  <2>1. t = [Asleep EXCEPT !.op = "ensure", !.pc = "crt", !.dom = "self_signed",
                           !.key = NewKey]
    OBVIOUS
  <2>2. BeginTask(w, t)
    BY <1>6 DEF EnsureSelfSigned
  <2> HIDE DEF t
  <2>3. /\ IsTask(t) /\ ~t.open /\ t.op = "ensure" /\ t.pc = "crt" /\ t.todo = {}
        /\ t.dom = "self_signed"
    BY <2>1 DEF IsTask, Asleep
  <2> QED
    BY <1>1, <2>2, <2>3, BeginningKeeps
<1> QED
  BY <1>2, <1>3, <1>4, <1>5, <1>6

\* What w does to its own task touches no other's.
LEMMA OwnTask ==
  ASSUME PairInv, NEW w \in Workers, NEW c, task' = [task EXCEPT ![w] = c]
  PROVE  Others(w) /\ task'[w] = c /\ \A x \in Workers \ {w} : task'[x] = task[x]
BY DEF PairInv, PairShape, Others

LEMMA PairCheckAndRenewAll == ASSUME PairInv, CheckAndRenewAll PROVE PairInv'
<1> DEFINE w == "cron"
           c == [task[w] EXCEPT !.op = "renew", !.pc = "next", !.todo = DueCertificates]
<1>1. w \in Workers /\ task' = [task EXCEPT ![w] = c]
  BY DEF CheckAndRenewAll, PairInv, PairShape, Workers
<1>2. IsTask(task[w]) /\ ~Busy(w) /\ ~task[w].open
  BY <1>1 DEF CheckAndRenewAll, PairInv, PairShape, Busy, Doing
<1>0. c = [task[w] EXCEPT !.op = "renew", !.pc = "next", !.todo = DueCertificates]
  OBVIOUS
<1> HIDE DEF c
<1>3. IsTask(c) /\ c.pc = "next" /\ ~c.open /\ c.todo \subseteq Domains
  BY <1>2, <1>0 DEF IsTask, DueCertificates, Valid
<1>4. UNCHANGED <<crt, key, mutex, mixed>>
  BY DEF CheckAndRenewAll, Files
<1> QED
  BY <1>1, <1>2, <1>3, <1>4, OwnTask, IdlingKeeps

LEMMA PairNextDomain == ASSUME PairInv, NEW w \in Workers, NextDomain(w) PROVE PairInv'
<1>1. IsTask(task[w]) /\ ~Busy(w) /\ ~task[w].open /\ task[w].todo \subseteq Domains
  BY DEF NextDomain, PairInv, PairShape, Busy, Doing
<1>2. UNCHANGED <<crt, key, mutex, mixed>>
  BY DEF NextDomain, Files
<1>3. CASE task' = [task EXCEPT ![w] = Asleep]
  BY <1>1, <1>2, <1>3, AsleepIs, OwnTask, IdlingKeeps
<1>4. ASSUME NEW d \in task[w].todo,
             TurnTo(w, [task[w] EXCEPT !.pc = "lock", !.dom = d, !.todo = @ \ {d}])
      PROVE  PairInv'
  <2> DEFINE t == [task[w] EXCEPT !.pc = "lock", !.dom = d, !.todo = @ \ {d}]
  <2>0. t = [task[w] EXCEPT !.pc = "lock", !.dom = d, !.todo = @ \ {d}] /\ TurnTo(w, t)
    BY <1>4
  <2> HIDE DEF t
  <2>1. IsTask(t) /\ t.pc = "lock" /\ ~t.open /\ t.todo \subseteq Domains /\ t.dom \in Pairs
    BY <1>1, <2>0 DEF IsTask, Pairs
  <2> QED
    BY <1>1, <1>2, <2>0, <2>1, TurnKeeps
<1> QED
  BY <1>3, <1>4 DEF NextDomain

\* An operation that fails may have left half a pair only where it says so.
LEMMA FailKeeps ==
  ASSUME PairInv, NEW w \in Workers, Busy(w), Fail(w), UNCHANGED <<crt, key>>
  PROVE  PairInv'
<1>1. Over(w) /\ OnlyAt(task[w].dom)
  BY DEF Fail, OnlyAt, PairInv, PairShape
<1>2. mixed \subseteq mixed' \cup {task[w].dom}
  BY DEF Fail
<1>3. task[w].dom \in mixed' \/ (UNCHANGED mixed /\ ~Answers(w, task[w].dom))
  BY DEF Fail, Answers
<1> QED
  BY <1>1, <1>2, <1>3, EndKeeps

LEMMA PairTakeLock == ASSUME PairInv, NEW w \in Workers, TakeLock(w) PROVE PairInv'
<1>1. /\ IsTask(task[w]) /\ Busy(w) /\ Doing(w, "lock") /\ ~task[w].open
      /\ UNCHANGED <<crt, key>>
  BY DEF TakeLock, PairInv, PairShape, Busy, Doing, Files
<1>2. CASE Fail(w)
  BY <1>1, <1>2, FailKeeps
<1>3. CASE ~Fail(w)
  <2> DEFINE k == IF task[w].op = "renew" THEN key[task[w].dom] ELSE NewKey
             c == [task[w] EXCEPT !.pc = "obtain", !.key = k]
  <2>1. /\ task' = [task EXCEPT ![w] = c] /\ UNCHANGED mixed
        /\ mutex' = IF Locked(w) THEN w ELSE mutex
    BY <1>3 DEF TakeLock, PairInv, PairShape
  <2> HIDE DEF k
  <2>0. c = [task[w] EXCEPT !.pc = "obtain", !.key = k]
    OBVIOUS
  <2> HIDE DEF c
  <2>2. /\ IsTask(c) /\ c.pc = "obtain" /\ ~c.open /\ c.op = task[w].op /\ c.dom = task[w].dom
        /\ c.todo = task[w].todo /\ c.clean = task[w].clean
    BY <1>1, <2>0 DEF IsTask
  <2>3. Others(w) /\ task'[w] = c /\ \A x \in Workers \ {w} : task'[x] = task[x]
    BY <2>1, OwnTask
  <2>4. Busy(w)' /\ ~Doing(w, "lock")' /\ ~Doing(w, "key")'
    BY <2>2, <2>3 DEF Busy, Doing
  <2>5. mutex' = mutex \/ (mutex = Nobody /\ mutex' = w)
    BY <2>1 DEF TakeLock, Locked
  <2>6. OnlyAt(task[w].dom)
    BY <1>1 DEF OnlyAt, PairInv, PairShape
  <2>7. Answers(w, task[w].dom) => Answers(w, task[w].dom)'
    BY <1>1, <2>2, <2>3, <2>4 DEF Answers, Doing
  <2> QED
    BY <1>1, <2>1, <2>2, <2>3, <2>4, <2>5, <2>6, <2>7, AdvanceKeeps
<1> QED
  BY <1>2, <1>3

\* w goes on under the lock it may hold.
LEMMA LockIsKept ==
  ASSUME PairInv, NEW w \in Workers, Busy(w), ~Doing(w, "lock"), UNCHANGED mutex
  PROVE  Locked(w) => mutex' = w
BY DEF PairInv, HoldsMutex

LEMMA PairObtain == ASSUME PairInv, NEW w \in Workers, Obtain(w) PROVE PairInv'
<1>1. /\ IsTask(task[w]) /\ Busy(w) /\ ~Doing(w, "lock") /\ ~Doing(w, "key") /\ ~task[w].open
      /\ UNCHANGED <<crt, key>>
  BY DEF Obtain, PairInv, PairShape, Busy, Doing, Files
<1>2. CASE Fail(w)
  BY <1>1, <1>2, FailKeeps
<1>3. CASE ~Fail(w)
  <2> DEFINE c == [task[w] EXCEPT !.pc = "crt"]
  <2>1. task' = [task EXCEPT ![w] = c] /\ UNCHANGED <<mixed, mutex>>
    BY <1>3 DEF Obtain, PairInv, PairShape
  <2>0. c = [task[w] EXCEPT !.pc = "crt"]
    OBVIOUS
  <2> HIDE DEF c
  <2>2. /\ IsTask(c) /\ c.pc = "crt" /\ ~c.open /\ c.op = task[w].op /\ c.dom = task[w].dom
        /\ c.todo = task[w].todo /\ c.clean = task[w].clean
    BY <1>1, <2>0 DEF IsTask
  <2>3. Others(w) /\ task'[w] = c /\ \A x \in Workers \ {w} : task'[x] = task[x]
    BY <2>1, OwnTask
  <2>4. Busy(w)' /\ ~Doing(w, "lock")' /\ ~Doing(w, "key")'
    BY <2>2, <2>3 DEF Busy, Doing
  <2>5. OnlyAt(task[w].dom)
    BY <1>1 DEF OnlyAt, PairInv, PairShape
  <2>6. Answers(w, task[w].dom) => Answers(w, task[w].dom)'
    BY <1>1, <2>2, <2>3, <2>4 DEF Answers, Doing
  <2> QED
    BY <1>1, <2>1, <2>2, <2>3, <2>4, <2>5, <2>6, LockIsKept, AdvanceKeeps
<1> QED
  BY <1>2, <1>3

LEMMA PairOpenFile == ASSUME PairInv, NEW w \in Workers, OpenFile(w) PROVE PairInv'
<1>1. /\ IsTask(task[w]) /\ Busy(w) /\ ~Doing(w, "lock") /\ (Doing(w, "crt") \/ Doing(w, "key"))
      /\ UNCHANGED <<mutex, mixed>> /\ Writes(w)
  BY DEF OpenFile, PairInv, PairShape, Busy, Doing
<1> DEFINE c == [task[w] EXCEPT !.open = TRUE]
<1>2. task' = [task EXCEPT ![w] = c]
  BY DEF OpenFile, PairInv, PairShape
<1>0. c = [task[w] EXCEPT !.open = TRUE]
  OBVIOUS
<1> HIDE DEF c
<1>3. /\ IsTask(c) /\ c.pc = task[w].pc /\ c.open /\ c.op = task[w].op /\ c.dom = task[w].dom
      /\ c.todo = task[w].todo /\ c.clean = task[w].clean /\ c.key = task[w].key
  BY <1>1, <1>0 DEF IsTask
<1>4. Others(w) /\ task'[w] = c /\ \A x \in Workers \ {w} : task'[x] = task[x]
  BY <1>2, OwnTask
<1>5. /\ Busy(w)' /\ (Doing(w, "crt")' \/ Doing(w, "key")') /\ ~Doing(w, "lock")'
      /\ Doing(w, "key")' = Doing(w, "key")
  BY <1>1, <1>3, <1>4 DEF Busy, Doing
<1>6. task[w].dom \in Pairs
  BY <1>1 DEF PairInv, PairShape
<1>7. OnlyAt(task[w].dom) /\ (Doing(w, "key") => UNCHANGED crt)
  BY <1>6 DEF OpenFile, OnlyAt, PairInv, PairShape, Doing
<1>8. Doing(w, "key") /\ task[w].clean =>
        crt[task[w].dom] # NoCrt /\ crt[task[w].dom].key = task[w].key
  BY <1>1 DEF PairInv, HalfDone
<1>9. Answers(w, task[w].dom)'
  BY <1>3, <1>4, <1>5 DEF Answers
<1> QED
  BY <1>1, <1>3, <1>4, <1>5, <1>7, <1>8, <1>9, LockIsKept, AdvanceKeeps

\* An operation that has dealt with its key leaves a pair, or says otherwise.
LEMMA DoneKeeps ==
  ASSUME PairInv, NEW w \in Workers, NEW d, Busy(w), d = task[w].dom, Done(w),
         UNCHANGED crt, OnlyAt(d), task[w].clean => Match(d)'
  PROVE  PairInv'
BY EndKeeps DEF Done

LEMMA PairFillFile == ASSUME PairInv, NEW w \in Workers, FillFile(w) PROVE PairInv'
<1>1. IsTask(task[w]) /\ Busy(w) /\ ~Doing(w, "lock")
  BY DEF FillFile, PairInv, PairShape, Busy, Doing
<1>2. task[w].dom \in Pairs
  BY <1>1 DEF PairInv, PairShape
<1>5. Writes(w)
  BY DEF FillFile, PairInv, PairShape
<1>3. CASE Doing(w, "crt")
  <2> DEFINE c == [task[w] EXCEPT !.pc = "key", !.open = FALSE]
             f == [key |-> task[w].key, left |-> Life]
  <2>1. /\ task' = [task EXCEPT ![w] = c] /\ crt' = [crt EXCEPT ![task[w].dom] = f]
        /\ UNCHANGED <<key, mutex, mixed>>
    BY <1>3 DEF FillFile, PairInv, PairShape, Doing
  <2>2. f # NoCrt /\ f.key = task[w].key
    BY CertConstants DEF NoCrt
  <2>0. c = [task[w] EXCEPT !.pc = "key", !.open = FALSE]
    OBVIOUS
  <2> HIDE DEF c, f
  <2>3. /\ IsTask(c) /\ c.pc = "key" /\ ~c.open /\ c.op = task[w].op /\ c.dom = task[w].dom
        /\ c.todo = task[w].todo /\ c.clean = task[w].clean /\ c.key = task[w].key
    BY <1>1, <2>0 DEF IsTask
  <2>4. Others(w) /\ task'[w] = c /\ \A x \in Workers \ {w} : task'[x] = task[x]
    BY <2>1, OwnTask
  <2>5. Busy(w)' /\ Doing(w, "key")' /\ Answers(w, task[w].dom)'
    BY <2>3, <2>4 DEF Busy, Doing, Answers
  <2>6. OnlyAt(task[w].dom) /\ crt'[task[w].dom] = f
    BY <1>2, <2>1 DEF OnlyAt, PairInv, PairShape
  <2> QED
    BY <1>1, <1>5, <2>1, <2>2, <2>3, <2>4, <2>5, <2>6, LockIsKept, AdvanceKeeps
<1>4. CASE Doing(w, "key")
  <2>1. Done(w) /\ UNCHANGED crt /\ key' = [key EXCEPT ![task[w].dom] = task[w].key]
    BY <1>4 DEF FillFile, Doing
  <2>2. PICK d \in Pairs : d = task[w].dom
    BY <1>2
  <2>3. OnlyAt(d) /\ key'[d] = task[w].key
    BY <2>1, <2>2 DEF OnlyAt, PairInv, PairShape
  <2>4. task[w].clean => crt[d] # NoCrt /\ crt[d].key = task[w].key
    BY <1>4, <2>2, <1>5 DEF PairInv, HalfDone
  <2>5. task[w].clean => Match(d)'
    BY <2>1, <2>3, <2>4 DEF Match
  <2> QED
    BY <1>1, <2>1, <2>2, <2>3, <2>5, DoneKeeps
<1> QED
  BY <1>3, <1>4 DEF FillFile

LEMMA PairRemoveFile == ASSUME PairInv, NEW w \in Workers, RemoveFile(w) PROVE PairInv'
<1>1. IsTask(task[w]) /\ Busy(w) /\ ~Doing(w, "lock") /\ ~Writes(w) /\ ~task[w].open
  BY DEF RemoveFile, PairInv, PairShape, Busy, Doing
<1>2. task[w].dom \in Pairs
  BY <1>1 DEF PairInv, PairShape
<1>3. CASE Doing(w, "crt")
  <2> DEFINE c == [task[w] EXCEPT !.pc = "key"]
  <2>1. /\ task' = [task EXCEPT ![w] = c] /\ crt' = [crt EXCEPT ![task[w].dom] = NoCrt]
        /\ UNCHANGED <<key, mutex, mixed>>
    BY <1>3 DEF RemoveFile, PairInv, PairShape, Doing
  <2>0. c = [task[w] EXCEPT !.pc = "key"]
    OBVIOUS
  <2> HIDE DEF c
  <2>2. /\ IsTask(c) /\ c.pc = "key" /\ ~c.open /\ c.op = task[w].op /\ c.dom = task[w].dom
        /\ c.todo = task[w].todo /\ c.clean = task[w].clean
    BY <1>1, <2>0 DEF IsTask
  <2>3. Others(w) /\ task'[w] = c /\ \A x \in Workers \ {w} : task'[x] = task[x]
    BY <2>1, OwnTask
  <2>4. Busy(w)' /\ Doing(w, "key")' /\ Answers(w, task[w].dom)'
    BY <2>2, <2>3 DEF Busy, Doing, Answers
  <2>5. OnlyAt(task[w].dom) /\ crt'[task[w].dom] = NoCrt
    BY <1>2, <2>1 DEF OnlyAt, PairInv, PairShape
  <2> QED
    BY <1>1, <2>1, <2>2, <2>3, <2>4, <2>5, LockIsKept, AdvanceKeeps
<1>4. CASE Doing(w, "key")
  <2>1. Done(w) /\ UNCHANGED crt /\ key' = [key EXCEPT ![task[w].dom] = NoKey]
    BY <1>4 DEF RemoveFile, Doing
  <2>2. PICK d \in Pairs : d = task[w].dom
    BY <1>2
  <2>3. OnlyAt(d) /\ key'[d] = NoKey
    BY <2>1, <2>2 DEF OnlyAt, PairInv, PairShape
  <2>4. task[w].clean => crt[d] = NoCrt
    BY <1>4, <2>2 DEF PairInv, HalfDone, RemoveFile
  <2>5. task[w].clean => Match(d)'
    BY <2>1, <2>3, <2>4 DEF Match
  <2> QED
    BY <1>1, <2>1, <2>2, <2>3, <2>5, DoneKeeps
<1> QED
  BY <1>3, <1>4 DEF RemoveFile

LEMMA PairRemoveFails == ASSUME PairInv, NEW w \in Workers, RemoveFails(w) PROVE PairInv'
<1>1. /\ IsTask(task[w]) /\ Busy(w) /\ ~Doing(w, "lock") /\ UNCHANGED <<crt, key>>
      /\ ~Writes(w) /\ ~task[w].open
  BY DEF RemoveFails, PairInv, PairShape, Busy, Doing, Files
<1>2. OnlyAt(task[w].dom)
  BY <1>1 DEF OnlyAt, PairInv, PairShape
<1>3. CASE Doing(w, "crt")
  <2> DEFINE c == [task[w] EXCEPT !.pc = "key", !.clean = FALSE]
  <2>1. task' = [task EXCEPT ![w] = c] /\ UNCHANGED <<mutex, mixed>>
    BY <1>3 DEF RemoveFails, PairInv, PairShape, Doing
  <2>0. c = [task[w] EXCEPT !.pc = "key", !.clean = FALSE]
    OBVIOUS
  <2> HIDE DEF c
  <2>2. /\ IsTask(c) /\ c.pc = "key" /\ ~c.open /\ c.op = task[w].op /\ c.dom = task[w].dom
        /\ c.todo = task[w].todo /\ ~c.clean
    BY <1>1, <2>0 DEF IsTask
  <2>3. Others(w) /\ task'[w] = c /\ \A x \in Workers \ {w} : task'[x] = task[x]
    BY <2>1, OwnTask
  <2>4. Busy(w)' /\ Doing(w, "key")' /\ Answers(w, task[w].dom)'
    BY <2>2, <2>3 DEF Busy, Doing, Answers
  <2> QED
    BY <1>1, <1>2, <2>1, <2>2, <2>3, <2>4, LockIsKept, AdvanceKeeps
<1>4. CASE Doing(w, "key")
  <2>1. Over(w) /\ mixed' = mixed \cup {task[w].dom}
    BY <1>4 DEF RemoveFails, Doing
  <2> QED
    BY <1>1, <1>2, <2>1, EndKeeps
<1> QED
  BY <1>3, <1>4 DEF RemoveFails

LEMMA PairWorkerStep == ASSUME PairInv, NEW w \in Workers, WorkerStep(w) PROVE PairInv'
<1>1. CASE WriteFails(w)
  <2>1. Busy(w) /\ Fail(w) /\ UNCHANGED <<crt, key>>
    BY <1>1 DEF WriteFails, Busy, Doing, Files
  <2> QED
    BY <2>1, FailKeeps
<1> QED
  BY <1>1, PairNextDomain, PairTakeLock, PairObtain, PairOpenFile, PairFillFile, PairRemoveFile,
     PairRemoveFails DEF WorkerStep

\* Who dies with half a pair written, or in spite of others, is known.
LEMMA PairCertCrash ==
  ASSUME PairInv, NEW S \in SUBSET Workers, S = Tasks \/ S = {"cron"}, CertCrash(S)
  PROVE  PairInv'
<1> DEFINE left == {task[w].dom : w \in {x \in S :
                      task[x].open \/ Doing(x, "key") \/ (Busy(x) /\ ~task[x].clean)}}
<1>1. /\ DOMAIN task' = Workers /\ \A w \in S : task'[w] = Asleep
      /\ \A w \in Workers \ S : task'[w] = task[w]
      /\ UNCHANGED <<crt, key>> /\ mixed' = mixed \cup left
      /\ mutex' = IF mutex \in S THEN Nobody ELSE mutex
  BY DEF CertCrash, Files
<1>2. \A w \in S, d \in Pairs \ left : ~Answers(w, d)
  BY DEF Answers
<1> HIDE DEF left
<1>3. \A w \in S : ~Busy(w)' /\ ~Doing(w, "key")' /\ ~task'[w].open /\ IsTask(task'[w])
                   /\ task'[w].todo = {}
  BY <1>1, AsleepIs DEF Busy, Doing
<1>4. \A w \in Workers \ S : /\ Busy(w)' = Busy(w) /\ Locked(w)' = Locked(w)
                             /\ Writes(w)' = Writes(w) /\ \A l : Doing(w, l)' = Doing(w, l)
                             /\ \A d : Answers(w, d)' = Answers(w, d)
  BY <1>1 DEF Busy, Locked, Writes, Doing, Answers
<1>5. PairShape'
  BY <1>1, <1>3, <1>4 DEF PairInv, PairShape
<1>6. KnowOfEachOther'
  BY <1>1, <1>3, <1>4 DEF PairInv, KnowOfEachOther
<1>7. HoldsMutex'
  BY <1>1, <1>3, <1>4 DEF PairInv, HoldsMutex
<1>8. HalfDone'
  BY <1>1, <1>3, <1>4 DEF PairInv, HalfDone
<1>9. Paired'
  <2>1. \A d \in Pairs : Match(d)' = Match(d)
    BY <1>1 DEF Match
  <2> QED
    BY <1>1, <1>2, <1>4, <2>1 DEF PairInv, Paired
<1> QED
  BY <1>5, <1>6, <1>7, <1>8, <1>9 DEF PairInv

LEMMA PairDayPasses == ASSUME CertInv, PairInv, DayPasses PROVE PairInv'
<1>1. /\ UNCHANGED <<key, task, mutex, mixed>> /\ DOMAIN crt' = Pairs
      /\ \A d \in Pairs :
           crt'[d] = IF d \in Valid THEN [crt[d] EXCEPT !.left = @ - 1] ELSE crt[d]
  BY DEF DayPasses
<1>2. \A w \in Workers : ~Busy(w) /\ ~Doing(w, "key")
  BY DEF DayPasses, Busy, Doing
<1>3. \A w \in Workers : /\ Busy(w)' = Busy(w) /\ Writes(w)' = Writes(w)
                         /\ \A l : Doing(w, l)' = Doing(w, l)
  BY <1>1 DEF Doing, Busy, Writes
<1>4. PairShape'
  BY <1>1, <1>2, <1>3 DEF PairInv, PairShape
<1>5. KnowOfEachOther' /\ HoldsMutex' /\ HalfDone'
  BY <1>2, <1>3 DEF KnowOfEachOther, HoldsMutex, HalfDone
<1>6. ASSUME NEW d \in Pairs PROVE Match(d)' = Match(d)
  <2>1. CASE d \notin Valid
    BY <1>1, <2>1 DEF Match
  <2>2. CASE d \in Valid
    <3>1. IsCrt(crt[d]) /\ crt'[d] = [crt[d] EXCEPT !.left = @ - 1]
      BY <1>1, <2>2 DEF CertInv, CertShape
    <3>2. crt'[d].key = crt[d].key
      BY <3>1 DEF IsCrt
    <3>3. crt[d] # NoCrt /\ crt'[d] # NoCrt
      BY <2>2, <3>2 DEF Valid, Whole, NoCrt
    <3> QED
      BY <1>1, <3>2, <3>3 DEF Match
  <2> QED
    BY <2>1, <2>2
<1>7. Paired'
  <2>1. \A w \in Workers, d \in Pairs : ~Answers(w, d)
    BY <1>2 DEF Answers
  <2> QED
    BY <1>1, <1>6, <2>1 DEF PairInv, Paired
<1> QED
  BY <1>4, <1>5, <1>7 DEF PairInv

LEMMA PairStutter == ASSUME PairInv, UNCHANGED certVars PROVE PairInv'
<1>1. UNCHANGED <<crt, key, task, mutex, mixed>>
  BY DEF certVars
<1>2. \A w : /\ Busy(w)' = Busy(w) /\ Locked(w)' = Locked(w) /\ Writes(w)' = Writes(w)
             /\ \A l : Doing(w, l)' = Doing(w, l)
             /\ \A d : Answers(w, d)' = Answers(w, d)
  BY <1>1 DEF Busy, Locked, Writes, Doing, Answers
<1>3. PairShape' /\ KnowOfEachOther'
  BY <1>1, <1>2 DEF PairInv, PairShape, KnowOfEachOther
<1>4. HoldsMutex' /\ HalfDone'
  BY <1>1, <1>2 DEF PairInv, HoldsMutex, HalfDone
<1>5. Paired'
  BY <1>1, <1>2 DEF PairInv, Paired, Match
<1> QED
  BY <1>3, <1>4, <1>5 DEF PairInv

LEMMA PairInvNext == ASSUME CertInv, PairInv, [CertNext]_certVars PROVE PairInv'
<1>1. ASSUME NEW w \in Tasks, NEW d \in Domains,
             \/ RequestACMEHTTP(w, d) \/ RequestACMEDNS(w, d) \/ DeleteCertificate(w, d)
             \/ RenewTask(w, {d})
      PROVE  PairInv'
  <2>1. {d} \in SUBSET Domains
    OBVIOUS
  <2> QED
    BY <1>1, <2>1, PairBeginnings
<1>2. ASSUME NEW w \in Tasks, RenewTask(w, Valid) \/ EnsureSelfSigned(w) PROVE PairInv'
  <2>1. Valid \in SUBSET Domains
    BY DEF Valid
  <2> QED
    BY <1>2, <2>1, PairBeginnings
<1>3. CASE CertCrash(Tasks) \/ CertCrash({"cron"})
  BY <1>3, PairCertCrash DEF Workers
<1> QED
  BY <1>1, <1>2, <1>3, PairCheckAndRenewAll, PairWorkerStep, PairDayPasses, PairStutter
     DEF CertNext

\* Where nobody is at work, certificate and key belong together or are both
\* missing, unless a failure came after a file was opened or operations met that
\* no mutex keeps apart, and the next that meets nothing of the kind mends it:
\* requests, renewals, deletions and the daily renewal (infra/acme/service.go,
\* application/cert_service.go), for any number of domains and goroutines.
THEOREM PairsStayTogether == CertSpec => []PairsMatch
<1>1. CertInit => CertInv /\ PairInv
  BY CertInvInit, PairInvInit
<1>2. CertInv /\ PairInv /\ [CertNext]_certVars => (CertInv /\ PairInv)'
  BY CertInvStep, PairInvNext
<1>3. PairInv => PairsMatch
  BY DEF PairInv, Paired, Match, Answers, PairsMatch
<1> QED
  BY <1>1, <1>2, <1>3, PTL DEF CertSpec

-----------------------------------------------------------------------------
(* Types.                                                                  *)

TaskRange ==
  [op : {"none", "http", "dns", "renew", "delete", "ensure"},
   pc : {"idle", "next", "lock", "obtain", "crt", "key"},
   dom : Pairs \cup {Nobody}, todo : SUBSET Domains, key : Keys \cup {0},
   open : BOOLEAN, clean : BOOLEAN]

\* What is to be written has a key; the daily renewal is at domains from a CA.
KeyAtHand(t) == t.op # "delete" /\ t.pc \in {"obtain", "crt", "key"} => t.key \in Keys
AtDomain(t) == t.pc \notin {"idle", "next"} => t.dom \in Domains

TasksOK ==
  /\ task \in [Workers -> TaskRange]
  /\ \A w \in Workers : KeyAtHand(task[w])
  /\ AtDomain(task["cron"])

FilesOK ==
  /\ crt \in [Pairs -> [key : Keys, left : -1 .. Life] \cup {NoCrt, TornCrt}]
  /\ key \in [Pairs -> Keys \cup {NoKey, Torn}]

\* No more days are missed than have passed since a certificate was due.
MissedSince ==
  /\ missed \in [Domains -> 0 .. Threshold + 1]
  /\ \A d \in Domains : Whole(crt[d]) =>
       IF crt[d].left > Threshold THEN missed[d] = 0 ELSE missed[d] <= Threshold - crt[d].left

Rest4 ==
  /\ mutex \in Tasks \cup {Nobody} /\ mixed \subseteq Pairs /\ due \subseteq Domains
  /\ tasks \in 0 .. MaxTasks /\ certFaults \in 0 .. MaxCertFaults

CertTypeInv == TasksOK /\ FilesOK /\ MissedSince /\ Rest4

\* Steps that leave the files and the days alone.
LEMMA FileTypesStay == FilesOK /\ crt' = crt /\ key' = key => FilesOK'
BY DEF FilesOK

LEMMA MissedStay == MissedSince /\ crt' = crt /\ missed' = missed => MissedSince'
BY DEF MissedSince, Whole

LEMMA CertTypeInvGives == CertTypeInv => CertTypeOK
BY DEF CertTypeInv, TasksOK, TaskRange, FilesOK, MissedSince, Rest4, CertTypeOK

LEMMA CertTypeInvInit == CertInit => CertTypeInv
<1> SUFFICES ASSUME CertInit PROVE CertTypeInv
  OBVIOUS
<1>1. Asleep \in TaskRange /\ KeyAtHand(Asleep) /\ AtDomain(Asleep)
  BY DEF Asleep, TaskRange, KeyAtHand, AtDomain
<1>2. TasksOK
  BY <1>1 DEF CertInit, TasksOK, Workers
<1>3. FilesOK
  BY DEF CertInit, FilesOK
<1>4. MissedSince
  BY CertConstants DEF CertInit, MissedSince, Whole, NoCrt, Pairs
<1>5. Rest4
  BY CertConstants DEF CertInit, Rest4
<1> QED
  BY <1>2, <1>3, <1>4, <1>5 DEF CertTypeInv

\* There are more keys than files and goroutines could hold.
LEMMA ImageIsNoLarger ==
  ASSUME NEW S, IsFiniteSet(S), NEW f, f = [x \in S |-> f[x]]
  PROVE  LET T == {f[x] : x \in S} IN IsFiniteSet(T) /\ Cardinality(T) <= Cardinality(S)
<1> DEFINE T == {f[x] : x \in S}
<1>1. f \in Surjection(S, T)
  BY DEF Surjection
<1> QED
  BY <1>1, FS_Surjection

LEMMA UnionIsNoLarger ==
  ASSUME NEW S, IsFiniteSet(S), NEW T, IsFiniteSet(T)
  PROVE  IsFiniteSet(S \cup T) /\ Cardinality(S \cup T) <= Cardinality(S) + Cardinality(T)
<1>1. IsFiniteSet(S \cap T)
  BY FS_Subset
<1>2. Cardinality(S) \in Nat /\ Cardinality(T) \in Nat /\ Cardinality(S \cap T) \in Nat
  BY <1>1, FS_CardinalityType
<1>3. IsFiniteSet(S \cup T)
      /\ Cardinality(S \cup T) = Cardinality(S) + Cardinality(T) - Cardinality(S \cap T)
  BY FS_Union
<1> QED
  BY <1>2, <1>3

LEMMA FiniteSets == IsFiniteSet(Pairs) /\ IsFiniteSet(Workers)
BY CertConstants, FS_AddElement DEF Pairs, Workers

LEMMA NewKeyIsKey == NewKey \in Keys
<1> DEFINE held == [d \in Pairs |-> crt[d].key]
           kept == [d \in Pairs |-> key[d]]
           used == [w \in Workers |-> task[w].key]
           A == {held[d] : d \in Pairs}
           B == {kept[d] : d \in Pairs}
           C == {used[w] : w \in Workers}
           p == Cardinality(Pairs)
           n == Cardinality(Workers)
<1>1. p \in Nat /\ n \in Nat
  BY FiniteSets, FS_CardinalityType
<1>2. IsFiniteSet(A) /\ Cardinality(A) <= p /\ IsFiniteSet(B) /\ Cardinality(B) <= p
  <2>1. held = [d \in Pairs |-> held[d]] /\ kept = [d \in Pairs |-> kept[d]]
    OBVIOUS
  <2> HIDE DEF held, kept
  <2> QED
    BY <2>1, FiniteSets, ImageIsNoLarger
<1>3. IsFiniteSet(C) /\ Cardinality(C) <= n
  <2>1. used = [w \in Workers |-> used[w]]
    OBVIOUS
  <2> HIDE DEF used
  <2> QED
    BY <2>1, FiniteSets, ImageIsNoLarger
<1>4. \A k : k \notin A \cup B \cup C =>
        /\ \A d \in Pairs : crt[d].key # k /\ key[d] # k
        /\ \A w \in Workers : task[w].key # k
  OBVIOUS
<1> HIDE DEF A, B, C
<1>5. IsFiniteSet(A \cup B) /\ Cardinality(A \cup B) <= p + p
  <2>1. Cardinality(A) \in Nat /\ Cardinality(B) \in Nat /\ IsFiniteSet(A \cup B)
        /\ Cardinality(A \cup B) <= Cardinality(A) + Cardinality(B)
        /\ Cardinality(A \cup B) \in Nat
    BY <1>2, UnionIsNoLarger, FS_CardinalityType
  <2> HIDE DEF p
  <2> QED
    BY <1>1, <1>2, <2>1
<1>6. IsFiniteSet(A \cup B \cup C) /\ Cardinality(A \cup B \cup C) <= p + p + n
  <2>1. Cardinality(A \cup B) \in Nat /\ Cardinality(C) \in Nat /\ IsFiniteSet(A \cup B \cup C)
        /\ Cardinality(A \cup B \cup C) <= Cardinality(A \cup B) + Cardinality(C)
        /\ Cardinality(A \cup B \cup C) \in Nat
    BY <1>3, <1>5, UnionIsNoLarger, FS_CardinalityType
  <2> HIDE DEF p, n
  <2> QED
    BY <1>1, <1>3, <1>5, <2>1
<1>7. Cardinality(Keys) = p + p + n + 1
  <2>1. Keys = 1 .. (p + p + n + 1)
    BY <1>1 DEF Keys
  <2> HIDE DEF p, n
  <2> QED
    BY <1>1, <2>1, FS_Interval
<1>8. \E k \in Keys : k \notin A \cup B \cup C
  <2>1. SUFFICES ASSUME Keys \subseteq A \cup B \cup C PROVE FALSE
    OBVIOUS
  <2>2. Cardinality(Keys) <= Cardinality(A \cup B \cup C) /\ Cardinality(A \cup B \cup C) \in Nat
    BY <1>6, <2>1, FS_Subset, FS_CardinalityType
  <2> HIDE DEF p, n
  <2> QED
    BY <1>1, <1>6, <1>7, <2>2
<1>9. \E k \in Keys : /\ \A d \in Pairs : crt[d].key # k /\ key[d] # k
                      /\ \A w \in Workers : task[w].key # k
  BY <1>4, <1>8
<1> QED
  BY <1>9 DEF NewKey

-----------------------------------------------------------------------------
\* What a goroutine, and the daily renewal, may be at next.
MayBeAt(w, t) ==
  t \in TaskRange /\ KeyAtHand(t) /\ (w = "cron" => AtDomain(t))

LEMMA TaskIsTyped ==
  ASSUME CertTypeInv, NEW w \in Workers
  PROVE  MayBeAt(w, task[w])
BY DEF CertTypeInv, TasksOK, MayBeAt

LEMMA AsleepMayBe == \A w \in Workers : MayBeAt(w, Asleep)
BY DEF Asleep, TaskRange, KeyAtHand, AtDomain, MayBeAt

\* Who meets another at its domain is no longer clean.
LEMMA Unclean ==
  ASSUME NEW w \in Workers, NEW t, MayBeAt(w, t), NEW b \in BOOLEAN
  PROVE  MayBeAt(w, [t EXCEPT !.clean = b])
<1> DEFINE u == [t EXCEPT !.clean = b]
<1>1. t \in TaskRange
  BY DEF MayBeAt
<1>2. /\ u \in TaskRange /\ u.op = t.op /\ u.pc = t.pc /\ u.dom = t.dom /\ u.key = t.key
  BY <1>1 DEF TaskRange
<1> HIDE DEF u
<1>3. MayBeAt(w, u)
  BY <1>2 DEF MayBeAt, KeyAtHand, AtDomain
<1> QED
  BY <1>3 DEF u

LEMMA TurnToTyped ==
  ASSUME CertTypeInv, NEW w \in Workers, NEW t, MayBeAt(w, t), TurnTo(w, t)
  PROVE  TasksOK'
<1> DEFINE with == {x \in Workers \ {w} : Busy(x) /\ task[x].dom = t.dom
                      /\ ~(w # "cron" /\ t.op \in {"dns", "renew"} /\ Locked(x))}
           b == with = {}
<1>1. task' = [x \in Workers |->
                 IF x = w THEN [t EXCEPT !.clean = b]
                 ELSE IF x \in with THEN [task[x] EXCEPT !.clean = FALSE] ELSE task[x]]
  BY DEF TurnTo
<1>2. b \in BOOLEAN
  OBVIOUS
<1> HIDE DEF with, b
<1>3. \A x \in Workers : MayBeAt(x, task'[x])
  <2> TAKE x \in Workers
  <2>1. CASE x = w
    BY <1>1, <1>2, <2>1, Unclean
  <2>2. CASE x # w
    BY <1>1, <2>2, TaskIsTyped, Unclean
  <2> QED
    BY <2>1, <2>2
<1> QED
  BY <1>1, <1>3 DEF MayBeAt, TasksOK, Workers

LEMMA TaskSetTyped ==
  ASSUME CertTypeInv, NEW w \in Workers, NEW t, MayBeAt(w, t), task' = [task EXCEPT ![w] = t]
  PROVE  TasksOK'
<1>1. /\ task'[w] = t /\ \A x \in Workers \ {w} : task'[x] = task[x]
      /\ task' = [x \in Workers |-> task'[x]]
  BY DEF CertTypeInv, TasksOK
<1>2. \A x \in Workers : MayBeAt(x, task'[x])
  BY <1>1, TaskIsTyped
<1> QED
  BY <1>1, <1>2 DEF MayBeAt, TasksOK, Workers

\* What a task that begins is.
TaskBegins(t, o, l, d) == t = [Asleep EXCEPT !.op = o, !.pc = l, !.dom = d]

LEMMA NewTask ==
  ASSUME NEW o \in {"http", "dns", "delete"}, NEW l \in {"lock", "crt"}, NEW d \in Domains,
         NEW t, TaskBegins(t, o, l, d)
  PROVE  t \in TaskRange /\ t.op = o /\ t.pc = l
<1> DEFINE O == {"none", "http", "dns", "renew", "delete", "ensure"}
           L == {"idle", "next", "lock", "obtain", "crt", "key"}
           D == Pairs \cup {Nobody}
           T == SUBSET Domains
           N == Keys \cup {0}
           a == Asleep
<1>1. TaskRange = [op : O, pc : L, dom : D, todo : T, key : N, open : BOOLEAN, clean : BOOLEAN]
  BY DEF TaskRange
<1>2. o \in O /\ l \in L /\ d \in D
  BY DEF Pairs
<1>3. a \in TaskRange
  BY DEF Asleep, TaskRange
<1> HIDE DEF O, L, D, T, N, a
<1>4. LET u == [a EXCEPT !.op = o, !.pc = l, !.dom = d] IN
      u \in TaskRange /\ u.op = o /\ u.pc = l
  BY <1>1, <1>2, <1>3
<1> QED
  BY <1>4 DEF a, TaskBegins

LEMMA NewPair ==
  ASSUME NEW t \in TaskRange, NEW n, n \in Keys
  PROVE  LET u == [t EXCEPT !.op = "ensure", !.pc = "crt", !.dom = "self_signed", !.key = n] IN
         u \in TaskRange /\ u.key = n
<1> DEFINE O == {"none", "http", "dns", "renew", "delete", "ensure"}
           L == {"idle", "next", "lock", "obtain", "crt", "key"}
           D == Pairs \cup {Nobody}
           T == SUBSET Domains
           N == Keys \cup {0}
<1>1. TaskRange = [op : O, pc : L, dom : D, todo : T, key : N, open : BOOLEAN, clean : BOOLEAN]
  BY DEF TaskRange
<1>2. "ensure" \in O /\ "crt" \in L /\ "self_signed" \in D /\ n \in N
  BY DEF Pairs
<1> HIDE DEF O, L, D, T, N
<1> QED
  BY <1>1, <1>2

LEMMA NewRenewal ==
  ASSUME NEW t \in TaskRange, NEW S \in SUBSET Domains
  PROVE  LET u == [t EXCEPT !.op = "renew", !.pc = "next", !.todo = S] IN
         u \in TaskRange /\ u.pc = "next"
<1> DEFINE O == {"none", "http", "dns", "renew", "delete", "ensure"}
           L == {"idle", "next", "lock", "obtain", "crt", "key"}
           D == Pairs \cup {Nobody}
           T == SUBSET Domains
           N == Keys \cup {0}
<1>1. TaskRange = [op : O, pc : L, dom : D, todo : T, key : N, open : BOOLEAN, clean : BOOLEAN]
  BY DEF TaskRange
<1>2. "renew" \in O /\ "next" \in L /\ S \in T
  OBVIOUS
<1> HIDE DEF O, L, D, T, N
<1> QED
  BY <1>1, <1>2

LEMMA TaskMoves ==
  ASSUME CertTypeInv, NEW w \in Workers, Busy(w), NEW t \in TaskRange,
         t.op = task[w].op, t.dom = task[w].dom,
         Writes(w) /\ t.pc \in {"obtain", "crt", "key"} => t.key \in Keys,
         task' = [task EXCEPT ![w] = t]
  PROVE  TasksOK'
<1>1. MayBeAt(w, t)
  BY TaskIsTyped DEF MayBeAt, KeyAtHand, AtDomain, Writes, Busy, Doing
<1> QED
  BY <1>1, TaskSetTyped

\* An operation is over: the next domain, or the end.
LEMMA OverTyped ==
  ASSUME CertTypeInv, NEW w \in Workers, Over(w)
  PROVE  TasksOK' /\ mutex' \in Tasks \cup {Nobody}
<1>1. task' = [task EXCEPT ![w] = Rest(w)] /\ mutex' = IF mutex = w THEN Nobody ELSE mutex
  BY DEF Over
<1>2. MayBeAt(w, Rest(w))
  <2>1. CASE task[w].op = "renew"
    <3> DEFINE S == task[w].todo
               u == [Asleep EXCEPT !.op = "renew", !.pc = "next", !.todo = S]
    <3>1. S \in SUBSET Domains /\ Asleep \in TaskRange
      BY TaskIsTyped, AsleepMayBe DEF MayBeAt, TaskRange
    <3>2. Rest(w) = u
      BY <2>1 DEF Rest
    <3> HIDE DEF S
    <3>3. u \in TaskRange /\ u.pc = "next"
      BY <3>1, NewRenewal
    <3> HIDE DEF u
    <3> QED
      BY <3>2, <3>3 DEF MayBeAt, KeyAtHand, AtDomain
  <2>2. CASE task[w].op # "renew"
    BY <2>2, AsleepMayBe DEF Rest
  <2> QED
    BY <2>1, <2>2
<1> QED
  BY <1>1, <1>2, TaskSetTyped DEF CertTypeInv, Rest4

LEMMA BusyAt ==
  ASSUME CertTypeInv, PairInv, NEW w \in Workers, Busy(w)
  PROVE  task[w].dom \in Pairs /\ (w = "cron" => task[w].dom \in Domains)
BY TaskIsTyped DEF PairInv, PairShape, MayBeAt, AtDomain, Busy, Doing

LEMMA FailTyped ==
  ASSUME CertTypeInv, PairInv, NEW w \in Workers, Busy(w), Fail(w)
  PROVE  /\ TasksOK' /\ mutex' \in Tasks \cup {Nobody}
         /\ mixed' \subseteq Pairs /\ due' \subseteq Domains
BY OverTyped, BusyAt DEF Fail, CertTypeInv, Rest4

LEMMA CertFaultCounts == CertTypeInv /\ CertFault => certFaults' \in 0 .. MaxCertFaults
BY CertConstants DEF CertTypeInv, Rest4, CertFault

LEMMA BeginTyped ==
  ASSUME CertTypeInv, NEW w \in Tasks, NEW t, MayBeAt(w, t), BeginTask(w, t)
  PROVE  CertTypeInv'
<1>1. TasksOK'
  BY TurnToTyped DEF BeginTask, Workers
<1>2. FilesOK' /\ MissedSince'
  BY FileTypesStay, MissedStay DEF BeginTask, Files, Clock, CertTypeInv
<1>3. tasks' \in 0 .. MaxTasks
  BY CertConstants DEF BeginTask, CertTypeInv, Rest4
<1>4. Rest4'
  BY <1>3 DEF BeginTask, CertTypeInv, Rest4, Clock
<1> QED
  BY <1>1, <1>2, <1>4 DEF CertTypeInv

LEMMA BeginningsTyped ==
  ASSUME CertTypeInv, NEW w \in Tasks,
         \/ \E d \in Domains : RequestACMEHTTP(w, d) \/ RequestACMEDNS(w, d)
                               \/ DeleteCertificate(w, d) \/ RenewTask(w, {d})
         \/ RenewTask(w, Valid) \/ EnsureSelfSigned(w)
  PROVE  CertTypeInv'
<1>0. w # "cron"
  BY CertConstants
<1>1. Asleep \in TaskRange /\ NewKey \in Keys /\ Domains \subseteq Pairs
  BY AsleepMayBe, NewKeyIsKey DEF MayBeAt, Workers, Pairs
<1>2. ASSUME NEW o \in {"http", "dns"}, NEW d \in Domains,
             BeginTask(w, [Asleep EXCEPT !.op = o, !.pc = "lock", !.dom = d])
      PROVE  CertTypeInv'
  <2> DEFINE l == "lock"
             t == [Asleep EXCEPT !.op = o, !.pc = l, !.dom = d]
  <2>1. t \in TaskRange /\ t.pc = "lock"
    <3>1. l \in {"lock", "crt"} /\ TaskBegins(t, o, l, d)
      BY DEF TaskBegins
    <3>2. o \in {"http", "dns", "delete"}
      OBVIOUS
    <3> HIDE DEF l, t
    <3>3. t \in TaskRange /\ t.op = o /\ t.pc = l
      BY <3>1, <3>2, NewTask
    <3> QED
      BY <3>3 DEF l
  <2>2. BeginTask(w, t)
    BY <1>2
  <2> HIDE DEF t
  <2> QED
    BY <1>0, <2>1, <2>2, BeginTyped DEF MayBeAt, KeyAtHand
<1>3. ASSUME NEW o \in {"delete"}, NEW d \in Domains,
             BeginTask(w, [Asleep EXCEPT !.op = o, !.pc = "crt", !.dom = d])
      PROVE  CertTypeInv'
  <2> DEFINE l == "crt"
             t == [Asleep EXCEPT !.op = o, !.pc = l, !.dom = d]
  <2>1. t \in TaskRange /\ t.op = "delete"
    <3>1. l \in {"lock", "crt"} /\ TaskBegins(t, o, l, d)
      BY DEF TaskBegins
    <3>2. o \in {"http", "dns", "delete"}
      OBVIOUS
    <3> HIDE DEF l, t
    <3>3. t \in TaskRange /\ t.op = o /\ t.pc = l
      BY <3>1, <3>2, NewTask
    <3> QED
      BY <3>3 DEF l
  <2>2. BeginTask(w, t)
    BY <1>3
  <2> HIDE DEF t
  <2> QED
    BY <1>0, <2>1, <2>2, BeginTyped DEF MayBeAt, KeyAtHand
<1>4. ASSUME NEW S \in SUBSET Domains, RenewTask(w, S) PROVE CertTypeInv'
  <2> DEFINE t == [Asleep EXCEPT !.op = "renew", !.pc = "next", !.todo = S]
  <2>1. t \in TaskRange /\ t.pc = "next"
    BY <1>1, NewRenewal
  <2>2. BeginTask(w, t)
    BY <1>4 DEF RenewTask
  <2> HIDE DEF t
  <2> QED
    BY <1>0, <2>1, <2>2, BeginTyped DEF MayBeAt, KeyAtHand
<1>7. ASSUME EnsureSelfSigned(w) PROVE CertTypeInv'
  <2> DEFINE k == NewKey
             t == [Asleep EXCEPT !.op = "ensure", !.pc = "crt", !.dom = "self_signed", !.key = k]
  <2>1. k \in Keys /\ "self_signed" \in Pairs /\ BeginTask(w, t)
    BY <1>1, <1>7 DEF Pairs, EnsureSelfSigned
  <2> HIDE DEF k
  <2>2. t \in TaskRange /\ t.key = k
    BY <1>1, <2>1, NewPair
  <2> HIDE DEF t
  <2> QED
    BY <1>0, <2>1, <2>2, BeginTyped DEF MayBeAt, KeyAtHand
<1>5. \A d \in Domains : {d} \in SUBSET Domains
  OBVIOUS
<1>6. Valid \in SUBSET Domains
  BY DEF Valid
<1> QED
  BY <1>2, <1>3, <1>4, <1>5, <1>6, <1>7 DEF RequestACMEHTTP, RequestACMEDNS, DeleteCertificate

LEMMA CheckTyped == ASSUME CertTypeInv, CheckAndRenewAll PROVE CertTypeInv'
<1> DEFINE w == "cron"
           S == DueCertificates
           c == [task[w] EXCEPT !.op = "renew", !.pc = "next", !.todo = S]
<1>1. w \in Workers /\ S \in SUBSET Domains
  BY DEF Workers, DueCertificates, Valid
<1>2. task[w] \in TaskRange
  BY <1>1, TaskIsTyped DEF MayBeAt
<1>3. task' = [task EXCEPT ![w] = c]
  BY DEF CheckAndRenewAll, CertTypeInv, TasksOK
<1> HIDE DEF S
<1>4. c \in TaskRange /\ c.pc = "next"
  BY <1>1, <1>2, NewRenewal
<1> HIDE DEF c, w
<1>5. MayBeAt(w, c)
  BY <1>4 DEF MayBeAt, KeyAtHand, AtDomain
<1>6. TasksOK'
  BY <1>1, <1>3, <1>5, TaskSetTyped
<1>7. FilesOK' /\ MissedSince'
  BY FileTypesStay, MissedStay DEF CheckAndRenewAll, Files, CertTypeInv
<1>8. Rest4'
  BY DEF CheckAndRenewAll, CertTypeInv, Rest4, Counts
<1> QED
  BY <1>6, <1>7, <1>8 DEF CertTypeInv

\* The next domain of a renewal is one of those it has to do.
TaskTurns(t, u, d) == u = [t EXCEPT !.pc = "lock", !.dom = d, !.todo = @ \ {d}]

LEMMA TurnIsTyped ==
  ASSUME NEW t \in TaskRange, NEW d \in t.todo, NEW u, TaskTurns(t, u, d)
  PROVE  u \in TaskRange /\ u.pc = "lock" /\ u.dom \in Domains
<1> DEFINE O == {"none", "http", "dns", "renew", "delete", "ensure"}
           L == {"idle", "next", "lock", "obtain", "crt", "key"}
           D == Pairs \cup {Nobody}
           T == SUBSET Domains
           N == Keys \cup {0}
<1>1. TaskRange = [op : O, pc : L, dom : D, todo : T, key : N, open : BOOLEAN, clean : BOOLEAN]
  BY DEF TaskRange
<1>2. "lock" \in L /\ t.todo \ {d} \in T /\ d \in Domains /\ d \in D
  BY DEF TaskRange, Pairs
<1> HIDE DEF O, L, D, T, N
<1> QED
  BY <1>1, <1>2 DEF TaskTurns

LEMMA NextDomainTyped == ASSUME CertTypeInv, NEW w \in Workers, NextDomain(w) PROVE CertTypeInv'
<1>1. TasksOK'
  <2>1. CASE task' = [task EXCEPT ![w] = Asleep]
    BY <2>1, AsleepMayBe, TaskSetTyped
  <2>2. ASSUME NEW d \in task[w].todo,
               TurnTo(w, [task[w] EXCEPT !.pc = "lock", !.dom = d, !.todo = @ \ {d}])
        PROVE  TasksOK'
    <3> DEFINE u == [task[w] EXCEPT !.pc = "lock", !.dom = d, !.todo = @ \ {d}]
    <3>1. TurnTo(w, u) /\ TaskTurns(task[w], u, d) /\ task[w] \in TaskRange
      BY <2>2, TaskIsTyped DEF TaskTurns, MayBeAt
    <3> HIDE DEF u
    <3>2. u \in TaskRange /\ u.pc = "lock" /\ u.dom \in Domains
      BY <3>1, TurnIsTyped
    <3>3. MayBeAt(w, u)
      BY <3>2 DEF MayBeAt, KeyAtHand, AtDomain
    <3> QED
      BY <3>1, <3>3, TurnToTyped
  <2> QED
    BY <2>1, <2>2 DEF NextDomain
<1>2. FilesOK' /\ MissedSince'
  BY FileTypesStay, MissedStay DEF NextDomain, Files, Clock, CertTypeInv
<1>3. Rest4'
  BY DEF NextDomain, CertTypeInv, Rest4, Clock, Counts
<1> QED
  BY <1>1, <1>2, <1>3 DEF CertTypeInv

\* An operation that fails.
LEMMA FailureTyped ==
  ASSUME CertTypeInv, PairInv, NEW w \in Workers, Busy(w), Fail(w),
         UNCHANGED <<crt, key, missed, tasks>>, certFaults' \in 0 .. MaxCertFaults
  PROVE  CertTypeInv'
<1>1. FilesOK' /\ MissedSince'
  BY FileTypesStay, MissedStay DEF CertTypeInv
<1>2. /\ TasksOK' /\ mutex' \in Tasks \cup {Nobody}
      /\ mixed' \subseteq Pairs /\ due' \subseteq Domains
  BY FailTyped
<1>3. Rest4'
  BY <1>2 DEF CertTypeInv, Rest4
<1> QED
  BY <1>1, <1>2, <1>3 DEF CertTypeInv

TaskGoes(t, u, l) == u = [t EXCEPT !.pc = l]
TaskGets(t, u, n) == u = [t EXCEPT !.pc = "obtain", !.key = n]
TaskOpens(t, u) == u = [t EXCEPT !.open = TRUE]
TaskShuts(t, u) == u = [t EXCEPT !.pc = "key", !.open = FALSE]
TaskSoils(t, u) == u = [t EXCEPT !.pc = "key", !.clean = FALSE]

LEMMA TaskChanges ==
  ASSUME NEW t \in TaskRange, NEW u, NEW l \in {"crt", "key"}
  PROVE  /\ TaskGoes(t, u, l) => /\ u \in TaskRange /\ u.op = t.op /\ u.dom = t.dom /\ u.key = t.key
                             /\ u.pc = l
         /\ \A n \in Keys : TaskGets(t, u, n) =>
              u \in TaskRange /\ u.op = t.op /\ u.dom = t.dom /\ u.key = n /\ u.pc = "obtain"
         /\ TaskOpens(t, u) => /\ u \in TaskRange /\ u.op = t.op /\ u.dom = t.dom /\ u.key = t.key
                           /\ u.pc = t.pc
         /\ TaskShuts(t, u) => /\ u \in TaskRange /\ u.op = t.op /\ u.dom = t.dom /\ u.key = t.key
                           /\ u.pc = "key"
         /\ TaskSoils(t, u) => /\ u \in TaskRange /\ u.op = t.op /\ u.dom = t.dom /\ u.key = t.key
                           /\ u.pc = "key"
<1> DEFINE O == {"none", "http", "dns", "renew", "delete", "ensure"}
           L == {"idle", "next", "lock", "obtain", "crt", "key"}
           D == Pairs \cup {Nobody}
           T == SUBSET Domains
           N == Keys \cup {0}
<1>1. TaskRange = [op : O, pc : L, dom : D, todo : T, key : N, open : BOOLEAN, clean : BOOLEAN]
  BY DEF TaskRange
<1>2. l \in L /\ "obtain" \in L /\ "key" \in L /\ \A n \in Keys : n \in N
  OBVIOUS
<1> HIDE DEF O, L, D, T, N
<1> QED
  BY <1>1, <1>2 DEF TaskGoes, TaskGets, TaskOpens, TaskShuts, TaskSoils

LEMMA TakeLockTyped ==
  ASSUME CertTypeInv, PairInv, NEW w \in Workers, TakeLock(w) PROVE CertTypeInv'
<1>1. /\ Busy(w) /\ UNCHANGED <<crt, key, missed, tasks, certFaults>>
      /\ task[w] \in TaskRange /\ certFaults' \in 0 .. MaxCertFaults
  BY TaskIsTyped DEF TakeLock, Files, Counts, Busy, Doing, MayBeAt, CertTypeInv, Rest4
<1>2. CASE Fail(w)
  BY <1>1, <1>2, FailureTyped
<1>3. CASE ~Fail(w)
  <2> DEFINE n == IF task[w].op = "renew" THEN key[task[w].dom] ELSE NewKey
             t == task[w]
             u == [t EXCEPT !.pc = "obtain", !.key = n]
  <2>1. /\ task' = [task EXCEPT ![w] = u] /\ UNCHANGED <<mixed, due>>
        /\ mutex' = IF Locked(w) THEN w ELSE mutex
    BY <1>3 DEF TakeLock, CertTypeInv, TasksOK
  <2>2. n \in Keys
    <3>1. CASE t.op = "renew"
      <4>1. key[t.dom] > 0 /\ t.dom \in Pairs
        BY <1>1, <1>3, <3>1, BusyAt DEF TakeLock, Renewable
      <4>2. key[t.dom] \in Keys \cup {NoKey, Torn}
        BY <4>1 DEF CertTypeInv, FilesOK
      <4> QED
        BY <3>1, <4>1, <4>2 DEF NoKey, Torn
    <3>2. CASE t.op # "renew"
      BY <3>2, NewKeyIsKey
    <3> QED
      BY <3>1, <3>2
  <2>3. TaskGets(t, u, n) /\ t \in TaskRange
    BY <1>1 DEF TaskGets
  <2> HIDE DEF n, u
  <2>4. u \in TaskRange /\ u.op = t.op /\ u.dom = t.dom /\ u.key = n
    BY <2>2, <2>3, TaskChanges
  <2>5. TasksOK'
    BY <1>1, <2>1, <2>2, <2>4, TaskMoves
  <2>6. FilesOK' /\ MissedSince'
    BY <1>1, FileTypesStay, MissedStay DEF CertTypeInv
  <2>7. Rest4'
    BY <1>1, <2>1 DEF CertTypeInv, Rest4, Locked, Workers
  <2> QED
    BY <2>5, <2>6, <2>7 DEF CertTypeInv
<1> QED
  BY <1>2, <1>3

LEMMA ObtainTyped ==
  ASSUME CertTypeInv, PairInv, NEW w \in Workers, Obtain(w) PROVE CertTypeInv'
<1>1. /\ Busy(w) /\ UNCHANGED <<crt, key, missed, tasks>> /\ task[w] \in TaskRange
      /\ KeyAtHand(task[w]) /\ Doing(w, "obtain")
  BY TaskIsTyped DEF Obtain, Files, Busy, Doing, MayBeAt
<1>2. CASE CertFault /\ Fail(w)
  BY <1>1, <1>2, FailureTyped, CertFaultCounts
<1>3. CASE ~(CertFault /\ Fail(w))
  <2> DEFINE t == task[w]
             u == [t EXCEPT !.pc = "crt"]
  <2>1. task' = [task EXCEPT ![w] = u] /\ UNCHANGED <<mutex, mixed, due, certFaults>>
    BY <1>3 DEF Obtain, CertTypeInv, TasksOK
  <2>2. TaskGoes(t, u, "crt") /\ t \in TaskRange
    BY <1>1 DEF TaskGoes
  <2> HIDE DEF u
  <2>3. u \in TaskRange /\ u.op = t.op /\ u.dom = t.dom /\ u.key = t.key
    BY <2>2, TaskChanges
  <2>4. TasksOK'
    BY <1>1, <2>1, <2>3, TaskMoves DEF KeyAtHand, Writes, Doing
  <2>5. FilesOK' /\ MissedSince'
    BY <1>1, FileTypesStay, MissedStay DEF CertTypeInv
  <2>6. Rest4'
    BY <1>1, <2>1 DEF CertTypeInv, Rest4
  <2> QED
    BY <2>4, <2>5, <2>6 DEF CertTypeInv
<1> QED
  BY <1>2, <1>3

LEMMA WriteFailsTyped ==
  ASSUME CertTypeInv, PairInv, NEW w \in Workers, WriteFails(w) PROVE CertTypeInv'
<1>1. Busy(w) /\ Fail(w) /\ UNCHANGED <<crt, key, missed, tasks>> /\ CertFault
  BY DEF WriteFails, Files, Busy, Doing
<1> QED
  BY <1>1, FailureTyped, CertFaultCounts

\* One of the files of a domain changes.
CrtRange == [key : Keys, left : -1 .. Life] \cup {NoCrt, TornCrt}

LEMMA CrtChanges ==
  ASSUME CertTypeInv, NEW d \in Pairs, NEW c \in CrtRange, crt' = [crt EXCEPT ![d] = c],
         UNCHANGED key, missed' \in [Domains -> 0 .. Threshold + 1],
         \A e \in Domains \ {d} : missed'[e] = missed[e],
         d \in Domains /\ Whole(c) => c.left > Threshold /\ missed'[d] = 0
  PROVE  FilesOK' /\ MissedSince'
<1>1. crt \in [Pairs -> CrtRange]
  BY DEF CertTypeInv, FilesOK, CrtRange
<1>2. crt' \in [Pairs -> CrtRange] /\ crt'[d] = c /\ \A e \in Pairs \ {d} : crt'[e] = crt[e]
  BY <1>1
<1>3. FilesOK'
  BY <1>2 DEF CertTypeInv, FilesOK, CrtRange
<1>4. ASSUME NEW e \in Domains, Whole(crt'[e])
      PROVE  IF crt'[e].left > Threshold THEN missed'[e] = 0
             ELSE missed'[e] <= Threshold - crt'[e].left
  <2>1. CASE e = d
    BY <1>2, <1>4, <2>1
  <2>2. CASE e # d
    BY <1>2, <1>4, <2>2 DEF CertTypeInv, MissedSince, Pairs
  <2> QED
    BY <2>1, <2>2
<1>5. MissedSince'
  BY <1>4 DEF MissedSince, Whole
<1> QED
  BY <1>3, <1>5

LEMMA KeyChanges ==
  ASSUME CertTypeInv, NEW d, NEW k \in Keys \cup {NoKey, Torn}, key' = [key EXCEPT ![d] = k],
         UNCHANGED <<crt, missed>>
  PROVE  FilesOK' /\ MissedSince'
<1>1. FilesOK'
  BY DEF CertTypeInv, FilesOK
<1> QED
  BY <1>1, MissedStay DEF CertTypeInv

LEMMA DoneTyped ==
  ASSUME CertTypeInv, PairInv, NEW w \in Workers, Busy(w), Done(w),
         UNCHANGED <<due, tasks, certFaults>>
  PROVE  TasksOK' /\ Rest4'
<1>1. TasksOK' /\ mutex' \in Tasks \cup {Nobody}
  BY OverTyped DEF Done
<1>2. mixed' \subseteq Pairs
  BY BusyAt DEF Done, CertTypeInv, Rest4
<1> QED
  BY <1>1, <1>2 DEF CertTypeInv, Rest4

LEMMA OpenFileTyped ==
  ASSUME CertTypeInv, PairInv, NEW w \in Workers, OpenFile(w) PROVE CertTypeInv'
<1> DEFINE t == task[w]
           d == t.dom
           u == [t EXCEPT !.open = TRUE]
<1>1. /\ Busy(w) /\ t \in TaskRange /\ KeyAtHand(t) /\ (Doing(w, "crt") \/ Doing(w, "key"))
      /\ UNCHANGED <<due, missed, mutex, mixed, tasks, certFaults>>
  BY TaskIsTyped DEF OpenFile, Clock, Counts, Busy, Doing, MayBeAt
<1>2. task' = [task EXCEPT ![w] = u] /\ TaskOpens(t, u)
  BY DEF OpenFile, CertTypeInv, TasksOK, TaskOpens
<1> HIDE DEF u
<1>3. u \in TaskRange /\ u.op = t.op /\ u.dom = t.dom /\ u.key = t.key /\ u.pc = t.pc
  BY <1>1, <1>2, TaskChanges
<1>4. TasksOK'
  BY <1>1, <1>2, <1>3, TaskMoves DEF KeyAtHand, Writes
<1>5. FilesOK' /\ MissedSince'
  <2>1. d \in Pairs
    BY <1>1, BusyAt
  <2> DEFINE c == TornCrt
  <2>2. c \in CrtRange /\ ~Whole(c)
    BY DEF TornCrt, CrtRange, Whole
  <2>3. CASE crt' = [crt EXCEPT ![d] = c] /\ UNCHANGED key
    <3> HIDE DEF c
    <3> QED
      BY <1>1, <2>1, <2>2, <2>3, CrtChanges DEF CertTypeInv, MissedSince
  <2>4. CASE key' = [key EXCEPT ![d] = Torn] /\ UNCHANGED crt
    BY <1>1, <2>4, KeyChanges
  <2> QED
    BY <2>3, <2>4 DEF OpenFile
<1>6. Rest4'
  BY <1>1 DEF CertTypeInv, Rest4
<1> QED
  BY <1>4, <1>5, <1>6 DEF CertTypeInv

LEMMA FillFileTyped ==
  ASSUME CertTypeInv, PairInv, NEW w \in Workers, FillFile(w) PROVE CertTypeInv'
<1> DEFINE t == task[w]
           d == t.dom
<1>1. /\ Busy(w) /\ t \in TaskRange /\ KeyAtHand(t) /\ Writes(w)
      /\ UNCHANGED <<due, tasks, certFaults>>
  BY TaskIsTyped DEF FillFile, Counts, Busy, Doing, MayBeAt, PairInv, PairShape
<1>2. d \in Pairs
  BY <1>1, BusyAt
<1>3. t.key \in Keys
  BY <1>1 DEF FillFile, KeyAtHand, Writes, Doing
<1>4. CASE Doing(w, "crt")
  <2> DEFINE u == [t EXCEPT !.pc = "key", !.open = FALSE]
             c == [key |-> t.key, left |-> Life]
  <2>1. /\ crt' = [crt EXCEPT ![d] = c] /\ UNCHANGED <<key, mutex, mixed>>
        /\ missed' = [e \in Domains |-> IF e = d THEN 0 ELSE missed[e]]
        /\ task' = [task EXCEPT ![w] = u] /\ TaskShuts(t, u)
    BY <1>4 DEF FillFile, Doing, CertTypeInv, TasksOK, TaskShuts
  <2> HIDE DEF u
  <2>2. u \in TaskRange /\ u.op = t.op /\ u.dom = t.dom /\ u.key = t.key
    BY <1>1, <2>1, TaskChanges
  <2>3. TasksOK'
    BY <1>1, <1>3, <2>1, <2>2, TaskMoves
  <2>4. c \in CrtRange /\ c.left = Life /\ Life > Threshold
    BY <1>3, CertConstants DEF CrtRange
  <2> HIDE DEF c
  <2>5. missed' \in [Domains -> 0 .. Threshold + 1]
    BY <2>1, CertConstants DEF CertTypeInv, MissedSince
  <2>6. FilesOK' /\ MissedSince'
    BY <1>2, <2>1, <2>4, <2>5, CrtChanges
  <2>7. Rest4'
    BY <1>1, <2>1 DEF CertTypeInv, Rest4
  <2> QED
    BY <2>3, <2>6, <2>7 DEF CertTypeInv
<1>5. CASE ~Doing(w, "crt")
  <2>1. /\ key' = [key EXCEPT ![d] = t.key] /\ Done(w) /\ UNCHANGED <<crt, missed>>
    BY <1>5 DEF FillFile
  <2>2. FilesOK' /\ MissedSince'
    BY <1>3, <2>1, KeyChanges
  <2> QED
    BY <1>1, <2>1, <2>2, DoneTyped DEF CertTypeInv
<1> QED
  BY <1>4, <1>5

LEMMA RemoveTyped ==
  ASSUME CertTypeInv, PairInv, NEW w \in Workers, RemoveFile(w) \/ RemoveFails(w)
  PROVE  CertTypeInv'
<1> DEFINE t == task[w]
           d == t.dom
           u == IF RemoveFile(w) THEN [t EXCEPT !.pc = "key"]
                                 ELSE [t EXCEPT !.pc = "key", !.clean = FALSE]
<1>1. /\ Busy(w) /\ t \in TaskRange /\ ~Writes(w) /\ UNCHANGED <<due, missed, tasks>>
      /\ certFaults' \in 0 .. MaxCertFaults
  BY TaskIsTyped, CertFaultCounts
     DEF RemoveFile, RemoveFails, Clock, Counts, Busy, Doing, MayBeAt, CertTypeInv, Rest4
<1>2. d \in Pairs
  BY <1>1, BusyAt
<1>3. FilesOK' /\ MissedSince'
  <2> DEFINE c == NoCrt
  <2>1. c \in CrtRange /\ ~Whole(c)
    BY DEF NoCrt, CrtRange, Whole
  <2>2. CASE crt' = [crt EXCEPT ![d] = c] /\ UNCHANGED key
    <3> HIDE DEF c
    <3> QED
      BY <1>1, <1>2, <2>1, <2>2, CrtChanges DEF CertTypeInv, MissedSince
  <2>3. CASE key' = [key EXCEPT ![d] = NoKey] /\ UNCHANGED crt
    BY <1>1, <2>3, KeyChanges
  <2>4. CASE UNCHANGED <<crt, key>>
    BY <1>1, <2>4, FileTypesStay, MissedStay DEF CertTypeInv
  <2> QED
    BY <2>2, <2>3, <2>4 DEF RemoveFile, RemoveFails, Files
<1>4. CASE Doing(w, "crt")
  <2>1. task' = [task EXCEPT ![w] = u] /\ UNCHANGED <<mutex, mixed>>
    BY <1>4 DEF RemoveFile, RemoveFails, Doing, CertTypeInv, TasksOK
  <2>2. TaskGoes(t, u, "key") \/ TaskSoils(t, u)
    BY DEF TaskGoes, TaskSoils
  <2> HIDE DEF u
  <2>3. u \in TaskRange /\ u.op = t.op /\ u.dom = t.dom
    BY <1>1, <2>2, TaskChanges
  <2>4. TasksOK'
    BY <1>1, <2>1, <2>3, TaskMoves
  <2>5. Rest4'
    BY <1>1, <2>1 DEF CertTypeInv, Rest4
  <2> QED
    BY <1>3, <2>4, <2>5 DEF CertTypeInv
<1>5. CASE ~Doing(w, "crt")
  <2>1. Over(w) /\ mixed' \subseteq mixed \cup {d}
    BY <1>5 DEF RemoveFile, RemoveFails, Done
  <2>2. TasksOK' /\ mutex' \in Tasks \cup {Nobody}
    BY <2>1, OverTyped
  <2>3. Rest4'
    BY <1>1, <1>2, <2>1, <2>2 DEF CertTypeInv, Rest4
  <2> QED
    BY <1>3, <2>2, <2>3 DEF CertTypeInv
<1> QED
  BY <1>4, <1>5

LEMMA CrashTyped ==
  ASSUME CertTypeInv, PairInv, NEW S \in SUBSET Workers, CertCrash(S)
  PROVE  CertTypeInv'
<1> DEFINE left == {task[w].dom : w \in {x \in S :
                      task[x].open \/ Doing(x, "key") \/ (Busy(x) /\ ~task[x].clean)}}
<1>1. /\ task' = [w \in Workers |-> IF w \in S THEN Asleep ELSE task[w]]
      /\ UNCHANGED <<crt, key, missed, tasks>> /\ mixed' = mixed \cup left
      /\ mutex' = (IF mutex \in S THEN Nobody ELSE mutex) /\ due' \subseteq due \cup Domains
      /\ certFaults' \in 0 .. MaxCertFaults
  BY CertFaultCounts DEF CertCrash, Files
<1>2. \A x \in S : task[x].open \/ Doing(x, "key") => Busy(x)
  BY DEF PairInv, PairShape, Busy, Doing
<1>3. left \subseteq Pairs
  BY <1>2, BusyAt
<1> HIDE DEF left
<1>4. \A w \in Workers : MayBeAt(w, task'[w])
  BY <1>1, TaskIsTyped, AsleepMayBe
<1>5. TasksOK'
  BY <1>1, <1>4 DEF MayBeAt, TasksOK, Workers
<1>6. FilesOK' /\ MissedSince'
  BY <1>1, FileTypesStay, MissedStay DEF CertTypeInv
<1>7. Rest4'
  BY <1>1, <1>3 DEF CertTypeInv, Rest4
<1> QED
  BY <1>5, <1>6, <1>7 DEF CertTypeInv

LEMMA DayTyped == ASSUME CertTypeInv, DayPasses PROVE CertTypeInv'
<1>1. /\ UNCHANGED <<key, task, mutex, mixed, tasks, certFaults>> /\ due' = Domains
      /\ crt' = [d \in Pairs |-> IF d \in Valid THEN [crt[d] EXCEPT !.left = @ - 1] ELSE crt[d]]
      /\ missed' = [d \in Domains |->
           IF d \in Valid /\ crt[d].left <= Threshold /\ d \in due THEN missed[d] + 1 ELSE missed[d]]
  BY DEF DayPasses, Counts
<1>2. \A d \in Pairs : crt[d] \in CrtRange
  BY DEF CertTypeInv, FilesOK, CrtRange
<1>3. ASSUME NEW d \in Valid
      PROVE  /\ crt[d].key \in Keys /\ crt[d].left \in 0 .. Life /\ d \in Pairs
             /\ crt'[d] \in CrtRange /\ crt'[d].left = crt[d].left - 1 /\ Whole(crt'[d])
  <2> DEFINE c == crt[d]
             R == -1 .. Life
             k == c.key
             n == c.left - 1
  <2>1. /\ d \in Pairs /\ Whole(c) /\ c.left >= 0 /\ c \in CrtRange
        /\ crt'[d] = [c EXCEPT !.left = @ - 1]
    BY <1>1, <1>2 DEF Valid, Pairs
  <2>2. c \in [key : Keys, left : R] /\ c.key > 0
    BY <2>1 DEF CrtRange, NoCrt, TornCrt, Whole
  <2>3. n \in R /\ c.left \in 0 .. Life
    BY <2>1, <2>2, CertConstants
  <2>4. crt'[d] = [c EXCEPT !.left = n]
    BY <2>1
  <2> HIDE DEF R, c, n
  <2>5. [c EXCEPT !.left = n] \in [key : Keys, left : R] /\ [c EXCEPT !.left = n].left = n
        /\ [c EXCEPT !.left = n].key = c.key
    BY <2>2, <2>3
  <2>6. crt'[d] \in [key : Keys, left : R] /\ crt'[d].left = n /\ crt'[d].key > 0
    BY <2>2, <2>4, <2>5
  <2> QED
    BY <2>1, <2>2, <2>3, <2>6 DEF R, c, n, CrtRange, Whole
<1>4. FilesOK'
  <2>1. \A d \in Pairs : crt'[d] \in CrtRange
    BY <1>1, <1>2, <1>3
  <2>2. crt' \in [Pairs -> CrtRange]
    BY <1>1, <2>1
  <2> QED
    BY <1>1, <2>2 DEF CertTypeInv, FilesOK, CrtRange
<1>5. ASSUME NEW d \in Domains
      PROVE  /\ missed'[d] \in 0 .. Threshold + 1
             /\ Whole(crt'[d]) => IF crt'[d].left > Threshold THEN missed'[d] = 0
                                  ELSE missed'[d] <= Threshold - crt'[d].left
  <2>0. /\ missed[d] \in 0 .. Threshold + 1 /\ Threshold \in Nat
        /\ Whole(crt[d]) => IF crt[d].left > Threshold THEN missed[d] = 0
                            ELSE missed[d] <= Threshold - crt[d].left
    BY CertConstants DEF CertTypeInv, MissedSince
  <2>1. CASE d \in Valid
    <3>1. /\ crt[d].left \in 0 .. Life /\ crt'[d].left = crt[d].left - 1 /\ Whole(crt[d])
          /\ missed'[d] = missed[d] \/ (missed'[d] = missed[d] + 1 /\ crt[d].left <= Threshold)
      BY <1>1, <1>3, <2>1 DEF Valid
    <3> QED
      BY <2>0, <3>1
  <2>2. CASE d \notin Valid
    <3>1. crt'[d] = crt[d] /\ missed'[d] = missed[d]
      BY <1>1, <2>2 DEF Pairs
    <3> QED
      BY <2>0, <3>1
  <2> QED
    BY <2>1, <2>2
<1>6. MissedSince'
  <2>1. missed' \in [Domains -> 0 .. Threshold + 1]
    BY <1>1, <1>5
  <2> QED
    BY <1>5, <2>1 DEF MissedSince, Whole
<1>7. TasksOK' /\ Rest4'
  BY <1>1 DEF CertTypeInv, TasksOK, KeyAtHand, AtDomain, Rest4
<1> QED
  BY <1>4, <1>6, <1>7 DEF CertTypeInv

LEMMA CertTypeInvStep ==
  ASSUME CertTypeInv, PairInv, [CertNext]_certVars PROVE CertTypeInv'
<1>1. ASSUME NEW w \in Workers, WorkerStep(w) PROVE CertTypeInv'
  BY <1>1, NextDomainTyped, TakeLockTyped, ObtainTyped, OpenFileTyped, FillFileTyped,
     WriteFailsTyped, RemoveTyped DEF WorkerStep
<1>2. CASE CertCrash(Tasks) \/ CertCrash({"cron"})
  BY <1>2, CrashTyped DEF Workers
<1>3. CASE UNCHANGED certVars
  <2>1. TasksOK'
    BY <1>3 DEF certVars, CertTypeInv, TasksOK, KeyAtHand, AtDomain
  <2>2. FilesOK' /\ MissedSince'
    BY <1>3, FileTypesStay, MissedStay DEF certVars, CertTypeInv
  <2>3. Rest4'
    BY <1>3 DEF certVars, CertTypeInv, Rest4
  <2> QED
    BY <2>1, <2>2, <2>3 DEF CertTypeInv
<1>4. ASSUME NEW w \in Tasks,
             \/ \E d \in Domains : RequestACMEHTTP(w, d) \/ RequestACMEDNS(w, d)
                                   \/ DeleteCertificate(w, d) \/ RenewTask(w, {d})
             \/ RenewTask(w, Valid) \/ EnsureSelfSigned(w)
      PROVE  CertTypeInv'
  BY <1>4, BeginningsTyped
<1> QED
  BY <1>1, <1>2, <1>3, <1>4, CheckTyped, DayTyped DEF CertNext

\* Every goroutine is at a place its operation has, holds one of the keys there is
\* and writes to the files of a domain, and no day is missed that did not pass
\* (application/cert_service.go, infra/acme/service.go), for any finite number of
\* domains and goroutines.
THEOREM CertTypeCorrect == CertSpec => []CertTypeOK
<1>1. CertInit => CertInv /\ PairInv /\ CertTypeInv
  BY CertInvInit, PairInvInit, CertTypeInvInit
<1>2. CertInv /\ PairInv /\ CertTypeInv /\ [CertNext]_certVars
        => (CertInv /\ PairInv /\ CertTypeInv)'
  BY CertInvStep, PairInvNext, CertTypeInvStep
<1> QED
  BY <1>1, <1>2, CertTypeInvGives, PTL DEF CertSpec

=============================================================================
