----------------------------- MODULE Certificates -----------------------------
(***************************************************************************)
(* The certificates that prism keeps as two files for each domain: how the *)
(* goroutines of the interface and the process of the daily renewal        *)
(* request, renew and delete them (application/cert_service.go,            *)
(* infra/acme/service.go), and how the self-signed pair is made            *)
(* (pkg/cert/self_signed.go).                                              *)
(*                                                                         *)
(* A file is written by truncating it and then filling it; the ACME        *)
(* exchange either yields a certificate for a key or fails.  The mutex of  *)
(* acme.Service excludes the goroutines of one process only, and only      *)
(* where it is held.  Time is counted in days; nothing that is begun lasts *)
(* for more than one.                                                      *)
(***************************************************************************)
EXTENDS Integers, FiniteSets

CONSTANTS
  Domains,      \* domains with a certificate from a CA
  Tasks,        \* goroutines of the interface that deal with certificates
  Life,         \* days a new certificate is good for
  Threshold,    \* CheckAndRenewAll: 30, days that may be left at a renewal
  MaxTasks,     \* bound: operations begun from the interface
  MaxCertFaults \* bound: exchanges, writes and removals that fail, crashes

ASSUME CertConstants ==
  /\ "self_signed" \notin Domains /\ {"cron", "nobody"} \cap Tasks = {}
  /\ {Life, Threshold, MaxTasks, MaxCertFaults} \subseteq Nat
  /\ Threshold < Life
  /\ IsFiniteSet(Domains) /\ IsFiniteSet(Tasks)

VARIABLES
  crt,        \* the certificates
  key,        \* their keys
  task,       \* what the goroutines and the daily renewal are doing
  mutex,      \* who holds acme.Service.mu in the interface
  mixed,      \* domains that operations at the same time, or a failure after a
              \* file was opened, may have left with half a pair
  due,        \* domains that something has kept from being renewed today
  missed,     \* days in a row that this was so, with the certificate due
  tasks, certFaults

certVars == <<crt, key, task, mutex, mixed, due, missed, tasks, certFaults>>

Pairs == Domains \cup {"self_signed"}
Workers == Tasks \cup {"cron"}
Keys == 1 .. 2 * Cardinality(Pairs) + Cardinality(Workers) + 1   \* enough for NewKey
Nobody == "nobody"
NoCrt == [key |-> 0, left |-> 0]         \* there is no file
TornCrt == [key |-> -1, left |-> 0]      \* it was opened and not filled
NoKey == 0
Torn == -1
Whole(c) == c.key > 0

Asleep == [op |-> "none", pc |-> "idle", dom |-> Nobody, todo |-> {}, key |-> 0,
           open |-> FALSE, clean |-> TRUE]

CertTypeOK ==
  /\ crt \in [Pairs -> [key : Keys, left : -1 .. Life] \cup {NoCrt, TornCrt}]
  /\ key \in [Pairs -> Keys \cup {NoKey, Torn}]
  /\ task \in [Workers ->
       [op : {"none", "http", "dns", "renew", "delete", "ensure"},
        pc : {"idle", "next", "lock", "obtain", "crt", "key"},
        dom : Pairs \cup {Nobody}, todo : SUBSET Domains, key : Keys \cup {0},
        open : BOOLEAN, clean : BOOLEAN]]
  /\ mutex \in Tasks \cup {Nobody}
  /\ mixed \subseteq Pairs /\ due \subseteq Domains
  /\ missed \in [Domains -> 0 .. Threshold + 1]
  /\ tasks \in 0 .. MaxTasks /\ certFaults \in 0 .. MaxCertFaults

CertInit ==
  /\ crt = [d \in Pairs |-> NoCrt] /\ key = [d \in Pairs |-> NoKey]
  /\ task = [w \in Workers |-> Asleep] /\ mutex = Nobody
  /\ mixed = {} /\ due = Domains /\ missed = [d \in Domains |-> 0]
  /\ tasks = 0 /\ certFaults = 0

-----------------------------------------------------------------------------
(* Helpers.                                                                *)

CertFault == certFaults < MaxCertFaults /\ certFaults' = certFaults + 1

Doing(w, l) == task[w].pc = l
Busy(w) == ~Doing(w, "idle") /\ ~Doing(w, "next")

\* A key that is nowhere yet.
NewKey == CHOOSE k \in Keys :
  /\ \A d \in Pairs : crt[d].key # k /\ key[d] # k
  /\ \A w \in Workers : task[w].key # k

\* Operations that the mutex keeps apart.
Locked(w) == w # "cron" /\ task[w].op \in {"dns", "renew"}

\* w turns to domain d, where others may be at work.
TurnTo(w, t) ==
  LET with == {x \in Workers \ {w} : Busy(x) /\ task[x].dom = t.dom
                 /\ ~(w # "cron" /\ t.op \in {"dns", "renew"} /\ Locked(x))} IN
  task' = [x \in Workers |->
             IF x = w THEN [t EXCEPT !.clean = (with = {})]
             ELSE IF x \in with THEN [task[x] EXCEPT !.clean = FALSE] ELSE task[x]]

\* The operation of w on its domain is over: the next domain of a renewal, or the
\* end.  The mutex is given back.
Rest(w) ==
  IF task[w].op = "renew"
    THEN [Asleep EXCEPT !.op = "renew", !.pc = "next", !.todo = task[w].todo] ELSE Asleep

Over(w) ==
  /\ task' = [task EXCEPT ![w] = Rest(w)]
  /\ mutex' = IF mutex = w THEN Nobody ELSE mutex

\* Every file was dealt with.
Done(w) ==
  /\ Over(w)
  /\ mixed' = IF task[w].clean THEN mixed \ {task[w].dom} ELSE mixed \cup {task[w].dom}

\* It ends early; the daily renewal has not renewed the domain.
Fail(w) ==
  /\ Over(w)
  /\ mixed' = IF Doing(w, "key") \/ task[w].open \/ ~task[w].clean
                THEN mixed \cup {task[w].dom} ELSE mixed
  /\ due' = IF w = "cron" THEN due \cup {task[w].dom} ELSE due

Files == <<crt, key>>
Clock == <<due, missed>>
Counts == <<tasks, certFaults>>

-----------------------------------------------------------------------------
(* Operations begin.                                                       *)

BeginTask(w, t) ==
  /\ Doing(w, "idle") /\ tasks < MaxTasks
  /\ tasks' = tasks + 1
  /\ TurnTo(w, t)
  /\ UNCHANGED <<Files, Clock, mutex, mixed, certFaults>>

RequestACMEHTTP(w, d) == BeginTask(w, [Asleep EXCEPT !.op = "http", !.pc = "lock", !.dom = d])
RequestACMEDNS(w, d) == BeginTask(w, [Asleep EXCEPT !.op = "dns", !.pc = "lock", !.dom = d])
DeleteCertificate(w, d) ==
  BeginTask(w, [Asleep EXCEPT !.op = "delete", !.pc = "crt", !.dom = d])

\* RenewCertificate of one domain, RenewAll of those whose certificate is valid.
RenewTask(w, S) ==
  BeginTask(w, [Asleep EXCEPT !.op = "renew", !.pc = "next", !.todo = S])

\* Slip: whatever can be read is valid.
ValidForEver == {d \in Domains : Whole(crt[d])}

\* ParseCertFile: CertInfo.IsValid.
Valid == {d \in Domains : Whole(crt[d]) /\ crt[d].left >= 0}

\* EnsureSelfSigned goes by the names of the files.
EnsureSelfSigned(w) ==
  /\ crt["self_signed"] = NoCrt \/ key["self_signed"] = NoKey
  /\ BeginTask(w, [Asleep EXCEPT !.op = "ensure", !.pc = "crt", !.dom = "self_signed",
                                 !.key = NewKey])

\* Slip: it begins a day later.
CheckLate == {d \in Valid : crt[d].left < Threshold}

\* CheckAndRenewAll: what is expired or cannot be read is left out.
DueCertificates == {d \in Valid : crt[d].left <= Threshold}

CheckAndRenewAll ==
  /\ Doing("cron", "idle")
  /\ DueCertificates # {}
  /\ task' = [task EXCEPT !["cron"].op = "renew", !["cron"].pc = "next",
                          !["cron"].todo = DueCertificates]
  /\ due' = {d \in Domains : ~Whole(crt[d])}
  /\ UNCHANGED <<Files, missed, mutex, mixed, Counts>>

\* The next of several, or none is left.
NextDomain(w) ==
  /\ Doing(w, "next")
  /\ \/ /\ task[w].todo = {}
        /\ task' = [task EXCEPT ![w] = Asleep]
     \/ \E d \in task[w].todo :
          TurnTo(w, [task[w] EXCEPT !.pc = "lock", !.dom = d, !.todo = @ \ {d}])
  /\ UNCHANGED <<Files, Clock, mutex, mixed, Counts>>

-----------------------------------------------------------------------------
(* The exchange with the CA.                                               *)

\* loadCertificateResource reads both files; an empty one is of no use.
Renewable(d) == Whole(crt[d]) /\ key[d] > 0

\* Slip: a renewal, as a request over HTTP does, gives the lock back at once.
TakeLockBriefly(w) ==
  /\ Doing(w, "lock")
  /\ w = "cron" \/ mutex = Nobody
  /\ \/ /\ task[w].op = "renew" => Renewable(task[w].dom)
        /\ task' = [task EXCEPT ![w].pc = "obtain",
                     ![w].key = IF task[w].op = "renew" THEN key[task[w].dom] ELSE NewKey]
        /\ UNCHANGED <<mixed, due>>
     \/ /\ task[w].op = "renew" /\ ~Renewable(task[w].dom)
        /\ Fail(w)
  /\ UNCHANGED <<Files, missed, mutex, Counts>>

\* GetClient locks only for a moment; ObtainCertDNS and the renewals hold the lock
\* to the end.  A renewal reads the files, and cannot do without either.
TakeLock(w) ==
  /\ Doing(w, "lock")
  /\ w = "cron" \/ mutex = Nobody
  /\ \/ /\ task[w].op = "renew" => Renewable(task[w].dom)
        /\ task' = [task EXCEPT ![w].pc = "obtain",
                     ![w].key = IF task[w].op = "renew" THEN key[task[w].dom] ELSE NewKey]
        /\ mutex' = IF Locked(w) THEN w ELSE mutex
        /\ UNCHANGED <<mixed, due>>
     \/ /\ task[w].op = "renew" /\ ~Renewable(task[w].dom)
        /\ Fail(w)
  /\ UNCHANGED <<Files, missed, Counts>>

\* The certificate is issued; or port 80 is taken, the name does not resolve, the
\* CA refuses.  A renewal looks for the credentials of a DNS provider where a
\* request does not leave them (cert_service.go:320), so that port 80 stands in
\* its way too.
Obtain(w) ==
  /\ Doing(w, "obtain")
  /\ \/ /\ task' = [task EXCEPT ![w].pc = "crt"]
        /\ UNCHANGED <<mutex, mixed, due, certFaults>>
     \/ CertFault /\ Fail(w)
  /\ UNCHANGED <<Files, missed, tasks>>

-----------------------------------------------------------------------------
(* The files.                                                              *)

Writes(w) == task[w].op # "delete"

\* os.WriteFile of the certificate, and after it of the key, opens the file ...
OpenFile(w) ==
  /\ Writes(w) /\ ~task[w].open
  /\ \/ /\ Doing(w, "crt")
        /\ crt' = [crt EXCEPT ![task[w].dom] = TornCrt] /\ UNCHANGED key
     \/ /\ Doing(w, "key")
        /\ key' = [key EXCEPT ![task[w].dom] = Torn] /\ UNCHANGED crt
  /\ task' = [task EXCEPT ![w].open = TRUE]
  /\ UNCHANGED <<Clock, mutex, mixed, Counts>>

\* ... and fills it.
FillFile(w) ==
  /\ task[w].open
  /\ \/ /\ Doing(w, "crt")
        /\ crt' = [crt EXCEPT ![task[w].dom] = [key |-> task[w].key, left |-> Life]]
        /\ missed' = [d \in Domains |-> IF d = task[w].dom THEN 0 ELSE missed[d]]
        /\ task' = [task EXCEPT ![w].pc = "key", ![w].open = FALSE]
        /\ UNCHANGED <<key, mutex, mixed>>
     \/ /\ Doing(w, "key")
        /\ key' = [key EXCEPT ![task[w].dom] = task[w].key]
        /\ Done(w) /\ UNCHANGED <<crt, missed>>
  /\ UNCHANGED <<due, Counts>>

\* The disk is full, or the file cannot be opened.
WriteFails(w) ==
  /\ Writes(w) /\ (Doing(w, "crt") \/ Doing(w, "key"))
  /\ CertFault /\ Fail(w)
  /\ UNCHANGED <<Files, missed, tasks>>

\* DeleteCertificate removes both, and goes on when one cannot be removed.
RemoveFile(w) ==
  /\ ~Writes(w)
  /\ \/ /\ Doing(w, "crt")
        /\ task' = [task EXCEPT ![w].pc = "key"]
        /\ crt' = [crt EXCEPT ![task[w].dom] = NoCrt] /\ UNCHANGED <<key, mutex, mixed>>
     \/ /\ Doing(w, "key")
        /\ key' = [key EXCEPT ![task[w].dom] = NoKey] /\ UNCHANGED crt
        /\ Done(w)
  /\ UNCHANGED <<Clock, Counts>>

RemoveFails(w) ==
  /\ ~Writes(w) /\ CertFault
  /\ \/ /\ Doing(w, "crt")
        /\ task' = [task EXCEPT ![w].pc = "key", ![w].clean = FALSE] /\ UNCHANGED <<mutex, mixed>>
     \/ /\ Doing(w, "key") /\ Over(w) /\ mixed' = mixed \cup {task[w].dom}
  /\ UNCHANGED <<Files, Clock, tasks>>

-----------------------------------------------------------------------------
\* One of the processes dies, with all that it was doing.
CertCrash(S) ==
  /\ \E w \in S : ~Doing(w, "idle")
  /\ CertFault
  /\ task' = [w \in Workers |-> IF w \in S THEN Asleep ELSE task[w]]
  /\ mutex' = IF mutex \in S THEN Nobody ELSE mutex
  /\ mixed' = mixed \cup {task[w].dom : w \in {x \in S :
                 task[x].open \/ Doing(x, "key") \/ (Busy(x) /\ ~task[x].clean)}}
  /\ due' = IF "cron" \in S THEN (due \cup task["cron"].todo \cup {task["cron"].dom}) \cap Domains
            ELSE due
  /\ UNCHANGED <<Files, missed, tasks>>

\* A day passes.  The daily renewal may have run, or not.
DayPasses ==
  /\ \A w \in Workers : Doing(w, "idle")
  /\ crt' = [d \in Pairs |-> IF d \in Valid THEN [crt[d] EXCEPT !.left = @ - 1] ELSE crt[d]]
  /\ missed' = [d \in Domains |->
       IF d \in Valid /\ crt[d].left <= Threshold /\ d \in due THEN missed[d] + 1 ELSE missed[d]]
  /\ due' = Domains
  /\ UNCHANGED <<key, task, mutex, mixed, Counts>>

WorkerStep(w) ==
  \/ NextDomain(w) \/ TakeLock(w) \/ Obtain(w) \/ OpenFile(w) \/ FillFile(w) \/ WriteFails(w)
  \/ RemoveFile(w) \/ RemoveFails(w)

CertNext ==
  \/ \E w \in Tasks :
       \/ \E d \in Domains :
            \/ RequestACMEHTTP(w, d) \/ RequestACMEDNS(w, d) \/ DeleteCertificate(w, d)
            \/ RenewTask(w, {d})
       \/ RenewTask(w, Valid)
       \/ EnsureSelfSigned(w)
  \/ CheckAndRenewAll
  \/ \E w \in Workers : WorkerStep(w)
  \/ CertCrash(Tasks) \/ CertCrash({"cron"})
  \/ DayPasses

CertSpec == CertInit /\ [][CertNext]_certVars

-----------------------------------------------------------------------------
(* Properties.                                                             *)

\* Where nobody is at work, certificate and key belong together or are both
\* missing, unless a failure came after a file was opened or two operations that
\* no mutex keeps apart met (service.go:557); and the next operation that meets
\* nothing of the kind mends what they left.
PairsMatch ==
  \A d \in Pairs \ mixed :
    (\A w \in Workers : task[w].dom # d) =>
      IF crt[d] = NoCrt THEN key[d] = NoKey ELSE crt[d].key = key[d]

\* A certificate expires only after more days than the threshold has on each of
\* which its renewal was tried in vain or the daily renewal did not get to it
\* (cert_service.go:776); one domain's failure is not another's.
RenewedInTime == \A d \in Domains : crt[d].left = -1 => missed[d] > Threshold

=============================================================================
