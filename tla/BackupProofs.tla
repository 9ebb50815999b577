------------------------------ MODULE BackupProofs ------------------------------
(***************************************************************************)
(* Proofs about Backup, for any number of commands at a time, of contents, *)
(* seconds, keys and faults: what is restored and what runs afterwards,    *)
(* which backup an answer is about, what the page shows, which backups     *)
(* retention keeps and how many, and that what is reported as backed up    *)
(* can be restored.                                                        *)
(***************************************************************************)
EXTENDS Backup, FiniteSetTheorems, TLAPS

\* A command as a record whose fields are those of Idle.
IsCommand(c) ==
  c = [kind |-> c.kind, at |-> c.at, index |-> c.index, name |-> c.name, asked |-> c.asked,
       data |-> c.data, list |-> c.list, src |-> c.src]

\* What a command carries, and has read.
CarriedBy(c) ==
  /\ c.kind = "create" /\ c.at # "start" => c.src \in Contents
  /\ c.kind = "create" /\ c.at \notin {"start", "read", "new", "done"} => c.data \in Data
  /\ c.kind = "restore" /\ c.at = "loaded" => c.data \in Data \cup {NoFile, Torn}
  /\ c.kind = "restore" /\ c.at = "verified" => c.data \in Data

BackupShape ==
  /\ DOMAIN cmd = Slots
  /\ \A s \in Slots : IsCommand(cmd[s]) /\ CarriedBy(cmd[s])
  /\ bak \in [Names -> Data \cup {NoFile, Torn}]
  /\ nonce \in 0 .. MaxNonce /\ hasty \in Nat

\* What is in the file is still to be applied by a restore.
Owing(s) == At(s, "restore", "restored") \/ Reloaded(s)

\* sing-box has what is in the file, or is about to be given it; nothing else is
\* about to be applied.
Applied ==
  failed \cap {"stale", "load", "apply", "crash"} = {} /\ ~raced =>
    /\ running = config \/ edited = config \/ \E s \in Slots : Owing(s)
    /\ edited # NoContent => edited = config
    /\ \A s \in Slots : Reloaded(s) => loaded[s] = config

\* What was saved or loaded is the content of a configuration.
SourceOK ==
  /\ edited \in Contents \cup {NoContent} /\ raced \in BOOLEAN
  /\ loaded \in [Slots -> Contents \cup {NoContent}]
  /\ \A s \in Slots : Reloaded(s) => loaded[s] \in Contents

BackupInv == BackupShape /\ {config, known, running} \subseteq Contents /\ SourceOK /\ Applied

LEMMA IdleIs == IsCommand(Idle) /\ CarriedBy(Idle) /\ Idle.kind = "none" /\ Idle.at = "idle"
BY DEF IsCommand, CarriedBy, Idle

LEMMA BackupInvInit == Init => BackupInv
<1> SUFFICES ASSUME Init PROVE BackupInv
  OBVIOUS
<1>1. /\ DOMAIN cmd = Slots /\ \A s \in Slots : cmd[s] = Idle
      /\ config \in Contents /\ known = config /\ running = config /\ nonce = 0 /\ hasty = 0
      /\ edited = NoContent /\ raced = FALSE /\ loaded = [s \in Slots |-> NoContent]
  BY DEF Init
<1>2. bak \in [Names -> Data \cup {NoFile, Torn}]
  BY DEF Init
<1>3. BackupShape
  BY <1>1, <1>2, IdleIs, BackupConstants DEF BackupShape
<1>4. \A s \in Slots : ~Reloaded(s)
  BY <1>1, IdleIs DEF Reloaded, At
<1>5. SourceOK
  BY <1>1, <1>4 DEF SourceOK
<1> QED
  BY <1>1, <1>3, <1>4, <1>5 DEF BackupInv, Applied

-----------------------------------------------------------------------------
\* One command goes on, and leaves the file and the server alone.
Goes(s) ==
  /\ DOMAIN cmd' = Slots /\ \A t \in Slots \ {s} : cmd'[t] = cmd[t]
  /\ IsCommand(cmd'[s]) /\ CarriedBy(cmd'[s]) /\ cmd'[s].at # "reloaded"

Harmless ==
  /\ bak' \in [Names -> Data \cup {NoFile, Torn}] /\ nonce' \in 0 .. MaxNonce
  /\ failed \subseteq failed' /\ hasty' \in Nat

LEMMA GoesKeeps ==
  ASSUME BackupInv, NEW s \in Slots, Goes(s), Harmless, UNCHANGED source, ~Owing(s)
  PROVE  BackupInv'
<1>1. BackupShape'
  BY DEF BackupInv, BackupShape, Goes, Harmless
<1>2. UNCHANGED <<config, known, loaded, edited, running, raced>>
  BY DEF source
<1>3. \A t \in Slots : (Owing(t) => Owing(t)') /\ (Reloaded(t)' => Reloaded(t))
  BY DEF Goes, Owing, Reloaded, At
<1>4. Applied'
  BY <1>2, <1>3 DEF BackupInv, Applied, Harmless
<1>5. SourceOK'
  BY <1>2, <1>3 DEF BackupInv, SourceOK
<1> QED
  BY <1>1, <1>2, <1>4, <1>5 DEF BackupInv

LEMMA MoveGoes ==
  ASSUME BackupInv, NEW s \in Slots, NEW l, Move(s, l), l # "reloaded",
         CarriedBy(cmd[s]) => CarriedBy([cmd[s] EXCEPT !.at = l])
  PROVE  Goes(s) /\ cmd'[s] = [cmd[s] EXCEPT !.at = l]
<1>1. /\ DOMAIN cmd' = Slots
      /\ \A t \in Slots : cmd'[t] = IF t = s THEN [cmd[t] EXCEPT !.at = l] ELSE cmd[t]
  BY DEF Move, BackupInv, BackupShape
<1>2. IsCommand([cmd[s] EXCEPT !.at = l])
  BY DEF BackupInv, BackupShape, IsCommand
<1>3. CarriedBy(cmd[s])
  BY DEF BackupInv, BackupShape
<1>4. [cmd[s] EXCEPT !.at = l].at # "reloaded"
  BY DEF BackupInv, BackupShape, IsCommand
<1> QED
  BY <1>1, <1>2, <1>3, <1>4 DEF Goes

\* A command changes, but not into anything else than it was.
LEMMA ExceptGoes ==
  ASSUME BackupInv, NEW s \in Slots, NEW c, cmd' = [cmd EXCEPT ![s] = c],
         IsCommand(c), CarriedBy(c), c.at # "reloaded"
  PROVE  Goes(s) /\ cmd'[s] = c
BY DEF BackupInv, BackupShape, Goes

Manager(s) ==
  \/ ReadSource(s) \/ IsDuplicateContent(s) \/ OpenBackup(s) \/ WriteBackup(s)
  \/ SaveChecksum(s) \/ SaveLastHash(s) \/ ListSurplus(s) \/ Prune(s) \/ EnforcePolicyEnds(s)

LEMMA ManagerKeeps == ASSUME BackupInv, NEW s \in Slots, Manager(s) PROVE BackupInv'
<1>1. UNCHANGED source /\ hasty' = hasty /\ cmd[s].kind = "create"
  BY DEF Manager, ReadSource, IsDuplicateContent, OpenBackup, WriteBackup, SaveChecksum,
         SaveLastHash, ListSurplus, Prune, EnforcePolicyEnds, Unseen, At
<1>2. failed \subseteq failed'
  BY DEF Manager, ReadSource, IsDuplicateContent, OpenBackup, WriteBackup, SaveChecksum,
         SaveLastHash, ListSurplus, Prune, EnforcePolicyEnds, Fail
<1>3. IsCommand(cmd[s]) /\ CarriedBy(cmd[s]) /\ bak \in [Names -> Data \cup {NoFile, Torn}]
      /\ nonce \in 0 .. MaxNonce /\ hasty \in Nat /\ config \in Contents
  BY DEF BackupInv, BackupShape
<1>4. CASE ReadSource(s)
  <2> DEFINE c == [cmd[s] EXCEPT !.at = "read", !.src = config]
  <2>1. c = [cmd[s] EXCEPT !.at = "read", !.src = config]
    OBVIOUS
  <2>2. cmd' = [cmd EXCEPT ![s] = c]
        /\ bak' = bak /\ nonce' = nonce
    BY <1>4 DEF ReadSource, store, BackupInv, BackupShape
  <2> HIDE DEF c
  <2>3. IsCommand(c) /\ c.at # "reloaded"
    BY <1>3, <2>1, <2>2 DEF IsCommand
  <2>4. CarriedBy(c)
    BY <1>1, <1>3, <2>1, <2>2 DEF IsCommand, CarriedBy
  <2>5. Goes(s)
    BY <2>2, <2>3, <2>4, ExceptGoes
  <2> QED
    BY <1>1, <1>2, <1>3, <2>2, <2>5, GoesKeeps DEF Harmless, Owing, Reloaded, At
<1>5. CASE ListSurplus(s)
  <2> DEFINE c == [cmd[s] EXCEPT !.at = "pruning",
                              !.list = SubSeq(order, MaxFiles + 1, Len(order))]
  <2>1. c = [cmd[s] EXCEPT !.at = "pruning",
                              !.list = SubSeq(order, MaxFiles + 1, Len(order))]
    OBVIOUS
  <2>2. cmd' = [cmd EXCEPT ![s] = c] /\ bak' = bak /\ nonce' = nonce
        /\ cmd[s].at = "hashed"
    BY <1>5 DEF ListSurplus, store, At, BackupInv, BackupShape
  <2> HIDE DEF c
  <2>3. IsCommand(c) /\ c.at # "reloaded"
    BY <1>3, <2>1, <2>2 DEF IsCommand
  <2>4. CarriedBy(c)
    BY <1>1, <1>3, <2>1, <2>2 DEF IsCommand, CarriedBy
  <2>5. Goes(s)
    BY <2>2, <2>3, <2>4, ExceptGoes
  <2> QED
    BY <1>1, <1>2, <1>3, <2>2, <2>5, GoesKeeps DEF Harmless, Owing, Reloaded, At
<1>6. CASE OpenBackup(s)
  <2> DEFINE d == [content |-> cmd[s].src, nonce |-> nonce + 1]
  <2> DEFINE c == [cmd[s] EXCEPT !.at = "opened", !.name = now, !.data = d]
  <2>1. c = [cmd[s] EXCEPT !.at = "opened", !.name = now, !.data = d]
    OBVIOUS
  <2>2. cmd' = [cmd EXCEPT ![s] = c] /\ bak' = [bak EXCEPT ![now] = Torn]
        /\ nonce < MaxNonce /\ nonce' = nonce + 1 /\ cmd[s].at = "new"
    BY <1>6 DEF OpenBackup, At, BackupInv, BackupShape
  <2> HIDE DEF c
  <2>3. IsCommand(c) /\ c.at # "reloaded"
    BY <1>3, <2>1, <2>2 DEF IsCommand
  <2>6. nonce' \in 0 .. MaxNonce /\ d \in Data
    BY <1>1, <1>3, <2>2, BackupConstants DEF Data, CarriedBy
  <2>4. CarriedBy(c)
    BY <1>1, <1>3, <2>1, <2>2, <2>6 DEF IsCommand, CarriedBy
  <2>5. Goes(s)
    BY <2>2, <2>3, <2>4, ExceptGoes
  <2>7. bak' \in [Names -> Data \cup {NoFile, Torn}]
    BY <1>3, <2>2
  <2> QED
    BY <1>1, <1>2, <1>3, <2>2, <2>5, <2>6, <2>7, GoesKeeps DEF Harmless, Owing, Reloaded, At
<1>7. CASE WriteBackup(s)
  <2>1. PICK l \in {"filled", "failed"} : Move(s, l)
    BY <1>7 DEF WriteBackup
  <2>2. nonce' = nonce /\ cmd[s].at = "opened" /\ cmd[s].data \in Data
    BY <1>1, <1>3, <1>7 DEF WriteBackup, At, CarriedBy
  <2>3. bak' \in [Names -> Data \cup {NoFile, Torn}]
    BY <1>3, <1>7, <2>2 DEF WriteBackup
  <2>4. Goes(s)
    BY <1>1, <1>3, <2>1, <2>2, MoveGoes DEF IsCommand, CarriedBy
  <2> QED
    BY <1>1, <1>2, <1>3, <2>2, <2>3, <2>4, GoesKeeps DEF Harmless, Owing, Reloaded, At
<1>8. CASE SaveChecksum(s)
  <2>1. PICK l \in {"summed", "failed"} : Move(s, l)
    BY <1>8 DEF SaveChecksum
  <2>2. nonce' = nonce /\ cmd[s].at = "filled" /\ cmd[s].data \in Data
    BY <1>1, <1>3, <1>8 DEF SaveChecksum, At, CarriedBy
  <2>3. bak' \in [Names -> Data \cup {NoFile, Torn}]
    BY <1>3, <1>8 DEF SaveChecksum
  <2>4. Goes(s)
    BY <1>1, <1>3, <2>1, <2>2, MoveGoes DEF IsCommand, CarriedBy
  <2> QED
    BY <1>1, <1>2, <1>3, <2>2, <2>3, <2>4, GoesKeeps DEF Harmless, Owing, Reloaded, At
<1>9. CASE IsDuplicateContent(s)
  <2>1. PICK l \in {"done", "new"} : Move(s, l)
    BY <1>9 DEF IsDuplicateContent
  <2>2. bak' = bak /\ nonce' = nonce /\ cmd[s].at = "read"
    BY <1>9 DEF IsDuplicateContent, store, At
  <2>3. Goes(s)
    BY <1>1, <1>3, <2>1, <2>2, MoveGoes DEF IsCommand, CarriedBy
  <2> QED
    BY <1>1, <1>2, <1>3, <2>2, <2>3, GoesKeeps DEF Harmless, Owing, Reloaded, At
<1>11. CASE SaveLastHash(s)
  <2>1. Move(s, "hashed")
    BY <1>11 DEF SaveLastHash
  <2>2. bak' = bak /\ nonce' = nonce /\ cmd[s].at = "summed"
    BY <1>11 DEF SaveLastHash, At
  <2>3. Goes(s)
    BY <1>1, <1>3, <2>1, <2>2, MoveGoes DEF IsCommand, CarriedBy
  <2> QED
    BY <1>1, <1>2, <1>3, <2>2, <2>3, GoesKeeps DEF Harmless, Owing, Reloaded, At
<1>10. CASE Prune(s)
  <2> DEFINE c == [cmd[s] EXCEPT !.list = Tail(cmd[s].list)]
  <2>1. c = [cmd[s] EXCEPT !.list = Tail(cmd[s].list)]
    OBVIOUS
  <2>2. cmd' = [cmd EXCEPT ![s] = c] /\ nonce' = nonce /\ cmd[s].at = "pruning"
    BY <1>10 DEF Prune, At, BackupInv, BackupShape
  <2> HIDE DEF c
  <2>3. IsCommand(c) /\ c.at # "reloaded"
    BY <1>3, <2>1, <2>2 DEF IsCommand
  <2>4. CarriedBy(c)
    BY <1>1, <1>3, <2>1, <2>2 DEF IsCommand, CarriedBy
  <2>5. Goes(s)
    BY <2>2, <2>3, <2>4, ExceptGoes
  <2>6. bak' \in [Names -> Data \cup {NoFile, Torn}]
    BY <1>3, <1>10 DEF Prune, Unlink
  <2> QED
    BY <1>1, <1>2, <1>3, <2>2, <2>5, <2>6, GoesKeeps DEF Harmless, Owing, Reloaded, At
<1>12. CASE EnforcePolicyEnds(s)
  <2>1. Move(s, "done")
    BY <1>12 DEF EnforcePolicyEnds
  <2>2. bak' = bak /\ nonce' = nonce /\ cmd[s].at = "pruning"
    BY <1>12 DEF EnforcePolicyEnds, store, At
  <2>3. Goes(s)
    BY <1>1, <1>3, <2>1, <2>2, MoveGoes DEF IsCommand, CarriedBy
  <2> QED
    BY <1>1, <1>2, <1>3, <2>2, <2>3, GoesKeeps DEF Harmless, Owing, Reloaded, At
<1> QED
  BY <1>4, <1>5, <1>6, <1>7, <1>8, <1>9, <1>10, <1>11, <1>12 DEF Manager

-----------------------------------------------------------------------------
(* The other commands.                                                     *)

LEMMA OthersKeep ==
  ASSUME BackupInv, NEW s \in Slots, ListBackups(s) \/ DeleteBackup(s) \/ FindBackup(s)
  PROVE  BackupInv'
<1>1. UNCHANGED <<source, nonce, hasty>> /\ failed' = failed /\ cmd[s].kind # "create"
      /\ ~Owing(s)
  BY DEF ListBackups, DeleteBackup, FindBackup, Aside, Owing, Reloaded, At
<1>2. bak' \in [Names -> Data \cup {NoFile, Torn}]
  BY DEF ListBackups, DeleteBackup, FindBackup, store, Unlink, BackupInv, BackupShape
<1>3. IsCommand(cmd[s]) /\ CarriedBy(cmd[s])
  BY DEF BackupInv, BackupShape
<1>4. Harmless
  BY <1>1, <1>2 DEF Harmless, BackupInv, BackupShape
<1>5. CASE ListBackups(s)
  <2> DEFINE c == [cmd[s] EXCEPT !.at = "done", !.list = order]
  <2>1. c = [cmd[s] EXCEPT !.at = "done", !.list = order]
    OBVIOUS
  <2>2. cmd' = [cmd EXCEPT ![s] = c]
    BY <1>5 DEF ListBackups, BackupInv, BackupShape
  <2> HIDE DEF c
  <2>3. IsCommand(c) /\ c.at # "reloaded"
    BY <1>3, <2>1, <2>2 DEF IsCommand
  <2>4. CarriedBy(c)
    BY <1>1, <1>3, <2>1 DEF IsCommand, CarriedBy
  <2> QED
    BY <1>1, <1>4, <2>2, <2>3, <2>4, ExceptGoes, GoesKeeps
<1>6. CASE DeleteBackup(s)
  <2>1. Move(s, "removed")
    BY <1>6 DEF DeleteBackup
  <2>2. Goes(s)
    BY <1>1, <1>3, <2>1, MoveGoes DEF IsCommand, CarriedBy
  <2> QED
    BY <1>1, <1>4, <2>2, GoesKeeps
<1>7. CASE FindBackup(s) /\ cmd[s].index \in DOMAIN list
  <2> DEFINE c == [cmd[s] EXCEPT !.at = "named", !.name = list[cmd[s].index]]
  <2>1. c = [cmd[s] EXCEPT !.at = "named", !.name = list[cmd[s].index]]
    OBVIOUS
  <2>2. cmd' = [cmd EXCEPT ![s] = c]
    BY <1>7 DEF FindBackup, BackupInv, BackupShape
  <2> HIDE DEF c
  <2>3. IsCommand(c) /\ c.at # "reloaded"
    BY <1>3, <2>1, <2>2 DEF IsCommand
  <2>4. CarriedBy(c)
    BY <1>1, <1>3, <2>1 DEF IsCommand, CarriedBy
  <2> QED
    BY <1>1, <1>4, <2>2, <2>3, <2>4, ExceptGoes, GoesKeeps
<1>8. CASE FindBackup(s) /\ cmd[s].index \notin DOMAIN list
  <2>1. Move(s, "failed")
    BY <1>8 DEF FindBackup
  <2>2. Goes(s)
    BY <1>1, <1>3, <2>1, MoveGoes DEF IsCommand, CarriedBy
  <2> QED
    BY <1>1, <1>4, <2>2, GoesKeeps
<1> QED
  BY <1>5, <1>6, <1>7, <1>8

\* A restore takes what it has read and found whole.
LEMMA ReadKeeps ==
  ASSUME BackupInv, NEW s \in Slots, ReadBackup(s) \/ VerifyChecksum(s) PROVE BackupInv'
<1>1. UNCHANGED source /\ cmd[s].kind = "restore" /\ ~Owing(s)
  BY DEF ReadBackup, VerifyChecksum, Owing, Reloaded, At
<1>2. Harmless
  BY DEF ReadBackup, VerifyChecksum, Aside, store, Harmless, BackupInv, BackupShape
<1>3. IsCommand(cmd[s]) /\ CarriedBy(cmd[s]) /\ bak \in [Names -> Data \cup {NoFile, Torn}]
  BY DEF BackupInv, BackupShape
<1>4. CASE Move(s, "failed")
  <2>1. Goes(s)
    BY <1>1, <1>3, <1>4, MoveGoes DEF IsCommand, CarriedBy
  <2> QED
    BY <1>1, <1>2, <2>1, GoesKeeps
<1>5. CASE ReadBackup(s) /\ cmd[s].name \in Present
  <2> DEFINE c == [cmd[s] EXCEPT !.at = "loaded", !.data = bak[cmd[s].name]]
  <2>1. c = [cmd[s] EXCEPT !.at = "loaded", !.data = bak[cmd[s].name]]
    OBVIOUS
  <2>2. cmd' = [cmd EXCEPT ![s] = c] /\ bak[cmd[s].name] \in Data \cup {NoFile, Torn}
    BY <1>3, <1>5 DEF ReadBackup, Present, BackupInv, BackupShape
  <2> HIDE DEF c
  <2>3. IsCommand(c) /\ c.at # "reloaded"
    BY <1>3, <2>1, <2>2 DEF IsCommand
  <2>4. CarriedBy(c)
    BY <1>1, <1>3, <2>1, <2>2 DEF IsCommand, CarriedBy
  <2> QED
    BY <1>1, <1>2, <2>2, <2>3, <2>4, ExceptGoes, GoesKeeps
<1>6. CASE VerifyChecksum(s) /\ Verified(cmd[s].name, cmd[s].data)
  <2>1. Move(s, "verified") /\ cmd[s].at = "loaded"
    BY <1>6 DEF VerifyChecksum, At
  <2>2. cmd[s].data \in Data
    BY <1>1, <1>3, <1>6, <2>1 DEF CarriedBy, Verified
  <2>3. Goes(s)
    BY <1>1, <1>3, <2>1, <2>2, MoveGoes DEF IsCommand, CarriedBy
  <2> QED
    BY <1>1, <1>2, <2>3, GoesKeeps
<1>7. CASE ReadBackup(s) /\ cmd[s].name \notin Present
  BY <1>4, <1>7 DEF ReadBackup
<1>8. CASE VerifyChecksum(s) /\ ~Verified(cmd[s].name, cmd[s].data)
  BY <1>4, <1>8 DEF VerifyChecksum
<1> QED
  BY <1>5, <1>6, <1>7, <1>8

\* What is written over the configuration has been backed up.
LEMMA ReplaceKeeps == ASSUME BackupInv, NEW s \in Slots, ReplaceTarget(s) PROVE BackupInv'
<1>1. IsCommand(cmd[s]) /\ CarriedBy(cmd[s]) /\ cmd[s].kind = "restore" /\ cmd[s].at = "verified"
  BY DEF ReplaceTarget, At, BackupInv, BackupShape
<1>2. /\ UNCHANGED <<known, loaded, edited, running>>
      /\ bak' = bak /\ nonce' = nonce /\ hasty' = hasty
  BY DEF ReplaceTarget, Aside, store
<1>3. CASE Fail("restore") /\ Move(s, "failed") /\ UNCHANGED <<config, raced>>
  <2>1. Goes(s)
    BY <1>1, <1>3, MoveGoes DEF IsCommand, CarriedBy
  <2>2. Harmless
    BY <1>2, <1>3 DEF Harmless, Fail, BackupInv, BackupShape
  <2> QED
    BY <1>1, <1>2, <1>3, <2>1, <2>2, GoesKeeps DEF source, Owing, Reloaded, At
<1>4. CASE /\ config' = cmd[s].data.content /\ Move(s, "restored") /\ UNCHANGED failed
           /\ raced' = (raced \/ edited # NoContent \/ \E t \in Slots : Reloaded(t))
  <2>1. cmd[s].data \in Data
    BY <1>1 DEF CarriedBy
  <2>2. Goes(s) /\ cmd'[s] = [cmd[s] EXCEPT !.at = "restored"]
    BY <1>1, <1>4, MoveGoes DEF IsCommand, CarriedBy
  <2>3. BackupShape'
    BY <1>2, <2>2 DEF BackupInv, BackupShape, Goes
  <2>4. Owing(s)'
    BY <1>1, <2>2 DEF Owing, At, IsCommand
  <2>5. config' \in Contents
    BY <1>4, <2>1 DEF Data
  <2>6. \A t \in Slots : Reloaded(t)' => Reloaded(t)
    BY <2>2 DEF Goes, Reloaded, At
  <2>7. SourceOK'
    <3>1. raced' \in BOOLEAN
      BY <1>4
    <3> QED
      BY <1>2, <2>6, <3>1 DEF BackupInv, SourceOK
  <2>8. Applied'
    <3>1. ~raced' => edited = NoContent /\ \A t \in Slots : ~Reloaded(t)
      BY <1>4
    <3>2. ~raced' => edited' = NoContent /\ \A t \in Slots : ~Reloaded(t)'
      BY <1>2, <2>6, <3>1
    <3> QED
      BY <2>4, <3>2 DEF Applied
  <2> QED
    BY <1>2, <2>3, <2>5, <2>7, <2>8 DEF BackupInv
<1> QED
  BY <1>3, <1>4 DEF ReplaceTarget

\* It is loaded again ...
LEMMA LoadedKeeps == ASSUME BackupInv, NEW s \in Slots, LoadRestored(s) PROVE BackupInv'
<1>1. IsCommand(cmd[s]) /\ CarriedBy(cmd[s]) /\ cmd[s].kind = "restore" /\ cmd[s].at = "restored"
  BY DEF LoadRestored, At, BackupInv, BackupShape
<1>2. /\ UNCHANGED <<config, edited, running, raced>>
      /\ bak' = bak /\ nonce' = nonce /\ hasty' = hasty
  BY DEF LoadRestored, Aside, store
<1>3. PICK l \in {"reloaded", "done"} : Move(s, l)
  BY DEF LoadRestored
<1>4. /\ DOMAIN cmd' = Slots
      /\ \A t \in Slots : cmd'[t] = IF t = s THEN [cmd[t] EXCEPT !.at = l] ELSE cmd[t]
  BY <1>3 DEF Move, BackupInv, BackupShape
<1>5. IsCommand(cmd'[s]) /\ cmd'[s].kind = "restore" /\ cmd'[s].at = l
  BY <1>1, <1>4 DEF IsCommand
<1>6. CarriedBy(cmd'[s])
  BY <1>5 DEF CarriedBy
<1>7. BackupShape'
  BY <1>2, <1>4, <1>5, <1>6 DEF BackupInv, BackupShape
<1>8. /\ \A t \in Slots : t # s => (Reloaded(t)' => Reloaded(t)) /\ (Owing(t) => Owing(t)')
      /\ Reloaded(s)' <=> l = "reloaded"
  BY <1>4, <1>5 DEF Owing, Reloaded, At
<1>9. CASE known' = config /\ loaded' = [loaded EXCEPT ![s] = config] /\ l = "reloaded"
           /\ failed' = failed
  <2>1. Owing(s)'
    BY <1>8, <1>9 DEF Owing
  <2>2. /\ loaded' \in [Slots -> Contents \cup {NoContent}]
        /\ \A t \in Slots : loaded'[t] = IF t = s THEN config ELSE loaded[t]
    BY <1>9 DEF BackupInv, SourceOK
  <2>3. SourceOK'
    BY <1>2, <1>8, <2>2 DEF BackupInv, SourceOK
  <2>4. Applied'
    BY <1>2, <1>8, <1>9, <2>1, <2>2 DEF BackupInv, Applied
  <2> QED
    BY <1>2, <1>7, <1>9, <2>3, <2>4 DEF BackupInv
<1>10. CASE Fail("stale") /\ loaded' = [loaded EXCEPT ![s] = known] /\ UNCHANGED known
  <2>1. /\ loaded' \in [Slots -> Contents \cup {NoContent}]
        /\ \A t \in Slots : loaded'[t] = IF t = s THEN known ELSE loaded[t]
    BY <1>10 DEF BackupInv, SourceOK
  <2>2. SourceOK'
    BY <1>2, <1>8, <2>1 DEF BackupInv, SourceOK
  <2>3. Applied'
    BY <1>10 DEF Fail, Applied
  <2> QED
    BY <1>2, <1>7, <1>10, <2>2, <2>3 DEF BackupInv
<1>11. CASE Fail("load") /\ Move(s, "done") /\ UNCHANGED <<known, loaded>>
  <2>1. ~Reloaded(s)'
    <3>1. cmd'[s] = [cmd[s] EXCEPT !.at = "done"]
      BY <1>11 DEF Move, BackupInv, BackupShape
    <3> QED
      BY <1>1, <3>1 DEF Reloaded, At, IsCommand
  <2>2. SourceOK'
    BY <1>2, <1>8, <1>11, <2>1 DEF BackupInv, SourceOK
  <2>3. Applied'
    BY <1>11 DEF Fail, Applied
  <2> QED
    BY <1>2, <1>7, <1>11, <2>2, <2>3 DEF BackupInv
<1>12. Move(s, "reloaded") => l = "reloaded"
  <2>1. Move(s, "reloaded") => cmd'[s] = [cmd[s] EXCEPT !.at = "reloaded"]
    BY DEF Move, BackupInv, BackupShape
  <2> QED
    BY <1>1, <1>5, <2>1 DEF IsCommand
<1> QED
  BY <1>9, <1>10, <1>11, <1>12 DEF LoadRestored

\* ... and sing-box is then given it.
LEMMA AppliedKeeps == ASSUME BackupInv, NEW s \in Slots, ApplyRestored(s) PROVE BackupInv'
<1>1. IsCommand(cmd[s]) /\ CarriedBy(cmd[s]) /\ cmd[s].kind = "restore" /\ Reloaded(s)
  BY DEF ApplyRestored, Reloaded, At, BackupInv, BackupShape
<1>2. /\ Move(s, "done") /\ UNCHANGED <<config, known, edited, raced>>
      /\ bak' = bak /\ nonce' = nonce /\ hasty' = hasty
      /\ loaded' = [loaded EXCEPT ![s] = NoContent]
  BY DEF ApplyRestored, Aside, store
<1>3. Goes(s)
  BY <1>1, <1>2, MoveGoes DEF IsCommand, CarriedBy
<1>4. BackupShape'
  BY <1>2, <1>3 DEF BackupInv, BackupShape, Goes
<1>5. ~Reloaded(s)' /\ \A t \in Slots \ {s} : (Reloaded(t)' => Reloaded(t)) /\ (Owing(t) => Owing(t)')
  BY <1>3 DEF Goes, Owing, Reloaded, At
<1>6. SourceOK'
  BY <1>2, <1>5 DEF BackupInv, SourceOK
<1>7. running' \in Contents
  BY <1>1 DEF ApplyRestored, BackupInv, SourceOK
<1>8. Applied'
  <2>1. CASE running' = loaded[s] /\ UNCHANGED failed
    BY <1>1, <1>2, <1>5, <2>1 DEF BackupInv, SourceOK, Applied
  <2>2. CASE Fail("apply")
    BY <2>2 DEF Fail, Applied
  <2> QED
    BY <2>1, <2>2 DEF ApplyRestored
<1> QED
  BY <1>2, <1>4, <1>6, <1>7, <1>8 DEF BackupInv

-----------------------------------------------------------------------------
(* The messages, the keys and the rest of the system.                      *)

LEMMA UpdateKeeps == ASSUME BackupInv, NEW s \in Slots, Update(s) PROVE BackupInv'
<1>1. UNCHANGED source /\ Harmless
  BY DEF Update, BackupListed, BackupCreated, StatusOnly, Still, history, store, Harmless,
         BackupInv, BackupShape
<1>2. ~Owing(s)
  BY DEF Update, BackupListed, BackupCreated, StatusOnly, Owing, Reloaded, At
<1>3. CASE End(s)
  BY <1>1, <1>2, <1>3, IdleIs, ExceptGoes, GoesKeeps DEF End
<1>4. CASE BackupCreated(s)
  <2> DEFINE c == [Idle EXCEPT !.kind = "list", !.at = "start"]
  <2>1. c = [Idle EXCEPT !.kind = "list", !.at = "start"]
    OBVIOUS
  <2>2. cmd' = [cmd EXCEPT ![s] = c]
    BY <1>4 DEF BackupCreated
  <2> HIDE DEF c
  <2>3. IsCommand(c) /\ c.at # "reloaded"
    BY <2>1, IdleIs DEF IsCommand
  <2>4. CarriedBy(c)
    BY <2>1, IdleIs DEF IsCommand, CarriedBy
  <2> QED
    BY <1>1, <1>2, <2>2, <2>3, <2>4, ExceptGoes, GoesKeeps
<1> QED
  BY <1>3, <1>4 DEF Update, BackupListed, StatusOnly

Started(k, i, n, a) ==
  [Idle EXCEPT !.kind = k, !.at = "start", !.index = i, !.name = n, !.asked = a]

LEMMA StartGoes ==
  ASSUME BackupInv, NEW k, NEW i, NEW n, NEW a, Start(k, i, n, a)
  PROVE  \E s \in Slots : Goes(s) /\ cmd[s] = Idle /\ cmd'[s] = Started(k, i, n, a)
<1> DEFINE c == Started(k, i, n, a)
<1>0. c = [Idle EXCEPT !.kind = k, !.at = "start", !.index = i, !.name = n, !.asked = a]
  BY DEF Started
<1> HIDE DEF c
<1>1. IsCommand(c) /\ c.at = "start" /\ c.at # "reloaded"
  BY <1>0, IdleIs DEF IsCommand
<1>2. CarriedBy(c)
  BY <1>1 DEF CarriedBy
<1>3. PICK s \in FreeSlots : s = CHOOSE t \in FreeSlots : TRUE
  BY DEF Start
<1>4. s \in Slots /\ cmd[s] = Idle
  BY <1>3 DEF FreeSlots
<1>5. cmd' = [cmd EXCEPT ![s] = c]
  BY <1>3 DEF Start, Started, c
<1>6. Goes(s) /\ cmd'[s] = c
  BY <1>1, <1>2, <1>4, <1>5, ExceptGoes
<1> QED
  BY <1>4, <1>6 DEF c

LEMMA PressKeeps == ASSUME BackupInv, Press PROVE BackupInv'
<1>0. Key
  BY DEF Press, OpenPage, AskCreate, Choose, Select, Yes, Refuse, Escape
<1>1. UNCHANGED source /\ Harmless
  BY <1>0 DEF Key, store, Harmless, BackupInv, BackupShape
<1>2. cmd' = cmd \/ \E k, i, n, a : Start(k, i, n, a)
  BY DEF Press, OpenPage, AskCreate, Choose, Select, Yes, Refuse, Escape, page
<1>3. CASE cmd' = cmd
  BY <1>1, <1>3 DEF source, Harmless, BackupInv, BackupShape, SourceOK, Applied, Owing, Reloaded, At
<1>4. CASE \E k, i, n, a : Start(k, i, n, a)
  <2>1. PICK s \in Slots : Goes(s) /\ cmd[s] = Idle
    BY <1>4, StartGoes
  <2> QED
    BY <1>1, <2>1, IdleIs, GoesKeeps DEF Owing, Reloaded, At
<1> QED
  BY <1>2, <1>3, <1>4

LEMMA RestKeeps ==
  ASSUME BackupInv, (\E c \in Contents : EditConfig(c)) \/ ApplyEdited \/ Tick \/ Crash \/ UNCHANGED vars
  PROVE  BackupInv'
<1>1. ASSUME NEW c \in Contents, EditConfig(c) PROVE BackupInv'
  <2>1. /\ config' = c /\ known' = c /\ edited' = c /\ UNCHANGED <<running, loaded, cmd>>
        /\ raced' = \E s \in Slots : Reloaded(s)
    BY <1>1 DEF EditConfig
  <2>2. BackupShape'
    BY <1>1 DEF EditConfig, store, history, BackupInv, BackupShape
  <2>3. \A s \in Slots : Reloaded(s)' <=> Reloaded(s)
    BY <2>1 DEF Reloaded, At
  <2>4. raced' \in BOOLEAN
    BY <2>1
  <2>5. SourceOK'
    BY <2>1, <2>3, <2>4 DEF BackupInv, SourceOK
  <2>6. ~raced' => \A s \in Slots : ~Reloaded(s)'
    BY <2>1, <2>3
  <2>7. Applied'
    BY <2>1, <2>6 DEF Applied
  <2> QED
    BY <2>1, <2>2, <2>5, <2>7 DEF BackupInv
<1>2. CASE Tick
  BY <1>2 DEF Tick, source, store, history, BackupInv, BackupShape, SourceOK, Applied, Owing,
     Reloaded, At
<1>3. CASE Crash
  <2>1. /\ \A s \in Slots : cmd'[s] = Idle
        /\ known' = config /\ loaded' = [s \in Slots |-> NoContent] /\ edited' = NoContent
        /\ UNCHANGED <<config, running, raced>>
    BY <1>3 DEF Crash
  <2>2. BackupShape'
    BY <1>3, <2>1, IdleIs DEF Crash, store, BackupInv, BackupShape
  <2>3. \A s \in Slots : ~Reloaded(s)'
    BY <2>1, IdleIs DEF Reloaded, At
  <2>4. SourceOK'
    BY <2>1, <2>3 DEF BackupInv, SourceOK
  <2>5. Applied'
    BY <1>3 DEF Crash, Fail, Applied
  <2> QED
    BY <2>1, <2>2, <2>4, <2>5 DEF BackupInv
<1>4. CASE UNCHANGED vars
  BY <1>4 DEF vars, source, store, history, BackupInv, BackupShape, SourceOK, Applied, Owing,
     Reloaded, At
<1>5. CASE ApplyEdited
  <2>1. /\ running' = edited /\ edited' = NoContent /\ edited # NoContent
        /\ UNCHANGED <<config, known, loaded, raced, cmd, failed>>
    BY <1>5 DEF ApplyEdited, history
  <2>2. BackupShape'
    BY <1>5 DEF ApplyEdited, store, history, BackupInv, BackupShape
  <2>3. \A s \in Slots : (Reloaded(s)' <=> Reloaded(s)) /\ (Owing(s)' <=> Owing(s))
    BY <2>1 DEF Owing, Reloaded, At
  <2>4. SourceOK'
    BY <2>1, <2>3 DEF BackupInv, SourceOK
  <2>5. Applied'
    BY <2>1, <2>3 DEF BackupInv, Applied
  <2>6. running' \in Contents
    BY <2>1 DEF BackupInv, SourceOK
  <2> QED
    BY <2>1, <2>2, <2>4, <2>5, <2>6 DEF BackupInv
<1> QED
  BY <1>1, <1>2, <1>3, <1>4, <1>5

\* The invariant holds in every reachable state.
THEOREM BackupInvHolds == Spec => []BackupInv
<1>1. ASSUME BackupInv, [Next]_vars PROVE BackupInv'
  BY <1>1, ManagerKeeps, OthersKeep, ReadKeeps, ReplaceKeeps, LoadedKeeps, AppliedKeeps, UpdateKeeps,
     PressKeeps,
     RestKeeps DEF Next, Run, Manager
<1> QED
  BY <1>1, BackupInvInit, PTL DEF Spec

\* A restore (Manager.Restore) never puts into config.yaml, and sing-box never
\* gets, what a crash, a failed write or a second backup left half written.
THEOREM RestoresAreWhole == Spec => []RestoresWholeBackups
<1>1. BackupInv => RestoresWholeBackups
  BY DEF BackupInv, RestoresWholeBackups
<1> QED
  BY <1>1, BackupInvHolds, PTL

\* When nothing is under way sing-box has what is in config.yaml, whatever restores,
\* saves, failed backups and deletions came before: unless the load after a restore
\* (command_builder.go:697) or an ApplyConfig failed, the load answered from a cache
\* that the restore had outdated, the program died between two steps, or the file
\* was replaced while another configuration was about to be applied.
THEOREM TheRestoredRuns == Spec => []RestoredIsRunning
<1>1. BackupInv => RestoredIsRunning
  <2> SUFFICES ASSUME BackupInv, AtRest, edited = NoContent, ~raced,
                      failed \cap {"stale", "load", "apply", "crash"} = {}
               PROVE  running = config
    BY DEF RestoredIsRunning
  <2>1. \A s \in Slots : cmd[s] = Idle
    BY DEF AtRest, FreeSlots
  <2>2. \A s \in Slots : ~Owing(s)
    BY <2>1, IdleIs DEF Owing, Reloaded, At
  <2>3. edited # config
    BY BackupConstants DEF BackupInv
  <2> QED
    BY <2>2, <2>3 DEF BackupInv, Applied
<1> QED
  BY <1>1, BackupInvHolds, PTL

-----------------------------------------------------------------------------
(* What the user was asked.                                                *)

IsQuestion == question = [at |-> question.at, op |-> question.op, index |-> question.index,
                          name |-> question.name]

\* A user who waits has at most one command under way, and none when a question
\* is shown; the list does not change between the question and the command.
Calm ==
  /\ \A s, t \in Slots : cmd[s] # Idle /\ cmd[t] # Idle => s = t
  /\ question.at # "none" => AtRest
  /\ question.at = "confirm" => question.name = list[question.index]
  /\ \A s \in Slots : At(s, "restore", "start") => cmd[s].asked = list[cmd[s].index]
  /\ ActsOnTheOneAsked

CalmInv ==
  /\ IsQuestion
  /\ view # "backup" => question.at = "none"
  /\ hasty = 0 => Calm

\* A command goes on with what it was asked.
Pursued(s) ==
  /\ DOMAIN cmd' = Slots /\ \A t \in Slots \ {s} : cmd'[t] = cmd[t]
  /\ cmd'[s].kind = cmd[s].kind /\ cmd'[s].asked = cmd[s].asked /\ cmd'[s].at # "start"
  /\ \/ cmd[s].kind = "create" \/ cmd'[s].name = cmd[s].name
     \/ At(s, "restore", "start") /\ cmd'[s].name = list[cmd[s].index]

LEMMA PursuedKeeps ==
  ASSUME BackupInv, CalmInv, NEW s \in Slots, cmd[s].kind # "none", Pursued(s),
         UNCHANGED <<view, list, question, hasty>>
  PROVE  CalmInv'
<1> SUFFICES ASSUME hasty = 0 PROVE Calm'
  BY DEF CalmInv, IsQuestion
<1>1. Calm /\ cmd[s] # Idle
  BY IdleIs DEF CalmInv
<1>2. \A t \in Slots \ {s} : cmd[t] = Idle /\ cmd'[t] = Idle
  BY <1>1 DEF Calm, Pursued
<1>3. question'.at = "none"
  BY <1>1 DEF Calm, AtRest, FreeSlots
<1>4. \A t \in Slots : ~At(t, "restore", "start")'
  BY <1>2, IdleIs DEF At, Pursued
<1>5. ActsOnTheOneAsked'
  <2> SUFFICES ASSUME NEW t \in Slots, cmd'[t].kind \in {"restore", "delete"}, cmd'[t].name # NoName
               PROVE  cmd'[t].name = cmd'[t].asked
    BY DEF ActsOnTheOneAsked
  <2>1. t = s
    BY <1>2, IdleIs
  <2> QED
    BY <1>1, <2>1 DEF Pursued, Calm, ActsOnTheOneAsked, At
<1> QED
  BY <1>2, <1>3, <1>4, <1>5 DEF Calm

LEMMA MovePursues ==
  ASSUME BackupInv, NEW s \in Slots, NEW l, Move(s, l), l # "start"
  PROVE  Pursued(s)
<1>1. /\ DOMAIN cmd' = Slots
      /\ \A t \in Slots : cmd'[t] = IF t = s THEN [cmd[t] EXCEPT !.at = l] ELSE cmd[t]
  BY DEF Move, BackupInv, BackupShape
<1>2. IsCommand(cmd[s])
  BY DEF BackupInv, BackupShape
<1> QED
  BY <1>1, <1>2 DEF Pursued, IsCommand

LEMMA RunPursues == ASSUME BackupInv, NEW s \in Slots, Run(s) PROVE Pursued(s)
<1>1. IsCommand(cmd[s])
  BY DEF BackupInv, BackupShape
<1>2. ASSUME NEW c, cmd' = [cmd EXCEPT ![s] = c], c.kind = cmd[s].kind, c.asked = cmd[s].asked,
             c.at # "start", cmd[s].kind = "create" \/ c.name = cmd[s].name
      PROVE  Pursued(s)
  BY <1>2 DEF Pursued, BackupInv, BackupShape
<1>3. CASE \E l \in Places \ {"start"} : Move(s, l)
  BY <1>3, MovePursues
<1>4. CASE ReadSource(s)
  <2> DEFINE c == [cmd[s] EXCEPT !.at = "read", !.src = config]
  <2>1. c = [cmd[s] EXCEPT !.at = "read", !.src = config]
    OBVIOUS
  <2>2. cmd' = [cmd EXCEPT ![s] = c]
    BY <1>4 DEF ReadSource, BackupInv, BackupShape
  <2> HIDE DEF c
  <2>3. c.kind = cmd[s].kind /\ c.asked = cmd[s].asked /\ c.at = "read" /\ c.name = cmd[s].name
    BY <1>1, <2>1 DEF IsCommand
  <2> QED
    BY <1>2, <2>2, <2>3
<1>5. CASE OpenBackup(s)
  <2> DEFINE d == [content |-> cmd[s].src, nonce |-> nonce + 1]
  <2> DEFINE c == [cmd[s] EXCEPT !.at = "opened", !.name = now, !.data = d]
  <2>1. c = [cmd[s] EXCEPT !.at = "opened", !.name = now, !.data = d]
    OBVIOUS
  <2>2. cmd' = [cmd EXCEPT ![s] = c] /\ cmd[s].kind = "create"
    BY <1>5 DEF OpenBackup, At, BackupInv, BackupShape
  <2> HIDE DEF c
  <2>3. c.kind = cmd[s].kind /\ c.asked = cmd[s].asked /\ c.at = "opened"
    BY <1>1, <2>1 DEF IsCommand
  <2> QED
    BY <1>2, <2>2, <2>3
<1>6. CASE ListSurplus(s)
  <2> DEFINE c == [cmd[s] EXCEPT !.at = "pruning",
                              !.list = SubSeq(order, MaxFiles + 1, Len(order))]
  <2>1. c = [cmd[s] EXCEPT !.at = "pruning",
                              !.list = SubSeq(order, MaxFiles + 1, Len(order))]
    OBVIOUS
  <2>2. cmd' = [cmd EXCEPT ![s] = c]
    BY <1>6 DEF ListSurplus, BackupInv, BackupShape
  <2> HIDE DEF c
  <2>3. c.kind = cmd[s].kind /\ c.asked = cmd[s].asked /\ c.at = "pruning" /\ c.name = cmd[s].name
    BY <1>1, <2>1 DEF IsCommand
  <2> QED
    BY <1>2, <2>2, <2>3
<1>7. CASE Prune(s)
  <2> DEFINE c == [cmd[s] EXCEPT !.list = Tail(cmd[s].list)]
  <2>1. c = [cmd[s] EXCEPT !.list = Tail(cmd[s].list)]
    OBVIOUS
  <2>2. cmd' = [cmd EXCEPT ![s] = c]
    BY <1>7 DEF Prune, BackupInv, BackupShape
  <2> HIDE DEF c
  <2>3. c.kind = cmd[s].kind /\ c.asked = cmd[s].asked /\ c.at = "pruning" /\ c.name = cmd[s].name
    BY <1>1, <1>7, <2>1 DEF IsCommand, Prune, At
  <2> QED
    BY <1>2, <2>2, <2>3
<1>8. CASE ListBackups(s)
  <2> DEFINE c == [cmd[s] EXCEPT !.at = "done", !.list = order]
  <2>1. c = [cmd[s] EXCEPT !.at = "done", !.list = order]
    OBVIOUS
  <2>2. cmd' = [cmd EXCEPT ![s] = c]
    BY <1>8 DEF ListBackups, BackupInv, BackupShape
  <2> HIDE DEF c
  <2>3. c.kind = cmd[s].kind /\ c.asked = cmd[s].asked /\ c.at = "done" /\ c.name = cmd[s].name
    BY <1>1, <2>1 DEF IsCommand
  <2> QED
    BY <1>2, <2>2, <2>3
<1>9. CASE FindBackup(s) /\ cmd[s].index \in DOMAIN list
  <2> DEFINE c == [cmd[s] EXCEPT !.at = "named", !.name = list[cmd[s].index]]
  <2>1. c = [cmd[s] EXCEPT !.at = "named", !.name = list[cmd[s].index]]
    OBVIOUS
  <2>2. cmd' = [cmd EXCEPT ![s] = c] /\ At(s, "restore", "start")
    BY <1>9 DEF FindBackup, BackupInv, BackupShape
  <2> HIDE DEF c
  <2>3. c.kind = cmd[s].kind /\ c.asked = cmd[s].asked /\ c.at = "named" /\ c.name = list[cmd[s].index]
    BY <1>1, <2>1 DEF IsCommand
  <2> QED
    BY <2>2, <2>3 DEF Pursued, BackupInv, BackupShape
<1>10. CASE ReadBackup(s) /\ cmd[s].name \in Present
  <2> DEFINE c == [cmd[s] EXCEPT !.at = "loaded", !.data = bak[cmd[s].name]]
  <2>1. c = [cmd[s] EXCEPT !.at = "loaded", !.data = bak[cmd[s].name]]
    OBVIOUS
  <2>2. cmd' = [cmd EXCEPT ![s] = c]
    BY <1>10 DEF ReadBackup, BackupInv, BackupShape
  <2> HIDE DEF c
  <2>3. c.kind = cmd[s].kind /\ c.asked = cmd[s].asked /\ c.at = "loaded" /\ c.name = cmd[s].name
    BY <1>1, <2>1 DEF IsCommand
  <2> QED
    BY <1>2, <2>2, <2>3
<1>11. CASE \/ EnforcePolicyEnds(s) \/ IsDuplicateContent(s) \/ WriteBackup(s) \/ SaveChecksum(s) \/ SaveLastHash(s)
            \/ DeleteBackup(s)
            \/ FindBackup(s) /\ cmd[s].index \notin DOMAIN list
            \/ ReadBackup(s) /\ cmd[s].name \notin Present
            \/ VerifyChecksum(s) \/ ReplaceTarget(s) \/ LoadRestored(s) \/ ApplyRestored(s)
  <2>1. \/ Move(s, "done") \/ Move(s, "new") \/ Move(s, "filled") \/ Move(s, "failed")
        \/ Move(s, "summed") \/ Move(s, "hashed") \/ Move(s, "removed") \/ Move(s, "verified")
        \/ Move(s, "restored") \/ Move(s, "reloaded")
    BY <1>11 DEF EnforcePolicyEnds, IsDuplicateContent, WriteBackup, SaveChecksum, SaveLastHash,
       DeleteBackup,
                 FindBackup, ReadBackup, VerifyChecksum, ReplaceTarget, LoadRestored, ApplyRestored, Reloaded
  <2> QED
    BY <1>3, <2>1 DEF Places
<1>12. CASE FindBackup(s)
  BY <1>9, <1>11, <1>12
<1>13. CASE ReadBackup(s)
  BY <1>10, <1>11, <1>13
<1> QED
  BY <1>4, <1>5, <1>6, <1>7, <1>8, <1>11, <1>12, <1>13 DEF Run

LEMMA RunKeepsCalm == ASSUME BackupInv, CalmInv, NEW s \in Slots, Run(s) PROVE CalmInv'
<1>1. cmd[s].kind # "none" /\ UNCHANGED <<view, list, question, hasty>>
  BY DEF Run, ReadSource, IsDuplicateContent, OpenBackup, WriteBackup, SaveChecksum, SaveLastHash,
         ListSurplus, Prune, EnforcePolicyEnds, ListBackups, DeleteBackup, FindBackup,
         ReadBackup, VerifyChecksum,
         ReplaceTarget, LoadRestored, ApplyRestored, Reloaded, At, Unseen, Aside, page
<1> QED
  BY <1>1, RunPursues, PursuedKeeps

\* A command ends, or asks for the list: the user has no question open.
LEMMA UpdateKeepsCalm == ASSUME BackupInv, CalmInv, NEW s \in Slots, Update(s) PROVE CalmInv'
<1>1. UNCHANGED <<view, question, hasty>> /\ cmd[s] # Idle
  BY IdleIs DEF Update, BackupListed, BackupCreated, StatusOnly, Still, history, At
<1> SUFFICES ASSUME hasty = 0 PROVE Calm'
  BY <1>1 DEF CalmInv, IsQuestion
<1>2. \A t \in Slots \ {s} : cmd[t] = Idle /\ cmd'[t] = Idle
  BY <1>1 DEF CalmInv, Calm, Update, BackupListed, BackupCreated, StatusOnly, End, BackupInv,
     BackupShape
<1>3. question'.at = "none"
  BY <1>1 DEF CalmInv, Calm, AtRest, FreeSlots
<1>4. cmd'[s].kind \in {"none", "list"}
  <2>1. cmd'[s] = Idle \/ cmd'[s] = [Idle EXCEPT !.kind = "list", !.at = "start"]
    BY DEF Update, BackupListed, BackupCreated, StatusOnly, End, BackupInv, BackupShape
  <2> QED
    BY <2>1, IdleIs DEF IsCommand
<1> QED
  BY <1>2, <1>3, <1>4, IdleIs DEF Calm, ActsOnTheOneAsked, At
\* A key: a question is only answered by a user at rest.
LEMMA PressKeepsCalm == ASSUME BackupInv, CalmInv, Press PROVE CalmInv'
<1>1. IsQuestion' /\ (view' # "backup" => question'.at = "none")
  BY DEF Press, OpenPage, AskCreate, Choose, Select, Yes, Refuse, Escape, page, CalmInv,
         IsQuestion, NoQuestion
<1>2. Key
  BY DEF Press, OpenPage, AskCreate, Choose, Select, Yes, Refuse, Escape
<1> SUFFICES ASSUME hasty' = 0 PROVE Calm'
  BY <1>1 DEF CalmInv
<1>3. hasty = 0 /\ AtRest /\ Calm
  BY <1>2 DEF Key, CalmInv, BackupInv, BackupShape
<1>4. \A s \in Slots : cmd[s] = Idle
  BY <1>3 DEF AtRest, FreeSlots
<1>5. ASSUME cmd' = cmd, question'.at = "confirm" => question'.name = list'[question'.index]
      PROVE  Calm'
  BY <1>4, <1>5, IdleIs DEF Calm, AtRest, FreeSlots, At, ActsOnTheOneAsked
<1>6. ASSUME NEW k, NEW i, NEW n, NEW a, Start(k, i, n, a), question'.at = "none",
             k = "restore" => n = NoName /\ a = list'[i], k = "delete" => n = a
      PROVE  Calm'
  <2> DEFINE c == Started(k, i, n, a)
  <2>1. c = [Idle EXCEPT !.kind = k, !.at = "start", !.index = i, !.name = n, !.asked = a]
    BY DEF Started
  <2>2. PICK s \in Slots : Goes(s) /\ cmd'[s] = c
    BY <1>6, StartGoes
  <2> HIDE DEF c
  <2>3. c.kind = k /\ c.index = i /\ c.name = n /\ c.asked = a
    BY <2>1, IdleIs DEF IsCommand
  <2>4. \A t \in Slots \ {s} : cmd'[t] = Idle
    BY <1>4, <2>2 DEF Goes
  <2>5. \A t \in Slots : At(t, "restore", "start")' => cmd'[t].asked = list'[cmd'[t].index]
    BY <1>6, <2>2, <2>3, <2>4, IdleIs DEF At
  <2>6. ActsOnTheOneAsked'
    BY <1>6, <2>2, <2>3, <2>4, IdleIs DEF ActsOnTheOneAsked
  <2> QED
    BY <1>6, <2>4, <2>5, <2>6 DEF Calm
<1>7. CASE OpenPage \/ AskCreate
  <2>1. question'.at = "none"
    BY <1>7 DEF OpenPage, AskCreate, CalmInv, page
  <2>2. CASE OpenPage
    BY <1>6, <2>1, <2>2 DEF OpenPage
  <2>3. CASE AskCreate
    BY <1>6, <2>1, <2>3 DEF AskCreate
  <2> QED
    BY <1>7, <2>2, <2>3
<1>8. CASE (\E i \in Names : Select(i)) \/ Choose("restore") \/ Choose("delete") \/ Refuse \/ Escape
  <2>1. CASE \E i \in Names : Select(i)
    <3>1. PICK i \in Names : Select(i)
      BY <2>1
    <3>2. cmd' = cmd /\ list' = list
          /\ question' = [question EXCEPT !.at = "confirm", !.index = i, !.name = list[i]]
      BY <3>1 DEF Select
    <3>3. question'.name = list[i] /\ question'.index = i
      BY <3>2 DEF CalmInv, IsQuestion
    <3> QED
      BY <1>5, <3>2, <3>3
  <2>2. CASE Choose("restore") \/ Choose("delete") \/ Refuse \/ Escape
    <3>1. cmd' = cmd
      BY <2>2 DEF Choose, Refuse, Escape
    <3>2. CASE Refuse \/ Escape
      BY <1>5, <3>1, <3>2 DEF Refuse, Escape, NoQuestion
    <3>3. ASSUME NEW o, Choose(o) PROVE question'.at = "select"
      <4>1. NoQuestion = [at |-> NoQuestion.at, op |-> NoQuestion.op,
                          index |-> NoQuestion.index, name |-> NoQuestion.name]
        BY DEF NoQuestion
      <4>2. question' = [NoQuestion EXCEPT !.at = "select", !.op = o]
        BY <3>3 DEF Choose
      <4> QED
        BY <4>1, <4>2
    <3> QED
      BY <1>5, <2>2, <3>1, <3>2, <3>3
  <2> QED
    BY <1>8, <2>1, <2>2
<1>9. CASE Yes
  <2>1. question'.at = "none" /\ list' = list /\ question.name = list[question.index]
    BY <1>3, <1>9 DEF Yes, NoQuestion, Calm
  <2>2. CASE cmd' = cmd
    BY <1>5, <2>1, <2>2
  <2>3. CASE Start("delete", question.index, list[question.index], question.name)
    BY <1>6, <2>1, <2>3
  <2>4. CASE Start("restore", question.index, NoName, question.name)
    BY <1>6, <2>1, <2>4
  <2> QED
    BY <1>9, <2>2, <2>3, <2>4 DEF Yes
<1> QED
  BY <1>7, <1>8, <1>9 DEF Press

LEMMA RestKeepsCalm ==
  ASSUME BackupInv, CalmInv, (\E c \in Contents : EditConfig(c)) \/ ApplyEdited \/ Tick \/ Crash \/ UNCHANGED vars
  PROVE  CalmInv'
<1>1. CASE Crash
  <2>1. \A s \in Slots : cmd'[s] = Idle
    BY <1>1 DEF Crash
  <2>2. IsQuestion' /\ question'.at = "none"
    BY <1>1 DEF Crash, NoQuestion, IsQuestion
  <2> QED
    BY <2>1, <2>2, IdleIs DEF CalmInv, Calm, ActsOnTheOneAsked, At
<1>2. CASE ~Crash
  <2>1. UNCHANGED <<cmd, view, list, question, hasty>>
    BY <1>2 DEF EditConfig, ApplyEdited, Tick, vars, history, page
  <2> QED
    BY <2>1 DEF CalmInv, IsQuestion, Calm, AtRest, FreeSlots, ActsOnTheOneAsked, At
<1> QED
  BY <1>1, <1>2

LEMMA CalmInvInit == Init => CalmInv
<1> SUFFICES ASSUME Init PROVE CalmInv
  OBVIOUS
<1>1. question = NoQuestion /\ \A s \in Slots : cmd[s] = Idle
  BY DEF Init
<1> QED
  BY <1>1, IdleIs DEF CalmInv, IsQuestion, NoQuestion, Calm, ActsOnTheOneAsked, At

\* A restore or delete acts on the backup whose name the user said YES to
\* (key_handler.go:1442-1455), for a user who presses no key while a command is
\* under way; hasty keys can make it act on another (run BackupStale).
THEOREM TheOneAskedIsTaken == Spec => []ActsOnTheOneAskedWhenCalm
<1>1. ASSUME BackupInv, CalmInv, [Next]_vars PROVE CalmInv'
  BY <1>1, RunKeepsCalm, UpdateKeepsCalm, PressKeepsCalm, RestKeepsCalm DEF Next
<1>2. CalmInv => ActsOnTheOneAskedWhenCalm
  BY DEF CalmInv, Calm, ActsOnTheOneAskedWhenCalm
<1> QED
  BY <1>1, <1>2, BackupInvHolds, CalmInvInit, PTL DEF Spec

-----------------------------------------------------------------------------
(* Lists of backups: no name is in a list twice.                           *)

LEMMA ListFacts ==
  ASSUME NEW l \in Lists
  PROVE  /\ l \in Seq(Names) /\ DOMAIN l = 1 .. Len(l) /\ Len(l) \in Nat
         /\ \A i, j \in 1 .. Len(l) : l[i] = l[j] => i = j
         /\ \A n : n \in ToSet(l) <=> \E i \in 1 .. Len(l) : l[i] = n
<1>1. l \in Seq(Names) /\ IsInjective(l)
  BY DEF Lists
<1>2. DOMAIN l = 1 .. Len(l) /\ Len(l) \in Nat
  BY <1>1
<1>3. \A i, j \in 1 .. Len(l) : l[i] = l[j] => i = j
  BY <1>1, <1>2 DEF IsInjective
<1>4. \A n : n \in ToSet(l) <=> \E i \in 1 .. Len(l) : l[i] = n
  BY <1>2 DEF ToSet
<1> QED
  BY <1>1, <1>2, <1>3, <1>4

LEMMA IsListed ==
  ASSUME NEW l \in Seq(Names), \A i, j \in 1 .. Len(l) : l[i] = l[j] => i = j
  PROVE  l \in Lists
BY DEF Lists, IsInjective

LEMMA Joined ==
  ASSUME NEW u \in Seq(Names), NEW v \in Seq(Names), NEW r, r = u \o v
  PROVE  /\ r \in Seq(Names) /\ Len(r) = Len(u) + Len(v)
         /\ \A i \in 1 .. Len(r) : r[i] = IF i <= Len(u) THEN u[i] ELSE v[i - Len(u)]
OBVIOUS

LEMMA RemoveAtIs ==
  ASSUME NEW l \in Seq(Names), NEW k \in 1 .. Len(l), NEW r, r = RemoveAt(l, k)
  PROVE  /\ r \in Seq(Names) /\ Len(r) = Len(l) - 1
         /\ \A i \in 1 .. Len(r) : r[i] = IF i < k THEN l[i] ELSE l[i + 1]
<1> DEFINE u == SubSeq(l, 1, k - 1)
           v == SubSeq(l, k + 1, Len(l))
<1>1. u \in Seq(Names) /\ Len(u) = k - 1 /\ \A i \in 1 .. k - 1 : u[i] = l[i]
  OBVIOUS
<1>2. v \in Seq(Names) /\ Len(v) = Len(l) - k /\ \A i \in 1 .. Len(l) - k : v[i] = l[k + i]
  OBVIOUS
<1>3. r = u \o v
  BY DEF RemoveAt
<1> HIDE DEF u, v
<1>4. r \in Seq(Names) /\ Len(r) = Len(u) + Len(v)
  BY <1>1, <1>2, <1>3, Joined
<1>5. \A i \in 1 .. Len(r) : r[i] = IF i <= Len(u) THEN u[i] ELSE v[i - Len(u)]
  BY <1>1, <1>2, <1>3, Joined
<1>6. ASSUME NEW i \in 1 .. Len(r) PROVE r[i] = IF i < k THEN l[i] ELSE l[i + 1]
  <2>1. CASE i < k
    BY <1>1, <1>5, <2>1
  <2>2. CASE i >= k
    <3>1. i - (k - 1) \in 1 .. Len(l) - k /\ k + (i - (k - 1)) = i + 1
      BY <1>1, <1>2, <1>4, <2>2
    <3> QED
      BY <1>1, <1>2, <1>5, <2>2, <3>1
  <2> QED
    BY <2>1, <2>2
<1>7. Len(r) = Len(l) - 1
  BY <1>1, <1>2, <1>4
<1> QED
  BY <1>4, <1>6, <1>7

LEMMA RemoveFirstIs ==
  ASSUME NEW l \in Lists, NEW k \in 1 .. Len(l)
  PROVE  RemoveFirst(l, l[k]) = RemoveAt(l, k)
<1>1. {i \in 1 .. Len(l) : l[i] = l[k]} = {k}
  BY ListFacts
<1>2. Min({k}) = k
  BY DEF Min
<1>3. SelectInSeq(l, LAMBDA v : v = l[k]) = k
  BY <1>1, <1>2 DEF SelectInSeq
<1> QED
  BY <1>3 DEF RemoveFirst

\* A name is taken out of a list.
LEMMA WithoutOne ==
  ASSUME NEW l \in Lists, NEW k \in 1 .. Len(l), NEW r, r = RemoveFirst(l, l[k])
  PROVE  /\ r \in Lists /\ Len(r) = Len(l) - 1
         /\ \A i \in 1 .. Len(r) : r[i] = IF i < k THEN l[i] ELSE l[i + 1]
         /\ ToSet(r) = ToSet(l) \ {l[k]}
<1>1. r = RemoveAt(l, k)
  BY RemoveFirstIs
<1>2. r \in Seq(Names) /\ Len(r) = Len(l) - 1
      /\ \A i \in 1 .. Len(r) : r[i] = IF i < k THEN l[i] ELSE l[i + 1]
  BY <1>1, ListFacts, RemoveAtIs
<1>3. Len(l) \in Nat /\ \A i, j \in 1 .. Len(l) : l[i] = l[j] => i = j
  BY ListFacts
<1>4. ASSUME NEW i \in 1 .. Len(r), NEW j \in 1 .. Len(r), r[i] = r[j] PROVE i = j
  <2> DEFINE a == IF i < k THEN i ELSE i + 1
             b == IF j < k THEN j ELSE j + 1
  <2>1. a \in 1 .. Len(l) /\ b \in 1 .. Len(l) /\ r[i] = l[a] /\ r[j] = l[b]
    BY <1>2, <1>3
  <2>2. a = b
    BY <1>3, <1>4, <2>1
  <2> QED
    BY <2>2
<1>5. r \in Lists
  BY <1>2, <1>4, IsListed
<1>6. ASSUME NEW n PROVE n \in ToSet(r) <=> n \in ToSet(l) \ {l[k]}
  <2>1. n \in ToSet(r) <=> \E i \in 1 .. Len(r) : r[i] = n
    BY <1>5, ListFacts
  <2>2. n \in ToSet(l) <=> \E i \in 1 .. Len(l) : l[i] = n
    BY ListFacts
  <2>3. ASSUME NEW i \in 1 .. Len(r), r[i] = n PROVE n \in ToSet(l) \ {l[k]}
    <3> DEFINE a == IF i < k THEN i ELSE i + 1
    <3>1. a \in 1 .. Len(l) /\ a # k
      BY <1>2, <1>3
    <3>2. r[i] = l[a]
      BY <1>2
    <3> QED
      BY <1>3, <2>2, <2>3, <3>1, <3>2
  <2>4. ASSUME NEW i \in 1 .. Len(l), l[i] = n, n # l[k] PROVE \E j \in 1 .. Len(r) : r[j] = n
    <3>1. CASE i < k
      <4>1. i \in 1 .. Len(r) /\ r[i] = l[i]
        BY <1>2, <1>3, <3>1
      <4> QED
        BY <2>4, <4>1
    <3>2. CASE i > k
      <4>1. i - 1 \in 1 .. Len(r) /\ r[i - 1] = l[(i - 1) + 1] /\ (i - 1) + 1 = i
        BY <1>2, <1>3, <3>2
      <4> QED
        BY <2>4, <4>1
    <3> QED
      BY <2>4, <3>1, <3>2
  <2> QED
    BY <2>1, <2>2, <2>3, <2>4
<1> QED
  BY <1>2, <1>5, <1>6

LEMMA Without ==
  ASSUME NEW l \in Lists, NEW n
  PROVE  RemoveFirst(l, n) \in Lists /\ ToSet(RemoveFirst(l, n)) = ToSet(l) \ {n}
<1>1. CASE n \in ToSet(l)
  <2>1. PICK k \in 1 .. Len(l) : l[k] = n
    BY <1>1, ListFacts
  <2> QED
    BY <2>1, WithoutOne
<1>2. CASE n \notin ToSet(l)
  <2>1. ~\E i \in 1 .. Len(l) : l[i] = n
    BY <1>2, ListFacts
  <2> QED
    BY <1>2, <2>1 DEF RemoveFirst
<1> QED
  BY <1>1, <1>2

LEMMA PutFirst ==
  ASSUME NEW n \in Names, NEW q \in Seq(Names), NEW r, r = <<n>> \o q
  PROVE  /\ r \in Seq(Names) /\ Len(r) = 1 + Len(q) /\ r[1] = n
         /\ \A i \in 2 .. Len(r) : r[i] = q[i - 1]
OBVIOUS

\* A file that is written comes first.
LEMMA FirstOne ==
  ASSUME NEW l \in Lists, NEW n \in Names, NEW r, r = <<n>> \o RemoveFirst(l, n)
  PROVE  r \in Lists /\ ToSet(r) = ToSet(l) \cup {n} /\ r[1] = n /\ Len(r) > 0
<1> DEFINE q == RemoveFirst(l, n)
<1>1. q \in Lists /\ ToSet(q) = ToSet(l) \ {n}
  BY Without
<1> HIDE DEF q
<1>2. q \in Seq(Names) /\ Len(q) \in Nat
      /\ (\A i, j \in 1 .. Len(q) : q[i] = q[j] => i = j)
      /\ \A m : m \in ToSet(q) <=> \E i \in 1 .. Len(q) : q[i] = m
  BY <1>1, ListFacts
<1>3. r = <<n>> \o q
  BY DEF q
<1>4. r \in Seq(Names) /\ Len(r) = 1 + Len(q) /\ r[1] = n
      /\ \A i \in 2 .. Len(r) : r[i] = q[i - 1]
  <2>1. q \in Seq(Names)
    BY <1>2
  <2> QED
    BY ONLY <1>3, <2>1, n \in Names, PutFirst
<1>5. ASSUME NEW i \in 1 .. Len(r), NEW j \in 1 .. Len(r), r[i] = r[j] PROVE i = j
  <2>1. ASSUME NEW h \in 2 .. Len(r) PROVE h - 1 \in 1 .. Len(q) /\ r[h] = q[h - 1] /\ r[h] # n
    <3>1. h - 1 \in 1 .. Len(q) /\ r[h] = q[h - 1]
      BY <1>2, <1>4
    <3>2. q[h - 1] \in ToSet(q)
      BY <1>2, <3>1
    <3> QED
      BY <1>1, <3>1, <3>2
  <2>2. CASE i = 1 \/ j = 1
    BY <1>4, <1>5, <2>1, <2>2
  <2>3. CASE i # 1 /\ j # 1
    <3>1. i \in 2 .. Len(r) /\ j \in 2 .. Len(r)
      BY <2>3
    <3>2. i - 1 = j - 1
      BY <1>2, <1>5, <2>1, <3>1
    <3> QED
      BY <3>2
  <2> QED
    BY <2>2, <2>3
<1>6. r \in Lists
  BY <1>4, <1>5, IsListed
<1>7. ASSUME NEW m PROVE m \in ToSet(r) <=> m \in ToSet(q) \cup {n}
  <2>1. m \in ToSet(r) <=> \E i \in 1 .. Len(r) : r[i] = m
    BY <1>6, ListFacts
  <2>2. ASSUME NEW i \in 1 .. Len(q), q[i] = m PROVE \E j \in 1 .. Len(r) : r[j] = m
    <3>1. i + 1 \in 2 .. Len(r) /\ r[i + 1] = q[(i + 1) - 1] /\ (i + 1) - 1 = i
      BY <1>2, <1>4
    <3> QED
      BY <2>2, <3>1
  <2>3. ASSUME NEW i \in 2 .. Len(r), r[i] = m PROVE m \in ToSet(q)
    <3>1. i - 1 \in 1 .. Len(q) /\ q[i - 1] = m
      BY <1>2, <1>4, <2>3
    <3> QED
      BY <1>2, <3>1
  <2>4. m = n => \E j \in 1 .. Len(r) : r[j] = m
    BY <1>2, <1>4
  <2>5. ASSUME NEW i \in 1 .. Len(r), r[i] = m PROVE m \in ToSet(q) \cup {n}
    BY <1>4, <2>3, <2>5
  <2> QED
    BY <1>2, <2>1, <2>2, <2>4, <2>5
<1> QED
  BY <1>1, <1>2, <1>4, <1>6, <1>7

LEMMA TailIs ==
  ASSUME NEW l \in Lists, l # <<>>
  PROVE  Tail(l) \in Lists /\ Head(l) = l[1] /\ ToSet(Tail(l)) = ToSet(l) \ {Head(l)}
         /\ Head(l) \in Names
<1>1. l \in Seq(Names) /\ Len(l) \in Nat \ {0}
      /\ (\A i, j \in 1 .. Len(l) : l[i] = l[j] => i = j)
      /\ \A m : m \in ToSet(l) <=> \E i \in 1 .. Len(l) : l[i] = m
  BY ListFacts
<1> DEFINE t == Tail(l)
<1>2. t \in Seq(Names) /\ Len(t) = Len(l) - 1 /\ Head(l) = l[1] /\ Head(l) \in Names
      /\ \A i \in 1 .. Len(t) : t[i] = l[i + 1]
  BY <1>1
<1> HIDE DEF t
<1>3. t \in Lists
  <2>1. ASSUME NEW i \in 1 .. Len(t), NEW j \in 1 .. Len(t), t[i] = t[j] PROVE i = j
    <3>1. i + 1 \in 1 .. Len(l) /\ j + 1 \in 1 .. Len(l) /\ l[i + 1] = l[j + 1]
      BY <1>1, <1>2, <2>1
    <3>2. i + 1 = j + 1
      BY <1>1, <3>1
    <3> QED
      BY <3>2
  <2> QED
    BY <1>2, <2>1, IsListed
<1>4. ASSUME NEW m PROVE m \in ToSet(t) <=> m \in ToSet(l) \ {l[1]}
  <2>1. m \in ToSet(t) <=> \E i \in 1 .. Len(t) : t[i] = m
    BY <1>3, ListFacts
  <2>2. ASSUME NEW i \in 1 .. Len(t), t[i] = m PROVE m \in ToSet(l) \ {l[1]}
    <3>1. i + 1 \in 1 .. Len(l) /\ l[i + 1] = m /\ i + 1 # 1 /\ 1 \in 1 .. Len(l)
      BY <1>1, <1>2, <2>2
    <3>2. m # l[1]
      BY <1>1, <3>1
    <3> QED
      BY <1>1, <3>1, <3>2
  <2>3. ASSUME NEW i \in 1 .. Len(l), l[i] = m, m # l[1] PROVE \E j \in 1 .. Len(t) : t[j] = m
    <3>1. i - 1 \in 1 .. Len(t) /\ t[i - 1] = l[(i - 1) + 1] /\ (i - 1) + 1 = i
      BY <1>1, <1>2, <2>3
    <3> QED
      BY <2>3, <3>1
  <2> QED
    BY <1>1, <2>1, <2>2, <2>3
<1> QED
  BY <1>2, <1>3, <1>4 DEF t

\* The end of a list.
LEMMA RestIs ==
  ASSUME NEW l \in Lists, NEW k \in Nat \ {0}, NEW r, r = SubSeq(l, k, Len(l))
  PROVE  /\ r \in Lists /\ Len(r) = IF k <= Len(l) THEN Len(l) - k + 1 ELSE 0
         /\ \A i \in 1 .. Len(r) : r[i] = l[k + i - 1]
         /\ ToSet(r) = {l[i] : i \in k .. Len(l)}
<1>1. l \in Seq(Names) /\ Len(l) \in Nat
      /\ (\A i, j \in 1 .. Len(l) : l[i] = l[j] => i = j)
  BY ListFacts
<1>2. r \in Seq(Names) /\ Len(r) = IF k <= Len(l) THEN Len(l) - k + 1 ELSE 0
  BY <1>1
<1>3. \A i \in 1 .. Len(r) : r[i] = l[k + i - 1]
  BY <1>1, <1>2
<1>4. r \in Lists
  <2>1. ASSUME NEW i \in 1 .. Len(r), NEW j \in 1 .. Len(r), r[i] = r[j] PROVE i = j
    <3>1. k + i - 1 \in 1 .. Len(l) /\ k + j - 1 \in 1 .. Len(l) /\ l[k + i - 1] = l[k + j - 1]
      BY <1>1, <1>2, <1>3, <2>1
    <3>2. k + i - 1 = k + j - 1
      BY <1>1, <3>1
    <3> QED
      BY <3>2
  <2> QED
    BY <1>2, <2>1, IsListed
<1>5. ASSUME NEW m PROVE m \in ToSet(r) <=> \E i \in k .. Len(l) : l[i] = m
  <2>1. m \in ToSet(r) <=> \E i \in 1 .. Len(r) : r[i] = m
    BY <1>4, ListFacts
  <2>2. ASSUME NEW i \in 1 .. Len(r), r[i] = m PROVE \E j \in k .. Len(l) : l[j] = m
    <3>1. k + i - 1 \in k .. Len(l) /\ l[k + i - 1] = m
      BY <1>1, <1>2, <1>3, <2>2
    <3> QED
      BY <3>1
  <2>3. ASSUME NEW i \in k .. Len(l), l[i] = m PROVE \E j \in 1 .. Len(r) : r[j] = m
    <3>1. i - k + 1 \in 1 .. Len(r) /\ r[i - k + 1] = l[k + (i - k + 1) - 1]
          /\ k + (i - k + 1) - 1 = i
      BY <1>1, <1>2, <1>3, <2>3
    <3> QED
      BY <2>3, <3>1
  <2> QED
    BY <2>1, <2>2, <2>3
<1> QED
  BY <1>2, <1>3, <1>4, <1>5

-----------------------------------------------------------------------------
(* Types.                                                                  *)

\* The places of a backup whose file has been created.
Written == {"opened", "filled", "summed", "hashed"}
Writing == Written \cup {"pruning"}

NamedBy(c) == c.kind = "create" /\ c.at \in Writing => c.name \in Names

CmdOK == cmd \in [Slots -> Commands] /\ \A s \in Slots : NamedBy(cmd[s])

FilesOK ==
  /\ bak \in [Names -> Data \cup {NoFile, Torn}]
  /\ sum \in [Names -> Data \cup {NoFile}]
  /\ order \in Lists /\ ToSet(order) = Present
  /\ lastHash \in Contents \cup {NoContent}

PageOK ==
  /\ view \in {"tools", "backup"} /\ list \in Lists
  /\ question \in [at : {"none", "select", "confirm"}, op : {"restore", "delete"},
                   index : Nat, name : Names \cup {NoName}]

RestOK ==
  /\ {config, known, edited, running} \subseteq Contents \cup {NoContent}
  /\ loaded \in [Slots -> Contents \cup {NoContent}]
  /\ now \in Names
  /\ nonce \in 0 .. MaxNonce /\ failed \subseteq FaultKinds /\ gone \subseteq Contents
  /\ {clash, raced} \subseteq BOOLEAN /\ hasty \in 0 .. MaxHasty

TypeInv == CmdOK /\ FilesOK /\ PageOK /\ RestOK

LEMMA RecordIs ==
  ASSUME NEW K, NEW P, NEW N, NEW D, NEW L, NEW S, NEW c
  PROVE  c \in [kind : K, at : P, index : Nat, name : N, asked : N, data : D, list : L, src : S]
           <=> /\ IsCommand(c) /\ c.kind \in K /\ c.at \in P /\ c.index \in Nat
               /\ c.name \in N /\ c.asked \in N /\ c.data \in D /\ c.list \in L /\ c.src \in S
BY DEF IsCommand

LEMMA CommandIs ==
  ASSUME NEW c
  PROVE  c \in Commands
           <=> /\ IsCommand(c) /\ c.kind \in Kinds /\ c.at \in Places /\ c.index \in Nat
               /\ c.name \in Names \cup {NoName} /\ c.asked \in Names \cup {NoName}
               /\ c.data \in Data \cup {NoFile, Torn} /\ c.list \in Lists
               /\ c.src \in Contents \cup {NoContent}
<1> DEFINE K == Kinds
           P == Places
           N == Names \cup {NoName}
           D == Data \cup {NoFile, Torn}
           L == Lists
           S == Contents \cup {NoContent}
<1>1. Commands = [kind : K, at : P, index : Nat, name : N, asked : N, data : D, list : L, src : S]
  BY DEF Commands
<1> HIDE DEF K, P, N, D, L, S
<1>2. c \in Commands
        <=> /\ IsCommand(c) /\ c.kind \in K /\ c.at \in P /\ c.index \in Nat
            /\ c.name \in N /\ c.asked \in N /\ c.data \in D /\ c.list \in L /\ c.src \in S
  BY <1>1, RecordIs
<1> QED
  BY <1>2 DEF K, P, N, D, L, S

LEMMA EmptyList == <<>> \in Lists
<1> DEFINE e == <<>>
<1>1. e \in Seq(Names) /\ \A i, j \in 1 .. Len(e) : e[i] = e[j] => i = j
  OBVIOUS
<1> HIDE DEF e
<1>2. e \in Lists
  BY <1>1, IsListed
<1> QED
  BY <1>2 DEF e

LEMMA IdleOK == Idle \in Commands /\ NamedBy(Idle)
<1>1. /\ Idle.kind = "none" /\ Idle.at = "idle" /\ Idle.index = 0 /\ Idle.name = NoName
      /\ Idle.asked = NoName /\ Idle.data = NoFile /\ Idle.list = <<>> /\ Idle.src = NoContent
  BY DEF Idle
<1>2. Idle.kind \in Kinds /\ Idle.at \in Places
  BY <1>1 DEF Kinds, Places
<1> QED
  BY <1>1, <1>2, IdleIs, CommandIs, EmptyList DEF NamedBy

LEMMA TypeInvInit == Init => TypeInv
<1> SUFFICES ASSUME Init PROVE TypeInv
  OBVIOUS
<1>1. CmdOK
  BY IdleOK DEF Init, CmdOK
<1>2. FilesOK
  <2>1. bak = [n \in Names |-> NoFile] /\ sum = [n \in Names |-> NoFile]
        /\ order = <<>> /\ lastHash = NoContent
    BY DEF Init
  <2>2. ToSet(order) = {} /\ Present = {}
    <3>1. ToSet(<<>>) = {}
      BY DEF ToSet
    <3> QED
      BY <2>1, <3>1 DEF Present
  <2> QED
    BY <2>1, <2>2, EmptyList DEF FilesOK
<1>3. PageOK
  BY EmptyList DEF Init, PageOK, NoQuestion
<1>4. RestOK
  <2>1. 1 \in Names /\ MaxNonce \in Nat /\ MaxHasty \in Nat
    BY BackupConstants DEF Names
  <2>2. /\ config \in Contents /\ known = config /\ running = config /\ edited = NoContent
        /\ loaded = [s \in Slots |-> NoContent] /\ now = 1 /\ nonce = 0 /\ failed = {}
        /\ gone = {} /\ clash = FALSE /\ hasty = 0 /\ raced = FALSE
    BY DEF Init
  <2>3. nonce \in 0 .. MaxNonce /\ hasty \in 0 .. MaxHasty
    BY <2>1, <2>2
  <2>4. {clash, raced} \subseteq BOOLEAN
    BY <2>2
  <2> QED
    BY <2>1, <2>2, <2>3, <2>4 DEF RestOK
<1> QED
  BY <1>1, <1>2, <1>3, <1>4 DEF TypeInv

-----------------------------------------------------------------------------
LEMMA CommandOK ==
  ASSUME CmdOK, NEW s \in Slots, NEW c \in Commands, NamedBy(c), cmd' = [cmd EXCEPT ![s] = c]
  PROVE  CmdOK'
<1>1. cmd' \in [Slots -> Commands]
  BY DEF CmdOK
<1>2. \A t \in Slots : cmd'[t] = IF t = s THEN c ELSE cmd[t]
  BY DEF CmdOK
<1>3. \A t \in Slots : NamedBy(cmd'[t])
  BY <1>2 DEF CmdOK
<1> QED
  BY <1>1, <1>3 DEF CmdOK

LEMMA MoveOK ==
  ASSUME CmdOK, NEW s \in Slots, NEW l \in Places, Move(s, l),
         cmd[s].kind = "create" /\ l \in Writing => cmd[s].name \in Names
  PROVE  CmdOK'
<1> DEFINE c == [cmd[s] EXCEPT !.at = l]
<1>1. c = [cmd[s] EXCEPT !.at = l]
  OBVIOUS
<1>2. cmd[s] \in Commands /\ cmd' = [cmd EXCEPT ![s] = c]
  BY DEF CmdOK, Move
<1> HIDE DEF c
<1>3. IsCommand(c) /\ c.kind = cmd[s].kind /\ c.at = l /\ c.index = cmd[s].index
      /\ c.name = cmd[s].name /\ c.asked = cmd[s].asked /\ c.data = cmd[s].data
      /\ c.list = cmd[s].list /\ c.src = cmd[s].src
  BY <1>1, <1>2, CommandIs DEF IsCommand
<1>4. c \in Commands
  BY <1>2, <1>3, CommandIs
<1> QED
  BY <1>2, <1>3, <1>4, CommandOK DEF NamedBy

LEMMA RunCmdOK == ASSUME BackupInv, TypeInv, NEW s \in Slots, Run(s) PROVE CmdOK'
<1>0. CmdOK /\ FilesOK /\ PageOK /\ RestOK
  BY DEF TypeInv
<1>1. cmd[s] \in Commands /\ IsCommand(cmd[s]) /\ CarriedBy(cmd[s]) /\ NamedBy(cmd[s])
      /\ DOMAIN cmd = Slots
  BY <1>0 DEF CmdOK, BackupInv, BackupShape
<1>2. /\ cmd[s].kind \in Kinds /\ cmd[s].at \in Places /\ cmd[s].index \in Nat
      /\ cmd[s].name \in Names \cup {NoName} /\ cmd[s].asked \in Names \cup {NoName}
      /\ cmd[s].data \in Data \cup {NoFile, Torn} /\ cmd[s].list \in Lists
      /\ cmd[s].src \in Contents \cup {NoContent}
  BY <1>1, CommandIs
<1>3. CASE ReadSource(s)
  <2> DEFINE c == [cmd[s] EXCEPT !.at = "read", !.src = config]
  <2>1. c = [cmd[s] EXCEPT !.at = "read", !.src = config]
    OBVIOUS
  <2>2. cmd' = [cmd EXCEPT ![s] = c]
    BY <1>1, <1>3 DEF ReadSource
  <2> HIDE DEF c
  <2>3. IsCommand(c) /\ c.kind = cmd[s].kind /\ c.at = "read" /\ c.index = cmd[s].index
        /\ c.name = cmd[s].name /\ c.asked = cmd[s].asked /\ c.data = cmd[s].data
        /\ c.list = cmd[s].list /\ c.src = config
    BY <1>1, <2>1 DEF IsCommand
  <2>4. c.at \in Places /\ c.at \notin Writing /\ c.src \in Contents \cup {NoContent}
    BY <1>0, <2>3 DEF Places, Writing, Written, RestOK
  <2>5. c \in Commands /\ NamedBy(c)
    BY <1>2, <2>3, <2>4, CommandIs DEF NamedBy
  <2> QED
    BY <1>0, <2>2, <2>5, CommandOK
<1>4. CASE OpenBackup(s)
  <2> DEFINE d == [content |-> cmd[s].src, nonce |-> nonce + 1]
             c == [cmd[s] EXCEPT !.at = "opened", !.name = now, !.data = d]
  <2>1. c = [cmd[s] EXCEPT !.at = "opened", !.name = now, !.data = d]
    OBVIOUS
  <2>2. cmd' = [cmd EXCEPT ![s] = c]
    BY <1>1, <1>4 DEF OpenBackup
  <2>6. d \in Data
    <3>1. cmd[s].src \in Contents
      BY <1>1, <1>4 DEF CarriedBy, OpenBackup, At
    <3>2. nonce + 1 \in 1 .. MaxNonce
      BY <1>0, <1>4, BackupConstants DEF RestOK, OpenBackup
    <3> QED
      BY <3>1, <3>2 DEF Data
  <2> HIDE DEF c, d
  <2>3. IsCommand(c) /\ c.kind = cmd[s].kind /\ c.at = "opened" /\ c.index = cmd[s].index
        /\ c.name = now /\ c.asked = cmd[s].asked /\ c.data = d
        /\ c.list = cmd[s].list /\ c.src = cmd[s].src
    BY <1>1, <2>1 DEF IsCommand
  <2>4. c.at \in Places /\ now \in Names
    BY <1>0, <2>3 DEF Places, RestOK
  <2>5. c \in Commands /\ NamedBy(c)
    BY <1>2, <2>3, <2>4, <2>6, CommandIs DEF NamedBy
  <2> QED
    BY <1>0, <2>2, <2>5, CommandOK
<1>5. ASSUME NEW c, NEW l \in Places, NEW q \in Lists, cmd' = [cmd EXCEPT ![s] = c],
             c = [cmd[s] EXCEPT !.at = l, !.list = q], l \in Writing => cmd[s].at \in Writing
      PROVE  CmdOK'
  <2>1. IsCommand(c) /\ c.kind = cmd[s].kind /\ c.at = l /\ c.index = cmd[s].index
        /\ c.name = cmd[s].name /\ c.asked = cmd[s].asked /\ c.data = cmd[s].data
        /\ c.list = q /\ c.src = cmd[s].src
    BY <1>1, <1>5 DEF IsCommand
  <2>2. c \in Commands /\ NamedBy(c)
    BY <1>1, <1>2, <1>5, <2>1, CommandIs DEF NamedBy
  <2> QED
    BY <1>0, <1>5, <2>2, CommandOK
<1>6. CASE ListSurplus(s)
  <2> DEFINE q == SubSeq(order, MaxFiles + 1, Len(order))
             c == [cmd[s] EXCEPT !.at = "pruning", !.list = q]
  <2>1. c = [cmd[s] EXCEPT !.at = "pruning", !.list = q]
    OBVIOUS
  <2>2. cmd' = [cmd EXCEPT ![s] = c] /\ cmd[s].at = "hashed"
    BY <1>1, <1>6 DEF ListSurplus, At
  <2>3. q \in Lists
    <3>1. MaxFiles + 1 \in Nat \ {0} /\ order \in Lists
      BY <1>0, BackupConstants DEF FilesOK
    <3> QED
      BY <3>1, RestIs
  <2> HIDE DEF c, q
  <2>4. "pruning" \in Places /\ cmd[s].at \in Writing
    BY <2>2 DEF Places, Writing, Written
  <2> QED
    BY <1>5, <2>1, <2>2, <2>3, <2>4
<1>7. CASE Prune(s)
  <2> DEFINE q == Tail(cmd[s].list)
             c == [cmd[s] EXCEPT !.list = q]
  <2>1. c = [cmd[s] EXCEPT !.list = q] /\ cmd[s].at = "pruning"
    BY <1>7 DEF Prune, At
  <2>2. cmd' = [cmd EXCEPT ![s] = c] /\ cmd[s].list # <<>>
    BY <1>1, <1>7 DEF Prune
  <2>3. q \in Lists
    BY <1>2, <2>2, TailIs
  <2> HIDE DEF c, q
  <2>4. IsCommand(c) /\ c.kind = cmd[s].kind /\ c.at = "pruning" /\ c.index = cmd[s].index
        /\ c.name = cmd[s].name /\ c.asked = cmd[s].asked /\ c.data = cmd[s].data
        /\ c.list = q /\ c.src = cmd[s].src
    BY <1>1, <2>1 DEF IsCommand
  <2>5. c \in Commands
    BY <1>2, <2>1, <2>3, <2>4, CommandIs
  <2>6. NamedBy(c)
    BY <1>1, <2>1, <2>4 DEF NamedBy
  <2> QED
    BY <1>0, <2>2, <2>5, <2>6, CommandOK
<1>8. CASE ListBackups(s)
  <2> DEFINE c == [cmd[s] EXCEPT !.at = "done", !.list = order]
  <2>1. c = [cmd[s] EXCEPT !.at = "done", !.list = order]
    OBVIOUS
  <2>2. cmd' = [cmd EXCEPT ![s] = c]
    BY <1>1, <1>8 DEF ListBackups
  <2> HIDE DEF c
  <2>3. "done" \in Places /\ "done" \notin Writing /\ order \in Lists
    BY <1>0 DEF Places, Writing, Written, FilesOK
  <2> QED
    BY <1>5, <2>1, <2>2, <2>3
<1>9. CASE FindBackup(s) /\ cmd[s].index \in DOMAIN list
  <2> DEFINE n == list[cmd[s].index]
             c == [cmd[s] EXCEPT !.at = "named", !.name = n]
  <2>1. c = [cmd[s] EXCEPT !.at = "named", !.name = n]
    OBVIOUS
  <2>2. cmd' = [cmd EXCEPT ![s] = c] /\ cmd[s].kind = "restore"
    BY <1>1, <1>9 DEF FindBackup, At
  <2>3. n \in Names
    BY <1>0, <1>9, ListFacts DEF PageOK
  <2> HIDE DEF c, n
  <2>4. IsCommand(c) /\ c.kind = cmd[s].kind /\ c.at = "named" /\ c.index = cmd[s].index
        /\ c.name = n /\ c.asked = cmd[s].asked /\ c.data = cmd[s].data
        /\ c.list = cmd[s].list /\ c.src = cmd[s].src
    BY <1>1, <2>1 DEF IsCommand
  <2>5. c \in Commands /\ NamedBy(c)
    BY <1>2, <2>2, <2>3, <2>4, CommandIs DEF NamedBy, Places
  <2> QED
    BY <1>0, <2>2, <2>5, CommandOK
<1>10. CASE ReadBackup(s) /\ cmd[s].name \in Present
  <2> DEFINE d == bak[cmd[s].name]
             c == [cmd[s] EXCEPT !.at = "loaded", !.data = d]
  <2>1. c = [cmd[s] EXCEPT !.at = "loaded", !.data = d]
    OBVIOUS
  <2>2. cmd' = [cmd EXCEPT ![s] = c] /\ cmd[s].kind = "restore"
    BY <1>1, <1>10 DEF ReadBackup, At
  <2>3. d \in Data \cup {NoFile, Torn}
    BY <1>0, <1>10 DEF FilesOK, Present
  <2> HIDE DEF c, d
  <2>4. IsCommand(c) /\ c.kind = cmd[s].kind /\ c.at = "loaded" /\ c.index = cmd[s].index
        /\ c.name = cmd[s].name /\ c.asked = cmd[s].asked /\ c.data = d
        /\ c.list = cmd[s].list /\ c.src = cmd[s].src
    BY <1>1, <2>1 DEF IsCommand
  <2>5. c \in Commands /\ NamedBy(c)
    BY <1>2, <2>2, <2>3, <2>4, CommandIs DEF NamedBy, Places
  <2> QED
    BY <1>0, <2>2, <2>5, CommandOK
<1>11. ASSUME NEW l \in Places, Move(s, l),
              cmd[s].kind = "create" /\ l \in Writing => cmd[s].at \in Writing
       PROVE  CmdOK'
  BY <1>0, <1>1, <1>11, MoveOK DEF NamedBy
<1>12. CASE IsDuplicateContent(s) \/ EnforcePolicyEnds(s)
  <2>1. Move(s, "done") \/ Move(s, "new")
    BY <1>12 DEF IsDuplicateContent, EnforcePolicyEnds
  <2>2. "done" \in Places /\ "new" \in Places /\ "done" \notin Writing /\ "new" \notin Writing
    BY DEF Places, Writing, Written
  <2> QED
    BY <1>11, <2>1, <2>2
<1>13. CASE WriteBackup(s) \/ SaveChecksum(s) \/ SaveLastHash(s)
  <2>1. Move(s, "filled") \/ Move(s, "failed") \/ Move(s, "summed") \/ Move(s, "hashed")
    BY <1>13 DEF WriteBackup, SaveChecksum, SaveLastHash
  <2>2. cmd[s].at \in Writing
    BY <1>13 DEF WriteBackup, SaveChecksum, SaveLastHash, At, Writing, Written
  <2>3. {"filled", "failed", "summed", "hashed"} \subseteq Places
    BY DEF Places
  <2> QED
    BY <1>11, <2>1, <2>2, <2>3
<1>14. CASE DeleteBackup(s) \/ VerifyChecksum(s) \/ ReplaceTarget(s) \/ LoadRestored(s) \/ ApplyRestored(s)
            \/ (ReadBackup(s) /\ cmd[s].name \notin Present)
            \/ (FindBackup(s) /\ cmd[s].index \notin DOMAIN list)
  <2>1. Move(s, "removed") \/ Move(s, "verified") \/ Move(s, "failed") \/ Move(s, "restored")
        \/ Move(s, "done") \/ Move(s, "reloaded")
    BY <1>14 DEF DeleteBackup, VerifyChecksum, ReplaceTarget, LoadRestored, ApplyRestored, Reloaded, ReadBackup,
       FindBackup
  <2>2. cmd[s].kind # "create"
    BY <1>14 DEF DeleteBackup, VerifyChecksum, ReplaceTarget, LoadRestored, ApplyRestored, Reloaded, ReadBackup,
       FindBackup, At
  <2>3. {"removed", "verified", "failed", "restored", "reloaded", "done"} \subseteq Places
    BY DEF Places
  <2> QED
    BY <1>11, <2>1, <2>2, <2>3
<1>15. CASE ReadBackup(s)
  BY <1>10, <1>14, <1>15
<1>16. CASE FindBackup(s)
  BY <1>9, <1>14, <1>16
<1> QED
  BY <1>3, <1>4, <1>6, <1>7, <1>8, <1>12, <1>13, <1>14, <1>15, <1>16 DEF Run

LEMMA FilesStep == ASSUME BackupInv, TypeInv, [Next]_vars PROVE FilesOK'
<1>0. CmdOK /\ FilesOK /\ PageOK /\ RestOK
  BY DEF TypeInv
<1>1. CASE UNCHANGED store
  BY <1>0, <1>1 DEF FilesOK, store, Present
<1>2. ASSUME NEW n \in Names, NEW d \in Data \cup {Torn}, bak' = [bak EXCEPT ![n] = d], Newest(n),
             sum' \in [Names -> Data \cup {NoFile}], lastHash' \in Contents \cup {NoContent}
      PROVE  FilesOK'
  <2>1. order' \in Lists /\ ToSet(order') = ToSet(order) \cup {n}
    BY <1>0, <1>2, FirstOne DEF FilesOK, Newest
  <2>2. bak' \in [Names -> Data \cup {NoFile, Torn}]
    BY <1>0, <1>2 DEF FilesOK
  <2>3. d # NoFile
    BY <1>2, BackupConstants DEF Data, NoFile, Torn
  <2>4. Present' = Present \cup {n}
    BY <1>0, <1>2, <2>3 DEF Present, FilesOK
  <2> QED
    BY <1>0, <1>2, <2>1, <2>2, <2>4 DEF FilesOK
<1>3. ASSUME NEW n, bak' = [bak EXCEPT ![n] = NoFile], order' = RemoveFirst(order, n),
             sum' \in [Names -> Data \cup {NoFile}], lastHash' \in Contents \cup {NoContent}
      PROVE  FilesOK'
  <2>1. order' \in Lists /\ ToSet(order') = ToSet(order) \ {n}
    BY <1>0, <1>3, Without DEF FilesOK
  <2>2. bak' \in [Names -> Data \cup {NoFile, Torn}]
    BY <1>0, <1>3 DEF FilesOK
  <2>4. Present' = Present \ {n}
    BY <1>0, <1>3 DEF Present, FilesOK
  <2> QED
    BY <1>0, <1>3, <2>1, <2>2, <2>4 DEF FilesOK
<1>4. ASSUME NEW n, Unlink(n), UNCHANGED lastHash PROVE FilesOK'
  <2>1. sum' \in [Names -> Data \cup {NoFile}]
    BY <1>0, <1>4 DEF Unlink, FilesOK
  <2>2. bak' = [bak EXCEPT ![n] = NoFile] /\ order' = RemoveFirst(order, n)
    BY <1>4 DEF Unlink
  <2>3. lastHash' \in Contents \cup {NoContent}
    BY <1>0, <1>4 DEF FilesOK
  <2> QED
    BY <1>3, <2>1, <2>2, <2>3
<1>5. ASSUME NEW s \in Slots, OpenBackup(s) PROVE FilesOK'
  <2>1. now \in Names /\ bak' = [bak EXCEPT ![now] = Torn] /\ Newest(now)
        /\ UNCHANGED <<sum, lastHash>>
    BY <1>0, <1>5 DEF OpenBackup, RestOK
  <2>2. sum' \in [Names -> Data \cup {NoFile}] /\ lastHash' \in Contents \cup {NoContent}
    BY <1>0, <2>1 DEF FilesOK
  <2> QED
    BY <1>2, <2>1, <2>2
<1>6. ASSUME NEW s \in Slots, WriteBackup(s) PROVE FilesOK'
  <2>1. cmd[s].name \in Names /\ cmd[s].data \in Data
    BY <1>0, <1>6 DEF WriteBackup, At, CmdOK, NamedBy, Writing, Written, BackupInv, BackupShape,
       CarriedBy
  <2>2. sum' \in [Names -> Data \cup {NoFile}] /\ lastHash' \in Contents \cup {NoContent}
    BY <1>0, <1>6 DEF FilesOK, WriteBackup
  <2>3. UNCHANGED <<bak, order, sum, lastHash>>
        \/ \E d \in Data \cup {Torn} : bak' = [bak EXCEPT ![cmd[s].name] = d] /\ Newest(cmd[s].name)
    BY <1>6, <2>1 DEF WriteBackup
  <2> QED
    BY <1>1, <1>2, <2>1, <2>2, <2>3 DEF store
<1>7. ASSUME NEW s \in Slots, SaveChecksum(s) PROVE FilesOK'
  <2>1. cmd[s].name \in Names /\ cmd[s].data \in Data
    BY <1>0, <1>7 DEF SaveChecksum, At, CmdOK, NamedBy, Writing, Written, BackupInv,
       BackupShape, CarriedBy
  <2>2. sum' \in [Names -> Data \cup {NoFile}] /\ lastHash' \in Contents \cup {NoContent}
    BY <1>0, <1>7, <2>1 DEF FilesOK, SaveChecksum
  <2>3. CASE UNCHANGED <<bak, order>>
    BY <1>0, <2>2, <2>3 DEF FilesOK, Present
  <2>4. CASE bak' = [bak EXCEPT ![cmd[s].name] = NoFile] /\ order' = RemoveFirst(order, cmd[s].name)
    BY <1>3, <2>2, <2>4
  <2> QED
    BY <1>7, <2>3, <2>4 DEF SaveChecksum
<1>8. ASSUME NEW s \in Slots, SaveLastHash(s) PROVE FilesOK'
  <2>1. cmd[s].src \in Contents /\ UNCHANGED <<bak, sum, order>>
    BY <1>8 DEF SaveLastHash, At, BackupInv, BackupShape, CarriedBy
  <2>2. lastHash' = cmd[s].src \/ lastHash' = lastHash
    BY <1>8 DEF SaveLastHash
  <2> QED
    BY <1>0, <2>1, <2>2 DEF FilesOK, Present
<1>9. ASSUME NEW s \in Slots, Prune(s) \/ DeleteBackup(s) PROVE FilesOK'
  BY <1>4, <1>9 DEF Prune, DeleteBackup
<1>10. ASSUME NEW s \in Slots, Run(s) PROVE FilesOK'
  <2>1. CASE ReadSource(s) \/ IsDuplicateContent(s) \/ ListSurplus(s) \/ EnforcePolicyEnds(s)
             \/ ListBackups(s) \/ FindBackup(s) \/ ReadBackup(s) \/ VerifyChecksum(s)
             \/ ReplaceTarget(s) \/ LoadRestored(s) \/ ApplyRestored(s)
    BY <1>1, <2>1 DEF ReadSource, IsDuplicateContent, ListSurplus, EnforcePolicyEnds, ListBackups,
       FindBackup, ReadBackup, VerifyChecksum, ReplaceTarget, LoadRestored, ApplyRestored, Reloaded
  <2> QED
    BY <1>5, <1>6, <1>7, <1>8, <1>9, <1>10, <2>1 DEF Run
<1>11. CASE Press
  BY <1>1, <1>11 DEF Press, OpenPage, AskCreate, Choose, Select, Yes, Refuse, Escape, Key
<1>12. ASSUME NEW s \in Slots, Update(s) PROVE FilesOK'
  BY <1>1, <1>12 DEF Update, BackupListed, BackupCreated, StatusOnly, Still
<1>13. CASE (\E c \in Contents : EditConfig(c)) \/ ApplyEdited \/ Tick \/ Crash \/ UNCHANGED vars
  BY <1>1, <1>13 DEF EditConfig, ApplyEdited, Tick, Crash, vars
<1> QED
  BY <1>10, <1>11, <1>12, <1>13 DEF Next

LEMMA StartOK ==
  ASSUME CmdOK, NEW k \in Kinds, NEW i \in Nat, NEW n \in Names \cup {NoName},
         NEW a \in Names \cup {NoName}, Start(k, i, n, a)
  PROVE  CmdOK'
<1> DEFINE c == Started(k, i, n, a)
<1>1. c = [Idle EXCEPT !.kind = k, !.at = "start", !.index = i, !.name = n, !.asked = a]
  BY DEF Started
<1>2. PICK s \in FreeSlots : s = CHOOSE t \in FreeSlots : TRUE
  BY DEF Start
<1>3. s \in Slots /\ cmd' = [cmd EXCEPT ![s] = c]
  BY <1>2 DEF Start, Started, FreeSlots
<1> HIDE DEF c
<1>4. IsCommand(c) /\ c.kind = k /\ c.at = "start" /\ c.index = i /\ c.name = n /\ c.asked = a
      /\ c.data = Idle.data /\ c.list = Idle.list /\ c.src = Idle.src
  BY <1>1, IdleIs DEF IsCommand
<1>5. Idle.data \in Data \cup {NoFile, Torn} /\ Idle.list \in Lists
      /\ Idle.src \in Contents \cup {NoContent}
  BY IdleOK, CommandIs
<1>6. "start" \in Places /\ "start" \notin Writing
  BY DEF Places, Writing, Written
<1>7. c \in Commands /\ NamedBy(c)
  BY <1>4, <1>5, <1>6, CommandIs DEF NamedBy
<1> QED
  BY <1>3, <1>7, CommandOK

LEMMA CmdStep == ASSUME BackupInv, TypeInv, [Next]_vars PROVE CmdOK'
<1>0. CmdOK /\ PageOK /\ RestOK
  BY DEF TypeInv
<1>1. CASE cmd' = cmd
  BY <1>0, <1>1 DEF CmdOK
<1>2. ASSUME NEW s \in Slots, Update(s) PROVE CmdOK'
  <2>1. CASE End(s)
    BY <1>0, <2>1, IdleOK, CommandOK DEF End
  <2>2. CASE BackupCreated(s)
    <3> DEFINE c == [Idle EXCEPT !.kind = "list", !.at = "start"]
    <3>1. c = [Idle EXCEPT !.kind = "list", !.at = "start"]
      OBVIOUS
    <3>2. cmd' = [cmd EXCEPT ![s] = c]
      BY <2>2 DEF BackupCreated
    <3> HIDE DEF c
    <3>3. IsCommand(c) /\ c.kind = "list" /\ c.at = "start" /\ c.index = Idle.index
          /\ c.name = Idle.name /\ c.asked = Idle.asked
          /\ c.data = Idle.data /\ c.list = Idle.list /\ c.src = Idle.src
      BY <3>1, IdleIs DEF IsCommand
    <3>4. c \in Commands /\ NamedBy(c)
      BY <3>3, IdleOK, CommandIs DEF NamedBy, Places, Kinds
    <3> QED
      BY <1>0, <3>2, <3>4, CommandOK
  <2> QED
    BY <1>2, <2>1, <2>2 DEF Update, BackupListed, StatusOnly
<1>3. CASE Press
  <2>1. {"list", "create", "restore", "delete"} \subseteq Kinds /\ 0 \in Nat
    BY DEF Kinds
  <2>2. CASE OpenPage \/ AskCreate
    BY <1>0, <2>1, <2>2, StartOK DEF OpenPage, AskCreate
  <2>3. CASE Yes
    <3>1. question.index \in Nat /\ question.name \in Names \cup {NoName}
          /\ \A i \in DOMAIN list : list[i] \in Names
      BY <1>0, ListFacts DEF PageOK
    <3>2. CASE question.index \in DOMAIN list
               /\ Start("delete", question.index, list[question.index], question.name)
      BY <1>0, <2>1, <3>1, <3>2, StartOK
    <3>3. CASE Start("restore", question.index, NoName, question.name)
      BY <1>0, <2>1, <3>1, <3>3, StartOK
    <3> QED
      BY <1>1, <2>3, <3>2, <3>3 DEF Yes
  <2> QED
    BY <1>1, <1>3, <2>2, <2>3 DEF Press, Choose, Select, Refuse, Escape
<1>4. CASE Crash
  BY <1>4, IdleOK DEF Crash, CmdOK
<1>5. CASE (\E c \in Contents : EditConfig(c)) \/ ApplyEdited \/ Tick \/ UNCHANGED vars
  BY <1>1, <1>5 DEF EditConfig, ApplyEdited, Tick, vars
<1> QED
  BY <1>2, <1>3, <1>4, <1>5, RunCmdOK DEF Next

LEMMA PageStep == ASSUME TypeInv, [Next]_vars PROVE PageOK'
<1>0. CmdOK /\ PageOK /\ RestOK
  BY DEF TypeInv
<1>1. CASE UNCHANGED page
  BY <1>0, <1>1 DEF PageOK, page
<1>2. ASSUME NEW s \in Slots, BackupListed(s) PROVE PageOK'
  <2>1. list' = cmd[s].list /\ cmd[s] \in Commands /\ UNCHANGED <<view, question>>
    BY <1>0, <1>2 DEF BackupListed, Still, CmdOK
  <2> QED
    BY <1>0, <2>1, CommandIs DEF PageOK
<1>3. CASE Crash
  BY <1>3, EmptyList DEF Crash, PageOK, NoQuestion
<1>4. CASE Press
  <2>1. list' = list /\ view' \in {"tools", "backup"}
    BY <1>0, <1>4 DEF Press, OpenPage, AskCreate, Choose, Select, Yes, Refuse, Escape, PageOK,
       page
  <2>2. CASE UNCHANGED question \/ question' = NoQuestion
    BY <1>0, <2>1, <2>2 DEF PageOK, NoQuestion
  <2>3. ASSUME NEW o \in {"restore", "delete"}, Choose(o) PROVE PageOK'
    BY <1>0, <2>1, <2>3 DEF PageOK, Choose, NoQuestion
  <2>4. ASSUME NEW i \in Names, Select(i) PROVE PageOK'
    <3>1. i \in Nat /\ list[i] \in Names
      BY <1>0, <2>4, ListFacts DEF PageOK, Select
    <3> QED
      BY <1>0, <2>1, <2>4, <3>1 DEF PageOK, Select
  <2> QED
    BY <1>4, <2>2, <2>3, <2>4 DEF Press, OpenPage, AskCreate, Yes, Refuse, Escape, page
<1>5. ASSUME NEW s \in Slots, Run(s) PROVE UNCHANGED page
  BY <1>5 DEF Run, ReadSource, IsDuplicateContent, OpenBackup, WriteBackup, SaveChecksum,
     SaveLastHash,
     ListSurplus, Prune, EnforcePolicyEnds, ListBackups, DeleteBackup, FindBackup, ReadBackup,
     VerifyChecksum, ReplaceTarget, LoadRestored, ApplyRestored, Reloaded, Unseen, Aside
<1>6. ASSUME NEW s \in Slots, BackupCreated(s) \/ StatusOnly(s) PROVE UNCHANGED page
  BY <1>6 DEF BackupCreated, StatusOnly, Still, page
<1>7. CASE (\E c \in Contents : EditConfig(c)) \/ ApplyEdited \/ Tick \/ UNCHANGED vars
  BY <1>1, <1>7 DEF EditConfig, ApplyEdited, Tick, vars
<1> QED
  BY <1>1, <1>2, <1>3, <1>4, <1>5, <1>6, <1>7 DEF Next, Update

LEMMA RestStep == ASSUME BackupInv, BackupInv', TypeInv, [Next]_vars PROVE RestOK'
<1>0. RestOK /\ MaxHasty \in Nat /\ MaxSecond \in Nat
  BY BackupConstants DEF TypeInv
<1>1. /\ {config, known, running}' \subseteq Contents
      /\ edited' \in Contents \cup {NoContent} /\ raced' \in BOOLEAN
      /\ loaded' \in [Slots -> Contents \cup {NoContent}]
      /\ nonce' \in 0 .. MaxNonce /\ hasty' \in Nat
  BY DEF BackupInv, BackupShape, SourceOK
<1>2. now' \in Names
  <2>1. now' = now \/ Tick
    BY DEF Next, Press, OpenPage, AskCreate, Choose, Select, Yes, Refuse, Escape, Key, Run,
       ReadSource,
       IsDuplicateContent, OpenBackup, WriteBackup, SaveChecksum, SaveLastHash, ListSurplus,
       Prune,
       EnforcePolicyEnds, ListBackups, DeleteBackup, FindBackup, ReadBackup, VerifyChecksum,
       ReplaceTarget,
       LoadRestored, ApplyRestored, Reloaded, Unseen, Aside, Update, BackupListed, BackupCreated, StatusOnly, Still,
       EditConfig, ApplyEdited,
       Crash, vars
  <2> QED
    BY <1>0, <2>1 DEF Tick, RestOK, Names
<1>3. hasty' \in 0 .. MaxHasty
  <2>1. hasty' = hasty \/ Key
    BY DEF Next, Press, OpenPage, AskCreate, Choose, Select, Yes, Refuse, Escape, Run, ReadSource,
       IsDuplicateContent, OpenBackup, WriteBackup, SaveChecksum, SaveLastHash, ListSurplus,
       Prune,
       EnforcePolicyEnds, ListBackups, DeleteBackup, FindBackup, ReadBackup, VerifyChecksum,
       ReplaceTarget,
       LoadRestored, ApplyRestored, Reloaded, Unseen, Aside, Update, BackupListed, BackupCreated, StatusOnly, Still,
       EditConfig, ApplyEdited,
       Tick, Crash, vars, history
  <2> QED
    BY <1>0, <1>1, <2>1 DEF Key, RestOK
<1>4. failed' \subseteq FaultKinds
  <2>1. failed' = failed \/ \E k \in FaultKinds : failed' = failed \cup {k}
    BY DEF Next, Press, OpenPage, AskCreate, Choose, Select, Yes, Refuse, Escape, Key, Run,
       ReadSource,
       IsDuplicateContent, OpenBackup, WriteBackup, SaveChecksum, SaveLastHash, ListSurplus,
       Prune,
       EnforcePolicyEnds, ListBackups, DeleteBackup, FindBackup, ReadBackup, VerifyChecksum,
       ReplaceTarget,
       LoadRestored, ApplyRestored, Reloaded, Update, BackupListed, BackupCreated, StatusOnly, Still, EditConfig, ApplyEdited,
       Tick, Crash, vars, history, Fail
  <2> QED
    BY <1>0, <2>1 DEF RestOK
<1>5. gone' \subseteq Contents
  <2>1. \/ gone' = gone \/ (\E c : gone' = gone \ {c}) \/ (\E n : gone' = gone \cup BackedUpAs(n))
    BY DEF Next, Press, OpenPage, AskCreate, Choose, Select, Yes, Refuse, Escape, Key, Run,
       ReadSource,
       IsDuplicateContent, OpenBackup, WriteBackup, SaveChecksum, SaveLastHash, ListSurplus,
       Prune,
       EnforcePolicyEnds, ListBackups, DeleteBackup, FindBackup, ReadBackup, VerifyChecksum,
       ReplaceTarget,
       LoadRestored, ApplyRestored, Reloaded, Update, BackupListed, BackupCreated, StatusOnly, Still, EditConfig, ApplyEdited,
       Tick, Crash, vars, history
  <2> QED
    BY <1>0, <2>1 DEF RestOK, BackedUpAs
<1>6. clash' \in BOOLEAN
  <2>1. clash' = clash \/ \E s \in Slots : OpenBackup(s)
    BY DEF Next, Press, OpenPage, AskCreate, Choose, Select, Yes, Refuse, Escape, Key, Run,
       ReadSource,
       IsDuplicateContent, WriteBackup, SaveChecksum, SaveLastHash, ListSurplus, Prune,
       EnforcePolicyEnds, ListBackups, DeleteBackup, FindBackup, ReadBackup, VerifyChecksum,
       ReplaceTarget,
       LoadRestored, ApplyRestored, Reloaded, Unseen, Aside, Update, BackupListed, BackupCreated, StatusOnly, Still,
       EditConfig, ApplyEdited,
       Tick, Crash, vars, history
  <2>2. ASSUME NEW s \in Slots, OpenBackup(s) PROVE clash' \in BOOLEAN
    <3>1. clash' = (clash \/ bak[now] # NoFile \/ \E t \in Slots : cmd[t].name = now)
      BY <2>2 DEF OpenBackup
    <3> QED
      BY <3>1
  <2> QED
    BY <1>0, <2>1, <2>2 DEF RestOK
<1> QED
  BY <1>1, <1>2, <1>3, <1>4, <1>5, <1>6 DEF RestOK

LEMMA BackupInvStep == ASSUME BackupInv, [Next]_vars PROVE BackupInv'
BY ManagerKeeps, OthersKeep, ReadKeeps, ReplaceKeeps, LoadedKeeps, AppliedKeeps, UpdateKeeps,
   PressKeeps,
   RestKeeps DEF Next, Run, Manager

LEMMA TypeInvStep == ASSUME BackupInv, TypeInv, [Next]_vars PROVE TypeInv'
BY BackupInvStep, CmdStep, FilesStep, PageStep, RestStep DEF TypeInv

\* Names, lists and data of commands are those of files that there are or were, the
\* directory lists each backup once, and the page shows such a list
\* (manager.go:159, backup_state.go:8).
THEOREM BackupTypeCorrect == Spec => []TypeOK
<1>1. Init => BackupInv /\ TypeInv
  BY BackupInvInit, TypeInvInit
<1>2. BackupInv /\ TypeInv /\ [Next]_vars => (BackupInv /\ TypeInv)'
  BY BackupInvStep, TypeInvStep
<1>3. TypeInv => TypeOK
  BY DEF TypeInv, CmdOK, FilesOK, PageOK, RestOK, TypeOK
<1> QED
  BY <1>1, <1>2, <1>3, PTL DEF Spec

-----------------------------------------------------------------------------
(* What a step makes of its command.                                       *)

Turns(s, l, n, d, q, c) ==
  /\ \A t \in Slots \ {s} : cmd'[t] = cmd[t]
  /\ cmd'[s].kind = cmd[s].kind /\ cmd'[s].at = l /\ cmd'[s].name = n /\ cmd'[s].data = d
  /\ cmd'[s].list = q /\ cmd'[s].src = c

MoveTurns(s, l) == Turns(s, l, cmd[s].name, cmd[s].data, cmd[s].list, cmd[s].src)

LEMMA MoveIs ==
  ASSUME BackupInv, NEW s \in Slots, NEW l, Move(s, l)
  PROVE  MoveTurns(s, l)
<1> DEFINE c == [cmd[s] EXCEPT !.at = l]
<1>1. c = [cmd[s] EXCEPT !.at = l] /\ IsCommand(cmd[s]) /\ DOMAIN cmd = Slots
  BY DEF BackupInv, BackupShape
<1>2. cmd' = [cmd EXCEPT ![s] = c]
  BY DEF Move
<1> HIDE DEF c
<1>3. c.kind = cmd[s].kind /\ c.at = l /\ c.name = cmd[s].name /\ c.data = cmd[s].data
      /\ c.list = cmd[s].list /\ c.src = cmd[s].src
  BY <1>1 DEF IsCommand
<1> QED
  BY <1>1, <1>2, <1>3 DEF MoveTurns, Turns

LEMMA ReadSourceIs ==
  ASSUME BackupInv, NEW s \in Slots, ReadSource(s)
  PROVE  Turns(s, "read", cmd[s].name, cmd[s].data, cmd[s].list, config)
<1> DEFINE c == [cmd[s] EXCEPT !.at = "read", !.src = config]
<1>1. c = [cmd[s] EXCEPT !.at = "read", !.src = config] /\ IsCommand(cmd[s]) /\ DOMAIN cmd = Slots
  BY DEF BackupInv, BackupShape
<1>2. cmd' = [cmd EXCEPT ![s] = c]
  BY <1>1 DEF ReadSource
<1> HIDE DEF c
<1>3. c.kind = cmd[s].kind /\ c.at = "read" /\ c.name = cmd[s].name /\ c.data = cmd[s].data
      /\ c.list = cmd[s].list /\ c.src = config
  BY <1>1 DEF IsCommand
<1> QED
  BY <1>1, <1>2, <1>3 DEF Turns

Sealed(s) == [content |-> cmd[s].src, nonce |-> nonce + 1]

LEMMA OpenBackupIs ==
  ASSUME BackupInv, NEW s \in Slots, OpenBackup(s)
  PROVE  Turns(s, "opened", now, Sealed(s), cmd[s].list, cmd[s].src)
<1> DEFINE d == Sealed(s)
           c == [cmd[s] EXCEPT !.at = "opened", !.name = now, !.data = d]
<1>1. /\ c = [cmd[s] EXCEPT !.at = "opened", !.name = now, !.data = d]
      /\ IsCommand(cmd[s]) /\ DOMAIN cmd = Slots
  BY DEF BackupInv, BackupShape
<1>2. cmd' = [cmd EXCEPT ![s] = c]
  BY <1>1 DEF OpenBackup, Sealed
<1> HIDE DEF c, d
<1>3. c.kind = cmd[s].kind /\ c.at = "opened" /\ c.name = now /\ c.data = d
      /\ c.list = cmd[s].list /\ c.src = cmd[s].src
  BY <1>1 DEF IsCommand
<1> QED
  BY <1>1, <1>2, <1>3 DEF Turns, d

Surplus == SubSeq(order, MaxFiles + 1, Len(order))

LEMMA ListSurplusIs ==
  ASSUME BackupInv, NEW s \in Slots, ListSurplus(s)
  PROVE  Turns(s, "pruning", cmd[s].name, cmd[s].data, Surplus, cmd[s].src)
<1> DEFINE q == Surplus
           c == [cmd[s] EXCEPT !.at = "pruning", !.list = q]
<1>1. c = [cmd[s] EXCEPT !.at = "pruning", !.list = q] /\ IsCommand(cmd[s]) /\ DOMAIN cmd = Slots
  BY DEF BackupInv, BackupShape
<1>2. cmd' = [cmd EXCEPT ![s] = c]
  BY <1>1 DEF ListSurplus, Surplus
<1> HIDE DEF c, q
<1>3. c.kind = cmd[s].kind /\ c.at = "pruning" /\ c.name = cmd[s].name /\ c.data = cmd[s].data
      /\ c.list = q /\ c.src = cmd[s].src
  BY <1>1 DEF IsCommand
<1> QED
  BY <1>1, <1>2, <1>3 DEF Turns, q

LEMMA PruneIs ==
  ASSUME BackupInv, NEW s \in Slots, Prune(s)
  PROVE  Turns(s, "pruning", cmd[s].name, cmd[s].data, Tail(cmd[s].list), cmd[s].src)
<1> DEFINE q == Tail(cmd[s].list)
           c == [cmd[s] EXCEPT !.list = q]
<1>1. c = [cmd[s] EXCEPT !.list = q] /\ IsCommand(cmd[s]) /\ DOMAIN cmd = Slots
      /\ cmd[s].at = "pruning"
  BY DEF BackupInv, BackupShape, Prune, At
<1>2. cmd' = [cmd EXCEPT ![s] = c]
  BY <1>1 DEF Prune
<1> HIDE DEF c, q
<1>3. c.kind = cmd[s].kind /\ c.at = "pruning" /\ c.name = cmd[s].name /\ c.data = cmd[s].data
      /\ c.list = q /\ c.src = cmd[s].src
  BY <1>1 DEF IsCommand
<1> QED
  BY <1>1, <1>2, <1>3 DEF Turns, q

LEMMA ListBackupsIs ==
  ASSUME BackupInv, NEW s \in Slots, ListBackups(s)
  PROVE  Turns(s, "done", cmd[s].name, cmd[s].data, order, cmd[s].src)
<1> DEFINE c == [cmd[s] EXCEPT !.at = "done", !.list = order]
<1>1. c = [cmd[s] EXCEPT !.at = "done", !.list = order] /\ IsCommand(cmd[s]) /\ DOMAIN cmd = Slots
  BY DEF BackupInv, BackupShape
<1>2. cmd' = [cmd EXCEPT ![s] = c]
  BY <1>1 DEF ListBackups
<1> HIDE DEF c
<1>3. c.kind = cmd[s].kind /\ c.at = "done" /\ c.name = cmd[s].name /\ c.data = cmd[s].data
      /\ c.list = order /\ c.src = cmd[s].src
  BY <1>1 DEF IsCommand
<1> QED
  BY <1>1, <1>2, <1>3 DEF Turns

\* A restore is still one, whatever it has read.
LEMMA RestoreIs ==
  ASSUME BackupInv, NEW s \in Slots,
         \/ FindBackup(s) \/ ReadBackup(s) \/ VerifyChecksum(s) \/ ReplaceTarget(s) \/ LoadRestored(s) \/ ApplyRestored(s)
  PROVE  /\ cmd[s].kind = "restore" /\ cmd'[s].kind = "restore"
         /\ \A t \in Slots \ {s} : cmd'[t] = cmd[t]
         /\ UNCHANGED <<store, now, page, nonce, gone, clash, hasty>>
<1>1. Pursued(s)
  BY RunPursues DEF Run
<1> QED
  BY <1>1 DEF Pursued, FindBackup, ReadBackup, VerifyChecksum, ReplaceTarget, LoadRestored, ApplyRestored, Reloaded, At,
     Aside

-----------------------------------------------------------------------------
(* What the page shows, and what retention is about, for a user who waits. *)

NoneIsIdle == \A s \in Slots : cmd[s].kind = "none" => cmd[s] = Idle

\* The list that is shown, or is about to be, is that of the directory.
Shown ==
  hasty = 0 /\ failed = {} =>
    /\ view = "backup" /\ (\A s \in Slots : cmd[s].kind \in {"none", "restore"}) => list = order
    /\ \A s \in Slots :
         /\ At(s, "list", "done") \/ At(s, "delete", "done") => cmd[s].list = order
         /\ cmd[s].at = "failed" => cmd[s].kind = "restore"

\* What is still to be removed is what comes after the newest MaxFiles.
Superfluous ==
  hasty = 0 => \A s \in Slots : At(s, "create", "pruning") => cmd[s].list = Surplus

WaitInv == BackupInv /\ CalmInv /\ TypeInv /\ NoneIsIdle

LEMMA OthersAreIdle ==
  ASSUME WaitInv, hasty = 0, NEW s \in Slots, cmd[s] # Idle
  PROVE  \A t \in Slots \ {s} : cmd[t] = Idle
BY DEF WaitInv, CalmInv, Calm

LEMMA RunIsOfACommand ==
  ASSUME WaitInv, NEW s \in Slots, Run(s)
  PROVE  cmd[s].kind # "none" /\ cmd[s] # Idle
<1>1. cmd[s].kind # "none"
  BY DEF Run, ReadSource, IsDuplicateContent, OpenBackup, WriteBackup, SaveChecksum, SaveLastHash,
     ListSurplus, Prune, EnforcePolicyEnds, ListBackups, DeleteBackup, FindBackup, ReadBackup,
     VerifyChecksum, ReplaceTarget, LoadRestored, ApplyRestored, Reloaded, At
<1> QED
  BY <1>1, IdleIs

\* The keys of a user who waits find everything at rest.
LEMMA PressIs ==
  ASSUME WaitInv, Press
  PROVE  /\ UNCHANGED <<source, now, store, nonce, failed, gone, clash, list>>
         /\ hasty' \in {hasty, hasty + 1} /\ (hasty' = hasty => AtRest)
         /\ \/ cmd' = cmd
            \/ \E s \in Slots : /\ cmd[s] = Idle /\ \A t \in Slots \ {s} : cmd'[t] = cmd[t]
                                /\ cmd'[s].kind \in {"list", "create", "restore", "delete"}
                                /\ cmd'[s].at = "start"
                                /\ OpenPage => cmd'[s].kind = "list"
<1>1. Key
  BY DEF Press, OpenPage, AskCreate, Choose, Select, Yes, Refuse, Escape
<1>2. UNCHANGED <<source, now, store, nonce, failed, gone, clash, list>>
  BY <1>1 DEF Key, Press, OpenPage, AskCreate, Choose, Select, Yes, Refuse, Escape, page
<1>3. hasty' \in {hasty, hasty + 1} /\ (hasty' = hasty => AtRest)
  <2>1. hasty \in Nat
    BY DEF WaitInv, BackupInv, BackupShape
  <2> QED
    BY <1>1, <2>1 DEF Key
<1>4. \/ cmd' = cmd /\ ~OpenPage
      \/ \E k \in {"list", "create", "restore", "delete"} : \E i, n, a :
           Start(k, i, n, a) /\ (OpenPage => k = "list")
  <2>1. CASE OpenPage
    BY <2>1 DEF OpenPage
  <2>2. CASE ~OpenPage
    BY <2>2 DEF Press, AskCreate, Choose, Select, Yes, Refuse, Escape, page
  <2> QED
    BY <2>1, <2>2
<1>5. ASSUME NEW k \in {"list", "create", "restore", "delete"}, NEW i, NEW n, NEW a,
             Start(k, i, n, a), OpenPage => k = "list"
      PROVE  \E s \in Slots : /\ cmd[s] = Idle /\ \A t \in Slots \ {s} : cmd'[t] = cmd[t]
                              /\ cmd'[s].kind \in {"list", "create", "restore", "delete"}
                              /\ cmd'[s].at = "start"
                              /\ OpenPage => cmd'[s].kind = "list"
  <2> DEFINE c == Started(k, i, n, a)
  <2>1. c = [Idle EXCEPT !.kind = k, !.at = "start", !.index = i, !.name = n, !.asked = a]
    BY DEF Started
  <2>2. PICK s \in Slots : Goes(s) /\ cmd[s] = Idle /\ cmd'[s] = c
    BY <1>5, StartGoes DEF WaitInv
  <2> HIDE DEF c
  <2>3. c.kind = k /\ c.at = "start"
    BY <2>1, IdleIs DEF IsCommand
  <2> QED
    BY <1>5, <2>2, <2>3 DEF Goes
<1> QED
  BY <1>2, <1>3, <1>4, <1>5

LEMMA UpdateIs ==
  ASSUME WaitInv, NEW s \in Slots, Update(s)
  PROVE  /\ UNCHANGED <<source, now, store, nonce, failed, gone, clash, hasty, view>>
         /\ \A t \in Slots \ {s} : cmd'[t] = cmd[t]
         /\ cmd[s] # Idle
         /\ \/ BackupListed(s) /\ cmd'[s] = Idle /\ list' = cmd[s].list
            \/ BackupCreated(s) /\ cmd'[s].kind = "list" /\ cmd'[s].at = "start" /\ list' = list
            \/ StatusOnly(s) /\ cmd'[s] = Idle /\ list' = list
<1>1. UNCHANGED <<source, now, store, nonce, failed, gone, clash, hasty, view>>
  BY DEF Update, BackupListed, BackupCreated, StatusOnly, Still, history
<1>2. DOMAIN cmd = Slots
  BY DEF WaitInv, BackupInv, BackupShape
<1>3. cmd[s].at # "idle"
  BY DEF Update, BackupListed, BackupCreated, StatusOnly, At
<1>4. ASSUME BackupCreated(s) PROVE cmd'[s].kind = "list" /\ cmd'[s].at = "start"
  <2> DEFINE c == [Idle EXCEPT !.kind = "list", !.at = "start"]
  <2>1. c = [Idle EXCEPT !.kind = "list", !.at = "start"]
    OBVIOUS
  <2>2. cmd'[s] = c
    BY <1>2, <1>4 DEF BackupCreated
  <2> HIDE DEF c
  <2> QED
    BY <2>1, <2>2, IdleIs DEF IsCommand
<1> QED
  BY <1>1, <1>2, <1>3, <1>4, IdleIs DEF Update, BackupListed, BackupCreated, StatusOnly, End

LEMMA NoneIsIdleStep == ASSUME WaitInv, [Next]_vars PROVE NoneIsIdle'
<1>1. CASE cmd' = cmd
  BY <1>1 DEF WaitInv, NoneIsIdle
<1>2. ASSUME NEW s \in Slots, Run(s) PROVE NoneIsIdle'
  BY <1>2, RunPursues, RunIsOfACommand DEF Pursued, WaitInv, NoneIsIdle
<1>3. ASSUME NEW s \in Slots, Update(s) PROVE NoneIsIdle'
  BY <1>3, UpdateIs DEF WaitInv, NoneIsIdle
<1>4. CASE Press
  BY <1>1, <1>4, PressIs DEF WaitInv, NoneIsIdle
<1>5. CASE Crash
  BY <1>5 DEF Crash, NoneIsIdle
<1>6. CASE (\E c \in Contents : EditConfig(c)) \/ ApplyEdited \/ Tick \/ UNCHANGED vars
  BY <1>1, <1>6 DEF EditConfig, ApplyEdited, Tick, vars
<1> QED
  BY <1>2, <1>3, <1>4, <1>5, <1>6 DEF Next

LEMMA CalmInvStep == ASSUME BackupInv, CalmInv, [Next]_vars PROVE CalmInv'
BY RunKeepsCalm, UpdateKeepsCalm, PressKeepsCalm, RestKeepsCalm DEF Next

LEMMA WaitInvStep == ASSUME WaitInv, [Next]_vars PROVE WaitInv'
BY BackupInvStep, CalmInvStep, TypeInvStep, NoneIsIdleStep DEF WaitInv

LEMMA WaitInvInit == Init => WaitInv
BY BackupInvInit, CalmInvInit, TypeInvInit DEF WaitInv, NoneIsIdle, Init

LEMMA ShownAfterRun == ASSUME WaitInv, Shown, NEW s \in Slots, Run(s) PROVE Shown'
<1> SUFFICES ASSUME hasty' = 0, failed' = {} PROVE Shown'
  BY DEF Shown
<1>0. BackupInv /\ cmd[s] # Idle /\ cmd[s].kind # "none"
  BY RunIsOfACommand DEF WaitInv
<1>1. hasty = 0 /\ UNCHANGED <<view, list>>
  BY DEF Run, ReadSource, IsDuplicateContent, OpenBackup, WriteBackup, SaveChecksum, SaveLastHash,
     ListSurplus, Prune, EnforcePolicyEnds, ListBackups, DeleteBackup, FindBackup, ReadBackup,
     VerifyChecksum, ReplaceTarget, LoadRestored, ApplyRestored, Reloaded, Unseen, Aside, page
<1>2. failed = {}
  BY DEF Run, ReadSource, IsDuplicateContent, OpenBackup, WriteBackup, SaveChecksum, SaveLastHash,
     ListSurplus, Prune, EnforcePolicyEnds, ListBackups, DeleteBackup, FindBackup, ReadBackup,
     VerifyChecksum, ReplaceTarget, LoadRestored, ApplyRestored, Reloaded, Fail
<1>3. \A t \in Slots \ {s} : cmd[t] = Idle /\ cmd'[t] = Idle
  BY <1>0, <1>1, OthersAreIdle, RunPursues DEF Pursued
<1>4. \A t \in Slots \ {s} : /\ cmd'[t].kind = "none"
                             /\ ~(At(t, "list", "done") \/ At(t, "delete", "done"))'
                             /\ cmd'[t].at # "failed"
  BY <1>3, IdleIs DEF At
<1>5. ASSUME cmd'[s].kind \in {"create", "list", "delete"},
             (At(s, "list", "done") \/ At(s, "delete", "done"))' => cmd'[s].list = order',
             cmd'[s].at # "failed"
      PROVE  Shown'
  BY <1>4, <1>5 DEF Shown
<1>6. ASSUME NEW l \in {"done", "new", "filled", "summed", "hashed"}, Move(s, l),
             cmd[s].kind = "create"
      PROVE  Shown'
  BY <1>0, <1>5, <1>6, MoveIs DEF MoveTurns, Turns, At
<1>7. CASE ReadSource(s)
  BY <1>0, <1>5, <1>7, ReadSourceIs DEF Turns, At, ReadSource
<1>8. CASE OpenBackup(s)
  BY <1>0, <1>5, <1>8, OpenBackupIs DEF Turns, At, OpenBackup
<1>9. CASE ListSurplus(s)
  BY <1>0, <1>5, <1>9, ListSurplusIs DEF Turns, At, ListSurplus
<1>10. CASE Prune(s)
  BY <1>0, <1>5, <1>10, PruneIs DEF Turns, At, Prune
<1>11. CASE IsDuplicateContent(s) \/ WriteBackup(s) \/ SaveChecksum(s) \/ SaveLastHash(s)
            \/ EnforcePolicyEnds(s)
  BY <1>2, <1>6, <1>11 DEF IsDuplicateContent, WriteBackup, SaveChecksum, SaveLastHash,
     EnforcePolicyEnds, At, Fail
<1>12. CASE ListBackups(s)
  <2>1. UNCHANGED order
    BY <1>12 DEF ListBackups, store
  <2> QED
    BY <1>0, <1>5, <1>12, <2>1, ListBackupsIs DEF Turns, At, ListBackups
<1>13. CASE DeleteBackup(s)
  <2>1. Move(s, "removed") /\ cmd[s].kind = "delete"
    BY <1>13 DEF DeleteBackup, At
  <2> QED
    BY <1>0, <1>5, <2>1, MoveIs DEF MoveTurns, Turns, At
<1>14. CASE FindBackup(s) \/ ReadBackup(s) \/ VerifyChecksum(s) \/ ReplaceTarget(s)
            \/ LoadRestored(s) \/ ApplyRestored(s)
  <2>1. cmd[s].kind = "restore" /\ cmd'[s].kind = "restore" /\ UNCHANGED order
    BY <1>0, <1>14, RestoreIs DEF store
  <2>2. \A t \in Slots : cmd[t].kind \in {"none", "restore"}
    BY <1>3, <2>1, IdleIs
  <2> QED
    BY <1>1, <1>2, <1>4, <2>1, <2>2 DEF Shown, At
<1> QED
  BY <1>7, <1>8, <1>9, <1>10, <1>11, <1>12, <1>13, <1>14 DEF Run

LEMMA ShownStep == ASSUME WaitInv, Shown, [Next]_vars PROVE Shown'
<1>1. ASSUME NEW s \in Slots, Update(s) PROVE Shown'
  <2> SUFFICES ASSUME hasty' = 0, failed' = {} PROVE Shown'
    BY DEF Shown
  <2>1. /\ hasty = 0 /\ failed = {} /\ UNCHANGED <<order, view>> /\ cmd[s] # Idle
        /\ \A t \in Slots \ {s} : cmd[t] = Idle /\ cmd'[t] = Idle
    BY <1>1, UpdateIs, OthersAreIdle DEF store
  <2>2. ASSUME NEW t \in Slots \ {s}
        PROVE  /\ cmd[t].kind = "none" /\ cmd'[t].kind = "none"
               /\ ~(At(t, "list", "done") \/ At(t, "delete", "done"))' /\ cmd'[t].at # "failed"
    BY <2>1, IdleIs DEF At
  <2>3. CASE BackupListed(s) /\ cmd'[s] = Idle /\ list' = cmd[s].list
    <3>1. list' = order'
      BY <2>1, <2>3 DEF Shown, BackupListed
    <3> QED
      BY <2>2, <2>3, <3>1, IdleIs DEF Shown, At
  <2>4. CASE cmd'[s].kind = "list" /\ cmd'[s].at = "start"
    BY <2>2, <2>4 DEF Shown, At
  <2>5. CASE StatusOnly(s) /\ cmd'[s] = Idle /\ list' = list
    <3>1. cmd[s].kind = "restore"
      BY <2>1, <2>5 DEF Shown, StatusOnly, At
    <3>2. view' = "backup" => list' = order'
      BY <2>1, <2>2, <2>5, <3>1 DEF Shown
    <3> QED
      BY <2>2, <2>5, <3>2, IdleIs DEF Shown, At
  <2> QED
    BY <1>1, <2>3, <2>4, <2>5, UpdateIs
<1>2. CASE Press
  <2> SUFFICES ASSUME hasty' = 0, failed' = {} PROVE Shown'
    BY DEF Shown
  <2>1. hasty = 0 /\ failed = {} /\ AtRest /\ UNCHANGED <<order, list>>
    <3>1. hasty \in Nat
      BY DEF WaitInv, BackupInv, BackupShape
    <3> QED
      BY <1>2, <3>1, PressIs DEF store
  <2>2. \A t \in Slots : cmd[t] = Idle /\ cmd[t].kind = "none" /\ cmd[t].at = "idle"
    BY <2>1, IdleIs DEF AtRest, FreeSlots
  <2>3. view = "backup" => list = order
    BY <2>1, <2>2 DEF Shown
  <2>4. view' = "backup" /\ ~OpenPage => view = "backup"
    BY <1>2 DEF Press, AskCreate, Choose, Select, Yes, Refuse, Escape, page
  <2>5. OpenPage => cmd' # cmd
    <3>1. ASSUME OpenPage PROVE \E s \in Slots : cmd[s] = Idle /\ cmd'[s].kind = "list"
      <4>1. PICK s \in Slots : Goes(s) /\ cmd[s] = Idle
                               /\ cmd'[s] = Started("list", 0, NoName, NoName)
        BY <3>1, StartGoes DEF OpenPage, WaitInv
      <4> DEFINE c == Started("list", 0, NoName, NoName)
      <4>2. c = [Idle EXCEPT !.kind = "list", !.at = "start", !.index = 0, !.name = NoName,
                             !.asked = NoName]
        BY DEF Started
      <4> HIDE DEF c
      <4>3. c.kind = "list"
        BY <4>2, IdleIs DEF IsCommand
      <4> QED
        BY <4>1, <4>3 DEF c
    <3> QED
      BY <3>1, IdleIs
  <2>6. CASE cmd' = cmd
    BY <2>1, <2>2, <2>3, <2>4, <2>5, <2>6 DEF Shown, At
  <2>7. CASE \E s \in Slots : /\ cmd[s] = Idle /\ \A t \in Slots \ {s} : cmd'[t] = cmd[t]
                              /\ cmd'[s].kind \in {"list", "create", "restore", "delete"}
                              /\ cmd'[s].at = "start"
                              /\ OpenPage => cmd'[s].kind = "list"
    <3>1. PICK s \in Slots : /\ cmd[s] = Idle /\ \A t \in Slots \ {s} : cmd'[t] = cmd[t]
                             /\ cmd'[s].kind \in {"list", "create", "restore", "delete"}
                             /\ cmd'[s].at = "start"
                             /\ OpenPage => cmd'[s].kind = "list"
      BY <2>7
    <3>2. \A t \in Slots : cmd'[t].at \in {"idle", "start"}
      BY <2>2, <3>1
    <3>3. view' = "backup" /\ (\A t \in Slots : cmd'[t].kind \in {"none", "restore"})
            => list' = order'
      BY <2>1, <2>3, <2>4, <3>1
    <3> QED
      BY <3>2, <3>3 DEF Shown, At
  <2> QED
    BY <1>2, <2>6, <2>7, PressIs
<1>3. CASE Crash
  BY <1>3 DEF Crash, Fail, Shown
<1>4. CASE (\E c \in Contents : EditConfig(c)) \/ ApplyEdited \/ Tick \/ UNCHANGED vars
  BY <1>4 DEF EditConfig, ApplyEdited, Tick, vars, store, page, history, Shown, At
<1> QED
  BY <1>1, <1>2, <1>3, <1>4, ShownAfterRun DEF Next

LEMMA ShownInit == Init => Shown
BY IdleIs DEF Init, Shown, At

\* A user who waits and looks at the page sees the backups there are, unless one
\* has failed (router.go:486-520).
THEOREM ThePageIsCurrent == Spec => []ListIsCurrent
<1>1. Init => WaitInv /\ Shown
  BY WaitInvInit, ShownInit
<1>2. WaitInv /\ Shown /\ [Next]_vars => (WaitInv /\ Shown)'
  BY WaitInvStep, ShownStep
<1>3. Shown => ListIsCurrent
  BY IdleIs DEF Shown, ListIsCurrent, AtRest, FreeSlots
<1> QED
  BY <1>1, <1>2, <1>3, PTL DEF Spec

LEMMA SameLists ==
  ASSUME NEW u \in Lists, NEW v \in Lists, Len(u) = Len(v), \A i \in 1 .. Len(u) : u[i] = v[i]
  PROVE  u = v
<1>1. u \in Seq(Names) /\ v \in Seq(Names)
  BY ListFacts
<1> QED
  BY <1>1

\* The name that is removed is the one after the newest MaxFiles.
LEMMA PruneTakesTheNext ==
  ASSUME WaitInv, NEW s \in Slots, Prune(s), cmd[s].list = Surplus
  PROVE  /\ Tail(cmd[s].list) = Surplus'
         /\ \A i \in DOMAIN order : i <= MaxFiles => i \in DOMAIN order' /\ order'[i] = order[i]
<1> DEFINE M == MaxFiles + 1
           L == cmd[s].list
           n == Head(L)
<1>1. order \in Lists /\ MaxFiles \in Nat \ {0} /\ M \in Nat \ {0}
  BY BackupConstants DEF WaitInv, TypeInv, FilesOK
<1>2. L = SubSeq(order, M, Len(order)) /\ L # <<>> /\ order' = RemoveFirst(order, n)
  BY DEF Prune, Unlink, Surplus
<1> HIDE DEF L, M
<1>3. /\ L \in Lists /\ Len(L) = IF M <= Len(order) THEN Len(order) - M + 1 ELSE 0
      /\ \A i \in 1 .. Len(L) : L[i] = order[M + i - 1]
  <2>1. order \in Lists /\ M \in Nat \ {0} /\ L = SubSeq(order, M, Len(order))
    BY <1>1, <1>2
  <2> QED
    BY ONLY <2>1, RestIs
<1>4. Len(order) \in Nat /\ DOMAIN order = 1 .. Len(order) /\ Len(L) \in Nat \ {0}
      /\ L \in Seq(Names)
  BY <1>1, <1>2, <1>3, ListFacts
<1>5. M \in 1 .. Len(order) /\ n = order[M]
  <2>1. M \in 1 .. Len(order)
    BY <1>1, <1>3, <1>4
  <2>2. n = L[1] /\ L[1] = order[M + 1 - 1] /\ M + 1 - 1 = M
    BY <1>1, <1>3, <1>4
  <2> QED
    BY <2>1, <2>2
<1> HIDE DEF n
<1>6. /\ order' \in Lists /\ Len(order') = Len(order) - 1
      /\ \A i \in 1 .. Len(order') : order'[i] = IF i < M THEN order[i] ELSE order[i + 1]
  <2>1. order \in Lists /\ M \in 1 .. Len(order) /\ order' = RemoveFirst(order, order[M])
    BY <1>1, <1>2, <1>5
  <2> QED
    BY ONLY <2>1, WithoutOne
<1>7. DOMAIN order' = 1 .. Len(order')
  BY <1>6, ListFacts
<1>8. \A i \in DOMAIN order : i <= MaxFiles => i \in DOMAIN order' /\ order'[i] = order[i]
  <2>1. MaxFiles < M
    BY <1>1 DEF M
  <2> QED
    BY <1>1, <1>4, <1>5, <1>6, <1>7, <2>1
<1> DEFINE u == Tail(L)
           v == SubSeq(order', M, Len(order'))
<1>9. u \in Lists /\ Len(u) = Len(L) - 1 /\ \A i \in 1 .. Len(u) : u[i] = L[i + 1]
  <2>1. Tail(L) \in Lists
    BY <1>2, <1>3, TailIs
  <2>2. Len(Tail(L)) = Len(L) - 1 /\ \A i \in 1 .. Len(Tail(L)) : Tail(L)[i] = L[i + 1]
    BY <1>4
  <2> QED
    BY <2>1, <2>2
<1>10. /\ v \in Lists /\ Len(v) = IF M <= Len(order') THEN Len(order') - M + 1 ELSE 0
       /\ \A i \in 1 .. Len(v) : v[i] = order'[M + i - 1]
  <2>1. order' \in Lists /\ M \in Nat \ {0} /\ v = SubSeq(order', M, Len(order'))
    BY <1>1, <1>6
  <2> HIDE DEF v
  <2> QED
    BY ONLY <2>1, RestIs
<1> HIDE DEF u, v
<1>11. Len(u) = Len(v)
  <2>1. M \in Nat \ {0} /\ M <= Len(order) /\ Len(order) \in Nat /\ Len(order') = Len(order) - 1
    BY <1>1, <1>4, <1>5, <1>6
  <2>2. Len(u) = (Len(order) - M + 1) - 1
    BY <1>3, <1>9, <2>1
  <2>3. Len(v) = IF M <= Len(order') THEN Len(order') - M + 1 ELSE 0
    BY <1>10
  <2> QED
    BY ONLY <2>1, <2>2, <2>3
<1>12. ASSUME NEW i \in 1 .. Len(u) PROVE u[i] = v[i]
  <2>1. i + 1 \in 1 .. Len(L) /\ i \in 1 .. Len(v) /\ i \in Nat \ {0}
    BY <1>4, <1>9, <1>11
  <2>2. u[i] = order[M + (i + 1) - 1]
    BY <1>3, <1>9, <2>1
  <2>3. M + i - 1 \in 1 .. Len(order') /\ ~(M + i - 1 < M) /\ M + (i + 1) - 1 = (M + i - 1) + 1
    <3>1. Len(order') \in Nat /\ M \in Nat \ {0} /\ i \in Nat \ {0} /\ i <= Len(v)
      BY <1>1, <1>6, <1>10, <2>1, ListFacts
    <3>2. Len(v) = IF M <= Len(order') THEN Len(order') - M + 1 ELSE 0
      BY <1>10
    <3> QED
      BY ONLY <3>1, <3>2
  <2>4. v[i] = order[(M + i - 1) + 1]
    BY <1>6, <1>10, <2>1, <2>3
  <2> QED
    BY <2>2, <2>3, <2>4
<1>13. u = v
  BY <1>9, <1>10, <1>11, <1>12, SameLists
<1> QED
  BY <1>8, <1>13 DEF u, v, L, M, Surplus

LEMMA SurplusStays == ASSUME UNCHANGED order PROVE Surplus' = Surplus
BY DEF Surplus

LEMMA SuperfluousAfterRun ==
  ASSUME WaitInv, Superfluous, NEW s \in Slots, Run(s)
  PROVE  Superfluous'
<1> SUFFICES ASSUME hasty' = 0, At(s, "create", "pruning")' PROVE cmd'[s].list = Surplus'
  <2> SUFFICES ASSUME hasty' = 0, NEW t \in Slots, At(t, "create", "pruning")'
               PROVE  cmd'[t].list = Surplus'
    BY DEF Superfluous
  <2>1. UNCHANGED hasty
    BY DEF Run, ReadSource, IsDuplicateContent, OpenBackup, WriteBackup, SaveChecksum,
       SaveLastHash, ListSurplus, Prune, EnforcePolicyEnds, ListBackups, DeleteBackup, FindBackup,
       ReadBackup, VerifyChecksum, ReplaceTarget, LoadRestored, ApplyRestored, Reloaded, Unseen, Aside
  <2>2. \A u \in Slots \ {s} : cmd[u] = Idle /\ cmd'[u] = Idle
    BY <2>1, OthersAreIdle, RunIsOfACommand, RunPursues DEF Pursued, WaitInv
  <2>3. t = s
    BY <2>2, IdleIs DEF At
  <2> QED
    BY <2>3
<1>0. BackupInv /\ hasty = 0
  BY DEF WaitInv, Run, ReadSource, IsDuplicateContent, OpenBackup, WriteBackup, SaveChecksum,
     SaveLastHash, ListSurplus, Prune, EnforcePolicyEnds, ListBackups, DeleteBackup, FindBackup,
     ReadBackup, VerifyChecksum, ReplaceTarget, LoadRestored, ApplyRestored, Reloaded, Unseen, Aside
<1>1. CASE ListSurplus(s)
  BY <1>0, <1>1, ListSurplusIs, SurplusStays DEF ListSurplus, store, Turns
<1>2. CASE Prune(s)
  <2>1. cmd[s].list = Surplus
    BY <1>0, <1>2 DEF Superfluous, Prune
  <2> QED
    BY <1>0, <1>2, <2>1, PruneIs, PruneTakesTheNext DEF Turns
<1>3. \A l : Move(s, l) => l = "pruning"
  BY <1>0, MoveIs DEF MoveTurns, Turns, At
<1>4. ~ReadSource(s) /\ ~OpenBackup(s)
  BY <1>0, ReadSourceIs, OpenBackupIs DEF Turns, At
<1>5. ~IsDuplicateContent(s) /\ ~WriteBackup(s) /\ ~SaveChecksum(s) /\ ~SaveLastHash(s)
      /\ ~EnforcePolicyEnds(s)
  BY <1>3 DEF IsDuplicateContent, WriteBackup, SaveChecksum, SaveLastHash, EnforcePolicyEnds
<1>6. ~ListBackups(s) /\ ~DeleteBackup(s)
  BY <1>0, <1>3, ListBackupsIs DEF Turns, At, DeleteBackup
<1>7. ~(FindBackup(s) \/ ReadBackup(s) \/ VerifyChecksum(s) \/ ReplaceTarget(s) \/ LoadRestored(s) \/ ApplyRestored(s))
  BY <1>0, RestoreIs DEF At
<1> QED
  BY <1>1, <1>2, <1>4, <1>5, <1>6, <1>7 DEF Run

LEMMA SuperfluousStep == ASSUME WaitInv, Superfluous, [Next]_vars PROVE Superfluous'
<1>1. ASSUME NEW s \in Slots, Update(s) PROVE Superfluous'
  <2>1. UNCHANGED <<hasty, order>> /\ \A t \in Slots \ {s} : cmd'[t] = cmd[t]
    BY <1>1, UpdateIs DEF store
  <2>2. ~At(s, "create", "pruning")'
    BY <1>1, UpdateIs, IdleIs DEF At
  <2> QED
    BY <2>1, <2>2, SurplusStays DEF Superfluous, At
<1>2. CASE Press
  <2> SUFFICES ASSUME hasty' = 0 PROVE Superfluous'
    BY DEF Superfluous
  <2>1. AtRest /\ UNCHANGED order
    <3>1. hasty \in Nat
      BY DEF WaitInv, BackupInv, BackupShape
    <3> QED
      BY <1>2, <3>1, PressIs DEF store
  <2>2. \A t \in Slots : cmd[t] = Idle
    BY <2>1 DEF AtRest, FreeSlots
  <2>3. \A t \in Slots : cmd'[t] = Idle \/ cmd'[t].at = "start"
    BY <1>2, <2>2, PressIs
  <2> QED
    BY <2>3, IdleIs DEF Superfluous, At
<1>3. CASE Crash
  BY <1>3, IdleIs DEF Crash, Superfluous, At
<1>4. CASE (\E c \in Contents : EditConfig(c)) \/ ApplyEdited \/ Tick \/ UNCHANGED vars
  BY <1>4, SurplusStays DEF EditConfig, ApplyEdited, Tick, vars, store, history, Superfluous, At
<1> QED
  BY <1>1, <1>2, <1>3, <1>4, SuperfluousAfterRun DEF Next

LEMMA SuperfluousInit == Init => Superfluous
BY IdleIs DEF Init, Superfluous, At

\* A step of retention.
LEMMA NewestStay ==
  ASSUME WaitInv, Superfluous, [Next]_vars, hasty' = 0, NEW s \in Slots,
         At(s, "create", "pruning")
  PROVE  /\ \A i \in DOMAIN order : i <= MaxFiles => i \in DOMAIN order' /\ order'[i] = order[i]
         /\ cmd'[s].at = "done" => Len(order') <= MaxFiles
<1>0. cmd[s] # Idle /\ BackupInv
  BY IdleIs DEF At, WaitInv
<1>1. ASSUME UNCHANGED order, cmd'[s].at = "done" => cmd[s].list = <<>> /\ hasty = 0
      PROVE  /\ \A i \in DOMAIN order : i <= MaxFiles =>
                  i \in DOMAIN order' /\ order'[i] = order[i]
             /\ cmd'[s].at = "done" => Len(order') <= MaxFiles
  <2>1. ASSUME cmd'[s].at = "done" PROVE Len(order) <= MaxFiles
    <3>1. order \in Lists /\ MaxFiles \in Nat \ {0} /\ MaxFiles + 1 \in Nat \ {0}
      BY BackupConstants DEF WaitInv, TypeInv, FilesOK
    <3>2. Surplus = <<>>
      BY <1>1, <2>1 DEF Superfluous
    <3>3. Len(Surplus) = 0
      BY <3>2
    <3>4. Len(Surplus) = IF MaxFiles + 1 <= Len(order) THEN Len(order) - (MaxFiles + 1) + 1 ELSE 0
      BY <3>1, RestIs DEF Surplus
    <3>5. Len(order) \in Nat
      BY <3>1, ListFacts
    <3> QED
      BY <3>1, <3>3, <3>4, <3>5
  <2> QED
    BY <1>1, <2>1
<1>2. ASSUME NEW t \in Slots, Run(t)
      PROVE  /\ \A i \in DOMAIN order : i <= MaxFiles =>
                  i \in DOMAIN order' /\ order'[i] = order[i]
             /\ cmd'[s].at = "done" => Len(order') <= MaxFiles
  <2>1. UNCHANGED hasty
    BY <1>2 DEF Run, ReadSource, IsDuplicateContent, OpenBackup, WriteBackup, SaveChecksum,
       SaveLastHash, ListSurplus, Prune, EnforcePolicyEnds, ListBackups, DeleteBackup, FindBackup,
       ReadBackup, VerifyChecksum, ReplaceTarget, LoadRestored, ApplyRestored, Reloaded, Unseen, Aside
  <2>2. t = s /\ hasty = 0
    BY <1>0, <1>2, <2>1, OthersAreIdle, RunIsOfACommand
  <2>3. Prune(s) \/ EnforcePolicyEnds(s)
    BY <1>2, <2>2 DEF Run, ReadSource, IsDuplicateContent, OpenBackup, WriteBackup, SaveChecksum,
       SaveLastHash, ListSurplus, ListBackups, DeleteBackup, FindBackup, ReadBackup,
       VerifyChecksum, ReplaceTarget, LoadRestored, ApplyRestored, Reloaded, At
  <2>4. CASE Prune(s)
    <3>1. cmd'[s].at = "pruning" /\ cmd[s].list = Surplus
      BY <1>0, <2>2, <2>4, PruneIs DEF Turns, Superfluous
    <3> QED
      BY <2>4, <3>1, PruneTakesTheNext
  <2>5. CASE EnforcePolicyEnds(s)
    BY <1>1, <2>2, <2>5 DEF EnforcePolicyEnds, store
  <2> QED
    BY <2>3, <2>4, <2>5
<1>3. ASSUME NEW t \in Slots, Update(t) PROVE UNCHANGED order /\ cmd'[s].at # "done"
  <2>1. UNCHANGED order /\ (t # s => cmd'[s] = cmd[s])
    BY <1>3, UpdateIs DEF store
  <2>2. t # s
    BY <1>3 DEF Update, BackupListed, BackupCreated, StatusOnly, At
  <2> QED
    BY <2>1, <2>2 DEF At
<1>4. CASE Press
  <2>1. AtRest
    <3>1. hasty \in Nat
      BY DEF WaitInv, BackupInv, BackupShape
    <3> QED
      BY <1>4, <3>1, PressIs
  <2> QED
    BY <1>0, <2>1 DEF AtRest, FreeSlots
<1>5. CASE Crash
  BY <1>1, <1>5, IdleIs DEF Crash, store
<1>6. CASE (\E c \in Contents : EditConfig(c)) \/ ApplyEdited \/ Tick \/ UNCHANGED vars
  BY <1>1, <1>6 DEF EditConfig, ApplyEdited, Tick, vars, store, At
<1> QED
  BY <1>1, <1>2, <1>3, <1>4, <1>5, <1>6 DEF Next

\* For a user who waits, retention removes what comes after the newest MaxFiles
\* backups, leaves those as they are, and does not end before no other is left
\* (manager.go:212-232).
THEOREM TheNewestAreKept == Spec => RetentionKeepsTheNewest
<1>1. Init => WaitInv /\ Superfluous
  BY WaitInvInit, SuperfluousInit
<1>2. WaitInv /\ Superfluous /\ [Next]_vars => (WaitInv /\ Superfluous)'
  BY WaitInvStep, SuperfluousStep
<1> DEFINE Kept ==
      hasty' = 0 => \A s \in Slots : At(s, "create", "pruning") =>
        /\ \A i \in DOMAIN order : i <= MaxFiles => i \in DOMAIN order' /\ order'[i] = order[i]
        /\ cmd'[s].at = "done" => Len(order') <= MaxFiles
<1>3. WaitInv /\ Superfluous /\ [Next]_vars => [Kept]_vars
  BY NewestStay
<1> HIDE DEF Kept
<1>4. Spec => [][Kept]_vars
  BY <1>1, <1>2, <1>3, PTL DEF Spec
<1> QED
  BY <1>4 DEF Kept, RetentionKeepsTheNewest

-----------------------------------------------------------------------------
(* How many backups stay.                                                  *)

\* The backups a command will still remove or count: the one it makes, until
\* retention has listed what is too much, and then those.
Claims(c, n) ==
  /\ c.kind = "create"
  /\ \/ c.at \in Written /\ n = c.name
     \/ c.at = "pruning" /\ n \in ToSet(c.list)

Stayers == {n \in Present : \A s \in Slots : ~Claims(cmd[s], n)}

\* A crash did not meet several commands.
CrashedAlone == "crash" \in failed => hasty = 0

Retained == CrashedAlone => Cardinality(Stayers) <= MaxFiles + Cardinality(failed)

\* With one command under way there is at most its backup more.
OneMore == hasty = 0 => Cardinality(Present) <= MaxFiles + Cardinality(failed) + 1

Countable ==
  /\ IsFiniteSet(failed) /\ IsFiniteSet(Present) /\ IsFiniteSet(Stayers)
  /\ Cardinality(failed) \in Nat /\ Cardinality(Present) \in Nat
  /\ Cardinality(Stayers) \in Nat /\ MaxFiles \in Nat \ {0}

LEMMA AllFinite == WaitInv => Countable
<1> SUFFICES ASSUME WaitInv PROVE Countable
  OBVIOUS
<1>1. IsFiniteSet(Names)
  BY BackupConstants, FS_Interval DEF Names
<1>2. IsFiniteSet(Present) /\ IsFiniteSet(Stayers)
  <2>1. Present \in SUBSET Names /\ Stayers \in SUBSET Names
    BY DEF Present, Stayers
  <2> QED
    BY <1>1, <2>1, FS_Subset
<1>3. IsFiniteSet(failed)
  <2> DEFINE K == {"write", "sum", "hash", "restore", "stale", "load", "apply", "crash"}
  <2>1. failed \in SUBSET K
    BY BackupConstants DEF WaitInv, TypeInv, RestOK
  <2>2. IsFiniteSet({})
    BY FS_EmptySet
  <2>3. IsFiniteSet({"write"})
    BY FS_Singleton
  <2>4. IsFiniteSet({"write", "sum"})
    <3>1. {"write", "sum"} = {"write"} \cup {"sum"}
      OBVIOUS
    <3> QED
      BY <2>3, <3>1, FS_AddElement
  <2>5. IsFiniteSet({"write", "sum", "hash"})
    <3>1. {"write", "sum", "hash"} = {"write", "sum"} \cup {"hash"}
      OBVIOUS
    <3> QED
      BY <2>4, <3>1, FS_AddElement
  <2>6. IsFiniteSet({"write", "sum", "hash", "restore"})
    <3>1. {"write", "sum", "hash", "restore"} = {"write", "sum", "hash"} \cup {"restore"}
      OBVIOUS
    <3> QED
      BY <2>5, <3>1, FS_AddElement
  <2>7. IsFiniteSet({"stale"} \cup {"load"})
    BY FS_Singleton, FS_AddElement
  <2>8. IsFiniteSet({"apply"} \cup {"crash"})
    BY FS_Singleton, FS_AddElement
  <2>9. IsFiniteSet(({"stale"} \cup {"load"}) \cup ({"apply"} \cup {"crash"}))
    BY <2>7, <2>8, FS_Union
  <2>10. IsFiniteSet({"write", "sum", "hash", "restore"}
                       \cup (({"stale"} \cup {"load"}) \cup ({"apply"} \cup {"crash"})))
    BY <2>6, <2>9, FS_Union
  <2>11. K = {"write", "sum", "hash", "restore"}
               \cup (({"stale"} \cup {"load"}) \cup ({"apply"} \cup {"crash"}))
    OBVIOUS
  <2> QED
    BY <2>1, <2>10, <2>11, FS_Subset
<1> QED
  BY <1>2, <1>3, FS_CardinalityType, BackupConstants DEF Countable

LEMMA AllFiniteNext == WaitInv' => Countable'
BY AllFinite, PTL

LEMMA Larger ==
  ASSUME NEW S, NEW T, NEW x, IsFiniteSet(T), S \subseteq T \cup {x}
  PROVE  Cardinality(S) <= Cardinality(T) + 1
<1>1. IsFiniteSet(T \cup {x}) /\ Cardinality(T \cup {x}) <= Cardinality(T) + 1
      /\ Cardinality(T) \in Nat /\ Cardinality(T \cup {x}) \in Nat
  BY FS_AddElement, FS_CardinalityType
<1>2. S \in SUBSET (T \cup {x})
  OBVIOUS
<1>3. IsFiniteSet(S) /\ Cardinality(S) <= Cardinality(T \cup {x})
  BY <1>1, <1>2, FS_Subset
<1>4. Cardinality(S) \in Nat
  BY <1>3, FS_CardinalityType
<1> QED
  BY <1>1, <1>3, <1>4

LEMMA NoLarger ==
  ASSUME NEW T, IsFiniteSet(T), NEW S, S \subseteq T
  PROVE  Cardinality(S) <= Cardinality(T)
<1>1. S \in SUBSET T
  OBVIOUS
<1> QED
  BY <1>1, FS_Subset

\* What other commands claim stays theirs.
LEMMA ClaimsGoOn ==
  ASSUME NEW s \in Slots, \A t \in Slots \ {s} : cmd'[t] = cmd[t], NEW X,
         \A n \in Present' \ X : n \in Present /\ (Claims(cmd[s], n) => Claims(cmd'[s], n))
  PROVE  Stayers' \subseteq Stayers \cup X
<1> SUFFICES ASSUME NEW n \in Stayers', n \notin X PROVE n \in Stayers
  OBVIOUS
<1>1. n \in Present' /\ \A t \in Slots : ~Claims(cmd'[t], n)
  BY DEF Stayers, Claims
<1>2. \A t \in Slots : ~Claims(cmd[t], n)
  BY <1>1
<1> QED
  BY <1>1, <1>2 DEF Stayers

\* A step that adds no backup and leaves none behind.
LEMMA Fewer ==
  ASSUME WaitInv, WaitInv', Retained, OneMore, failed \subseteq failed', hasty' = 0 => hasty = 0,
         Stayers' \subseteq Stayers, Present' \subseteq Present
  PROVE  Retained' /\ OneMore'
<1>1. /\ IsFiniteSet(failed') /\ IsFiniteSet(Present) /\ IsFiniteSet(Stayers)
      /\ Cardinality(failed) \in Nat /\ Cardinality(Present) \in Nat
      /\ Cardinality(Stayers) \in Nat /\ MaxFiles \in Nat \ {0}
      /\ Cardinality(failed') \in Nat /\ Cardinality(Present') \in Nat
      /\ Cardinality(Stayers') \in Nat
  BY AllFinite, AllFiniteNext DEF Countable
<1>2. /\ Cardinality(failed) <= Cardinality(failed')
      /\ Cardinality(Present') <= Cardinality(Present)
      /\ Cardinality(Stayers') <= Cardinality(Stayers)
  BY <1>1, NoLarger
<1>3. CrashedAlone' => CrashedAlone
  BY DEF CrashedAlone
<1> QED
  BY <1>1, <1>2, <1>3 DEF Retained, OneMore

LEMMA OrderIsPresent == ASSUME WaitInv PROVE order \in Lists /\ ToSet(order) = Present
BY DEF WaitInv, TypeInv, FilesOK

\* Once retention has listed what is too much, the rest is not.
LEMMA SurplusLeavesEnough ==
  ASSUME WaitInv, WaitInv', Retained, OneMore, NEW s \in Slots, ListSurplus(s)
  PROVE  Retained' /\ OneMore'
<1>0. order \in Lists /\ ToSet(order) = Present /\ MaxFiles \in Nat \ {0}
      /\ MaxFiles + 1 \in Nat \ {0}
  BY OrderIsPresent, BackupConstants
<1>1. UNCHANGED <<bak, order, failed, hasty>> /\ Present' = Present
  BY DEF ListSurplus, store, Unseen, Present
<1>2. /\ cmd'[s].kind = "create" /\ cmd'[s].at = "pruning"
      /\ ToSet(cmd'[s].list) = {order[i] : i \in MaxFiles + 1 .. Len(order)}
  <2>1. cmd'[s].kind = "create" /\ cmd'[s].at = "pruning" /\ cmd'[s].list = Surplus
    BY ListSurplusIs DEF Turns, ListSurplus, At, WaitInv
  <2>2. ToSet(Surplus) = {order[i] : i \in MaxFiles + 1 .. Len(order)}
    BY <1>0, RestIs DEF Surplus
  <2> QED
    BY <2>1, <2>2
<1> DEFINE K == 1 .. MaxFiles
           f == [i \in K |-> order[i]]
           T == {f[i] : i \in K}
<1>3. Stayers' \subseteq T
  <2> SUFFICES ASSUME NEW n \in Stayers' PROVE n \in T
    OBVIOUS
  <2>1. n \in Present /\ ~Claims(cmd'[s], n)
    BY <1>1 DEF Stayers, Claims
  <2>2. PICK i \in 1 .. Len(order) : order[i] = n
    BY <1>0, <2>1, ListFacts
  <2>3. i \notin MaxFiles + 1 .. Len(order)
    BY <1>2, <2>1, <2>2 DEF Claims
  <2>4. i \in K
    BY <1>0, <2>3, ListFacts
  <2> QED
    BY <2>2, <2>4
<1>4. IsFiniteSet(T) /\ Cardinality(T) <= MaxFiles
  <2>1. IsFiniteSet(K) /\ Cardinality(K) = MaxFiles
    BY <1>0, FS_Interval
  <2>2. f \in Surjection(K, T)
    BY DEF Surjection
  <2> HIDE DEF K, f, T
  <2> QED
    BY <2>1, <2>2, FS_Surjection
<1> HIDE DEF T
<1>5. Cardinality(Stayers') <= MaxFiles
  <2>1. Cardinality(Stayers') <= Cardinality(T)
    BY <1>3, <1>4, NoLarger
  <2>2. Cardinality(Stayers') \in Nat /\ Cardinality(T) \in Nat
    BY <1>4, AllFiniteNext, FS_CardinalityType DEF Countable
  <2> QED
    BY <1>0, <1>4, <2>1, <2>2
<1>6. Cardinality(failed) \in Nat /\ Cardinality(Stayers') \in Nat
  BY AllFinite, AllFiniteNext DEF Countable
<1> QED
  BY <1>0, <1>1, <1>5, <1>6 DEF Retained, OneMore

LEMMA OpenedIsOneMore ==
  ASSUME WaitInv, WaitInv', Retained, OneMore, NEW s \in Slots, OpenBackup(s)
  PROVE  Retained' /\ OneMore'
<1>0. BackupInv /\ At(s, "create", "new") /\ UNCHANGED <<failed, hasty>>
  BY DEF WaitInv, OpenBackup, Unseen
<1>1. now \in Names /\ Present' \subseteq Present \cup {now}
  <2>1. bak' = [bak EXCEPT ![now] = Torn] /\ DOMAIN bak = Names
    BY DEF OpenBackup, WaitInv, TypeInv, FilesOK
  <2> QED
    BY <2>1 DEF Present, WaitInv, TypeInv, RestOK
<1>2. cmd'[s].kind = "create" /\ cmd'[s].at = "opened" /\ cmd'[s].name = now
      /\ \A t \in Slots \ {s} : cmd'[t] = cmd[t]
  BY <1>0, OpenBackupIs DEF Turns, At
<1>3. \A n : ~Claims(cmd[s], n)
  BY <1>0 DEF Claims, At, Written
<1>4. Claims(cmd'[s], now)
  BY <1>2 DEF Claims, Written
<1>5. now \notin Stayers'
  BY <1>4 DEF Stayers, Claims
<1>6. Stayers' \subseteq Stayers
  <2>1. Stayers' \subseteq Stayers \cup {now}
    BY <1>1, <1>2, <1>3, ClaimsGoOn
  <2> QED
    BY <1>5, <2>1
<1>7. /\ IsFiniteSet(Present) /\ IsFiniteSet(Stayers)
      /\ Cardinality(failed) \in Nat /\ Cardinality(Stayers) \in Nat /\ MaxFiles \in Nat \ {0}
      /\ Cardinality(Stayers') \in Nat /\ Cardinality(Present) \in Nat
      /\ Cardinality(Present') \in Nat
  BY AllFinite, AllFiniteNext DEF Countable
<1>8. Retained'
  <2>1. Cardinality(Stayers') <= Cardinality(Stayers)
    BY <1>6, <1>7, NoLarger
  <2>2. CrashedAlone' = CrashedAlone
    BY <1>0 DEF CrashedAlone
  <2> QED
    BY <1>0, <1>7, <2>1, <2>2 DEF Retained
<1>9. OneMore'
  <2> SUFFICES ASSUME hasty = 0 PROVE Cardinality(Present') <= MaxFiles + Cardinality(failed) + 1
    BY <1>0 DEF OneMore
  <2>1. cmd[s] # Idle
    BY <1>0, IdleIs DEF At
  <2>2. \A t \in Slots : \A n : ~Claims(cmd[t], n)
    BY <1>3, <2>1, OthersAreIdle, IdleIs DEF Claims
  <2>3. Stayers = Present
    BY <2>2 DEF Stayers
  <2>4. Cardinality(Present') <= Cardinality(Present) + 1
    BY <1>1, <1>7, Larger
  <2>5. Cardinality(Present) <= MaxFiles + Cardinality(failed)
    BY <2>3 DEF Retained, CrashedAlone
  <2> QED
    BY <1>7, <2>4, <2>5
<1> QED
  BY <1>8, <1>9

\* What is left behind is counted with the failure that left it.
LEMMA LeftIsCounted ==
  ASSUME WaitInv, WaitInv', Retained, OneMore, NEW s \in Slots, WriteBackup(s)
  PROVE  Retained' /\ OneMore'
<1> DEFINE n == cmd[s].name
<1>0. BackupInv /\ At(s, "create", "opened") /\ UNCHANGED hasty
  BY DEF WaitInv, WriteBackup, Unseen
<1>1. failed \subseteq failed'
  BY DEF WriteBackup, Fail
<1>2. Present' = Present
  <2>1. cmd[s].data \in Data
    BY <1>0 DEF BackupInv, BackupShape, CarriedBy, At
  <2>2. cmd[s].data # NoFile /\ Torn # NoFile
    BY <2>1, BackupConstants DEF Data, NoFile, Torn
  <2>3. DOMAIN bak = Names
    BY DEF WaitInv, TypeInv, FilesOK
  <2>4. bak' = bak \/ \E d : d # NoFile /\ bak[n] # NoFile /\ bak' = [bak EXCEPT ![n] = d]
    BY <2>2 DEF WriteBackup
  <2> QED
    BY <2>3, <2>4 DEF Present
<1>3. CASE Move(s, "filled")
  <2>1. cmd'[s].kind = "create" /\ cmd'[s].at = "filled" /\ cmd'[s].name = n
        /\ \A t \in Slots \ {s} : cmd'[t] = cmd[t]
    BY <1>0, <1>3, MoveIs DEF MoveTurns, Turns, At
  <2>2. \A m : Claims(cmd[s], m) => Claims(cmd'[s], m)
    BY <1>0, <2>1 DEF Claims, At, Written
  <2>3. Stayers' \subseteq Stayers \cup {}
    BY <1>2, <2>1, <2>2, ClaimsGoOn
  <2> QED
    BY <1>0, <1>1, <1>2, <2>3, Fewer
<1>4. CASE Fail("write") /\ Move(s, "failed")
  <2>1. \A t \in Slots \ {s} : cmd'[t] = cmd[t]
    BY <1>0, <1>4, MoveIs DEF MoveTurns, Turns
  <2>2. \A m : Claims(cmd[s], m) => m = n
    BY <1>0 DEF Claims, At
  <2>3. Stayers' \subseteq Stayers \cup {n}
    <3> HIDE DEF n
    <3>1. \A m \in Present' \ {n} : m \in Present /\ (Claims(cmd[s], m) => Claims(cmd'[s], m))
      BY <1>2, <2>2
    <3> QED
      BY <2>1, <3>1, ClaimsGoOn
  <2>4. /\ IsFiniteSet(failed) /\ IsFiniteSet(Stayers)
        /\ Cardinality(failed) \in Nat /\ Cardinality(Present) \in Nat
        /\ Cardinality(Stayers) \in Nat /\ Cardinality(Stayers') \in Nat /\ MaxFiles \in Nat \ {0}
    BY AllFinite, AllFiniteNext DEF Countable
  <2>5. Cardinality(failed') = Cardinality(failed) + 1
    BY <1>4, <2>4, FS_AddElement DEF Fail
  <2>6. Cardinality(Stayers') <= Cardinality(Stayers) + 1
    BY <2>3, <2>4, Larger
  <2>7. CrashedAlone' => CrashedAlone
    BY <1>0, <1>1 DEF CrashedAlone
  <2> QED
    BY <1>0, <1>2, <2>4, <2>5, <2>6, <2>7 DEF Retained, OneMore
<1> QED
  BY <1>3, <1>4 DEF WriteBackup

\* A file is removed.
LEMMA UnlinkedIsLess ==
  ASSUME WaitInv, NEW n, bak' = [bak EXCEPT ![n] = NoFile]
  PROVE  Present' = Present \ {n}
<1>1. DOMAIN bak = Names
  BY DEF WaitInv, TypeInv, FilesOK
<1> QED
  BY <1>1 DEF Present

LEMMA RetainedAfterRun ==
  ASSUME WaitInv, WaitInv', Retained, OneMore, NEW s \in Slots, Run(s)
  PROVE  Retained' /\ OneMore'
<1>0. BackupInv /\ UNCHANGED hasty /\ failed \subseteq failed'
  BY DEF WaitInv, Run, ReadSource, IsDuplicateContent, OpenBackup, WriteBackup, SaveChecksum,
     SaveLastHash, ListSurplus, Prune, EnforcePolicyEnds, ListBackups, DeleteBackup, FindBackup,
     ReadBackup, VerifyChecksum, ReplaceTarget, LoadRestored, ApplyRestored, Reloaded, Unseen, Aside, Fail
<1>1. ASSUME Present' \subseteq Present, \A t \in Slots \ {s} : cmd'[t] = cmd[t],
             \A n \in Present' : Claims(cmd[s], n) => Claims(cmd'[s], n)
      PROVE  Retained' /\ OneMore'
  <2>1. \A n \in Present' \ {} : n \in Present /\ (Claims(cmd[s], n) => Claims(cmd'[s], n))
    BY <1>1
  <2>2. Stayers' \subseteq Stayers \cup {}
    BY <1>1, <2>1, ClaimsGoOn
  <2> QED
    BY <1>0, <1>1, <2>2, Fewer
<1>2. UNCHANGED bak => Present' = Present
  BY DEF Present
<1>3. CASE ReadSource(s)
  <2>1. At(s, "create", "start") /\ UNCHANGED bak
    BY <1>3 DEF ReadSource, store
  <2> QED
    BY <1>0, <1>1, <1>2, <1>3, <2>1, ReadSourceIs DEF Turns, At, Claims, Written
<1>4. CASE IsDuplicateContent(s)
  <2>1. UNCHANGED bak /\ At(s, "create", "read") /\ \E l : Move(s, l)
    BY <1>4 DEF IsDuplicateContent, store
  <2> QED
    BY <1>0, <1>1, <1>2, <2>1, MoveIs DEF MoveTurns, Turns, At, Claims, Written
<1>5. CASE SaveChecksum(s)
  <2>0. At(s, "create", "filled")
    BY <1>5 DEF SaveChecksum
  <2>1. CASE Move(s, "summed") /\ UNCHANGED bak
    BY <1>0, <1>1, <1>2, <2>0, <2>1, MoveIs DEF MoveTurns, Turns, At, Claims, Written
  <2>2. CASE Move(s, "failed") /\ bak' = [bak EXCEPT ![cmd[s].name] = NoFile]
    <3>1. Present' = Present \ {cmd[s].name}
      BY <2>2, UnlinkedIsLess
    <3>2. \A n : Claims(cmd[s], n) => n = cmd[s].name
      BY <2>0 DEF Claims, At
    <3>3. \A t \in Slots \ {s} : cmd'[t] = cmd[t]
      BY <1>0, <2>2, MoveIs DEF MoveTurns, Turns
    <3> QED
      BY <1>1, <3>1, <3>2, <3>3
  <2> QED
    BY <1>5, <2>1, <2>2 DEF SaveChecksum
<1>6. CASE SaveLastHash(s)
  <2>1. UNCHANGED bak /\ At(s, "create", "summed") /\ Move(s, "hashed")
    BY <1>6 DEF SaveLastHash
  <2> QED
    BY <1>0, <1>1, <1>2, <2>1, MoveIs DEF MoveTurns, Turns, At, Claims, Written
<1>7. CASE Prune(s)
  <2>1. /\ At(s, "create", "pruning") /\ cmd[s].list # <<>>
        /\ bak' = [bak EXCEPT ![Head(cmd[s].list)] = NoFile]
    BY <1>7 DEF Prune, Unlink
  <2>2. Present' = Present \ {Head(cmd[s].list)}
    BY <2>1, UnlinkedIsLess
  <2>3. cmd[s].list \in Lists
    <3>1. cmd[s] \in Commands
      BY DEF WaitInv, TypeInv, CmdOK
    <3> QED
      BY <3>1, CommandIs
  <2>4. ToSet(Tail(cmd[s].list)) = ToSet(cmd[s].list) \ {Head(cmd[s].list)}
    BY <2>1, <2>3, TailIs
  <2>5. /\ \A t \in Slots \ {s} : cmd'[t] = cmd[t]
        /\ cmd'[s].kind = "create" /\ cmd'[s].at = "pruning"
        /\ cmd'[s].list = Tail(cmd[s].list)
    BY <1>0, <1>7, <2>1, PruneIs DEF Turns, At
  <2>6. \A n \in Present' : Claims(cmd[s], n) => Claims(cmd'[s], n)
    BY <2>1, <2>2, <2>4, <2>5 DEF Claims, At, Written
  <2> QED
    BY <1>1, <2>2, <2>5, <2>6
<1>8. CASE EnforcePolicyEnds(s)
  <2>1. UNCHANGED bak /\ At(s, "create", "pruning") /\ cmd[s].list = <<>> /\ Move(s, "done")
    BY <1>8 DEF EnforcePolicyEnds, store
  <2>2. \A n : ~Claims(cmd[s], n)
    <3>1. ToSet(<<>>) = {}
      BY DEF ToSet
    <3> QED
      BY <2>1, <3>1 DEF Claims, At, Written
  <2>3. \A t \in Slots \ {s} : cmd'[t] = cmd[t]
    BY <1>0, <2>1, MoveIs DEF MoveTurns, Turns
  <2> QED
    BY <1>1, <1>2, <2>1, <2>2, <2>3
<1>9. CASE cmd[s].kind # "create"
  <2>1. Present' \subseteq Present
    <3>1. UNCHANGED bak \/ \E n : bak' = [bak EXCEPT ![n] = NoFile]
      BY <1>9 DEF Run, ReadSource, IsDuplicateContent, OpenBackup, WriteBackup, SaveChecksum,
         SaveLastHash, ListSurplus, Prune, EnforcePolicyEnds, ListBackups, DeleteBackup,
         FindBackup, ReadBackup, VerifyChecksum, ReplaceTarget, LoadRestored, ApplyRestored, Reloaded, store, Unlink, At
    <3> QED
      BY <1>2, <3>1, UnlinkedIsLess
  <2>2. \A n : ~Claims(cmd[s], n)
    BY <1>9 DEF Claims
  <2> QED
    BY <1>0, <1>1, <2>1, <2>2, RunPursues DEF Pursued
<1>10. cmd[s].kind = "create" =>
         \/ ReadSource(s) \/ IsDuplicateContent(s) \/ OpenBackup(s) \/ WriteBackup(s)
         \/ SaveChecksum(s) \/ SaveLastHash(s) \/ ListSurplus(s) \/ Prune(s)
         \/ EnforcePolicyEnds(s)
  BY DEF Run, ListBackups, DeleteBackup, FindBackup, ReadBackup, VerifyChecksum, ReplaceTarget,
     LoadRestored, ApplyRestored, Reloaded, At
<1> QED
  BY <1>3, <1>4, <1>5, <1>6, <1>7, <1>8, <1>9, <1>10, SurplusLeavesEnough, OpenedIsOneMore,
     LeftIsCounted

\* A crash leaves what one command was making.
LEMMA CrashIsCounted ==
  ASSUME WaitInv, WaitInv', Retained, OneMore, Crash
  PROVE  Retained' /\ OneMore'
<1>1. Fail("crash") /\ UNCHANGED <<bak, hasty>>
  BY DEF Crash, store
<1>2. Stayers' \subseteq Present' /\ Present' = Present
  BY <1>1 DEF Stayers, Present
<1>3. Countable /\ Countable'
  BY AllFinite, AllFiniteNext
<1>4. Cardinality(failed') = Cardinality(failed) + 1
  BY <1>1, <1>3, FS_AddElement DEF Fail, Countable
<1>5. Cardinality(Stayers') <= Cardinality(Present)
  BY <1>2, <1>3, NoLarger DEF Countable
<1>6. CrashedAlone' => hasty = 0
  BY <1>1 DEF CrashedAlone, Fail
<1> QED
  BY <1>1, <1>2, <1>3, <1>4, <1>5, <1>6 DEF Retained, OneMore, Countable

LEMMA RetainedStep ==
  ASSUME WaitInv, WaitInv', Retained, OneMore, [Next]_vars
  PROVE  Retained' /\ OneMore'
<1>1. ASSUME UNCHANGED <<bak, failed>>, hasty' = 0 => hasty = 0,
             \A s \in Slots : \A n : Claims(cmd[s], n) => Claims(cmd'[s], n)
      PROVE  Retained' /\ OneMore'
  <2>1. Present' = Present
    BY <1>1 DEF Present
  <2>2. Stayers' \subseteq Stayers
    <3> SUFFICES ASSUME NEW n \in Stayers' PROVE n \in Stayers
      OBVIOUS
    <3>1. n \in Present /\ \A s \in Slots : ~Claims(cmd'[s], n)
      BY <2>1 DEF Stayers, Claims
    <3> QED
      BY <1>1, <3>1 DEF Stayers
  <2> QED
    BY <1>1, <2>1, <2>2, Fewer
<1>2. ASSUME NEW s \in Slots, Update(s) PROVE Retained' /\ OneMore'
  <2>1. UNCHANGED <<bak, failed, hasty>> /\ \A t \in Slots \ {s} : cmd'[t] = cmd[t]
    BY <1>2, UpdateIs DEF store
  <2>2. \A n : ~Claims(cmd[s], n)
    BY <1>2 DEF Update, BackupListed, BackupCreated, StatusOnly, At, Claims, Written
  <2> QED
    BY <1>1, <2>1, <2>2
<1>3. CASE Press
  <2>1. UNCHANGED <<bak, failed>> /\ (hasty' = 0 => hasty = 0)
    <3>1. hasty \in Nat
      BY DEF WaitInv, BackupInv, BackupShape
    <3> QED
      BY <1>3, <3>1, PressIs DEF store
  <2>2. \A s \in Slots : cmd'[s] = cmd[s] \/ cmd[s] = Idle
    BY <1>3, PressIs
  <2>3. \A n : ~Claims(Idle, n)
    BY IdleIs DEF Claims
  <2> QED
    BY <1>1, <2>1, <2>2, <2>3
<1>4. CASE (\E c \in Contents : EditConfig(c)) \/ ApplyEdited \/ Tick \/ UNCHANGED vars
  BY <1>1, <1>4 DEF EditConfig, ApplyEdited, Tick, vars, store, history
<1> QED
  BY <1>2, <1>3, <1>4, RetainedAfterRun, CrashIsCounted DEF Next

LEMMA RetainedInit == ASSUME Init PROVE Retained /\ OneMore
<1>1. WaitInv /\ Countable
  BY WaitInvInit, AllFinite
<1>2. Present = {} /\ Stayers = {} /\ failed = {}
  BY DEF Init, Present, Stayers
<1>3. Cardinality({}) = 0
  BY FS_EmptySet
<1> QED
  BY <1>1, <1>2, <1>3 DEF Retained, OneMore, Countable

\* Retention keeps the directory within its bound: no more than MaxFiles backups
\* stay, and one for each failure (manager.go:212-232).
THEOREM NoMoreThanMaxFilesStay == Spec => []RetentionHolds
<1>1. Init => WaitInv /\ Retained /\ OneMore
  BY WaitInvInit, RetainedInit
<1>2. WaitInv /\ Retained /\ OneMore /\ [Next]_vars => (WaitInv /\ Retained /\ OneMore)'
  BY WaitInvStep, RetainedStep
<1>3. Retained => RetentionHolds
  <2> SUFFICES ASSUME Retained, \A s \in Slots : cmd[s].kind # "create",
                      "crash" \in failed => hasty = 0
               PROVE  Cardinality(Present) <= MaxFiles + Cardinality(failed)
    BY DEF RetentionHolds
  <2>1. Stayers = Present
    BY DEF Stayers, Claims
  <2> QED
    BY <2>1 DEF Retained, CrashedAlone
<1> QED
  BY <1>1, <1>2, <1>3, PTL DEF Spec

-----------------------------------------------------------------------------
(* What a success means.                                                   *)

Making(s) == cmd[s].kind = "create" /\ cmd[s].at \in Writing

Safe(c) == Restorable(c) \/ c \in gone

\* A backup that is being made: what its file and its checksum are, and that its
\* content is safe as soon as somebody has removed it, or both are written.
Kept(c) ==
  /\ c.data.content = c.src /\ c.data.nonce <= nonce
  /\ c.at = "opened" => bak[c.name] \in {Torn, NoFile}
  /\ c.at = "filled" => bak[c.name] \in {c.data, NoFile}
  /\ c.at \in {"opened", "filled"} =>
       sum[c.name] # c.data /\ (bak[c.name] = NoFile => Safe(c.src))
  /\ c.at \in {"summed", "hashed", "pruning"} => Safe(c.src)

\* No two commands make one file, each is kept, and the last hash is that of a
\* content that is safe; nonces are drawn once.
KeepInv ==
  ~clash =>
    /\ \A s, t \in Slots : Making(s) /\ Making(t) /\ cmd[s].name = cmd[t].name => s = t
    /\ \A s \in Slots : Making(s) => Kept(cmd[s])
    /\ lastHash \in Contents => Safe(lastHash)
    /\ \A n \in Names : sum[n].nonce <= nonce

\* For a user who waits, when nothing fails, the backup that is being made is the
\* newest, whole as soon as it is written, and the last.
NewestOf(c) ==
  /\ order # <<>> /\ order[1] = c.name
  /\ c.at = "opened" => bak[c.name] = Torn
  /\ c.at # "opened" => bak[c.name] = c.data
  /\ c.at \in {"summed", "hashed", "pruning"} => sum[c.name] = c.data
  /\ c.at \in {"hashed", "pruning"} => lastHash = c.src

AloneInv == hasty = 0 /\ failed = {} => \A s \in Slots : Making(s) => NewestOf(cmd[s])

\* The same of the next state, of a value of this one.
SafeNext(c) == (\E n \in Names : bak'[n] = sum'[n] /\ bak'[n].content = c) \/ c \in gone'
KeptNext(c) ==
  /\ c.data.content = c.src /\ c.data.nonce <= nonce'
  /\ c.at = "opened" => bak'[c.name] \in {Torn, NoFile}
  /\ c.at = "filled" => bak'[c.name] \in {c.data, NoFile}
  /\ c.at \in {"opened", "filled"} =>
       sum'[c.name] # c.data /\ (bak'[c.name] = NoFile => SafeNext(c.src))
  /\ c.at \in {"summed", "hashed", "pruning"} => SafeNext(c.src)
MakingNext(s) == cmd'[s].kind = "create" /\ cmd'[s].at \in Writing

LEMMA KeepInvNextIs ==
  ASSUME ~clash' =>
           /\ \A s, t \in Slots : MakingNext(s) /\ MakingNext(t) /\ cmd'[s].name = cmd'[t].name
                                    => s = t
           /\ \A s \in Slots : MakingNext(s) => KeptNext(cmd'[s])
           /\ lastHash' \in Contents => SafeNext(lastHash')
           /\ \A n \in Names : sum'[n].nonce <= nonce'
  PROVE  KeepInv'
<1>1. \A s : Making(s)' <=> MakingNext(s)
  BY DEF Making, MakingNext, Writing, Written
<1>2. \A s \in Slots : Kept(cmd[s])' <=> KeptNext(cmd'[s])
  BY DEF Kept, KeptNext, Safe, SafeNext, Restorable, Torn, NoFile, Names
<1>3. Safe(lastHash)' <=> SafeNext(lastHash')
  BY DEF Safe, SafeNext, Restorable, Names
<1> QED
  BY <1>1, <1>2, <1>3 DEF KeepInv, Making, MakingNext, Writing, Written, Names

\* What a command that makes a backup carries.
LEMMA MakingIs ==
  ASSUME WaitInv, NEW s \in Slots, Making(s)
  PROVE  /\ cmd[s].src \in Contents /\ cmd[s].data \in Data /\ cmd[s].name \in Names
         /\ cmd[s].list \in Lists /\ cmd[s].data # NoFile /\ cmd[s].data # Torn /\ Torn # NoFile
<1>1. cmd[s].src \in Contents /\ cmd[s].data \in Data
  BY DEF WaitInv, BackupInv, BackupShape, CarriedBy, Making, Writing, Written
<1>2. cmd[s] \in Commands /\ NamedBy(cmd[s])
  BY DEF WaitInv, TypeInv, CmdOK
<1>3. cmd[s].name \in Names /\ cmd[s].list \in Lists
  BY <1>2, CommandIs DEF NamedBy, Making
<1> QED
  BY <1>1, <1>3, BackupConstants DEF Data, NoFile, Torn

LEMMA FilesAre ==
  ASSUME WaitInv
  PROVE  /\ DOMAIN bak = Names /\ DOMAIN sum = Names /\ nonce \in 0 .. MaxNonce
         /\ MaxNonce \in Nat /\ now \in Names
         /\ \A n \in Names : sum[n] \in Data \cup {NoFile} /\ bak[n] \in Data \cup {NoFile, Torn}
         /\ \A d \in Data : d.content \in Contents /\ d.nonce \in Nat
         /\ NoFile.content = NoContent /\ NoFile.nonce = 0 /\ NoContent \notin Contents
BY BackupConstants DEF WaitInv, TypeInv, FilesOK, RestOK, Data, NoFile

\* A content stays safe when what can be restored stays, or what is removed is
\* among those gone.
LEMMA SafeStays ==
  ASSUME NEW c \in Contents, Safe(c),
         c \in gone => SafeNext(c),
         \A n \in Names : bak[n] = sum[n] /\ bak[n].content = c =>
           (bak'[n] = bak[n] /\ sum'[n] = sum[n]) \/ c \in gone'
  PROVE  SafeNext(c)
BY DEF Safe, SafeNext, Restorable

\* The file of another command's backup stays as it is, or is removed and its
\* content among those gone.
Stays(c) ==
  \/ bak'[c.name] = bak[c.name] /\ sum'[c.name] = sum[c.name]
  \/ bak'[c.name] = NoFile /\ sum'[c.name] = NoFile /\ c.src \in gone'

LEMMA KeptStays ==
  ASSUME WaitInv, NEW t \in Slots, Making(t), Kept(cmd[t]), Stays(cmd[t]),
         nonce' \in Nat, nonce <= nonce', Safe(cmd[t].src) => SafeNext(cmd[t].src)
  PROVE  KeptNext(cmd[t])
<1>1. cmd[t].data # NoFile /\ cmd[t].data.nonce \in Nat /\ nonce \in Nat
  BY MakingIs, FilesAre
<1>2. cmd[t].data.nonce <= nonce'
  BY <1>1 DEF Kept
<1>3. CASE bak'[cmd[t].name] = bak[cmd[t].name] /\ sum'[cmd[t].name] = sum[cmd[t].name]
  BY <1>2, <1>3 DEF Kept, KeptNext
<1>4. CASE bak'[cmd[t].name] = NoFile /\ sum'[cmd[t].name] = NoFile /\ cmd[t].src \in gone'
  BY <1>1, <1>2, <1>4 DEF Kept, KeptNext, SafeNext
<1> QED
  BY <1>3, <1>4 DEF Stays

\* One command goes on.
LEMMA KeepGoesOn ==
  ASSUME WaitInv, KeepInv, ~clash, NEW s \in Slots,
         \A t \in Slots \ {s} : cmd'[t] = cmd[t],
         nonce' \in Nat, nonce <= nonce', \A n \in Names : sum'[n].nonce <= nonce',
         lastHash' \in Contents => SafeNext(lastHash'),
         \A t \in Slots \ {s} : Making(t) =>
           Stays(cmd[t]) /\ (Safe(cmd[t].src) => SafeNext(cmd[t].src)),
         MakingNext(s) => /\ KeptNext(cmd'[s])
                          /\ \A t \in Slots \ {s} : Making(t) => cmd[t].name # cmd'[s].name
  PROVE  KeepInv'
<1>1. /\ \A t, u \in Slots : Making(t) /\ Making(u) /\ cmd[t].name = cmd[u].name => t = u
      /\ \A t \in Slots : Making(t) => Kept(cmd[t])
  BY DEF KeepInv
<1>2. \A t \in Slots \ {s} : MakingNext(t) <=> Making(t)
  BY DEF Making, MakingNext
<1>3. \A t, u \in Slots : MakingNext(t) /\ MakingNext(u) /\ cmd'[t].name = cmd'[u].name => t = u
  BY <1>1, <1>2
<1>4. ASSUME NEW t \in Slots, MakingNext(t) PROVE KeptNext(cmd'[t])
  <2>1. CASE t = s
    BY <1>4, <2>1
  <2>2. CASE t # s
    <3>1. Making(t) /\ Kept(cmd[t]) /\ Stays(cmd[t]) /\ cmd'[t] = cmd[t]
      BY <1>1, <1>2, <1>4, <2>2
    <3>2. KeptNext(cmd[t])
      BY <2>2, <3>1, KeptStays
    <3> QED
      BY <3>1, <3>2
  <2> QED
    BY <2>1, <2>2
<1> QED
  BY <1>3, <1>4, KeepInvNextIs

\* A step that leaves the files alone.
LEMMA KeepUntouched ==
  ASSUME WaitInv, KeepInv, ~clash, NEW s \in Slots,
         \A t \in Slots \ {s} : cmd'[t] = cmd[t],
         UNCHANGED <<bak, sum, lastHash, nonce, gone>>,
         MakingNext(s) =>
           /\ (cmd[s].at = "hashed" /\ cmd'[s].at = "pruning") \/ cmd'[s].at = cmd[s].at
           /\ Making(s) /\ cmd'[s].name = cmd[s].name /\ cmd'[s].data = cmd[s].data
           /\ cmd'[s].src = cmd[s].src
  PROVE  KeepInv'
<1>1. \A c : SafeNext(c) <=> Safe(c)
  BY DEF Safe, SafeNext, Restorable
<1>2. nonce' \in Nat /\ nonce <= nonce' /\ \A n \in Names : sum'[n].nonce <= nonce'
  BY FilesAre DEF KeepInv
<1>3. lastHash' \in Contents => SafeNext(lastHash')
  BY <1>1 DEF KeepInv
<1>4. \A t \in Slots \ {s} : Making(t) =>
        Stays(cmd[t]) /\ (Safe(cmd[t].src) => SafeNext(cmd[t].src))
  BY <1>1 DEF Stays
<1>5. ASSUME MakingNext(s) PROVE KeptNext(cmd'[s])
  BY <1>1, <1>5 DEF KeepInv, Kept, KeptNext, MakingNext
<1>6. MakingNext(s) => \A t \in Slots \ {s} : Making(t) => cmd[t].name # cmd'[s].name
  BY DEF KeepInv
<1> QED
  BY <1>2, <1>3, <1>4, <1>5, <1>6, KeepGoesOn

LEMMA KeepAfterOpen ==
  ASSUME WaitInv, KeepInv, NEW s \in Slots, OpenBackup(s), ~clash'
  PROVE  KeepInv'
<1>0. BackupInv /\ At(s, "create", "new") /\ nonce' = nonce + 1
      /\ UNCHANGED <<sum, lastHash, gone>> /\ bak' = [bak EXCEPT ![now] = Torn]
      /\ nonce \in Nat /\ now \in Names /\ DOMAIN bak = Names
  BY FilesAre DEF WaitInv, OpenBackup
<1>1. ~clash /\ bak[now] = NoFile /\ \A t \in Slots : cmd[t].name # now
  <2>1. clash' = (clash \/ bak[now] # NoFile \/ \E t \in Slots : cmd[t].name = now)
    BY DEF OpenBackup
  <2> QED
    BY <2>1
<1>2. /\ \A t \in Slots \ {s} : cmd'[t] = cmd[t]
      /\ cmd'[s].at = "opened" /\ cmd'[s].name = now /\ cmd'[s].data = Sealed(s)
      /\ cmd'[s].src = cmd[s].src
  BY <1>0, OpenBackupIs DEF Turns
<1>3. Sealed(s).content = cmd[s].src /\ Sealed(s).nonce = nonce + 1
  BY DEF Sealed
<1>4. ASSUME NEW c \in Contents, Safe(c) PROVE SafeNext(c)
  <2>1. bak[now].content # c
    BY <1>1, FilesAre
  <2> QED
    BY <1>0, <1>4, <2>1, SafeStays DEF SafeNext
<1>5. \A n \in Names : sum'[n].nonce <= nonce'
  <2> SUFFICES ASSUME NEW n \in Names PROVE sum[n].nonce <= nonce + 1
    BY <1>0
  <2>1. sum[n].nonce \in Nat /\ sum[n].nonce <= nonce
    BY <1>1, FilesAre DEF KeepInv
  <2> QED
    BY <1>0, <2>1
<1>6. KeptNext(cmd'[s])
  <2>1. sum[now] # Sealed(s)
    <3>1. sum[now].nonce \in Nat /\ sum[now].nonce <= nonce
      BY <1>0, <1>1, FilesAre DEF KeepInv
    <3> QED
      BY <1>0, <1>3, <3>1
  <2>2. bak'[now] = Torn /\ Torn # NoFile
    BY <1>0, BackupConstants DEF Torn, NoFile
  <2>3. Sealed(s).nonce <= nonce'
    BY <1>0, <1>3
  <2> QED
    BY <1>0, <1>2, <1>3, <2>1, <2>2, <2>3 DEF KeptNext
<1>7. ASSUME NEW t \in Slots \ {s}, Making(t)
      PROVE  Stays(cmd[t]) /\ (Safe(cmd[t].src) => SafeNext(cmd[t].src))
  <2>1. cmd[t].name # now /\ cmd[t].name \in Names /\ cmd[t].src \in Contents
    BY <1>1, <1>7, MakingIs
  <2> QED
    BY <1>0, <1>4, <2>1 DEF Stays
<1>8. lastHash' \in Contents => SafeNext(lastHash')
  BY <1>0, <1>1, <1>4 DEF KeepInv
<1>9. nonce' \in Nat /\ nonce <= nonce'
  BY <1>0
<1> QED
  BY <1>1, <1>2, <1>5, <1>6, <1>7, <1>8, <1>9, KeepGoesOn

\* A backup or a checksum is written, or is removed for a failure: no other file
\* changes, and nothing that can be restored is lost.
LEMMA KeepOwn ==
  ASSUME WaitInv, KeepInv, ~clash, NEW s \in Slots, Making(s),
         \A t \in Slots \ {s} : cmd'[t] = cmd[t],
         cmd'[s].name = cmd[s].name, cmd'[s].data = cmd[s].data, cmd'[s].src = cmd[s].src,
         UNCHANGED <<lastHash, nonce, gone>>,
         \A n \in Names \ {cmd[s].name} : bak'[n] = bak[n] /\ sum'[n] = sum[n],
         sum'[cmd[s].name] \in {sum[cmd[s].name], cmd[s].data},
         bak[cmd[s].name] = sum[cmd[s].name] /\ bak[cmd[s].name] # NoFile =>
           bak'[cmd[s].name] = bak[cmd[s].name] /\ sum'[cmd[s].name] = sum[cmd[s].name],
         MakingNext(s) /\ (\A c \in Contents : Safe(c) => SafeNext(c)) => KeptNext(cmd'[s])
  PROVE  KeepInv'
<1> DEFINE n == cmd[s].name
<1>1. /\ n \in Names /\ cmd[s].data.nonce <= nonce
      /\ nonce \in Nat /\ \A m \in Names : sum[m].nonce <= nonce
  BY MakingIs, FilesAre DEF KeepInv, Kept
<1>2. ASSUME NEW c \in Contents, Safe(c) PROVE SafeNext(c)
  <2>1. NoFile.content # c
    BY FilesAre
  <2>2. c \in gone => SafeNext(c)
    BY DEF SafeNext
  <2>3. ASSUME NEW m \in Names, bak[m] = sum[m], bak[m].content = c
        PROVE  bak'[m] = bak[m] /\ sum'[m] = sum[m]
    BY <2>1, <2>3
  <2> QED
    BY <1>2, <2>2, <2>3, SafeStays
<1>3. \A m \in Names : sum'[m].nonce <= nonce'
  BY <1>1
<1>4. ASSUME NEW t \in Slots \ {s}, Making(t)
      PROVE  /\ Stays(cmd[t]) /\ (Safe(cmd[t].src) => SafeNext(cmd[t].src))
             /\ cmd[t].name # n
  <2>1. cmd[t].name # n
    BY <1>4 DEF KeepInv
  <2>2. cmd[t].name \in Names /\ cmd[t].src \in Contents
    BY <1>4, MakingIs
  <2> QED
    BY <1>2, <2>1, <2>2 DEF Stays
<1>5. lastHash' \in Contents => SafeNext(lastHash')
  BY <1>2 DEF KeepInv
<1>6. MakingNext(s) => /\ KeptNext(cmd'[s])
                       /\ \A t \in Slots \ {s} : Making(t) => cmd[t].name # cmd'[s].name
  BY <1>2, <1>4
<1>7. nonce' \in Nat /\ nonce <= nonce'
  BY <1>1
<1> QED
  BY <1>3, <1>4, <1>5, <1>6, <1>7, KeepGoesOn

LEMMA KeepAfterWrite ==
  ASSUME WaitInv, KeepInv, NEW s \in Slots, WriteBackup(s), ~clash'
  PROVE  KeepInv'
<1> DEFINE n == cmd[s].name
<1>0. BackupInv /\ At(s, "create", "opened") /\ UNCHANGED <<sum, lastHash, nonce, gone, clash>>
  BY DEF WaitInv, WriteBackup
<1>1. Making(s) /\ Kept(cmd[s])
  BY <1>0 DEF Making, Writing, Written, At, KeepInv
<1>2. /\ n \in Names /\ cmd[s].data # NoFile /\ cmd[s].data # Torn /\ Torn # NoFile
      /\ DOMAIN bak = Names /\ sum[n] \in Data \cup {NoFile} /\ Torn \notin Data
  <2>1. Torn \notin Data
    BY BackupConstants DEF Torn, Data
  <2> QED
    BY <1>1, <2>1, MakingIs, FilesAre
<1>3. bak[n] \in {Torn, NoFile} /\ sum[n] # cmd[s].data /\ (bak[n] = NoFile => Safe(cmd[s].src))
  BY <1>0, <1>1 DEF Kept, At
<1>4. ASSUME NEW l \in {"filled", "failed"}, Move(s, l), bak' = bak \/ l = "filled",
             \A m \in Names \ {n} : bak'[m] = bak[m],
             l = "filled" => \/ bak'[n] = cmd[s].data
                             \/ bak[n] = NoFile /\ bak'[n] = NoFile
      PROVE  KeepInv'
  <2>1. /\ \A t \in Slots \ {s} : cmd'[t] = cmd[t]
        /\ cmd'[s].name = n /\ cmd'[s].data = cmd[s].data /\ cmd'[s].src = cmd[s].src
        /\ cmd'[s].at = l
    BY <1>0, <1>4, MoveIs DEF MoveTurns, Turns
  <2>2. ~(bak[n] = sum[n] /\ bak[n] # NoFile)
    BY <1>2, <1>3
  <2>3. ASSUME MakingNext(s), \A c \in Contents : Safe(c) => SafeNext(c) PROVE KeptNext(cmd'[s])
    <3>1. l = "filled"
      BY <2>1, <2>3 DEF MakingNext, Writing, Written
    <3>2. bak'[n] \in {cmd[s].data, NoFile} /\ (bak'[n] = NoFile => SafeNext(cmd[s].src))
      BY <1>1, <1>2, <1>3, <1>4, <2>3, <3>1, MakingIs
    <3> QED
      BY <1>0, <1>1, <1>3, <2>1, <3>1, <3>2 DEF Kept, KeptNext
  <2> QED
    BY <1>0, <1>1, <1>4, <2>1, <2>2, <2>3, KeepOwn
<1>5. CASE /\ bak[n] # NoFile
           /\ \E d \in {cmd[s].data} \cup (IF bak[n] = Torn THEN {} ELSE {Torn}) :
                bak' = [bak EXCEPT ![n] = d]
           /\ Move(s, "filled")
  <2>1. bak' = [bak EXCEPT ![n] = cmd[s].data]
    BY <1>3, <1>5
  <2>2. bak'[n] = cmd[s].data /\ \A m \in Names \ {n} : bak'[m] = bak[m]
    BY <1>2, <2>1
  <2> QED
    BY <1>4, <1>5, <2>2
<1>6. CASE bak[n] = NoFile /\ Move(s, "filled") /\ bak' = bak
  BY <1>4, <1>6
<1>7. CASE Move(s, "failed") /\ bak' = bak
  BY <1>4, <1>7
<1> QED
  BY <1>5, <1>6, <1>7 DEF WriteBackup

LEMMA KeepAfterChecksum ==
  ASSUME WaitInv, KeepInv, NEW s \in Slots, SaveChecksum(s), ~clash'
  PROVE  KeepInv'
<1> DEFINE n == cmd[s].name
<1>0. BackupInv /\ At(s, "create", "filled") /\ UNCHANGED <<lastHash, nonce, gone, clash>>
  BY DEF WaitInv, SaveChecksum
<1>1. Making(s) /\ Kept(cmd[s])
  BY <1>0 DEF Making, Writing, Written, At, KeepInv
<1>2. /\ n \in Names /\ cmd[s].data # NoFile
      /\ DOMAIN bak = Names /\ DOMAIN sum = Names
  BY <1>1, MakingIs, FilesAre
<1>3. bak[n] \in {cmd[s].data, NoFile} /\ sum[n] # cmd[s].data
      /\ (bak[n] = NoFile => Safe(cmd[s].src))
  BY <1>0, <1>1 DEF Kept, At
<1>4. ~(bak[n] = sum[n] /\ bak[n] # NoFile)
  BY <1>3
<1>5. CASE sum' = [sum EXCEPT ![n] = cmd[s].data] /\ Move(s, "summed") /\ bak' = bak
  <2>1. /\ \A t \in Slots \ {s} : cmd'[t] = cmd[t]
        /\ cmd'[s].name = n /\ cmd'[s].data = cmd[s].data /\ cmd'[s].src = cmd[s].src
        /\ cmd'[s].at = "summed"
    BY <1>0, <1>5, MoveIs DEF MoveTurns, Turns
  <2>2. sum'[n] = cmd[s].data /\ \A m \in Names \ {n} : bak'[m] = bak[m] /\ sum'[m] = sum[m]
    BY <1>2, <1>5
  <2>3. ASSUME \A c \in Contents : Safe(c) => SafeNext(c) PROVE KeptNext(cmd'[s])
    <3>1. SafeNext(cmd[s].src)
      <4>1. CASE bak[n] = cmd[s].data
        BY <1>1, <1>2, <1>5, <2>2, <4>1 DEF SafeNext, Kept
      <4>2. CASE bak[n] = NoFile
        BY <1>1, <1>3, <2>3, <4>2, MakingIs
      <4> QED
        BY <1>3, <4>1, <4>2
    <3> QED
      BY <1>0, <1>1, <2>1, <3>1 DEF Kept, KeptNext
  <2> QED
    BY <1>0, <1>1, <1>4, <2>1, <2>2, <2>3, KeepOwn
<1>6. CASE bak' = [bak EXCEPT ![n] = NoFile] /\ Move(s, "failed") /\ sum' = sum
  <2>1. /\ \A t \in Slots \ {s} : cmd'[t] = cmd[t]
        /\ cmd'[s].name = n /\ cmd'[s].data = cmd[s].data /\ cmd'[s].src = cmd[s].src
        /\ cmd'[s].at = "failed"
    BY <1>0, <1>6, MoveIs DEF MoveTurns, Turns
  <2>2. ~MakingNext(s)
    BY <2>1 DEF MakingNext, Writing, Written
  <2>3. \A m \in Names \ {n} : bak'[m] = bak[m] /\ sum'[m] = sum[m]
    BY <1>2, <1>6
  <2> QED
    BY <1>0, <1>1, <1>4, <1>6, <2>1, <2>2, <2>3, KeepOwn
<1> QED
  BY <1>5, <1>6 DEF SaveChecksum

LEMMA KeepAfterHash ==
  ASSUME WaitInv, KeepInv, NEW s \in Slots, SaveLastHash(s), ~clash'
  PROVE  KeepInv'
<1>0. BackupInv /\ At(s, "create", "summed") /\ UNCHANGED <<bak, sum, nonce, clash>>
  BY DEF WaitInv, SaveLastHash
<1>1. Making(s) /\ Kept(cmd[s]) /\ Safe(cmd[s].src)
  BY <1>0 DEF Making, Writing, Written, At, KeepInv, Kept
<1>2. gone' = IF Restorable(cmd[s].src) THEN gone \ {cmd[s].src} ELSE gone
  BY DEF SaveLastHash
<1>3. \A c : Safe(c) => SafeNext(c)
  BY <1>0, <1>2 DEF Safe, SafeNext, Restorable
<1>4. /\ \A t \in Slots \ {s} : cmd'[t] = cmd[t]
      /\ cmd'[s].name = cmd[s].name /\ cmd'[s].data = cmd[s].data /\ cmd'[s].src = cmd[s].src
      /\ cmd'[s].at = "hashed"
  <2>1. Move(s, "hashed")
    BY DEF SaveLastHash
  <2> QED
    BY <1>0, <2>1, MoveIs DEF MoveTurns, Turns
<1>5. lastHash' \in Contents => SafeNext(lastHash')
  <2>1. lastHash' = cmd[s].src \/ lastHash' = lastHash
    BY DEF SaveLastHash
  <2> QED
    BY <1>0, <1>1, <1>3, <2>1 DEF KeepInv
<1>6. KeptNext(cmd'[s])
  BY <1>0, <1>1, <1>3, <1>4 DEF Kept, KeptNext
<1>7. nonce' \in Nat /\ nonce <= nonce' /\ \A n \in Names : sum'[n].nonce <= nonce'
  BY <1>0, FilesAre DEF KeepInv
<1>8. \A t \in Slots \ {s} : Making(t) =>
        /\ Stays(cmd[t]) /\ (Safe(cmd[t].src) => SafeNext(cmd[t].src))
        /\ cmd[t].name # cmd'[s].name
  BY <1>0, <1>1, <1>3, <1>4 DEF Stays, KeepInv
<1> QED
  BY <1>0, <1>4, <1>5, <1>6, <1>7, <1>8, KeepGoesOn

\* Files are removed, and their contents, and those being written under their
\* name, are among those gone.
LEMMA KeepWithout ==
  ASSUME WaitInv, KeepInv, ~clash, NEW s \in Slots, NEW n \in Names,
         \A t \in Slots \ {s} : cmd'[t] = cmd[t],
         bak' = [bak EXCEPT ![n] = NoFile], sum' = [sum EXCEPT ![n] = NoFile],
         gone' = gone \cup BackedUpAs(n), UNCHANGED <<lastHash, nonce>>,
         MakingNext(s) =>
           /\ cmd[s].at = "pruning" /\ cmd'[s].at = "pruning"
           /\ Making(s) /\ cmd'[s].name = cmd[s].name /\ cmd'[s].data = cmd[s].data
           /\ cmd'[s].src = cmd[s].src
  PROVE  KeepInv'
<1>1. /\ DOMAIN bak = Names /\ DOMAIN sum = Names /\ nonce \in Nat /\ NoFile.nonce = 0
      /\ \A m \in Names : sum[m].nonce <= nonce
  BY FilesAre DEF KeepInv
<1>2. ASSUME NEW c \in Contents, Safe(c) PROVE SafeNext(c)
  <2>1. bak[n].content = c => c \in gone'
    BY DEF BackedUpAs
  <2> QED
    BY <1>1, <1>2, <2>1, SafeStays DEF SafeNext
<1>3. ASSUME NEW t \in Slots \ {s}, Making(t)
      PROVE  Stays(cmd[t]) /\ (Safe(cmd[t].src) => SafeNext(cmd[t].src))
  <2>1. cmd[t].name \in Names /\ cmd[t].src \in Contents
    BY <1>3, MakingIs
  <2>2. CASE cmd[t].name = n
    <3>1. cmd[t].src \in gone'
      BY <2>1, <2>2 DEF BackedUpAs
    <3> QED
      BY <1>1, <1>2, <2>1, <2>2, <3>1 DEF Stays
  <2>3. CASE cmd[t].name # n
    BY <1>1, <1>2, <2>1, <2>3 DEF Stays
  <2> QED
    BY <2>2, <2>3
<1>4. ASSUME MakingNext(s)
      PROVE  KeptNext(cmd'[s]) /\ \A t \in Slots \ {s} : Making(t) => cmd[t].name # cmd'[s].name
  <2>1. Kept(cmd[s]) /\ cmd[s].src \in Contents
    BY <1>4, MakingIs DEF KeepInv
  <2>2. SafeNext(cmd[s].src)
    BY <1>2, <1>4, <2>1 DEF Kept
  <2>3. KeptNext(cmd'[s])
    BY <1>4, <2>1, <2>2 DEF Kept, KeptNext
  <2> QED
    BY <1>4, <2>3 DEF KeepInv
<1>5. nonce' \in Nat /\ nonce <= nonce' /\ \A m \in Names : sum'[m].nonce <= nonce'
  BY <1>1
<1>6. lastHash' \in Contents => SafeNext(lastHash')
  BY <1>2 DEF KeepInv
<1> QED
  BY <1>3, <1>4, <1>5, <1>6, KeepGoesOn

LEMMA KeepAfterPrune ==
  ASSUME WaitInv, Superfluous, KeepInv, AloneInv, NEW s \in Slots, Prune(s), ~clash'
  PROVE  KeepInv'
<1> DEFINE h == Head(cmd[s].list)
<1>0. /\ BackupInv /\ At(s, "create", "pruning") /\ cmd[s].list # <<>>
      /\ UNCHANGED <<lastHash, nonce, clash>>
      /\ bak' = [bak EXCEPT ![h] = NoFile] /\ sum' = [sum EXCEPT ![h] = NoFile]
  BY DEF WaitInv, Prune, Unlink
<1>1. Making(s) /\ Kept(cmd[s])
  BY <1>0 DEF Making, Writing, At, KeepInv
<1>2. h \in Names
  BY <1>0, <1>1, MakingIs, TailIs
<1>3. /\ \A t \in Slots \ {s} : cmd'[t] = cmd[t]
      /\ cmd'[s].name = cmd[s].name /\ cmd'[s].data = cmd[s].data /\ cmd'[s].src = cmd[s].src
      /\ cmd'[s].at = "pruning"
  BY <1>0, PruneIs DEF Turns
<1>4. CASE ~(failed = {} /\ hasty = 0)
  <2>1. gone' = gone \cup BackedUpAs(h)
    BY <1>4 DEF Prune
  <2> HIDE DEF h
  <2> QED
    BY <1>0, <1>1, <1>2, <1>3, <2>1, KeepWithout DEF At
<1>5. CASE failed = {} /\ hasty = 0
  <2> DEFINE n == cmd[s].name
  <2>1. /\ n \in Names /\ n = order[1] /\ order # <<>> /\ bak[n] = cmd[s].data
        /\ sum[n] = cmd[s].data /\ lastHash = cmd[s].src
    BY <1>0, <1>1, <1>5, MakingIs DEF AloneInv, NewestOf, At
  <2>2. 1 \in DOMAIN order' /\ order'[1] = order[1]
    <3>1. 1 \in DOMAIN order
      <4>1. order \in Seq(Names)
        BY OrderIsPresent, ListFacts
      <4> QED
        BY <2>1, <4>1
    <3>2. 1 <= MaxFiles
      BY BackupConstants
    <3>3. cmd[s].list = Surplus
      BY <1>0, <1>5 DEF Superfluous
    <3> QED
      BY <3>1, <3>2, <3>3, PruneTakesTheNext
  <2>3. n # h
    <3>1. order \in Lists /\ order' = RemoveFirst(order, h)
      BY OrderIsPresent DEF Prune, Unlink
    <3>2. order' \in Lists /\ ToSet(order') = ToSet(order) \ {h}
      BY <3>1, Without
    <3>3. order'[1] \in ToSet(order')
      BY <2>2 DEF ToSet
    <3> QED
      BY <2>1, <2>2, <3>2, <3>3
  <2>4. bak'[n] = cmd[s].data /\ sum'[n] = cmd[s].data
    BY <1>0, <2>1, <2>3, FilesAre
  <2>5. SafeNext(cmd[s].src)
    BY <1>1, <2>1, <2>4 DEF SafeNext, Kept
  <2>6. KeptNext(cmd'[s])
    BY <1>0, <1>1, <1>3, <2>5 DEF Kept, KeptNext
  <2>7. \A t \in Slots \ {s} : ~Making(t)
    <3>1. cmd[s] # Idle
      BY <1>0, IdleIs DEF At
    <3> QED
      BY <1>5, <3>1, OthersAreIdle, IdleIs DEF Making
  <2>8. \A m \in Names : sum'[m].nonce <= nonce'
    <3>1. DOMAIN sum = Names /\ NoFile.nonce = 0 /\ nonce \in Nat
      BY FilesAre
    <3>2. \A m \in Names : sum[m].nonce <= nonce
      BY <1>0 DEF KeepInv
    <3> QED
      BY <1>0, <3>1, <3>2
  <2>9. nonce' \in Nat /\ nonce <= nonce'
    BY <1>0, FilesAre
  <2> QED
    BY <1>0, <1>3, <2>1, <2>5, <2>6, <2>7, <2>8, <2>9, KeepGoesOn
<1> QED
  BY <1>4, <1>5

\* The user deletes a backup.
LEMMA KeepAfterDelete ==
  ASSUME WaitInv, KeepInv, NEW s \in Slots, DeleteBackup(s), ~clash'
  PROVE  KeepInv'
<1> DEFINE n == cmd[s].name
<1>0. /\ BackupInv /\ At(s, "delete", "start") /\ Move(s, "removed")
      /\ UNCHANGED <<lastHash, nonce, clash>>
      /\ bak' = [bak EXCEPT ![n] = NoFile] /\ sum' = [sum EXCEPT ![n] = NoFile]
      /\ gone' = gone \cup BackedUpAs(n)
  BY DEF WaitInv, DeleteBackup, Unlink, Aside
<1>1. (\A t \in Slots \ {s} : cmd'[t] = cmd[t]) /\ ~MakingNext(s)
  BY <1>0, MoveIs DEF MoveTurns, Turns, At, MakingNext
<1>2. CASE n \in Names
  <2> HIDE DEF n
  <2> QED
    BY <1>0, <1>1, <1>2, KeepWithout
<1>3. CASE n \notin Names
  <2>1. bak' = bak /\ sum' = sum /\ gone \subseteq gone'
    BY <1>0, <1>3, FilesAre DEF WaitInv, TypeInv, FilesOK
  <2>2. \A c : Safe(c) => SafeNext(c)
    BY <2>1 DEF Safe, SafeNext, Restorable
  <2>3. \A t \in Slots \ {s} : Making(t) =>
          Stays(cmd[t]) /\ (Safe(cmd[t].src) => SafeNext(cmd[t].src))
    BY <2>1, <2>2 DEF Stays
  <2>4. lastHash' \in Contents => SafeNext(lastHash')
    BY <1>0, <2>2 DEF KeepInv
  <2>5. nonce' \in Nat /\ nonce <= nonce' /\ \A m \in Names : sum'[m].nonce <= nonce'
    BY <1>0, <2>1, FilesAre DEF KeepInv
  <2> QED
    BY <1>0, <1>1, <2>3, <2>4, <2>5, KeepGoesOn
<1> QED
  BY <1>2, <1>3

LEMMA KeepAfterRun ==
  ASSUME WaitInv, Superfluous, KeepInv, AloneInv, NEW s \in Slots, Run(s)
  PROVE  KeepInv'
<1> SUFFICES ASSUME ~clash' PROVE KeepInv'
  BY DEF KeepInv
<1>0. BackupInv /\ \A t \in Slots \ {s} : cmd'[t] = cmd[t]
  BY RunPursues DEF WaitInv, Pursued
<1>1. CASE ReadSource(s)
  <2>1. UNCHANGED <<bak, sum, lastHash, nonce, gone, clash>>
    BY <1>1 DEF ReadSource, store
  <2>2. ~MakingNext(s)
    BY <1>0, <1>1, ReadSourceIs DEF Turns, MakingNext, Writing, Written
  <2> QED
    BY <1>0, <2>1, <2>2, KeepUntouched
<1>2. CASE IsDuplicateContent(s) \/ EnforcePolicyEnds(s)
  <2>1. UNCHANGED <<bak, sum, lastHash, nonce, gone, clash>>
    BY <1>2 DEF IsDuplicateContent, EnforcePolicyEnds, store
  <2>2. Move(s, "done") \/ Move(s, "new")
    BY <1>2 DEF IsDuplicateContent, EnforcePolicyEnds
  <2>3. ~MakingNext(s)
    BY <1>0, <2>2, MoveIs DEF MoveTurns, Turns, MakingNext, Writing, Written
  <2> QED
    BY <1>0, <2>1, <2>3, KeepUntouched
<1>3. CASE ListSurplus(s)
  <2>1. UNCHANGED <<bak, sum, lastHash, nonce, gone, clash>> /\ At(s, "create", "hashed")
    BY <1>3 DEF ListSurplus, store
  <2>2. /\ cmd'[s].at = "pruning" /\ cmd'[s].name = cmd[s].name /\ cmd'[s].data = cmd[s].data
        /\ cmd'[s].src = cmd[s].src
    BY <1>0, <1>3, ListSurplusIs DEF Turns
  <2>3. Making(s)
    BY <2>1 DEF Making, Writing, Written, At
  <2> QED
    BY <1>0, <2>1, <2>2, <2>3, KeepUntouched DEF At
<1>4. CASE cmd[s].kind # "create" /\ ~DeleteBackup(s)
  <2>1. UNCHANGED <<bak, sum, lastHash, nonce, gone, clash>>
    BY <1>4 DEF Run, ReadSource, IsDuplicateContent, OpenBackup, WriteBackup, SaveChecksum,
       SaveLastHash, ListSurplus, Prune, EnforcePolicyEnds, ListBackups, FindBackup, ReadBackup,
       VerifyChecksum, ReplaceTarget, LoadRestored, ApplyRestored, Reloaded, At, store, Aside
  <2>2. ~MakingNext(s)
    BY <1>0, <1>4, RunPursues DEF Pursued, MakingNext
  <2> QED
    BY <1>0, <2>1, <2>2, KeepUntouched
<1>5. cmd[s].kind = "create" =>
         \/ ReadSource(s) \/ IsDuplicateContent(s) \/ OpenBackup(s) \/ WriteBackup(s)
         \/ SaveChecksum(s) \/ SaveLastHash(s) \/ ListSurplus(s) \/ Prune(s)
         \/ EnforcePolicyEnds(s)
  BY DEF Run, ListBackups, DeleteBackup, FindBackup, ReadBackup, VerifyChecksum, ReplaceTarget,
     LoadRestored, ApplyRestored, Reloaded, At
<1> QED
  BY <1>1, <1>2, <1>3, <1>4, <1>5, KeepAfterOpen, KeepAfterWrite, KeepAfterChecksum,
     KeepAfterHash, KeepAfterPrune, KeepAfterDelete

LEMMA KeepStep ==
  ASSUME WaitInv, Superfluous, KeepInv, AloneInv, [Next]_vars
  PROVE  KeepInv'
<1>1. ASSUME UNCHANGED <<bak, sum, lastHash, nonce, gone, clash>>,
             \A s \in Slots : MakingNext(s) => Making(s) /\ cmd'[s] = cmd[s]
      PROVE  KeepInv'
  <2>1. \A c : SafeNext(c) <=> Safe(c)
    BY <1>1 DEF Safe, SafeNext, Restorable
  <2>2. \A c : KeptNext(c) <=> Kept(c)
    BY <1>1, <2>1 DEF Kept, KeptNext
  <2> QED
    BY <1>1, <2>1, <2>2, KeepInvNextIs DEF KeepInv
<1>2. ASSUME NEW s \in Slots, Update(s) PROVE KeepInv'
  <2>1. UNCHANGED <<bak, sum, lastHash, nonce, gone, clash>>
        /\ \A t \in Slots \ {s} : cmd'[t] = cmd[t]
    BY <1>2, UpdateIs DEF store
  <2>2. ~MakingNext(s)
    BY <1>2, UpdateIs, IdleIs DEF MakingNext
  <2> QED
    BY <1>1, <2>1, <2>2 DEF Making, MakingNext
<1>3. CASE Press
  <2>1. UNCHANGED <<bak, sum, lastHash, nonce, gone, clash>>
    BY <1>3, PressIs DEF store
  <2>2. \A s \in Slots : cmd'[s] = cmd[s] \/ cmd'[s].at = "start"
    BY <1>3, PressIs
  <2> QED
    BY <1>1, <2>1, <2>2 DEF Making, MakingNext, Writing, Written
<1>4. CASE Crash
  <2>1. UNCHANGED <<bak, sum, lastHash, nonce, gone, clash>> /\ \A s \in Slots : cmd'[s] = Idle
    BY <1>4 DEF Crash, store
  <2> QED
    BY <1>1, <2>1, IdleIs DEF MakingNext
<1>5. CASE (\E c \in Contents : EditConfig(c)) \/ ApplyEdited \/ Tick \/ UNCHANGED vars
  BY <1>1, <1>5 DEF EditConfig, ApplyEdited, Tick, vars, store, history, Making, MakingNext
<1> QED
  BY <1>2, <1>3, <1>4, <1>5, KeepAfterRun DEF Next

-----------------------------------------------------------------------------
\* One backup alone.
LEMMA AloneAfterRun ==
  ASSUME WaitInv, WaitInv', Superfluous, AloneInv, NEW s \in Slots, Run(s)
  PROVE  AloneInv'
<1> SUFFICES ASSUME hasty' = 0, failed' = {}, Making(s)' PROVE NewestOf(cmd[s])'
  <2> SUFFICES ASSUME hasty' = 0, failed' = {}, NEW t \in Slots, Making(t)'
               PROVE  NewestOf(cmd[t])'
    BY DEF AloneInv
  <2>1. UNCHANGED hasty
    BY DEF Run, ReadSource, IsDuplicateContent, OpenBackup, WriteBackup, SaveChecksum,
       SaveLastHash, ListSurplus, Prune, EnforcePolicyEnds, ListBackups, DeleteBackup, FindBackup,
       ReadBackup, VerifyChecksum, ReplaceTarget, LoadRestored, ApplyRestored, Reloaded, Unseen, Aside
  <2>2. \A u \in Slots \ {s} : cmd[u] = Idle /\ cmd'[u] = Idle
    BY <2>1, OthersAreIdle, RunIsOfACommand, RunPursues DEF Pursued, WaitInv
  <2>3. t = s
    BY <2>2, IdleIs DEF Making
  <2> QED
    BY <2>3
<1>0. /\ BackupInv /\ hasty = 0 /\ failed = {} /\ order \in Lists
      /\ DOMAIN bak = Names /\ DOMAIN sum = Names /\ now \in Names
  <2>1. UNCHANGED hasty /\ failed \subseteq failed'
    BY DEF Run, ReadSource, IsDuplicateContent, OpenBackup, WriteBackup, SaveChecksum,
       SaveLastHash, ListSurplus, Prune, EnforcePolicyEnds, ListBackups, DeleteBackup, FindBackup,
       ReadBackup, VerifyChecksum, ReplaceTarget, LoadRestored, ApplyRestored, Reloaded, Unseen, Aside, Fail
  <2> QED
    BY <2>1, OrderIsPresent, FilesAre DEF WaitInv
<1>1. \A k : ~Fail(k)
  BY DEF Fail
<1>2. cmd'[s].kind = "create" /\ cmd'[s].at \in Writing /\ cmd[s].kind = "create"
  BY RunPursues DEF Pursued, Making, Writing, Written, WaitInv
<1>3. ASSUME At(s, "create", "opened") \/ At(s, "create", "filled") \/ At(s, "create", "summed")
             \/ At(s, "create", "hashed") \/ At(s, "create", "pruning")
      PROVE  /\ NewestOf(cmd[s]) /\ cmd[s].name \in Names /\ cmd[s].data # NoFile
             /\ Torn # NoFile
  BY <1>0, <1>3, MakingIs DEF AloneInv, Making, Writing, Written, At
<1>4. CASE OpenBackup(s)
  <2>1. /\ order' = <<now>> \o RemoveFirst(order, now) /\ bak' = [bak EXCEPT ![now] = Torn]
    BY <1>4 DEF OpenBackup, Newest
  <2>2. order' \in Lists /\ order'[1] = now /\ Len(order') > 0
    BY <1>0, <2>1, FirstOne
  <2>3. order' # <<>>
    BY <2>2
  <2>4. cmd'[s].at = "opened" /\ cmd'[s].name = now
    BY <1>0, <1>4, OpenBackupIs DEF Turns
  <2> QED
    BY <1>0, <2>1, <2>2, <2>3, <2>4 DEF NewestOf, Torn
<1>5. CASE WriteBackup(s)
  <2> DEFINE n == cmd[s].name
  <2>0. At(s, "create", "opened")
    BY <1>5 DEF WriteBackup
  <2>1. bak[n] = Torn /\ Torn # NoFile /\ n \in Names
    BY <1>3, <2>0 DEF NewestOf, At
  <2>2. /\ bak' = [bak EXCEPT ![n] = cmd[s].data] /\ Move(s, "filled")
        /\ order' = <<n>> \o RemoveFirst(order, n)
    BY <1>1, <1>5, <2>1 DEF WriteBackup, Newest
  <2>3. order' \in Lists /\ order'[1] = n /\ Len(order') > 0
    <3> HIDE DEF n
    <3>1. order \in Lists /\ n \in Names /\ order' = <<n>> \o RemoveFirst(order, n)
      BY <1>0, <2>1, <2>2
    <3> QED
      BY ONLY <3>1, FirstOne
  <2>4. order' # <<>>
    BY <2>3
  <2>5. cmd'[s].at = "filled" /\ cmd'[s].name = n /\ cmd'[s].data = cmd[s].data
    BY <1>0, <2>2, MoveIs DEF MoveTurns, Turns
  <2> QED
    BY <1>0, <2>1, <2>2, <2>3, <2>4, <2>5 DEF NewestOf
<1>6. CASE SaveChecksum(s)
  <2> DEFINE n == cmd[s].name
  <2>0. At(s, "create", "filled")
    BY <1>6 DEF SaveChecksum
  <2>1. NewestOf(cmd[s]) /\ n \in Names
    BY <1>3, <2>0
  <2>2. /\ sum' = [sum EXCEPT ![n] = cmd[s].data] /\ Move(s, "summed")
        /\ UNCHANGED <<bak, order>>
    BY <1>1, <1>6 DEF SaveChecksum
  <2>3. cmd'[s].at = "summed" /\ cmd'[s].name = n /\ cmd'[s].data = cmd[s].data
    BY <1>0, <2>2, MoveIs DEF MoveTurns, Turns
  <2> QED
    BY <1>0, <2>0, <2>1, <2>2, <2>3 DEF NewestOf, At
<1>7. CASE SaveLastHash(s)
  <2>0. At(s, "create", "summed") /\ Move(s, "hashed") /\ UNCHANGED <<bak, sum, order>>
        /\ lastHash' = cmd[s].src
    BY <1>1, <1>7 DEF SaveLastHash
  <2>1. NewestOf(cmd[s])
    BY <1>3, <2>0
  <2>2. /\ cmd'[s].at = "hashed" /\ cmd'[s].name = cmd[s].name /\ cmd'[s].data = cmd[s].data
        /\ cmd'[s].src = cmd[s].src
    BY <1>0, <2>0, MoveIs DEF MoveTurns, Turns
  <2> QED
    BY <2>0, <2>1, <2>2 DEF NewestOf, At
<1>8. CASE ListSurplus(s)
  <2>0. At(s, "create", "hashed") /\ UNCHANGED <<bak, sum, order, lastHash>>
    BY <1>8 DEF ListSurplus, store
  <2>1. NewestOf(cmd[s])
    BY <1>3, <2>0
  <2>2. /\ cmd'[s].at = "pruning" /\ cmd'[s].name = cmd[s].name /\ cmd'[s].data = cmd[s].data
        /\ cmd'[s].src = cmd[s].src
    BY <1>0, <1>8, ListSurplusIs DEF Turns
  <2> QED
    BY <2>0, <2>1, <2>2 DEF NewestOf, At
<1>9. CASE Prune(s)
  <2> DEFINE n == cmd[s].name
             h == Head(cmd[s].list)
  <2>0. /\ At(s, "create", "pruning") /\ UNCHANGED lastHash /\ order' = RemoveFirst(order, h)
        /\ bak' = [bak EXCEPT ![h] = NoFile] /\ sum' = [sum EXCEPT ![h] = NoFile]
    BY <1>9 DEF Prune, Unlink
  <2>1. NewestOf(cmd[s]) /\ n \in Names
    BY <1>3, <2>0
  <2>2. 1 \in DOMAIN order' /\ order'[1] = order[1]
    <3>1. 1 \in DOMAIN order
      <4>1. order \in Seq(Names) /\ order # <<>>
        BY <1>0, <2>1, ListFacts DEF NewestOf
      <4> QED
        BY <4>1
    <3>2. 1 <= MaxFiles
      BY BackupConstants
    <3>3. cmd[s].list = Surplus
      BY <1>0, <2>0 DEF Superfluous
    <3> QED
      BY <1>9, <3>1, <3>2, <3>3, PruneTakesTheNext
  <2>3. n # h
    <3>1. ToSet(order') = ToSet(order) \ {h}
      BY <1>0, <2>0, Without
    <3>2. order'[1] \in ToSet(order')
      BY <2>2 DEF ToSet
    <3> QED
      BY <2>1, <2>2, <3>1, <3>2 DEF NewestOf
  <2>4. bak'[n] = bak[n] /\ sum'[n] = sum[n]
    BY <1>0, <2>0, <2>3
  <2>5. order' # <<>>
    BY <2>2
  <2>6. /\ cmd'[s].at = "pruning" /\ cmd'[s].name = n /\ cmd'[s].data = cmd[s].data
        /\ cmd'[s].src = cmd[s].src
    BY <1>0, <1>9, PruneIs DEF Turns
  <2> HIDE DEF h
  <2> QED
    BY <2>0, <2>1, <2>2, <2>4, <2>5, <2>6 DEF NewestOf, At
<1>10. ~ReadSource(s)
  BY <1>0, <1>2, ReadSourceIs DEF Turns, Writing, Written
<1>11. ~IsDuplicateContent(s) /\ ~EnforcePolicyEnds(s)
  <2>1. ASSUME NEW l \in {"done", "new"}, Move(s, l) PROVE FALSE
    BY <1>0, <1>2, <2>1, MoveIs DEF MoveTurns, Turns, Writing, Written
  <2> QED
    BY <2>1 DEF IsDuplicateContent, EnforcePolicyEnds
<1>12. ~(ListBackups(s) \/ DeleteBackup(s) \/ FindBackup(s) \/ ReadBackup(s) \/ VerifyChecksum(s)
         \/ ReplaceTarget(s) \/ LoadRestored(s) \/ ApplyRestored(s))
  BY <1>2 DEF ListBackups, DeleteBackup, FindBackup, ReadBackup, VerifyChecksum, ReplaceTarget,
     LoadRestored, ApplyRestored, Reloaded, At
<1> QED
  BY <1>4, <1>5, <1>6, <1>7, <1>8, <1>9, <1>10, <1>11, <1>12 DEF Run

LEMMA AloneStep ==
  ASSUME WaitInv, WaitInv', Superfluous, AloneInv, [Next]_vars
  PROVE  AloneInv'
<1>1. ASSUME UNCHANGED <<bak, sum, order, lastHash, failed>>, hasty' = 0 => hasty = 0,
             \A s \in Slots : MakingNext(s) => Making(s) /\ cmd'[s] = cmd[s]
      PROVE  AloneInv'
  <2>1. \A s \in Slots : Making(s)' <=> MakingNext(s)
    BY DEF Making, MakingNext, Writing, Written
  <2>2. \A s \in Slots : cmd'[s] = cmd[s] => (NewestOf(cmd[s])' <=> NewestOf(cmd[s]))
    BY <1>1 DEF NewestOf, Torn
  <2> QED
    BY <1>1, <2>1, <2>2 DEF AloneInv
<1>2. ASSUME NEW s \in Slots, Update(s) PROVE AloneInv'
  <2>1. UNCHANGED <<bak, sum, order, lastHash, failed, hasty>>
        /\ \A t \in Slots \ {s} : cmd'[t] = cmd[t]
    BY <1>2, UpdateIs DEF store
  <2>2. ~MakingNext(s)
    BY <1>2, UpdateIs, IdleIs DEF MakingNext
  <2> QED
    BY <1>1, <2>1, <2>2 DEF Making, MakingNext
<1>3. CASE Press
  <2>1. UNCHANGED <<bak, sum, order, lastHash, failed>> /\ (hasty' = 0 => hasty = 0)
    <3>1. hasty \in Nat
      BY DEF WaitInv, BackupInv, BackupShape
    <3> QED
      BY <1>3, <3>1, PressIs DEF store
  <2>2. \A s \in Slots : cmd'[s] = cmd[s] \/ cmd'[s].at = "start"
    BY <1>3, PressIs
  <2> QED
    BY <1>1, <2>1, <2>2 DEF Making, MakingNext, Writing, Written
<1>4. CASE Crash
  BY <1>4, IdleIs DEF Crash, AloneInv, Making
<1>5. CASE (\E c \in Contents : EditConfig(c)) \/ ApplyEdited \/ Tick \/ UNCHANGED vars
  BY <1>1, <1>5 DEF EditConfig, ApplyEdited, Tick, vars, store, history, Making, MakingNext
<1> QED
  BY <1>2, <1>3, <1>4, <1>5, AloneAfterRun DEF Next

LEMMA KeepInit == ASSUME Init PROVE KeepInv /\ AloneInv
<1>1. (\A s \in Slots : ~Making(s)) /\ lastHash = NoContent /\ nonce = 0
  BY IdleIs DEF Init, Making
<1>2. \A n \in Names : sum[n].nonce <= nonce
  <2>1. \A n \in Names : sum[n] = NoFile
    BY DEF Init
  <2>2. NoFile.nonce = 0
    BY DEF NoFile
  <2> QED
    BY <1>1, <2>1, <2>2
<1> QED
  BY <1>1, <1>2, BackupConstants DEF KeepInv, AloneInv

\* The end of a backup.
LEMMA DoneIsSafe ==
  ASSUME WaitInv, KeepInv, [Next]_vars, NEW s \in Slots,
         ~At(s, "create", "done"), At(s, "create", "done")', ~clash'
  PROVE  Restorable(cmd[s].src)' \/ cmd[s].src \in gone'
<1>0. cmd'[s].kind = "create" /\ cmd'[s].at = "done" /\ cmd'[s] # cmd[s]
  BY DEF At
<1>1. Run(s)
  <2>1. ~\E t \in Slots : Update(t)
    BY <1>0, UpdateIs, IdleIs
  <2>2. ~Press
    BY <1>0, PressIs
  <2>3. ~Crash
    BY <1>0, IdleIs DEF Crash
  <2>4. ~((\E c \in Contents : EditConfig(c)) \/ ApplyEdited \/ Tick \/ UNCHANGED vars)
    BY <1>0 DEF EditConfig, ApplyEdited, Tick, vars
  <2>5. \A t \in Slots \ {s} : ~Run(t)
    BY <1>0, RunPursues DEF Pursued, WaitInv
  <2> QED
    BY <2>1, <2>2, <2>3, <2>4, <2>5 DEF Next
<1>2. BackupInv /\ cmd[s].kind = "create"
  BY <1>0, <1>1, RunPursues DEF Pursued, WaitInv
<1>3. ASSUME NEW l, Move(s, l) PROVE l = "done" /\ cmd'[s].src = cmd[s].src
  BY <1>0, <1>2, <1>3, MoveIs DEF MoveTurns, Turns
<1>4. (IsDuplicateContent(s) /\ lastHash = cmd[s].src) \/ EnforcePolicyEnds(s)
  <2>1. ~(WriteBackup(s) \/ SaveChecksum(s) \/ SaveLastHash(s))
    <3>1. ~Move(s, "filled") /\ ~Move(s, "failed") /\ ~Move(s, "summed") /\ ~Move(s, "hashed")
      BY <1>3
    <3> QED
      BY <3>1 DEF WriteBackup, SaveChecksum, SaveLastHash
  <2>2. ~(ReadSource(s) \/ OpenBackup(s) \/ ListSurplus(s) \/ Prune(s))
    BY <1>0, <1>2, ReadSourceIs, OpenBackupIs, ListSurplusIs, PruneIs DEF Turns
  <2>3. ~(ListBackups(s) \/ DeleteBackup(s) \/ FindBackup(s) \/ ReadBackup(s)
          \/ VerifyChecksum(s) \/ ReplaceTarget(s) \/ LoadRestored(s) \/ ApplyRestored(s))
    BY <1>2 DEF ListBackups, DeleteBackup, FindBackup, ReadBackup, VerifyChecksum,
       ReplaceTarget, LoadRestored, ApplyRestored, Reloaded, At
  <2>4. IsDuplicateContent(s) => lastHash = cmd[s].src
    <3>1. ~Move(s, "new")
      BY <1>3
    <3> QED
      BY <3>1 DEF IsDuplicateContent
  <2> QED
    BY <1>1, <2>1, <2>2, <2>3, <2>4 DEF Run
<1>5. UNCHANGED <<bak, sum, gone, clash>> /\ cmd'[s].src = cmd[s].src
  <2>1. \E l : Move(s, l)
    BY <1>4 DEF IsDuplicateContent, EnforcePolicyEnds
  <2> QED
    BY <1>3, <1>4, <2>1 DEF IsDuplicateContent, EnforcePolicyEnds, store
<1>6. Safe(cmd[s].src)
  <2>1. CASE IsDuplicateContent(s) /\ lastHash = cmd[s].src
    <3>1. cmd[s].src \in Contents
      BY <1>2, <2>1 DEF IsDuplicateContent, At, BackupInv, BackupShape, CarriedBy
    <3> QED
      BY <1>5, <2>1, <3>1 DEF KeepInv
  <2>2. CASE EnforcePolicyEnds(s)
    <3>1. At(s, "create", "pruning")
      BY <2>2 DEF EnforcePolicyEnds
    <3> QED
      BY <1>5, <3>1 DEF KeepInv, Kept, Making, Writing, At
  <2> QED
    BY <1>4, <2>1, <2>2
<1> QED
  BY <1>5, <1>6 DEF Safe, Restorable, Names

\* What the user is told to be backed up can be restored, unless the user has
\* deleted it, two backups were made in one second, or retention has counted what
\* a failure left or what others were making (manager.go:103-157, router.go:504).
THEOREM WhatIsAcknowledgedIsKept == Spec => AcknowledgedIsKept
<1> DEFINE KInv == WaitInv /\ Superfluous /\ KeepInv /\ AloneInv
           Told == \A s \in Slots :
             ~At(s, "create", "done") /\ At(s, "create", "done")' /\ ~clash' =>
               Restorable(cmd[s].src)' \/ cmd[s].src \in gone'
<1>1. Init => KInv
  BY WaitInvInit, SuperfluousInit, KeepInit
<1>2. KInv /\ [Next]_vars => KInv'
  BY WaitInvStep, SuperfluousStep, KeepStep, AloneStep
<1>3. KInv /\ [Next]_vars => [Told]_vars
  BY DoneIsSafe
<1> HIDE DEF KInv, Told
<1>4. Spec => [][Told]_vars
  BY <1>1, <1>2, <1>3, PTL DEF Spec
<1> QED
  BY <1>4 DEF Told, AcknowledgedIsKept

================================================================================
