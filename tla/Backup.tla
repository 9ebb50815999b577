-------------------------------- MODULE Backup --------------------------------
(***************************************************************************)
(* Backups of config.yaml: the directory that infra/backup/manager.go      *)
(* keeps, and the page of the interface that creates, lists, restores and  *)
(* deletes them (tui/handlers/key_handler.go, command_builder.go,          *)
(* tui/model/router.go, tui/state/backup_state.go).                        *)
(*                                                                         *)
(* A backup is a file named after the second in which it is written, with  *)
(* a checksum in a second file and the hash of the last source in a third. *)
(* The manager has no lock: commands are goroutines, and every step below  *)
(* is one access to the directory.                                         *)
(*                                                                         *)
(* A ciphertext is its content and the nonce it was sealed with, so that   *)
(* no two are equal; a checksum stands for the ciphertext it was computed  *)
(* from.                                                                   *)
(***************************************************************************)
EXTENDS Naturals, Sequences, FiniteSets, SequencesExt

CONSTANTS
  Contents,     \* contents of config.yaml
  NoContent,
  MaxFiles,     \* RetentionPolicy.MaxFiles
  Slots,        \* bound: commands running at a time
  MaxSecond,    \* bound: seconds that pass
  MaxNonce,     \* bound: backups written
  FaultKinds,   \* the accesses that may fail, once each, and "crash"
  MaxFailed,    \* bound: accesses that fail, and crashes of the program
  MaxHasty      \* bound: keys pressed while a command is under way

ASSUME BackupConstants ==
  /\ NoContent \notin Contents
  /\ MaxFiles \in Nat \ {0}
  /\ MaxSecond \in Nat \ {0}
  /\ {MaxNonce, MaxFailed, MaxHasty} \subseteq Nat
  /\ FaultKinds \subseteq {"write", "sum", "hash", "restore", "stale", "load", "apply", "crash"}

VARIABLES
  \* outside the interface
  config,      \* config.yaml
  known,       \* what the cache of the repository holds
  loaded,      \* what the restores under way have loaded of it again
  edited,      \* what a save of the interface has still to apply
  running,     \* the configuration that ApplyConfig was last given
  now,         \* the second
  bak,         \* the backup files
  sum,         \* their .sha256 files
  order,       \* the names of the backup files, the last written first
  lastHash,    \* .last-hash
  \* BackupState and UIState
  view,        \* CurrentView
  list,        \* BackupList
  question,    \* SelectingIndex and ConfirmMode, with the PendingOp, the
               \* BackupListCursor and the name on the status line they ask about
  cmd,         \* the commands under way
  \* history
  nonce,       \* nonces drawn
  failed,      \* the accesses that have failed
  gone,        \* contents whose backup was deleted by the user, or by retention
               \* after a failure or a hasty key, and not made again
  clash,       \* a backup was written over another of the same second
  hasty,       \* keys pressed while a command was under way
  raced        \* config.yaml was replaced while a restore or a save held what it
               \* had still to apply

source  == <<config, known, loaded, edited, running, raced>>
store   == <<bak, sum, order, lastHash>>
page    == <<view, list, question>>
history == <<nonce, failed, gone, clash, hasty>>
vars == <<source, now, store, page, cmd, history>>

Names == 1 .. MaxSecond
NoName == 0
Data == [content : Contents, nonce : 1 .. MaxNonce]
NoFile == [content |-> NoContent, nonce |-> 0]   \* the file is not there
Torn   == [content |-> NoContent, nonce |-> 1]   \* it is not a whole ciphertext

Kinds == {"none", "list", "create", "restore", "delete"}
Places == {"idle", "start", "read", "new", "opened", "filled", "summed", "hashed",
           "pruning", "named", "loaded", "verified", "restored", "reloaded", "removed",
           "done", "failed"}
Present == {n \in Names : bak[n] # NoFile}
Lists == {l \in Seq(Names) : IsInjective(l)}
Commands ==
  [kind : Kinds, at : Places, index : Nat, name : Names \cup {NoName},
   asked : Names \cup {NoName}, data : Data \cup {NoFile, Torn}, list : Lists,
   src : Contents \cup {NoContent}]

TypeOK ==
  /\ {config, known, edited, running} \subseteq Contents \cup {NoContent}
  /\ loaded \in [Slots -> Contents \cup {NoContent}]
  /\ now \in Names
  /\ bak \in [Names -> Data \cup {NoFile, Torn}]
  /\ sum \in [Names -> Data \cup {NoFile}]
  /\ order \in Lists /\ ToSet(order) = Present
  /\ lastHash \in Contents \cup {NoContent}
  /\ view \in {"tools", "backup"}
  /\ list \in Lists
  /\ question \in [at : {"none", "select", "confirm"}, op : {"restore", "delete"},
                   index : Nat, name : Names \cup {NoName}]
  /\ cmd \in [Slots -> Commands]
  /\ nonce \in 0 .. MaxNonce /\ failed \subseteq FaultKinds
  /\ gone \subseteq Contents
  /\ {clash, raced} \subseteq BOOLEAN /\ hasty \in 0 .. MaxHasty

Idle == [kind |-> "none", at |-> "idle", index |-> 0, name |-> NoName,
         asked |-> NoName, data |-> NoFile, list |-> <<>>, src |-> NoContent]

NoQuestion == [at |-> "none", op |-> "restore", index |-> 0, name |-> NoName]

\* NewBackupState: nothing is shown before the page is opened.
Init ==
  /\ config \in Contents /\ known = config /\ running = config
  /\ loaded = [s \in Slots |-> NoContent] /\ edited = NoContent
  /\ now = 1
  /\ bak = [n \in Names |-> NoFile] /\ sum = [n \in Names |-> NoFile]
  /\ order = <<>> /\ lastHash = NoContent
  /\ view = "tools" /\ list = <<>>
  /\ question = NoQuestion
  /\ cmd = [s \in Slots |-> Idle]
  /\ nonce = 0 /\ failed = {} /\ gone = {}
  /\ clash = FALSE /\ hasty = 0 /\ raced = FALSE

-----------------------------------------------------------------------------
(* Helpers.                                                                *)

FreeSlots == {s \in Slots : cmd[s] = Idle}
AtRest == FreeSlots = Slots

\* One slot is as good as another.
Start(k, i, n, a) ==
  /\ FreeSlots # {}
  /\ cmd' = [cmd EXCEPT ![CHOOSE s \in FreeSlots : TRUE] =
       [Idle EXCEPT !.kind = k, !.at = "start", !.index = i, !.name = n, !.asked = a]]

At(s, k, l) == cmd[s].kind = k /\ cmd[s].at = l
Move(s, l) == cmd' = [cmd EXCEPT ![s].at = l]
End(s) == cmd' = [cmd EXCEPT ![s] = Idle]

Fail(k) ==
  /\ k \in FaultKinds \ failed
  /\ Cardinality(failed) < MaxFailed
  /\ failed' = failed \cup {k}

\* verifyChecksum and Decrypt succeed for exactly these files.
Restorable(c) == \E n \in Names : bak[n] = sum[n] /\ bak[n].content = c

\* The content of a backup, and of those that are being written under its name.
BackedUpAs(n) ==
  Contents \cap ({bak[n].content} \cup {cmd[s].src : s \in {t \in Slots : cmd[t].name = n}})

Verified(n, d) == d \notin {NoFile, Torn} /\ sum[n] = d

\* A file is written: it is now the newest.
Newest(n) == order' = <<n>> \o RemoveFirst(order, n)

\* os.Remove of a backup and of its checksum.
Unlink(n) ==
  /\ bak' = [bak EXCEPT ![n] = NoFile] /\ sum' = [sum EXCEPT ![n] = NoFile]
  /\ order' = RemoveFirst(order, n)

\* A restore has loaded the configuration again, and not yet applied it.
Reloaded(s) == At(s, "restore", "reloaded")

-----------------------------------------------------------------------------
(* The rest of the system.                                                 *)

\* The configuration is edited and saved elsewhere in the interface ...
EditConfig(c) ==
  /\ c # config /\ edited = NoContent
  /\ config' = c /\ known' = c /\ edited' = c
  /\ raced' = \E s \in Slots : Reloaded(s)
  /\ UNCHANGED <<running, now, loaded, store, page, cmd, history>>

\* ... and then applied.
ApplyEdited ==
  /\ edited # NoContent
  /\ running' = edited /\ edited' = NoContent
  /\ UNCHANGED <<config, known, loaded, raced, now, store, page, cmd, history>>

Tick ==
  /\ now < MaxSecond
  /\ now' = now + 1
  /\ UNCHANGED <<source, store, page, cmd, history>>

\* The program dies and is started again, which loads the configuration; the
\* files stay as they are.  With no command under way this would only close the
\* page.
Crash ==
  /\ ~AtRest \/ edited # NoContent
  /\ Fail("crash")
  /\ view' = "tools" /\ list' = <<>>
  /\ question' = NoQuestion
  /\ cmd' = [s \in Slots |-> Idle]
  /\ known' = config /\ loaded' = [s \in Slots |-> NoContent] /\ edited' = NoContent
  /\ UNCHANGED <<config, running, raced, now, store, nonce, gone, clash, hasty>>

-----------------------------------------------------------------------------
(* Keys.                                                                   *)

\* A key is hasty when a command is under way.
Key ==
  /\ hasty' = IF AtRest THEN hasty ELSE hasty + 1
  /\ hasty' <= MaxHasty
  /\ UNCHANGED <<source, now, store, nonce, failed, gone, clash>>

\* The page is opened and its list asked for.
OpenPage ==
  /\ Key /\ view = "tools"
  /\ view' = "backup"
  /\ Start("list", 0, NoName, NoName)
  /\ UNCHANGED <<list, question>>

AskCreate ==
  /\ Key /\ view = "backup" /\ question.at = "none"
  /\ nonce < MaxNonce
  /\ Start("create", 0, NoName, NoName)
  /\ UNCHANGED page

\* "2" and "3": restore or delete, if the list shows a backup.
Choose(o) ==
  /\ Key /\ view = "backup" /\ question.at = "none"
  /\ list # <<>>
  /\ question' = [NoQuestion EXCEPT !.at = "select", !.op = o]
  /\ UNCHANGED <<view, list, cmd>>

\* A number of the list: the status line asks for a YES, with the name.
Select(i) ==
  /\ Key /\ view = "backup" /\ question.at = "select"
  /\ i \in DOMAIN list
  /\ question' = [question EXCEPT !.at = "confirm", !.index = i, !.name = list[i]]
  /\ UNCHANGED <<view, list, cmd>>

\* "YES" deletes the name that is now at the cursor, if there is one; a restore
\* is given the cursor, and looks up the name when it runs.
Yes ==
  /\ Key /\ view = "backup" /\ question.at = "confirm"
  /\ question' = NoQuestion
  /\ LET i == question.index IN
     \/ /\ question.op = "delete" /\ i \in DOMAIN list
        /\ Start("delete", i, list[i], question.name)
     \/ question.op = "delete" /\ i \notin DOMAIN list /\ UNCHANGED cmd
     \/ question.op = "restore" /\ Start("restore", i, NoName, question.name)
  /\ UNCHANGED <<view, list>>

\* Anything else, and Esc, end the question; Esc then leaves the page.
Refuse ==
  /\ Key /\ view = "backup" /\ question.at # "none"
  /\ question' = NoQuestion
  /\ UNCHANGED <<view, list, cmd>>

Escape ==
  /\ Key /\ view = "backup" /\ question.at = "none"
  /\ view' = "tools"
  /\ UNCHANGED <<list, question, cmd>>

-----------------------------------------------------------------------------
(* CreateBackupCmd: Manager.Backup.                                        *)

Unseen == <<source, now, page, hasty>>   \* nothing the manager changes

ReadSource(s) ==
  /\ At(s, "create", "start")
  /\ cmd' = [cmd EXCEPT ![s].at = "read", ![s].src = config]
  /\ UNCHANGED <<Unseen, store, nonce, failed, gone, clash>>

\* A source with the last hash is not written again, and reported as success.
IsDuplicateContent(s) ==
  /\ At(s, "create", "read")
  /\ Move(s, IF lastHash = cmd[s].src THEN "done" ELSE "new")
  /\ UNCHANGED <<Unseen, store, nonce, failed, gone, clash>>

\* The file of this second is created, or emptied ...
OpenBackup(s) ==
  /\ At(s, "create", "new") /\ nonce < MaxNonce
  /\ nonce' = nonce + 1
  /\ cmd' = [cmd EXCEPT ![s].at = "opened", ![s].name = now,
               ![s].data = [content |-> cmd[s].src, nonce |-> nonce + 1]]
  /\ bak' = [bak EXCEPT ![now] = Torn]
  /\ Newest(now)
  /\ clash' = (clash \/ bak[now] # NoFile \/ \E t \in Slots : cmd[t].name = now)
  /\ UNCHANGED <<Unseen, sum, lastHash, failed, gone>>

\* ... and written; over what another command has written since, the end of the
\* longer may remain, and a file deleted since stays so.  A failure leaves what
\* there is.
WriteBackup(s) ==
  /\ At(s, "create", "opened")
  /\ LET n == cmd[s].name IN
     \/ /\ bak[n] # NoFile
        /\ \E d \in {cmd[s].data} \cup (IF bak[n] = Torn THEN {} ELSE {Torn}) :
             bak' = [bak EXCEPT ![n] = d]
        /\ Newest(n)
        /\ Move(s, "filled") /\ UNCHANGED failed
     \/ /\ bak[n] = NoFile
        /\ Move(s, "filled") /\ UNCHANGED <<bak, order, failed>>
     \/ /\ Fail("write")
        /\ Move(s, "failed") /\ UNCHANGED <<bak, order>>
  /\ UNCHANGED <<Unseen, sum, lastHash, nonce, gone, clash>>

\* Slip: a checksum that could not be saved is not noticed.
SaveChecksumAnyhow(s) ==
  /\ At(s, "create", "filled")
  /\ Move(s, "summed")
  /\ \/ sum' = [sum EXCEPT ![cmd[s].name] = cmd[s].data] /\ UNCHANGED failed
     \/ Fail("sum") /\ UNCHANGED sum
  /\ UNCHANGED <<Unseen, bak, order, lastHash, nonce, gone, clash>>

\* saveChecksum replaces the checksum; when it fails the backup is removed.
SaveChecksum(s) ==
  /\ At(s, "create", "filled")
  /\ LET n == cmd[s].name IN
     \/ /\ sum' = [sum EXCEPT ![n] = cmd[s].data]
        /\ Move(s, "summed") /\ UNCHANGED <<bak, order, failed>>
     \/ /\ Fail("sum")
        /\ bak' = [bak EXCEPT ![n] = NoFile] /\ order' = RemoveFirst(order, n)
        /\ Move(s, "failed") /\ UNCHANGED sum
  /\ UNCHANGED <<Unseen, lastHash, nonce, gone, clash>>

\* saveLastHash fails silently.
SaveLastHash(s) ==
  /\ At(s, "create", "summed")
  /\ Move(s, "hashed")
  /\ \/ lastHash' = cmd[s].src /\ UNCHANGED failed
     \/ Fail("hash") /\ UNCHANGED lastHash
  /\ gone' = IF Restorable(cmd[s].src) THEN gone \ {cmd[s].src} ELSE gone
  /\ UNCHANGED <<Unseen, bak, sum, order, nonce, clash>>

\* Slips: one fewer is kept, one more is kept.
ListSurplusEarly(s) ==
  /\ At(s, "create", "hashed")
  /\ cmd' = [cmd EXCEPT ![s].at = "pruning",
                        ![s].list = SubSeq(order, MaxFiles, Len(order))]
  /\ UNCHANGED <<Unseen, store, nonce, failed, gone, clash>>

ListSurplusLate(s) ==
  /\ At(s, "create", "hashed")
  /\ cmd' = [cmd EXCEPT ![s].at = "pruning",
                        ![s].list = SubSeq(order, MaxFiles + 2, Len(order))]
  /\ UNCHANGED <<Unseen, store, nonce, failed, gone, clash>>

\* enforcePolicy lists the backups (with no MaxAge, setup.go:49) ...
ListSurplus(s) ==
  /\ At(s, "create", "hashed")
  /\ cmd' = [cmd EXCEPT ![s].at = "pruning",
                        ![s].list = SubSeq(order, MaxFiles + 1, Len(order))]
  /\ UNCHANGED <<Unseen, store, nonce, failed, gone, clash>>

\* ... and removes those that come after the first MaxFiles, one by one ...
Prune(s) ==
  /\ At(s, "create", "pruning") /\ cmd[s].list # <<>>
  /\ Unlink(Head(cmd[s].list))
  /\ cmd' = [cmd EXCEPT ![s].list = Tail(cmd[s].list)]
  /\ gone' = IF failed = {} /\ hasty = 0 THEN gone
                                         ELSE gone \cup BackedUpAs(Head(cmd[s].list))
  /\ UNCHANGED <<Unseen, lastHash, nonce, failed, clash>>

\* ... after which the backup has been made.
EnforcePolicyEnds(s) ==
  /\ At(s, "create", "pruning") /\ cmd[s].list = <<>>
  /\ Move(s, "done")
  /\ UNCHANGED <<Unseen, store, nonce, failed, gone, clash>>

-----------------------------------------------------------------------------
(* The other commands.                                                     *)

Aside == <<now, page, nonce, clash, hasty>>

\* ListBackupsCmd, and the end of DeleteBackupCmd: Manager.List.
ListBackups(s) ==
  /\ At(s, "list", "start") \/ At(s, "delete", "removed")
  /\ cmd' = [cmd EXCEPT ![s].at = "done", ![s].list = order]
  /\ UNCHANGED <<source, Aside, store, failed, gone>>

\* DeleteBackupCmd removes the two files; .last-hash stays.
DeleteBackup(s) ==
  /\ At(s, "delete", "start")
  /\ Unlink(cmd[s].name)
  /\ gone' = gone \cup BackedUpAs(cmd[s].name)
  /\ Move(s, "removed")
  /\ UNCHANGED <<source, Aside, lastHash, failed>>

\* Slip: the cursor is taken for zero-based once more.
FindBackupBefore(s) ==
  /\ At(s, "restore", "start")
  /\ IF cmd[s].index - 1 \in DOMAIN list
       THEN cmd' = [cmd EXCEPT ![s].at = "named", ![s].name = list[cmd[s].index - 1]]
       ELSE Move(s, "failed")
  /\ UNCHANGED <<source, Aside, store, failed, gone>>

\* RestoreBackupCmd looks up the name in the list that is shown when it runs.
FindBackup(s) ==
  /\ At(s, "restore", "start")
  /\ IF cmd[s].index \in DOMAIN list
       THEN cmd' = [cmd EXCEPT ![s].at = "named", ![s].name = list[cmd[s].index]]
       ELSE Move(s, "failed")
  /\ UNCHANGED <<source, Aside, store, failed, gone>>

\* Manager.Restore reads the backup ...
ReadBackup(s) ==
  /\ At(s, "restore", "named")
  /\ \/ cmd[s].name \notin Present /\ Move(s, "failed")
     \/ /\ cmd[s].name \in Present
        /\ cmd' = [cmd EXCEPT ![s].at = "loaded", ![s].data = bak[cmd[s].name]]
  /\ UNCHANGED <<source, Aside, store, failed, gone>>

\* Slip: the backup is restored whatever its checksum says.
VerifyNothing(s) ==
  /\ At(s, "restore", "loaded")
  /\ Move(s, "verified")
  /\ UNCHANGED <<source, Aside, store, failed, gone>>

\* ... verifies its checksum and decrypts it ...
VerifyChecksum(s) ==
  /\ At(s, "restore", "loaded")
  /\ Move(s, IF Verified(cmd[s].name, cmd[s].data) THEN "verified" ELSE "failed")
  /\ UNCHANGED <<source, Aside, store, failed, gone>>

\* ... and renames a temporary file to config.yaml.
ReplaceTarget(s) ==
  /\ At(s, "restore", "verified")
  /\ \/ /\ config' = cmd[s].data.content /\ Move(s, "restored") /\ UNCHANGED failed
        /\ raced' = (raced \/ edited # NoContent \/ \E t \in Slots : Reloaded(t))
     \/ Fail("restore") /\ Move(s, "failed") /\ UNCHANGED <<config, raced>>
  /\ UNCHANGED <<known, loaded, edited, running, Aside, store, gone>>

\* RestoreBackupCmd loads the restored configuration: GetConfig reads the file, or
\* takes its time for that of the cache, or fails, which ends the command ...
LoadRestored(s) ==
  /\ At(s, "restore", "restored")
  /\ \/ /\ known' = config /\ loaded' = [loaded EXCEPT ![s] = config]
        /\ Move(s, "reloaded") /\ UNCHANGED failed
     \/ /\ Fail("stale") /\ loaded' = [loaded EXCEPT ![s] = known]
        /\ Move(s, "reloaded") /\ UNCHANGED known
     \/ Fail("load") /\ Move(s, "done") /\ UNCHANGED <<known, loaded>>
  /\ UNCHANGED <<config, edited, running, raced, Aside, store, gone>>

\* Slip: the restored configuration is not applied.
RestoredUnapplied(s) ==
  /\ Reloaded(s)
  /\ loaded' = [loaded EXCEPT ![s] = NoContent]
  /\ Move(s, "done")
  /\ UNCHANGED <<config, known, edited, running, raced, Aside, store, failed, gone>>

\* ... and applies what it was given; an error is ignored.
ApplyRestored(s) ==
  /\ Reloaded(s)
  /\ \/ running' = loaded[s] /\ UNCHANGED failed
     \/ Fail("apply") /\ UNCHANGED running
  /\ loaded' = [loaded EXCEPT ![s] = NoContent]
  /\ Move(s, "done")
  /\ UNCHANGED <<config, known, edited, raced, Aside, store, gone>>

-----------------------------------------------------------------------------
(* Messages.                                                               *)

Still == <<source, now, store, history, view, question>>

\* Slip: the names are added to those that are shown.
BackupListAppended(s) ==
  /\ At(s, "list", "done") \/ At(s, "delete", "done")
  /\ list' = list \o cmd[s].list
  /\ End(s)
  /\ UNCHANGED Still

\* BackupListMsg.
BackupListed(s) ==
  /\ At(s, "list", "done") \/ At(s, "delete", "done")
  /\ list' = cmd[s].list
  /\ End(s)
  /\ UNCHANGED Still

\* Slip: the list is not asked for again.
BackupCreatedUnlisted(s) ==
  /\ At(s, "create", "done")
  /\ End(s)
  /\ UNCHANGED <<Still, list>>

\* BackupCreateMsg without an error: the list is asked for again.
BackupCreated(s) ==
  /\ At(s, "create", "done")
  /\ cmd' = [cmd EXCEPT ![s] = [Idle EXCEPT !.kind = "list", !.at = "start"]]
  /\ UNCHANGED <<Still, list>>

\* Errors, and the ConfigUpdateMsg of a restore (module EditSession).
StatusOnly(s) ==
  /\ cmd[s].at = "failed" \/ At(s, "restore", "done")
  /\ End(s)
  /\ UNCHANGED <<Still, list>>

-----------------------------------------------------------------------------
Press ==
  \/ OpenPage \/ AskCreate \/ Choose("restore") \/ Choose("delete")
  \/ \E i \in Names : Select(i)
  \/ Yes \/ Refuse \/ Escape

Run(s) ==
  \/ ReadSource(s) \/ IsDuplicateContent(s) \/ OpenBackup(s) \/ WriteBackup(s)
  \/ SaveChecksum(s) \/ SaveLastHash(s) \/ ListSurplus(s) \/ Prune(s)
  \/ EnforcePolicyEnds(s)
  \/ ListBackups(s) \/ DeleteBackup(s) \/ FindBackup(s) \/ ReadBackup(s)
  \/ VerifyChecksum(s) \/ ReplaceTarget(s) \/ LoadRestored(s) \/ ApplyRestored(s)

Update(s) == BackupListed(s) \/ BackupCreated(s) \/ StatusOnly(s)

Next ==
  \/ Press
  \/ \E s \in Slots : Run(s) \/ Update(s)
  \/ \E c \in Contents : EditConfig(c)
  \/ ApplyEdited \/ Tick \/ Crash

Spec == Init /\ [][Next]_vars

-----------------------------------------------------------------------------
(* Properties.                                                             *)

\* A command restores or deletes the backup whose name was in the question that
\* the user answered (key_handler.go:1442-1455), and no other.
ActsOnTheOneAsked ==
  \A s \in Slots :
    cmd[s].kind \in {"restore", "delete"} /\ cmd[s].name # NoName =>
      cmd[s].name = cmd[s].asked

\* So it is for a user who waits until what was begun has ended.
ActsOnTheOneAskedWhenCalm == hasty = 0 => ActsOnTheOneAsked

\* When a backup ends with the success that tells the user that the
\* configuration has been backed up (router.go:504), a backup of it can be
\* restored, unless the user has deleted it, two backups were made in one
\* second, or retention has counted what a failed backup left behind or what
\* others were making at the same time.
AcknowledgedIsKept ==
  [][\A s \in Slots :
       ~At(s, "create", "done") /\ At(s, "create", "done")' /\ ~clash' =>
         Restorable(cmd[s].src)' \/ cmd[s].src \in gone']_vars

\* No more than MaxFiles backups stay, and those that a failed or interrupted
\* backup has left: one for each failure, and one for a crash unless it met several
\* commands of a user who does not wait.
RetentionHolds ==
  (\A s \in Slots : cmd[s].kind # "create") /\ ("crash" \in failed => hasty = 0) =>
    Cardinality(Present) <= MaxFiles + Cardinality(failed)

\* What is restored is a whole configuration that was backed up: a restore
\* never takes what a crash, a failure or another backup has left half written.
RestoresWholeBackups == {config, running} \subseteq Contents

\* The configuration that sing-box was given is the one in the file, unless a load
\* after a restore, or an ApplyConfig, has failed, the load has answered from the
\* cache, the program has died in between, or the file was replaced while a restore
\* or a save was between what it loaded or saved and its ApplyConfig
\* (command_builder.go:697-699, :419-433).
RestoredIsRunning ==
  AtRest /\ edited = NoContent /\ ~raced
    /\ failed \cap {"stale", "load", "apply", "crash"} = {} => running = config

\* The page shows the backups there are, when a user who waits looks at it and
\* no backup has failed.
ListIsCurrent ==
  AtRest /\ view = "backup" /\ hasty = 0 /\ failed = {} => list = order

\* Retention leaves the newest MaxFiles backups where they are, and when it has
\* ended there are no others (manager.go:212).
RetentionKeepsTheNewest ==
  [][hasty' = 0 => \A s \in Slots : At(s, "create", "pruning") =>
       /\ \A i \in DOMAIN order : i <= MaxFiles =>
            i \in DOMAIN order' /\ order'[i] = order[i]
       /\ cmd'[s].at = "done" => Len(order') <= MaxFiles]_vars

=============================================================================
