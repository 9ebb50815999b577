------------------------------ MODULE MCBackup ------------------------------
(* Backup, for TLC.                                                        *)
EXTENDS Backup

\* No content is told from another but by comparing them, and no slot at all:
\* Start takes any of the free ones, which a permutation of them leaves as they
\* are.
Alike == Permutations(Contents) \cup Permutations(Slots)

ASSUME OneFailure == MaxFailed <= 1

\* When an access has failed none other will: which one it was matters to the
\* properties alone, for a crash and for those that RestoredIsRunning names, and
\* what the cache holds matters no more.
FailedAs ==
  CASE failed = {} -> "none"
    [] failed = {"crash"} -> "crash"
    [] failed \subseteq {"stale", "load", "apply"} -> "apply"
    [] OTHER -> "store"

Seen ==
  <<config, IF failed = {} THEN known ELSE NoContent, loaded, edited, running, raced,
    now, store, page, cmd, nonce, FailedAs, gone, clash, hasty>>

=============================================================================
