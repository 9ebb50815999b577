---------------------------- MODULE AtomicConfig -----------------------------
(***************************************************************************)
(* What ConfigService promises its callers: one configuration, which each  *)
(* call reads or extends at a single instant between its beginning and its *)
(* end.  A call that fails changes nothing.  A crash ends every call; at   *)
(* most one of the calls under way has taken effect by then.               *)
(***************************************************************************)
CONSTANTS Procs, Edits, Migration, NoEdit

AllEdits == Edits \cup {Migration}

VARIABLES
  store,    \* the configuration: the edits it contains
  stage,    \* of each goroutine's call: "idle", "pending", "done"
  kind,     \* the call: "none", "get", "update", "migrate"
  change,   \* the edit the call makes
  result    \* the configuration a finished GetConfig returns

vars == <<store, stage, kind, change, result>>

Init ==
  /\ store \in SUBSET AllEdits
  /\ stage = [p \in Procs |-> "idle"]
  /\ kind = [p \in Procs |-> "none"]
  /\ change = [p \in Procs |-> NoEdit]
  /\ result = [p \in Procs |-> {}]

Begin(p, k, e) ==
  /\ stage[p] = "idle"
  /\ stage' = [stage EXCEPT ![p] = "pending"]
  /\ kind' = [kind EXCEPT ![p] = k]
  /\ change' = [change EXCEPT ![p] = e]
  /\ UNCHANGED <<store, result>>

\* GetConfig reads the whole configuration.
Read(p) ==
  /\ stage[p] = "pending" /\ kind[p] = "get"
  /\ stage' = [stage EXCEPT ![p] = "done"]
  /\ result' = [result EXCEPT ![p] = store]
  /\ UNCHANGED <<store, kind, change>>

\* UpdateConfig and LoadWithMigration add their edit to it.
Apply(p) ==
  /\ stage[p] = "pending" /\ kind[p] \in {"update", "migrate"}
  /\ stage' = [stage EXCEPT ![p] = "done"]
  /\ store' = store \cup {change[p]}
  /\ UNCHANGED <<kind, change, result>>

\* A call ends: after its effect, or with an error and without effect.
End(p) ==
  /\ stage[p] \in {"pending", "done"}
  /\ stage' = [stage EXCEPT ![p] = "idle"]
  /\ kind' = [kind EXCEPT ![p] = "none"]
  /\ change' = [change EXCEPT ![p] = NoEdit]
  /\ result' = [result EXCEPT ![p] = {}]
  /\ UNCHANGED store

Crash ==
  /\ stage' = [p \in Procs |-> "idle"]
  /\ kind' = [p \in Procs |-> "none"]
  /\ change' = [p \in Procs |-> NoEdit]
  /\ result' = [p \in Procs |-> {}]
  /\ \/ UNCHANGED store
     \/ \E p \in Procs :
          /\ stage[p] = "pending" /\ kind[p] \in {"update", "migrate"}
          /\ store' = store \cup {change[p]}

Next ==
  \/ \E p \in Procs : Read(p) \/ Apply(p) \/ End(p)
  \/ \E p \in Procs : Begin(p, "get", NoEdit)
  \/ \E p \in Procs, k \in {"update", "migrate"}, e \in AllEdits : Begin(p, k, e)
  \/ Crash

Spec == Init /\ [][Next]_vars

=============================================================================
