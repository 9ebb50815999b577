-------------------------- MODULE EditSessionProofs --------------------------
(***************************************************************************)
(* Proofs about EditSession: for a user who waits for the commands, what   *)
(* is saved is what runs; and, while the file can be read and written and  *)
(* the menus are not mixed, the flag is honest but for what a request for  *)
(* a certificate has put into the file, and no edit is lost but for what a *)
(* save has written over; for any edits, slots and addresses.              *)
(***************************************************************************)
EXTENDS EditSession, TLAPS

Cmds == [kind : Kinds, at : Places, obj : Objs \cup {NoObj},
         edit : AllEdits \cup {NoEdit}, cfg : SUBSET AllEdits]

\* A command whose configuration in memory is still to be used.
Holding(s) ==
  \/ cmd[s].at = "got"
  \/ At(s, "route", "done")
  \/ cmd[s].kind \in {"save", "log"} /\ cmd[s].at \in {"saved", "generated", "done"}

Editing(s) == cmd[s].kind \in {"port", "reset", "route", "cert", "log", "uuid", "dns"}

SessionType ==
  /\ TypeOK
  /\ \A s \in Slots :
       (Holding(s) => cmd[s].obj \in Objs) /\ (Editing(s) => cmd[s].edit \in AllEdits)

\* What is to come, as far as edits go, is nothing or a restart.
Bystander(s) == cmd[s].kind \in {"none", "restart"} /\ cmd[s].edit = NoEdit

\* At most s is under way besides restarts.
Only(s) == \A t \in Slots \ {s} : Bystander(t)

Same(c, d) == c \ Later = d \ Later

\* What s carries, and how it can have failed.
InOrder(s) ==
  /\ Holding(s) => cmd[s].obj = ptr
  /\ At(s, "save", "saved") => disk = Mem
  /\ cmd[s].at = "generated" => cmd[s].cfg = disk
  /\ At(s, "load", "done") \/ At(s, "restore", "done") => cmd[s].cfg = disk
  /\ At(s, "port", "done") \/ At(s, "reset", "done") => cmd[s].cfg = Mem \cup {cmd[s].edit}
  /\ ~At(s, "reset", "failed")
  /\ At(s, "load", "failed") => "load" \in failed
  /\ At(s, "save", "failed") => failed \cap {"save", "apply"} # {}
  /\ At(s, "cert", "failed") \/ At(s, "log", "failed") => "save" \in failed

\* Where s was begun, and with what edit.
Begun(s) ==
  /\ cmd[s].kind = "port" => view = "ports"
  /\ cmd[s].kind = "reset" => view \in {"ports", "progress"}
  /\ cmd[s].kind = "uuid" => view = "field"
  /\ cmd[s].kind = "save" => view = "main"
  /\ cmd[s].kind \in {"route", "cert", "log"} => view = cmd[s].kind
  /\ cmd[s].kind = "dns" => view = "cert"
  /\ cmd[s].kind \in {"backup", "restore"} => view = "backup"
  /\ cmd[s].kind \in {"core", "install"} => view = "progress" /\ unsaved
  /\ cmd[s].kind \in {"cert", "log"} => cmd[s].edit \in Later
  /\ cmd[s].kind = "dns" => cmd[s].edit \in Behind
  /\ ~Editing(s) => cmd[s].edit = NoEdit

\* s is about to give sing-box what is saved.
Serving(s) ==
  \/ cmd[s].kind \in {"save", "install"} /\ cmd[s].at \in {"saved", "generated"}
  \/ cmd[s].kind = "restore" /\ cmd[s].at \in {"restored", "generated"}

Served(s) ==
  failed \cap {"apply", "reload"} = {} =>
    (Same(json, disk) /\ Same(running, disk)) \/ Serving(s)

\* A restore has replaced the file, and not yet the memory.
Restored(s) == cmd[s].kind = "restore" /\ cmd[s].at \notin {"start", "failed"}

\* Memory and file come together when s ends, or the flag will be set.
Settling(s) ==
  \/ cmd[s].kind = "load" \/ At(s, "save", "start") \/ At(s, "save", "got")
  \/ At(s, "route", "done") \/ At(s, "cert", "done") \/ Restored(s)
  \/ (cmd[s].kind = "reset" /\ view = "progress")

\* Its edit is made, or given up.
Landed(s) ==
  /\ At(s, "port", "failed") => cmd[s].edit \in dropped
  /\ cmd[s].at \notin {"start", "got"} =>
       /\ cmd[s].kind = "route" => cmd[s].edit \in Mem \cup dropped
       /\ cmd[s].kind = "log" => cmd[s].edit \in Mem
       /\ cmd[s].kind = "cert" => cmd[s].edit \in disk \cup dropped
       /\ cmd[s].kind = "dns" => cmd[s].edit \in disk \cup dropped

\* Where the edits are that the user has made.
Saved == made \subseteq disk \cup dropped \cup overwritten
Kept == made \subseteq Mem \cup (disk \cap Behind) \cup dropped \cup overwritten
KeptBy(s) ==
  made \subseteq Mem \cup (disk \cap Behind) \cup dropped \cup overwritten \cup {cmd[s].edit}

InCalm(s) ==
  /\ cmd[s].kind = "load" \/ Restored(s) => Saved
  /\ cmd[s].kind = "save" /\ cmd[s].at \notin {"start", "got"} => disk = Mem
  /\ cmd[s].kind = "cert" \/ (cmd[s].kind = "restore" /\ ~Restored(s)) => Mem \subseteq disk
  /\ cmd[s].kind = "log" => Close
  /\ Landed(s)
  /\ ~unsaved => Close \/ Settling(s)
  /\ ~(cmd[s].kind = "load" \/ Restored(s)) => KeptBy(s)

Steady(s) == InOrder(s) /\ Begun(s) /\ Served(s) /\ (Calm => InCalm(s))

\* Unsaved changes stay in the configuration menu, unless routing is edited or
\* something installed.
Visited ==
  /\ view \in {"route", "cert", "log", "backup", "install"} => view \in visits
  /\ view = "progress" => "install" \in visits
  /\ visits \cap {"route", "install"} = {} /\ unsaved => view \in {"config", "field", "ports"}

InvOf(s) == Visited /\ Only(s) /\ Steady(s)

SessionInv == SessionType /\ (Patient => \E s \in Slots : InvOf(s))

LEMMA InvIsEnough ==
  ASSUME SessionInv
  PROVE  /\ TypeOK /\ (Patient => RunningIsSaved)
         /\ FlagIsHonestWhenCalm /\ KeptWhenCalm
<1>1. TypeOK
  BY DEF SessionInv, SessionType
<1> SUFFICES ASSUME Patient PROVE RunningIsSaved /\ FlagIsHonestWhenCalm /\ KeptWhenCalm
  BY <1>1 DEF FlagIsHonestWhenCalm, KeptWhenCalm, Calm
<1> PICK s \in Slots : Only(s) /\ Steady(s)
  BY DEF SessionInv, InvOf
<1>2. AtRest => cmd[s].kind = "none" /\ cmd[s].at = "idle" /\ cmd[s].edit = NoEdit
  BY DEF AtRest, Idle
<1>3. RunningIsSaved
  BY <1>2 DEF RunningIsSaved, Steady, Served, Serving, Same
<1>4. FlagIsHonestWhenCalm
  BY <1>2 DEF FlagIsHonestWhenCalm, Steady, InCalm, Settling, Restored, At
<1>5. KeptWhenCalm
  <2> SUFFICES ASSUME Calm, AtRest PROVE Kept
    BY DEF KeptWhenCalm, Kept
  <2>1. made \subseteq Mem \cup (disk \cap Behind) \cup dropped \cup overwritten \cup {NoEdit}
    BY <1>2 DEF Steady, InCalm, Restored, KeptBy
  <2>2. NoEdit \notin made
    BY <1>1, SessionConstants DEF TypeOK
  <2> QED
    BY <2>1, <2>2 DEF Kept
<1> QED
  BY <1>3, <1>4, <1>5

-----------------------------------------------------------------------------
\* The commands and the configurations in memory.

\* What a step does to the command of s, and to no other.
Others(s) == \A t \in Slots \ {s} : cmd'[t] = cmd[t]

Becomes(s, k, l, o, e, g) ==
  /\ cmd' \in [Slots -> Cmds] /\ Others(s)
  /\ cmd'[s].kind = k /\ cmd'[s].at = l /\ cmd'[s].obj = o
  /\ cmd'[s].edit = e /\ cmd'[s].cfg = g

Goes(s, l, o, g) == Becomes(s, cmd[s].kind, l, o, cmd[s].edit, g)

CmdType ==
  /\ cmd \in [Slots -> Cmds]
  /\ \A s \in Slots :
       (Holding(s) => cmd[s].obj \in Objs) /\ (Editing(s) => cmd[s].edit \in AllEdits)

MemType == heap \in [Objs -> SUBSET AllEdits] /\ ptr \in Objs

FlagType ==
  /\ unsaved \in BOOLEAN /\ confirm \in BOOLEAN
  /\ exitConfirm \in BOOLEAN /\ portMode \in BOOLEAN

OutType ==
  /\ view \in Views /\ chosen \subseteq AllEdits /\ finished \in BOOLEAN
  /\ visits \in Sessions /\ failed \subseteq FaultKinds
  /\ disk \subseteq AllEdits /\ backup \subseteq AllEdits
  /\ json \subseteq AllEdits /\ running \subseteq AllEdits
  /\ made \subseteq AllEdits /\ dropped \subseteq AllEdits
  /\ overwritten \subseteq AllEdits /\ answered \subseteq AllEdits

LEMMA TypeParts ==
  /\ SessionType <=> CmdType /\ MemType /\ FlagType /\ OutType
  /\ SessionType' <=> CmdType' /\ MemType' /\ FlagType' /\ OutType'
BY DEF SessionType, TypeOK, CmdType, MemType, FlagType, OutType, Cmds

LEMMA FlagsStay == ASSUME FlagType, UNCHANGED modes PROVE FlagType'
BY DEF FlagType, modes

LEMMA MoveIs ==
  ASSUME CmdType, NEW s \in Slots, NEW l \in Places, Move(s, l)
  PROVE  Goes(s, l, cmd[s].obj, cmd[s].cfg)
<1> DEFINE c == [cmd[s] EXCEPT !.at = l]
<1>1. c = [cmd[s] EXCEPT !.at = l] /\ cmd' = [cmd EXCEPT ![s] = c] /\ cmd[s] \in Cmds
  BY DEF Move, CmdType
<1> HIDE DEF c
<1>2. /\ c \in Cmds /\ c.kind = cmd[s].kind /\ c.at = l /\ c.obj = cmd[s].obj
      /\ c.edit = cmd[s].edit /\ c.cfg = cmd[s].cfg
  BY <1>1 DEF Cmds
<1> QED
  BY <1>1, <1>2 DEF Goes, Becomes, Others, CmdType

LEMMA MoveObjIs ==
  ASSUME CmdType, NEW s \in Slots, NEW l \in Places, NEW o \in Objs \cup {NoObj},
         cmd' = [cmd EXCEPT ![s].at = l, ![s].obj = o]
  PROVE  Goes(s, l, o, cmd[s].cfg)
<1> DEFINE c == [cmd[s] EXCEPT !.at = l, !.obj = o]
<1>1. /\ c = [cmd[s] EXCEPT !.at = l, !.obj = o]
      /\ cmd' = [cmd EXCEPT ![s] = c] /\ cmd[s] \in Cmds
  BY DEF CmdType
<1> HIDE DEF c
<1>2. /\ c \in Cmds /\ c.kind = cmd[s].kind /\ c.at = l /\ c.obj = o
      /\ c.edit = cmd[s].edit /\ c.cfg = cmd[s].cfg
  BY <1>1 DEF Cmds
<1> QED
  BY <1>1, <1>2 DEF Goes, Becomes, Others, CmdType

LEMMA MoveCfgIs ==
  ASSUME CmdType, NEW s \in Slots, NEW l \in Places, NEW g \in SUBSET AllEdits,
         cmd' = [cmd EXCEPT ![s].at = l, ![s].cfg = g]
  PROVE  Goes(s, l, cmd[s].obj, g)
<1> DEFINE c == [cmd[s] EXCEPT !.at = l, !.cfg = g]
<1>1. /\ c = [cmd[s] EXCEPT !.at = l, !.cfg = g]
      /\ cmd' = [cmd EXCEPT ![s] = c] /\ cmd[s] \in Cmds
  BY DEF CmdType
<1> HIDE DEF c
<1>2. /\ c \in Cmds /\ c.kind = cmd[s].kind /\ c.at = l /\ c.obj = cmd[s].obj
      /\ c.edit = cmd[s].edit /\ c.cfg = g
  BY <1>1 DEF Cmds
<1> QED
  BY <1>1, <1>2 DEF Goes, Becomes, Others, CmdType

LEMMA MoveAllIs ==
  ASSUME CmdType, NEW s \in Slots, NEW l \in Places, NEW o \in Objs \cup {NoObj},
         NEW g \in SUBSET AllEdits,
         cmd' = [cmd EXCEPT ![s].at = l, ![s].obj = o, ![s].cfg = g]
  PROVE  Goes(s, l, o, g)
<1> DEFINE c == [cmd[s] EXCEPT !.at = l, !.obj = o, !.cfg = g]
<1>1. /\ c = [cmd[s] EXCEPT !.at = l, !.obj = o, !.cfg = g]
      /\ cmd' = [cmd EXCEPT ![s] = c] /\ cmd[s] \in Cmds
  BY DEF CmdType
<1> HIDE DEF c
<1>2. /\ c \in Cmds /\ c.kind = cmd[s].kind /\ c.at = l /\ c.obj = o
      /\ c.edit = cmd[s].edit /\ c.cfg = g
  BY <1>1 DEF Cmds
<1> QED
  BY <1>1, <1>2 DEF Goes, Becomes, Others, CmdType

LEMMA CommandIs ==
  ASSUME NEW k \in Kinds, NEW e \in AllEdits \cup {NoEdit}, NEW c, c = Command(k, e)
  PROVE  /\ c \in Cmds /\ c.kind = k /\ c.at = "start" /\ c.obj = NoObj /\ c.edit = e
         /\ c.cfg = {}
BY DEF Command, Idle, Cmds, Places

LEMMA IdleIs ==
  /\ Idle \in Cmds /\ Idle.kind = "none" /\ Idle.at = "idle" /\ Idle.obj = NoObj
  /\ Idle.edit = NoEdit /\ Idle.cfg = {}
BY DEF Idle, Cmds, Kinds, Places

LEMMA FollowIs ==
  ASSUME CmdType, NEW s \in Slots, NEW k \in Kinds, Follow(s, k)
  PROVE  Becomes(s, k, "start", NoObj, NoEdit, {})
<1> DEFINE c == Command(k, NoEdit)
<1>1. c = Command(k, NoEdit) /\ cmd' = [cmd EXCEPT ![s] = c]
  BY DEF Follow
<1> HIDE DEF c
<1>2. /\ c \in Cmds /\ c.kind = k /\ c.at = "start" /\ c.obj = NoObj /\ c.edit = NoEdit
      /\ c.cfg = {}
  BY <1>1, CommandIs
<1> QED
  BY <1>1, <1>2 DEF Becomes, Others, CmdType

LEMMA EndIs ==
  ASSUME CmdType, NEW s \in Slots, End(s) PROVE Becomes(s, "none", "idle", NoObj, NoEdit, {})
BY IdleIs DEF End, Becomes, Others, CmdType

LEMMA CmdTypeOf ==
  ASSUME CmdType, NEW s \in Slots, cmd' \in [Slots -> Cmds], Others(s),
         Holding(s)' => cmd'[s].obj \in Objs, Editing(s)' => cmd'[s].edit \in AllEdits
  PROVE  CmdType'
BY DEF CmdType, Others, Holding, Editing, At

LEMMA MemStays == ASSUME UNCHANGED memVars PROVE Mem' = Mem /\ (MemType => MemType')
BY DEF memVars, Mem, MemType

LEMMA Installed ==
  ASSUME SessionType, NEW c \in SUBSET AllEdits, Install(c) PROVE Mem' = c /\ MemType'
<1> DEFINE held == [s \in Slots |-> cmd[s].obj]
<1>1. held \in [Slots -> Objs \cup {NoObj}] /\ ptr \in Objs
  BY TypeParts DEF CmdType, Cmds, MemType
<1>2. PICK o \in Objs : o # ptr /\ \A s \in Slots : held[s] # o
  BY <1>1, ObjsSuffice
<1>3. o \notin Held
  BY <1>2 DEF Held
<1>4. NewObj \in Objs
  BY <1>2, <1>3 DEF NewObj
<1>5. heap \in [Objs -> SUBSET AllEdits]
  BY TypeParts DEF MemType
<1> QED
  BY <1>4, <1>5 DEF Install, Mem, MemType

LEMMA PointedTo ==
  ASSUME MemType, NEW o \in Objs, PointTo(o) PROVE MemType' /\ ptr' = o /\ (o = ptr => Mem' = Mem)
BY DEF PointTo, MemType, Mem

LEMMA EditedMem ==
  ASSUME MemType, NEW o \in Objs, NEW e \in AllEdits, EditMem(o, e), UNCHANGED ptr
  PROVE  MemType' /\ (o = ptr => Mem' = Mem \cup {e})
BY DEF EditMem, MemType, Mem

LEMMA Faults == ASSUME NEW k, Fail(k) PROVE k \in FaultKinds /\ failed' = failed \cup {k}
BY DEF Fail

-----------------------------------------------------------------------------
\* The steps of the commands, each with its effect on what is said of it.

StepKept(s) ==
  SessionType' /\ Others(s) /\ (Visited /\ Steady(s) => Visited' /\ Steady(s)')

LEMMA StepIs ==
  ASSUME CmdType, NEW s \in Slots, NEW k, NEW l, NEW o, NEW e, NEW g,
         Becomes(s, k, l, o, e, g), MemType', FlagType', OutType',
         Holding(s)' => o \in Objs, Editing(s)' => e \in AllEdits,
         Visited /\ Steady(s) => Visited' /\ Steady(s)'
  PROVE  StepKept(s)
BY CmdTypeOf, TypeParts DEF Becomes, StepKept

LEMMA LoadConfigKeeps == ASSUME SessionType, NEW s \in Slots, LoadConfig(s) PROVE StepKept(s)
<1>1. /\ At(s, "load", "start")
      /\ cmd[s] \in Cmds /\ CmdType /\ MemType /\ FlagType /\ OutType /\ NoEdit \notin made
      /\ (Editing(s) => cmd[s].edit \in AllEdits) /\ (Holding(s) => cmd[s].obj \in Objs)
  BY TypeParts, SessionConstants DEF LoadConfig, CmdType, OutType
<1>2. UNCHANGED <<memVars, modes, screen, outVars, past>>
  BY DEF LoadConfig
<1>3. CASE cmd' = [cmd EXCEPT ![s].at = "done", ![s].cfg = disk] /\ UNCHANGED failed
  <2>1. Mem' = Mem /\ MemType'
    BY <1>1, <1>2, <1>3, MemStays DEF memVars
  <2>2. FlagType'
    BY <1>1, <1>2, <1>3, <2>1, FlagsStay DEF FlagType, modes
  <2>3. Goes(s, "done", cmd[s].obj, disk)
    BY <1>1, <1>2, <1>3, <2>1, <2>2, MoveCfgIs DEF Places, OutType, Cmds
  <2>4. OutType'
    BY <1>1, <1>2, <1>3, <2>1, <2>2, <2>3 DEF OutType, Holding, Editing, At, Becomes,
       Goes, memVars, modes, screen, wizard, outVars, history, past
  <2>5. Visited /\ Steady(s) => Visited' /\ Steady(s)'
    BY <1>1, <1>2, <1>3, <2>1, <2>2, <2>3, <2>4 DEF Steady, InOrder, Begun, Served,
       Serving, Calm, InCalm, Settling, Restored, Landed, Close, Saved, KeptBy, Visited,
       Holding, Editing, At, Same, Goes, Becomes, memVars, modes, screen, wizard,
       outVars, history, past
  <2> QED
    BY <1>1, <1>2, <1>3, <2>1, <2>2, <2>3, <2>4, <2>5, StepIs DEF Goes, Becomes,
       Holding, Editing, At
<1>4. CASE Fail("load") /\ Move(s, "failed")
  <2>1. Mem' = Mem /\ MemType'
    BY <1>1, <1>2, <1>4, MemStays DEF memVars
  <2>2. FlagType'
    BY <1>1, <1>2, <1>4, <2>1, FlagsStay DEF FlagType, modes
  <2>3. Goes(s, "failed", cmd[s].obj, cmd[s].cfg)
    BY <1>1, <1>2, <1>4, <2>1, <2>2, MoveIs DEF Places
  <2>4. OutType'
    BY <1>1, <1>2, <1>4, <2>1, <2>2, <2>3, Faults DEF OutType, Holding, Editing, At,
       Becomes, Goes, memVars, modes, screen, wizard, outVars, history, past
  <2>5. Visited /\ Steady(s) => Visited' /\ Steady(s)'
    BY <1>1, <1>2, <1>4, <2>1, <2>2, <2>3, <2>4, Faults DEF Steady, InOrder, Begun,
       Served, Serving, Calm, InCalm, Settling, Restored, Landed, Close, Saved, KeptBy,
       Visited, Holding, Editing, At, Same, Goes, Becomes, memVars, modes, screen,
       wizard, outVars, history, past
  <2> QED
    BY <1>1, <1>2, <1>4, <2>1, <2>2, <2>3, <2>4, <2>5, StepIs DEF Goes, Becomes,
       Holding, Editing, At
<1> QED
  BY <1>3, <1>4, <1>1 DEF LoadConfig, At

LEMMA GetConfigKeeps == ASSUME SessionType, NEW s \in Slots, GetConfig(s) PROVE StepKept(s)
<1>1. /\ cmd[s].kind \in {"port", "reset", "route", "save", "log"}
      /\ cmd[s].at = "start"
      /\ cmd[s] \in Cmds /\ CmdType /\ MemType /\ FlagType /\ OutType /\ NoEdit \notin made
      /\ (Editing(s) => cmd[s].edit \in AllEdits) /\ (Holding(s) => cmd[s].obj \in Objs)
  BY TypeParts, SessionConstants DEF GetConfig, CmdType, OutType
<1>2. UNCHANGED <<memVars, modes, screen, outVars, history>>
  BY DEF GetConfig
<1>3. Mem' = Mem /\ MemType'
  BY <1>1, <1>2, MemStays DEF memVars
<1>4. FlagType'
  BY <1>1, <1>2, <1>3, FlagsStay DEF FlagType, modes
<1>5. Goes(s, "got", ptr, cmd[s].cfg)
  BY <1>1, <1>2, <1>3, <1>4, MoveObjIs DEF Places, MemType, GetConfig
<1>6. OutType'
  BY <1>1, <1>2, <1>3, <1>4, <1>5 DEF OutType, Holding, Editing, At, Becomes, Goes,
     memVars, modes, screen, wizard, outVars, history, past, MemType
<1>7. Visited /\ Steady(s) => Visited' /\ Steady(s)'
  BY <1>1, <1>2, <1>3, <1>4, <1>5, <1>6 DEF Steady, InOrder, Begun, Served, Serving, Calm,
     InCalm, Settling, Restored, Landed, Close, Saved, KeptBy, Visited, Holding, Editing,
     At, Same, Goes, Becomes, memVars, modes, screen, wizard, outVars, history, past,
     MemType
<1> QED
  BY <1>1, <1>2, <1>3, <1>4, <1>5, <1>6, <1>7, StepIs DEF Goes, Becomes, Holding, Editing,
     At, MemType

LEMMA ChangePortKeeps == ASSUME SessionType, NEW s \in Slots, ChangePort(s) PROVE StepKept(s)
<1>1. /\ cmd[s].kind \in {"port", "reset"} /\ cmd[s].at = "got"
      /\ cmd[s] \in Cmds /\ CmdType /\ MemType /\ FlagType /\ OutType /\ NoEdit \notin made
      /\ (Editing(s) => cmd[s].edit \in AllEdits) /\ (Holding(s) => cmd[s].obj \in Objs)
  BY TypeParts, SessionConstants DEF ChangePort, CmdType, OutType
<1>2. UNCHANGED <<memVars, modes, screen, outVars, visits, made, overwritten, answered>>
  BY DEF ChangePort
<1>3. CASE /\ cmd' = [cmd EXCEPT ![s].at = "done", ![s].obj = NoObj,
                              ![s].cfg = heap[cmd[s].obj] \cup {cmd[s].edit}]
           /\ UNCHANGED <<failed, dropped>>
  <2>1. PICK g \in SUBSET AllEdits : g = heap[cmd[s].obj] \cup {cmd[s].edit}
    BY <1>1, <1>2, <1>3 DEF MemType, Holding, Editing, At
  <2>2. cmd' = [cmd EXCEPT ![s].at = "done", ![s].obj = NoObj, ![s].cfg = g]
    BY <1>1, <1>2, <1>3, <2>1
  <2>3. "done" \in Places /\ NoObj \in Objs \cup {NoObj} /\ CmdType
    BY <1>1, <1>2, <1>3, <2>1, <2>2 DEF Places
  <2>4. Mem' = Mem /\ MemType'
    BY <1>1, <1>2, <1>3, <2>1, <2>2, <2>3, MemStays DEF memVars
  <2>5. FlagType'
    BY <1>1, <1>2, <1>3, <2>1, <2>2, <2>3, <2>4, FlagsStay DEF FlagType, modes
  <2>6. Goes(s, "done", NoObj, g)
    BY <2>1, <2>2, <2>3, MoveAllIs, Zenon
  <2>7. OutType'
    BY <1>1, <1>2, <1>3, <2>1, <2>2, <2>3, <2>4, <2>5, <2>6 DEF OutType, Holding,
       Editing, At, Becomes, Goes, memVars, modes, screen, wizard, outVars, history,
       past, Mem
  <2>8. Visited /\ Steady(s) => Visited' /\ Steady(s)'
    BY <1>1, <1>2, <1>3, <2>1, <2>2, <2>3, <2>4, <2>5, <2>6, <2>7 DEF Steady, InOrder,
       Begun, Served, Serving, Calm, InCalm, Settling, Restored, Landed, Close, Saved,
       KeptBy, Visited, Holding, Editing, At, Same, Goes, Becomes, memVars, modes,
       screen, wizard, outVars, history, past, Mem
  <2> QED
    BY <1>1, <1>2, <1>3, <2>1, <2>2, <2>3, <2>4, <2>5, <2>6, <2>7, <2>8, StepIs DEF
       Goes, Becomes, Holding, Editing, At, Mem
<1>4. CASE /\ Fail("invalid") /\ dropped' = dropped \cup {cmd[s].edit} /\ cmd[s].kind = "port"
           /\ cmd' = [cmd EXCEPT ![s].at = "failed", ![s].obj = NoObj]
  <2>1. Mem' = Mem /\ MemType'
    BY <1>1, <1>2, <1>4, MemStays DEF memVars
  <2>2. FlagType'
    BY <1>1, <1>2, <1>4, <2>1, FlagsStay DEF FlagType, modes
  <2>3. Goes(s, "failed", NoObj, cmd[s].cfg)
    BY <1>1, <1>2, <1>4, <2>1, <2>2, MoveObjIs DEF Places, MemType
  <2>4. OutType'
    BY <1>1, <1>2, <1>4, <2>1, <2>2, <2>3, Faults DEF OutType, Holding, Editing, At,
       Becomes, Goes, memVars, modes, screen, wizard, outVars, history, past
  <2>5. Visited /\ Steady(s) => Visited' /\ Steady(s)'
    BY <1>1, <1>2, <1>4, <2>1, <2>2, <2>3, <2>4, Faults DEF Steady, InOrder, Begun,
       Served, Serving, Calm, InCalm, Settling, Restored, Landed, Close, Saved, KeptBy,
       Visited, Holding, Editing, At, Same, Goes, Becomes, memVars, modes, screen,
       wizard, outVars, history, past
  <2> QED
    BY <1>1, <1>2, <1>4, <2>1, <2>2, <2>3, <2>4, <2>5, StepIs DEF Goes, Becomes,
       Holding, Editing, At
<1> QED
  BY <1>3, <1>4, <1>1 DEF ChangePort, At

LEMMA ChangeRouteKeeps == ASSUME SessionType, NEW s \in Slots, ChangeRoute(s) PROVE StepKept(s)
<1>1. /\ At(s, "route", "got")
      /\ cmd[s] \in Cmds /\ CmdType /\ MemType /\ FlagType /\ OutType /\ NoEdit \notin made
      /\ (Editing(s) => cmd[s].edit \in AllEdits) /\ (Holding(s) => cmd[s].obj \in Objs)
  BY TypeParts, SessionConstants DEF ChangeRoute, CmdType, OutType
<1>2. UNCHANGED <<ptr, modes, screen, outVars, visits, made, overwritten, answered>>
  BY DEF ChangeRoute
<1>3. CASE EditMem(cmd[s].obj, cmd[s].edit) /\ Move(s, "done") /\ UNCHANGED <<failed, dropped>>
  <2>1. MemType' /\ (cmd[s].obj = ptr => Mem' = Mem \cup {cmd[s].edit})
    BY <1>1, <1>2, <1>3, EditedMem DEF Holding, Editing, At
  <2>2. FlagType'
    BY <1>1, <1>2, <1>3, <2>1, FlagsStay DEF FlagType, modes
  <2>3. Goes(s, "done", cmd[s].obj, cmd[s].cfg)
    BY <1>1, <1>2, <1>3, <2>1, <2>2, MoveIs DEF Places
  <2>4. OutType'
    BY <1>1, <1>2, <1>3, <2>1, <2>2, <2>3 DEF OutType, Holding, Editing, At, Becomes,
       Goes, memVars, modes, screen, wizard, outVars, history, past
  <2>5. Visited /\ Steady(s) => Visited' /\ Steady(s)'
    BY <1>1, <1>2, <1>3, <2>1, <2>2, <2>3, <2>4 DEF Steady, InOrder, Begun, Served,
       Serving, Calm, InCalm, Settling, Restored, Landed, Close, Saved, KeptBy, Visited,
       Holding, Editing, At, Same, Goes, Becomes, memVars, modes, screen, wizard,
       outVars, history, past
  <2> QED
    BY <1>1, <1>2, <1>3, <2>1, <2>2, <2>3, <2>4, <2>5, StepIs DEF Goes, Becomes,
       Holding, Editing, At
<1>4. CASE /\ Fail("invalid") /\ Move(s, "failed") /\ UNCHANGED heap
           /\ dropped' = dropped \cup {cmd[s].edit}
  <2>1. Mem' = Mem /\ MemType'
    BY <1>1, <1>2, <1>4 DEF Mem, MemType
  <2>2. FlagType'
    BY <1>1, <1>2, <1>4, <2>1, FlagsStay DEF FlagType, modes
  <2>3. Goes(s, "failed", cmd[s].obj, cmd[s].cfg)
    BY <1>1, <1>2, <1>4, <2>1, <2>2, MoveIs DEF Places
  <2>4. OutType'
    BY <1>1, <1>2, <1>4, <2>1, <2>2, <2>3, Faults DEF OutType, Holding, Editing, At,
       Becomes, Goes, memVars, modes, screen, wizard, outVars, history, past
  <2>5. Visited /\ Steady(s) => Visited' /\ Steady(s)'
    BY <1>1, <1>2, <1>4, <2>1, <2>2, <2>3, <2>4, Faults DEF Steady, InOrder, Begun,
       Served, Serving, Calm, InCalm, Settling, Restored, Landed, Close, Saved, KeptBy,
       Visited, Holding, Editing, At, Same, Goes, Becomes, memVars, modes, screen,
       wizard, outVars, history, past
  <2> QED
    BY <1>1, <1>2, <1>4, <2>1, <2>2, <2>3, <2>4, <2>5, StepIs DEF Goes, Becomes,
       Holding, Editing, At
<1> QED
  BY <1>3, <1>4, <1>1 DEF ChangeRoute, At

LEMMA SaveConfigKeeps == ASSUME SessionType, NEW s \in Slots, SaveConfig(s) PROVE StepKept(s)
<1>1. /\ At(s, "save", "got")
      /\ cmd[s] \in Cmds /\ CmdType /\ MemType /\ FlagType /\ OutType /\ NoEdit \notin made
      /\ (Editing(s) => cmd[s].edit \in AllEdits) /\ (Holding(s) => cmd[s].obj \in Objs)
  BY TypeParts, SessionConstants DEF SaveConfig, CmdType, OutType
<1>2. UNCHANGED <<memVars, modes, screen, backup, json, running, visits, made, dropped,
                 answered>>
  BY DEF SaveConfig
<1>3. CASE /\ disk' = heap[cmd[s].obj] /\ Move(s, "saved") /\ UNCHANGED failed
           /\ overwritten' = overwritten \cup ((disk \ heap[cmd[s].obj]) \cap Behind)
  <2>1. Mem' = Mem /\ MemType'
    BY <1>1, <1>2, <1>3, MemStays DEF memVars
  <2>2. FlagType'
    BY <1>1, <1>2, <1>3, <2>1, FlagsStay DEF FlagType, modes
  <2>3. Goes(s, "saved", cmd[s].obj, cmd[s].cfg)
    BY <1>1, <1>2, <1>3, <2>1, <2>2, MoveIs DEF Places
  <2>4. OutType'
    BY <1>1, <1>2, <1>3, <2>1, <2>2, <2>3 DEF OutType, Holding, Editing, At, Becomes,
       Goes, memVars, modes, screen, wizard, outVars, history, past, Mem, MemType
  <2>5. Visited /\ Steady(s) => Visited' /\ Steady(s)'
    BY <1>1, <1>2, <1>3, <2>1, <2>2, <2>3, <2>4 DEF Steady, InOrder, Begun, Served,
       Serving, Calm, InCalm, Settling, Restored, Landed, Close, Saved, KeptBy, Visited,
       Holding, Editing, At, Same, Goes, Becomes, memVars, modes, screen, wizard,
       outVars, history, past, Mem, MemType
  <2> QED
    BY <1>1, <1>2, <1>3, <2>1, <2>2, <2>3, <2>4, <2>5, StepIs DEF Goes, Becomes,
       Holding, Editing, At, Mem, MemType
<1>4. CASE Fail("save") /\ Move(s, "failed") /\ UNCHANGED <<disk, overwritten>>
  <2>1. Mem' = Mem /\ MemType'
    BY <1>1, <1>2, <1>4, MemStays DEF memVars
  <2>2. FlagType'
    BY <1>1, <1>2, <1>4, <2>1, FlagsStay DEF FlagType, modes
  <2>3. Goes(s, "failed", cmd[s].obj, cmd[s].cfg)
    BY <1>1, <1>2, <1>4, <2>1, <2>2, MoveIs DEF Places
  <2>4. OutType'
    BY <1>1, <1>2, <1>4, <2>1, <2>2, <2>3, Faults DEF OutType, Holding, Editing, At,
       Becomes, Goes, memVars, modes, screen, wizard, outVars, history, past
  <2>5. Visited /\ Steady(s) => Visited' /\ Steady(s)'
    BY <1>1, <1>2, <1>4, <2>1, <2>2, <2>3, <2>4, Faults DEF Steady, InOrder, Begun,
       Served, Serving, Calm, InCalm, Settling, Restored, Landed, Close, Saved, KeptBy,
       Visited, Holding, Editing, At, Same, Goes, Becomes, memVars, modes, screen,
       wizard, outVars, history, past
  <2> QED
    BY <1>1, <1>2, <1>4, <2>1, <2>2, <2>3, <2>4, <2>5, StepIs DEF Goes, Becomes,
       Holding, Editing, At
<1> QED
  BY <1>3, <1>4, <1>1 DEF SaveConfig, At

LEMMA GenerateConfigKeeps ==
  ASSUME SessionType, NEW s \in Slots, GenerateConfig(s)
  PROVE  StepKept(s)
<1>1. /\ At(s, "save", "saved")
      /\ cmd[s] \in Cmds /\ CmdType /\ MemType /\ FlagType /\ OutType /\ NoEdit \notin made
      /\ (Editing(s) => cmd[s].edit \in AllEdits) /\ (Holding(s) => cmd[s].obj \in Objs)
  BY TypeParts, SessionConstants DEF GenerateConfig, CmdType, OutType
<1>2. UNCHANGED <<memVars, modes, screen, outVars, past>>
  BY DEF GenerateConfig
<1>3. CASE /\ cmd' = [cmd EXCEPT ![s].at = "generated", ![s].cfg = heap[cmd[s].obj]]
           /\ UNCHANGED failed
  <2>1. heap[cmd[s].obj] \in SUBSET AllEdits
    BY <1>1, <1>2, <1>3 DEF MemType, Holding, At
  <2>2. Mem' = Mem /\ MemType'
    BY <1>1, <1>2, <1>3, <2>1, MemStays DEF memVars
  <2>3. FlagType'
    BY <1>1, <1>2, <1>3, <2>1, <2>2, FlagsStay DEF FlagType, modes
  <2>4. Goes(s, "generated", cmd[s].obj, heap[cmd[s].obj])
    BY <1>1, <1>2, <1>3, <2>1, <2>2, <2>3, MoveCfgIs DEF Places, OutType, Cmds
  <2>5. OutType'
    BY <1>1, <1>2, <1>3, <2>1, <2>2, <2>3, <2>4 DEF OutType, Holding, Editing, At,
       Becomes, Goes, memVars, modes, screen, wizard, outVars, history, past, Mem
  <2>6. Visited /\ Steady(s) => Visited' /\ Steady(s)'
    BY <1>1, <1>2, <1>3, <2>1, <2>2, <2>3, <2>4, <2>5 DEF Steady, InOrder, Begun,
       Served, Serving, Calm, InCalm, Settling, Restored, Landed, Close, Saved, KeptBy,
       Visited, Holding, Editing, At, Same, Goes, Becomes, memVars, modes, screen,
       wizard, outVars, history, past, Mem
  <2> QED
    BY <1>1, <1>2, <1>3, <2>1, <2>2, <2>3, <2>4, <2>5, <2>6, StepIs DEF Goes, Becomes,
       Holding, Editing, At, Mem
<1>4. CASE Fail("apply") /\ Move(s, "failed")
  <2>1. Mem' = Mem /\ MemType'
    BY <1>1, <1>2, <1>4, MemStays DEF memVars
  <2>2. FlagType'
    BY <1>1, <1>2, <1>4, <2>1, FlagsStay DEF FlagType, modes
  <2>3. Goes(s, "failed", cmd[s].obj, cmd[s].cfg)
    BY <1>1, <1>2, <1>4, <2>1, <2>2, MoveIs DEF Places
  <2>4. OutType'
    BY <1>1, <1>2, <1>4, <2>1, <2>2, <2>3, Faults DEF OutType, Holding, Editing, At,
       Becomes, Goes, memVars, modes, screen, wizard, outVars, history, past
  <2>5. Visited /\ Steady(s) => Visited' /\ Steady(s)'
    BY <1>1, <1>2, <1>4, <2>1, <2>2, <2>3, <2>4, Faults DEF Steady, InOrder, Begun,
       Served, Serving, Calm, InCalm, Settling, Restored, Landed, Close, Saved, KeptBy,
       Visited, Holding, Editing, At, Same, Goes, Becomes, memVars, modes, screen,
       wizard, outVars, history, past
  <2> QED
    BY <1>1, <1>2, <1>4, <2>1, <2>2, <2>3, <2>4, <2>5, StepIs DEF Goes, Becomes,
       Holding, Editing, At
<1> QED
  BY <1>3, <1>4, <1>1 DEF GenerateConfig, At

LEMMA ApplyKeeps ==
  ASSUME SessionType, NEW s \in Slots, NEW good, NEW bad, NEW c, Apply(s, good, bad, c),
         \/ /\ At(s, "save", "generated") /\ good = "done" /\ bad = "failed" /\ c = {}
         \/ /\ At(s, "install", "generated") /\ good = "applied" /\ bad = "failed" /\ c = {}
         \/ /\ At(s, "restore", "generated") /\ good = "done" /\ bad = "done"
            /\ c = cmd[s].cfg
  PROVE  StepKept(s)
<1>1. /\ \/ At(s, "save", "generated") /\ good = "done" /\ bad = "failed"
         \/ At(s, "install", "generated") /\ good = "applied" /\ bad = "failed"
         \/ At(s, "restore", "generated") /\ good = "done" /\ bad = "done" /\ c = cmd[s].cfg
      /\ good \in Places /\ bad \in Places /\ c \in SUBSET AllEdits
      /\ cmd[s] \in Cmds /\ CmdType /\ MemType /\ FlagType /\ OutType /\ NoEdit \notin made
      /\ (Editing(s) => cmd[s].edit \in AllEdits) /\ (Holding(s) => cmd[s].obj \in Objs)
  BY TypeParts, SessionConstants DEF CmdType, OutType, Cmds, Places
<1>2. UNCHANGED <<memVars, modes, screen, disk, backup, past>>
  BY DEF Apply
<1>3. CASE /\ json' = cmd[s].cfg /\ running' = cmd[s].cfg /\ UNCHANGED failed
           /\ cmd' = [cmd EXCEPT ![s].at = good, ![s].cfg = c]
  <2>1. Mem' = Mem /\ MemType'
    BY <1>1, <1>2, <1>3, MemStays DEF memVars
  <2>2. FlagType'
    BY <1>1, <1>2, <1>3, <2>1, FlagsStay DEF FlagType, modes
  <2>3. Goes(s, good, cmd[s].obj, c)
    BY <1>1, <1>2, <1>3, <2>1, <2>2, MoveCfgIs
  <2>4. OutType'
    BY <1>1, <1>2, <1>3, <2>1, <2>2, <2>3 DEF OutType, Holding, Editing, At, Becomes,
       Goes, memVars, modes, screen, wizard, outVars, history, past, Cmds
  <2>5. Visited /\ Steady(s) => Visited' /\ Steady(s)'
    BY <1>1, <1>2, <1>3, <2>1, <2>2, <2>3, <2>4 DEF Steady, InOrder, Begun, Served,
       Serving, Calm, InCalm, Settling, Restored, Landed, Close, Saved, KeptBy, Visited,
       Holding, Editing, At, Same, Goes, Becomes, memVars, modes, screen, wizard,
       outVars, history, past, Cmds
  <2> QED
    BY <1>1, <1>2, <1>3, <2>1, <2>2, <2>3, <2>4, <2>5, StepIs DEF Goes, Becomes,
       Holding, Editing, At, Cmds
<1>4. CASE /\ json' \in {json, cmd[s].cfg} /\ Fail("apply") /\ UNCHANGED running
           /\ cmd' = [cmd EXCEPT ![s].at = bad, ![s].cfg = c]
  <2>1. Mem' = Mem /\ MemType'
    BY <1>1, <1>2, <1>4, MemStays DEF memVars
  <2>2. FlagType'
    BY <1>1, <1>2, <1>4, <2>1, FlagsStay DEF FlagType, modes
  <2>3. Goes(s, bad, cmd[s].obj, c)
    BY <1>1, <1>2, <1>4, <2>1, <2>2, MoveCfgIs
  <2>4. OutType'
    BY <1>1, <1>2, <1>4, <2>1, <2>2, <2>3, Faults DEF OutType, Holding, Editing, At,
       Becomes, Goes, memVars, modes, screen, wizard, outVars, history, past, Cmds
  <2>5. Visited /\ Steady(s) => Visited' /\ Steady(s)'
    BY <1>1, <1>2, <1>4, <2>1, <2>2, <2>3, <2>4, Faults DEF Steady, InOrder, Begun,
       Served, Serving, Calm, InCalm, Settling, Restored, Landed, Close, Saved, KeptBy,
       Visited, Holding, Editing, At, Same, Goes, Becomes, memVars, modes, screen,
       wizard, outVars, history, past, Cmds
  <2> QED
    BY <1>1, <1>2, <1>4, <2>1, <2>2, <2>3, <2>4, <2>5, StepIs DEF Goes, Becomes,
       Holding, Editing, At, Cmds
<1> QED
  BY <1>3, <1>4 DEF Apply

LEMMA ApplyConfigKeeps == ASSUME SessionType, NEW s \in Slots, ApplyConfig(s) PROVE StepKept(s)
BY ApplyKeeps DEF ApplyConfig

LEMMA ToggleCertModeKeeps ==
  ASSUME SessionType, NEW s \in Slots, ToggleCertMode(s)
  PROVE  StepKept(s)
<1>1. /\ At(s, "cert", "start")
      /\ cmd[s] \in Cmds /\ CmdType /\ MemType /\ FlagType /\ OutType /\ NoEdit \notin made
      /\ (Editing(s) => cmd[s].edit \in AllEdits) /\ (Holding(s) => cmd[s].obj \in Objs)
  BY TypeParts, SessionConstants DEF ToggleCertMode, CmdType, OutType
<1>2. UNCHANGED <<memVars, modes, screen, backup, json, running, visits, made, overwritten,
                 answered>>
  BY DEF ToggleCertMode
<1>3. CASE disk' = disk \cup {cmd[s].edit} /\ Move(s, "done") /\ UNCHANGED <<failed, dropped>>
  <2>1. Mem' = Mem /\ MemType'
    BY <1>1, <1>2, <1>3, MemStays DEF memVars
  <2>2. FlagType'
    BY <1>1, <1>2, <1>3, <2>1, FlagsStay DEF FlagType, modes
  <2>3. Goes(s, "done", cmd[s].obj, cmd[s].cfg)
    BY <1>1, <1>2, <1>3, <2>1, <2>2, MoveIs DEF Places
  <2>4. OutType'
    BY <1>1, <1>2, <1>3, <2>1, <2>2, <2>3 DEF OutType, Holding, Editing, At, Becomes,
       Goes, memVars, modes, screen, wizard, outVars, history, past
  <2>5. Visited /\ Steady(s) => Visited' /\ Steady(s)'
    BY <1>1, <1>2, <1>3, <2>1, <2>2, <2>3, <2>4 DEF Steady, InOrder, Begun, Served,
       Serving, Calm, InCalm, Settling, Restored, Landed, Close, Saved, KeptBy, Visited,
       Holding, Editing, At, Same, Goes, Becomes, memVars, modes, screen, wizard,
       outVars, history, past
  <2> QED
    BY <1>1, <1>2, <1>3, <2>1, <2>2, <2>3, <2>4, <2>5, StepIs DEF Goes, Becomes,
       Holding, Editing, At
<1>4. CASE /\ Fail("save") /\ Move(s, "failed") /\ UNCHANGED disk
           /\ dropped' = dropped \cup {cmd[s].edit}
  <2>1. Mem' = Mem /\ MemType'
    BY <1>1, <1>2, <1>4, MemStays DEF memVars
  <2>2. FlagType'
    BY <1>1, <1>2, <1>4, <2>1, FlagsStay DEF FlagType, modes
  <2>3. Goes(s, "failed", cmd[s].obj, cmd[s].cfg)
    BY <1>1, <1>2, <1>4, <2>1, <2>2, MoveIs DEF Places
  <2>4. OutType'
    BY <1>1, <1>2, <1>4, <2>1, <2>2, <2>3, Faults DEF OutType, Holding, Editing, At,
       Becomes, Goes, memVars, modes, screen, wizard, outVars, history, past
  <2>5. Visited /\ Steady(s) => Visited' /\ Steady(s)'
    BY <1>1, <1>2, <1>4, <2>1, <2>2, <2>3, <2>4, Faults DEF Steady, InOrder, Begun,
       Served, Serving, Calm, InCalm, Settling, Restored, Landed, Close, Saved, KeptBy,
       Visited, Holding, Editing, At, Same, Goes, Becomes, memVars, modes, screen,
       wizard, outVars, history, past
  <2> QED
    BY <1>1, <1>2, <1>4, <2>1, <2>2, <2>3, <2>4, <2>5, StepIs DEF Goes, Becomes,
       Holding, Editing, At
<1> QED
  BY <1>3, <1>4, <1>1 DEF ToggleCertMode, At

LEMMA ChangeLogLevelKeeps ==
  ASSUME SessionType, NEW s \in Slots, ChangeLogLevel(s)
  PROVE  StepKept(s)
<1>1. /\ At(s, "log", "got") /\ EditMem(cmd[s].obj, cmd[s].edit)
      /\ cmd[s] \in Cmds /\ CmdType /\ MemType /\ FlagType /\ OutType /\ NoEdit \notin made
      /\ (Editing(s) => cmd[s].edit \in AllEdits) /\ (Holding(s) => cmd[s].obj \in Objs)
  BY TypeParts, SessionConstants DEF ChangeLogLevel, CmdType, OutType
<1>2. UNCHANGED <<ptr, modes, screen, backup, json, running, past>>
  BY DEF ChangeLogLevel
<1>3. CASE disk' = disk \cup {cmd[s].edit} /\ Move(s, "saved") /\ UNCHANGED failed
  <2>1. MemType' /\ (cmd[s].obj = ptr => Mem' = Mem \cup {cmd[s].edit})
    BY <1>1, <1>2, <1>3, EditedMem DEF Holding, Editing, At
  <2>2. FlagType'
    BY <1>1, <1>2, <1>3, <2>1, FlagsStay DEF FlagType, modes
  <2>3. Goes(s, "saved", cmd[s].obj, cmd[s].cfg)
    BY <1>1, <1>2, <1>3, <2>1, <2>2, MoveIs DEF Places
  <2>4. OutType'
    BY <1>1, <1>2, <1>3, <2>1, <2>2, <2>3 DEF OutType, Holding, Editing, At, Becomes,
       Goes, memVars, modes, screen, wizard, outVars, history, past
  <2>5. Visited /\ Steady(s) => Visited' /\ Steady(s)'
    BY <1>1, <1>2, <1>3, <2>1, <2>2, <2>3, <2>4 DEF Steady, InOrder, Begun, Served,
       Serving, Calm, InCalm, Settling, Restored, Landed, Close, Saved, KeptBy, Visited,
       Holding, Editing, At, Same, Goes, Becomes, memVars, modes, screen, wizard,
       outVars, history, past
  <2> QED
    BY <1>1, <1>2, <1>3, <2>1, <2>2, <2>3, <2>4, <2>5, StepIs DEF Goes, Becomes,
       Holding, Editing, At
<1>4. CASE Fail("save") /\ Move(s, "failed") /\ UNCHANGED disk
  <2>1. MemType' /\ (cmd[s].obj = ptr => Mem' = Mem \cup {cmd[s].edit})
    BY <1>1, <1>2, <1>4, EditedMem DEF Holding, Editing, At
  <2>2. FlagType'
    BY <1>1, <1>2, <1>4, <2>1, FlagsStay DEF FlagType, modes
  <2>3. Goes(s, "failed", cmd[s].obj, cmd[s].cfg)
    BY <1>1, <1>2, <1>4, <2>1, <2>2, MoveIs DEF Places
  <2>4. OutType'
    BY <1>1, <1>2, <1>4, <2>1, <2>2, <2>3, Faults DEF OutType, Holding, Editing, At,
       Becomes, Goes, memVars, modes, screen, wizard, outVars, history, past
  <2>5. Visited /\ Steady(s) => Visited' /\ Steady(s)'
    BY <1>1, <1>2, <1>4, <2>1, <2>2, <2>3, <2>4, Faults DEF Steady, InOrder, Begun,
       Served, Serving, Calm, InCalm, Settling, Restored, Landed, Close, Saved, KeptBy,
       Visited, Holding, Editing, At, Same, Goes, Becomes, memVars, modes, screen,
       wizard, outVars, history, past
  <2> QED
    BY <1>1, <1>2, <1>4, <2>1, <2>2, <2>3, <2>4, <2>5, StepIs DEF Goes, Becomes,
       Holding, Editing, At
<1> QED
  BY <1>3, <1>4, <1>1 DEF ChangeLogLevel, At

LEMMA StoreCredentialsKeeps ==
  ASSUME SessionType, NEW s \in Slots, StoreCredentials(s)
  PROVE  StepKept(s)
<1>1. /\ At(s, "dns", "start")
      /\ cmd[s] \in Cmds /\ CmdType /\ MemType /\ FlagType /\ OutType /\ NoEdit \notin made
      /\ (Editing(s) => cmd[s].edit \in AllEdits) /\ (Holding(s) => cmd[s].obj \in Objs)
  BY TypeParts, SessionConstants DEF StoreCredentials, CmdType, OutType
<1>2. UNCHANGED <<memVars, modes, screen, backup, json, running, visits, made, overwritten,
                 answered>>
  BY DEF StoreCredentials
<1>3. CASE disk' = disk \cup {cmd[s].edit} /\ Move(s, "stored") /\ UNCHANGED <<failed, dropped>>
  <2>1. Mem' = Mem /\ MemType'
    BY <1>1, <1>2, <1>3, MemStays DEF memVars
  <2>2. FlagType'
    BY <1>1, <1>2, <1>3, <2>1, FlagsStay DEF FlagType, modes
  <2>3. Goes(s, "stored", cmd[s].obj, cmd[s].cfg)
    BY <1>1, <1>2, <1>3, <2>1, <2>2, MoveIs DEF Places
  <2>4. OutType'
    BY <1>1, <1>2, <1>3, <2>1, <2>2, <2>3 DEF OutType, Holding, Editing, At, Becomes,
       Goes, memVars, modes, screen, wizard, outVars, history, past, Later
  <2>5. Visited /\ Steady(s) => Visited' /\ Steady(s)'
    BY <1>1, <1>2, <1>3, <2>1, <2>2, <2>3, <2>4 DEF Steady, InOrder, Begun, Served,
       Serving, Calm, InCalm, Settling, Restored, Landed, Close, Saved, KeptBy, Visited,
       Holding, Editing, At, Same, Goes, Becomes, memVars, modes, screen, wizard,
       outVars, history, past, Later
  <2> QED
    BY <1>1, <1>2, <1>3, <2>1, <2>2, <2>3, <2>4, <2>5, StepIs DEF Goes, Becomes,
       Holding, Editing, At, Later
<1>4. CASE /\ Fail("save") /\ Move(s, "failed") /\ UNCHANGED disk
           /\ dropped' = dropped \cup {cmd[s].edit}
  <2>1. Mem' = Mem /\ MemType'
    BY <1>1, <1>2, <1>4, MemStays DEF memVars
  <2>2. FlagType'
    BY <1>1, <1>2, <1>4, <2>1, FlagsStay DEF FlagType, modes
  <2>3. Goes(s, "failed", cmd[s].obj, cmd[s].cfg)
    BY <1>1, <1>2, <1>4, <2>1, <2>2, MoveIs DEF Places
  <2>4. OutType'
    BY <1>1, <1>2, <1>4, <2>1, <2>2, <2>3, Faults DEF OutType, Holding, Editing, At,
       Becomes, Goes, memVars, modes, screen, wizard, outVars, history, past
  <2>5. Visited /\ Steady(s) => Visited' /\ Steady(s)'
    BY <1>1, <1>2, <1>4, <2>1, <2>2, <2>3, <2>4, Faults DEF Steady, InOrder, Begun,
       Served, Serving, Calm, InCalm, Settling, Restored, Landed, Close, Saved, KeptBy,
       Visited, Holding, Editing, At, Same, Goes, Becomes, memVars, modes, screen,
       wizard, outVars, history, past
  <2> QED
    BY <1>1, <1>2, <1>4, <2>1, <2>2, <2>3, <2>4, <2>5, StepIs DEF Goes, Becomes,
       Holding, Editing, At
<1> QED
  BY <1>3, <1>4, <1>1 DEF StoreCredentials, At

LEMMA ObtainCertificateKeeps ==
  ASSUME SessionType, NEW s \in Slots, ObtainCertificate(s)
  PROVE  StepKept(s)
<1>1. /\ At(s, "dns", "stored")
      /\ cmd[s] \in Cmds /\ CmdType /\ MemType /\ FlagType /\ OutType /\ NoEdit \notin made
      /\ (Editing(s) => cmd[s].edit \in AllEdits) /\ (Holding(s) => cmd[s].obj \in Objs)
  BY TypeParts, SessionConstants DEF ObtainCertificate, CmdType, OutType
<1>2. UNCHANGED <<memVars, modes, screen, backup, json, running, visits, dropped,
                 overwritten, answered>>
  BY DEF ObtainCertificate
<1>3. CASE UNCHANGED <<disk, made, failed>> /\ Move(s, "done")
  <2>1. Mem' = Mem /\ MemType'
    BY <1>1, <1>2, <1>3, MemStays DEF memVars
  <2>2. FlagType'
    BY <1>1, <1>2, <1>3, <2>1, FlagsStay DEF FlagType, modes
  <2>3. Goes(s, "done", cmd[s].obj, cmd[s].cfg)
    BY <1>1, <1>2, <1>3, <2>1, <2>2, MoveIs DEF Places
  <2>4. OutType'
    BY <1>1, <1>2, <1>3, <2>1, <2>2, <2>3 DEF OutType, Holding, Editing, At, Becomes,
       Goes, memVars, modes, screen, wizard, outVars, history, past
  <2>5. Visited /\ Steady(s) => Visited' /\ Steady(s)'
    BY <1>1, <1>2, <1>3, <2>1, <2>2, <2>3, <2>4 DEF Steady, InOrder, Begun, Served,
       Serving, Calm, InCalm, Settling, Restored, Landed, Close, Saved, KeptBy, Visited,
       Holding, Editing, At, Same, Goes, Becomes, memVars, modes, screen, wizard,
       outVars, history, past
  <2> QED
    BY <1>1, <1>2, <1>3, <2>1, <2>2, <2>3, <2>4, <2>5, StepIs DEF Goes, Becomes,
       Holding, Editing, At
<1>4. CASE /\ Move(s, "done") /\ UNCHANGED failed
           /\ \E f \in SwitchEdits : disk' = disk \cup {f} /\ made' = made \cup {f}
  <2>1. Mem' = Mem /\ MemType'
    BY <1>1, <1>2, <1>4, MemStays DEF memVars
  <2>2. FlagType'
    BY <1>1, <1>2, <1>4, <2>1, FlagsStay DEF FlagType, modes
  <2>3. Goes(s, "done", cmd[s].obj, cmd[s].cfg)
    BY <1>1, <1>2, <1>4, <2>1, <2>2, MoveIs DEF Places
  <2>4. OutType'
    BY <1>1, <1>2, <1>4, <2>1, <2>2, <2>3 DEF OutType, Holding, Editing, At, Becomes,
       Goes, memVars, modes, screen, wizard, outVars, history, past, AllEdits, Later,
       Behind
  <2>5. Visited /\ Steady(s) => Visited' /\ Steady(s)'
    BY <1>1, <1>2, <1>4, <2>1, <2>2, <2>3, <2>4 DEF Steady, InOrder, Begun, Served,
       Serving, Calm, InCalm, Settling, Restored, Landed, Close, Saved, KeptBy, Visited,
       Holding, Editing, At, Same, Goes, Becomes, memVars, modes, screen, wizard,
       outVars, history, past, AllEdits, Later, Behind
  <2> QED
    BY <1>1, <1>2, <1>4, <2>1, <2>2, <2>3, <2>4, <2>5, StepIs DEF Goes, Becomes,
       Holding, Editing, At, AllEdits, Later, Behind
<1>5. CASE /\ Move(s, "failed") /\ UNCHANGED <<disk, made>>
           /\ Fail("obtain") \/ Fail("save")
  <2>1. Mem' = Mem /\ MemType'
    BY <1>1, <1>2, <1>5, MemStays DEF memVars
  <2>2. FlagType'
    BY <1>1, <1>2, <1>5, <2>1, FlagsStay DEF FlagType, modes
  <2>3. Goes(s, "failed", cmd[s].obj, cmd[s].cfg)
    BY <1>1, <1>2, <1>5, <2>1, <2>2, MoveIs DEF Places
  <2>4. OutType'
    BY <1>1, <1>2, <1>5, <2>1, <2>2, <2>3, Faults DEF OutType, Holding, Editing, At,
       Becomes, Goes, memVars, modes, screen, wizard, outVars, history, past
  <2>5. Visited /\ Steady(s) => Visited' /\ Steady(s)'
    BY <1>1, <1>2, <1>5, <2>1, <2>2, <2>3, <2>4, Faults DEF Steady, InOrder, Begun,
       Served, Serving, Calm, InCalm, Settling, Restored, Landed, Close, Saved, KeptBy,
       Visited, Holding, Editing, At, Same, Goes, Becomes, memVars, modes, screen,
       wizard, outVars, history, past
  <2> QED
    BY <1>1, <1>2, <1>5, <2>1, <2>2, <2>3, <2>4, <2>5, StepIs DEF Goes, Becomes,
       Holding, Editing, At
<1> QED
  BY <1>3, <1>4, <1>5, <1>1 DEF ObtainCertificate, At

LEMMA TakeBackupKeeps == ASSUME SessionType, NEW s \in Slots, TakeBackup(s) PROVE StepKept(s)
<1>1. /\ At(s, "backup", "start") /\ backup' = disk
      /\ cmd[s] \in Cmds /\ CmdType /\ MemType /\ FlagType /\ OutType /\ NoEdit \notin made
      /\ (Editing(s) => cmd[s].edit \in AllEdits) /\ (Holding(s) => cmd[s].obj \in Objs)
  BY TypeParts, SessionConstants DEF TakeBackup, CmdType, OutType
<1>2. UNCHANGED <<memVars, modes, screen, disk, json, running, history>>
  BY DEF TakeBackup
<1>3. Mem' = Mem /\ MemType'
  BY <1>1, <1>2, MemStays DEF memVars
<1>4. FlagType'
  BY <1>1, <1>2, <1>3, FlagsStay DEF FlagType, modes
<1>5. Goes(s, "done", cmd[s].obj, cmd[s].cfg)
  BY <1>1, <1>2, <1>3, <1>4, MoveIs DEF Places, TakeBackup
<1>6. OutType'
  BY <1>1, <1>2, <1>3, <1>4, <1>5 DEF OutType, Holding, Editing, At, Becomes, Goes,
     memVars, modes, screen, wizard, outVars, history, past
<1>7. Visited /\ Steady(s) => Visited' /\ Steady(s)'
  BY <1>1, <1>2, <1>3, <1>4, <1>5, <1>6 DEF Steady, InOrder, Begun, Served, Serving, Calm,
     InCalm, Settling, Restored, Landed, Close, Saved, KeptBy, Visited, Holding, Editing,
     At, Same, Goes, Becomes, memVars, modes, screen, wizard, outVars, history, past
<1> QED
  BY <1>1, <1>2, <1>3, <1>4, <1>5, <1>6, <1>7, StepIs DEF Goes, Becomes, Holding, Editing,
     At

LEMMA RestoreFileKeeps == ASSUME SessionType, NEW s \in Slots, RestoreFile(s) PROVE StepKept(s)
<1>1. /\ At(s, "restore", "start")
      /\ cmd[s] \in Cmds /\ CmdType /\ MemType /\ FlagType /\ OutType /\ NoEdit \notin made
      /\ (Editing(s) => cmd[s].edit \in AllEdits) /\ (Holding(s) => cmd[s].obj \in Objs)
  BY TypeParts, SessionConstants DEF RestoreFile, CmdType, OutType
<1>2. UNCHANGED <<memVars, modes, screen, backup, json, running, visits, made, overwritten,
                 answered>>
  BY DEF RestoreFile
<1>3. CASE /\ disk' = backup /\ Move(s, "restored") /\ UNCHANGED failed
           /\ dropped' = dropped \cup (disk \ backup)
  <2>1. Mem' = Mem /\ MemType'
    BY <1>1, <1>2, <1>3, MemStays DEF memVars
  <2>2. FlagType'
    BY <1>1, <1>2, <1>3, <2>1, FlagsStay DEF FlagType, modes
  <2>3. Goes(s, "restored", cmd[s].obj, cmd[s].cfg)
    BY <1>1, <1>2, <1>3, <2>1, <2>2, MoveIs DEF Places
  <2>4. OutType'
    BY <1>1, <1>2, <1>3, <2>1, <2>2, <2>3 DEF OutType, Holding, Editing, At, Becomes,
       Goes, memVars, modes, screen, wizard, outVars, history, past
  <2>5. Visited /\ Steady(s) => Visited' /\ Steady(s)'
    BY <1>1, <1>2, <1>3, <2>1, <2>2, <2>3, <2>4 DEF Steady, InOrder, Begun, Served,
       Serving, Calm, InCalm, Settling, Restored, Landed, Close, Saved, KeptBy, Visited,
       Holding, Editing, At, Same, Goes, Becomes, memVars, modes, screen, wizard,
       outVars, history, past
  <2> QED
    BY <1>1, <1>2, <1>3, <2>1, <2>2, <2>3, <2>4, <2>5, StepIs DEF Goes, Becomes,
       Holding, Editing, At
<1>4. CASE Fail("restore") /\ Move(s, "failed") /\ UNCHANGED <<disk, dropped>>
  <2>1. Mem' = Mem /\ MemType'
    BY <1>1, <1>2, <1>4, MemStays DEF memVars
  <2>2. FlagType'
    BY <1>1, <1>2, <1>4, <2>1, FlagsStay DEF FlagType, modes
  <2>3. Goes(s, "failed", cmd[s].obj, cmd[s].cfg)
    BY <1>1, <1>2, <1>4, <2>1, <2>2, MoveIs DEF Places
  <2>4. OutType'
    BY <1>1, <1>2, <1>4, <2>1, <2>2, <2>3, Faults DEF OutType, Holding, Editing, At,
       Becomes, Goes, memVars, modes, screen, wizard, outVars, history, past
  <2>5. Visited /\ Steady(s) => Visited' /\ Steady(s)'
    BY <1>1, <1>2, <1>4, <2>1, <2>2, <2>3, <2>4, Faults DEF Steady, InOrder, Begun,
       Served, Serving, Calm, InCalm, Settling, Restored, Landed, Close, Saved, KeptBy,
       Visited, Holding, Editing, At, Same, Goes, Becomes, memVars, modes, screen,
       wizard, outVars, history, past
  <2> QED
    BY <1>1, <1>2, <1>4, <2>1, <2>2, <2>3, <2>4, <2>5, StepIs DEF Goes, Becomes,
       Holding, Editing, At
<1> QED
  BY <1>3, <1>4, <1>1 DEF RestoreFile, At

LEMMA LoadSavedKeeps == ASSUME SessionType, NEW s \in Slots, LoadSaved(s) PROVE StepKept(s)
<1>1. /\ At(s, "restore", "restored") \/ At(s, "install", "saved")
      /\ cmd[s] \in Cmds /\ CmdType /\ MemType /\ FlagType /\ OutType /\ NoEdit \notin made
      /\ (Editing(s) => cmd[s].edit \in AllEdits) /\ (Holding(s) => cmd[s].obj \in Objs)
  BY TypeParts, SessionConstants DEF LoadSaved, CmdType, OutType
<1>2. UNCHANGED <<memVars, modes, screen, outVars, past>>
  BY DEF LoadSaved
<1>3. CASE cmd' = [cmd EXCEPT ![s].at = "generated", ![s].cfg = disk] /\ UNCHANGED failed
  <2>1. Mem' = Mem /\ MemType'
    BY <1>1, <1>2, <1>3, MemStays DEF memVars
  <2>2. FlagType'
    BY <1>1, <1>2, <1>3, <2>1, FlagsStay DEF FlagType, modes
  <2>3. Goes(s, "generated", cmd[s].obj, disk)
    BY <1>1, <1>2, <1>3, <2>1, <2>2, MoveCfgIs DEF Places, OutType, Cmds
  <2>4. OutType'
    BY <1>1, <1>2, <1>3, <2>1, <2>2, <2>3 DEF OutType, Holding, Editing, At, Becomes,
       Goes, memVars, modes, screen, wizard, outVars, history, past
  <2>5. Visited /\ Steady(s) => Visited' /\ Steady(s)'
    BY <1>1, <1>2, <1>3, <2>1, <2>2, <2>3, <2>4 DEF Steady, InOrder, Begun, Served,
       Serving, Calm, InCalm, Settling, Restored, Landed, Close, Saved, KeptBy, Visited,
       Holding, Editing, At, Same, Goes, Becomes, memVars, modes, screen, wizard,
       outVars, history, past
  <2> QED
    BY <1>1, <1>2, <1>3, <2>1, <2>2, <2>3, <2>4, <2>5, StepIs DEF Goes, Becomes,
       Holding, Editing, At
<1>4. CASE At(s, "restore", "restored") /\ Fail("reload") /\ Move(s, "unread")
  <2>1. Mem' = Mem /\ MemType'
    BY <1>1, <1>2, <1>4, MemStays DEF memVars
  <2>2. FlagType'
    BY <1>1, <1>2, <1>4, <2>1, FlagsStay DEF FlagType, modes
  <2>3. Goes(s, "unread", cmd[s].obj, cmd[s].cfg)
    BY <1>1, <1>2, <1>4, <2>1, <2>2, MoveIs DEF Places
  <2>4. OutType'
    BY <1>1, <1>2, <1>4, <2>1, <2>2, <2>3, Faults DEF OutType, Holding, Editing, At,
       Becomes, Goes, memVars, modes, screen, wizard, outVars, history, past
  <2>5. Visited /\ Steady(s) => Visited' /\ Steady(s)'
    BY <1>1, <1>2, <1>4, <2>1, <2>2, <2>3, <2>4, Faults DEF Steady, InOrder, Begun,
       Served, Serving, Calm, InCalm, Settling, Restored, Landed, Close, Saved, KeptBy,
       Visited, Holding, Editing, At, Same, Goes, Becomes, memVars, modes, screen,
       wizard, outVars, history, past
  <2> QED
    BY <1>1, <1>2, <1>4, <2>1, <2>2, <2>3, <2>4, <2>5, StepIs DEF Goes, Becomes,
       Holding, Editing, At
<1> QED
  BY <1>3, <1>4, <1>1 DEF LoadSaved, At

LEMMA InstallCoreKeeps == ASSUME SessionType, NEW s \in Slots, InstallCore(s) PROVE StepKept(s)
<1>1. /\ At(s, "core", "start")
      /\ cmd[s] \in Cmds /\ CmdType /\ MemType /\ FlagType /\ OutType /\ NoEdit \notin made
      /\ (Editing(s) => cmd[s].edit \in AllEdits) /\ (Holding(s) => cmd[s].obj \in Objs)
  BY TypeParts, SessionConstants DEF InstallCore, CmdType, OutType
<1>2. UNCHANGED <<memVars, modes, screen, outVars, past>>
  BY DEF InstallCore
<1>3. CASE Move(s, "done") /\ UNCHANGED failed
  <2>1. Mem' = Mem /\ MemType'
    BY <1>1, <1>2, <1>3, MemStays DEF memVars
  <2>2. FlagType'
    BY <1>1, <1>2, <1>3, <2>1, FlagsStay DEF FlagType, modes
  <2>3. Goes(s, "done", cmd[s].obj, cmd[s].cfg)
    BY <1>1, <1>2, <1>3, <2>1, <2>2, MoveIs DEF Places
  <2>4. OutType'
    BY <1>1, <1>2, <1>3, <2>1, <2>2, <2>3 DEF OutType, Holding, Editing, At, Becomes,
       Goes, memVars, modes, screen, wizard, outVars, history, past
  <2>5. Visited /\ Steady(s) => Visited' /\ Steady(s)'
    BY <1>1, <1>2, <1>3, <2>1, <2>2, <2>3, <2>4 DEF Steady, InOrder, Begun, Served,
       Serving, Calm, InCalm, Settling, Restored, Landed, Close, Saved, KeptBy, Visited,
       Holding, Editing, At, Same, Goes, Becomes, memVars, modes, screen, wizard,
       outVars, history, past
  <2> QED
    BY <1>1, <1>2, <1>3, <2>1, <2>2, <2>3, <2>4, <2>5, StepIs DEF Goes, Becomes,
       Holding, Editing, At
<1>4. CASE Fail("obtain") /\ Move(s, "failed")
  <2>1. Mem' = Mem /\ MemType'
    BY <1>1, <1>2, <1>4, MemStays DEF memVars
  <2>2. FlagType'
    BY <1>1, <1>2, <1>4, <2>1, FlagsStay DEF FlagType, modes
  <2>3. Goes(s, "failed", cmd[s].obj, cmd[s].cfg)
    BY <1>1, <1>2, <1>4, <2>1, <2>2, MoveIs DEF Places
  <2>4. OutType'
    BY <1>1, <1>2, <1>4, <2>1, <2>2, <2>3, Faults DEF OutType, Holding, Editing, At,
       Becomes, Goes, memVars, modes, screen, wizard, outVars, history, past
  <2>5. Visited /\ Steady(s) => Visited' /\ Steady(s)'
    BY <1>1, <1>2, <1>4, <2>1, <2>2, <2>3, <2>4, Faults DEF Steady, InOrder, Begun,
       Served, Serving, Calm, InCalm, Settling, Restored, Landed, Close, Saved, KeptBy,
       Visited, Holding, Editing, At, Same, Goes, Becomes, memVars, modes, screen,
       wizard, outVars, history, past
  <2> QED
    BY <1>1, <1>2, <1>4, <2>1, <2>2, <2>3, <2>4, <2>5, StepIs DEF Goes, Becomes,
       Holding, Editing, At
<1> QED
  BY <1>3, <1>4, <1>1 DEF InstallCore, At

LEMMA InstallPrismKeeps == ASSUME SessionType, NEW s \in Slots, InstallPrism(s) PROVE StepKept(s)
<1>1. /\ At(s, "install", "start")
      /\ cmd[s] \in Cmds /\ CmdType /\ MemType /\ FlagType /\ OutType /\ NoEdit \notin made
      /\ (Editing(s) => cmd[s].edit \in AllEdits) /\ (Holding(s) => cmd[s].obj \in Objs)
  BY TypeParts, SessionConstants DEF InstallPrism, CmdType, OutType
<1>2. UNCHANGED <<memVars, modes, screen, backup, json, running, past>>
  BY DEF InstallPrism
<1>3. CASE disk' = disk \cup chosen /\ Move(s, "saved") /\ UNCHANGED failed
  <2>1. Mem' = Mem /\ MemType'
    BY <1>1, <1>2, <1>3, MemStays DEF memVars
  <2>2. FlagType'
    BY <1>1, <1>2, <1>3, <2>1, FlagsStay DEF FlagType, modes
  <2>3. Goes(s, "saved", cmd[s].obj, cmd[s].cfg)
    BY <1>1, <1>2, <1>3, <2>1, <2>2, MoveIs DEF Places
  <2>4. OutType'
    BY <1>1, <1>2, <1>3, <2>1, <2>2, <2>3 DEF OutType, Holding, Editing, At, Becomes,
       Goes, memVars, modes, screen, wizard, outVars, history, past
  <2>5. Visited /\ Steady(s) => Visited' /\ Steady(s)'
    BY <1>1, <1>2, <1>3, <2>1, <2>2, <2>3, <2>4 DEF Steady, InOrder, Begun, Served,
       Serving, Calm, InCalm, Settling, Restored, Landed, Close, Saved, KeptBy, Visited,
       Holding, Editing, At, Same, Goes, Becomes, memVars, modes, screen, wizard,
       outVars, history, past
  <2> QED
    BY <1>1, <1>2, <1>3, <2>1, <2>2, <2>3, <2>4, <2>5, StepIs DEF Goes, Becomes,
       Holding, Editing, At
<1>4. CASE /\ Move(s, "failed") /\ UNCHANGED disk
           /\ Fail("save") \/ UNCHANGED failed
  <2>1. Mem' = Mem /\ MemType'
    BY <1>1, <1>2, <1>4, MemStays DEF memVars
  <2>2. FlagType'
    BY <1>1, <1>2, <1>4, <2>1, FlagsStay DEF FlagType, modes
  <2>3. Goes(s, "failed", cmd[s].obj, cmd[s].cfg)
    BY <1>1, <1>2, <1>4, <2>1, <2>2, MoveIs DEF Places
  <2>4. OutType'
    BY <1>1, <1>2, <1>4, <2>1, <2>2, <2>3, Faults DEF OutType, Holding, Editing, At,
       Becomes, Goes, memVars, modes, screen, wizard, outVars, history, past
  <2>5. Visited /\ Steady(s) => Visited' /\ Steady(s)'
    BY <1>1, <1>2, <1>4, <2>1, <2>2, <2>3, <2>4, Faults DEF Steady, InOrder, Begun,
       Served, Serving, Calm, InCalm, Settling, Restored, Landed, Close, Saved, KeptBy,
       Visited, Holding, Editing, At, Same, Goes, Becomes, memVars, modes, screen,
       wizard, outVars, history, past
  <2> QED
    BY <1>1, <1>2, <1>4, <2>1, <2>2, <2>3, <2>4, <2>5, StepIs DEF Goes, Becomes,
       Holding, Editing, At
<1> QED
  BY <1>3, <1>4, <1>1 DEF InstallPrism, At

LEMMA RestartKeeps == ASSUME SessionType, NEW s \in Slots, Restart(s) PROVE StepKept(s)
<1>1. /\ At(s, "restart", "start") \/ At(s, "log", "saved") \/ At(s, "install", "applied")
      /\ running' = json
      /\ cmd[s] \in Cmds /\ CmdType /\ MemType /\ FlagType /\ OutType /\ NoEdit \notin made
      /\ (Editing(s) => cmd[s].edit \in AllEdits) /\ (Holding(s) => cmd[s].obj \in Objs)
  BY TypeParts, SessionConstants DEF Restart, CmdType, OutType
<1>2. UNCHANGED <<memVars, modes, screen, disk, backup, json, history>>
  BY DEF Restart
<1>3. Mem' = Mem /\ MemType'
  BY <1>1, <1>2, MemStays DEF memVars
<1>4. FlagType'
  BY <1>1, <1>2, <1>3, FlagsStay DEF FlagType, modes
<1>5. Goes(s, "done", cmd[s].obj, cmd[s].cfg)
  BY <1>1, <1>2, <1>3, <1>4, MoveIs DEF Places, Restart
<1>6. OutType'
  BY <1>1, <1>2, <1>3, <1>4, <1>5 DEF OutType, Holding, Editing, At, Becomes, Goes,
     memVars, modes, screen, wizard, outVars, history, past
<1>7. Visited /\ Steady(s) => Visited' /\ Steady(s)'
  BY <1>1, <1>2, <1>3, <1>4, <1>5, <1>6 DEF Steady, InOrder, Begun, Served, Serving, Calm,
     InCalm, Settling, Restored, Landed, Close, Saved, KeptBy, Visited, Holding, Editing,
     At, Same, Goes, Becomes, memVars, modes, screen, wizard, outVars, history, past
<1> QED
  BY <1>1, <1>2, <1>3, <1>4, <1>5, <1>6, <1>7, StepIs DEF Goes, Becomes, Holding, Editing,
     At

LEMMA MakeUUIDKeeps == ASSUME SessionType, NEW s \in Slots, MakeUUID(s) PROVE StepKept(s)
<1>1. /\ At(s, "uuid", "start")
      /\ cmd[s] \in Cmds /\ CmdType /\ MemType /\ FlagType /\ OutType /\ NoEdit \notin made
      /\ (Editing(s) => cmd[s].edit \in AllEdits) /\ (Holding(s) => cmd[s].obj \in Objs)
  BY TypeParts, SessionConstants DEF MakeUUID, CmdType, OutType
<1>2. UNCHANGED <<memVars, modes, screen, outVars, history>>
  BY DEF MakeUUID
<1>3. Mem' = Mem /\ MemType'
  BY <1>1, <1>2, MemStays DEF memVars
<1>4. FlagType'
  BY <1>1, <1>2, <1>3, FlagsStay DEF FlagType, modes
<1>5. Goes(s, "done", cmd[s].obj, cmd[s].cfg)
  BY <1>1, <1>2, <1>3, <1>4, MoveIs DEF Places, MakeUUID
<1>6. OutType'
  BY <1>1, <1>2, <1>3, <1>4, <1>5 DEF OutType, Holding, Editing, At, Becomes, Goes,
     memVars, modes, screen, wizard, outVars, history, past
<1>7. Visited /\ Steady(s) => Visited' /\ Steady(s)'
  BY <1>1, <1>2, <1>3, <1>4, <1>5, <1>6 DEF Steady, InOrder, Begun, Served, Serving, Calm,
     InCalm, Settling, Restored, Landed, Close, Saved, KeptBy, Visited, Holding, Editing,
     At, Same, Goes, Becomes, memVars, modes, screen, wizard, outVars, history, past
<1> QED
  BY <1>1, <1>2, <1>3, <1>4, <1>5, <1>6, <1>7, StepIs DEF Goes, Becomes, Holding, Editing,
     At

LEMMA ConfigLoadedKeeps == ASSUME SessionType, NEW s \in Slots, ConfigLoaded(s) PROVE StepKept(s)
<1>1. /\ cmd[s].kind = "load" /\ End(s)
      /\ cmd[s] \in Cmds /\ CmdType /\ MemType /\ FlagType /\ OutType /\ NoEdit \notin made
      /\ (Editing(s) => cmd[s].edit \in AllEdits) /\ (Holding(s) => cmd[s].obj \in Objs)
  BY TypeParts, SessionConstants DEF ConfigLoaded, CmdType, OutType
<1>2. UNCHANGED <<unsaved, portMode, screen, outVars, history>>
  BY DEF ConfigLoaded
<1>3. CASE cmd[s].at = "done" /\ Install(cmd[s].cfg)
  <2>1. Mem' = cmd[s].cfg /\ MemType'
    BY <1>1, <1>2, <1>3, Installed DEF Cmds
  <2>2. FlagType'
    BY <1>1, <1>2, <1>3, <2>1 DEF FlagType, Install, Forget
  <2>3. Becomes(s, "none", "idle", NoObj, NoEdit, {})
    BY <1>1, <1>2, <1>3, <2>1, <2>2, EndIs
  <2>4. OutType'
    BY <1>1, <1>2, <1>3, <2>1, <2>2, <2>3 DEF OutType, Holding, Editing, At, Becomes,
       Goes, memVars, modes, screen, wizard, outVars, history, past
  <2>5. Visited /\ Steady(s) => Visited' /\ Steady(s)'
    BY <1>1, <1>2, <1>3, <2>1, <2>2, <2>3, <2>4 DEF Steady, InOrder, Begun, Served,
       Serving, Calm, InCalm, Settling, Restored, Landed, Close, Saved, KeptBy, Visited,
       Holding, Editing, At, Same, Goes, Becomes, memVars, modes, screen, wizard,
       outVars, history, past
  <2> QED
    BY <1>1, <1>2, <1>3, <2>1, <2>2, <2>3, <2>4, <2>5, StepIs DEF Goes, Becomes,
       Holding, Editing, At
<1>4. CASE cmd[s].at = "failed" /\ Install({})
  <2>1. Mem' = {} /\ MemType'
    BY <1>1, <1>2, <1>4, Installed DEF Cmds
  <2>2. FlagType'
    BY <1>1, <1>2, <1>4, <2>1 DEF FlagType, Install, Forget
  <2>3. Becomes(s, "none", "idle", NoObj, NoEdit, {})
    BY <1>1, <1>2, <1>4, <2>1, <2>2, EndIs
  <2>4. OutType'
    BY <1>1, <1>2, <1>4, <2>1, <2>2, <2>3 DEF OutType, Holding, Editing, At, Becomes,
       Goes, memVars, modes, screen, wizard, outVars, history, past
  <2>5. Visited /\ Steady(s) => Visited' /\ Steady(s)'
    BY <1>1, <1>2, <1>4, <2>1, <2>2, <2>3, <2>4 DEF Steady, InOrder, Begun, Served,
       Serving, Calm, InCalm, Settling, Restored, Landed, Close, Saved, KeptBy, Visited,
       Holding, Editing, At, Same, Goes, Becomes, memVars, modes, screen, wizard,
       outVars, history, past
  <2> QED
    BY <1>1, <1>2, <1>4, <2>1, <2>2, <2>3, <2>4, <2>5, StepIs DEF Goes, Becomes,
       Holding, Editing, At
<1> QED
  BY <1>3, <1>4, <1>1 DEF ConfigLoaded, At

LEMMA ConfigUpdatedKeeps == ASSUME SessionType, NEW s \in Slots, ConfigUpdated(s) PROVE StepKept(s)
<1>1. /\ unsaved' = TRUE /\ Continue(s)
      /\ cmd[s] \in Cmds /\ CmdType /\ MemType /\ FlagType /\ OutType /\ NoEdit \notin made
      /\ (Editing(s) => cmd[s].edit \in AllEdits) /\ (Holding(s) => cmd[s].obj \in Objs)
  BY TypeParts, SessionConstants DEF ConfigUpdated, CmdType, OutType, Updated
<1>2. UNCHANGED <<portMode, screen, outVars, history>>
  BY DEF ConfigUpdated, Updated
<1>3. CASE /\ cmd[s].kind \in {"port", "reset"} /\ cmd[s].at = "done" /\ Install(cmd[s].cfg)
           /\ view = "progress"
  <2>1. Mem' = cmd[s].cfg /\ MemType'
    BY <1>1, <1>2, <1>3, Installed DEF Cmds
  <2>2. FlagType'
    BY <1>1, <1>2, <1>3, <2>1 DEF FlagType, Install, Forget
  <2>3. Becomes(s, "core", "start", NoObj, NoEdit, {})
    BY <1>1, <1>2, <1>3, <2>1, <2>2, FollowIs DEF Kinds, Continue
  <2>4. OutType'
    BY <1>1, <1>2, <1>3, <2>1, <2>2, <2>3 DEF OutType, Holding, Editing, At, Becomes,
       Goes, memVars, modes, screen, wizard, outVars, history, past
  <2>5. Visited /\ Steady(s) => Visited' /\ Steady(s)'
    BY <1>1, <1>2, <1>3, <2>1, <2>2, <2>3, <2>4 DEF Steady, InOrder, Begun, Served,
       Serving, Calm, InCalm, Settling, Restored, Landed, Close, Saved, KeptBy, Visited,
       Holding, Editing, At, Same, Goes, Becomes, memVars, modes, screen, wizard,
       outVars, history, past
  <2> QED
    BY <1>1, <1>2, <1>3, <2>1, <2>2, <2>3, <2>4, <2>5, StepIs DEF Goes, Becomes,
       Holding, Editing, At
<1>4. CASE /\ cmd[s].kind \in {"port", "reset"} /\ cmd[s].at = "done" /\ Install(cmd[s].cfg)
           /\ view # "progress"
  <2>1. Mem' = cmd[s].cfg /\ MemType'
    BY <1>1, <1>2, <1>4, Installed DEF Cmds
  <2>2. FlagType'
    BY <1>1, <1>2, <1>4, <2>1 DEF FlagType, Install, Forget
  <2>3. Becomes(s, "none", "idle", NoObj, NoEdit, {})
    BY <1>1, <1>2, <1>4, <2>1, <2>2, EndIs DEF Continue
  <2>4. OutType'
    BY <1>1, <1>2, <1>4, <2>1, <2>2, <2>3 DEF OutType, Holding, Editing, At, Becomes,
       Goes, memVars, modes, screen, wizard, outVars, history, past
  <2>5. Visited /\ Steady(s) => Visited' /\ Steady(s)'
    BY <1>1, <1>2, <1>4, <2>1, <2>2, <2>3, <2>4 DEF Steady, InOrder, Begun, Served,
       Serving, Calm, InCalm, Settling, Restored, Landed, Close, Saved, KeptBy, Visited,
       Holding, Editing, At, Same, Goes, Becomes, memVars, modes, screen, wizard,
       outVars, history, past
  <2> QED
    BY <1>1, <1>2, <1>4, <2>1, <2>2, <2>3, <2>4, <2>5, StepIs DEF Goes, Becomes,
       Holding, Editing, At
<1>5. CASE At(s, "route", "done") /\ PointTo(cmd[s].obj) /\ view = "progress"
  <2>1. (cmd[s].obj = ptr => Mem' = Mem) /\ MemType'
    BY <1>1, <1>2, <1>5, PointedTo DEF Holding, At
  <2>2. FlagType'
    BY <1>1, <1>2, <1>5, <2>1 DEF FlagType, PointTo, Forget
  <2>3. Becomes(s, "core", "start", NoObj, NoEdit, {})
    BY <1>1, <1>2, <1>5, <2>1, <2>2, FollowIs DEF Kinds, Continue
  <2>4. OutType'
    BY <1>1, <1>2, <1>5, <2>1, <2>2, <2>3 DEF OutType, Holding, Editing, At, Becomes,
       Goes, memVars, modes, screen, wizard, outVars, history, past
  <2>5. Visited /\ Steady(s) => Visited' /\ Steady(s)'
    BY <1>1, <1>2, <1>5, <2>1, <2>2, <2>3, <2>4 DEF Steady, InOrder, Begun, Served,
       Serving, Calm, InCalm, Settling, Restored, Landed, Close, Saved, KeptBy, Visited,
       Holding, Editing, At, Same, Goes, Becomes, memVars, modes, screen, wizard,
       outVars, history, past
  <2> QED
    BY <1>1, <1>2, <1>5, <2>1, <2>2, <2>3, <2>4, <2>5, StepIs DEF Goes, Becomes,
       Holding, Editing, At
<1>6. CASE At(s, "route", "done") /\ PointTo(cmd[s].obj) /\ view # "progress"
  <2>1. (cmd[s].obj = ptr => Mem' = Mem) /\ MemType'
    BY <1>1, <1>2, <1>6, PointedTo DEF Holding, At
  <2>2. FlagType'
    BY <1>1, <1>2, <1>6, <2>1 DEF FlagType, PointTo, Forget
  <2>3. Becomes(s, "none", "idle", NoObj, NoEdit, {})
    BY <1>1, <1>2, <1>6, <2>1, <2>2, EndIs DEF Continue
  <2>4. OutType'
    BY <1>1, <1>2, <1>6, <2>1, <2>2, <2>3 DEF OutType, Holding, Editing, At, Becomes,
       Goes, memVars, modes, screen, wizard, outVars, history, past
  <2>5. Visited /\ Steady(s) => Visited' /\ Steady(s)'
    BY <1>1, <1>2, <1>6, <2>1, <2>2, <2>3, <2>4 DEF Steady, InOrder, Begun, Served,
       Serving, Calm, InCalm, Settling, Restored, Landed, Close, Saved, KeptBy, Visited,
       Holding, Editing, At, Same, Goes, Becomes, memVars, modes, screen, wizard,
       outVars, history, past
  <2> QED
    BY <1>1, <1>2, <1>6, <2>1, <2>2, <2>3, <2>4, <2>5, StepIs DEF Goes, Becomes,
       Holding, Editing, At
<1> QED
  BY <1>3, <1>4, <1>5, <1>6, <1>1 DEF ConfigUpdated, At, Updated

LEMMA ConfigAppliedKeeps == ASSUME SessionType, NEW s \in Slots, ConfigApplied(s) PROVE StepKept(s)
<1>1. /\ At(s, "save", "done") \/ At(s, "log", "done")
      /\ PointTo(cmd[s].obj) /\ unsaved' = FALSE /\ Reload(s)
      /\ cmd[s] \in Cmds /\ CmdType /\ MemType /\ FlagType /\ OutType /\ NoEdit \notin made
      /\ (Editing(s) => cmd[s].edit \in AllEdits) /\ (Holding(s) => cmd[s].obj \in Objs)
  BY TypeParts, SessionConstants DEF ConfigApplied, CmdType, OutType
<1>2. UNCHANGED <<portMode, screen, outVars, history>>
  BY DEF ConfigApplied
<1>3. CASE view = "progress"
  <2>1. (cmd[s].obj = ptr => Mem' = Mem) /\ MemType'
    BY <1>1, <1>2, <1>3, PointedTo DEF Holding, At
  <2>2. FlagType'
    BY <1>1, <1>2, <1>3, <2>1 DEF FlagType, PointTo, Forget
  <2>3. Becomes(s, "core", "start", NoObj, NoEdit, {})
    BY <1>1, <1>2, <1>3, <2>1, <2>2, FollowIs DEF Kinds, Reload
  <2>4. OutType'
    BY <1>1, <1>2, <1>3, <2>1, <2>2, <2>3 DEF OutType, Holding, Editing, At, Becomes,
       Goes, memVars, modes, screen, wizard, outVars, history, past
  <2>5. Visited /\ Steady(s) => Visited' /\ Steady(s)'
    BY <1>1, <1>2, <1>3, <2>1, <2>2, <2>3, <2>4 DEF Steady, InOrder, Begun, Served,
       Serving, Calm, InCalm, Settling, Restored, Landed, Close, Saved, KeptBy, Visited,
       Holding, Editing, At, Same, Goes, Becomes, memVars, modes, screen, wizard,
       outVars, history, past
  <2> QED
    BY <1>1, <1>2, <1>3, <2>1, <2>2, <2>3, <2>4, <2>5, StepIs DEF Goes, Becomes,
       Holding, Editing, At
<1>4. CASE view # "progress"
  <2>1. (cmd[s].obj = ptr => Mem' = Mem) /\ MemType'
    BY <1>1, <1>2, <1>4, PointedTo DEF Holding, At
  <2>2. FlagType'
    BY <1>1, <1>2, <1>4, <2>1 DEF FlagType, PointTo, Forget
  <2>3. Becomes(s, "load", "start", NoObj, NoEdit, {})
    BY <1>1, <1>2, <1>4, <2>1, <2>2, FollowIs DEF Kinds, Reload
  <2>4. OutType'
    BY <1>1, <1>2, <1>4, <2>1, <2>2, <2>3 DEF OutType, Holding, Editing, At, Becomes,
       Goes, memVars, modes, screen, wizard, outVars, history, past
  <2>5. Visited /\ Steady(s) => Visited' /\ Steady(s)'
    BY <1>1, <1>2, <1>4, <2>1, <2>2, <2>3, <2>4 DEF Steady, InOrder, Begun, Served,
       Serving, Calm, InCalm, Settling, Restored, Landed, Close, Saved, KeptBy, Visited,
       Holding, Editing, At, Same, Goes, Becomes, memVars, modes, screen, wizard,
       outVars, history, past
  <2> QED
    BY <1>1, <1>2, <1>4, <2>1, <2>2, <2>3, <2>4, <2>5, StepIs DEF Goes, Becomes,
       Holding, Editing, At
<1> QED
  BY <1>3, <1>4, <1>1 DEF ConfigApplied, At

LEMMA BackupRestoredKeeps ==
  ASSUME SessionType, NEW s \in Slots, BackupRestored(s)
  PROVE  StepKept(s)
<1>1. /\ Reload(s)
      /\ cmd[s] \in Cmds /\ CmdType /\ MemType /\ FlagType /\ OutType /\ NoEdit \notin made
      /\ (Editing(s) => cmd[s].edit \in AllEdits) /\ (Holding(s) => cmd[s].obj \in Objs)
  BY TypeParts, SessionConstants DEF BackupRestored, CmdType, OutType
<1>2. UNCHANGED <<portMode, screen, outVars, history>>
  BY DEF BackupRestored
<1>3. CASE At(s, "restore", "done") /\ Install(cmd[s].cfg) /\ unsaved' = FALSE /\ view = "progress"
  <2>1. Mem' = cmd[s].cfg /\ MemType'
    BY <1>1, <1>2, <1>3, Installed DEF Cmds
  <2>2. FlagType'
    BY <1>1, <1>2, <1>3, <2>1 DEF FlagType, Install, Forget
  <2>3. Becomes(s, "core", "start", NoObj, NoEdit, {})
    BY <1>1, <1>2, <1>3, <2>1, <2>2, FollowIs DEF Kinds, Reload
  <2>4. OutType'
    BY <1>1, <1>2, <1>3, <2>1, <2>2, <2>3 DEF OutType, Holding, Editing, At, Becomes,
       Goes, memVars, modes, screen, wizard, outVars, history, past
  <2>5. Visited /\ Steady(s) => Visited' /\ Steady(s)'
    BY <1>1, <1>2, <1>3, <2>1, <2>2, <2>3, <2>4 DEF Steady, InOrder, Begun, Served,
       Serving, Calm, InCalm, Settling, Restored, Landed, Close, Saved, KeptBy, Visited,
       Holding, Editing, At, Same, Goes, Becomes, memVars, modes, screen, wizard,
       outVars, history, past
  <2> QED
    BY <1>1, <1>2, <1>3, <2>1, <2>2, <2>3, <2>4, <2>5, StepIs DEF Goes, Becomes,
       Holding, Editing, At
<1>4. CASE At(s, "restore", "done") /\ Install(cmd[s].cfg) /\ unsaved' = FALSE /\ view # "progress"
  <2>1. Mem' = cmd[s].cfg /\ MemType'
    BY <1>1, <1>2, <1>4, Installed DEF Cmds
  <2>2. FlagType'
    BY <1>1, <1>2, <1>4, <2>1 DEF FlagType, Install, Forget
  <2>3. Becomes(s, "load", "start", NoObj, NoEdit, {})
    BY <1>1, <1>2, <1>4, <2>1, <2>2, FollowIs DEF Kinds, Reload
  <2>4. OutType'
    BY <1>1, <1>2, <1>4, <2>1, <2>2, <2>3 DEF OutType, Holding, Editing, At, Becomes,
       Goes, memVars, modes, screen, wizard, outVars, history, past
  <2>5. Visited /\ Steady(s) => Visited' /\ Steady(s)'
    BY <1>1, <1>2, <1>4, <2>1, <2>2, <2>3, <2>4 DEF Steady, InOrder, Begun, Served,
       Serving, Calm, InCalm, Settling, Restored, Landed, Close, Saved, KeptBy, Visited,
       Holding, Editing, At, Same, Goes, Becomes, memVars, modes, screen, wizard,
       outVars, history, past
  <2> QED
    BY <1>1, <1>2, <1>4, <2>1, <2>2, <2>3, <2>4, <2>5, StepIs DEF Goes, Becomes,
       Holding, Editing, At
<1>5. CASE /\ At(s, "restore", "unread") /\ UNCHANGED <<memVars, unsaved, confirm, exitConfirm>>
           /\ view = "progress"
  <2>1. Mem' = Mem /\ MemType'
    BY <1>1, <1>2, <1>5, MemStays DEF memVars
  <2>2. FlagType'
    BY <1>1, <1>2, <1>5, <2>1 DEF FlagType, modes
  <2>3. Becomes(s, "core", "start", NoObj, NoEdit, {})
    BY <1>1, <1>2, <1>5, <2>1, <2>2, FollowIs DEF Kinds, Reload
  <2>4. OutType'
    BY <1>1, <1>2, <1>5, <2>1, <2>2, <2>3 DEF OutType, Holding, Editing, At, Becomes,
       Goes, memVars, modes, screen, wizard, outVars, history, past
  <2>5. Visited /\ Steady(s) => Visited' /\ Steady(s)'
    BY <1>1, <1>2, <1>5, <2>1, <2>2, <2>3, <2>4 DEF Steady, InOrder, Begun, Served,
       Serving, Calm, InCalm, Settling, Restored, Landed, Close, Saved, KeptBy, Visited,
       Holding, Editing, At, Same, Goes, Becomes, memVars, modes, screen, wizard,
       outVars, history, past
  <2> QED
    BY <1>1, <1>2, <1>5, <2>1, <2>2, <2>3, <2>4, <2>5, StepIs DEF Goes, Becomes,
       Holding, Editing, At
<1>6. CASE /\ At(s, "restore", "unread") /\ UNCHANGED <<memVars, unsaved, confirm, exitConfirm>>
           /\ view # "progress"
  <2>1. Mem' = Mem /\ MemType'
    BY <1>1, <1>2, <1>6, MemStays DEF memVars
  <2>2. FlagType'
    BY <1>1, <1>2, <1>6, <2>1 DEF FlagType, modes
  <2>3. Becomes(s, "load", "start", NoObj, NoEdit, {})
    BY <1>1, <1>2, <1>6, <2>1, <2>2, FollowIs DEF Kinds, Reload
  <2>4. OutType'
    BY <1>1, <1>2, <1>6, <2>1, <2>2, <2>3 DEF OutType, Holding, Editing, At, Becomes,
       Goes, memVars, modes, screen, wizard, outVars, history, past
  <2>5. Visited /\ Steady(s) => Visited' /\ Steady(s)'
    BY <1>1, <1>2, <1>6, <2>1, <2>2, <2>3, <2>4 DEF Steady, InOrder, Begun, Served,
       Serving, Calm, InCalm, Settling, Restored, Landed, Close, Saved, KeptBy, Visited,
       Holding, Editing, At, Same, Goes, Becomes, memVars, modes, screen, wizard,
       outVars, history, past
  <2> QED
    BY <1>1, <1>2, <1>6, <2>1, <2>2, <2>3, <2>4, <2>5, StepIs DEF Goes, Becomes,
       Holding, Editing, At
<1> QED
  BY <1>3, <1>4, <1>5, <1>6, <1>1 DEF BackupRestored, At

LEMMA StatusOnlyKeeps == ASSUME SessionType, NEW s \in Slots, StatusOnly(s) PROVE StepKept(s)
<1>1. /\ \/ cmd[s].at = "failed" /\ cmd[s].kind \in
              {"port", "reset", "route", "save", "log", "cert", "dns", "restore"}
         \/ At(s, "restart", "done") \/ At(s, "backup", "done")
      /\ finished' \in BOOLEAN
      /\ cmd[s] \in Cmds /\ CmdType /\ MemType /\ FlagType /\ OutType /\ NoEdit \notin made
      /\ (Editing(s) => cmd[s].edit \in AllEdits) /\ (Holding(s) => cmd[s].obj \in Objs)
  BY TypeParts, SessionConstants DEF StatusOnly, CmdType, OutType
<1>2. UNCHANGED <<memVars, modes, view, chosen, outVars, history>>
  BY DEF StatusOnly
<1>3. Mem' = Mem /\ MemType'
  BY <1>1, <1>2, MemStays DEF memVars
<1>4. FlagType'
  BY <1>1, <1>2, <1>3, FlagsStay DEF FlagType, modes
<1>5. Becomes(s, "none", "idle", NoObj, NoEdit, {})
  BY <1>1, <1>2, <1>3, <1>4, EndIs DEF StatusOnly
<1>6. OutType'
  BY <1>1, <1>2, <1>3, <1>4, <1>5 DEF OutType, Holding, Editing, At, Becomes, Goes,
     memVars, modes, screen, wizard, outVars, history, past
<1>7. Visited /\ Steady(s) => InOrder(s)' /\ Begun(s)' /\ Visited'
  BY <1>1, <1>2, <1>3, <1>4, <1>5, <1>6 DEF Steady, InOrder, Begun, Served, Serving, Calm,
     InCalm, Settling, Restored, Landed, Close, Saved, KeptBy, Visited, Holding, Editing,
     At, Same, Goes, Becomes, memVars, modes, screen, wizard, outVars, history, past
<1>8. Visited /\ Steady(s) => Served(s)'
  BY <1>1, <1>2, <1>3, <1>4, <1>5, <1>6, <1>7 DEF Steady, InOrder, Begun, Served, Serving,
     Calm, InCalm, Settling, Restored, Landed, Close, Saved, KeptBy, Visited, Holding,
     Editing, At, Same, Goes, Becomes, memVars, modes, screen, wizard, outVars, history,
     past
<1>9. Visited /\ Steady(s) => (Calm' => InCalm(s)')
  BY <1>1, <1>2, <1>3, <1>4, <1>5, <1>6, <1>7, <1>8 DEF Steady, InOrder, Begun, Served,
     Serving, Calm, InCalm, Settling, Restored, Landed, Close, Saved, KeptBy, Visited,
     Holding, Editing, At, Same, Goes, Becomes, memVars, modes, screen, wizard, outVars,
     history, past
<1>10. Visited /\ Steady(s) => Visited' /\ Steady(s)'
  BY <1>1, <1>2, <1>3, <1>4, <1>5, <1>6, <1>7, <1>8, <1>9 DEF Steady
<1> QED
  BY <1>1, <1>2, <1>3, <1>4, <1>5, <1>6, <1>7, <1>8, <1>9, <1>10, StepIs DEF Goes,
     Becomes, Holding, Editing, At

LEMMA CertModeSwitchedKeeps ==
  ASSUME SessionType, NEW s \in Slots, CertModeSwitched(s)
  PROVE  StepKept(s)
<1>1. /\ At(s, "cert", "done")
      /\ cmd[s] \in Cmds /\ CmdType /\ MemType /\ FlagType /\ OutType /\ NoEdit \notin made
      /\ (Editing(s) => cmd[s].edit \in AllEdits) /\ (Holding(s) => cmd[s].obj \in Objs)
  BY TypeParts, SessionConstants DEF CertModeSwitched, CmdType, OutType
<1>2. UNCHANGED <<memVars, modes, screen, outVars, history>>
  BY DEF CertModeSwitched
<1>3. Mem' = Mem /\ MemType'
  BY <1>1, <1>2, MemStays DEF memVars
<1>4. FlagType'
  BY <1>1, <1>2, <1>3, FlagsStay DEF FlagType, modes
<1>5. Becomes(s, "load", "start", NoObj, NoEdit, {})
  BY <1>1, <1>2, <1>3, <1>4, FollowIs DEF Kinds, CertModeSwitched
<1>6. OutType'
  BY <1>1, <1>2, <1>3, <1>4, <1>5 DEF OutType, Holding, Editing, At, Becomes, Goes,
     memVars, modes, screen, wizard, outVars, history, past
<1>7. Visited /\ Steady(s) => Visited' /\ Steady(s)'
  BY <1>1, <1>2, <1>3, <1>4, <1>5, <1>6 DEF Steady, InOrder, Begun, Served, Serving, Calm,
     InCalm, Settling, Restored, Landed, Close, Saved, KeptBy, Visited, Holding, Editing,
     At, Same, Goes, Becomes, memVars, modes, screen, wizard, outVars, history, past
<1> QED
  BY <1>1, <1>2, <1>3, <1>4, <1>5, <1>6, <1>7, StepIs DEF Goes, Becomes, Holding, Editing,
     At

LEMMA CertRequestedKeeps == ASSUME SessionType, NEW s \in Slots, CertRequested(s) PROVE StepKept(s)
<1>1. /\ At(s, "dns", "done") /\ view' = "cert"
      /\ cmd[s] \in Cmds /\ CmdType /\ MemType /\ FlagType /\ OutType /\ NoEdit \notin made
      /\ (Editing(s) => cmd[s].edit \in AllEdits) /\ (Holding(s) => cmd[s].obj \in Objs)
  BY TypeParts, SessionConstants DEF CertRequested, CmdType, OutType
<1>2. UNCHANGED <<memVars, modes, wizard, outVars, history>>
  BY DEF CertRequested
<1>3. Mem' = Mem /\ MemType'
  BY <1>1, <1>2, MemStays DEF memVars
<1>4. FlagType'
  BY <1>1, <1>2, <1>3, FlagsStay DEF FlagType, modes
<1>5. Becomes(s, "none", "idle", NoObj, NoEdit, {})
  BY <1>1, <1>2, <1>3, <1>4, EndIs DEF CertRequested
<1>6. OutType'
  BY <1>1, <1>2, <1>3, <1>4, <1>5 DEF OutType, Holding, Editing, At, Becomes, Goes,
     memVars, modes, screen, wizard, outVars, history, past, Views, Menus
<1>7. Visited /\ Steady(s) => Visited' /\ Steady(s)'
  BY <1>1, <1>2, <1>3, <1>4, <1>5, <1>6 DEF Steady, InOrder, Begun, Served, Serving, Calm,
     InCalm, Settling, Restored, Landed, Close, Saved, KeptBy, Visited, Holding, Editing,
     At, Same, Goes, Becomes, memVars, modes, screen, wizard, outVars, history, past,
     Views, Menus
<1> QED
  BY <1>1, <1>2, <1>3, <1>4, <1>5, <1>6, <1>7, StepIs DEF Goes, Becomes, Holding, Editing,
     At, Views, Menus

LEMMA CoreInstalledKeeps == ASSUME SessionType, NEW s \in Slots, CoreInstalled(s) PROVE StepKept(s)
<1>1. /\ cmd[s].kind = "core" /\ (view' # view => view # "progress" /\ view' = "core")
      /\ finished' \in BOOLEAN
      /\ cmd[s] \in Cmds /\ CmdType /\ MemType /\ FlagType /\ OutType /\ NoEdit \notin made
      /\ (Editing(s) => cmd[s].edit \in AllEdits) /\ (Holding(s) => cmd[s].obj \in Objs)
  BY TypeParts, SessionConstants DEF CoreInstalled, CmdType, OutType, At
<1>2. UNCHANGED <<memVars, modes, chosen, outVars, history>>
  BY DEF CoreInstalled, At
<1>3. CASE Follow(s, "install") /\ UNCHANGED view
  <2>1. Mem' = Mem /\ MemType'
    BY <1>1, <1>2, <1>3, MemStays DEF memVars
  <2>2. FlagType'
    BY <1>1, <1>2, <1>3, <2>1, FlagsStay DEF FlagType, modes
  <2>3. Becomes(s, "install", "start", NoObj, NoEdit, {})
    BY <1>1, <1>2, <1>3, <2>1, <2>2, FollowIs DEF Kinds
  <2>4. OutType'
    BY <1>1, <1>2, <1>3, <2>1, <2>2, <2>3 DEF OutType, Holding, Editing, At, Becomes,
       Goes, memVars, modes, screen, wizard, outVars, history, past
  <2>5. Visited /\ Steady(s) => Visited' /\ Steady(s)'
    BY <1>1, <1>2, <1>3, <2>1, <2>2, <2>3, <2>4 DEF Steady, InOrder, Begun, Served,
       Serving, Calm, InCalm, Settling, Restored, Landed, Close, Saved, KeptBy, Visited,
       Holding, Editing, At, Same, Goes, Becomes, memVars, modes, screen, wizard,
       outVars, history, past
  <2> QED
    BY <1>1, <1>2, <1>3, <2>1, <2>2, <2>3, <2>4, <2>5, StepIs DEF Goes, Becomes,
       Holding, Editing, At
<1>4. CASE End(s)
  <2>1. Mem' = Mem /\ MemType'
    BY <1>1, <1>2, <1>4, MemStays DEF memVars
  <2>2. FlagType'
    BY <1>1, <1>2, <1>4, <2>1, FlagsStay DEF FlagType, modes
  <2>3. Becomes(s, "none", "idle", NoObj, NoEdit, {})
    BY <1>1, <1>2, <1>4, <2>1, <2>2, EndIs
  <2>4. OutType'
    BY <1>1, <1>2, <1>4, <2>1, <2>2, <2>3 DEF OutType, Holding, Editing, At, Becomes,
       Goes, memVars, modes, screen, wizard, outVars, history, past, Views
  <2>5. Visited /\ Steady(s) => Visited' /\ Steady(s)'
    BY <1>1, <1>2, <1>4, <2>1, <2>2, <2>3, <2>4 DEF Steady, InOrder, Begun, Served,
       Serving, Calm, InCalm, Settling, Restored, Landed, Close, Saved, KeptBy, Visited,
       Holding, Editing, At, Same, Goes, Becomes, memVars, modes, screen, wizard,
       outVars, history, past, Views
  <2> QED
    BY <1>1, <1>2, <1>4, <2>1, <2>2, <2>3, <2>4, <2>5, StepIs DEF Goes, Becomes,
       Holding, Editing, At, Views
<1> QED
  BY <1>3, <1>4, <1>1 DEF CoreInstalled, At

LEMMA InstallEndedKeeps == ASSUME SessionType, NEW s \in Slots, InstallEnded(s) PROVE StepKept(s)
<1>1. /\ cmd[s].kind = "install" /\ cmd[s].at \in {"done", "failed"} /\ finished' = TRUE
      /\ cmd[s] \in Cmds /\ CmdType /\ MemType /\ FlagType /\ OutType /\ NoEdit \notin made
      /\ (Editing(s) => cmd[s].edit \in AllEdits) /\ (Holding(s) => cmd[s].obj \in Objs)
  BY TypeParts, SessionConstants DEF InstallEnded, CmdType, OutType
<1>2. UNCHANGED <<memVars, modes, view, chosen, outVars, history>>
  BY DEF InstallEnded
<1>3. Mem' = Mem /\ MemType'
  BY <1>1, <1>2, MemStays DEF memVars
<1>4. FlagType'
  BY <1>1, <1>2, <1>3, FlagsStay DEF FlagType, modes
<1>5. Becomes(s, "none", "idle", NoObj, NoEdit, {})
  BY <1>1, <1>2, <1>3, <1>4, EndIs DEF InstallEnded
<1>6. OutType'
  BY <1>1, <1>2, <1>3, <1>4, <1>5 DEF OutType, Holding, Editing, At, Becomes, Goes,
     memVars, modes, screen, wizard, outVars, history, past
<1>7. Visited /\ Steady(s) => Visited' /\ Steady(s)'
  BY <1>1, <1>2, <1>3, <1>4, <1>5, <1>6 DEF Steady, InOrder, Begun, Served, Serving, Calm,
     InCalm, Settling, Restored, Landed, Close, Saved, KeptBy, Visited, Holding, Editing,
     At, Same, Goes, Becomes, memVars, modes, screen, wizard, outVars, history, past
<1> QED
  BY <1>1, <1>2, <1>3, <1>4, <1>5, <1>6, <1>7, StepIs DEF Goes, Becomes, Holding, Editing,
     At

LEMMA UUIDGeneratedKeeps == ASSUME SessionType, NEW s \in Slots, UUIDGenerated(s) PROVE StepKept(s)
<1>1. /\ At(s, "uuid", "done") /\ EditMem(ptr, cmd[s].edit) /\ unsaved' = TRUE
      /\ cmd[s] \in Cmds /\ CmdType /\ MemType /\ FlagType /\ OutType /\ NoEdit \notin made
      /\ (Editing(s) => cmd[s].edit \in AllEdits) /\ (Holding(s) => cmd[s].obj \in Objs)
  BY TypeParts, SessionConstants DEF UUIDGenerated, CmdType, OutType
<1>2. UNCHANGED <<ptr, confirm, exitConfirm, portMode, screen, outVars, history>>
  BY DEF UUIDGenerated
<1>3. Mem' = Mem \cup {cmd[s].edit} /\ MemType'
  BY <1>1, <1>2, EditedMem DEF Editing, At, MemType
<1>4. FlagType'
  BY <1>1, <1>2, <1>3 DEF FlagType, modes
<1>5. Becomes(s, "none", "idle", NoObj, NoEdit, {})
  BY <1>1, <1>2, <1>3, <1>4, EndIs DEF UUIDGenerated
<1>6. OutType'
  BY <1>1, <1>2, <1>3, <1>4, <1>5 DEF OutType, Holding, Editing, At, Becomes, Goes,
     memVars, modes, screen, wizard, outVars, history, past
<1>7. Visited /\ Steady(s) => Visited' /\ Steady(s)'
  BY <1>1, <1>2, <1>3, <1>4, <1>5, <1>6 DEF Steady, InOrder, Begun, Served, Serving, Calm,
     InCalm, Settling, Restored, Landed, Close, Saved, KeptBy, Visited, Holding, Editing,
     At, Same, Goes, Becomes, memVars, modes, screen, wizard, outVars, history, past
<1> QED
  BY <1>1, <1>2, <1>3, <1>4, <1>5, <1>6, <1>7, StepIs DEF Goes, Becomes, Holding, Editing,
     At

-----------------------------------------------------------------------------
\* A step of a command, or the handling of its message, keeps the invariant.

LEMMA OwnStep ==
  ASSUME SessionInv, NEW s \in Slots, StepKept(s), Patient => InvOf(s) PROVE SessionInv'
BY DEF SessionInv, InvOf, StepKept, Only, Others, Bystander

LEMMA StepsKeep == ASSUME SessionType, NEW s \in Slots, Run(s) \/ Update(s) PROVE StepKept(s)
<1>1. CASE Run(s)
  BY <1>1, LoadConfigKeeps, GetConfigKeeps, ChangePortKeeps, ChangeRouteKeeps, SaveConfigKeeps,
     GenerateConfigKeeps, ApplyConfigKeeps, ToggleCertModeKeeps, ChangeLogLevelKeeps,
     StoreCredentialsKeeps, ObtainCertificateKeeps, TakeBackupKeeps, RestoreFileKeeps,
     LoadSavedKeeps, InstallCoreKeeps, InstallPrismKeeps, RestartKeeps, MakeUUIDKeeps DEF Run
<1>2. CASE Update(s)
  BY <1>2, ConfigLoadedKeeps, ConfigUpdatedKeeps, ConfigAppliedKeeps, BackupRestoredKeeps,
     StatusOnlyKeeps, CertModeSwitchedKeeps, CertRequestedKeeps, CoreInstalledKeeps,
     InstallEndedKeeps, UUIDGeneratedKeeps DEF Update
<1> QED
  BY <1>1, <1>2

\* A restart beside the command of s reads config.json, or is over.
LEMMA BystanderStep ==
  ASSUME SessionType, NEW s \in Slots, InvOf(s), NEW t \in Slots \ {s}, Run(t) \/ Update(t)
  PROVE  InvOf(s)'
<1>1. cmd[t].kind \in {"none", "restart"} /\ cmd[t].edit = NoEdit
  BY DEF InvOf, Only, Bystander
<1>2. Restart(t) \/ StatusOnly(t)
  BY <1>1 DEF Run, Update, LoadConfig, GetConfig, ChangePort, ChangeRoute, SaveConfig,
     GenerateConfig, ApplyConfig, ToggleCertMode, ChangeLogLevel, StoreCredentials,
     ObtainCertificate, TakeBackup, RestoreFile, LoadSaved, InstallCore, InstallPrism, MakeUUID,
     ConfigLoaded, ConfigUpdated, Updated, ConfigApplied, BackupRestored, CertModeSwitched,
     CertRequested, CoreInstalled, InstallEnded, UUIDGenerated, At
<1>3. UNCHANGED <<memVars, modes, view, disk, json, history>> /\ running' \in {running, json}
  BY <1>2 DEF Restart, StatusOnly, outVars, screen
<1>4. Others(t) /\ cmd'[t].kind \in {"none", "restart"} /\ cmd'[t].edit = NoEdit
  <2>1. CmdType
    BY TypeParts
  <2>2. CASE Restart(t)
    <3>1. Goes(t, "done", cmd[t].obj, cmd[t].cfg)
      BY <2>1, <2>2, MoveIs DEF Restart, Places
    <3> QED
      BY <1>1, <3>1 DEF Goes, Becomes
  <2>3. CASE StatusOnly(t)
    <3>1. Becomes(t, "none", "idle", NoObj, NoEdit, {})
      BY <2>1, <2>3, EndIs DEF StatusOnly
    <3> QED
      BY <3>1 DEF Becomes
  <2> QED
    BY <1>2, <2>2, <2>3
<1>5. cmd'[s] = cmd[s] /\ Mem' = Mem
  BY <1>3, <1>4, MemStays DEF Others
<1>6. Only(s)'
  BY <1>4 DEF InvOf, Only, Others, Bystander
<1>7. InOrder(s)' /\ Begun(s)' /\ Served(s)'
  BY <1>3, <1>5 DEF InvOf, Steady, InOrder, Begun, Served, Serving, Holding, At, Same, Editing,
     memVars, modes, history
<1>8. Calm' => InCalm(s)'
  BY <1>3, <1>5 DEF InvOf, Steady, Calm, InCalm, Settling, Restored, Landed, Close, Saved,
     KeptBy, At, modes, history, past
<1>9. Visited'
  BY <1>3 DEF InvOf, Visited, modes, history, past
<1> QED
  BY <1>6, <1>7, <1>8, <1>9 DEF InvOf, Steady

LEMMA CommandsKeep ==
  ASSUME SessionInv, NEW t \in Slots, Run(t) \/ Update(t) PROVE SessionInv'
<1>1. StepKept(t)
  BY StepsKeep DEF SessionInv
<1> SUFFICES ASSUME Patient PROVE \E s \in Slots : InvOf(s)'
  BY <1>1 DEF SessionInv, StepKept
<1> PICK s \in Slots : InvOf(s)
  BY DEF SessionInv
<1>2. CASE s = t
  BY <1>1, <1>2, OwnStep DEF SessionInv
<1>3. CASE s # t
  BY <1>3, BystanderStep DEF SessionInv
<1> QED
  BY <1>2, <1>3

-----------------------------------------------------------------------------
\* Keys, pressed when no command is under way.

\* What is known then.
Resting ==
  /\ Visited
  /\ failed \cap {"apply", "reload"} = {} => Same(json, disk) /\ Same(running, disk)
  /\ Calm => (~unsaved => Close) /\ Kept

LEMMA RestKnows == ASSUME SessionInv, Patient, AtRest PROVE Resting
<1> PICK s \in Slots : InvOf(s)
  BY DEF SessionInv
<1>1. cmd[s].kind = "none" /\ cmd[s].edit = NoEdit /\ NoEdit \notin made
  BY IdleIs, TypeParts, SessionConstants DEF AtRest, SessionInv, OutType
<1>2. Calm => (~unsaved => Close) /\ Kept
  BY <1>1 DEF InvOf, Steady, InCalm, Settling, Restored, At, Kept, KeptBy
<1> QED
  BY <1>1, <1>2 DEF InvOf, Resting, Steady, Served, Serving

\* A key that begins no command.
LEMMA QuietKey ==
  ASSUME SessionInv, Key, UNCHANGED <<cmd, failed, disk, json, running, visits>>,
         MemType', FlagType', OutType',
         Patient /\ Resting => Resting'
  PROVE  SessionInv'
<1>1. SessionType'
  BY TypeParts DEF SessionInv, CmdType, Holding, Editing, At
<1> SUFFICES ASSUME Patient PROVE \E s \in Slots : InvOf(s)'
  BY <1>1 DEF SessionInv
<1>2. AtRest /\ Resting'
  BY RestKnows DEF Key
<1>3. PICK s \in Slots : TRUE
  BY SessionConstants
<1>4. \A t \in Slots : cmd'[t].kind = "none" /\ cmd'[t].at = "idle" /\ cmd'[t].edit = NoEdit
  BY <1>2, IdleIs DEF AtRest
<1>5. Only(s)'
  BY <1>4 DEF Only, Bystander
<1>6. InOrder(s)' /\ Begun(s)' /\ Served(s)'
  BY <1>2, <1>4 DEF Resting, InOrder, Begun, Served, Holding, At, Editing
<1>7. Calm' => InCalm(s)'
  BY <1>2, <1>4 DEF Resting, InCalm, Restored, Landed, Kept, KeptBy, At
<1> QED
  BY <1>2, <1>5, <1>6, <1>7 DEF InvOf, Steady, Resting

LEMMA Started ==
  ASSUME CmdType, NEW k \in Kinds, NEW e \in AllEdits \cup {NoEdit}, Start(k, e)
  PROVE  \E t \in Slots : cmd[t] = Idle /\ Becomes(t, k, "start", NoObj, e, {})
<1> DEFINE c == Command(k, e)
<1>1. FreeSlot \in Slots /\ cmd[FreeSlot] = Idle
  BY DEF Start, FreeSlot, FreeSlots
<1>2. c = Command(k, e) /\ cmd' = [cmd EXCEPT ![FreeSlot] = c]
  BY DEF Start
<1> HIDE DEF c
<1>3. /\ c \in Cmds /\ c.kind = k /\ c.at = "start" /\ c.obj = NoObj /\ c.edit = e /\ c.cfg = {}
  BY <1>2, CommandIs
<1> QED
  BY <1>1, <1>2, <1>3 DEF Becomes, Others, CmdType

EditKinds == {"port", "reset", "route", "cert", "log", "uuid", "dns"}

\* Where the key of a command is pressed, and with which edit.
Pressed(k, e) ==
  /\ k \in EditKinds => e \in AllEdits
  /\ k \notin EditKinds => e = NoEdit
  /\ k \in {"cert", "log"} => e \in Later
  /\ k = "dns" => e \in Behind

PressedIn(k, v) ==
  /\ k = "port" => v = "ports"
  /\ k = "reset" => v \in {"ports", "progress"}
  /\ k = "uuid" => v = "field"
  /\ k \in {"route", "cert", "log"} => v = k
  /\ k = "dns" => v = "cert"
  /\ k \in {"backup", "restore"} => v = "backup"

\* A key that begins one.
LEMMA StartingKey ==
  ASSUME SessionInv, Key, NEW k \in Kinds \ {"none", "save", "core", "install"},
         NEW e \in AllEdits \cup {NoEdit},
         Start(k, e), UNCHANGED <<disk, json, running, visits, failed>>,
         MemType', FlagType', OutType', Pressed(k, e), PressedIn(k, view'),
         Patient /\ Resting => Visited',
         Patient /\ Resting /\ Calm =>
           /\ k = "load" => Saved'
           /\ k # "load" => made' \subseteq Mem' \cup (disk' \cap Behind) \cup dropped'
                                              \cup overwritten' \cup {e}
           /\ k # "load" /\ ~(k = "reset" /\ view' = "progress") => (~unsaved' => Close')
           /\ k \in {"cert", "log", "restore"} => Close'
  PROVE  SessionInv'
<1>1. PICK t \in Slots : cmd[t] = Idle /\ Becomes(t, k, "start", NoObj, e, {})
  BY Started, TypeParts DEF SessionInv
<1>2. CmdType'
  BY <1>1, CmdTypeOf, TypeParts
  DEF SessionInv, Becomes, Holding, Editing, Pressed, EditKinds, At
<1> SUFFICES ASSUME Patient PROVE InvOf(t)'
  BY <1>2, TypeParts DEF SessionInv
<1>3. AtRest /\ Resting
  BY RestKnows DEF Key
<1>4. Only(t)'
  BY <1>1, <1>3, IdleIs DEF Only, Bystander, AtRest, Becomes, Others
<1>5. InOrder(t)' /\ Begun(t)'
  BY <1>1 DEF InOrder, Begun, Becomes, Holding, Editing, Pressed, PressedIn, EditKinds, At
<1>6. Served(t)'
  BY <1>3 DEF Resting, Served, Same
<1>7. Calm' => InCalm(t)'
  <2> SUFFICES ASSUME Calm' PROVE InCalm(t)'
    OBVIOUS
  <2>1. Calm
    BY DEF Calm
  <2>2. /\ ~unsaved' => Close' \/ Settling(t)'
        /\ k \in {"cert", "log", "restore"} => Close'
    BY <1>1, <1>3, <2>1 DEF Settling, Becomes, At
  <2>3. KeptBy(t)' \/ k = "load"
    BY <1>1, <1>3, <2>1 DEF KeptBy, Becomes
  <2> QED
    BY <1>1, <1>3, <2>1, <2>2, <2>3 DEF InCalm, Restored, Landed, Becomes, At, Close
<1> QED
  BY <1>3, <1>4, <1>5, <1>6, <1>7 DEF InvOf, Steady

LEMMA Frame ==
  ASSUME SessionInv, UNCHANGED <<memVars, outVars, visits>>
  PROVE  /\ Mem' = Mem /\ MemType /\ MemType' /\ FlagType /\ OutType /\ CmdType
         /\ UNCHANGED <<disk, backup, json, running>>
BY MemStays, TypeParts DEF SessionInv, outVars

\* Keys that leave what is edited as it is.
LEMMA MovingKeys ==
  ASSUME SessionInv,
         \/ \E v \in Menus : OpenMenu(v)
         \/ \E v \in {"field", "ports"} : OpenPage(v)
         \/ Escape \/ LeaveProgress \/ SelectPort \/ AskReset \/ RefuseReset \/ AnswerOther
  PROVE  SessionInv'
<1>1. Key /\ UNCHANGED <<memVars, wizard, outVars, cmd, history, unsaved>>
  BY DEF OpenMenu, OpenPage, Escape, LeaveProgress, SelectPort, AskReset, RefuseReset,
     AnswerOther, modes, screen, wizard
<1>2. /\ Mem' = Mem /\ MemType /\ MemType' /\ FlagType /\ OutType
      /\ UNCHANGED <<disk, backup, json, running>>
  BY <1>1, Frame DEF history, past
<1>3. FlagType'
  BY <1>1, <1>2 DEF FlagType, OpenMenu, OpenPage, Escape, LeaveProgress, SelectPort, AskReset,
     RefuseReset, AnswerOther, modes
<1>4. OutType'
  <2>1. view' \in Views
    BY <1>2 DEF OutType, Views, Menus, Parent, OpenMenu, OpenPage, Escape, LeaveProgress,
       SelectPort, AskReset, RefuseReset, AnswerOther, screen
  <2> QED
    BY <1>1, <1>2, <2>1 DEF OutType, history, past, wizard
<1>5. Visited => Visited'
  <2>1. CASE \E v \in Menus : OpenMenu(v)
    BY <1>1, <2>1 DEF Visited, OpenMenu, Menus, history, past
  <2>2. CASE \E v \in {"field", "ports"} : OpenPage(v)
    BY <1>1, <2>2 DEF Visited, OpenPage, history, past
  <2>3. CASE Escape
    <3>1. view' = view \/ (view' = Parent /\ ~(view = "config" /\ unsaved))
      BY <2>3 DEF Escape
    <3> QED
      BY <1>1, <3>1 DEF Visited, Parent, history, past
  <2>4. CASE LeaveProgress
    BY <1>1, <2>4 DEF Visited, LeaveProgress, history, past
  <2>5. CASE SelectPort \/ AskReset \/ RefuseReset \/ AnswerOther
    BY <1>1, <2>5 DEF Visited, SelectPort, AskReset, RefuseReset, AnswerOther, screen, history, past
  <2> QED
    BY <2>1, <2>2, <2>3, <2>4, <2>5
<1>6. Patient /\ Resting => Resting'
  BY <1>1, <1>2, <1>5 DEF Resting, Same, Calm, Close, Kept, history, past
<1> QED
  BY <1>1, <1>2, <1>3, <1>4, <1>6, QuietKey DEF history, past

LEMMA FieldEditKeeps == ASSUME SessionInv, NEW e \in AllEdits, FieldEdit(e) PROVE SessionInv'
<1>1. /\ Key /\ EditMem(ptr, e) /\ unsaved' = TRUE /\ made' = made \cup {e} /\ view = "field"
      /\ UNCHANGED <<ptr, confirm, exitConfirm, portMode, view, chosen, finished, outVars, cmd,
                     visits, failed, dropped, overwritten, answered>>
  BY DEF FieldEdit, screen
<1>2. MemType /\ FlagType /\ OutType /\ CmdType
  BY TypeParts DEF SessionInv
<1>3. MemType' /\ Mem' = Mem \cup {e}
  BY <1>1, <1>2, EditedMem DEF MemType
<1>4. FlagType' /\ OutType'
  BY <1>1, <1>2 DEF FlagType, OutType, outVars
<1>5. Patient /\ Resting => Resting'
  BY <1>1, <1>3 DEF Resting, Visited, Same, Calm, Kept, outVars
<1> QED
  BY <1>1, <1>3, <1>4, <1>5, QuietKey DEF outVars

LEMMA ResetAllKeeps == ASSUME SessionInv, ResetAll PROVE SessionInv'
<1>1. /\ Key /\ Install({}) /\ unsaved' = TRUE /\ dropped' = dropped \cup made /\ view = "config"
      /\ UNCHANGED <<portMode, view, chosen, finished, outVars, cmd, visits, failed, made,
                     overwritten, answered>>
  BY DEF ResetAll, screen
<1>2. SessionType /\ FlagType /\ OutType
  BY TypeParts DEF SessionInv
<1>3. MemType' /\ Mem' = {}
  BY <1>1, <1>2, Installed
<1>4. FlagType' /\ OutType'
  BY <1>1, <1>2 DEF FlagType, OutType, outVars, Install, Forget
<1>5. Patient /\ Resting => Resting'
  BY <1>1, <1>3 DEF Resting, Visited, Same, Calm, Kept, outVars
<1> QED
  BY <1>1, <1>3, <1>4, <1>5, QuietKey DEF outVars

\* Keys that begin an edit by a command.
LEMMA EditingKeys ==
  ASSUME SessionInv, NEW e \in AllEdits,
         \/ GenerateUUID(e) \/ SubmitPort(e) \/ ResetPorts(e)
         \/ RouteEdit(e) \/ CertEdit(e) \/ LogEdit(e) \/ RequestDNS(e)
  PROVE  SessionInv'
<1>1. /\ Key /\ made' = made \cup {e}
      /\ UNCHANGED <<memVars, view, chosen, finished, outVars, visits, failed, dropped,
                     overwritten, answered>>
      /\ unsaved' = unsaved \/ (unsaved' = TRUE /\ view = "ports")
  BY DEF GenerateUUID, SubmitPort, ResetPorts, RouteEdit, CertEdit, LogEdit, RequestDNS,
     StartEdit, modes, screen
<1>2. /\ Mem' = Mem /\ MemType /\ MemType' /\ FlagType /\ OutType
      /\ UNCHANGED <<disk, backup, json, running>>
  BY <1>1, Frame
<1>3. FlagType'
  BY <1>2 DEF FlagType, GenerateUUID, SubmitPort, ResetPorts, RouteEdit, CertEdit, LogEdit,
     RequestDNS, StartEdit, modes
<1>4. OutType' /\ (Visited => Visited')
  BY <1>1, <1>2 DEF OutType, Visited
<1>5. PICK k \in EditKinds : Start(k, e) /\ Pressed(k, e) /\ PressedIn(k, view) /\ view # "progress"
  BY DEF GenerateUUID, SubmitPort, ResetPorts, RouteEdit, CertEdit, LogEdit, RequestDNS,
     StartEdit, Pressed, PressedIn, EditKinds, Later, Behind
<1>6. k \in Kinds \ {"none", "save", "core", "install"} /\ k # "load"
  BY <1>5 DEF Kinds, EditKinds
<1>7. Patient /\ Resting /\ Calm => (~unsaved' => Close')
  BY <1>1, <1>2 DEF Resting, FlagType, Close
\* Menus that reload the file are not visited where routing leaves changes behind.
<1>8. Patient /\ Resting /\ Calm /\ k \in {"cert", "log", "restore"} => Close'
  BY <1>1, <1>2, <1>5 DEF Resting, Visited, Calm, Close, PressedIn
<1>9. Patient /\ Resting /\ Calm =>
        made' \subseteq Mem' \cup (disk' \cap Behind) \cup dropped' \cup overwritten' \cup {e}
  BY <1>1, <1>2 DEF Resting, Kept
<1> QED
  BY <1>1, <1>2, <1>3, <1>4, <1>5, <1>6, <1>7, <1>8, <1>9, StartingKey DEF Resting

\* The wizard changes what is edited and begins the installation with the ports.
LEMMA SubmitInstallWizardKeeps ==
  ASSUME SessionInv, NEW f \in AllEdits, NEW e \in AllEdits, SubmitInstallWizard(f, e)
  PROVE  SessionInv'
<1>1. /\ Key /\ view = "install" /\ EditMem(ptr, f) /\ Start("reset", e) /\ view' = "progress"
      /\ chosen' = {f} /\ finished' = FALSE /\ made' = made \cup {e, f}
      /\ UNCHANGED <<ptr, modes, outVars, visits, failed, dropped, overwritten, answered>>
  BY DEF SubmitInstallWizard
<1>2. MemType /\ FlagType /\ OutType /\ CmdType
  BY TypeParts DEF SessionInv
<1>3. MemType' /\ Mem' = Mem \cup {f}
  BY <1>1, <1>2, EditedMem DEF MemType
<1>4. FlagType' /\ OutType' /\ UNCHANGED <<disk, json, running>>
  BY <1>1, <1>2, FlagsStay DEF OutType, Views, outVars
<1>5. Visited => Visited'
  BY <1>1 DEF Visited
<1>6. "reset" \in Kinds \ {"none", "save", "core", "install"} /\ Pressed("reset", e)
      /\ PressedIn("reset", view')
  BY <1>1 DEF Kinds, Pressed, PressedIn, EditKinds
<1>7. Patient /\ Resting /\ Calm =>
        made' \subseteq Mem' \cup (disk' \cap Behind) \cup dropped' \cup overwritten' \cup {e}
  BY <1>1, <1>3, <1>4 DEF Resting, Kept
<1> QED
  BY <1>1, <1>3, <1>4, <1>5, <1>6, <1>7, StartingKey DEF Resting

LEMMA AnswerNoKeeps == ASSUME SessionInv, AnswerNo PROVE SessionInv'
<1>1. /\ Key /\ unsaved' = FALSE /\ exitConfirm' = FALSE /\ view' = "main"
      /\ Start("load", NoEdit) /\ dropped' = dropped \cup (made \ disk)
      /\ UNCHANGED <<memVars, confirm, portMode, chosen, finished, outVars, visits, failed, made,
                     overwritten, answered>>
  BY DEF AnswerNo, wizard
<1>2. /\ MemType' /\ FlagType /\ OutType /\ UNCHANGED <<disk, backup, json, running>>
      /\ "load" \in Kinds \ {"none", "save", "core", "install"}
  BY <1>1, Frame DEF Kinds
<1>3. FlagType' /\ OutType' /\ Visited'
  BY <1>1, <1>2 DEF FlagType, OutType, Visited, Views
<1>4. Saved'
  BY <1>1, <1>2 DEF Saved
<1>5. Pressed("load", NoEdit) /\ PressedIn("load", view')
  BY DEF Pressed, PressedIn, EditKinds
<1> QED
  BY <1>1, <1>2, <1>3, <1>4, <1>5, StartingKey

\* Keys that begin a command without an edit.
LEMMA ServiceKeys ==
  ASSUME SessionInv, RestartKey \/ BackupKey \/ RestoreKey PROVE SessionInv'
<1>1. /\ Key
      /\ UNCHANGED <<memVars, modes, screen, outVars, visits, failed, made, dropped, overwritten>>
      /\ answered' \in {answered, {}}
  BY DEF RestartKey, BackupKey, RestoreKey, history, past
<1>2. PICK k \in {"restart", "backup", "restore"} : Start(k, NoEdit) /\ PressedIn(k, view)
  BY DEF RestartKey, BackupKey, RestoreKey, PressedIn
<1>3. /\ Mem' = Mem /\ MemType' /\ FlagType /\ OutType /\ UNCHANGED <<disk, backup, json, running>>
      /\ k \in Kinds \ {"none", "save", "core", "install"} /\ Pressed(k, NoEdit)
      /\ k \notin {"load", "reset", "cert", "log"}
  BY <1>1, <1>2, Frame DEF Kinds, Pressed, EditKinds
<1>4. FlagType' /\ OutType' /\ (Visited => Visited')
  BY <1>1, <1>3, FlagsStay DEF OutType, Visited, modes, screen
<1>5. Patient /\ Resting /\ Calm =>
        /\ made' \subseteq Mem' \cup (disk' \cap Behind) \cup dropped'
                                \cup overwritten' \cup {NoEdit}
        /\ ~unsaved' => Close'
  BY <1>1, <1>3 DEF Resting, Kept, Close, modes
<1>6. Patient /\ Resting /\ Calm /\ k = "restore" => Close'
  BY <1>1, <1>2, <1>3, <1>5 DEF Resting, Visited, Calm, PressedIn, modes
<1> QED
  BY <1>1, <1>2, <1>3, <1>4, <1>5, <1>6, StartingKey DEF Resting, screen

\* The save and the restart that begin together.
LEMMA AnswerYesKeeps == ASSUME SessionInv, AnswerYes PROVE SessionInv'
<1>1. /\ Key /\ unsaved' = FALSE /\ exitConfirm' = FALSE /\ view' = "main" /\ answered' = Mem
      /\ UNCHANGED <<memVars, confirm, portMode, chosen, finished, outVars, visits, failed, made,
                     dropped, overwritten>>
  BY DEF AnswerYes, wizard
<1>2. /\ Mem' = Mem /\ MemType /\ MemType' /\ FlagType /\ OutType /\ CmdType
      /\ UNCHANGED <<disk, backup, json, running>>
  BY <1>1, Frame
<1>3. Mem \subseteq AllEdits
  BY <1>2 DEF Mem, MemType
<1>4. FlagType' /\ OutType' /\ Visited'
  BY <1>1, <1>2, <1>3 DEF FlagType, OutType, Visited, Views
<1> DEFINE c == Command("save", NoEdit)
           r == Command("restart", NoEdit)
<1>5. PICK t \in FreeSlots \ {FreeSlot} : cmd' = [cmd EXCEPT ![FreeSlot] = c, ![t] = r]
  BY DEF AnswerYes
<1>6. FreeSlot \in Slots /\ t \in Slots /\ t # FreeSlot
  BY <1>5 DEF FreeSlot, FreeSlots
<1>7. /\ c = Command("save", NoEdit)
      /\ r = Command("restart", NoEdit)
      /\ {"save", "restart"} \subseteq Kinds
  BY DEF Kinds
<1> HIDE DEF c, r
<1>8. /\ c \in Cmds /\ c.kind = "save" /\ c.at = "start" /\ c.edit = NoEdit
      /\ r \in Cmds /\ r.kind = "restart" /\ r.at = "start" /\ r.edit = NoEdit
  BY <1>7, CommandIs
<1> PICK s \in Slots : s = FreeSlot
  BY <1>6
<1>9. /\ cmd' \in [Slots -> Cmds] /\ cmd'[s] = c /\ cmd'[t] = r
      /\ \A u \in Slots \ {s, t} : cmd'[u] = cmd[u]
  BY <1>2, <1>5, <1>6, <1>8 DEF CmdType
<1>10. CmdType'
  BY <1>2, <1>6, <1>8, <1>9 DEF CmdType, Holding, Editing, At
<1> SUFFICES ASSUME Patient PROVE InvOf(s)'
  BY <1>2, <1>4, <1>10, TypeParts DEF SessionInv
<1>11. AtRest /\ Resting
  BY <1>1, RestKnows DEF Key
<1>12. Only(s)'
  BY <1>8, <1>9, <1>11, IdleIs DEF Only, Bystander, AtRest
<1>13. InOrder(s)' /\ Begun(s)'
  BY <1>1, <1>8, <1>9 DEF InOrder, Begun, Holding, Editing, At
<1>14. Served(s)'
  BY <1>1, <1>2, <1>11 DEF Resting, Served, Same
<1>15. Calm' => InCalm(s)'
  BY <1>1, <1>2, <1>8, <1>9, <1>11 DEF Resting, Calm, InCalm, Settling, Restored, Landed, Kept,
     KeptBy, At
<1> QED
  BY <1>4, <1>11, <1>12, <1>13, <1>14, <1>15 DEF InvOf, Steady

-----------------------------------------------------------------------------
LEMMA SessionInvInit == Init => SessionInv
<1> SUFFICES ASSUME Init PROVE SessionInv
  OBVIOUS
<1> DEFINE c == Command("load", NoEdit)
           s == CHOOSE t \in Slots : TRUE
<1>1. c = Command("load", NoEdit) /\ "load" \in Kinds
  BY DEF Kinds
<1>2. s \in Slots
  BY SessionConstants
<1>3. cmd = [t \in Slots |-> IF t = s THEN c ELSE Idle]
  BY DEF Init
<1> HIDE DEF c, s
<1>4. /\ c \in Cmds /\ c.kind = "load" /\ c.at = "start" /\ c.edit = NoEdit
  BY <1>1, CommandIs
<1>5. /\ heap = [o \in Objs |-> {}] /\ ptr \in Objs /\ view = "main"
      /\ unsaved = FALSE /\ confirm = FALSE /\ exitConfirm = FALSE /\ portMode = FALSE
      /\ chosen = {} /\ finished = FALSE
      /\ disk = {} /\ backup = {} /\ json = {} /\ running = {} /\ visits \in Sessions
      /\ failed = {} /\ made = {} /\ dropped = {} /\ overwritten = {} /\ answered = {}
  BY ObjsSuffice DEF Init
<1>6. CmdType
  BY <1>3, <1>4, IdleIs DEF CmdType, Holding, Editing, At
<1>7. MemType /\ FlagType /\ OutType
  BY <1>5 DEF MemType, FlagType, OutType, Views
<1>8. Only(s)
  BY <1>3, IdleIs DEF Only, Bystander
<1>9. cmd[s] = c
  BY <1>2, <1>3
<1>10. Steady(s) /\ Visited
  BY <1>4, <1>5, <1>9 DEF Steady, InOrder, Begun, Served, InCalm, Settling, Restored, Landed,
     Saved, Holding, Editing, At, Same, Visited
<1> QED
  BY <1>2, <1>6, <1>7, <1>8, <1>10, TypeParts DEF SessionInv, InvOf

LEMMA SessionInvStep == SessionInv /\ [Next]_vars => SessionInv'
<1> SUFFICES ASSUME SessionInv, [Next]_vars PROVE SessionInv'
  OBVIOUS
<1>1. CASE Press
  BY <1>1, MovingKeys, FieldEditKeeps, EditingKeys, SubmitInstallWizardKeeps, ResetAllKeeps,
     AnswerYesKeeps, AnswerNoKeeps, ServiceKeys DEF Press
<1>2. CASE \E s \in Slots : Run(s) \/ Update(s)
  BY <1>2, CommandsKeep
<1>3. CASE UNCHANGED vars
  <2>1. UNCHANGED <<memVars, modes, screen, outVars, cmd, history>> /\ Mem' = Mem
    BY <1>3, MemStays DEF vars
  <2>2. SessionType'
    BY <2>1, TypeParts, FlagsStay, MemStays DEF SessionInv, CmdType, OutType, Holding,
       Editing, At, screen, outVars, history, past
  <2>3. ASSUME NEW s \in Slots, InvOf(s) PROVE InvOf(s)'
    <3>1. Visited' /\ Only(s)' /\ InOrder(s)' /\ Begun(s)' /\ Served(s)'
      BY <2>1, <2>3 DEF InvOf, Visited, Only, Bystander, Steady, InOrder, Begun, Served, Serving,
         Holding, At, Same, Editing, memVars, modes, screen, outVars, history, past
    <3>2. Calm' => InCalm(s)'
      BY <2>1, <2>3 DEF InvOf, Steady, Calm, InCalm, Settling, Restored, Landed, Close, Saved,
         KeptBy, At, modes, screen, outVars, history, past
    <3> QED
      BY <3>1, <3>2 DEF InvOf, Steady
  <2> QED
    BY <2>2, <2>3 DEF SessionInv
<1> QED
  BY <1>1, <1>2, <1>3 DEF Next

\* The inductive invariant of editing in the interface (command_builder.go,
\* router.go, config_state.go): what the command under way carries, and what it
\* still has to bring together.
THEOREM SessionInvHolds == Spec => []SessionInv
<1>1. Init => SessionInv
  BY SessionInvInit
<1>2. SessionInv /\ [Next]_vars => SessionInv'
  BY SessionInvStep
<1> QED
  BY <1>1, <1>2, PTL DEF Spec

\* Type correctness, for impatient users as well.
THEOREM SessionTypeCorrect == Spec => []TypeOK
<1>1. SessionInv => TypeOK
  BY InvIsEnough
<1> QED
  BY <1>1, SessionInvHolds, PTL

\* For a user who waits for the commands, what is in the file is what sing-box
\* runs, unless an apply or the load after a restore has failed; whatever else
\* fails, and whichever menus are visited, the restore of a backup and the
\* installation included (SaveConfigCmd, RestoreBackupCmd, InstallPrismCmd,
\* command_builder.go).
THEOREM TheSavedRuns == Patient => (Spec => []RunningIsSaved)
<1> SUFFICES ASSUME Patient PROVE Spec => []RunningIsSaved
  OBVIOUS
<1>1. SessionInv => RunningIsSaved
  BY InvIsEnough
<1> QED
  BY <1>1, SessionInvHolds, PTL

\* While the file can be read and written and menus that reload it are not mixed
\* with unsaved routing or an installation, a clear flag means that everything
\* shown is in the file, and that the file has no more than the credentials and
\* protocols of a request for a certificate (config_state.go:11,
\* key_handler.go:1813, router.go:370).
THEOREM AClearFlagIsHonest == Spec => []FlagIsHonestWhenCalm
<1>1. SessionInv => FlagIsHonestWhenCalm
  BY InvIsEnough
<1> QED
  BY <1>1, SessionInvHolds, PTL

\* Then, too, an edit is in memory or in the file until the user, or a refusal,
\* gives it up, or a save writes over what only the file had
\* (key_handler.go, router.go, command_builder.go:419).
THEOREM EditsAreKept == Spec => []KeptWhenCalm
<1>1. SessionInv => KeptWhenCalm
  BY InvIsEnough
<1> QED
  BY <1>1, SessionInvHolds, PTL

=============================================================================
