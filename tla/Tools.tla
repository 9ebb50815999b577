--------------------------------- MODULE Tools ---------------------------------
(***************************************************************************)
(* The tools of the interface that change the machine: swap space,         *)
(* congestion control, kernels, fail2ban and the cleaning of temporary     *)
(* files (command_builder.go:1929-2750).  Each command is a goroutine that *)
(* calls one program of the system after the other; nothing keeps two of   *)
(* them apart, and the machine may be started again between any two calls. *)
(***************************************************************************)
EXTENDS Naturals, FiniteSets

CONSTANTS
  Goers,         \* goroutines that run tools
  MaxToolRuns,   \* bound: commands begun
  MaxToolFaults  \* bound: calls that fail, restarts of the machine

ASSUME ToolsConstants == {MaxToolRuns, MaxToolFaults} \subseteq Nat

VARIABLES
  space,       \* what lies at the name of each swap space
  active,      \* /proc/swaps
  fstab,       \* those that /etc/fstab lists
  byUUID,      \* those of them that it lists by UUID or label
  shownSwap,   \* ToolsState.SwapInfo.SwapFile
  sysctl,      \* the algorithm that /etc/sysctl.conf asks for
  algorithm,   \* the one in use
  kernels,     \* the kernels installed, and the one that runs
  kernel,
  tmp,         \* /tmp: the script of the installation, and what it fetched
  told,        \* the kernel whose installation was reported
  jail,        \* the rules in 99-prism_sshd.conf
  daemon,      \* those that fail2ban runs with, or that it is off
  package,     \* fail2ban is installed
  goer,        \* the commands under way
  upset,       \* tools that a failure, or two commands at once, may have left in pieces
  toolRuns, toolFaults

swapVars == <<space, active, fstab, byUUID, shownSwap>>
bbrVars == <<sysctl, algorithm>>
kernelVars == <<kernels, kernel, tmp, told>>
banVars == <<jail, daemon, package>>
toolVars == <<swapVars, bbrVars, kernelVars, banVars, goer, upset, toolRuns, toolFaults>>

Spaces == {"partition", "/swapfile"}
Kernels == {"stock", "bbr2", "xanmod"}
Rules == {"none", "default", "custom"}
Unoccupied == [op |-> "none", pc |-> "idle", arg |-> "none"]

ToolsTypeOK ==
  /\ space \in [Spaces -> {"none", "plain", "swap", "removed"}]
  /\ active \subseteq Spaces /\ fstab \subseteq Spaces /\ byUUID \subseteq {"partition"}
  /\ shownSwap \in Spaces \cup {"none"}
  /\ sysctl \in {"none", "bbr", "bbr2"} /\ algorithm \in {"cubic", "bbr", "bbr2"}
  /\ kernel \in kernels /\ kernels \subseteq Kernels
  /\ tmp \subseteq {"script", "packages"} /\ told \subseteq Kernels
  /\ jail \in Rules /\ daemon \in Rules \cup {"off"} /\ package \in BOOLEAN
  /\ \A g \in Goers : goer[g].op \in {"none", "create", "delete", "enable", "disable",
                                      "kernel", "install", "config", "toggle", "remove"}
  /\ upset \subseteq {"swap", "fstab", "bbr", "fail2ban"}
  /\ toolRuns \in 0 .. MaxToolRuns /\ toolFaults \in 0 .. MaxToolFaults

\* A machine may have a swap partition from the start, and fstab its path or UUID.
ToolsInit ==
  /\ \E S \in SUBSET {"partition"} :
       /\ space = [s \in Spaces |-> IF s \in S THEN "swap" ELSE "none"]
       /\ active = S /\ fstab = S /\ byUUID \in SUBSET S
  /\ shownSwap = "none" /\ sysctl = "none" /\ algorithm = "cubic"
  /\ kernels = {"stock"} /\ kernel = "stock" /\ tmp = {} /\ told = {}
  /\ jail = "none" /\ daemon = "off" /\ package = FALSE
  /\ goer = [g \in Goers |-> Unoccupied] /\ upset = {} /\ toolRuns = 0 /\ toolFaults = 0

-----------------------------------------------------------------------------
(* Helpers.                                                                *)

ToolOf(op) ==
  CASE op \in {"create", "delete"} -> {"swap", "fstab"}
    [] op \in {"enable", "disable"} -> {"bbr"}
    [] op \in {"install", "config", "toggle", "remove"} -> {"fail2ban"}
    [] OTHER -> {}

\* A command begins, and may meet another of its tool.
BeginTool(g, op, pc, arg) ==
  /\ goer[g].pc = "idle" /\ toolRuns < MaxToolRuns
  /\ toolRuns' = toolRuns + 1
  /\ goer' = [goer EXCEPT ![g] = [op |-> op, pc |-> pc, arg |-> arg]]
  /\ upset' = upset \cup {t \in ToolOf(op) :
       \E h \in Goers \ {g} : goer[h].pc # "idle" /\ t \in ToolOf(goer[h].op)}
  /\ UNCHANGED <<swapVars, bbrVars, kernelVars, banVars, toolFaults>>

Comes(g, op, pc) == goer[g].op = op /\ goer[g].pc = pc
Goes(g, pc) == goer' = [goer EXCEPT ![g].pc = pc]
Ends(g) == goer' = [goer EXCEPT ![g] = Unoccupied]

WellDone == UNCHANGED <<upset, toolRuns, toolFaults>>

Fails(S) ==
  /\ toolFaults < MaxToolFaults /\ toolFaults' = toolFaults + 1
  /\ upset' = upset \cup S /\ UNCHANGED toolRuns

\* LoadSwapInfoCmd shows the first in /proc/swaps, where a partition comes first.
ShowSwap(S) ==
  shownSwap' = IF "partition" \in S THEN "partition"
               ELSE IF "/swapfile" \in S THEN "/swapfile" ELSE "none"

OtherThanSwap == UNCHANGED <<bbrVars, kernelVars, banVars>>
OtherThanBBR == UNCHANGED <<swapVars, kernelVars, banVars>>
OtherThanKernel == UNCHANGED <<swapVars, bbrVars, banVars>>
OtherThanBan == UNCHANGED <<swapVars, bbrVars, kernelVars>>

-----------------------------------------------------------------------------
(* Swap.                                                                   *)

CreateSwapCmd(g) ==
  space["/swapfile"] = "none" /\ BeginTool(g, "create", "fallocate", "/swapfile")

\* Slip: it is listed before it is swapped on.
CallsListedFirst == [fallocate |-> "mkswap", mkswap |-> "tee", tee |-> "swapon", swapon |-> "info"]

\* The calls of CreateSwapCmd, each after the other.
CallsOfCreate == [fallocate |-> "mkswap", mkswap |-> "swapon", swapon |-> "tee", tee |-> "info"]

\* One call: what is swapped on cannot be formatted nor swapped on again.
CreateCall(g, call) ==
  /\ call = "mkswap" => "/swapfile" \notin active /\ space["/swapfile"] # "none"
  /\ call = "swapon" => "/swapfile" \notin active /\ space["/swapfile"] = "swap"
  /\ space' = [space EXCEPT !["/swapfile"] =
       CASE call = "mkswap" -> "swap"
         [] call = "fallocate" /\ @ = "none" -> "plain"
         [] OTHER -> @]
  /\ active' = IF call = "swapon" THEN active \cup {"/swapfile"} ELSE active
  /\ fstab' = IF call = "tee" THEN fstab \cup {"/swapfile"} ELSE fstab
  /\ UNCHANGED <<byUUID, shownSwap>>

\* Whichever call fails, the file is removed; that this fails too for a file that is
\* swapped on is not looked at.
CreateStep(g) ==
  \E call \in DOMAIN CallsOfCreate :
    /\ Comes(g, "create", call)
    /\ \/ CreateCall(g, call) /\ Goes(g, CallsOfCreate[call]) /\ WellDone
       \/ /\ \/ Fails({"swap"})
             \/ /\ call \in {"mkswap", "swapon"}
                /\ "/swapfile" \in active \/ space["/swapfile"] = "none"
                /\ upset' = upset \cup {"swap"} /\ UNCHANGED <<toolRuns, toolFaults>>
          /\ space' = [space EXCEPT !["/swapfile"] = IF "/swapfile" \in active THEN @ ELSE "none"]
          /\ Ends(g) /\ UNCHANGED <<active, fstab, byUUID, shownSwap>>
    /\ OtherThanSwap

\* What is shown is what is deleted, be it a partition.
DeleteSwapCmd(g) ==
  BeginTool(g, "delete", "swapoff", IF shownSwap = "none" THEN "/swapfile" ELSE shownSwap)

\* The name of a partition is there again when the machine is started.
Removed(s) == IF s = "partition" THEN "removed" ELSE "none"

\* The lines that sed takes: those with the path, and it says nothing if there is none.
\* (The pattern is not anchored: a line of something else whose path begins with this
\* one goes too, which is left out, as fstab lists here nothing but swap space.)
SedTakes(target) == {target} \ byUUID

\* A swapoff or a sed that fails is passed over; a file that is swapped on stays.
DeleteStep(g) ==
  LET target == goer[g].arg IN
  /\ \/ /\ Comes(g, "delete", "swapoff") /\ Goes(g, "sed")
        /\ \/ active' = active \ {target} /\ WellDone
           \/ Fails({"swap"}) /\ UNCHANGED active
        /\ UNCHANGED <<space, fstab>>
     \/ /\ Comes(g, "delete", "sed") /\ Goes(g, "remove")
        /\ \/ fstab' = fstab \ SedTakes(target) /\ WellDone
           \/ Fails({"swap", "fstab"}) /\ UNCHANGED fstab
        /\ UNCHANGED <<space, active>>
     \/ /\ Comes(g, "delete", "remove")
        /\ \/ /\ target = "/swapfile" => target \notin active
              /\ space' = [space EXCEPT ![target] = Removed(target)] /\ Goes(g, "info") /\ WellDone
           \/ /\ \/ Fails({"swap"})
                 \/ /\ target = "/swapfile" /\ target \in active
                    /\ upset' = upset \cup {"swap"} /\ UNCHANGED <<toolRuns, toolFaults>>
              /\ Ends(g) /\ UNCHANGED space
        /\ UNCHANGED <<active, fstab>>
  /\ UNCHANGED <<byUUID, shownSwap>> /\ OtherThanSwap

LoadSwapInfoCmd(g) ==
  /\ goer[g].pc = "info" /\ Ends(g)
  /\ ShowSwap(active)
  /\ UNCHANGED <<space, active, fstab, byUUID>> /\ WellDone /\ OtherThanSwap

-----------------------------------------------------------------------------
(* Congestion control.                                                     *)

Supports(k) == {"bbr"} \cup (IF k = "bbr2" THEN {"bbr2"} ELSE {})

\* What is written in sysctl.conf takes effect, if the kernel has it.
Loaded(k, otherwise) == IF sysctl \in Supports(k) THEN sysctl ELSE otherwise

EnableBBRCmd(g, a) == a \in Supports(kernel) /\ BeginTool(g, "enable", "append", a)
DisableBBRCmd(g) == BeginTool(g, "disable", "sed", "none")

EnableStep(g) ==
  /\ \/ /\ Comes(g, "enable", "append")
        /\ \/ sysctl' = goer[g].arg /\ Goes(g, "sysctl -p") /\ WellDone
           \/ Fails({"bbr"}) /\ Ends(g) /\ UNCHANGED sysctl
        /\ UNCHANGED algorithm
     \/ /\ Comes(g, "enable", "sysctl -p") /\ Ends(g)
        /\ \/ algorithm' = Loaded(kernel, algorithm) /\ WellDone
           \/ Fails({"bbr"}) /\ algorithm' \in {algorithm, Loaded(kernel, algorithm)}
        /\ UNCHANGED sysctl
  /\ OtherThanBBR

\* Neither call is looked at.
DisableStep(g) ==
  /\ \/ /\ Comes(g, "disable", "sed") /\ Goes(g, "sysctl -w")
        /\ (sysctl' = "none" /\ WellDone) \/ (Fails({"bbr"}) /\ UNCHANGED sysctl)
        /\ UNCHANGED algorithm
     \/ /\ Comes(g, "disable", "sysctl -w") /\ Ends(g)
        /\ (algorithm' = "cubic" /\ WellDone) \/ (Fails({"bbr"}) /\ UNCHANGED algorithm)
        /\ UNCHANGED sysctl
  /\ OtherThanBBR

-----------------------------------------------------------------------------
(* Kernels, and the cleaning of /tmp.                                      *)

InstallBBR2KernelCmd(g) == BeginTool(g, "kernel", "write", "bbr2")
InstallXanModCmd(g) == BeginTool(g, "kernel", "write", "xanmod")

\* The script is written to /tmp and run from there; that of BBR2 fetches packages
\* to /tmp, and ends with the first of its commands that fails, that of XanMod with
\* its last.
KernelStep(g) ==
  LET k == goer[g].arg IN
  /\ \/ Comes(g, "kernel", "write") /\ Goes(g, "bash") /\ tmp' = tmp \cup {"script"} /\ WellDone
        /\ UNCHANGED <<kernels, told>>
     \/ /\ Comes(g, "kernel", "bash") /\ "script" \in tmp
        /\ Goes(g, "fetch") /\ WellDone /\ UNCHANGED <<kernels, tmp, told>>
     \/ /\ Comes(g, "kernel", "fetch") /\ Goes(g, "dpkg")
        /\ tmp' = IF k = "bbr2" THEN tmp \cup {"packages"} ELSE tmp
        /\ WellDone /\ UNCHANGED <<kernels, told>>
     \/ /\ Comes(g, "kernel", "dpkg")
        /\ k = "bbr2" => "packages" \in tmp
        /\ kernels' = kernels \cup {k} /\ told' = told \cup {k}
        /\ tmp' = tmp \ {"packages"} /\ Ends(g) /\ WellDone
     \/ /\ goer[g].op = "kernel" /\ Ends(g)      \* it is reported to have failed
        /\ \/ Fails({})
           \/ /\ \/ Comes(g, "kernel", "bash") /\ "script" \notin tmp
                 \/ Comes(g, "kernel", "dpkg") /\ k = "bbr2" /\ "packages" \notin tmp
              /\ WellDone
        /\ UNCHANGED <<kernels, tmp, told>>
  /\ UNCHANGED kernel /\ OtherThanKernel

\* CleanSystemCmd of temporary files, at once.
CleanSystemCmd ==
  /\ tmp # {} /\ toolRuns < MaxToolRuns /\ toolRuns' = toolRuns + 1
  /\ tmp' = {}
  /\ UNCHANGED <<kernels, kernel, told, goer, upset, toolFaults>> /\ OtherThanKernel

-----------------------------------------------------------------------------
(* fail2ban.  Without the file of prism it runs with the distribution's.   *)

InstallFail2BanCmd(g) == BeginTool(g, "install", "package", "default")
UpdateFail2BanConfigCmd(g) == BeginTool(g, "config", "write", "custom")
UninstallFail2BanCmd(g) == BeginTool(g, "remove", "package", "none")

\* The state that is shown decides, and may be an old one.
ToggleFail2BanCmd(g, running) ==
  BeginTool(g, "toggle", IF running THEN "stop" ELSE "restart", "none")

\* An installation leaves rules that are there; an update replaces them.
BanWrites(g) ==
  /\ \/ /\ Comes(g, "install", "package")
        /\ package' = TRUE /\ jail' = (IF jail = "none" THEN "default" ELSE jail)
     \/ /\ Comes(g, "config", "write")
        /\ jail' = "custom" /\ UNCHANGED package
  /\ Goes(g, "restart") /\ UNCHANGED daemon

BanStep(g) ==
  /\ \/ (BanWrites(g) \/ (Comes(g, "toggle", "stop") /\ Ends(g) /\ daemon' = "off"
                            /\ UNCHANGED <<jail, package>>)) /\ WellDone
     \/ /\ goer[g].pc = "restart" /\ Ends(g)
        /\ daemon' = IF package THEN jail ELSE "off"
        /\ UNCHANGED <<jail, package>> /\ WellDone
     \/ /\ Comes(g, "remove", "package") /\ Goes(g, "files")
        /\ \/ package' = FALSE /\ daemon' = "off" /\ WellDone
           \/ Fails({"fail2ban"}) /\ daemon' \in {daemon, "off"} /\ UNCHANGED package
        /\ UNCHANGED jail
     \/ /\ Comes(g, "remove", "files") /\ Ends(g)
        /\ jail' = "none" /\ UNCHANGED <<daemon, package>> /\ WellDone
     \/ /\ goer[g].op \in {"install", "config", "toggle"} /\ Ends(g)
        /\ Fails({"fail2ban"}) /\ daemon' \in {daemon, "off"} /\ UNCHANGED <<jail, package>>
  /\ OtherThanBan

-----------------------------------------------------------------------------
\* The machine is started again, at any moment: what the files say is what runs.
Reboot ==
  /\ Fails({t \in {"swap", "bbr", "fail2ban"} : \E g \in Goers : t \in ToolOf(goer[g].op)})
  /\ goer' = [g \in Goers |-> Unoccupied]
  /\ space' = [s \in Spaces |-> IF space[s] = "removed" THEN "swap" ELSE space[s]]
  /\ active' = {s \in fstab : space'[s] = "swap"} /\ shownSwap' = "none"
  /\ kernel' \in kernels
  /\ algorithm' = Loaded(kernel', "cubic")
  /\ daemon' = IF package THEN jail ELSE "off"
  /\ tmp' = {}
  /\ UNCHANGED <<fstab, byUUID, sysctl, kernels, told, jail, package>>

ToolStep(g) ==
  CreateStep(g) \/ DeleteStep(g) \/ LoadSwapInfoCmd(g) \/ EnableStep(g) \/ DisableStep(g)
    \/ KernelStep(g) \/ BanStep(g)

ToolsNext ==
  \/ \E g \in Goers :
       \/ CreateSwapCmd(g) \/ DeleteSwapCmd(g) \/ DisableBBRCmd(g)
       \/ \E a \in {"bbr", "bbr2"} : EnableBBRCmd(g, a)
       \/ InstallBBR2KernelCmd(g) \/ InstallXanModCmd(g)
       \/ InstallFail2BanCmd(g) \/ UpdateFail2BanConfigCmd(g) \/ UninstallFail2BanCmd(g)
       \/ \E running \in BOOLEAN : ToggleFail2BanCmd(g, running)
       \/ ToolStep(g)
  \/ CleanSystemCmd \/ Reboot

ToolsSpec == ToolsInit /\ [][ToolsNext]_toolVars

-----------------------------------------------------------------------------
Unharmed(t) == t \notin upset /\ \A g \in Goers : t \notin ToolOf(goer[g].op)

\* fstab never lists the path of a swap space that is not there, in whichever call a
\* command fails or the machine stops, unless two commands for swap met or sed failed
\* (command_builder.go:1996, 2028); and where nothing failed and no two commands of
\* a tool met, the next start of the machine changes neither its swap space, nor its
\* congestion control, nor the rules of fail2ban, but that it brings back a swap
\* partition that fstab lists by UUID or label and that was deleted.  A kernel that
\* was reported to be installed is, also when /tmp was cleaned meanwhile.
MachineStartsAsItIs ==
  /\ "fstab" \notin upset => \A s \in fstab \ byUUID : space[s] = "swap"
  /\ Unharmed("swap") => active \subseteq fstab /\ fstab \subseteq active \cup byUUID
  /\ Unharmed("bbr") => algorithm = Loaded(kernel, "cubic")
  /\ Unharmed("fail2ban") => daemon \in {"off", jail} /\ (daemon # "off" => package)
  /\ told \subseteq kernels

=============================================================================
