--------------------------------- MODULE Pages ---------------------------------
(***************************************************************************)
(* The pages of the interface: what Enter and Esc do on each               *)
(* (tui/handlers/key_handler.go, cert_handlers.go), the questions that a   *)
(* page may be asking (tui/state), and the answers of the commands, each a *)
(* goroutine, that reach the router (tui/model/router.go) on whatever page *)
(* the user is by then.                                                    *)
(*                                                                         *)
(* Typing changes the input buffer only, and is part of the Enter that     *)
(* ends it; Esc is that with an empty buffer.  What a page shows of the    *)
(* system (whether the core is installed, fail2ban runs, links were made)  *)
(* is left open: any entry may be chosen.  Commands whose answers only set *)
(* the status line or the data of a page are left out: the other modules   *)
(* have what they do.                                                      *)
(***************************************************************************)
EXTENDS Naturals, Functions, FiniteSets

CONSTANTS
  MaxFlight,      \* bound: commands that are under way
  MaxAsked        \* bound: questions at once

ASSUME PagesConstants == {MaxFlight, MaxAsked} \subseteq Nat

VARIABLES
  view,      \* the page
  pending,   \* the questions that are asked, or the fields that are edited
  unsaved,   \* ConfigState.HasUnsavedChanges
  params,    \* NodeState.SelectionMode = "params"
  fromBan,   \* ToolsState.IsViewingFail2BanLogs
  finished,  \* InstallState.IsFinished
  flight,    \* the commands under way
  left,      \* the questions whose page was left, by a key, since they were asked
  taken,     \* those that an answer asked elsewhere, or whose page it took away
  alone      \* the installation was begun with nothing else under way

flags == <<unsaved, params, fromBan, finished>>
pageVars == <<view, pending, flags, flight, left, taken, alone>>

Menus == {"ConfigMenu", "CertMenu", "OutboundMenu", "RouteMenu", "CoreMenu", "ToolsMenu",
          "LogMenu", "NodeInfo"}
CertPages == {"ACMEHTTPInput", "ACMEDNSProvider", "DNSCredentialInput", "ProviderSwitch",
              "CertRenew", "CertDelete", "CertStatus", "CertModeMenu"}
ConfigPages == {"ProtocolMenu", "SNIEdit", "UUIDEdit", "PortEdit", "AnyTLSPadding"}
RoutePages == {"WARPRouting", "Socks5Routing", "IPv6Routing", "DNSRouting", "SNIProxyRouting"}
Socks5Pages == {"Socks5Inbound", "Socks5Outbound"}
CorePages == {"CoreVersionSelect", "CoreSourceSelect", "ScriptUpdate"}
ToolPages == {"SwapMenu", "Fail2BanMenu", "BBRMenu", "StreamingCheck", "SystemCleanup",
              "BackupMenu"}
NodePages == {"ProtocolLinks", "Subscription", "ClientConfig"}

Views ==
  {"MainMenu", "InstallWizard", "InstallProgress", "Uninstall", "UninstallProgress",
   "Hy2PortMode", "LogViewer", "LogLevelEdit", "QRCode", "Closed"}
    \cup Menus \cup CertPages \cup ConfigPages \cup RoutePages \cup Socks5Pages
    \cup CorePages \cup ToolPages \cup NodePages

\* The questions, and the pages that ask them.
PagesOf ==
  [exit      |-> {"ConfigMenu"},               \* apply before leaving?
   reset     |-> {"ConfigMenu", "PortEdit"},   \* everything to default, or all ports
   port      |-> {"PortEdit", "Hy2PortMode"},
   hop       |-> {"Hy2PortMode"},
   domain    |-> {"ACMEHTTPInput"},            \* after the address
   id        |-> {"DNSCredentialInput"},       \* after the domain
   secret    |-> {"DNSCredentialInput"},       \* after the identifier
   delete    |-> {"CertDelete"},
   route     |-> (RoutePages \cup Socks5Pages) \ {"Socks5Routing"},
   choose    |-> {"BackupMenu"},
   restore   |-> {"BackupMenu"},               \* or delete, after the choice
   unban     |-> {"Fail2BanMenu"},
   retry     |-> {"Fail2BanMenu"},
   bantime   |-> {"Fail2BanMenu"},             \* after the retries
   kernel    |-> {"BBRMenu"},
   uninstall |-> {"Uninstall"}]

Questions == DOMAIN PagesOf

\* The commands whose answers do more, by the message that they answer with;
\* ConfigUpdateMsg has a configuration that was only edited, or applied as well,
\* and LogViewMsg the log, or the addresses that fail2ban has banned.
Commands ==
  {"ConfigLoaded", "ConfigEdited", "ConfigSaved", "UUIDGenerated", "CoreInstall",
   "InstallResult", "Port80", "CertRequest", "CertDelete", "LogView", "BanList", "BBR2",
   "CoreVersions", "NodeParams", "Uninstalled"}

Chain == {"ConfigEdited", "CoreInstall", "InstallResult"}     \* the installation's steps

PagesTypeOK ==
  /\ view \in Views
  /\ pending \subseteq Questions
  /\ flags \in BOOLEAN \X BOOLEAN \X BOOLEAN \X BOOLEAN
  /\ flight \in [Commands -> Nat]
  /\ left \subseteq pending /\ taken \subseteq pending /\ left \cap taken = {}
  /\ alone \in BOOLEAN

Nothing == [c \in Commands |-> 0]

PagesInit ==
  /\ view = "MainMenu" /\ pending = {} /\ left = {}
  /\ unsaved = FALSE /\ params = FALSE /\ fromBan = FALSE /\ finished = FALSE
  /\ flight = [Nothing EXCEPT !["ConfigLoaded"] = 1]
  /\ taken = {} /\ alone = FALSE

-----------------------------------------------------------------------------
(* Helpers.                                                                *)

Total == FoldFunction(LAMBDA n, m : n + m, 0, flight)

\* The page and its questions after a key ...
Show(v, qs) ==
  /\ Cardinality(qs) <= MaxAsked
  /\ view' = v /\ pending' = qs
  /\ left' = qs \cap (left \cup {q \in pending \ taken : v \notin PagesOf[q]})
  /\ taken' = taken \cap qs

\* ... and after an answer.
Move(v, qs) ==
  /\ Cardinality(qs) <= MaxAsked
  /\ view' = v /\ pending' = qs
  /\ left' = left \cap qs
  /\ taken' = qs \cap (taken \cup {q \in qs \ left : v \notin PagesOf[q]})

Stay == UNCHANGED <<view, pending, left, taken>>

Begin(c) ==
  /\ Total < MaxFlight
  /\ flight' = [flight EXCEPT ![c] = @ + 1]

\* Enter on page v; the page of node parameters takes none.
On(v) == view = v /\ ~(v = "ProtocolLinks" /\ params)

Still == UNCHANGED <<flags, alone>>
Quiet == UNCHANGED flight /\ Still

Ask(q) == Show(view, pending \cup {q}) /\ Quiet
Drop(qs) == Show(view, pending \ qs) /\ Quiet
Open(S) == (\E v \in S : Show(v, pending)) /\ Quiet
Run(c) == Begin(c) /\ Stay /\ Still

\* An edit of the configuration in memory.
Touch == unsaved' = TRUE /\ UNCHANGED <<params, fromBan, finished, alone>>

-----------------------------------------------------------------------------
(* Enter: the main menu, the installation.                                 *)

\* UninstallState.Reset comes before its page.
SubmitMainMenu ==
  /\ On("MainMenu")
  /\ \/ Open(Menus \cup {"InstallWizard"})
     \/ Show("Uninstall", pending \ {"uninstall"}) /\ Quiet

\* With an empty line, when protocols are chosen.
SubmitInstallWizard ==
  /\ On("InstallWizard")
  /\ Begin("ConfigEdited")
  /\ Show("InstallProgress", pending)
  /\ finished' = FALSE
  /\ alone' = (flight = Nothing)
  /\ UNCHANGED <<unsaved, params, fromBan>>

\* The page of the installation takes only this key, and only at the end.
LeaveInstallProgress ==
  /\ view = "InstallProgress" /\ finished
  /\ Show("MainMenu", pending)
  /\ alone' = FALSE
  /\ UNCHANGED <<flags, flight>>

-----------------------------------------------------------------------------
(* Enter: the configuration.                                               *)

\* To be applied or not, before the menu is left; anything else stays.
AnswerExit ==
  /\ "exit" \in pending
  /\ \/ /\ Begin("ConfigSaved") /\ Show("MainMenu", pending \ {"exit"})
        /\ unsaved' = FALSE /\ UNCHANGED <<params, fromBan, finished, alone>>
     \/ /\ Begin("ConfigLoaded") /\ Show("MainMenu", pending \ {"exit"})
        /\ unsaved' = FALSE /\ UNCHANGED <<params, fromBan, finished, alone>>
     \/ Drop({"exit"})

\* The default configuration takes the place of the one in memory.
AnswerReset ==
  /\ "reset" \in pending
  /\ \/ Show(view, pending \ {"reset", "exit"}) /\ Touch /\ UNCHANGED flight
     \/ Drop({"reset"})

SubmitConfigMenu ==
  /\ On("ConfigMenu")
  /\ \/ AnswerExit
     \/ "exit" \notin pending /\ AnswerReset
     \/ pending \cap {"exit", "reset"} = {} /\ (Open(ConfigPages) \/ Ask("reset"))

\* Protocols, SNI and a UUID that is typed are edited in place; a UUID may be
\* drawn, and the padding of AnyTLS is set, by commands.
SubmitConfigPage ==
  \/ /\ On("ProtocolMenu") \/ On("SNIEdit") \/ On("UUIDEdit")
     /\ Stay /\ Touch /\ UNCHANGED flight
  \/ On("UUIDEdit") /\ Run("UUIDGenerated")
  \/ On("AnyTLSPadding") /\ Run("ConfigEdited")

\* A port is typed, the question is asked or answered, a protocol is chosen.
SubmitPortEdit ==
  /\ On("PortEdit")
  /\ \/ /\ pending \cap {"port", "hop"} # {}
        /\ Begin("ConfigEdited") /\ Show(view, pending \ {"port", "hop"}) /\ Touch
     \/ /\ pending \cap {"port", "hop"} = {}
        /\ \/ Ask("reset")
           \/ /\ "reset" \in pending
              /\ \/ Begin("ConfigEdited") /\ Show(view, pending \ {"reset"}) /\ Still
                 \/ Drop({"reset"})
           \/ "reset" \notin pending /\ (Ask("port") \/ Open({"Hy2PortMode"}))

\* The port or the range of Hysteria 2 is typed, asked for, or the range cleared.
SubmitHy2PortEdit ==
  /\ On("Hy2PortMode")
  /\ \/ /\ pending \cap {"port", "hop"} # {}
        /\ Begin("ConfigEdited") /\ Show(view, pending \ {"port", "hop"}) /\ Touch
     \/ /\ pending \cap {"port", "hop"} = {}
        /\ Ask("port") \/ Ask("hop") \/ Run("ConfigEdited")

SubmitOutboundMenu == On("OutboundMenu") /\ Run("ConfigEdited")

-----------------------------------------------------------------------------
(* Enter: routing.                                                         *)

SubmitRouteMenu == On("RouteMenu") /\ Open(RoutePages)

\* While a field is edited, what is typed is its value; else it is an entry of
\* the page, which edits a field, runs a command or only shows something.
SubmitRoutePage(v) ==
  /\ On(v)
  /\ \/ /\ "route" \in pending
        /\ \/ Begin("ConfigEdited") /\ Show(view, pending \ {"route"}) /\ Still
           \/ Drop({"route"})
     \/ "route" \notin pending /\ (Ask("route") \/ Run("ConfigEdited"))

SubmitWARPRouting == SubmitRoutePage("WARPRouting")
SubmitSocks5Routing == On("Socks5Routing") /\ Open(Socks5Pages)
SubmitSocks5Inbound == SubmitRoutePage("Socks5Inbound")
SubmitSocks5Outbound == SubmitRoutePage("Socks5Outbound")
SubmitIPv6Routing == SubmitRoutePage("IPv6Routing")
SubmitDNSRouting == SubmitRoutePage("DNSRouting")
SubmitSNIProxyRouting == SubmitRoutePage("SNIProxyRouting")

-----------------------------------------------------------------------------
(* Enter: certificates.                                                    *)

\* The page for a request over HTTP opens when port 80 is found free.
HandleCertMenu ==
  /\ On("CertMenu")
  /\ \/ Begin("Port80") /\ Show(view, pending \ {"domain"}) /\ Still
     \/ Open(CertPages \ {"ACMEHTTPInput", "DNSCredentialInput"})

\* The address, then the domain, which remains the question afterwards.
HandleHTTPInput ==
  /\ On("ACMEHTTPInput")
  /\ \/ "domain" \notin pending /\ Ask("domain")
     \/ "domain" \in pending /\ Run("CertRequest")

HandleProviderSelect ==
  /\ On("ACMEDNSProvider")
  /\ Show("DNSCredentialInput", pending \ {"id", "secret"}) /\ Quiet

\* The domain, the identifier, the secret.
HandleCredentialInput ==
  /\ On("DNSCredentialInput")
  /\ \/ pending \cap {"id", "secret"} = {} /\ Ask("id")
     \/ "id" \in pending /\ Show(view, (pending \ {"id"}) \cup {"secret"}) /\ Quiet
     \/ "secret" \in pending /\ Begin("CertRequest") /\ Show(view, pending \ {"secret"}) /\ Still

HandleDelete ==
  /\ On("CertDelete")
  /\ \/ /\ "delete" \in pending
        /\ \/ Begin("CertDelete") /\ Show(view, pending \ {"delete"}) /\ Still
           \/ Drop({"delete"})
     \/ "delete" \notin pending /\ Ask("delete")

HandleSwitchProvider == On("ProviderSwitch") /\ Open({"CertMenu"})

-----------------------------------------------------------------------------
(* Enter: the core, the tools, the logs.                                   *)

SubmitCoreMenu ==
  /\ On("CoreMenu")
  /\ \/ Open({"CoreSourceSelect", "ScriptUpdate"})
     \/ Begin("CoreVersions") /\ Show("CoreVersionSelect", pending) /\ Still
     \/ Run("CoreInstall")

SubmitCoreVersionSelect ==
  On("CoreVersionSelect") /\ Begin("CoreInstall") /\ Show("CoreMenu", pending) /\ Still

SubmitCoreSourceSelect == On("CoreSourceSelect") /\ Open({"CoreMenu"})
SubmitScriptUpdate == On("ScriptUpdate") /\ Open({"CoreMenu"})
SubmitToolsMenu == On("ToolsMenu") /\ Open(ToolPages)

\* To lift a ban an address is asked for; for the configuration the number of
\* retries, then the time of a ban.
SubmitFail2BanMenu ==
  /\ On("Fail2BanMenu")
  /\ \/ /\ "unban" \in pending
        /\ Drop({"unban"}) \/ (Begin("BanList") /\ Show(view, pending \ {"unban"}) /\ Still)
     \/ /\ "retry" \in pending /\ "unban" \notin pending
        /\ Show(view, (pending \ {"retry"}) \cup {"bantime"}) /\ Quiet
     \/ "bantime" \in pending /\ "unban" \notin pending /\ Drop({"bantime"})
     \/ /\ pending \cap {"unban", "retry", "bantime"} = {}
        /\ \/ Begin("BanList") /\ Show(view, pending \cup {"unban"}) /\ Still
           \/ Ask("retry")
           \/ /\ Begin("BanList") /\ Show("LogViewer", pending)
              /\ fromBan' = TRUE /\ UNCHANGED <<unsaved, params, finished, alone>>

\* Any answer ends the question; BBR2 may turn out not to be supported.
SubmitBBRMenu ==
  /\ On("BBRMenu")
  /\ \/ "kernel" \in pending /\ Drop({"kernel"})
     \/ "kernel" \notin pending /\ (Ask("kernel") \/ Run("BBR2"))

SubmitBackupRestoreMenu ==
  /\ On("BackupMenu")
  /\ \/ /\ "restore" \in pending
        /\ Drop({"restore"}) \/ (Begin("ConfigSaved") /\ Show(view, pending \ {"restore"}) /\ Still)
     \/ /\ "choose" \in pending /\ "restore" \notin pending
        /\ Drop({"choose"}) \/ (Show(view, (pending \ {"choose"}) \cup {"restore"}) /\ Quiet)
     \/ pending \cap {"choose", "restore"} = {} /\ Ask("choose")

SubmitLogMenu ==
  /\ On("LogMenu")
  /\ \/ Begin("LogView") /\ Show("LogViewer", pending) /\ Still
     \/ Open({"LogLevelEdit"})

SubmitLogLevelEdit == On("LogLevelEdit") /\ Run("ConfigSaved")

\* Enter leaves the viewer as Esc does.
LeaveLogViewer ==
  /\ Show(IF fromBan THEN "Fail2BanMenu" ELSE "LogMenu", pending)
  /\ fromBan' = FALSE /\ UNCHANGED <<unsaved, params, finished, alone, flight>>

SubmitLogViewer == On("LogViewer") /\ LeaveLogViewer

-----------------------------------------------------------------------------
(* Enter: the nodes, the end.                                              *)

SubmitNodeInfo ==
  /\ On("NodeInfo")
  /\ \/ Open({"Subscription", "ClientConfig"})
     \/ /\ Show("ProtocolLinks", pending) /\ params' = FALSE
        /\ UNCHANGED <<unsaved, fromBan, finished, alone, flight>>

SubmitProtocolLinks == On("ProtocolLinks") /\ Open({"QRCode"})
SubmitSubscription == On("Subscription") /\ Open({"QRCode"})

SubmitClientConfig ==
  /\ On("ClientConfig")
  /\ Begin("NodeParams") /\ Show("ProtocolLinks", pending)
  /\ params' = TRUE /\ UNCHANGED <<unsaved, fromBan, finished, alone>>

SubmitUninstall ==
  /\ On("Uninstall")
  /\ \/ /\ "uninstall" \in pending
        /\ Begin("Uninstalled") /\ Show("UninstallProgress", pending) /\ Still
     \/ "uninstall" \notin pending /\ Ask("uninstall")

\* By its entry, by Ctrl+C, or three seconds after prism is uninstalled.
Quit ==
  /\ view # "Closed" /\ view' = "Closed"
  /\ pending' = {} /\ left' = {} /\ taken' = {} /\ flight' = Nothing /\ Still

-----------------------------------------------------------------------------
(* Esc.                                                                    *)

\* Slip: from the exported parameters Esc leads to where they were shown.
BackToPrevious(v) ==
  IF v = "ClientConfig" THEN {"ProtocolLinks"}
  ELSE IF v \in NodePages THEN {"NodeInfo"} ELSE {"MainMenu"}

\* Where it leads from a page that asks nothing; from a QR code to the page of
\* the kind of code that was answered last.
Back(v) ==
  CASE v \in ConfigPages -> {"ConfigMenu"}
    [] v \in CertPages -> {"CertMenu"}
    [] v \in RoutePages -> {"RouteMenu"}
    [] v \in Socks5Pages -> {"Socks5Routing"}
    [] v \in CorePages -> {"CoreMenu"}
    [] v \in ToolPages -> {"ToolsMenu"}
    [] v \in NodePages -> {"NodeInfo"}
    [] v = "Hy2PortMode" -> {"PortEdit"}
    [] v = "LogLevelEdit" -> {"LogMenu"}
    [] v = "QRCode" -> {"Subscription", "ProtocolLinks"}
    [] OTHER -> {"MainMenu"}

\* Slip: the deletion of a certificate stays confirmed.
GivenUpPorts == {"port", "hop"}

\* Edits of ports and the deletion of a certificate are given up on the way.
GivenUp == {"port", "hop", "delete"}

\* What is asked is no longer asked, and the page stays.
EscapeFrom(qs) == Drop(qs \cup GivenUp)

EscapePage ==
  \/ /\ view = "LogViewer"
     /\ Show(IF fromBan THEN "Fail2BanMenu" ELSE "LogMenu", pending \ GivenUp)
     /\ fromBan' = FALSE /\ UNCHANGED <<unsaved, params, finished, alone, flight>>
  \/ /\ view # "LogViewer"
     /\ \E v \in Back(view) : Show(v, pending \ GivenUp)
     /\ Quiet

\* The first of these that is asked, wherever, and else the page.
EscapeQuestion ==
  IF "exit" \in pending THEN Drop({"exit"})
  ELSE IF "reset" \in pending THEN Drop({"reset"})
  ELSE IF view = "DNSCredentialInput" /\ "secret" \in pending
    THEN Show(view, (pending \ (GivenUp \cup {"secret"})) \cup {"id"}) /\ Quiet
  ELSE IF view = "DNSCredentialInput" /\ "id" \in pending THEN EscapeFrom({"id"})
  ELSE IF pending \cap {"choose", "restore"} # {} THEN EscapeFrom({"choose", "restore"})
  ELSE IF view = "ConfigMenu" /\ unsaved
    THEN Show(view, (pending \ GivenUp) \cup {"exit"}) /\ Quiet
  ELSE IF pending \cap {"unban", "retry", "bantime"} # {}
    THEN EscapeFrom({"unban", "retry", "bantime"})
  ELSE IF "kernel" \in pending THEN EscapeFrom({"kernel"})
  ELSE IF view = "ACMEHTTPInput" /\ "domain" \in pending THEN EscapeFrom({"domain"})
  ELSE IF view = "Uninstall" /\ "uninstall" \in pending THEN EscapeFrom({"uninstall"})
  ELSE EscapePage

\* On the page of node parameters Esc is taken before all else.
Escape ==
  /\ view \notin {"InstallProgress", "Closed"}
  /\ IF view = "ProtocolLinks" /\ params
       THEN /\ Show("ClientConfig", pending) /\ params' = FALSE
            /\ UNCHANGED <<unsaved, fromBan, finished, alone, flight>>
       ELSE EscapeQuestion
-----------------------------------------------------------------------------
(* The answers, on whatever page they come.                                *)

\* Command c has ended, those of `then' are begun.
Answer(c, then) ==
  /\ flight[c] > 0
  /\ flight' = [d \in Commands |->
       flight[d] - (IF d = c THEN 1 ELSE 0) + (IF d \in then THEN 1 ELSE 0)]
  /\ UNCHANGED alone

\* UpdateConfig drops the questions that were asked of the former configuration.
UpdateConfig == Move(view, pending \ {"exit", "reset"})

ConfigLoadedMsg ==
  Answer("ConfigLoaded", {}) /\ UpdateConfig /\ UNCHANGED flags

\* On the page of the installation it is taken for the installation's first step.
ConfigUpdateMsg(c) ==
  \/ /\ Answer(c, {}) /\ Stay
     /\ finished' = (finished \/ view = "InstallProgress")
     /\ UNCHANGED <<unsaved, params, fromBan>>
  \/ /\ Answer(c, IF view = "InstallProgress" THEN {"CoreInstall"}
                   ELSE IF c = "ConfigSaved" THEN {"ConfigLoaded"} ELSE {})
     /\ UpdateConfig
     /\ unsaved' = (c = "ConfigEdited")
     /\ UNCHANGED <<params, fromBan, finished>>

UUIDGeneratedMsg ==
  /\ Answer("UUIDGenerated", {}) /\ Stay
  /\ unsaved' = TRUE /\ UNCHANGED <<params, fromBan, finished>>

\* On the page of the installation it is its second step, elsewhere an update.
CoreInstalled ==
  \/ /\ view = "InstallProgress"
     /\ Answer("CoreInstall", {"InstallResult"}) /\ Stay /\ UNCHANGED flags
  \/ /\ view # "InstallProgress"
     /\ Answer("CoreInstall", {}) /\ Move("CoreMenu", pending)
     /\ UNCHANGED flags

\* Slip: a failure is only told in the status line.
CoreInstallMsgUnended ==
  CoreInstalled \/ (Answer("CoreInstall", {}) /\ Stay /\ UNCHANGED flags)

CoreInstallMsg ==
  \/ CoreInstalled
  \/ /\ Answer("CoreInstall", {}) /\ Stay
     /\ finished' = (finished \/ view = "InstallProgress")
     /\ UNCHANGED <<unsaved, params, fromBan>>

InstallResultMsg ==
  /\ Answer("InstallResult", {}) /\ Stay
  /\ finished' = TRUE /\ UNCHANGED <<unsaved, params, fromBan>>

\* Those that, when all went well, lead to a page.
Leads(c, v) ==
  /\ Answer(c, {}) /\ UNCHANGED flags
  /\ Move(v, pending) \/ Stay

Port80Msg == Leads("Port80", "ACMEHTTPInput")
CertRequestMsg == Leads("CertRequest", "CertMenu")
CertDeleteMsg == Leads("CertDelete", "CertMenu")
LogViewMsg == Leads("LogView", "LogViewer")

\* This one does when something went wrong.
CoreVersionsMsg == Leads("CoreVersions", "CoreMenu")

\* LogViewMsg in the mode "fail2ban_list": not while an address is asked for.
BanListMsg ==
  /\ Answer("BanList", {})
  /\ \/ Stay /\ UNCHANGED flags
     \/ /\ "unban" \notin pending
        /\ Move("LogViewer", pending)
        /\ fromBan' = TRUE /\ UNCHANGED <<unsaved, params, finished>>

\* The question whether to install a kernel that has BBR2.
BBR2Msg ==
  /\ Answer("BBR2", {}) /\ UNCHANGED flags
  /\ Move(view, pending \cup {"kernel"}) \/ Stay

NodeParamsDataMsg ==
  /\ Answer("NodeParams", {}) /\ Stay
  /\ params' \in {params, TRUE} /\ UNCHANGED <<unsaved, fromBan, finished>>

UninstallCompleteMsg ==
  /\ Answer("Uninstalled", {}) /\ Move("UninstallProgress", pending)
  /\ UNCHANGED flags

-----------------------------------------------------------------------------
Submit ==
  \/ SubmitMainMenu \/ SubmitInstallWizard \/ LeaveInstallProgress
  \/ SubmitConfigMenu \/ SubmitConfigPage \/ SubmitPortEdit \/ SubmitHy2PortEdit
  \/ SubmitOutboundMenu \/ SubmitRouteMenu
  \/ SubmitWARPRouting \/ SubmitSocks5Routing \/ SubmitSocks5Inbound \/ SubmitSocks5Outbound
  \/ SubmitIPv6Routing \/ SubmitDNSRouting \/ SubmitSNIProxyRouting
  \/ HandleCertMenu \/ HandleHTTPInput \/ HandleProviderSelect \/ HandleCredentialInput
  \/ HandleDelete \/ HandleSwitchProvider
  \/ SubmitCoreMenu \/ SubmitCoreVersionSelect \/ SubmitCoreSourceSelect \/ SubmitScriptUpdate
  \/ SubmitToolsMenu \/ SubmitFail2BanMenu \/ SubmitBBRMenu \/ SubmitBackupRestoreMenu
  \/ SubmitLogMenu \/ SubmitLogLevelEdit \/ SubmitLogViewer
  \/ SubmitNodeInfo \/ SubmitProtocolLinks \/ SubmitSubscription \/ SubmitClientConfig
  \/ SubmitUninstall

RouteMessage ==
  \/ ConfigLoadedMsg \/ ConfigUpdateMsg("ConfigEdited") \/ ConfigUpdateMsg("ConfigSaved")
  \/ UUIDGeneratedMsg \/ CoreInstallMsg \/ InstallResultMsg
  \/ Port80Msg \/ CertRequestMsg \/ CertDeleteMsg \/ LogViewMsg \/ CoreVersionsMsg
  \/ BanListMsg \/ BBR2Msg \/ NodeParamsDataMsg \/ UninstallCompleteMsg

PagesNext == Submit \/ Escape \/ Quit \/ RouteMessage

PagesSpec == PagesInit /\ [][PagesNext]_pageVars

-----------------------------------------------------------------------------
(* Properties.                                                             *)

\* A question whose page the user has left is no longer asked when the page is
\* opened again: what is typed is not taken for its answer.  Only the fields of
\* routing are forgotten by Esc (key_handler.go:1771); and an answer may take the
\* page away from its question (router.go:582).
FreshQuestions == \A q \in left : view \in PagesOf[q] => q = "route"

\* How far a page is from the main menu.
Depth(v) ==
  CASE v = "MainMenu" -> 0
    [] v \in {"ProtocolLinks", "LogViewer", "Hy2PortMode"} \cup Socks5Pages -> 3
    [] v = "QRCode" -> 4
    [] v \in CertPages \cup ConfigPages \cup RoutePages \cup CorePages \cup ToolPages
              \cup {"Subscription", "ClientConfig", "LogLevelEdit"} -> 2
    [] OTHER -> 1

\* How many answers are missing: after the secret comes the identifier again.
Missing == Cardinality(pending) + (IF "secret" \in pending THEN 1 ELSE 0)

\* Esc takes back a question or leads up, so that the main menu is always a
\* few keys away, whatever was asked and whatever has come in; only where the
\* configuration was changed does it ask (key_handler.go:1813).
EscapeDescends ==
  [][Escape =>
       \/ view = "MainMenu"
       \/ view = "ConfigMenu" /\ unsaved
       \/ view' = view /\ Missing' < Missing
       \/ Depth(view') < Depth(view) /\ pending' \subseteq pending]_pageVars

\* While the installation is shown and not at its end, one of its steps is under
\* way, so that the page can be left; begun with nothing else under way, it has
\* only that one, whichever step fails (router.go:224).
InstallationIsOne ==
  view = "InstallProgress" =>
    /\ finished \/ \E c \in Chain \cup {"ConfigSaved"} : flight[c] > 0
    /\ alone => finished = (flight = Nothing)

=============================================================================
