------------------------------ MODULE PagesProofs ------------------------------
(***************************************************************************)
(* Proofs about Pages, for any number of commands under way and of         *)
(* questions at once.                                                      *)
(***************************************************************************)
EXTENDS Pages, FiniteSetTheorems, TLAPS

\* What Esc leaves behind: the fields of routing; and the question of the removal,
\* whose page is reached only where it is taken back.
LeftBehind ==
  /\ left \subseteq {"route", "uninstall"}
  /\ "uninstall" \in left => view # "Uninstall"

\* A question is on its page, or its page was left, or taken away.
Placed == \A q \in pending : q \in left \cup taken \/ view \in PagesOf[q]

\* The question of the configuration menu keeps the user from most pages, and from
\* asking to reset.
ExitPages ==
  {"ConfigMenu", "CertMenu", "LogMenu", "CoreMenu", "LogViewer", "LogLevelEdit",
   "Fail2BanMenu", "UninstallProgress"} \cup CertPages \cup CorePages

ExitAlone == "exit" \in pending => "reset" \notin pending /\ view \in ExitPages

Solo(c) == [Nothing EXCEPT ![c] = 1]

\* Of an installation that began alone nothing else is under way.
OnlyChain ==
  alone /\ view = "InstallProgress" =>
    IF finished THEN flight = Nothing ELSE \E c \in Chain : flight = Solo(c)

InstallSteps == Chain \cup {"ConfigSaved"}

GoesOn == view = "InstallProgress" => finished \/ \E c \in InstallSteps : flight[c] > 0

Installing == GoesOn /\ OnlyChain

PagesInv == PagesTypeOK /\ LeftBehind /\ Placed /\ ExitAlone /\ Installing

-----------------------------------------------------------------------------
(* Pages and questions.                                                    *)

LEMMA PagesOfEach ==
  /\ PagesOf["exit"] = {"ConfigMenu"} /\ PagesOf["reset"] = {"ConfigMenu", "PortEdit"}
  /\ PagesOf["port"] = {"PortEdit", "Hy2PortMode"} /\ PagesOf["hop"] = {"Hy2PortMode"}
  /\ PagesOf["domain"] = {"ACMEHTTPInput"}
  /\ PagesOf["id"] = {"DNSCredentialInput"} /\ PagesOf["secret"] = {"DNSCredentialInput"}
  /\ PagesOf["delete"] = {"CertDelete"}
  /\ PagesOf["route"] = (RoutePages \cup Socks5Pages) \ {"Socks5Routing"}
  /\ PagesOf["choose"] = {"BackupMenu"} /\ PagesOf["restore"] = {"BackupMenu"}
  /\ PagesOf["unban"] = {"Fail2BanMenu"} /\ PagesOf["retry"] = {"Fail2BanMenu"}
  /\ PagesOf["bantime"] = {"Fail2BanMenu"} /\ PagesOf["kernel"] = {"BBRMenu"}
  /\ PagesOf["uninstall"] = {"Uninstall"}
BY DEF PagesOf

LEMMA QuestionsAre ==
  Questions = {"exit", "reset", "port", "hop", "domain", "id", "secret", "delete", "route",
               "choose", "restore", "unban", "retry", "bantime", "kernel", "uninstall"}
BY DEF Questions, PagesOf

\* What may be asked on a page.
LEMMA AskedOn ==
  ASSUME NEW q \in Questions, view \in PagesOf[q]
  PROVE  \/ view = "ConfigMenu" /\ q \in {"exit", "reset"}
         \/ view = "PortEdit" /\ q \in {"reset", "port"}
         \/ view = "Hy2PortMode" /\ q \in {"port", "hop"}
         \/ view = "ACMEHTTPInput" /\ q = "domain"
         \/ view = "DNSCredentialInput" /\ q \in {"id", "secret"}
         \/ view = "CertDelete" /\ q = "delete"
         \/ q = "route"
         \/ view = "BackupMenu" /\ q \in {"choose", "restore"}
         \/ view = "Fail2BanMenu" /\ q \in {"unban", "retry", "bantime"}
         \/ view = "BBRMenu" /\ q = "kernel"
         \/ view = "Uninstall" /\ q = "uninstall"
BY PagesOfEach, QuestionsAre

LEMMA PagesInvInit == PagesInit => PagesInv
<1> SUFFICES ASSUME PagesInit PROVE PagesInv
  OBVIOUS
<1>1. flight \in [Commands -> Nat]
  BY DEF PagesInit, Nothing
<1>2. PagesTypeOK
  BY <1>1 DEF PagesInit, PagesTypeOK, Views, flags
<1> QED
  BY <1>2 DEF PagesInit, PagesInv, LeftBehind, Placed, ExitAlone, Installing, GoesOn, OnlyChain

-----------------------------------------------------------------------------
(* Keys.                                                                   *)

PageOK ==
  /\ view \in Views /\ pending \subseteq Questions
  /\ left \subseteq pending /\ taken \subseteq pending /\ left \cap taken = {}
  /\ LeftBehind /\ Placed /\ ExitAlone

\* A key that leads to page v leaves no question behind but the two of LeftBehind.
Leaves(v, qs) ==
  \A q \in pending \cap qs : view \in PagesOf[q] => v \in PagesOf[q] \/ q \in {"route", "uninstall"}

\* What is asked anew is asked on its page.
Exits(v, qs) == "exit" \in qs => "reset" \notin qs /\ v \in ExitPages

AsksThere(v, qs) == Exits(v, qs) /\ qs \subseteq Questions /\ \A q \in qs \ pending : v \in PagesOf[q]

LEMMA ShowKeeps ==
  ASSUME PageOK, NEW v \in Views, NEW qs, Show(v, qs), Leaves(v, qs), AsksThere(v, qs),
         v = "Uninstall" => v = view \/ "uninstall" \notin qs
  PROVE  PageOK'
<1>1. /\ view' = v /\ pending' = qs /\ taken' = taken \cap qs
      /\ left' = qs \cap (left \cup {q \in pending \ taken : v \notin PagesOf[q]})
  BY DEF Show
<1>2. \A q \in left' : q \in left \/ (q \in {"route", "uninstall"} /\ v \notin PagesOf[q])
  BY <1>1 DEF PageOK, Placed, Leaves
<1>3. left' \cap taken' = {} /\ left' \subseteq pending' /\ taken' \subseteq pending'
  BY <1>1 DEF PageOK
<1>4. LeftBehind'
  BY <1>1, <1>2, PagesOfEach DEF PageOK, LeftBehind
<1>5. Placed'
  BY <1>1 DEF PageOK, Placed, AsksThere
<1> QED
  BY <1>1, <1>3, <1>4, <1>5 DEF PageOK, AsksThere, Exits, ExitAlone

LEMMA MoveKeeps ==
  ASSUME PageOK, NEW v \in Views, v = view \/ v # "Uninstall",
         NEW qs \in SUBSET Questions, Exits(v, qs), Move(v, qs)
  PROVE  PageOK'
<1>1. /\ view' = v /\ pending' = qs /\ left' = left \cap qs
      /\ taken' = qs \cap (taken \cup {q \in qs \ left : v \notin PagesOf[q]})
  BY DEF Move
<1> QED
  BY <1>1 DEF PageOK, LeftBehind, Placed, Exits, ExitAlone

LEMMA StayKeeps == ASSUME PageOK, Stay PROVE PageOK'
BY DEF PageOK, Stay, LeftBehind, Placed, ExitAlone

FlagsOK == {unsaved, params, fromBan, finished, alone} \subseteq BOOLEAN

LEMMA InvIs ==
  /\ PagesInv => PageOK /\ FlagsOK /\ flight \in [Commands -> Nat] /\ Installing
  /\ PageOK /\ FlagsOK /\ flight \in [Commands -> Nat] /\ Installing => PagesInv
BY DEF PagesInv, PageOK, PagesTypeOK, FlagsOK, flags

LEMMA InvIsPrimed ==
  PageOK' /\ FlagsOK' /\ (flight \in [Commands -> Nat])' /\ Installing' => PagesInv'
BY DEF PagesInv, PageOK, PagesTypeOK, FlagsOK, flags

\* No key but that of the wizard leads to the installation.
LEMMA ShownKeeps ==
  ASSUME PagesInv, NEW v \in Views \ {"InstallProgress"}, NEW qs, Show(v, qs),
         Leaves(v, qs), AsksThere(v, qs), v = "Uninstall" => v = view \/ "uninstall" \notin qs,
         FlagsOK', flight' \in [Commands -> Nat]
  PROVE  PagesInv'
<1>1. PageOK'
  BY ShowKeeps, InvIs
<1>2. Installing'
  BY DEF Show, Installing, GoesOn, OnlyChain
<1> QED
  BY <1>1, <1>2, InvIsPrimed

LEMMA BeginIs ==
  ASSUME PagesInv, NEW c \in Commands, Begin(c)
  PROVE  flight' \in [Commands -> Nat]
BY InvIs DEF Begin

LEMMA QuietIs ==
  ASSUME PagesInv
  PROVE  /\ Still => FlagsOK'
         /\ Quiet => FlagsOK' /\ flight' \in [Commands -> Nat]
         /\ Touch => FlagsOK'
BY InvIs DEF Still, Quiet, Touch, FlagsOK, flags

\* The page stays, and what is asked anew belongs to it.
LEMMA StaysOnPage ==
  ASSUME PagesInv, NEW qs, Show(view, qs), view # "InstallProgress",
         AsksThere(view, qs), FlagsOK', flight' \in [Commands -> Nat]
  PROVE  PagesInv'
<1>1. view \in Views /\ Leaves(view, qs)
  BY InvIs DEF PageOK, Leaves
<1> QED
  BY <1>1, ShownKeeps

LEMMA AskKeeps ==
  ASSUME PagesInv, NEW q \in Questions, view \in PagesOf[q], view # "InstallProgress", Ask(q),
         q # "exit", q = "reset" => "exit" \notin pending
  PROVE  PagesInv'
<1>1. AsksThere(view, pending \cup {q})
  BY InvIs DEF PageOK, AsksThere, Exits, ExitAlone
<1> QED
  BY <1>1, StaysOnPage, QuietIs DEF Ask

LEMMA DropKeeps ==
  ASSUME PagesInv, NEW qs, view # "InstallProgress", Drop(qs)
  PROVE  PagesInv'
<1>1. AsksThere(view, pending \ qs)
  BY InvIs DEF PageOK, AsksThere, Exits, ExitAlone
<1> QED
  BY <1>1, StaysOnPage, QuietIs DEF Drop

\* The page asks nothing that would be left behind.
Unasked == \A q \in pending : view \in PagesOf[q] => q \in {"route", "uninstall"}

LEMMA GoKeeps ==
  ASSUME PagesInv, Unasked, NEW v \in Views \ {"InstallProgress", "Uninstall"},
         "exit" \in pending => v \in ExitPages,
         NEW qs \in SUBSET pending, Show(v, qs), FlagsOK', flight' \in [Commands -> Nat]
  PROVE  PagesInv'
<1>1. AsksThere(v, qs) /\ Leaves(v, qs)
  BY InvIs DEF PageOK, AsksThere, Leaves, Unasked, Exits, ExitAlone
<1> QED
  BY <1>1, ShownKeeps

LEMMA OpenKeeps ==
  ASSUME PagesInv, Unasked, NEW S \in SUBSET (Views \ {"InstallProgress", "Uninstall"}), Open(S),
         "exit" \in pending => S \subseteq ExitPages
  PROVE  PagesInv'
<1> PICK v \in S : Show(v, pending)
  BY DEF Open
<1> QED
  BY GoKeeps, QuietIs DEF Open

LEMMA RunKeeps ==
  ASSUME PagesInv, NEW c \in Commands, view # "InstallProgress", Run(c)
  PROVE  PagesInv'
<1>1. PageOK'
  BY StayKeeps, InvIs DEF Run
<1>2. Installing'
  BY DEF Run, Stay, Installing, GoesOn, OnlyChain
<1> QED
  BY <1>1, <1>2, InvIsPrimed, BeginIs, QuietIs DEF Run

\* A command is begun, and a question of the page answered.
LEMMA AnsweredKeeps ==
  ASSUME PagesInv, NEW c \in Commands, NEW qs \in SUBSET pending, view # "InstallProgress",
         Begin(c), Show(view, qs), Still \/ Touch
  PROVE  PagesInv'
<1>1. AsksThere(view, qs)
  BY InvIs DEF PageOK, AsksThere, Exits, ExitAlone
<1> QED
  BY <1>1, StaysOnPage, BeginIs, QuietIs

-----------------------------------------------------------------------------
(* Enter.                                                                  *)

\* The pages that ask, and what they may be asking.
Asking ==
  {"ConfigMenu", "PortEdit", "Hy2PortMode", "ACMEHTTPInput", "DNSCredentialInput",
   "CertDelete", "BackupMenu", "Fail2BanMenu", "BBRMenu"}

LEMMA UnaskedIs ==
  ASSUME PagesInv,
         \/ view \notin Asking
         \/ view = "ConfigMenu" /\ pending \cap {"exit", "reset"} = {}
         \/ view = "PortEdit" /\ pending \cap {"reset", "port"} = {}
         \/ view = "Hy2PortMode" /\ pending \cap {"port", "hop"} = {}
         \/ view = "ACMEHTTPInput" /\ "domain" \notin pending
         \/ view = "DNSCredentialInput" /\ pending \cap {"id", "secret"} = {}
         \/ view = "CertDelete" /\ "delete" \notin pending
         \/ view = "BackupMenu" /\ pending \cap {"choose", "restore"} = {}
         \/ view = "Fail2BanMenu" /\ pending \cap {"unban", "retry", "bantime"} = {}
         \/ view = "BBRMenu" /\ "kernel" \notin pending
  PROVE  Unasked
<1> SUFFICES ASSUME NEW q \in pending, view \in PagesOf[q]
             PROVE  q \in {"route", "uninstall"}
  BY DEF Unasked
<1>1. q \in Questions
  BY InvIs DEF PageOK
<1> QED
  BY <1>1, AskedOn DEF Asking

LEMMA MainMenuKeeps == ASSUME PagesInv, SubmitMainMenu PROVE PagesInv'
<1>1. view = "MainMenu" /\ Unasked /\ "exit" \notin pending
  BY UnaskedIs, InvIs DEF SubmitMainMenu, On, Asking, PageOK, ExitAlone, ExitPages, CertPages, CorePages
<1>2. CASE Open(Menus \cup {"InstallWizard"})
  <2>1. Menus \cup {"InstallWizard"} \subseteq Views \ {"InstallProgress", "Uninstall"}
    BY DEF Menus, Views
  <2> QED
    BY <1>1, <1>2, <2>1, OpenKeeps
<1>3. CASE Show("Uninstall", pending \ {"uninstall"}) /\ Quiet
  <2>1. /\ AsksThere("Uninstall", pending \ {"uninstall"})
        /\ Leaves("Uninstall", pending \ {"uninstall"})
    BY <1>1, InvIs DEF PageOK, AsksThere, Leaves, Unasked, Exits
  <2>2. "Uninstall" \in Views \ {"InstallProgress"}
    BY DEF Views
  <2> QED
    BY <1>3, <2>1, <2>2, ShownKeeps, QuietIs
<1> QED
  BY <1>2, <1>3 DEF SubmitMainMenu

LEMMA FlightOfNothing == Nothing \in [Commands -> Nat] /\ "ConfigEdited" \in Commands
BY DEF Nothing, Commands

LEMMA InstallWizardKeeps == ASSUME PagesInv, SubmitInstallWizard PROVE PagesInv'
<1>1. view = "InstallWizard" /\ Unasked /\ "exit" \notin pending
  BY UnaskedIs, InvIs DEF SubmitInstallWizard, On, Asking, PageOK, ExitAlone, ExitPages, CertPages, CorePages
<1>2. /\ Begin("ConfigEdited") /\ Show("InstallProgress", pending)
      /\ finished' = FALSE /\ alone' = (flight = Nothing) /\ UNCHANGED <<unsaved, params, fromBan>>
  BY DEF SubmitInstallWizard
<1>3. AsksThere("InstallProgress", pending) /\ Leaves("InstallProgress", pending)
  BY <1>1, InvIs DEF PageOK, AsksThere, Leaves, Unasked, Exits
<1>4. PageOK'
  <2>1. "InstallProgress" \in Views
    BY DEF Views
  <2> QED
    BY <1>2, <1>3, <2>1, ShowKeeps, InvIs
<1>5. FlagsOK'
  BY <1>2, InvIs DEF FlagsOK
<1>6. flight' \in [Commands -> Nat] /\ flight' = [flight EXCEPT !["ConfigEdited"] = @ + 1]
  BY <1>2, BeginIs, FlightOfNothing DEF Begin
<1>7. GoesOn'
  BY <1>2, <1>6, InvIs, FlightOfNothing DEF GoesOn, InstallSteps, Chain
<1>8. OnlyChain'
  <2>1. flight = Nothing => flight' = Solo("ConfigEdited")
    BY <1>6, FlightOfNothing DEF Solo, Nothing
  <2> QED
    BY <1>2, <2>1 DEF OnlyChain, Chain
<1> QED
  BY <1>4, <1>5, <1>6, <1>7, <1>8, InvIsPrimed DEF Installing

LEMMA LeaveInstallProgressKeeps == ASSUME PagesInv, LeaveInstallProgress PROVE PagesInv'
<1>1. view = "InstallProgress" /\ Unasked /\ "exit" \notin pending
  BY UnaskedIs, InvIs DEF LeaveInstallProgress, Asking, PageOK, ExitAlone, ExitPages, CertPages, CorePages
<1>2. FlagsOK' /\ flight' \in [Commands -> Nat] /\ Show("MainMenu", pending)
  BY InvIs DEF LeaveInstallProgress, FlagsOK, flags
<1> QED
  BY <1>1, <1>2, GoKeeps DEF Views

LEMMA ConfigMenuKeeps == ASSUME PagesInv, SubmitConfigMenu PROVE PagesInv'
<1>1. /\ view = "ConfigMenu" /\ pending \subseteq Questions
      /\ "exit" \in pending => "reset" \notin pending
  BY InvIs DEF SubmitConfigMenu, On, PageOK, ExitAlone
<1>2. ASSUME NEW c \in {"ConfigSaved", "ConfigLoaded"}, Begin(c), "exit" \in pending,
             Show("MainMenu", pending \ {"exit"}),
             unsaved' = FALSE, UNCHANGED <<params, fromBan, finished, alone>>
      PROVE  PagesInv'
  <2>1. c \in Commands /\ "MainMenu" \in Views
    BY DEF Commands, Views
  <2>2. FlagsOK' /\ flight' \in [Commands -> Nat]
    BY <1>2, <2>1, BeginIs, InvIs DEF FlagsOK
  <2>3. Leaves("MainMenu", pending \ {"exit"})
    BY <1>1, <1>2, AskedOn DEF Leaves
  <2>4. AsksThere("MainMenu", pending \ {"exit"})
    BY <1>1 DEF AsksThere, Exits
  <2> QED
    BY <1>1, <1>2, <2>1, <2>2, <2>3, <2>4, ShownKeeps
<1>3. ASSUME AnswerExit PROVE PagesInv'
  BY <1>1, <1>2, <1>3, DropKeeps DEF AnswerExit
<1>4. ASSUME AnswerReset PROVE PagesInv'
  <2>1. CASE Show(view, pending \ {"reset", "exit"}) /\ Touch /\ UNCHANGED flight
    <3>1. AsksThere(view, pending \ {"reset", "exit"})
      BY <1>1 DEF AsksThere, Exits
    <3> QED
      BY <1>1, <2>1, <3>1, StaysOnPage, QuietIs, InvIs
  <2> QED
    BY <1>1, <1>4, <2>1, DropKeeps DEF AnswerReset
<1>5. ASSUME pending \cap {"exit", "reset"} = {}, Open(ConfigPages) PROVE PagesInv'
  BY <1>1, <1>5, UnaskedIs, OpenKeeps DEF ConfigPages, Views
<1>6. ASSUME pending \cap {"exit", "reset"} = {}, Ask("reset") PROVE PagesInv'
  BY <1>1, <1>6, AskKeeps, PagesOfEach, QuestionsAre
<1> QED
  BY <1>3, <1>4, <1>5, <1>6 DEF SubmitConfigMenu

LEMMA NoExit ==
  ASSUME PagesInv,
         view \notin {"ConfigMenu", "CertMenu", "LogMenu", "CoreMenu", "LogViewer",
                     "LogLevelEdit", "Fail2BanMenu", "UninstallProgress"},
         view \notin CertPages, view \notin CorePages
  PROVE  "exit" \notin pending
BY InvIs DEF PageOK, ExitAlone, ExitPages

LEMMA ConfigPageKeeps == ASSUME PagesInv, SubmitConfigPage PROVE PagesInv'
<1>1. view # "InstallProgress" /\ {"UUIDGenerated", "ConfigEdited"} \subseteq Commands
  BY DEF SubmitConfigPage, On, Commands
<1>2. CASE Stay /\ Touch /\ UNCHANGED flight
  <2>1. Installing'
    BY <1>1, <1>2 DEF Installing, GoesOn, OnlyChain, Stay
  <2> QED
    BY <1>2, <2>1, StayKeeps, QuietIs, InvIs, InvIsPrimed
<1> QED
  BY <1>1, <1>2, RunKeeps DEF SubmitConfigPage

LEMMA PortEditKeeps == ASSUME PagesInv, SubmitPortEdit PROVE PagesInv'
<1>1. /\ view = "PortEdit" /\ "ConfigEdited" \in Commands /\ "exit" \notin pending
      /\ {"port", "reset"} \subseteq Questions
  BY NoExit, QuestionsAre DEF SubmitPortEdit, On, Commands, CertPages, CorePages
<1>2. ASSUME NEW qs \in SUBSET pending, Begin("ConfigEdited"), Show(view, qs), Still \/ Touch
      PROVE  PagesInv'
  BY <1>1, <1>2, AnsweredKeeps
<1>3. ASSUME NEW q \in {"port", "reset"}, Ask(q) PROVE PagesInv'
  BY <1>1, <1>3, AskKeeps, PagesOfEach
<1>4. ASSUME pending \cap {"port", "hop"} = {}, "reset" \notin pending, Open({"Hy2PortMode"})
      PROVE  PagesInv'
  BY <1>1, <1>4, UnaskedIs, OpenKeeps DEF Views
<1> QED
  BY <1>1, <1>2, <1>3, <1>4, DropKeeps DEF SubmitPortEdit

LEMMA Hy2PortEditKeeps == ASSUME PagesInv, SubmitHy2PortEdit PROVE PagesInv'
<1>1. /\ view = "Hy2PortMode" /\ "ConfigEdited" \in Commands
      /\ {"port", "hop"} \subseteq Questions
  BY QuestionsAre DEF SubmitHy2PortEdit, On, Commands
<1>2. ASSUME Begin("ConfigEdited"), Show(view, pending \ {"port", "hop"}), Touch PROVE PagesInv'
  BY <1>1, <1>2, AnsweredKeeps
<1>3. ASSUME NEW q \in {"port", "hop"}, Ask(q) PROVE PagesInv'
  BY <1>1, <1>3, AskKeeps, PagesOfEach
<1> QED
  BY <1>1, <1>2, <1>3, RunKeeps DEF SubmitHy2PortEdit

LEMMA OutboundMenuKeeps == ASSUME PagesInv, SubmitOutboundMenu PROVE PagesInv'
BY RunKeeps DEF SubmitOutboundMenu, On, Commands

LEMMA RouteMenuKeeps == ASSUME PagesInv, SubmitRouteMenu PROVE PagesInv'
<1>1. view = "RouteMenu" /\ Open(RoutePages) /\ "exit" \notin pending /\ Unasked
  BY NoExit, UnaskedIs DEF SubmitRouteMenu, On, CertPages, CorePages, Asking
<1> QED
  BY <1>1, OpenKeeps DEF RoutePages, Views

LEMMA RoutePageKeeps ==
  ASSUME PagesInv, NEW v \in (RoutePages \cup Socks5Pages) \ {"Socks5Routing"}, SubmitRoutePage(v)
  PROVE  PagesInv'
<1>1. /\ view = v /\ view # "InstallProgress" /\ "ConfigEdited" \in Commands
      /\ "route" \in Questions /\ view \in PagesOf["route"]
  BY QuestionsAre, PagesOfEach DEF SubmitRoutePage, On, Commands, RoutePages, Socks5Pages
<1>2. ASSUME Begin("ConfigEdited"), Show(v, pending \ {"route"}), Still PROVE PagesInv'
  BY <1>1, <1>2, AnsweredKeeps
<1> QED
  BY <1>1, <1>2, DropKeeps, AskKeeps, RunKeeps DEF SubmitRoutePage

LEMMA RoutingKeeps ==
  ASSUME PagesInv,
         \/ SubmitWARPRouting \/ SubmitSocks5Routing \/ SubmitSocks5Inbound
         \/ SubmitSocks5Outbound \/ SubmitIPv6Routing \/ SubmitDNSRouting
         \/ SubmitSNIProxyRouting
  PROVE  PagesInv'
<1>1. ASSUME SubmitSocks5Routing PROVE PagesInv'
  <2>1. view = "Socks5Routing" /\ Open(Socks5Pages) /\ "exit" \notin pending /\ Unasked
    BY <1>1, NoExit, UnaskedIs DEF SubmitSocks5Routing, On, CertPages, CorePages, Asking
  <2> QED
    BY <2>1, OpenKeeps DEF Socks5Pages, Views
<1>2. {"WARPRouting", "Socks5Inbound", "Socks5Outbound", "IPv6Routing", "DNSRouting",
       "SNIProxyRouting"} \subseteq (RoutePages \cup Socks5Pages) \ {"Socks5Routing"}
  BY DEF RoutePages, Socks5Pages
<1> QED
  BY <1>1, <1>2, RoutePageKeeps DEF SubmitWARPRouting, SubmitSocks5Inbound, SubmitSocks5Outbound,
     SubmitIPv6Routing, SubmitDNSRouting, SubmitSNIProxyRouting

LEMMA CertMenuKeeps == ASSUME PagesInv, HandleCertMenu PROVE PagesInv'
<1>1. view = "CertMenu" /\ Unasked /\ "Port80" \in Commands
  BY UnaskedIs DEF HandleCertMenu, On, Asking, Commands
<1>2. ASSUME Begin("Port80"), Show(view, pending \ {"domain"}), Still PROVE PagesInv'
  BY <1>1, <1>2, AnsweredKeeps
<1>3. ASSUME Open(CertPages \ {"ACMEHTTPInput", "DNSCredentialInput"}) PROVE PagesInv'
  <2>1. CertPages \ {"ACMEHTTPInput", "DNSCredentialInput"}
          \subseteq (Views \ {"InstallProgress", "Uninstall"}) \cap ExitPages
    BY DEF CertPages, Views, ExitPages
  <2> QED
    BY <1>1, <1>3, <2>1, OpenKeeps
<1> QED
  BY <1>2, <1>3 DEF HandleCertMenu

LEMMA HTTPInputKeeps == ASSUME PagesInv, HandleHTTPInput PROVE PagesInv'
<1>1. view = "ACMEHTTPInput" /\ "CertRequest" \in Commands /\ "domain" \in Questions
  BY QuestionsAre DEF HandleHTTPInput, On, Commands
<1> QED
  BY <1>1, RunKeeps, AskKeeps, PagesOfEach DEF HandleHTTPInput

LEMMA ProviderSelectKeeps == ASSUME PagesInv, HandleProviderSelect PROVE PagesInv'
<1>1. /\ view = "ACMEDNSProvider" /\ Unasked
      /\ Show("DNSCredentialInput", pending \ {"id", "secret"}) /\ Quiet
  BY UnaskedIs DEF HandleProviderSelect, On, Asking
<1>2. /\ "DNSCredentialInput" \in Views \ {"InstallProgress", "Uninstall"}
      /\ "DNSCredentialInput" \in ExitPages
  BY DEF Views, ExitPages, CertPages
<1> QED
  BY <1>1, <1>2, GoKeeps, QuietIs

LEMMA CredentialInputKeeps == ASSUME PagesInv, HandleCredentialInput PROVE PagesInv'
<1>1. /\ view = "DNSCredentialInput" /\ "CertRequest" \in Commands
      /\ {"id", "secret"} \subseteq Questions
      /\ view \in PagesOf["id"] /\ view \in PagesOf["secret"]
  BY QuestionsAre, PagesOfEach DEF HandleCredentialInput, On, Commands
<1>2. ASSUME Show(view, (pending \ {"id"}) \cup {"secret"}), Quiet PROVE PagesInv'
  <2>1. AsksThere(view, (pending \ {"id"}) \cup {"secret"})
    BY <1>1, InvIs DEF PageOK, AsksThere, Exits, ExitAlone
  <2> QED
    BY <1>1, <1>2, <2>1, StaysOnPage, QuietIs
<1>3. ASSUME Begin("CertRequest"), Show(view, pending \ {"secret"}), Still PROVE PagesInv'
  BY <1>1, <1>3, AnsweredKeeps
<1> QED
  BY <1>1, <1>2, <1>3, AskKeeps DEF HandleCredentialInput

LEMMA DeleteKeeps == ASSUME PagesInv, HandleDelete PROVE PagesInv'
<1>1. view = "CertDelete" /\ "CertDelete" \in Commands /\ "delete" \in Questions
  BY QuestionsAre DEF HandleDelete, On, Commands
<1>2. ASSUME Begin("CertDelete"), Show(view, pending \ {"delete"}), Still PROVE PagesInv'
  BY <1>1, <1>2, AnsweredKeeps
<1> QED
  BY <1>1, <1>2, AskKeeps, DropKeeps, PagesOfEach DEF HandleDelete

LEMMA SwitchProviderKeeps == ASSUME PagesInv, HandleSwitchProvider PROVE PagesInv'
<1>1. view = "ProviderSwitch" /\ Open({"CertMenu"}) /\ Unasked
  BY UnaskedIs DEF HandleSwitchProvider, On, Asking
<1>2. {"CertMenu"} \subseteq Views \ {"InstallProgress", "Uninstall"} /\ {"CertMenu"} \subseteq ExitPages
  BY DEF Views, Menus, ExitPages
<1> QED
  BY <1>1, <1>2, OpenKeeps

LEMMA CoreSourceSelectKeeps == ASSUME PagesInv, SubmitCoreSourceSelect PROVE PagesInv'
<1>1. view = "CoreSourceSelect" /\ Open({"CoreMenu"}) /\ Unasked
  BY UnaskedIs DEF SubmitCoreSourceSelect, On, Asking
<1>2. {"CoreMenu"} \subseteq Views \ {"InstallProgress", "Uninstall"} /\ {"CoreMenu"} \subseteq ExitPages
  BY DEF Views, Menus, ExitPages
<1> QED
  BY <1>1, <1>2, OpenKeeps

LEMMA ScriptUpdateKeeps == ASSUME PagesInv, SubmitScriptUpdate PROVE PagesInv'
<1>1. view = "ScriptUpdate" /\ Open({"CoreMenu"}) /\ Unasked
  BY UnaskedIs DEF SubmitScriptUpdate, On, Asking
<1>2. {"CoreMenu"} \subseteq Views \ {"InstallProgress", "Uninstall"} /\ {"CoreMenu"} \subseteq ExitPages
  BY DEF Views, Menus, ExitPages
<1> QED
  BY <1>1, <1>2, OpenKeeps

LEMMA ToolsMenuKeeps == ASSUME PagesInv, SubmitToolsMenu PROVE PagesInv'
<1>1. view = "ToolsMenu" /\ Open(ToolPages) /\ Unasked /\ "exit" \notin pending
  BY UnaskedIs, NoExit DEF SubmitToolsMenu, On, Asking, CertPages, CorePages
<1>2. ToolPages \subseteq Views \ {"InstallProgress", "Uninstall"}
  BY DEF Views, ToolPages
<1> QED
  BY <1>1, <1>2, OpenKeeps

LEMMA ProtocolLinksKeeps == ASSUME PagesInv, SubmitProtocolLinks PROVE PagesInv'
<1>1. view = "ProtocolLinks" /\ Open({"QRCode"}) /\ Unasked /\ "exit" \notin pending
  BY UnaskedIs, NoExit DEF SubmitProtocolLinks, On, Asking, CertPages, CorePages
<1>2. {"QRCode"} \subseteq Views \ {"InstallProgress", "Uninstall"}
  BY DEF Views
<1> QED
  BY <1>1, <1>2, OpenKeeps

LEMMA SubscriptionKeeps == ASSUME PagesInv, SubmitSubscription PROVE PagesInv'
<1>1. view = "Subscription" /\ Open({"QRCode"}) /\ Unasked /\ "exit" \notin pending
  BY UnaskedIs, NoExit DEF SubmitSubscription, On, Asking, CertPages, CorePages
<1>2. {"QRCode"} \subseteq Views \ {"InstallProgress", "Uninstall"}
  BY DEF Views
<1> QED
  BY <1>1, <1>2, OpenKeeps

\* A command is begun, and another page shown.
LEMMA BeginsAndGoes ==
  ASSUME PagesInv, Unasked, NEW c \in Commands, Begin(c), FlagsOK', NEW qs \in SUBSET pending,
         NEW v \in Views \ {"InstallProgress", "Uninstall"}, Show(v, qs),
         "exit" \in pending => v \in ExitPages
  PROVE  PagesInv'
BY BeginIs, GoKeeps

LEMMA CoreMenuKeeps == ASSUME PagesInv, SubmitCoreMenu PROVE PagesInv'
<1>1. view = "CoreMenu" /\ Unasked /\ {"CoreVersions", "CoreInstall"} \subseteq Commands
  BY UnaskedIs DEF SubmitCoreMenu, On, Asking, Commands
<1>2. /\ CorePages \subseteq Views \ {"InstallProgress", "Uninstall"} /\ CorePages \subseteq ExitPages
      /\ {"CoreSourceSelect", "ScriptUpdate"} \subseteq CorePages /\ "CoreVersionSelect" \in CorePages
  BY DEF CorePages, Views, ExitPages
<1>3. ASSUME Open({"CoreSourceSelect", "ScriptUpdate"}) PROVE PagesInv'
  BY <1>1, <1>2, <1>3, OpenKeeps
<1>4. ASSUME Begin("CoreVersions"), Show("CoreVersionSelect", pending), Still PROVE PagesInv'
  BY <1>1, <1>2, <1>4, BeginsAndGoes, QuietIs
<1> QED
  BY <1>1, <1>3, <1>4, RunKeeps DEF SubmitCoreMenu

LEMMA CoreVersionSelectKeeps == ASSUME PagesInv, SubmitCoreVersionSelect PROVE PagesInv'
<1>1. view = "CoreVersionSelect" /\ Unasked /\ "CoreInstall" \in Commands
  BY UnaskedIs DEF SubmitCoreVersionSelect, On, Asking, Commands
<1>2. "CoreMenu" \in Views \ {"InstallProgress", "Uninstall"} /\ "CoreMenu" \in ExitPages
  BY DEF Views, Menus, ExitPages
<1> QED
  BY <1>1, <1>2, BeginsAndGoes, QuietIs DEF SubmitCoreVersionSelect

LEMMA Fail2BanMenuKeeps == ASSUME PagesInv, SubmitFail2BanMenu PROVE PagesInv'
<1>1. /\ view = "Fail2BanMenu" /\ "BanList" \in Commands /\ view \in Views
      /\ {"unban", "retry", "bantime"} \subseteq Questions
      /\ \A q \in {"unban", "retry", "bantime"} : view \in PagesOf[q]
  BY QuestionsAre, PagesOfEach, InvIs DEF SubmitFail2BanMenu, On, Commands, PageOK
<1>2. ASSUME Begin("BanList"), Show(view, pending \ {"unban"}), Still PROVE PagesInv'
  BY <1>1, <1>2, AnsweredKeeps
<1>3. ASSUME Show(view, (pending \ {"retry"}) \cup {"bantime"}), Quiet PROVE PagesInv'
  <2>1. AsksThere(view, (pending \ {"retry"}) \cup {"bantime"})
    BY <1>1, InvIs DEF PageOK, AsksThere, Exits, ExitAlone
  <2> QED
    BY <1>1, <1>3, <2>1, StaysOnPage, QuietIs
<1>4. ASSUME Begin("BanList"), Show(view, pending \cup {"unban"}), Still PROVE PagesInv'
  <2>1. AsksThere(view, pending \cup {"unban"})
    BY <1>1, InvIs DEF PageOK, AsksThere, Exits, ExitAlone
  <2> QED
    BY <1>1, <1>4, <2>1, StaysOnPage, QuietIs, BeginIs
<1>5. ASSUME pending \cap {"unban", "retry", "bantime"} = {}, Begin("BanList"),
             Show("LogViewer", pending), fromBan' = TRUE,
             UNCHANGED <<unsaved, params, finished, alone>>
      PROVE  PagesInv'
  <2>1. Unasked /\ FlagsOK'
    BY <1>1, <1>5, UnaskedIs, InvIs DEF FlagsOK
  <2>2. "LogViewer" \in Views \ {"InstallProgress", "Uninstall"} /\ "LogViewer" \in ExitPages
    BY DEF Views, ExitPages
  <2> QED
    BY <1>1, <1>5, <2>1, <2>2, BeginsAndGoes
<1> QED
  BY <1>1, <1>2, <1>3, <1>4, <1>5, AskKeeps, DropKeeps DEF SubmitFail2BanMenu

LEMMA BBRMenuKeeps == ASSUME PagesInv, SubmitBBRMenu PROVE PagesInv'
<1>1. view = "BBRMenu" /\ "BBR2" \in Commands /\ "kernel" \in Questions
  BY QuestionsAre DEF SubmitBBRMenu, On, Commands
<1> QED
  BY <1>1, RunKeeps, AskKeeps, DropKeeps, PagesOfEach DEF SubmitBBRMenu

LEMMA BackupRestoreMenuKeeps == ASSUME PagesInv, SubmitBackupRestoreMenu PROVE PagesInv'
<1>1. /\ view = "BackupMenu" /\ "ConfigSaved" \in Commands
      /\ {"choose", "restore"} \subseteq Questions
      /\ \A q \in {"choose", "restore"} : view \in PagesOf[q]
  BY QuestionsAre, PagesOfEach DEF SubmitBackupRestoreMenu, On, Commands
<1>2. ASSUME Begin("ConfigSaved"), Show(view, pending \ {"restore"}), Still PROVE PagesInv'
  BY <1>1, <1>2, AnsweredKeeps
<1>3. ASSUME Show(view, (pending \ {"choose"}) \cup {"restore"}), Quiet PROVE PagesInv'
  <2>1. AsksThere(view, (pending \ {"choose"}) \cup {"restore"})
    BY <1>1, InvIs DEF PageOK, AsksThere, Exits, ExitAlone
  <2> QED
    BY <1>1, <1>3, <2>1, StaysOnPage, QuietIs
<1> QED
  BY <1>1, <1>2, <1>3, AskKeeps, DropKeeps DEF SubmitBackupRestoreMenu

LEMMA LogMenuKeeps == ASSUME PagesInv, SubmitLogMenu PROVE PagesInv'
<1>1. view = "LogMenu" /\ Unasked /\ "LogView" \in Commands
  BY UnaskedIs DEF SubmitLogMenu, On, Asking, Commands
<1>2. /\ {"LogViewer", "LogLevelEdit"} \subseteq Views \ {"InstallProgress", "Uninstall"}
      /\ {"LogViewer", "LogLevelEdit"} \subseteq ExitPages
  BY DEF Views, ExitPages
<1>3. ASSUME Begin("LogView"), Show("LogViewer", pending), Still PROVE PagesInv'
  BY <1>1, <1>2, <1>3, BeginsAndGoes, QuietIs
<1>4. ASSUME Open({"LogLevelEdit"}) PROVE PagesInv'
  BY <1>1, <1>2, <1>4, OpenKeeps
<1> QED
  BY <1>3, <1>4 DEF SubmitLogMenu

LEMMA LogLevelEditKeeps == ASSUME PagesInv, SubmitLogLevelEdit PROVE PagesInv'
BY RunKeeps DEF SubmitLogLevelEdit, On, Commands

LEMMA LogViewerKeeps ==
  ASSUME PagesInv, view = "LogViewer", NEW qs \in SUBSET pending,
         Show(IF fromBan THEN "Fail2BanMenu" ELSE "LogMenu", qs),
         fromBan' = FALSE, UNCHANGED <<unsaved, params, finished, alone, flight>>
  PROVE  PagesInv'
<1>1. /\ {"Fail2BanMenu", "LogMenu"} \subseteq Views \ {"InstallProgress", "Uninstall"}
      /\ {"Fail2BanMenu", "LogMenu"} \subseteq ExitPages
  BY DEF Views, ToolPages, Menus, ExitPages
<1>2. FlagsOK' /\ flight' \in [Commands -> Nat] /\ Unasked
  BY InvIs, UnaskedIs DEF FlagsOK, Asking
<1> QED
  BY <1>1, <1>2, GoKeeps

LEMMA NodeInfoKeeps == ASSUME PagesInv, SubmitNodeInfo PROVE PagesInv'
<1>1. view = "NodeInfo" /\ Unasked /\ "exit" \notin pending
  BY UnaskedIs, NoExit DEF SubmitNodeInfo, On, Asking, CertPages, CorePages
<1>2. NodePages \subseteq Views \ {"InstallProgress", "Uninstall"}
  BY DEF NodePages, Views
<1>3. ASSUME Open({"Subscription", "ClientConfig"}) PROVE PagesInv'
  BY <1>1, <1>2, <1>3, OpenKeeps DEF NodePages
<1>4. ASSUME Show("ProtocolLinks", pending), params' = FALSE,
             UNCHANGED <<unsaved, fromBan, finished, alone, flight>>
      PROVE  PagesInv'
  <2>1. FlagsOK' /\ flight' \in [Commands -> Nat]
    BY <1>4, InvIs DEF FlagsOK
  <2> QED
    BY <1>1, <1>2, <1>4, <2>1, GoKeeps DEF NodePages
<1> QED
  BY <1>3, <1>4 DEF SubmitNodeInfo

LEMMA ClientConfigKeeps == ASSUME PagesInv, SubmitClientConfig PROVE PagesInv'
<1>1. view = "ClientConfig" /\ Unasked /\ "exit" \notin pending /\ "NodeParams" \in Commands
  BY UnaskedIs, NoExit DEF SubmitClientConfig, On, Asking, CertPages, CorePages, Commands
<1>2. "ProtocolLinks" \in Views \ {"InstallProgress", "Uninstall"} /\ FlagsOK'
  BY InvIs DEF SubmitClientConfig, NodePages, Views, FlagsOK
<1> QED
  BY <1>1, <1>2, BeginsAndGoes DEF SubmitClientConfig

LEMMA UninstallKeeps == ASSUME PagesInv, SubmitUninstall PROVE PagesInv'
<1>1. /\ view = "Uninstall" /\ Unasked /\ "exit" \notin pending /\ "Uninstalled" \in Commands
      /\ "uninstall" \in Questions
  BY UnaskedIs, NoExit, QuestionsAre DEF SubmitUninstall, On, Asking, CertPages, CorePages, Commands
<1>2. ASSUME Begin("Uninstalled"), Show("UninstallProgress", pending), Still PROVE PagesInv'
  <2>1. "UninstallProgress" \in Views \ {"InstallProgress", "Uninstall"}
    BY DEF Views
  <2> QED
    BY <1>1, <1>2, <2>1, BeginsAndGoes, QuietIs
<1> QED
  BY <1>1, <1>2, AskKeeps, PagesOfEach DEF SubmitUninstall

LEMMA SubmitKeeps == ASSUME PagesInv, Submit PROVE PagesInv'
<1>1. ASSUME SubmitLogViewer PROVE PagesInv'
  BY <1>1, LogViewerKeeps DEF SubmitLogViewer, LeaveLogViewer, On
<1> QED
  BY <1>1, MainMenuKeeps, InstallWizardKeeps, LeaveInstallProgressKeeps, ConfigMenuKeeps,
     ConfigPageKeeps, PortEditKeeps, Hy2PortEditKeeps, OutboundMenuKeeps, RouteMenuKeeps,
     RoutingKeeps, CertMenuKeeps, HTTPInputKeeps, ProviderSelectKeeps, CredentialInputKeeps,
     DeleteKeeps, SwitchProviderKeeps, CoreMenuKeeps, CoreVersionSelectKeeps,
     CoreSourceSelectKeeps, ScriptUpdateKeeps, ToolsMenuKeeps, Fail2BanMenuKeeps, BBRMenuKeeps,
     BackupRestoreMenuKeeps, LogMenuKeeps, LogLevelEditKeeps, NodeInfoKeeps, ProtocolLinksKeeps,
     SubscriptionKeeps, ClientConfigKeeps, UninstallKeeps
  DEF Submit

-----------------------------------------------------------------------------
(* Esc and the end.                                                        *)

LEMMA BackIs ==
  ASSUME NEW v \in Views \ {"InstallProgress", "Closed", "LogViewer"}
  PROVE  Back(v) \subseteq Views \ {"InstallProgress", "Uninstall"}
BY DEF Back, Views, Menus, CertPages, ConfigPages, RoutePages, Socks5Pages, CorePages, ToolPages,
   NodePages

\* What EscapeQuestion has come to, when it leaves the page.
NothingAsked ==
  /\ pending \cap {"exit", "reset", "choose", "restore", "unban", "retry", "bantime", "kernel"} = {}
  /\ view = "DNSCredentialInput" => pending \cap {"id", "secret"} = {}
  /\ view = "ACMEHTTPInput" => "domain" \notin pending
  /\ view = "Uninstall" => "uninstall" \notin pending

LEMMA EscapePageKeeps ==
  ASSUME PagesInv, NothingAsked, view \notin {"InstallProgress", "Closed"}, EscapePage
  PROVE  PagesInv'
<1>1. CASE view = "LogViewer"
  <2>1. /\ Show(IF fromBan THEN "Fail2BanMenu" ELSE "LogMenu", pending \ GivenUp)
        /\ fromBan' = FALSE /\ UNCHANGED <<unsaved, params, finished, alone, flight>>
    BY <1>1 DEF EscapePage
  <2> QED
    BY <1>1, <2>1, LogViewerKeeps
<1>2. CASE view # "LogViewer"
  <2>1. PICK v \in Back(view) : Show(v, pending \ GivenUp) /\ Quiet
    BY <1>2 DEF EscapePage
  <2>2. v \in Views \ {"InstallProgress", "Uninstall"}
    BY <1>2, <2>1, BackIs, InvIs DEF PageOK
  <2>3. Leaves(v, pending \ GivenUp)
    <3> SUFFICES ASSUME NEW q \in pending, q \notin GivenUp, view \in PagesOf[q]
                 PROVE  q \in {"route", "uninstall"}
      BY DEF Leaves
    <3>1. q \in Questions
      BY InvIs DEF PageOK
    <3> QED
      BY <3>1, AskedOn DEF GivenUp, NothingAsked
  <2>4. AsksThere(v, pending \ GivenUp)
    BY InvIs DEF PageOK, AsksThere, Exits, NothingAsked
  <2> QED
    BY <2>1, <2>2, <2>3, <2>4, ShownKeeps, QuietIs
<1> QED
  BY <1>1, <1>2

\* What Esc may do, whatever it finds asked.
LEMMA EscapeCases ==
  ASSUME EscapeQuestion
  PROVE  \/ "exit" \in pending /\ Drop({"exit"})
         \/ "reset" \in pending /\ Drop({"reset"})
         \/ /\ view = "DNSCredentialInput" /\ "secret" \in pending
            /\ Show(view, (pending \ (GivenUp \cup {"secret"})) \cup {"id"}) /\ Quiet
         \/ view = "DNSCredentialInput" /\ "id" \in pending /\ EscapeFrom({"id"})
         \/ \E S \in {{"choose", "restore"}, {"unban", "retry", "bantime"}, {"kernel"},
                      {"domain"}, {"uninstall"}} :
              pending \cap S # {} /\ EscapeFrom(S)
         \/ /\ view = "ConfigMenu" /\ unsaved /\ pending \cap {"exit", "reset"} = {}
            /\ Show(view, (pending \ GivenUp) \cup {"exit"}) /\ Quiet
         \/ NothingAsked /\ ~(view = "ConfigMenu" /\ unsaved) /\ EscapePage
BY DEF EscapeQuestion, NothingAsked

LEMMA EscapeKeeps == ASSUME PagesInv, Escape PROVE PagesInv'
<1>1. view \notin {"InstallProgress", "Closed"}
  BY DEF Escape
<1>2. CASE view = "ProtocolLinks" /\ params
  <2>1. /\ Show("ClientConfig", pending) /\ params' = FALSE
        /\ UNCHANGED <<unsaved, fromBan, finished, alone, flight>>
    BY <1>2 DEF Escape
  <2>2. Unasked /\ "exit" \notin pending /\ FlagsOK' /\ flight' \in [Commands -> Nat]
    BY <1>2, <2>1, UnaskedIs, NoExit, InvIs DEF Asking, CertPages, CorePages, FlagsOK
  <2>3. "ClientConfig" \in Views \ {"InstallProgress", "Uninstall"}
    BY DEF Views, NodePages
  <2> QED
    BY <2>1, <2>2, <2>3, GoKeeps
<1>3. ASSUME NEW qs, Drop(qs) PROVE PagesInv'
  BY <1>1, <1>3, DropKeeps
<1>4. ASSUME NEW qs, EscapeFrom(qs) PROVE PagesInv'
  BY <1>3, <1>4 DEF EscapeFrom
<1>5. ASSUME view = "DNSCredentialInput", Quiet,
             Show(view, (pending \ (GivenUp \cup {"secret"})) \cup {"id"})
      PROVE  PagesInv'
  <2>1. AsksThere(view, (pending \ (GivenUp \cup {"secret"})) \cup {"id"})
    BY <1>5, InvIs, PagesOfEach, QuestionsAre DEF PageOK, AsksThere, Exits, ExitAlone
  <2> QED
    BY <1>5, <2>1, StaysOnPage, QuietIs
<1>6. ASSUME view = "ConfigMenu", Quiet, pending \cap {"exit", "reset"} = {},
             Show(view, (pending \ GivenUp) \cup {"exit"})
      PROVE  PagesInv'
  <2>1. AsksThere(view, (pending \ GivenUp) \cup {"exit"})
    BY <1>6, InvIs, PagesOfEach, QuestionsAre DEF PageOK, AsksThere, Exits, ExitPages
  <2> QED
    BY <1>6, <2>1, StaysOnPage, QuietIs
<1> QED
  BY <1>1, <1>2, <1>3, <1>4, <1>5, <1>6, EscapeCases, EscapePageKeeps DEF Escape

LEMMA QuitKeeps == ASSUME PagesInv, Quit PROVE PagesInv'
<1>1. PageOK'
  BY DEF Quit, PageOK, Views, LeftBehind, Placed, ExitAlone
<1>2. flight' \in [Commands -> Nat] /\ FlagsOK'
  BY FlightOfNothing, QuietIs DEF Quit
<1>3. Installing'
  BY DEF Quit, Installing, GoesOn, OnlyChain
<1> QED
  BY <1>1, <1>2, <1>3, InvIsPrimed

-----------------------------------------------------------------------------
(* Answers.                                                                *)

\* What an answer means to the installation: it is none of its steps; or the last
\* of them, or a failure, and the installation ends; or the next step is begun.
Continues(c, then) ==
  view' = "InstallProgress" =>
    /\ view = "InstallProgress"
    /\ \/ c \notin InstallSteps /\ (finished' = finished)
       \/ c \in InstallSteps /\ finished' /\ then = {}
       \/ c \in InstallSteps /\ (finished' = finished) /\ \E d \in Chain : then = {d}

LEMMA AnswerIs ==
  ASSUME PagesInv, NEW c \in Commands, NEW then \in SUBSET Commands, Answer(c, then)
  PROVE  /\ flight' \in [Commands -> Nat] /\ flight[c] > 0
         /\ \A d \in Commands : flight'[d] = flight[d] - (IF d = c THEN 1 ELSE 0)
                                               + (IF d \in then THEN 1 ELSE 0)
<1>1. flight \in [Commands -> Nat]
  BY InvIs
<1>2. \A d \in Commands :
        flight[d] - (IF d = c THEN 1 ELSE 0) + (IF d \in then THEN 1 ELSE 0) \in Nat
  BY <1>1 DEF Answer
<1> QED
  BY <1>1, <1>2 DEF Answer

LEMMA ChainIs == Chain \subseteq InstallSteps /\ InstallSteps \subseteq Commands
BY DEF Chain, InstallSteps, Commands

LEMMA AnswerKeeps ==
  ASSUME PagesInv, NEW c \in Commands, NEW then \in SUBSET Commands, Answer(c, then),
         PageOK', FlagsOK', Continues(c, then)
  PROVE  PagesInv'
<1>1. /\ flight' \in [Commands -> Nat] /\ flight[c] > 0
      /\ \A d \in Commands : flight'[d] = flight[d] - (IF d = c THEN 1 ELSE 0)
                                            + (IF d \in then THEN 1 ELSE 0)
  BY AnswerIs
<1>2. flight \in [Commands -> Nat] /\ GoesOn /\ OnlyChain /\ FlagsOK /\ (alone' = alone)
  BY InvIs DEF Installing, Answer
<1>3. GoesOn'
  <2> SUFFICES ASSUME view' = "InstallProgress", ~finished'
               PROVE  \E s \in InstallSteps : flight'[s] > 0
    BY DEF GoesOn
  <2>1. CASE c \notin InstallSteps /\ (finished' = finished)
    <3>1. PICK s \in InstallSteps : flight[s] > 0
      BY <1>2, <2>1 DEF Continues, GoesOn
    <3>2. flight'[s] >= flight[s]
      BY <1>1, <1>2, <2>1, <3>1, ChainIs
    <3> QED
      BY <1>1, <1>2, <3>1, <3>2, ChainIs
  <2>2. CASE \E d \in Chain : then = {d}
    <3>1. PICK d \in Chain : then = {d}
      BY <2>2
    <3>2. flight'[d] > 0
      BY <1>1, <1>2, <3>1, ChainIs
    <3> QED
      BY <3>1, <3>2, ChainIs
  <2> QED
    BY <2>1, <2>2 DEF Continues
<1>4. OnlyChain'
  <2> SUFFICES ASSUME view' = "InstallProgress", alone'
               PROVE  IF finished' THEN flight' = Nothing ELSE \E d \in Chain : flight' = Solo(d)
    BY DEF OnlyChain
  <2>1. view = "InstallProgress" /\ alone
    BY <1>2 DEF Continues
  <2>2. ~finished
    BY <1>1, <2>1, <1>2 DEF OnlyChain, Nothing
  <2>3. PICK e \in Chain : flight = Solo(e)
    BY <1>2, <2>1, <2>2 DEF OnlyChain
  <2>4. flight = [d \in Commands |-> IF d = e THEN 1 ELSE 0]
    BY <2>3 DEF Solo, Nothing
  <2>5. e = c
    BY <1>1, <2>4
  <2>6. CASE then = {} /\ finished'
    <3>1. \A d \in Commands : flight'[d] = 0
      BY <1>1, <2>4, <2>5, <2>6
    <3> QED
      BY <1>1, <2>6, <3>1 DEF Nothing
  <2>7. CASE (finished' = finished) /\ \E d \in Chain : then = {d}
    <3>1. PICK d \in Chain : then = {d}
      BY <2>7
    <3>2. \A a \in Commands : flight'[a] = IF a = d THEN 1 ELSE 0
      BY <1>1, <2>4, <2>5, <3>1
    <3>3. flight' = Solo(d)
      BY <1>1, <3>2 DEF Solo, Nothing
    <3> QED
      BY <2>2, <2>7, <3>1, <3>3
  <2>8. c \in InstallSteps
    BY <2>3, <2>5, ChainIs
  <2> QED
    BY <2>6, <2>7, <2>8 DEF Continues
<1> QED
  BY <1>1, <1>3, <1>4, InvIsPrimed DEF Installing

LEMMA FlagsStay == ASSUME PagesInv, UNCHANGED flags, alone' = alone PROVE FlagsOK'
BY InvIs DEF FlagsOK, flags

\* An answer that may lead to a page.
LEMMA LeadsKeeps ==
  ASSUME PagesInv, NEW c \in Commands \ InstallSteps,
         NEW v \in Views \ {"InstallProgress", "Uninstall"}, v \in ExitPages, Leads(c, v)
  PROVE  PagesInv'
<1>1. FlagsOK' /\ (finished' = finished) /\ Answer(c, {})
  BY FlagsStay DEF Leads, Answer, flags
<1>2. PageOK' /\ Continues(c, {})
  <2>1. CASE Stay
    <3>1. PageOK'
      BY <2>1, StayKeeps, InvIs
    <3> QED
      BY <1>1, <2>1, <3>1 DEF Stay, Continues
  <2>2. CASE Move(v, pending)
    <3>1. pending \in SUBSET Questions /\ Exits(v, pending)
      BY InvIs DEF PageOK, Exits, ExitAlone
    <3>2. PageOK'
      BY <2>2, <3>1, MoveKeeps, InvIs
    <3> QED
      BY <2>2, <3>2 DEF Move, Continues
  <2> QED
    BY <2>1, <2>2 DEF Leads
<1> QED
  BY <1>1, <1>2, AnswerKeeps

LEMMA LeadKeep ==
  ASSUME PagesInv,
         Port80Msg \/ CertRequestMsg \/ CertDeleteMsg \/ LogViewMsg \/ CoreVersionsMsg
  PROVE  PagesInv'
<1>1. /\ {"ACMEHTTPInput", "CertMenu", "LogViewer", "CoreMenu"}
           \subseteq (Views \ {"InstallProgress", "Uninstall"}) \cap ExitPages
      /\ {"Port80", "CertRequest", "CertDelete", "LogView", "CoreVersions"} \subseteq Commands \ InstallSteps
  BY DEF Views, Menus, CertPages, ExitPages, Commands, InstallSteps, Chain
<1> QED
  BY <1>1, LeadsKeeps DEF Port80Msg, CertRequestMsg, CertDeleteMsg, LogViewMsg, CoreVersionsMsg

LEMMA UpdateKeeps ==
  ASSUME PagesInv, UpdateConfig
  PROVE  PageOK' /\ (view' = view)
<1>1. pending \ {"exit", "reset"} \in SUBSET Questions /\ Exits(view, pending \ {"exit", "reset"})
  BY InvIs DEF PageOK, Exits
<1>2. view \in Views
  BY InvIs DEF PageOK
<1> QED
  BY <1>1, <1>2, MoveKeeps, InvIs DEF UpdateConfig, Move

LEMMA ConfigLoadedKeeps == ASSUME PagesInv, ConfigLoadedMsg PROVE PagesInv'
<1>1. "ConfigLoaded" \in Commands \ InstallSteps
  BY DEF Commands, InstallSteps, Chain
<1>2. /\ Answer("ConfigLoaded", {}) /\ UpdateConfig /\ UNCHANGED flags
      /\ (finished' = finished) /\ (alone' = alone)
  BY DEF ConfigLoadedMsg, flags, Answer
<1>3. PageOK' /\ FlagsOK' /\ Continues("ConfigLoaded", {})
  BY <1>1, <1>2, UpdateKeeps, FlagsStay DEF Continues
<1> QED
  BY <1>1, <1>2, <1>3, AnswerKeeps

LEMMA ConfigUpdateKeeps ==
  ASSUME PagesInv, NEW c \in {"ConfigEdited", "ConfigSaved"}, ConfigUpdateMsg(c)
  PROVE  PagesInv'
<1>1. c \in Commands /\ c \in InstallSteps /\ {"CoreInstall", "ConfigLoaded"} \subseteq Commands
      /\ "CoreInstall" \in Chain
  BY DEF Commands, InstallSteps, Chain
<1>2. CASE /\ Answer(c, {}) /\ Stay
           /\ finished' = (finished \/ view = "InstallProgress")
           /\ UNCHANGED <<unsaved, params, fromBan>>
  <2>1. PageOK' /\ FlagsOK'
    BY <1>2, StayKeeps, InvIs DEF FlagsOK, Answer
  <2>2. Continues(c, {})
    BY <1>1, <1>2 DEF Continues, Stay
  <2> QED
    BY <1>1, <1>2, <2>1, <2>2, AnswerKeeps
<1>3. CASE /\ Answer(c, IF view = "InstallProgress" THEN {"CoreInstall"}
                          ELSE IF c = "ConfigSaved" THEN {"ConfigLoaded"} ELSE {})
           /\ UpdateConfig
           /\ unsaved' = (c = "ConfigEdited")
           /\ UNCHANGED <<params, fromBan, finished>>
  <2> DEFINE then == IF view = "InstallProgress" THEN {"CoreInstall"}
                       ELSE IF c = "ConfigSaved" THEN {"ConfigLoaded"} ELSE {}
  <2>1. PageOK' /\ FlagsOK' /\ (view' = view)
    BY <1>3, UpdateKeeps, InvIs DEF FlagsOK, Answer
  <2>2. Continues(c, then)
    BY <1>1, <1>3, <2>1 DEF Continues
  <2>3. then \in SUBSET Commands
    BY <1>1
  <2>4. Answer(c, then)
    BY <1>3
  <2> HIDE DEF then
  <2> QED
    BY <1>1, <2>1, <2>2, <2>3, <2>4, AnswerKeeps
<1> QED
  BY <1>2, <1>3 DEF ConfigUpdateMsg

LEMMA UUIDGeneratedKeeps == ASSUME PagesInv, UUIDGeneratedMsg PROVE PagesInv'
<1>1. "UUIDGenerated" \in Commands \ InstallSteps
  BY DEF Commands, InstallSteps, Chain
<1>2. PageOK' /\ FlagsOK' /\ Continues("UUIDGenerated", {})
  BY <1>1, StayKeeps, InvIs DEF UUIDGeneratedMsg, Answer, Stay, FlagsOK, Continues
<1> QED
  BY <1>1, <1>2, AnswerKeeps DEF UUIDGeneratedMsg

LEMMA CoreInstallKeeps == ASSUME PagesInv, CoreInstallMsg PROVE PagesInv'
<1>1. /\ "CoreInstall" \in Commands /\ "CoreInstall" \in InstallSteps
      /\ "InstallResult" \in Commands /\ "InstallResult" \in Chain
  BY DEF Commands, InstallSteps, Chain
<1>2. CASE view = "InstallProgress" /\ Answer("CoreInstall", {"InstallResult"}) /\ Stay
           /\ UNCHANGED flags
  <2>1. PageOK' /\ FlagsOK' /\ Continues("CoreInstall", {"InstallResult"})
    BY <1>1, <1>2, StayKeeps, InvIs, FlagsStay DEF Answer, Stay, Continues, flags
  <2> QED
    BY <1>1, <1>2, <2>1, AnswerKeeps
<1>3. CASE view # "InstallProgress" /\ Answer("CoreInstall", {}) /\ Move("CoreMenu", pending)
           /\ UNCHANGED flags
  <2>1. /\ "CoreMenu" \in Views /\ "CoreMenu" # "InstallProgress"
        /\ pending \in SUBSET Questions /\ Exits("CoreMenu", pending)
    BY InvIs DEF PageOK, Views, Menus, Exits, ExitAlone, ExitPages
  <2>2. PageOK' /\ FlagsOK' /\ Continues("CoreInstall", {})
    BY <1>3, <2>1, MoveKeeps, InvIs, FlagsStay DEF Answer, Move, Continues
  <2> QED
    BY <1>1, <1>3, <2>2, AnswerKeeps
<1>4. CASE /\ Answer("CoreInstall", {}) /\ Stay
           /\ finished' = (finished \/ view = "InstallProgress")
           /\ UNCHANGED <<unsaved, params, fromBan>>
  <2>1. PageOK' /\ FlagsOK' /\ Continues("CoreInstall", {})
    BY <1>1, <1>4, StayKeeps, InvIs DEF FlagsOK, Answer, Stay, Continues
  <2> QED
    BY <1>1, <1>4, <2>1, AnswerKeeps
<1> QED
  BY <1>2, <1>3, <1>4 DEF CoreInstallMsg, CoreInstalled

LEMMA InstallResultKeeps == ASSUME PagesInv, InstallResultMsg PROVE PagesInv'
<1>1. "InstallResult" \in Commands /\ "InstallResult" \in InstallSteps
  BY DEF Commands, InstallSteps, Chain
<1>2. PageOK' /\ FlagsOK' /\ Continues("InstallResult", {})
  BY <1>1, StayKeeps, InvIs DEF InstallResultMsg, Answer, Stay, FlagsOK, Continues
<1> QED
  BY <1>1, <1>2, AnswerKeeps DEF InstallResultMsg

LEMMA BanListKeeps == ASSUME PagesInv, BanListMsg PROVE PagesInv'
<1>1. "BanList" \in Commands \ InstallSteps /\ Answer("BanList", {})
  BY DEF Commands, InstallSteps, Chain, BanListMsg
<1>2. CASE Stay /\ UNCHANGED flags
  <2>1. PageOK' /\ FlagsOK' /\ Continues("BanList", {})
    BY <1>1, <1>2, StayKeeps, InvIs, FlagsStay DEF Answer, Stay, Continues, flags
  <2> QED
    BY <1>1, <2>1, AnswerKeeps
<1>3. CASE /\ Move("LogViewer", pending) /\ fromBan' = TRUE
           /\ UNCHANGED <<unsaved, params, finished>>
  <2>1. /\ "LogViewer" \in Views /\ "LogViewer" \notin {"InstallProgress", "Uninstall"}
        /\ pending \in SUBSET Questions /\ Exits("LogViewer", pending)
    BY InvIs DEF PageOK, Views, Exits, ExitAlone, ExitPages
  <2>2. PageOK' /\ FlagsOK' /\ Continues("BanList", {})
    BY <1>1, <1>3, <2>1, MoveKeeps, InvIs DEF Answer, Move, Continues, FlagsOK
  <2> QED
    BY <1>1, <2>2, AnswerKeeps
<1> QED
  BY <1>2, <1>3 DEF BanListMsg

LEMMA BBR2Keeps == ASSUME PagesInv, BBR2Msg PROVE PagesInv'
<1>1. "BBR2" \in Commands \ InstallSteps /\ Answer("BBR2", {}) /\ UNCHANGED flags
  BY DEF Commands, InstallSteps, Chain, BBR2Msg
<1>2. PageOK' /\ (view' = view)
  <2>1. CASE Stay
    BY <2>1, StayKeeps, InvIs DEF Stay
  <2>2. CASE Move(view, pending \cup {"kernel"})
    <3>1. /\ view \in Views /\ pending \cup {"kernel"} \in SUBSET Questions
          /\ Exits(view, pending \cup {"kernel"})
      BY InvIs, QuestionsAre DEF PageOK, Exits, ExitAlone
    <3> QED
      BY <2>2, <3>1, MoveKeeps, InvIs DEF Move
  <2> QED
    BY <2>1, <2>2 DEF BBR2Msg
<1>3. FlagsOK' /\ Continues("BBR2", {})
  BY <1>1, <1>2, FlagsStay DEF Answer, Continues, flags
<1> QED
  BY <1>1, <1>2, <1>3, AnswerKeeps

LEMMA NodeParamsDataKeeps == ASSUME PagesInv, NodeParamsDataMsg PROVE PagesInv'
<1>1. "NodeParams" \in Commands \ InstallSteps
  BY DEF Commands, InstallSteps, Chain
<1>2. PageOK' /\ FlagsOK' /\ Continues("NodeParams", {})
  BY <1>1, StayKeeps, InvIs DEF NodeParamsDataMsg, Answer, Stay, FlagsOK, Continues
<1> QED
  BY <1>1, <1>2, AnswerKeeps DEF NodeParamsDataMsg

LEMMA UninstallCompleteKeeps == ASSUME PagesInv, UninstallCompleteMsg PROVE PagesInv'
<1>1. "Uninstalled" \in Commands /\ Answer("Uninstalled", {}) /\ UNCHANGED flags
      /\ Move("UninstallProgress", pending)
  BY DEF Commands, UninstallCompleteMsg
<1>2. /\ "UninstallProgress" \in Views /\ "UninstallProgress" \notin {"InstallProgress", "Uninstall"}
      /\ pending \in SUBSET Questions /\ Exits("UninstallProgress", pending)
  BY InvIs DEF PageOK, Views, Exits, ExitAlone, ExitPages
<1>3. PageOK' /\ FlagsOK' /\ Continues("Uninstalled", {})
  BY <1>1, <1>2, MoveKeeps, InvIs, FlagsStay DEF Answer, Move, Continues
<1> QED
  BY <1>1, <1>3, AnswerKeeps

LEMMA RouteMessageKeeps == ASSUME PagesInv, RouteMessage PROVE PagesInv'
BY LeadKeep, ConfigLoadedKeeps, ConfigUpdateKeeps, UUIDGeneratedKeeps, CoreInstallKeeps,
   InstallResultKeeps, BanListKeeps, BBR2Keeps, NodeParamsDataKeeps, UninstallCompleteKeeps
DEF RouteMessage

-----------------------------------------------------------------------------
(* The theorems.                                                           *)

LEMMA PagesInvStep == PagesInv /\ [PagesNext]_pageVars => PagesInv'
<1>1. ASSUME PagesInv, UNCHANGED pageVars PROVE PagesInv'
  BY <1>1 DEF pageVars, flags, PagesInv, PagesTypeOK, LeftBehind, Placed, ExitAlone, Installing,
     GoesOn, OnlyChain
<1> QED
  BY <1>1, SubmitKeeps, EscapeKeeps, QuitKeeps, RouteMessageKeeps DEF PagesNext

LEMMA PagesInvHolds == PagesSpec => []PagesInv
BY PagesInvInit, PagesInvStep, PTL DEF PagesSpec

\* The page, its questions and the commands in flight keep to their types, in
\* whatever order answers arrive (tui/model/router.go).
THEOREM PagesTypeCorrect == PagesSpec => []PagesTypeOK
<1>1. PagesInv => PagesTypeOK
  BY DEF PagesInv
<1> QED
  BY <1>1, PagesInvHolds, PTL

\* A question whose page was left by a key is not asked when the page is opened
\* again: of what Esc leaves behind, only the fields of routing are found again,
\* for the page of the removal takes its question back when it opens
\* (key_handler.go:1771).
THEOREM QuestionsAreFresh == PagesSpec => []FreshQuestions
<1>1. PagesInv => FreshQuestions
  BY PagesOfEach DEF PagesInv, LeftBehind, FreshQuestions
<1> QED
  BY <1>1, PagesInvHolds, PTL

\* While the installation is shown and not at its end, one of its steps is under
\* way; begun alone it has only that one, and when it is at its end none
\* (router.go:224).
THEOREM InstallationGoesOn == PagesSpec => []InstallationIsOne
<1>1. ASSUME PagesInv, view = "InstallProgress"
      PROVE  finished \/ \E c \in Chain \cup {"ConfigSaved"} : flight[c] > 0
  BY <1>1 DEF PagesInv, Installing, GoesOn, InstallSteps
<1>2. ASSUME PagesInv, view = "InstallProgress", alone
      PROVE  finished = (flight = Nothing)
  <2>1. finished \in BOOLEAN
    BY <1>2, InvIs DEF FlagsOK
  <2>2. ASSUME NEW c \in Chain PROVE Solo(c) # Nothing
    BY ChainIs DEF Solo, Nothing
  <2> QED
    BY <1>2, <2>1, <2>2 DEF PagesInv, Installing, OnlyChain
<1>3. PagesInv => InstallationIsOne
  BY <1>1, <1>2 DEF InstallationIsOne
<1> QED
  BY <1>3, PagesInvHolds, PTL

-----------------------------------------------------------------------------
(* The way out.                                                            *)

LEMMA QuestionsAreFinite == IsFiniteSet(Questions)
<1>1. ASSUME NEW S, IsFiniteSet(S), NEW a, NEW b, NEW c, NEW d
      PROVE  IsFiniteSet(S \cup {a, b, c, d})
  <2>1. IsFiniteSet(((( S \cup {a}) \cup {b}) \cup {c}) \cup {d})
    BY <1>1, FS_AddElement
  <2>2. S \cup {a, b, c, d} = ((((S \cup {a}) \cup {b}) \cup {c}) \cup {d})
    OBVIOUS
  <2> QED
    BY <2>1, <2>2
<1> DEFINE A == {} \cup {"exit", "reset", "port", "hop"}
           B == A \cup {"domain", "id", "secret", "delete"}
           C == B \cup {"route", "choose", "restore", "unban"}
           D == C \cup {"retry", "bantime", "kernel", "uninstall"}
<1>2. IsFiniteSet(A)
  BY <1>1, FS_EmptySet
<1>3. IsFiniteSet(B)
  BY <1>1, <1>2
<1>4. IsFiniteSet(C)
  BY <1>1, <1>3
<1>5. IsFiniteSet(D)
  BY <1>1, <1>4
<1>6. D = Questions
  BY QuestionsAre
<1> QED
  BY <1>5, <1>6

\* What is given up, and nothing asked instead.
LEMMA DropDescends ==
  ASSUME PagesInv, NEW qs, pending \cap qs # {}, pending' = pending \ qs
  PROVE  Missing' < Missing
<1>1. IsFiniteSet(pending) /\ pending' \in SUBSET pending /\ pending' # pending
  BY InvIs, QuestionsAreFinite, FS_Subset DEF PageOK
<1>2. /\ Cardinality(pending) \in Nat /\ Cardinality(pending') \in Nat
      /\ Cardinality(pending') < Cardinality(pending)
  BY <1>1, FS_Subset, FS_CardinalityType
<1> QED
  BY <1>1, <1>2 DEF Missing

LEMMA IdDescends ==
  ASSUME PagesInv, "secret" \in pending,
         pending' = (pending \ (GivenUp \cup {"secret"})) \cup {"id"}
  PROVE  Missing' < Missing
<1> DEFINE rest == pending \ (GivenUp \cup {"secret"})
<1>1. IsFiniteSet(pending) /\ rest \in SUBSET pending /\ rest # pending
  BY InvIs, QuestionsAreFinite, FS_Subset DEF PageOK
<1>2. /\ Cardinality(pending) \in Nat /\ Cardinality(rest) \in Nat /\ IsFiniteSet(rest)
      /\ Cardinality(rest) < Cardinality(pending)
  BY <1>1, FS_Subset, FS_CardinalityType
<1>3. Cardinality(pending') \in Nat /\ Cardinality(pending') <= Cardinality(rest) + 1
  <2>1. pending' = rest \cup {"id"}
    OBVIOUS
  <2> HIDE DEF rest
  <2>2. /\ IsFiniteSet(rest \cup {"id"})
        /\ Cardinality(rest \cup {"id"}) = IF "id" \in rest THEN Cardinality(rest) ELSE Cardinality(rest) + 1
    BY <1>2, FS_AddElement
  <2> QED
    BY <1>2, <2>1, <2>2
<1> QED
  BY <1>2, <1>3 DEF Missing

LEMMA BackDescends ==
  ASSUME NEW u \in Views \ {"MainMenu", "InstallProgress", "Closed", "LogViewer"}, NEW v \in Back(u)
  PROVE  Depth(v) < Depth(u)
BY DEF Back, Depth, Views, Menus, CertPages, ConfigPages, RoutePages, Socks5Pages, CorePages,
   ToolPages, NodePages

\* Esc takes back a question or leads up: the main menu is a few keys away
\* (key_handler.go:1771-1860, handleInputEscape).
THEOREM EscapeLeadsOut == PagesSpec => EscapeDescends
<1> DEFINE Descent == \/ view = "MainMenu"
                      \/ view = "ConfigMenu" /\ unsaved
                      \/ view' = view /\ Missing' < Missing
                      \/ Depth(view') < Depth(view) /\ pending' \subseteq pending
<1>1. ASSUME PagesInv, Escape PROVE Descent
  <2>1. CASE view = "ProtocolLinks" /\ params
    <3>1. view' = "ClientConfig" /\ pending' = pending
      BY <1>1, <2>1 DEF Escape, Show
    <3> QED
      BY <2>1, <3>1 DEF Depth, Socks5Pages, CertPages, ConfigPages, RoutePages, CorePages, ToolPages
  <2>2. ASSUME NEW qs, pending \cap qs # {}, Drop(qs) PROVE Descent
    BY <1>1, <2>2, DropDescends DEF Drop, Show
  <2>3. ASSUME NEW qs, pending \cap qs # {}, EscapeFrom(qs) PROVE Descent
    BY <2>2, <2>3 DEF EscapeFrom
  <2>4. ASSUME "secret" \in pending,
               Show(view, (pending \ (GivenUp \cup {"secret"})) \cup {"id"})
        PROVE  Descent
    BY <1>1, <2>4, IdDescends DEF Show
  <2>5. ASSUME EscapePage, view # "MainMenu" PROVE Descent
    <3>1. view \in Views \ {"MainMenu", "InstallProgress", "Closed"}
      BY <1>1, <2>5, InvIs DEF PageOK, Escape
    <3>2. CASE view = "LogViewer"
      <4>1. view' \in {"Fail2BanMenu", "LogMenu"} /\ pending' \subseteq pending
        BY <2>5, <3>2 DEF EscapePage, Show
      <4> QED
        BY <3>2, <4>1 DEF Depth, Socks5Pages, CertPages, ConfigPages, RoutePages, CorePages, ToolPages
    <3>3. CASE view # "LogViewer"
      <4>1. view' \in Back(view) /\ pending' \subseteq pending
        BY <2>5, <3>3 DEF EscapePage, Show
      <4> QED
        BY <3>1, <3>3, <4>1, BackDescends
    <3> QED
      BY <3>2, <3>3
  <2> HIDE DEF Descent
  <2>6. CASE EscapeQuestion
    BY <2>2, <2>3, <2>4, <2>5, <2>6, EscapeCases DEF Descent
  <2> QED
    BY <1>1, <2>1, <2>6 DEF Escape
<1>2. PagesInv /\ [PagesNext]_pageVars => [Escape => Descent]_pageVars
  BY <1>1
<1> QED
  BY <1>2, PagesInvHolds, PTL DEF PagesSpec, EscapeDescends

=============================================================================
