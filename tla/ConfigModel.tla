------------------------------ MODULE ConfigModel ------------------------------
(***************************************************************************)
(* The configuration and the edits that are made of it: the port and       *)
(* protocol services (application/port_service.go, protocol_service.go),   *)
(* the names, the UUID and the routing that the interface edits            *)
(* (tui/handlers), the certificate mode (application/cert_service.go), the *)
(* defaults and the migration (domain/config).  Module SingboxConfig says  *)
(* what is made of it; modules ConfigStore and EditSession say when an     *)
(* edit is made, saved or lost, here each is made and kept.                *)
(***************************************************************************)
EXTENDS SingboxConfig, FiniteSets

CONSTANTS
  Uuids,        \* UUIDs that are drawn or typed
  Domains,      \* names that are typed, and for which certificates are asked
  Draws,        \* ports that a series of seven random draws may yield
  Obfuscations, \* obfuscations of Hysteria 2, which only a file brings
  Typed,        \* port numbers that are typed
  Hops,         \* ranges that are typed
  MaxEdits      \* bound: edits

ASSUME ConfigConstants ==
  /\ Blank \notin Uuids /\ Uuids # {}
  /\ Blank \notin Domains /\ "self_signed" \notin Domains
  /\ \A draw \in Draws :
       /\ draw \in [AllIDs -> Nat]
       /\ \A i \in AllIDs : 10000 <= draw[i] /\ draw[i] <= 65535
  /\ Blank \in Obfuscations
  /\ Typed \subseteq Nat /\ Hops \subseteq Nat \X Nat
  /\ MaxEdits \in Nat

VARIABLES
  cfg,      \* the configuration
  certs,    \* the domains that have a certificate
  edits,    \* edits made
  broken,   \* the protocols that still have the port of an old file
  single    \* the protocols whose port was chosen for itself, since the last reset

modelVars == <<cfg, certs, edits, broken, single>>

Names == Domains \cup {Bing, Microsoft}
FileNames == Names \cup {Blank, "not a name"}
Listed == {"warp", "ipv6"}                                \* routing that is generated
Unheeded == {"socks5", "dns_and_sni", "all_traffic"}      \* routing that is not

ProtocolConfig ==
  [on : BOOLEAN, port : Nat, sni : FileNames,
   mode : {"self_signed", "acme"}, domain : Domains \cup {Blank}]

ConfigTypeOK ==
  /\ cfg \in [version : 1 .. 2, uuid : Uuids \cup {Blank}, tuicUUID : Uuids \cup {Blank},
              proto : [AllIDs -> ProtocolConfig],
              obfs : Obfuscations, hop : {<<>>} \cup (Nat \X Nat),
              warp : [on : BOOLEAN, domains : SUBSET Domains],
              ipv6 : [on : BOOLEAN, domains : SUBSET Domains],
              other : SUBSET Unheeded]
  /\ certs \subseteq Domains
  /\ edits \in Nat
  /\ broken \subseteq AllIDs /\ single \subseteq AllIDs

\* The certificate modes that the rest relies on: in ACME mode the name of a
\* protocol is the domain of its certificate.
AcmeNames ==
  \A i \in AllIDs : cfg.proto[i].mode = "acme" =>
    /\ i \in CertIDs
    /\ cfg.proto[i].domain # Blank
    /\ cfg.proto[i].sni = cfg.proto[i].domain

-----------------------------------------------------------------------------
(* Initial configurations.                                                 *)

NewConfig(u, draw) ==
  [version |-> 2, uuid |-> u, tuicUUID |-> Blank,
   proto |-> [i \in AllIDs |->
     [on |-> i \in {"reality_vision", "hysteria2", "tuic"},
      port |-> draw[i],
      sni |-> IF i \in CertIDs THEN Bing ELSE Microsoft,
      mode |-> "self_signed", domain |-> Blank]],
   obfs |-> Blank, hop |-> <<>>,
   warp |-> [on |-> FALSE, domains |-> {}],
   ipv6 |-> [on |-> FALSE, domains |-> {}],
   other |-> {}]

\* DefaultConfig: every port is drawn for itself, of 10000 to 65535.
DefaultConfig ==
  \E u \in Uuids, draw \in Draws : cfg = NewConfig(u, draw) /\ broken = {}

\* A file of version 1, with what the migration is there to repair: no UUID, a
\* name that is none, and ports that now are out of range.
OutOfRange == {"reality_vision", "shadowtls"}

OldProto(P) ==
  [i \in AllIDs |-> [P[i] EXCEPT
     !.sni = IF i = "reality_vision" THEN "not a name" ELSE @,
     !.port = IF i \in OutOfRange THEN 443 ELSE @]]

OldFile ==
  \E draw \in Draws, o \in Obfuscations :
    /\ cfg = [NewConfig(Blank, draw) EXCEPT !.version = 1, !.obfs = o, !.proto = OldProto(@)]
    /\ broken = OutOfRange

ConfigInit ==
  /\ DefaultConfig \/ OldFile
  /\ certs \in {{}, Domains} /\ edits = 0
  /\ single = AllIDs

-----------------------------------------------------------------------------
Edit ==
  /\ edits < MaxEdits
  /\ edits' = edits + 1

EditProto(i, p) ==
  /\ Edit
  /\ cfg' = [cfg EXCEPT !.proto[i] = p]
  /\ UNCHANGED certs

(* Protocols and ports.                                                    *)

\* ToggleProtocolsFromInput and UpdateConfigWithEnabledProtocols: the protocols
\* that were typed change their state.  The interface toggles one at a time.
ToggleProtocol(i) ==
  /\ EditProto(i, [cfg.proto[i] EXCEPT !.on = ~@])
  /\ UNCHANGED <<broken, single>>

\* Slip: a port is not remembered as used.
ResetPortsBlindly(draw) ==
  /\ Edit
  /\ cfg' = [cfg EXCEPT !.hop = <<>>,
       !.proto = [i \in AllIDs |-> [@[i] EXCEPT !.port = draw[i]]]]
  /\ broken' = {} /\ single' = {}
  /\ UNCHANGED certs

\* Ports are drawn of 10000 to 59999 until one is free, so that what is kept has no
\* two alike.
ResetAllPorts(draw) ==
  /\ Edit
  /\ IsInjective(draw) /\ \A i \in AllIDs : draw[i] <= 59999
  /\ cfg' = [cfg EXCEPT !.hop = <<>>,
       !.proto = [i \in AllIDs |-> [@[i] EXCEPT !.port = draw[i]]]]
  /\ broken' = {} /\ single' = {}
  /\ UNCHANGED certs

\* Slip: any number is a port.
UpdateSinglePortUnchecked(i, n) ==
  /\ EditProto(i, [cfg.proto[i] EXCEPT !.port = n])
  /\ broken' = broken \ {i} /\ single' = single \cup {i}

\* A number that was typed, or one that is drawn.
UpdateSinglePort(i, n) ==
  /\ ValidPort(n)
  /\ EditProto(i, [cfg.proto[i] EXCEPT !.port = n])
  /\ broken' = broken \ {i} /\ single' = single \cup {i}

UpdateHy2Hopping(h) ==
  /\ Edit
  /\ h[1] >= 1024 /\ h[2] <= 65535 /\ h[2] > h[1]
  /\ cfg' = [cfg EXCEPT !.hop = h]
  /\ UNCHANGED <<certs, broken, single>>

ClearHy2Hopping ==
  /\ Edit
  /\ cfg' = [cfg EXCEPT !.hop = <<>>]
  /\ UNCHANGED <<certs, broken, single>>

-----------------------------------------------------------------------------
(* Names, UUIDs and certificates.                                          *)

\* submitSNIEdit: the sites that are borrowed.
EditSNI(d) ==
  /\ Edit
  /\ cfg' = [cfg EXCEPT !.proto = [i \in AllIDs |->
               IF i \in Fronted THEN [@[i] EXCEPT !.sni = d] ELSE @[i]]]
  /\ UNCHANGED <<certs, broken, single>>

\* submitUUIDEdit, and the UUIDGeneratedMsg that answers GenerateUUIDCmd.
EditUUID(u) ==
  /\ Edit
  /\ cfg' = [cfg EXCEPT !.uuid = u]
  /\ UNCHANGED <<certs, broken, single>>

\* RequestACMEHTTP saves a certificate and leaves the configuration as it is.
RequestACMEHTTP(d) ==
  /\ Edit
  /\ certs' = certs \cup {d}
  /\ UNCHANGED <<cfg, broken, single>>

\* RequestACMEDNS then has updateCertMode turn to it the protocols that are on and
\* have its name.
RequestACMEDNS(d) ==
  /\ Edit
  /\ certs' = certs \cup {d}
  /\ cfg' = [cfg EXCEPT !.proto = [i \in AllIDs |->
               IF i \in CertIDs /\ @[i].on /\ @[i].sni = d
                 THEN [@[i] EXCEPT !.mode = "acme", !.domain = d] ELSE @[i]]]
  /\ UNCHANGED <<broken, single>>

\* DeleteCertificate does not look at the configuration.
DeleteCertificate(d) ==
  /\ Edit /\ d \in certs
  /\ certs' = certs \ {d}
  /\ UNCHANGED <<cfg, broken, single>>

\* Slip: the name is left as it was.
ToggleCertModeOnly(i) ==
  /\ i \in CertIDs /\ cfg.proto[i].on
  /\ UNCHANGED <<broken, single>>
  /\ \/ /\ cfg.proto[i].mode = "acme"
        /\ EditProto(i, [cfg.proto[i] EXCEPT !.mode = "self_signed", !.domain = Blank])
     \/ /\ cfg.proto[i].mode # "acme"
        /\ \E d \in certs : EditProto(i, [cfg.proto[i] EXCEPT !.mode = "acme", !.domain = d])

\* ToggleProtocolCertMode: the certificate of the protocol's name if there is
\* one, the first of the list otherwise.
ToggleCertMode(i) ==
  /\ i \in CertIDs /\ cfg.proto[i].on
  /\ UNCHANGED <<broken, single>>
  /\ \/ /\ cfg.proto[i].mode = "acme"
        /\ EditProto(i, [cfg.proto[i] EXCEPT !.mode = "self_signed", !.domain = Blank,
                                             !.sni = Bing])
     \/ /\ cfg.proto[i].mode # "acme"
        /\ \E d \in certs :
             /\ cfg.proto[i].sni \in certs => d = cfg.proto[i].sni
             /\ EditProto(i, [cfg.proto[i] EXCEPT !.mode = "acme", !.domain = d, !.sni = d])

-----------------------------------------------------------------------------
(* Routing.                                                                *)

\* SetWARPStateCmd, ToggleIPv6RoutingCmd.
SwitchRoute(r, b) ==
  /\ Edit
  /\ cfg' = [cfg EXCEPT ![r].on = b]
  /\ UNCHANGED <<certs, broken, single>>

\* AddRoutingDomainCmd refuses a domain twice.
AddRoutingDomain(r, d) ==
  /\ Edit
  /\ d \notin cfg[r].domains
  /\ cfg' = [cfg EXCEPT ![r].domains = @ \cup {d}]
  /\ UNCHANGED <<certs, broken, single>>

\* The settings that are kept in the file and that no generator reads.
SwitchUnheeded(r) ==
  /\ Edit
  /\ cfg' = [cfg EXCEPT !.other = IF r \in @ THEN @ \ {r} ELSE @ \cup {r}]
  /\ UNCHANGED <<certs, broken, single>>

\* The SOCKS5 inbound and outbound; DNS and SNI routing; "all traffic".
SwitchSocks5 == SwitchUnheeded("socks5")
SwitchDNSAndSNI == SwitchUnheeded("dns_and_sni")
SwitchGlobal == SwitchUnheeded("all_traffic")

-----------------------------------------------------------------------------
(* Files.                                                                  *)

\* FillDefaults, on every save: of what is modelled, the UUID of TUIC.
FillDefaults ==
  /\ Edit
  /\ cfg' = [cfg EXCEPT !.tuicUUID = IF @ = Blank THEN cfg.uuid ELSE @]
  /\ UNCHANGED <<certs, broken, single>>

\* Slip: the version is not asked for.
MigrateAnyVersion ==
  /\ Edit
  /\ cfg' = [cfg EXCEPT !.version = @ + 1]
  /\ UNCHANGED <<certs, broken, single>>

\* MigrateToLatest: an old file gets a UUID if it has none, a name for one that
\* is none, and 0 for a port that is out of range.
MigrateProto(P) ==
  [i \in AllIDs |-> [P[i] EXCEPT
     !.sni = IF i \in Fronted /\ @ = "not a name" THEN Microsoft ELSE @,
     !.port = IF ValidPort(@) THEN @ ELSE 0]]

MigrateV1ToV2 ==
  /\ Edit
  /\ cfg.version = 1
  /\ \E u \in Uuids :
       cfg' = [cfg EXCEPT !.version = 2, !.uuid = IF @ = Blank THEN u ELSE @,
                          !.proto = MigrateProto(@)]
  /\ UNCHANGED <<certs, broken, single>>

ConfigNext ==
  \/ \E i \in AllIDs : ToggleProtocol(i) \/ ToggleCertMode(i)
  \/ \E draw \in Draws : ResetAllPorts(draw)
  \/ \E i \in AllIDs, n \in Typed : UpdateSinglePort(i, n)
  \/ \E h \in Hops : UpdateHy2Hopping(h)
  \/ ClearHy2Hopping
  \/ \E d \in Domains :
       EditSNI(d) \/ RequestACMEHTTP(d) \/ RequestACMEDNS(d) \/ DeleteCertificate(d)
  \/ \E u \in Uuids : EditUUID(u)
  \/ \E r \in Listed, b \in BOOLEAN : SwitchRoute(r, b)
  \/ \E r \in Listed, d \in Domains : AddRoutingDomain(r, d)
  \/ SwitchSocks5 \/ SwitchDNSAndSNI \/ SwitchGlobal
  \/ FillDefaults \/ MigrateV1ToV2

ConfigSpec == ConfigInit /\ [][ConfigNext]_modelVars

-----------------------------------------------------------------------------
(* Properties.                                                             *)

\* A protocol that is switched on is served, but for one that still has the
\* port of an old file, TUIC as long as there is no UUID, and ShadowTLS on the
\* port of the inbound behind it (factory.go:255, which generate_impl.go:117
\* only logs).
EnabledIsServed ==
  \A i \in AllIDs : cfg.proto[i].on =>
    \/ i \in Served(cfg)
    \/ i \in broken
    \/ i = "tuic" /\ cfg.uuid = Blank
    \/ i = "shadowtls" /\ cfg.proto[i].port = DetourPort

\* What the clients that are told cannot do, each because two places disagree:
\* the link of AnyTLS has the UUID where the server wants the password
\* (command_builder.go:3286, factory.go:212); only the link of Hysteria 2 and
\* the files for Clash let a client do without a trusted certificate
\* (command_builder.go:3273, hysteria2.go:109); the page shows the UUID that
\* TUIC was saved with (node_params.go:152, factory.go:179) and, like the link,
\* the own name of AnyTLS Reality, which only a migration can set apart; the link
\* of Hysteria 2 has no obfuscation (command_builder.go:3261, hysteria2.go:140);
\* and the file for Clash has AnyTLS speak HTTP (clash/client_generator.go:196,
\* anytls.go:98).
LinkFails(i) ==
  \/ i \in {"anytls", "anytls_reality"}
  \/ i = "hysteria2" /\ cfg.obfs # Blank
  \/ i = "tuic" /\ cfg.proto[i].mode = "self_signed"

PageFails(i) ==
  \/ i = "tuic" /\ cfg.tuicUUID \notin {Blank, cfg.uuid}
  \/ i = "anytls_reality" /\ cfg.proto[i].sni # cfg.proto["reality_vision"].sni

FileFails(i) == i \in CertIDs /\ cfg.proto[i].mode = "self_signed"

\* For AnyTLS Reality there is no proxy.
ClashFails(i) == i \in {"anytls", "anytls_reality"}

\* sing-box refuses a file that names a certificate that has been deleted.
CertificatesThere == \A i \in CertIDs : cfg.proto[i].on /\ Acme(cfg, i) => CertPath(cfg, i) \in certs

\* Every client that is told of a protocol that is served reaches it, whatever
\* edits came before, but for the cases above.
ClientsReachTheServer ==
  CertificatesThere =>
  \A i \in Served(cfg) :
    /\ Reaches(cfg, i, ProtocolLinks(cfg)[i]) \/ LinkFails(i)
    /\ Reaches(cfg, i, NodeParams(cfg)[i]) \/ PageFails(i)
    /\ Reaches(cfg, i, ClientOutbounds(cfg)[i]) \/ FileFails(i)
    /\ ~ClashFails(i) => Reaches(cfg, i, ClashProxies(cfg)[i])

\* Nothing in the files for the server and for the sing-box client refers to a
\* tag that is not there, whichever core they are made for
\* (generator_impl.go:265-297, pkg/singbox/client_generator.go:64-91).
EveryTagIsThere ==
  /\ \A legacy \in BOOLEAN :
       /\ RouteTargets(cfg, legacy) \subseteq Outbounds(cfg, legacy)
       /\ DomainResolver(cfg, legacy) \subseteq DNSServers(cfg)
  /\ InboundDetours(cfg) \subseteq InboundTags(cfg)
  /\ ClientTargets(cfg) \subseteq ClientTags(cfg)

\* Two protocols have the same port only if one of the two ports was chosen for
\* itself: typed or drawn alone (port_service.go:125), drawn with the first
\* configuration, or taken from an old file.  A reset parts them all (:60).
OnlySinglePortsClash ==
  \A i, j \in AllIDs :
    i # j /\ cfg.proto[i].port = cfg.proto[j].port => i \in single \/ j \in single

=============================================================================
