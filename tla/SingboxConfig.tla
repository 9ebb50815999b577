----------------------------- MODULE SingboxConfig -----------------------------
(***************************************************************************)
(* What prism makes of its configuration, as operators on the              *)
(* configuration c: the sing-box server configuration                      *)
(* (domain/protocol, domain/singbox/generator_impl.go), the ports that the *)
(* firewall opens for it (application/singbox_service.go), and the four    *)
(* descriptions of the server that are handed to clients: share links,     *)
(* the page of node parameters, and the files for Clash and sing-box.      *)
(*                                                                         *)
(* Kept of the data are what is spoken, ports, names, secrets, the         *)
(* obfuscation of Hysteria 2, certificates and tags.  The password is one  *)
(* for all protocols and never changes; the Reality keys neither.  They    *)
(* are left out where no two places could disagree on them.  A password,   *)
(* user name or ALPN of a protocol's own, which only the page of node      *)
(* parameters reads (node_params.go:113-201) and no edit of prism's sets   *)
(* to anything but the one for all, is left out too.                       *)
(***************************************************************************)
EXTENDS Naturals, Sequences, SequencesExt

Blank == ""
Bing == "www.bing.com"
Microsoft == "www.microsoft.com"
Password == "password"

\* The protocols, in the order of FromConfig.
ProtocolOrder == <<"reality_vision", "reality_grpc", "hysteria2", "tuic", "anytls",
                   "anytls_reality", "shadowtls">>

AllIDs == {"reality_vision", "reality_grpc", "hysteria2", "tuic", "anytls",
           "anytls_reality", "shadowtls"}

CertIDs == {"hysteria2", "tuic", "anytls"}              \* those with a certificate
Fronted == AllIDs \ CertIDs                             \* those that borrow a site's
DetourPort == 10000                                     \* FromConfig: not configurable

ValidPort(n) == 1024 <= n /\ n <= 65535
ValidHop(h) == h = <<>> \/ (ValidPort(h[1]) /\ ValidPort(h[2]) /\ h[1] < h[2])

-----------------------------------------------------------------------------
(* The protocols that the factory makes of a configuration.                *)

Acme(c, i) == c.proto[i].mode = "acme" /\ c.proto[i].domain # Blank

\* The first domain with a certificate, or a site that has one.
TLSDomain(c) ==
  LET with == SelectSeq(<<"hysteria2", "tuic", "anytls">>, LAMBDA i : Acme(c, i)) IN
  IF with = <<>> THEN Bing ELSE c.proto[Head(with)].domain

SNI(c, i) ==
  IF Acme(c, i) THEN c.proto[i].domain
  ELSE IF c.proto[i].sni # Blank THEN c.proto[i].sni ELSE TLSDomain(c)

CertPath(c, i) == IF Acme(c, i) THEN c.proto[i].domain ELSE "self_signed"

\* What a client of protocol i has to speak, and behind which obfuscation.
Spoken(i) ==
  CASE i = "reality_vision" -> "vless"
    [] i = "reality_grpc" -> "vless over grpc"
    [] i = "shadowtls" -> "shadowsocks over shadowtls"
    [] i \in {"anytls", "anytls_reality"} -> "anytls"
    [] OTHER -> i

Obfs(c, i) == IF i = "hysteria2" THEN c.obfs ELSE Blank

\* A protocol as the factory makes it: what its inbound asks of a client, the name
\* that a client is to ask for, the certificate or the site that the inbound
\* shows, and whether it is valid.
Made(c, i, secret, sni, shows, valid) ==
  [type |-> Spoken(i), obfs |-> Obfs(c, i), port |-> c.proto[i].port, secret |-> secret,
   sni |-> sni, shows |-> shows, valid |-> ValidPort(c.proto[i].port) /\ valid]

RealityVision(c) ==
  LET p == c.proto["reality_vision"] IN
  Made(c, "reality_vision", <<c.uuid>>, p.sni, p.sni, p.sni # Blank)

RealityGRPC(c) ==
  LET p == c.proto["reality_grpc"] IN
  Made(c, "reality_grpc", <<c.uuid>>, p.sni, p.sni, p.sni # Blank)

Hysteria2(c) ==
  Made(c, "hysteria2", <<Password>>, SNI(c, "hysteria2"), CertPath(c, "hysteria2"),
       ValidHop(c.hop))

TUIC(c) ==
  Made(c, "tuic", <<c.uuid, Password>>, SNI(c, "tuic"), CertPath(c, "tuic"),
       c.uuid # Blank /\ SNI(c, "tuic") # Blank)

AnyTLS(c) ==
  Made(c, "anytls", <<Password>>, SNI(c, "anytls"), CertPath(c, "anytls"),
       SNI(c, "anytls") # Blank)

\* It borrows the site of Reality Vision.
AnyTLSReality(c) ==
  LET sni == c.proto["reality_vision"].sni IN
  Made(c, "anytls_reality", <<Password>>, sni, sni, sni # Blank)

ShadowTLS(c) ==
  LET p == c.proto["shadowtls"] IN
  Made(c, "shadowtls", <<Password, Password>>, p.sni, p.sni, p.sni # Blank /\ p.port # DetourPort)

FromConfig(c) ==
  [i \in {j \in AllIDs : c.proto[j].on} |->
     CASE i = "reality_vision" -> RealityVision(c)
       [] i = "reality_grpc" -> RealityGRPC(c)
       [] i = "hysteria2" -> Hysteria2(c)
       [] i = "tuic" -> TUIC(c)
       [] i = "anytls" -> AnyTLS(c)
       [] i = "anytls_reality" -> AnyTLSReality(c)
       [] i = "shadowtls" -> ShadowTLS(c)]

-----------------------------------------------------------------------------
(* The server.                                                             *)

Served(c) == {i \in DOMAIN FromConfig(c) : FromConfig(c)[i].valid}

\* "reality-vision-in" and so on, and the inbound behind ShadowTLS, which is
\* there even when the one in front of it is not.
InboundTags(c) ==
  Served(c) \cup (IF c.proto["shadowtls"].on THEN {"shadowtls-ss-in"} ELSE {})

InboundDetours(c) == IF "shadowtls" \in Served(c) THEN {"shadowtls-ss-in"} ELSE {}

ListenPort(c, t) == IF t = "shadowtls-ss-in" THEN DetourPort ELSE c.proto[t].port

\* extractPorts: what the firewall opens, as pairs of a port and a transport.
Transports(t) ==
  IF t \in {"hysteria2", "tuic", "shadowtls", "reality_grpc"} THEN {"tcp", "udp"} ELSE {"tcp"}

ExtractPorts(c) ==
  UNION {{ListenPort(c, t)} \X Transports(t) : t \in InboundTags(c)}

\* Whether a name must be resolved for the routing of domains.
NeedDNS(c) ==
  \/ c.warp.on /\ c.warp.domains # {}
  \/ c.ipv6.on /\ c.ipv6.domains # {}

DNSServers(c) == IF NeedDNS(c) THEN {"dns_google", "dns_local"} ELSE {}

\* "legacy" is what the generator takes the core for.
Outbounds(c, legacy) ==
  {"direct"} \cup (IF legacy THEN {"block", "dns-out"} ELSE {})
             \cup (IF c.ipv6.on THEN {"ipv6-out"} ELSE {})
             \cup (IF c.warp.on THEN {"warp-out"} ELSE {})

\* Slip: the outbound of a rule is named without asking whether it is on.
RouteToWhatIsListed(c, legacy) ==
  {"direct"} \cup (IF NeedDNS(c) /\ legacy THEN {"dns-out"} ELSE {})
             \cup (IF c.warp.domains # {} THEN {"warp-out"} ELSE {})
             \cup (IF c.ipv6.domains # {} THEN {"ipv6-out"} ELSE {})

\* The outbounds that the rules, and the default, name.
RouteTargets(c, legacy) ==
  {"direct"} \cup (IF NeedDNS(c) /\ legacy THEN {"dns-out"} ELSE {})
             \cup (IF c.warp.on /\ c.warp.domains # {} THEN {"warp-out"} ELSE {})
             \cup (IF c.ipv6.on /\ c.ipv6.domains # {} THEN {"ipv6-out"} ELSE {})

DomainResolver(c, legacy) == IF NeedDNS(c) /\ ~legacy THEN {"dns_google"} ELSE {}

-----------------------------------------------------------------------------
(* What clients are told: what to speak, an obfuscation, a port, a secret, *)
(* a name for the TLS handshake, and whether to do without a trusted       *)
(* certificate.                                                            *)

Told(type, obfs, port, secret, sni, insecure) ==
  [type |-> type, obfs |-> obfs, port |-> port, secret |-> secret, sni |-> sni,
   insecure |-> insecure]

\* GenerateProtocolLinksCmd: the name is the protocol's own, also in ACME mode, and
\* there is no obfuscation.
ProtocolLinks(c) ==
  LET ps == FromConfig(c) IN
  [i \in DOMAIN ps |->
     Told(Spoken(i), Blank, c.proto[i].port,
          IF i \in {"anytls", "anytls_reality"} THEN <<c.uuid>> ELSE ps[i].secret,
          c.proto[i].sni,
          i = "hysteria2")]

\* RenderNodeParams: the UUID of TUIC is the protocol's own when it has one.
NodeParams(c) ==
  LET ps == FromConfig(c) IN
  [i \in DOMAIN ps |->
     Told(Spoken(i), Obfs(c, i), c.proto[i].port,
          IF i = "tuic" /\ c.tuicUUID # Blank THEN <<c.tuicUUID, Password>> ELSE ps[i].secret,
          c.proto[i].sni,
          i \in CertIDs /\ c.proto[i].mode = "self_signed")]

\* protocolToClashProxy: AnyTLS is taken for HTTP/2.
ClashProxy(c, i) ==
  LET p == FromConfig(c)[i] IN
  Told(IF i = "anytls" THEN "http" ELSE p.type, p.obfs, p.port, p.secret, p.sni, i \in CertIDs)

\* GenerateClientConfig leaves out AnyTLS Reality, for which there is no case, and
\* does not ask whether the others are valid.
ClashProxies(c) == [i \in DOMAIN FromConfig(c) \ {"anytls_reality"} |-> ClashProxy(c, i)]

\* ToSingboxOutbound and GenerateClientConfig: protocols that are not valid are
\* skipped; Hysteria 2 is given no name and uses that of the server, which is
\* the certificate's domain in ACME mode.
ClientOutbounds(c) ==
  LET ps == FromConfig(c) IN
  [i \in Served(c) |->
     Told(ps[i].type, ps[i].obfs, ps[i].port, ps[i].secret,
          IF i = "hysteria2" THEN (IF Acme(c, i) THEN c.proto[i].domain ELSE "the server")
                             ELSE ps[i].sni,
          FALSE)]

\* The tags of the client's file, and those that it refers to.
ClientTags(c) ==
  Served(c) \cup {"proxy", "direct", "remote", "local"}
            \cup (IF Served(c) # {} THEN {"auto"} ELSE {})
            \cup (IF "shadowtls" \in Served(c) THEN {"shadowtls-detour"} ELSE {})

ClientTargets(c) ==
  {"proxy", "direct", "remote", "local"}
    \cup (IF Served(c) # {} THEN Served(c) \cup {"auto"} ELSE {})
    \cup (IF "shadowtls" \in Served(c) THEN {"shadowtls-detour"} ELSE {})

\* A client that was told t reaches the server's protocol i.
Reaches(c, i, t) ==
  LET p == FromConfig(c)[i] IN
  /\ i \in Served(c)
  /\ t.type = p.type /\ t.obfs = p.obfs
  /\ t.port = p.port /\ t.secret = p.secret
  /\ IF i \in CertIDs THEN t.insecure \/ t.sni = p.shows ELSE t.sni = p.shows

=============================================================================
