--------------------------- MODULE ConfigModelProofs ---------------------------
(***************************************************************************)
(* Proofs about ConfigModel and about what SingboxConfig makes of a        *)
(* configuration, for any UUIDs, domains, draws and numbers of edits.      *)
(***************************************************************************)
EXTENDS ConfigModel, TLAPS

ConfigRange ==
  [version : 1 .. 2, uuid : Uuids \cup {Blank}, tuicUUID : Uuids \cup {Blank},
   proto : [AllIDs -> ProtocolConfig],
   obfs : Obfuscations, hop : {<<>>} \cup (Nat \X Nat),
   warp : [on : BOOLEAN, domains : SUBSET Domains],
   ipv6 : [on : BOOLEAN, domains : SUBSET Domains],
   other : SUBSET Unheeded]

\* Nothing that an edit does leaves a protocol without a name.
Named(P) == \A i \in AllIDs : P[i].sni # Blank

\* AcmeNames, of the protocols P.
NamedByDomain(P) ==
  \A i \in AllIDs : P[i].mode = "acme" =>
    i \in CertIDs /\ P[i].domain # Blank /\ P[i].sni = P[i].domain

\* A port out of range is one of an old file, and was never drawn in a reset.
OldPorts(P, b, s) == \A i \in AllIDs : ~ValidPort(P[i].port) => i \in b /\ i \in s

\* OnlySinglePortsClash, of the protocols P.
Parted(P, s) ==
  \A i, j \in AllIDs : i # j /\ P[i].port = P[j].port => i \in s \/ j \in s

ProtoInv(P, b, s) ==
  /\ P \in [AllIDs -> ProtocolConfig] /\ b \subseteq AllIDs /\ s \subseteq AllIDs
  /\ Named(P) /\ NamedByDomain(P) /\ OldPorts(P, b, s) /\ Parted(P, s)

ModelInv ==
  /\ cfg \in ConfigRange /\ certs \subseteq Domains /\ edits \in Nat
  /\ ProtoInv(cfg.proto, broken, single)
  /\ ValidHop(cfg.hop)

LEMMA ModelInvGives == ModelInv => ConfigTypeOK /\ AcmeNames /\ OnlySinglePortsClash
  BY DEF ModelInv, ConfigRange, ConfigTypeOK, AcmeNames, OnlySinglePortsClash, ProtoInv,
         NamedByDomain, Parted

-----------------------------------------------------------------------------
(* Records: what is made of one protocol, and of a configuration.          *)

Protocol(b, n, s, m, d) == [on |-> b, port |-> n, sni |-> s, mode |-> m, domain |-> d]

LEMMA ProtocolMade ==
  ASSUME NEW b \in BOOLEAN, NEW n \in Nat, NEW s \in Names,
         NEW m \in {"self_signed", "acme"}, NEW d \in Domains \cup {Blank}
  PROVE  LET q == Protocol(b, n, s, m, d) IN
         q \in ProtocolConfig /\ q.port = n /\ q.sni = s /\ q.mode = m /\ q.domain = d
  BY DEF Protocol, ProtocolConfig, FileNames

Edited(p, s, n) == [p EXCEPT !.sni = s, !.port = n]

LEMMA ProtocolEdited ==
  ASSUME NEW p \in ProtocolConfig, NEW n \in Nat, NEW s \in FileNames
  PROVE  LET q == Edited(p, s, n) IN
         /\ q \in ProtocolConfig
         /\ q.port = n /\ q.sni = s /\ q.mode = p.mode /\ q.domain = p.domain
  BY DEF Edited, ProtocolConfig

Renumbered(p, n) == [p EXCEPT !.port = n]

LEMMA ProtocolPort ==
  ASSUME NEW p \in ProtocolConfig, NEW n \in Nat
  PROVE  LET q == Renumbered(p, n) IN
         /\ q \in ProtocolConfig
         /\ q.port = n /\ q.sni = p.sni /\ q.mode = p.mode /\ q.domain = p.domain
  BY DEF Renumbered, ProtocolConfig

Renamed(p, s) == [p EXCEPT !.sni = s]

LEMMA ProtocolName ==
  ASSUME NEW p \in ProtocolConfig, NEW s \in FileNames
  PROVE  LET q == Renamed(p, s) IN
         /\ q \in ProtocolConfig
         /\ q.port = p.port /\ q.sni = s /\ q.mode = p.mode /\ q.domain = p.domain
  BY DEF Renamed, ProtocolConfig

Switched(p) == [p EXCEPT !.on = ~@]

LEMMA ProtocolSwitched ==
  ASSUME NEW p \in ProtocolConfig
  PROVE  LET q == Switched(p) IN
         /\ q \in ProtocolConfig
         /\ q.port = p.port /\ q.sni = p.sni /\ q.mode = p.mode /\ q.domain = p.domain
  BY DEF Switched, ProtocolConfig

InMode(p, m, d, s) == [p EXCEPT !.mode = m, !.domain = d, !.sni = s]

LEMMA ProtocolMode ==
  ASSUME NEW p \in ProtocolConfig, NEW m \in {"self_signed", "acme"},
         NEW d \in Domains \cup {Blank}, NEW s \in FileNames
  PROVE  LET q == InMode(p, m, d, s) IN
         /\ q \in ProtocolConfig
         /\ q.port = p.port /\ q.sni = s /\ q.mode = m /\ q.domain = d
  BY DEF InMode, ProtocolConfig

AtDomain(p, d) == [p EXCEPT !.mode = "acme", !.domain = d]

LEMMA ProtocolDomain ==
  ASSUME NEW p \in ProtocolConfig, NEW d \in Domains
  PROVE  LET q == AtDomain(p, d) IN
         /\ q \in ProtocolConfig
         /\ q.port = p.port /\ q.sni = p.sni /\ q.mode = "acme" /\ q.domain = d
  BY DEF AtDomain, ProtocolConfig

WithProtocols(c, P) == [c EXCEPT !.proto = P]

LEMMA ConfigProtocols ==
  ASSUME NEW c \in ConfigRange, NEW P \in [AllIDs -> ProtocolConfig]
  PROVE  LET d == WithProtocols(c, P) IN
         d \in ConfigRange /\ d.proto = P /\ d.hop = c.hop
  BY DEF WithProtocols, ConfigRange

Obfuscated(c, o) == [c EXCEPT !.obfs = o]

LEMMA ConfigObfuscated ==
  ASSUME NEW c \in ConfigRange, NEW o \in Obfuscations
  PROVE  LET d == Obfuscated(c, o) IN
         d \in ConfigRange /\ d.proto = c.proto /\ d.hop = c.hop /\ d.uuid = c.uuid
  BY DEF Obfuscated, ConfigRange

Migrated(c, v, u, P) == [c EXCEPT !.version = v, !.uuid = u, !.proto = P]

LEMMA ConfigMigrated ==
  ASSUME NEW c \in ConfigRange, NEW P \in [AllIDs -> ProtocolConfig], NEW v \in 1 .. 2,
         NEW u \in Uuids \cup {Blank}
  PROVE  LET d == Migrated(c, v, u, P) IN
         d \in ConfigRange /\ d.proto = P /\ d.hop = c.hop
  BY DEF Migrated, ConfigRange

-----------------------------------------------------------------------------
LEMMA DrawnPorts ==
  ASSUME NEW draw \in Draws
  PROVE  draw \in [AllIDs -> Nat] /\ \A i \in AllIDs : draw[i] \in Nat /\ ValidPort(draw[i])
<1>1. draw \in [AllIDs -> Nat] /\ \A i \in AllIDs : 10000 <= draw[i] /\ draw[i] <= 65535
  BY ConfigConstants
<1> QED
  BY <1>1 DEF ValidPort

-----------------------------------------------------------------------------
(* Initial configurations.                                                 *)

NewProto(draw) ==
  [i \in AllIDs |->
     [on |-> i \in {"reality_vision", "hysteria2", "tuic"},
      port |-> draw[i],
      sni |-> IF i \in CertIDs THEN Bing ELSE Microsoft,
      mode |-> "self_signed", domain |-> Blank]]

LEMMA BlankIsNoDomain == Blank \notin Domains /\ Blank \notin Uuids /\ "self_signed" \notin Domains
  BY ConfigConstants

LEMMA NamesAreNotBlank == Blank # Bing /\ Blank # Microsoft /\ Blank # "not a name"
  BY DEF Blank, Bing, Microsoft

LEMMA NewProtoFacts ==
  ASSUME NEW draw \in [AllIDs -> Nat]
  PROVE  /\ NewProto(draw) \in [AllIDs -> ProtocolConfig]
         /\ \A i \in AllIDs : /\ NewProto(draw)[i].port = draw[i]
                              /\ NewProto(draw)[i].mode = "self_signed"
                              /\ NewProto(draw)[i].sni # Blank
<1>1. ASSUME NEW i \in AllIDs
      PROVE  /\ NewProto(draw)[i] \in ProtocolConfig
             /\ NewProto(draw)[i].port = draw[i]
             /\ NewProto(draw)[i].mode = "self_signed"
             /\ NewProto(draw)[i].sni # Blank
  <2> DEFINE b == i \in {"reality_vision", "hysteria2", "tuic"}
             s == IF i \in CertIDs THEN Bing ELSE Microsoft
  <2>1. b \in BOOLEAN
    OBVIOUS
  <2>3. s \in Names
    BY DEF Names
  <2>4. s # Blank
    BY NamesAreNotBlank
  <2>2. NewProto(draw)[i] = Protocol(b, draw[i], s, "self_signed", Blank)
    BY DEF NewProto, Protocol
  <2> HIDE DEF b, s
  <2>5. draw[i] \in Nat
    OBVIOUS
  <2> QED
    BY <2>1, <2>2, <2>3, <2>4, <2>5, ProtocolMade
<1>2. NewProto(draw) \in [AllIDs -> ProtocolConfig]
  BY <1>1 DEF NewProto
<1> QED
  BY <1>1, <1>2

LEMMA NewConfigFacts ==
  ASSUME NEW u \in Uuids \cup {Blank}, NEW draw \in [AllIDs -> Nat]
  PROVE  /\ NewConfig(u, draw) \in ConfigRange
         /\ NewConfig(u, draw).proto = NewProto(draw)
         /\ NewConfig(u, draw).hop = <<>>
<1>1. NewConfig(u, draw) = [version |-> 2, uuid |-> u, tuicUUID |-> Blank,
        proto |-> NewProto(draw),
        obfs |-> Blank, hop |-> <<>>, warp |-> [on |-> FALSE, domains |-> {}],
        ipv6 |-> [on |-> FALSE, domains |-> {}], other |-> {}]
  BY DEF NewConfig, NewProto
<1> QED
  BY <1>1, NewProtoFacts, ConfigConstants DEF ConfigRange

LEMMA ModelInvInit == ConfigInit => ModelInv
<1> SUFFICES ASSUME ConfigInit PROVE ModelInv
  OBVIOUS
<1>1. certs \subseteq Domains /\ edits = 0 /\ single = AllIDs
  BY DEF ConfigInit
<1>2. CASE DefaultConfig
  <2>1. PICK u \in Uuids, draw \in Draws : cfg = NewConfig(u, draw) /\ broken = {}
    BY <1>2 DEF DefaultConfig
  <2>2. draw \in [AllIDs -> Nat] /\ \A i \in AllIDs : ValidPort(draw[i])
    BY DrawnPorts
  <2>3. cfg \in ConfigRange /\ cfg.proto = NewProto(draw) /\ cfg.hop = <<>>
    BY <2>1, <2>2, NewConfigFacts
  <2>4. ProtoInv(NewProto(draw), broken, single)
    BY <1>1, <2>1, <2>2, NewProtoFacts
    DEF ProtoInv, Named, NamedByDomain, OldPorts, Parted
  <2> QED
    BY <1>1, <2>3, <2>4 DEF ModelInv, ValidHop
<1>3. CASE OldFile
  <2>1. PICK draw \in Draws, o \in Obfuscations :
          /\ cfg = [NewConfig(Blank, draw) EXCEPT !.version = 1, !.obfs = o,
                                                 !.proto = OldProto(@)]
          /\ broken = OutOfRange
    BY <1>3 DEF OldFile
  <2>2. draw \in [AllIDs -> Nat] /\ \A i \in AllIDs : ValidPort(draw[i])
    BY DrawnPorts
  <2> DEFINE n == NewConfig(Blank, draw)
             Q == NewProto(draw)
             P == OldProto(Q)
  <2>3. n \in ConfigRange /\ n.proto = Q /\ n.hop = <<>>
    BY <2>2, NewConfigFacts
  <2>4. cfg = [n EXCEPT !.version = 1, !.obfs = o, !.proto = P]
    BY <2>1, <2>3
  <2>5. /\ Q \in [AllIDs -> ProtocolConfig]
        /\ \A i \in AllIDs : /\ Q[i].port = draw[i] /\ Q[i].mode = "self_signed"
                             /\ Q[i].sni # Blank
    BY <2>2, NewProtoFacts
  <2> HIDE DEF n, Q
  <2>6. ASSUME NEW i \in AllIDs
        PROVE  /\ P[i] \in ProtocolConfig
               /\ i \notin OutOfRange => P[i].port = draw[i]
               /\ i \in OutOfRange => P[i].port = 443
               /\ P[i].mode = "self_signed"
               /\ P[i].sni # Blank
    <3> DEFINE t == IF i = "reality_vision" THEN "not a name" ELSE Q[i].sni
               m == IF i \in OutOfRange THEN 443 ELSE Q[i].port
    <3>1. /\ Q[i] \in ProtocolConfig /\ Q[i].port = draw[i] /\ Q[i].sni # Blank
          /\ Q[i].mode = "self_signed"
      BY <2>5
    <3>2. Q[i].sni \in FileNames /\ Q[i].port \in Nat
      BY <3>1 DEF ProtocolConfig
    <3>3. t \in FileNames /\ t # Blank
      BY <3>1, <3>2, NamesAreNotBlank DEF FileNames
    <3>4. /\ m \in Nat
          /\ i \notin OutOfRange => m = Q[i].port
          /\ i \in OutOfRange => m = 443
      <4>1. CASE i \in OutOfRange
        BY <4>1
      <4>2. CASE i \notin OutOfRange
        BY <3>2, <4>2
      <4> QED
        BY <4>1, <4>2
    <3>5. P[i] = Edited(Q[i], t, m)
      BY DEF OldProto, Edited
    <3> HIDE DEF t, m, P
    <3>6. Q[i] \in ProtocolConfig /\ m \in Nat /\ t \in FileNames
      BY <3>1, <3>3, <3>4
    <3>7. /\ P[i] \in ProtocolConfig
          /\ P[i].port = m /\ P[i].sni = t /\ P[i].mode = Q[i].mode
      BY <3>5, <3>6, ProtocolEdited
    <3> QED
      BY <3>1, <3>3, <3>4, <3>7
  <2>7. P \in [AllIDs -> ProtocolConfig]
    BY <2>6 DEF OldProto
  <2> HIDE DEF P
  <2>8. cfg \in ConfigRange /\ cfg.proto = P /\ cfg.hop = <<>>
    <3>1. n.uuid \in Uuids \cup {Blank} /\ 1 \in 1 .. 2
      BY <2>3 DEF ConfigRange
    <3>2. cfg = Migrated(Obfuscated(n, o), 1, n.uuid, P)
      BY <2>3, <2>4 DEF ConfigRange, Migrated, Obfuscated
    <3>3. Obfuscated(n, o) \in ConfigRange /\ Obfuscated(n, o).hop = <<>>
      BY <2>1, <2>3, ConfigObfuscated
    <3> QED
      BY <2>7, <3>1, <3>2, <3>3, ConfigMigrated
  <2>9. broken = OutOfRange /\ OutOfRange \subseteq AllIDs
    BY <2>1 DEF AllIDs, OutOfRange
  <2>10. ProtoInv(P, broken, single)
    BY <1>1, <2>2, <2>6, <2>7, <2>9 DEF ProtoInv, Named, NamedByDomain, OldPorts, Parted
  <2> QED
    BY <1>1, <2>8, <2>10 DEF ModelInv, ValidHop
<1> QED
  BY <1>2, <1>3 DEF ConfigInit

-----------------------------------------------------------------------------
(* Steps.                                                                  *)

\* An edit that leaves the protocols alone.
LEMMA OtherEdit ==
  ASSUME ModelInv, Edit, cfg' \in ConfigRange, cfg'.proto = cfg.proto, ValidHop(cfg'.hop),
         certs' \subseteq Domains, UNCHANGED <<broken, single>>
  PROVE  ModelInv'
  BY DEF ModelInv, Edit, ProtoInv, Named, NamedByDomain, OldPorts, Parted

\* An edit of one protocol that leaves its port alone.
LEMMA SamePort ==
  ASSUME ModelInv, NEW i \in AllIDs, NEW p \in ProtocolConfig, EditProto(i, p),
         p.port = cfg.proto[i].port, p.sni # Blank,
         p.mode = "acme" => i \in CertIDs /\ p.domain # Blank /\ p.sni = p.domain,
         UNCHANGED <<broken, single>>
  PROVE  ModelInv'
<1> DEFINE P == [cfg.proto EXCEPT ![i] = p]
<1>1. /\ cfg \in ConfigRange /\ certs \subseteq Domains
      /\ ProtoInv(cfg.proto, broken, single) /\ ValidHop(cfg.hop) /\ edits \in Nat
  BY DEF ModelInv
<1>2. cfg' = WithProtocols(cfg, P) /\ certs' = certs /\ edits' = edits + 1
  BY DEF EditProto, Edit, WithProtocols
<1>3. P \in [AllIDs -> ProtocolConfig]
  BY <1>1 DEF ProtoInv
<1>4. P[i] = p /\ \A j \in AllIDs : j # i => P[j] = cfg.proto[j]
  BY <1>1 DEF ProtoInv
<1> HIDE DEF P
<1>5. cfg' \in ConfigRange /\ cfg'.proto = P /\ cfg'.hop = cfg.hop
  BY <1>1, <1>2, <1>3, ConfigProtocols
<1>6. Named(P) /\ NamedByDomain(P)
  BY <1>1, <1>4 DEF ProtoInv, Named, NamedByDomain
<1>7. \A j \in AllIDs : P[j].port = cfg.proto[j].port
  BY <1>4
<1>8. OldPorts(P, broken, single) /\ Parted(P, single)
  BY <1>1, <1>7 DEF ProtoInv, OldPorts, Parted
<1>9. ProtoInv(P, broken, single)
  BY <1>1, <1>3, <1>6, <1>8 DEF ProtoInv
<1> QED
  BY <1>1, <1>2, <1>5, <1>9 DEF ModelInv

\* An edit of every protocol at once.
LEMMA EveryProtocol ==
  ASSUME ModelInv, NEW P, ProtoInv(P, broken', single'), Edit, cfg' \in ConfigRange,
         cfg'.proto = P, ValidHop(cfg'.hop), certs' \subseteq Domains
  PROVE  ModelInv'
  BY DEF ModelInv, Edit

LEMMA ToggleProtocolKeeps ==
  ASSUME ModelInv, NEW i \in AllIDs, ToggleProtocol(i) PROVE ModelInv'
<1> DEFINE p == Switched(cfg.proto[i])
<1>1. cfg.proto[i] \in ProtocolConfig /\ cfg.proto[i].sni # Blank
  BY DEF ModelInv, ProtoInv, Named
<1>2. cfg.proto[i].mode = "acme" =>
        /\ i \in CertIDs /\ cfg.proto[i].domain # Blank
        /\ cfg.proto[i].sni = cfg.proto[i].domain
  BY DEF ModelInv, ProtoInv, NamedByDomain
<1>3. EditProto(i, p) /\ UNCHANGED <<broken, single>>
  BY DEF ToggleProtocol, Switched
<1>4. /\ p \in ProtocolConfig
      /\ p.port = cfg.proto[i].port /\ p.sni = cfg.proto[i].sni
      /\ p.mode = cfg.proto[i].mode /\ p.domain = cfg.proto[i].domain
  BY <1>1, ProtocolSwitched
<1> HIDE DEF p
<1> QED
  BY <1>1, <1>2, <1>3, <1>4, SamePort

LEMMA ToggleCertModeKeeps ==
  ASSUME ModelInv, NEW i \in AllIDs, ToggleCertMode(i) PROVE ModelInv'
<1>1. cfg.proto[i] \in ProtocolConfig /\ certs \subseteq Domains
  BY DEF ModelInv, ProtoInv
<1>2. i \in CertIDs /\ UNCHANGED <<broken, single>>
  BY DEF ToggleCertMode
<1>3. PICK m \in {"self_signed", "acme"}, d \in Domains \cup {Blank}, s \in FileNames :
        /\ EditProto(i, InMode(cfg.proto[i], m, d, s))
        /\ s # Blank
        /\ m = "acme" => d # Blank /\ s = d
  <2>1. CASE /\ cfg.proto[i].mode = "acme"
             /\ EditProto(i, [cfg.proto[i] EXCEPT !.mode = "self_signed", !.domain = Blank,
                                                  !.sni = Bing])
    <3>1. EditProto(i, InMode(cfg.proto[i], "self_signed", Blank, Bing))
      BY <2>1 DEF InMode
    <3>2. Bing \in FileNames /\ Bing # Blank
      BY NamesAreNotBlank DEF FileNames, Names
    <3> QED
      BY <3>1, <3>2
  <2>2. ASSUME NEW d \in certs,
               EditProto(i, [cfg.proto[i] EXCEPT !.mode = "acme", !.domain = d, !.sni = d])
        PROVE  \E m \in {"self_signed", "acme"}, e \in Domains \cup {Blank}, s \in FileNames :
                 /\ EditProto(i, InMode(cfg.proto[i], m, e, s))
                 /\ s # Blank
                 /\ m = "acme" => e # Blank /\ s = e
    <3>1. EditProto(i, InMode(cfg.proto[i], "acme", d, d))
      BY <2>2 DEF InMode
    <3>2. d \in Domains /\ d \in FileNames /\ d # Blank
      BY <1>1, <2>2, BlankIsNoDomain DEF FileNames, Names
    <3> QED
      BY <3>1, <3>2
  <2> QED
    BY <2>1, <2>2 DEF ToggleCertMode
<1> DEFINE p == InMode(cfg.proto[i], m, d, s)
<1>4. p \in ProtocolConfig /\ p.port = cfg.proto[i].port /\ p.sni = s /\ p.mode = m /\ p.domain = d
  BY <1>1, ProtocolMode
<1>5. EditProto(i, p)
  BY <1>3
<1> HIDE DEF p
<1> QED
  BY <1>2, <1>3, <1>4, <1>5, SamePort

LEMMA ResetAllPortsKeeps ==
  ASSUME ModelInv, NEW draw \in Draws, ResetAllPorts(draw) PROVE ModelInv'
<1> DEFINE P == [i \in AllIDs |-> Renumbered(cfg.proto[i], draw[i])]
<1>1. /\ cfg \in ConfigRange /\ certs \subseteq Domains
      /\ cfg.proto \in [AllIDs -> ProtocolConfig]
      /\ Named(cfg.proto) /\ NamedByDomain(cfg.proto)
  BY DEF ModelInv, ProtoInv
<1>2. cfg' = [cfg EXCEPT !.hop = <<>>, !.proto = P]
  BY DEF ResetAllPorts, Renumbered
<1>3. Edit /\ broken' = {} /\ single' = {} /\ certs' = certs /\ IsInjective(draw)
  BY DEF ResetAllPorts
<1>4. draw \in [AllIDs -> Nat] /\ \A i \in AllIDs : draw[i] \in Nat /\ ValidPort(draw[i])
  BY DrawnPorts
<1>5. ASSUME NEW i \in AllIDs
      PROVE  /\ P[i] \in ProtocolConfig
             /\ P[i].port = draw[i] /\ P[i].sni = cfg.proto[i].sni
             /\ P[i].mode = cfg.proto[i].mode /\ P[i].domain = cfg.proto[i].domain
  <2>1. cfg.proto[i] \in ProtocolConfig /\ draw[i] \in Nat
    BY <1>1, <1>4
  <2>2. P[i] = Renumbered(cfg.proto[i], draw[i])
    OBVIOUS
  <2> HIDE DEF P
  <2> QED
    BY <2>1, <2>2, ProtocolPort
<1>6. P \in [AllIDs -> ProtocolConfig]
  BY <1>5
<1> HIDE DEF P
<1>7. cfg' \in ConfigRange /\ cfg'.proto = P /\ cfg'.hop = <<>>
  BY <1>1, <1>2, <1>6 DEF ConfigRange
<1>8. Named(P) /\ NamedByDomain(P)
  BY <1>1, <1>5 DEF Named, NamedByDomain
<1>9. OldPorts(P, {}, {})
  BY <1>4, <1>5 DEF OldPorts
<1>10. Parted(P, {})
  BY <1>3, <1>4, <1>5 DEF Parted, IsInjective
<1>11. ProtoInv(P, broken', single')
  BY <1>3, <1>6, <1>8, <1>9, <1>10 DEF ProtoInv
<1> QED
  BY <1>1, <1>3, <1>7, <1>11, EveryProtocol DEF ValidHop

LEMMA UpdateSinglePortKeeps ==
  ASSUME ModelInv, NEW i \in AllIDs, NEW n \in Nat, UpdateSinglePort(i, n) PROVE ModelInv'
<1> DEFINE p == Renumbered(cfg.proto[i], n)
           P == [cfg.proto EXCEPT ![i] = p]
<1>1. /\ cfg \in ConfigRange /\ certs \subseteq Domains
      /\ ProtoInv(cfg.proto, broken, single) /\ ValidHop(cfg.hop)
  BY DEF ModelInv
<1>2. /\ cfg' = WithProtocols(cfg, P) /\ Edit /\ ValidPort(n) /\ certs' = certs
      /\ broken' = broken \ {i} /\ single' = single \cup {i}
  BY DEF UpdateSinglePort, EditProto, WithProtocols, Renumbered
<1>3. cfg.proto[i] \in ProtocolConfig
  BY <1>1 DEF ProtoInv
<1>4. /\ p \in ProtocolConfig
      /\ p.port = n /\ p.sni = cfg.proto[i].sni
      /\ p.mode = cfg.proto[i].mode /\ p.domain = cfg.proto[i].domain
  BY <1>3, ProtocolPort
<1> HIDE DEF p
<1>5. P \in [AllIDs -> ProtocolConfig] /\ P[i] = p /\ \A j \in AllIDs : j # i => P[j] = cfg.proto[j]
  BY <1>1, <1>4 DEF ProtoInv
<1> HIDE DEF P
<1>6. cfg' \in ConfigRange /\ cfg'.proto = P /\ cfg'.hop = cfg.hop
  BY <1>1, <1>2, <1>5, ConfigProtocols
<1>7. Named(P) /\ NamedByDomain(P)
  BY <1>1, <1>4, <1>5 DEF ProtoInv, Named, NamedByDomain
<1>8. P[i].port = n /\ \A j \in AllIDs : j # i => P[j].port = cfg.proto[j].port
  BY <1>4, <1>5
<1>9. OldPorts(P, broken', single')
  BY <1>1, <1>2, <1>8 DEF ProtoInv, OldPorts
<1>10. Parted(P, single')
  BY <1>1, <1>2, <1>8 DEF ProtoInv, Parted
<1>11. ProtoInv(P, broken', single')
  BY <1>1, <1>2, <1>5, <1>7, <1>9, <1>10 DEF ProtoInv
<1> QED
  BY <1>1, <1>2, <1>6, <1>11, EveryProtocol

\* Names change and ports do not.
LEMMA SamePorts ==
  ASSUME ModelInv, NEW P \in [AllIDs -> ProtocolConfig], Named(P), NamedByDomain(P),
         \A i \in AllIDs : P[i].port = cfg.proto[i].port,
         Edit, cfg' = WithProtocols(cfg, P), certs' \subseteq Domains,
         UNCHANGED <<broken, single>>
  PROVE  ModelInv'
<1>1. cfg \in ConfigRange /\ ProtoInv(cfg.proto, broken, single) /\ ValidHop(cfg.hop)
  BY DEF ModelInv
<1>2. cfg' \in ConfigRange /\ cfg'.proto = P /\ cfg'.hop = cfg.hop
  BY <1>1, ConfigProtocols
<1>3. OldPorts(P, broken, single) /\ Parted(P, single)
  BY <1>1 DEF ProtoInv, OldPorts, Parted
<1>4. ProtoInv(P, broken', single')
  BY <1>1, <1>3 DEF ProtoInv
<1> QED
  BY <1>1, <1>2, <1>4, EveryProtocol

LEMMA EditSNIKeeps ==
  ASSUME ModelInv, NEW d \in Domains, EditSNI(d) PROVE ModelInv'
<1> DEFINE P == [i \in AllIDs |->
                   IF i \in Fronted THEN Renamed(cfg.proto[i], d) ELSE cfg.proto[i]]
<1>1. /\ cfg \in ConfigRange /\ certs \subseteq Domains
      /\ cfg.proto \in [AllIDs -> ProtocolConfig]
      /\ Named(cfg.proto) /\ NamedByDomain(cfg.proto)
  BY DEF ModelInv, ProtoInv
<1>2. /\ cfg' = WithProtocols(cfg, P) /\ Edit /\ certs' = certs
      /\ UNCHANGED <<broken, single>>
  BY DEF EditSNI, WithProtocols, Renamed
<1>3. d \in FileNames /\ d # Blank
  BY BlankIsNoDomain DEF FileNames, Names
<1>4. ASSUME NEW i \in AllIDs
      PROVE  /\ P[i] \in ProtocolConfig
             /\ P[i].port = cfg.proto[i].port
             /\ P[i].mode = cfg.proto[i].mode /\ P[i].domain = cfg.proto[i].domain
             /\ P[i].sni = d \/ P[i].sni = cfg.proto[i].sni
             /\ i \in CertIDs => P[i].sni = cfg.proto[i].sni
  <2>1. cfg.proto[i] \in ProtocolConfig
    BY <1>1
  <2>2. CASE i \in Fronted
    <3>1. P[i] = Renamed(cfg.proto[i], d) /\ i \notin CertIDs
      BY <2>2 DEF Fronted
    <3> HIDE DEF P
    <3> QED
      BY <1>3, <2>1, <3>1, ProtocolName
  <2>3. CASE i \notin Fronted
    <3>1. P[i] = cfg.proto[i]
      BY <2>3
    <3> HIDE DEF P
    <3> QED
      BY <2>1, <3>1
  <2> QED
    BY <2>2, <2>3
<1>5. P \in [AllIDs -> ProtocolConfig]
  BY <1>4
<1> HIDE DEF P
<1>6. Named(P)
  BY <1>1, <1>3, <1>4 DEF Named
<1>7. NamedByDomain(P)
  BY <1>1, <1>4 DEF NamedByDomain
<1> QED
  BY <1>1, <1>2, <1>4, <1>5, <1>6, <1>7, SamePorts

LEMMA RequestACMEDNSKeeps ==
  ASSUME ModelInv, NEW d \in Domains, RequestACMEDNS(d) PROVE ModelInv'
<1> DEFINE P == [i \in AllIDs |->
                   IF i \in CertIDs /\ cfg.proto[i].on /\ cfg.proto[i].sni = d
                     THEN AtDomain(cfg.proto[i], d) ELSE cfg.proto[i]]
<1>1. /\ cfg \in ConfigRange /\ certs \subseteq Domains
      /\ cfg.proto \in [AllIDs -> ProtocolConfig]
      /\ Named(cfg.proto) /\ NamedByDomain(cfg.proto)
  BY DEF ModelInv, ProtoInv
<1>2. /\ cfg' = WithProtocols(cfg, P) /\ Edit /\ certs' = certs \cup {d}
      /\ UNCHANGED <<broken, single>>
  BY DEF RequestACMEDNS, WithProtocols, AtDomain
<1>3. d # Blank
  BY BlankIsNoDomain
<1>4. ASSUME NEW i \in AllIDs
      PROVE  /\ P[i] \in ProtocolConfig
             /\ P[i].port = cfg.proto[i].port /\ P[i].sni = cfg.proto[i].sni
             /\ P[i].mode = "acme" =>
                  i \in CertIDs /\ P[i].domain # Blank /\ P[i].sni = P[i].domain
  <2>1. cfg.proto[i] \in ProtocolConfig
    BY <1>1
  <2>2. CASE i \in CertIDs /\ cfg.proto[i].on /\ cfg.proto[i].sni = d
    <3>1. P[i] = AtDomain(cfg.proto[i], d)
      BY <2>2
    <3> HIDE DEF P
    <3> QED
      BY <1>3, <2>1, <2>2, <3>1, ProtocolDomain
  <2>3. CASE ~(i \in CertIDs /\ cfg.proto[i].on /\ cfg.proto[i].sni = d)
    <3>1. P[i] = cfg.proto[i]
      BY <2>3
    <3> HIDE DEF P
    <3> QED
      BY <1>1, <2>1, <3>1 DEF NamedByDomain
  <2> QED
    BY <2>2, <2>3
<1>5. P \in [AllIDs -> ProtocolConfig]
  BY <1>4
<1> HIDE DEF P
<1>6. Named(P)
  BY <1>1, <1>4 DEF Named
<1>7. NamedByDomain(P)
  BY <1>4 DEF NamedByDomain
<1> QED
  BY <1>1, <1>2, <1>4, <1>5, <1>6, <1>7, SamePorts

\* The migration takes a port that is out of range to 0, which is out of range
\* too, of a protocol whose port was chosen for itself.
LEMMA MigrateKeeps ==
  ASSUME ModelInv, MigrateV1ToV2 PROVE ModelInv'
<1> DEFINE NewName(i) ==
      IF i \in Fronted /\ cfg.proto[i].sni = "not a name" THEN Microsoft ELSE cfg.proto[i].sni
           NewPort(i) == IF ValidPort(cfg.proto[i].port) THEN cfg.proto[i].port ELSE 0
           P == MigrateProto(cfg.proto)
<1>1. /\ cfg \in ConfigRange /\ certs \subseteq Domains /\ ValidHop(cfg.hop)
      /\ cfg.proto \in [AllIDs -> ProtocolConfig]
      /\ Named(cfg.proto) /\ NamedByDomain(cfg.proto)
      /\ OldPorts(cfg.proto, broken, single) /\ Parted(cfg.proto, single)
      /\ broken \subseteq AllIDs /\ single \subseteq AllIDs
  BY DEF ModelInv, ProtoInv
<1>2. PICK u \in Uuids :
        cfg' = [cfg EXCEPT !.version = 2, !.uuid = IF @ = Blank THEN u ELSE @, !.proto = P]
  BY DEF MigrateV1ToV2
<1>3. Edit /\ certs' = certs /\ UNCHANGED <<broken, single>>
  BY DEF MigrateV1ToV2
<1> DEFINE v == IF cfg.uuid = Blank THEN u ELSE cfg.uuid
<1>4. v \in Uuids \cup {Blank} /\ 2 \in 1 .. 2
  BY <1>1 DEF ConfigRange
<1>5. cfg' = Migrated(cfg, 2, v, P)
  BY <1>2 DEF Migrated
<1> HIDE DEF v
<1>6. ASSUME NEW i \in AllIDs
      PROVE  /\ P[i] \in ProtocolConfig
             /\ ValidPort(cfg.proto[i].port) => P[i].port = cfg.proto[i].port
             /\ ~ValidPort(cfg.proto[i].port) => P[i].port = 0
             /\ P[i].mode = cfg.proto[i].mode /\ P[i].domain = cfg.proto[i].domain
             /\ P[i].sni # Blank
             /\ i \in CertIDs => P[i].sni = cfg.proto[i].sni
  <2> DEFINE s == NewName(i)
             n == NewPort(i)
  <2>1. cfg.proto[i] \in ProtocolConfig /\ cfg.proto[i].sni # Blank
    BY <1>1 DEF Named
  <2>2. cfg.proto[i].sni \in FileNames /\ cfg.proto[i].port \in Nat
    BY <2>1 DEF ProtocolConfig
  <2>3. s \in FileNames /\ s # Blank
    BY <2>1, <2>2, NamesAreNotBlank DEF FileNames, Names
  <2>4. i \in CertIDs => s = cfg.proto[i].sni
    BY DEF Fronted
  <2>5. /\ n \in Nat
        /\ ValidPort(cfg.proto[i].port) => n = cfg.proto[i].port
        /\ ~ValidPort(cfg.proto[i].port) => n = 0
    BY <2>2
  <2>6. P[i] = Edited(cfg.proto[i], s, n)
    BY DEF MigrateProto, Edited
  <2> HIDE DEF s, n, P
  <2>7. cfg.proto[i] \in ProtocolConfig /\ s \in FileNames /\ n \in Nat
    BY <2>1, <2>3, <2>5
  <2>8. /\ P[i] \in ProtocolConfig
        /\ P[i].port = n /\ P[i].sni = s
        /\ P[i].mode = cfg.proto[i].mode /\ P[i].domain = cfg.proto[i].domain
    BY <2>6, <2>7, ProtocolEdited
  <2> QED
    BY <2>3, <2>4, <2>5, <2>8
<1>7. P \in [AllIDs -> ProtocolConfig]
  BY <1>6 DEF MigrateProto
<1> HIDE DEF P, NewName, NewPort
<1>8. cfg' \in ConfigRange /\ cfg'.proto = P /\ cfg'.hop = cfg.hop
  BY <1>1, <1>4, <1>5, <1>7, ConfigMigrated
<1>9. Named(P) /\ NamedByDomain(P)
  BY <1>1, <1>6 DEF Named, NamedByDomain
<1>10. OldPorts(P, broken, single)
  BY <1>1, <1>6 DEF OldPorts
<1>11. Parted(P, single)
  BY <1>1, <1>6 DEF Parted, OldPorts, ValidPort
<1>12. ProtoInv(P, broken', single')
  BY <1>1, <1>3, <1>7, <1>9, <1>10, <1>11 DEF ProtoInv
<1> QED
  BY <1>1, <1>3, <1>8, <1>12, EveryProtocol

\* The hop range, the UUIDs and the routing.
LEMMA HopKeeps ==
  ASSUME ModelInv,
         ClearHy2Hopping \/ \E h \in Hops : UpdateHy2Hopping(h)
  PROVE  ModelInv'
<1>1. cfg \in ConfigRange /\ certs \subseteq Domains
  BY DEF ModelInv
<1>2. CASE ClearHy2Hopping
  <2>1. cfg' \in ConfigRange /\ cfg'.proto = cfg.proto /\ ValidHop(cfg'.hop)
    BY <1>1, <1>2 DEF ClearHy2Hopping, ConfigRange, ValidHop
  <2> QED
    BY <1>1, <1>2, <2>1, OtherEdit DEF ClearHy2Hopping
<1>3. CASE \E h \in Hops : UpdateHy2Hopping(h)
  <2>1. PICK h \in Nat \X Nat : UpdateHy2Hopping(h)
    BY <1>3, ConfigConstants
  <2>2. cfg' \in ConfigRange /\ cfg'.proto = cfg.proto /\ cfg'.hop = h
    BY <1>1, <2>1 DEF UpdateHy2Hopping, ConfigRange
  <2>3. ValidHop(h)
    BY <2>1 DEF UpdateHy2Hopping, ValidHop, ValidPort
  <2> QED
    BY <1>1, <2>1, <2>2, <2>3, OtherEdit DEF UpdateHy2Hopping
<1> QED
  BY <1>2, <1>3

LEMMA UuidKeeps ==
  ASSUME ModelInv,
         FillDefaults \/ \E u \in Uuids : EditUUID(u)
  PROVE  ModelInv'
<1>1. cfg \in ConfigRange /\ certs \subseteq Domains /\ ValidHop(cfg.hop)
  BY DEF ModelInv
<1>2. CASE FillDefaults
  <2> DEFINE u == IF cfg.tuicUUID = Blank THEN cfg.uuid ELSE cfg.tuicUUID
  <2>1. u \in Uuids \cup {Blank}
    BY <1>1 DEF ConfigRange
  <2>2. cfg' = [cfg EXCEPT !.tuicUUID = u]
    BY <1>2 DEF FillDefaults
  <2> HIDE DEF u
  <2>3. cfg' \in ConfigRange /\ cfg'.proto = cfg.proto /\ cfg'.hop = cfg.hop
    BY <1>1, <2>1, <2>2 DEF ConfigRange
  <2> QED
    BY <1>1, <1>2, <2>3, OtherEdit DEF FillDefaults
<1>3. CASE \E u \in Uuids : EditUUID(u)
  <2>1. PICK u \in Uuids : EditUUID(u)
    BY <1>3
  <2>2. cfg' \in ConfigRange /\ cfg'.proto = cfg.proto /\ cfg'.hop = cfg.hop
    BY <1>1, <2>1 DEF EditUUID, ConfigRange
  <2> QED
    BY <1>1, <2>1, <2>2, OtherEdit DEF EditUUID
<1> QED
  BY <1>2, <1>3

LEMMA CertificatesKeep ==
  ASSUME ModelInv, NEW d \in Domains, RequestACMEHTTP(d) \/ DeleteCertificate(d)
  PROVE  ModelInv'
<1>1. cfg \in ConfigRange /\ certs \subseteq Domains /\ ValidHop(cfg.hop)
  BY DEF ModelInv
<1>2. Edit /\ certs' \subseteq Domains /\ UNCHANGED <<cfg, broken, single>>
  BY <1>1 DEF RequestACMEHTTP, DeleteCertificate
<1> QED
  BY <1>1, <1>2, OtherEdit

LEMMA RoutingKeeps ==
  ASSUME ModelInv,
         \/ \E r \in Listed, b \in BOOLEAN : SwitchRoute(r, b)
         \/ \E r \in Listed, d \in Domains : AddRoutingDomain(r, d)
         \/ SwitchSocks5 \/ SwitchDNSAndSNI \/ SwitchGlobal
  PROVE  ModelInv'
<1>1. cfg \in ConfigRange /\ certs \subseteq Domains /\ ValidHop(cfg.hop)
  BY DEF ModelInv
<1>2. ASSUME NEW r \in Listed, NEW b \in BOOLEAN, SwitchRoute(r, b) PROVE ModelInv'
  <2>1. CASE r = "warp"
    <3>1. cfg' \in ConfigRange /\ cfg'.proto = cfg.proto /\ cfg'.hop = cfg.hop
      BY <1>1, <1>2, <2>1 DEF SwitchRoute, ConfigRange
    <3> QED
      BY <1>1, <1>2, <3>1, OtherEdit DEF SwitchRoute
  <2>2. CASE r = "ipv6"
    <3>1. cfg' \in ConfigRange /\ cfg'.proto = cfg.proto /\ cfg'.hop = cfg.hop
      BY <1>1, <1>2, <2>2 DEF SwitchRoute, ConfigRange
    <3> QED
      BY <1>1, <1>2, <3>1, OtherEdit DEF SwitchRoute
  <2> QED
    BY <2>1, <2>2 DEF Listed
<1>3. ASSUME NEW r \in Listed, NEW d \in Domains, AddRoutingDomain(r, d) PROVE ModelInv'
  <2>1. CASE r = "warp"
    <3>1. cfg' \in ConfigRange /\ cfg'.proto = cfg.proto /\ cfg'.hop = cfg.hop
      BY <1>1, <1>3, <2>1 DEF AddRoutingDomain, ConfigRange
    <3> QED
      BY <1>1, <1>3, <3>1, OtherEdit DEF AddRoutingDomain
  <2>2. CASE r = "ipv6"
    <3>1. cfg' \in ConfigRange /\ cfg'.proto = cfg.proto /\ cfg'.hop = cfg.hop
      BY <1>1, <1>3, <2>2 DEF AddRoutingDomain, ConfigRange
    <3> QED
      BY <1>1, <1>3, <3>1, OtherEdit DEF AddRoutingDomain
  <2> QED
    BY <2>1, <2>2 DEF Listed
<1>4. ASSUME NEW r \in Unheeded, SwitchUnheeded(r) PROVE ModelInv'
  <2> DEFINE o == IF r \in cfg.other THEN cfg.other \ {r} ELSE cfg.other \cup {r}
  <2>1. o \in SUBSET Unheeded
    BY <1>1 DEF ConfigRange
  <2>2. cfg' = [cfg EXCEPT !.other = o]
    BY <1>4 DEF SwitchUnheeded
  <2> HIDE DEF o
  <2>3. cfg' \in ConfigRange /\ cfg'.proto = cfg.proto /\ cfg'.hop = cfg.hop
    BY <1>1, <2>1, <2>2 DEF ConfigRange
  <2> QED
    BY <1>1, <1>4, <2>3, OtherEdit DEF SwitchUnheeded
<1>5. ASSUME SwitchSocks5 \/ SwitchDNSAndSNI \/ SwitchGlobal PROVE ModelInv'
  BY <1>4, <1>5 DEF SwitchSocks5, SwitchDNSAndSNI, SwitchGlobal, Unheeded
<1> QED
  BY <1>2, <1>3, <1>5

LEMMA ModelInvStep == ModelInv /\ [ConfigNext]_modelVars => ModelInv'
<1> SUFFICES ASSUME ModelInv, [ConfigNext]_modelVars PROVE ModelInv'
  OBVIOUS
<1>1. CASE UNCHANGED modelVars
  BY <1>1 DEF modelVars, ModelInv, ProtoInv, Named, NamedByDomain, OldPorts, Parted
<1>2. ASSUME NEW i \in AllIDs, ToggleProtocol(i) \/ ToggleCertMode(i) PROVE ModelInv'
  BY <1>2, ToggleProtocolKeeps, ToggleCertModeKeeps
<1>3. ASSUME NEW draw \in Draws, ResetAllPorts(draw) PROVE ModelInv'
  BY <1>3, ResetAllPortsKeeps
<1>4. ASSUME NEW i \in AllIDs, NEW n \in Typed, UpdateSinglePort(i, n) PROVE ModelInv'
  <2>1. n \in Nat
    BY ConfigConstants
  <2> QED
    BY <1>4, <2>1, UpdateSinglePortKeeps
<1>5. ASSUME ClearHy2Hopping \/ \E h \in Hops : UpdateHy2Hopping(h) PROVE ModelInv'
  BY <1>5, HopKeeps
<1>6. ASSUME NEW d \in Domains,
             EditSNI(d) \/ RequestACMEHTTP(d) \/ RequestACMEDNS(d) \/ DeleteCertificate(d)
      PROVE  ModelInv'
  BY <1>6, EditSNIKeeps, RequestACMEDNSKeeps, CertificatesKeep
<1>7. ASSUME FillDefaults \/ \E u \in Uuids : EditUUID(u) PROVE ModelInv'
  BY <1>7, UuidKeeps
<1>8. ASSUME \/ \E r \in Listed, b \in BOOLEAN : SwitchRoute(r, b)
             \/ \E r \in Listed, d \in Domains : AddRoutingDomain(r, d)
             \/ SwitchSocks5 \/ SwitchDNSAndSNI \/ SwitchGlobal
      PROVE  ModelInv'
  BY <1>8, RoutingKeeps
<1> QED
  BY <1>1, <1>2, <1>3, <1>4, <1>5, <1>6, <1>7, <1>8, MigrateKeeps DEF ConfigNext

\* The inductive invariant of edits: types, and for each protocol what its name, mode,
\* certificate domain and port have to do with one another (domain/config/config.go:25).
THEOREM ModelInvHolds == ConfigSpec => []ModelInv
  BY ModelInvInit, ModelInvStep, PTL DEF ConfigSpec

\* No edit takes the configuration out of its types (config.go, and the services
\* that write to it).
THEOREM ConfigTypeCorrect == ConfigSpec => []ConfigTypeOK
<1>1. ModelInv => ConfigTypeOK
  BY ModelInvGives
<1> QED
  BY <1>1, ModelInvHolds, PTL

\* However many edits are made, and in whatever order, two protocols share a port
\* only if one of the two ports was chosen for itself (port_service.go:60, :125).
THEOREM PortsArePartedByReset == ConfigSpec => []OnlySinglePortsClash
<1>1. ModelInv => OnlySinglePortsClash
  BY ModelInvGives
<1> QED
  BY <1>1, ModelInvHolds, PTL

-----------------------------------------------------------------------------
(* What is made of a configuration.                                        *)

LEMMA MadeOf ==
  ASSUME NEW i \in AllIDs, cfg.proto[i].on
  PROVE  /\ i \in DOMAIN FromConfig(cfg)
         /\ i = "reality_vision" => FromConfig(cfg)[i] = RealityVision(cfg)
         /\ i = "reality_grpc" => FromConfig(cfg)[i] = RealityGRPC(cfg)
         /\ i = "hysteria2" => FromConfig(cfg)[i] = Hysteria2(cfg)
         /\ i = "tuic" => FromConfig(cfg)[i] = TUIC(cfg)
         /\ i = "anytls" => FromConfig(cfg)[i] = AnyTLS(cfg)
         /\ i = "anytls_reality" => FromConfig(cfg)[i] = AnyTLSReality(cfg)
         /\ i = "shadowtls" => FromConfig(cfg)[i] = ShadowTLS(cfg)
  BY DEF FromConfig

LEMMA MadeFields ==
  ASSUME NEW c, NEW i, NEW secret, NEW sni, NEW shows, NEW valid
  PROVE  /\ Made(c, i, secret, sni, shows, valid).type = Spoken(i)
         /\ Made(c, i, secret, sni, shows, valid).obfs = Obfs(c, i)
         /\ Made(c, i, secret, sni, shows, valid).port = c.proto[i].port
         /\ Made(c, i, secret, sni, shows, valid).secret = secret
         /\ Made(c, i, secret, sni, shows, valid).sni = sni
         /\ Made(c, i, secret, sni, shows, valid).shows = shows
  BY DEF Made

LEMMA MadeValid ==
  ASSUME NEW c, NEW i, NEW secret, NEW sni, NEW shows, NEW valid,
         ValidPort(c.proto[i].port), valid
  PROVE  Made(c, i, secret, sni, shows, valid).valid
  BY DEF Made

\* What ModelInv says of a protocol: it has a name, and in ACME mode its domain's.
LEMMA ProtocolNames ==
  ASSUME ModelInv, NEW i \in AllIDs
  PROVE  /\ cfg.proto[i].sni # Blank /\ SNI(cfg, i) # Blank
         /\ Acme(cfg, i) => /\ cfg.proto[i].sni = cfg.proto[i].domain
                            /\ SNI(cfg, i) = cfg.proto[i].sni
                            /\ CertPath(cfg, i) = cfg.proto[i].sni
         /\ ~Acme(cfg, i) => cfg.proto[i].mode = "self_signed"
<1>1. /\ cfg.proto[i].sni # Blank
      /\ cfg.proto[i].mode = "acme" =>
           cfg.proto[i].domain # Blank /\ cfg.proto[i].sni = cfg.proto[i].domain
  BY DEF ModelInv, ProtoInv, Named, NamedByDomain
<1>2. cfg.proto[i].mode = "acme" \/ cfg.proto[i].mode = "self_signed"
  BY DEF ModelInv, ProtoInv, ProtocolConfig
<1> QED
  BY <1>1, <1>2 DEF Acme, SNI, CertPath

LEMMA ServedIs ==
  ASSUME NEW i \in AllIDs
  PROVE  i \in Served(cfg) <=> cfg.proto[i].on /\ FromConfig(cfg)[i].valid
  BY DEF Served, FromConfig

LEMMA EnabledIsServedOne ==
  ASSUME ModelInv, NEW i \in AllIDs, cfg.proto[i].on, i \notin broken,
         ~(i = "tuic" /\ cfg.uuid = Blank),
         ~(i = "shadowtls" /\ cfg.proto[i].port = DetourPort)
  PROVE  i \in Served(cfg)
<1>1. ValidPort(cfg.proto[i].port)
  BY DEF ModelInv, ProtoInv, OldPorts
<1>2. cfg.proto[i].sni # Blank /\ SNI(cfg, i) # Blank /\ cfg.proto["reality_vision"].sni # Blank
  BY ProtocolNames DEF AllIDs
<1>3. ValidHop(cfg.hop)
  BY DEF ModelInv
<1>4. FromConfig(cfg)[i].valid
  <2>1. CASE i = "reality_vision"
    <3>1. RealityVision(cfg).valid
      BY <1>1, <1>2, <2>1, MadeValid DEF RealityVision
    <3> QED
      BY <2>1, <3>1, MadeOf
  <2>2. CASE i = "reality_grpc"
    <3>1. RealityGRPC(cfg).valid
      BY <1>1, <1>2, <2>2, MadeValid DEF RealityGRPC
    <3> QED
      BY <2>2, <3>1, MadeOf
  <2>3. CASE i = "hysteria2"
    <3>1. Hysteria2(cfg).valid
      BY <1>1, <1>3, <2>3, MadeValid DEF Hysteria2
    <3> QED
      BY <2>3, <3>1, MadeOf
  <2>4. CASE i = "tuic"
    <3>1. TUIC(cfg).valid
      BY <1>1, <1>2, <2>4, MadeValid DEF TUIC
    <3> QED
      BY <2>4, <3>1, MadeOf
  <2>5. CASE i = "anytls"
    <3>1. AnyTLS(cfg).valid
      BY <1>1, <1>2, <2>5, MadeValid DEF AnyTLS
    <3> QED
      BY <2>5, <3>1, MadeOf
  <2>6. CASE i = "anytls_reality"
    <3>1. AnyTLSReality(cfg).valid
      BY <1>1, <1>2, <2>6, MadeValid DEF AnyTLSReality
    <3> QED
      BY <2>6, <3>1, MadeOf
  <2>7. CASE i = "shadowtls"
    <3>1. ShadowTLS(cfg).valid
      BY <1>1, <1>2, <2>7, MadeValid DEF ShadowTLS
    <3> QED
      BY <2>7, <3>1, MadeOf
  <2> QED
    BY <2>1, <2>2, <2>3, <2>4, <2>5, <2>6, <2>7 DEF AllIDs
<1> QED
  BY <1>4, ServedIs

\* A protocol that is switched on is served after any edits, but for the cases
\* that EnabledIsServed names (factory.go:75, generator_impl.go:106).
THEOREM EnabledStaysServed == ConfigSpec => []EnabledIsServed
<1>1. ModelInv => EnabledIsServed
  BY EnabledIsServedOne DEF EnabledIsServed
<1> QED
  BY <1>1, ModelInvHolds, PTL

LEMMA TagsAreThere == EveryTagIsThere
<1>1. ASSUME NEW legacy \in BOOLEAN
      PROVE  /\ RouteTargets(cfg, legacy) \subseteq Outbounds(cfg, legacy)
             /\ DomainResolver(cfg, legacy) \subseteq DNSServers(cfg)
  BY DEF RouteTargets, Outbounds, DomainResolver, DNSServers
<1>2. InboundDetours(cfg) \subseteq InboundTags(cfg)
  BY ServedIs DEF InboundDetours, InboundTags, AllIDs
<1>3. ClientTargets(cfg) \subseteq ClientTags(cfg)
  BY DEF ClientTargets, ClientTags
<1> QED
  BY <1>1, <1>2, <1>3 DEF EveryTagIsThere

\* Nothing in the files refers to a tag that is not there, for either core
\* (generator_impl.go:265, pkg/singbox/client_generator.go:64).
THEOREM TagsStayThere == ConfigSpec => []EveryTagIsThere
  BY TagsAreThere, PTL

-----------------------------------------------------------------------------
(* What clients are told.                                                  *)

LEMMA ToldFields ==
  ASSUME NEW type, NEW obfs, NEW port, NEW secret, NEW sni, NEW insecure \in BOOLEAN
  PROVE  LET t == Told(type, obfs, port, secret, sni, insecure) IN
         /\ t.type = type /\ t.obfs = obfs /\ t.port = port
         /\ t.secret = secret /\ t.sni = sni /\ t.insecure = insecure
  BY DEF Told

LEMMA MadeCommon ==
  ASSUME NEW i \in AllIDs, cfg.proto[i].on
  PROVE  /\ FromConfig(cfg)[i].type = Spoken(i)
         /\ FromConfig(cfg)[i].obfs = Obfs(cfg, i)
         /\ FromConfig(cfg)[i].port = cfg.proto[i].port
<1>1. CASE i = "reality_vision"
  BY <1>1, MadeOf, MadeFields DEF RealityVision
<1>2. CASE i = "reality_grpc"
  BY <1>2, MadeOf, MadeFields DEF RealityGRPC
<1>3. CASE i = "hysteria2"
  BY <1>3, MadeOf, MadeFields DEF Hysteria2
<1>4. CASE i = "tuic"
  BY <1>4, MadeOf, MadeFields DEF TUIC
<1>5. CASE i = "anytls"
  BY <1>5, MadeOf, MadeFields DEF AnyTLS
<1>6. CASE i = "anytls_reality"
  BY <1>6, MadeOf, MadeFields DEF AnyTLSReality
<1>7. CASE i = "shadowtls"
  BY <1>7, MadeOf, MadeFields DEF ShadowTLS
<1> QED
  BY <1>1, <1>2, <1>3, <1>4, <1>5, <1>6, <1>7 DEF AllIDs

\* The protocols that borrow a site show it, and are asked for by its name.
LEMMA MadeFronted ==
  ASSUME NEW i \in Fronted, cfg.proto[i].on
  PROVE  /\ FromConfig(cfg)[i].sni = FromConfig(cfg)[i].shows
         /\ i # "anytls_reality" => FromConfig(cfg)[i].shows = cfg.proto[i].sni
         /\ i = "anytls_reality" =>
              FromConfig(cfg)[i].shows = cfg.proto["reality_vision"].sni
<1>1. i \in AllIDs
  BY DEF Fronted
<1>2. CASE i = "reality_vision"
  BY <1>1, <1>2, MadeOf, MadeFields DEF RealityVision
<1>3. CASE i = "reality_grpc"
  BY <1>1, <1>3, MadeOf, MadeFields DEF RealityGRPC
<1>4. CASE i = "anytls_reality"
  BY <1>1, <1>4, MadeOf, MadeFields DEF AnyTLSReality
<1>5. CASE i = "shadowtls"
  BY <1>1, <1>5, MadeOf, MadeFields DEF ShadowTLS
<1> QED
  BY <1>2, <1>3, <1>4, <1>5 DEF Fronted, AllIDs, CertIDs

LEMMA MadeWithCertificate ==
  ASSUME NEW i \in CertIDs, cfg.proto[i].on
  PROVE  /\ FromConfig(cfg)[i].sni = SNI(cfg, i)
         /\ FromConfig(cfg)[i].shows = CertPath(cfg, i)
         /\ i = "tuic" => FromConfig(cfg)[i].secret = <<cfg.uuid, Password>>
<1>1. i \in AllIDs
  BY DEF AllIDs, CertIDs
<1>2. CASE i = "hysteria2"
  BY <1>1, <1>2, MadeOf, MadeFields DEF Hysteria2
<1>3. CASE i = "tuic"
  BY <1>1, <1>3, MadeOf, MadeFields DEF TUIC
<1>4. CASE i = "anytls"
  BY <1>1, <1>4, MadeOf, MadeFields DEF AnyTLS
<1> QED
  BY <1>2, <1>3, <1>4 DEF CertIDs

LEMMA ReachesIf ==
  ASSUME NEW i \in AllIDs, i \in Served(cfg), NEW t,
         t.type = Spoken(i), t.obfs = Obfs(cfg, i),
         t.port = cfg.proto[i].port, t.secret = FromConfig(cfg)[i].secret,
         t.sni = FromConfig(cfg)[i].shows \/ (i \in CertIDs /\ t.insecure)
  PROVE  Reaches(cfg, i, t)
  BY ServedIs, MadeCommon DEF Reaches

LEMMA LinksReach ==
  ASSUME ModelInv, NEW i \in AllIDs, i \in Served(cfg), ~LinkFails(i)
  PROVE  Reaches(cfg, i, ProtocolLinks(cfg)[i])
<1> DEFINE t == ProtocolLinks(cfg)[i]
           b == i = "hysteria2"
<1>1. cfg.proto[i].on /\ i \in DOMAIN FromConfig(cfg)
  BY ServedIs, MadeOf
<1>2. t = Told(Spoken(i), Blank, cfg.proto[i].port, FromConfig(cfg)[i].secret, cfg.proto[i].sni, b)
  BY <1>1 DEF ProtocolLinks, LinkFails
<1>9. b \in BOOLEAN /\ (i = "hysteria2" => b)
  OBVIOUS
<1> HIDE DEF t, b
<1>10. /\ t.type = Spoken(i) /\ t.obfs = Blank
      /\ t.port = cfg.proto[i].port /\ t.secret = FromConfig(cfg)[i].secret
      /\ t.sni = cfg.proto[i].sni /\ t.insecure = b
  BY <1>2, <1>9, ToldFields
<1>3. /\ t.type = Spoken(i) /\ t.obfs = Blank
      /\ t.port = cfg.proto[i].port /\ t.secret = FromConfig(cfg)[i].secret
      /\ t.sni = cfg.proto[i].sni /\ (i = "hysteria2" => t.insecure)
  BY Zenon, <1>9, <1>10
<1>4. t.obfs = Obfs(cfg, i)
  BY <1>3 DEF LinkFails, Obfs
<1>5. CASE i \in Fronted
  BY <1>1, <1>3, <1>4, <1>5, MadeFronted, ReachesIf DEF LinkFails, t
<1>6. CASE i = "hysteria2"
  BY <1>3, <1>4, <1>6, ReachesIf DEF CertIDs, t
<1>7. CASE i = "tuic"
  <2>1. Acme(cfg, i)
    BY <1>7, ProtocolNames DEF LinkFails
  <2>2. FromConfig(cfg)[i].shows = cfg.proto[i].sni
    BY <1>1, <1>7, <2>1, MadeWithCertificate, ProtocolNames DEF CertIDs
  <2> QED
    BY <1>3, <1>4, <2>2, ReachesIf DEF t
<1> QED
  BY <1>5, <1>6, <1>7 DEF Fronted, CertIDs, LinkFails

LEMMA PagesReach ==
  ASSUME ModelInv, NEW i \in AllIDs, i \in Served(cfg), ~PageFails(i)
  PROVE  Reaches(cfg, i, NodeParams(cfg)[i])
<1> DEFINE t == NodeParams(cfg)[i]
           s == IF i = "tuic" /\ cfg.tuicUUID # Blank THEN <<cfg.tuicUUID, Password>>
                ELSE FromConfig(cfg)[i].secret
           b == i \in CertIDs /\ cfg.proto[i].mode = "self_signed"
<1>1. cfg.proto[i].on /\ i \in DOMAIN FromConfig(cfg)
  BY ServedIs, MadeOf
<1>2. t = Told(Spoken(i), Obfs(cfg, i), cfg.proto[i].port, s, cfg.proto[i].sni, b)
  BY <1>1 DEF NodeParams
<1>3. s = FromConfig(cfg)[i].secret
  <2>1. CASE i = "tuic" /\ cfg.tuicUUID # Blank
    <3>1. cfg.tuicUUID = cfg.uuid
      BY <2>1 DEF PageFails
    <3>2. FromConfig(cfg)[i].secret = <<cfg.uuid, Password>>
      BY <1>1, <2>1, MadeWithCertificate DEF CertIDs
    <3> QED
      BY <2>1, <3>1, <3>2
  <2> QED
    BY <2>1
<1>8. b \in BOOLEAN /\ (i \in CertIDs /\ cfg.proto[i].mode = "self_signed" => b)
  OBVIOUS
<1> HIDE DEF s, t, b
<1>9. /\ t.type = Spoken(i) /\ t.obfs = Obfs(cfg, i)
      /\ t.port = cfg.proto[i].port /\ t.secret = s
      /\ t.sni = cfg.proto[i].sni /\ t.insecure = b
  BY <1>2, <1>8, ToldFields
<1>4. /\ t.type = Spoken(i) /\ t.obfs = Obfs(cfg, i)
      /\ t.port = cfg.proto[i].port /\ t.secret = s /\ t.sni = cfg.proto[i].sni
      /\ i \in CertIDs /\ cfg.proto[i].mode = "self_signed" => t.insecure
  BY Zenon, <1>8, <1>9
<1>5. CASE i \in Fronted
  BY <1>1, <1>3, <1>4, <1>5, MadeFronted, ReachesIf DEF PageFails, t
<1>6. CASE i \in CertIDs /\ ~Acme(cfg, i)
  <2>1. t.insecure
    BY <1>4, <1>6, ProtocolNames
  <2> QED
    BY <1>3, <1>4, <1>6, <2>1, ReachesIf DEF t
<1>7. CASE i \in CertIDs /\ Acme(cfg, i)
  <2>1. FromConfig(cfg)[i].shows = cfg.proto[i].sni
    BY <1>1, <1>7, MadeWithCertificate, ProtocolNames
  <2> QED
    BY <1>3, <1>4, <2>1, ReachesIf DEF t
<1> QED
  BY <1>5, <1>6, <1>7 DEF Fronted

LEMMA FilesReach ==
  ASSUME ModelInv, NEW i \in AllIDs, i \in Served(cfg), ~FileFails(i)
  PROVE  Reaches(cfg, i, ClientOutbounds(cfg)[i])
<1> DEFINE t == ClientOutbounds(cfg)[i]
           s == IF i = "hysteria2" THEN (IF Acme(cfg, i) THEN cfg.proto[i].domain ELSE "the server")
                ELSE FromConfig(cfg)[i].sni
<1>1. cfg.proto[i].on
  BY ServedIs
<1>2. t = Told(FromConfig(cfg)[i].type, FromConfig(cfg)[i].obfs, FromConfig(cfg)[i].port,
               FromConfig(cfg)[i].secret, s, FALSE)
  BY DEF ClientOutbounds
<1>3. s = FromConfig(cfg)[i].shows
  <2>1. CASE i \in Fronted
    BY <1>1, <2>1, MadeFronted DEF Fronted, CertIDs
  <2>2. CASE i \in CertIDs
    <3>1. Acme(cfg, i)
      BY <2>2, ProtocolNames DEF FileFails
    <3>2. /\ FromConfig(cfg)[i].shows = cfg.proto[i].sni
          /\ FromConfig(cfg)[i].sni = cfg.proto[i].sni
          /\ cfg.proto[i].domain = cfg.proto[i].sni
      BY <1>1, <2>2, <3>1, MadeWithCertificate, ProtocolNames
    <3> QED
      BY <3>1, <3>2
  <2> QED
    BY <2>1, <2>2 DEF Fronted
<1> HIDE DEF t, s
<1>4. /\ t.type = Spoken(i) /\ t.obfs = Obfs(cfg, i) /\ t.port = cfg.proto[i].port
      /\ t.secret = FromConfig(cfg)[i].secret /\ t.sni = s
  BY <1>1, <1>2, MadeCommon DEF Told
<1> QED
  BY <1>3, <1>4, ReachesIf DEF t

LEMMA ClashReaches ==
  ASSUME NEW i \in AllIDs, ~ClashFails(i), i \in Served(cfg)
  PROVE  Reaches(cfg, i, ClashProxies(cfg)[i])
<1> DEFINE t == ClashProxies(cfg)[i]
           b == i \in CertIDs
<1>1. cfg.proto[i].on /\ i \in DOMAIN FromConfig(cfg) \ {"anytls_reality"}
  BY ServedIs, MadeOf DEF ClashFails
<1>2. t = Told(FromConfig(cfg)[i].type, FromConfig(cfg)[i].obfs, FromConfig(cfg)[i].port,
               FromConfig(cfg)[i].secret, FromConfig(cfg)[i].sni, b)
  BY <1>1 DEF ClashProxies, ClashProxy, ClashFails
<1>3. b \in BOOLEAN /\ (i \in CertIDs => b)
  OBVIOUS
<1> HIDE DEF t, b
<1>4. /\ t.type = FromConfig(cfg)[i].type /\ t.obfs = FromConfig(cfg)[i].obfs
      /\ t.port = FromConfig(cfg)[i].port /\ t.secret = FromConfig(cfg)[i].secret
      /\ t.sni = FromConfig(cfg)[i].sni /\ t.insecure = b
  BY <1>2, <1>3, ToldFields
<1>7. /\ t.type = Spoken(i) /\ t.obfs = Obfs(cfg, i) /\ t.port = cfg.proto[i].port
  BY <1>1, <1>4, MadeCommon
<1>5. CASE i \in CertIDs
  <2>1. t.insecure
    BY Zenon, <1>3, <1>4, <1>5
  <2> QED
    BY <1>4, <1>5, <1>7, <2>1, ReachesIf DEF t
<1>6. CASE i \in Fronted
  BY <1>1, <1>4, <1>6, <1>7, MadeFronted, ReachesIf DEF ClashFails, t
<1> QED
  BY <1>5, <1>6 DEF Fronted

\* After any edits, a client that is told of a protocol that is served reaches it,
\* by link, page, or file, but for the cases that LinkFails, PageFails,
\* FileFails and ClashFails name (command_builder.go:3211, node_params.go:13,
\* clash/client_generator.go:118, pkg/singbox/client_generator.go:9).
THEOREM ClientsStayInReach == ConfigSpec => []ClientsReachTheServer
<1>1. ASSUME ModelInv, NEW i \in Served(cfg)
      PROVE  /\ Reaches(cfg, i, ProtocolLinks(cfg)[i]) \/ LinkFails(i)
             /\ Reaches(cfg, i, NodeParams(cfg)[i]) \/ PageFails(i)
             /\ Reaches(cfg, i, ClientOutbounds(cfg)[i]) \/ FileFails(i)
             /\ ~ClashFails(i) => Reaches(cfg, i, ClashProxies(cfg)[i])
  <2>1. i \in AllIDs
    BY DEF Served, FromConfig
  <2> QED
    BY <1>1, <2>1, LinksReach, PagesReach, FilesReach, ClashReaches
<1>2. ModelInv => ClientsReachTheServer
  BY <1>1 DEF ClientsReachTheServer
<1> QED
  BY <1>2, ModelInvHolds, PTL

=============================================================================
