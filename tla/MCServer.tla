------------------------------- MODULE MCServer -------------------------------
(***************************************************************************)
(* Small instances of ConfigModel and of ApplyConfig.  A behaviour is one  *)
(* of the former or one of the latter, as `part' says from the start: what *)
(* can be made of a configuration is asked of every configuration that     *)
(* edits lead to, how one reaches the server of a few chosen ones.         *)
(***************************************************************************)
EXTENDS ConfigModel, ApplyConfig

VARIABLE part

vars == <<part, modelVars, applyVars>>

Position(i) == CHOOSE n \in DOMAIN ProtocolOrder : ProtocolOrder[n] = i

\* Seven draws that differ, and seven that are all the same.
MCDraws == {[i \in AllIDs |-> 20000 + k * Position(i)] : k \in {0, 1}}

MCHops == {<<30000, 40000>>, <<40000, 30000>>, <<80, 30000>>}

Serving(ports, hop) ==
  [NewConfig("u1", [i \in AllIDs |-> 20000]) EXCEPT
     !.hop = hop,
     !.proto = [i \in AllIDs |-> IF i \in DOMAIN ports
                  THEN [@[i] EXCEPT !.on = TRUE, !.port = ports[i]]
                  ELSE [@[i] EXCEPT !.on = FALSE]]]

ASSUME FirstUuid == "u1" \in Uuids

\* Two configurations that share ports, one with ports whose texts contain one
\* another, one with a range to hop in; and one whose certificate was deleted.
MCConfigOf ==
  [A |-> Serving([reality_vision |-> 12053, tuic |-> 2053], <<>>),
   B |-> Serving([hysteria2 |-> 12053], <<30000, 40000>>),
   R |-> Serving([anytls |-> 2053], <<>>)]

MCMaxEvents == [b \in Backends |-> IF b \in Overlapping THEN 1 ELSE 2]

Init ==
  \/ part = "model" /\ ConfigInit
       /\ ApplyInit /\ backend = "nftables"
  \/ part = "apply" /\ ApplyInit
       /\ cfg = MCConfigOf["A"] /\ certs = {} /\ edits = 0
       /\ broken = {} /\ single = AllIDs

Next ==
  /\ UNCHANGED part
  /\ \/ part = "model" /\ ConfigNext /\ UNCHANGED applyVars
     \/ part = "apply" /\ ApplyNext /\ UNCHANGED modelVars

\* The types of both parts.
ServerTypeOK == ConfigTypeOK /\ ApplyTypeOK

Spec == Init /\ [][Next]_vars /\ ApplyFairness

=============================================================================
