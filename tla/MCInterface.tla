------------------------------ MODULE MCInterface ------------------------------
(***************************************************************************)
(* Small instances of what lies behind the pages of the interface, and of  *)
(* the pages themselves.  A behaviour is one of Pages, of Certificates, of *)
(* Uninstall or of Tools, as `part' says from the start: they share no     *)
(* state in the code either, but for the files that Uninstall lets other   *)
(* commands write.                                                         *)
(***************************************************************************)
EXTENDS Pages, Certificates, Uninstall, Tools

VARIABLE part

vars == <<part, pageVars, certVars, removalVars, toolVars>>

Init ==
  /\ part \in {"pages", "certificates", "uninstall", "tools"}
  /\ PagesInit /\ CertInit
  /\ UninstallInit /\ (part = "uninstall" \/ production)
  /\ ToolsInit /\ (part = "tools" \/ fstab = {})

Next ==
  /\ UNCHANGED part
  /\ \/ /\ part = "pages" /\ PagesNext
        /\ UNCHANGED <<certVars, removalVars, toolVars>>
     \/ /\ part = "certificates" /\ CertNext
        /\ UNCHANGED <<pageVars, removalVars, toolVars>>
     \/ /\ part = "uninstall" /\ UninstallNext
        /\ UNCHANGED <<pageVars, certVars, toolVars>>
     \/ /\ part = "tools" /\ ToolsNext
        /\ UNCHANGED <<pageVars, certVars, removalVars>>

Spec == Init /\ [][Next]_vars

\* The types of all parts.
InterfaceTypeOK == PagesTypeOK /\ CertTypeOK /\ UninstallTypeOK /\ ToolsTypeOK

=============================================================================
