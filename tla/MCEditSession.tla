---------------------------- MODULE MCEditSession ----------------------------
(* Small instances of EditSession.                                         *)
EXTENDS EditSession

\* Sessions that keep unsaved routing or an installation apart from the menus
\* that reload the file.
MCApart == {{"config", "cert"}, {"config", "log", "backup"}, {"cert", "log", "backup"},
            {"config", "route", "install"}}

\* A session that does not.
MCMixed == {{"config", "route", "log"}}

MCConfigOnly == {{"config"}}

=============================================================================
