---------------------------- MODULE MCConfigStore ----------------------------
(* Small instances of ConfigStore.                                         *)
EXTENDS ConfigStore, TLC

Symmetry == Permutations(Procs)

=============================================================================
