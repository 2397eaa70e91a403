--------------------------- MODULE MCCommandLine ---------------------------
(* Small instances of CommandLine for TLC.                                 *)
EXTENDS CommandLine, TLC

Symmetry == Permutations(Run)
=============================================================================
