----------------------------- MODULE MCStateFile -----------------------------
(* Instances of StateFile for TLC: a short and a long document, and which writers belong *)
(* to the daemon and which are commands of the CLI.  Inodes are interchangeable, and so   *)
(* are the goroutines of the daemon.                                                      *)
EXTENDS StateFile, TLC

CONSTANTS g1, g2, c1, short, long

TwoDocs == short :> 1 @@ long :> 2

Symmetry == Permutations(Inodes) \cup Permutations({g1, g2})
=============================================================================
