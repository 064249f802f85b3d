------------------------------ MODULE MCUpgrade ------------------------------
(* The instance of Upgrade for TLC; its temporal properties rule out symmetry, so that the *)
(* names of the releases are told apart by the one that is installed at first.             *)
EXTENDS Upgrade

CONSTANT Installed

MCInit == Init /\ version = Installed

MCFairSpec == MCInit /\ [][Next]_vars /\ Fairness
=============================================================================
