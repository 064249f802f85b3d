------------------------------ MODULE MCTunnel ------------------------------
(* Instances of Tunnel for TLC.  Processes are interchangeable, and so are the panel's *)
(* goroutines; the runs of temporal properties do not use the symmetry.                *)
EXTENDS Tunnel, TLC

Symmetry == Permutations(Procs) \cup Permutations(Panel)
=============================================================================
