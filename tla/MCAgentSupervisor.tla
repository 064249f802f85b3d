-------------------------- MODULE MCAgentSupervisor --------------------------
(* Instances of AgentSupervisor for TLC.  Commands are interchangeable, and so are servers *)
(* in the runs that check invariants only.                                                 *)
EXTENDS AgentSupervisor, TLC

Symmetry == Permutations(Servers) \cup Permutations(Commands)
=============================================================================
