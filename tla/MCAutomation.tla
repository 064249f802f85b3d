---------------------------- MODULE MCAutomation ----------------------------
(* The instance of Automation for TLC; its temporal properties rule out symmetry. *)
EXTENDS Automation
=============================================================================
