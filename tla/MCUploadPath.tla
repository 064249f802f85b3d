---------------------------- MODULE MCUploadPath ----------------------------
(* The instance of UploadPath for TLC; its temporal properties rule out symmetry. *)
EXTENDS UploadPath
=============================================================================
