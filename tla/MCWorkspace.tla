---------------------------- MODULE MCWorkspace -----------------------------
(* Workspace on small instances.                                           *)
EXTENDS Workspace
=============================================================================
