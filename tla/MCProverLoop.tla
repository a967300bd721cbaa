---------------------------- MODULE MCProverLoop ----------------------------
(* ProverLoop on a small instance.                                         *)
EXTENDS ProverLoop
=============================================================================
