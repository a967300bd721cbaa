-------------------------- MODULE MCVerifyService ---------------------------
(* VerifyService on small instances.                                       *)
EXTENDS VerifyService_proofs, TLC

Symmetry == Permutations(Jobs) \union Permutations(Streams)
=============================================================================
