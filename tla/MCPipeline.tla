----------------------------- MODULE MCPipeline -----------------------------
(* Pipeline on small instances.                                            *)
EXTENDS Pipeline_proofs, TLC

Symmetry == Permutations(Runs) \union Permutations(Keys)
=============================================================================
