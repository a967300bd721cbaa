---------------------------- MODULE MCFormalizer ----------------------------
(* Formalizer on small instances: every claim has a search plan.           *)
EXTENDS Formalizer

OnePlan == [c \in Claims |-> CHOOSE p \in Plans : TRUE]
=============================================================================
