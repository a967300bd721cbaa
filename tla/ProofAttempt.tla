---------------------------- MODULE ProofAttempt ----------------------------
(***************************************************************************)
(* What the prover promises of one proof attempt, whatever the provider,   *)
(* the Lean server and the Lean compiler answer: it ends; it calls a       *)
(* theorem proved only with a proof the compiler accepted during the       *)
(* attempt; and it leaves no working file behind.                          *)
(***************************************************************************)
CONSTANTS Proofs, NoAnswer, Raised

VARIABLES phase, answer, accepted, workfile

attemptVars == <<phase, answer, accepted, workfile>>

Init ==
  /\ phase = "waiting"
  /\ answer = NoAnswer
  /\ accepted = {}
  /\ workfile = FALSE

Start ==
  /\ phase = "waiting"
  /\ phase' = "working"
  /\ workfile' = TRUE
  /\ UNCHANGED <<answer, accepted>>

Ends(reply) ==
  /\ phase # "ended"
  /\ phase' = "ended"
  /\ answer' = reply
  /\ workfile' = FALSE

(* The compiler accepted a proof, which is returned at once. *)
Prove ==
  \E p \in Proofs :
    /\ phase = "working"
    /\ accepted' = accepted \union {p}
    /\ Ends([success |-> TRUE, proof |-> p])

(* The attempt gives its latest candidate, or an exception, instead. *)
GiveUp ==
  /\ \E reply \in {Raised} \union [success : {FALSE}, proof : Proofs] : Ends(reply)
  /\ UNCHANGED accepted

Next == Start \/ Prove \/ GiveUp

Promise == Init /\ [][Next]_attemptVars

Spec == Promise /\ WF_attemptVars(Prove \/ GiveUp)
=============================================================================
