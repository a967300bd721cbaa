---------------------------- MODULE JobLifecycle ----------------------------
(***************************************************************************)
(* What the verify service promises about a job, with no threads, locks,   *)
(* queues or dictionaries: a submitted job is queued, then running, then   *)
(* has exactly one outcome that never changes; the service may forget a    *)
(* job at any time; and a stream is told at most once, and only an outcome *)
(* the job really has.  VerifyService is shown to implement this module.   *)
(***************************************************************************)

CONSTANTS
  Jobs,     \* identifiers of verify jobs
  Streams   \* one element per request for a job's event stream

VARIABLES
  phase,    \* where the work on each job stands
  kept,     \* the jobs the service still remembers
  told      \* the final status each stream was told

vars == <<phase, kept, told>>

Final  == {"completed", "failed"}
Phases == {"unknown", "queued", "running"} \union Final

TypeOK ==
  /\ phase \in [Jobs -> Phases]
  /\ kept \in SUBSET Jobs
  /\ told \in [Streams -> {"nothing"} \union Final]

Init ==
  /\ phase = [j \in Jobs |-> "unknown"]
  /\ kept = {}
  /\ told = [s \in Streams |-> "nothing"]

Submit(j) ==
  /\ phase[j] = "unknown"
  /\ phase' = [phase EXCEPT ![j] = "queued"]
  /\ kept' = kept \union {j}
  /\ UNCHANGED told

Start(j) ==
  /\ phase[j] = "queued"
  /\ phase' = [phase EXCEPT ![j] = "running"]
  /\ UNCHANGED <<kept, told>>

Finish(j) ==
  /\ phase[j] = "running"
  /\ \E outcome \in Final : phase' = [phase EXCEPT ![j] = outcome]
  /\ UNCHANGED <<kept, told>>

Forget ==
  /\ kept' \in SUBSET kept
  /\ UNCHANGED <<phase, told>>

Tell(s, j) ==
  /\ told[s] = "nothing"
  /\ phase[j] \in Final
  /\ told' = [told EXCEPT ![s] = phase[j]]
  /\ UNCHANGED <<phase, kept>>

Next ==
  \/ \E j \in Jobs : Submit(j) \/ Start(j) \/ Finish(j)
  \/ Forget
  \/ \E s \in Streams, j \in Jobs : Tell(s, j)

(* A background task is started and runs to its end whether or not the    *)
(* store still remembers the job.                                         *)
Fairness == \A j \in Jobs : WF_vars(Start(j)) /\ WF_vars(Finish(j))

SafeSpec == Init /\ [][Next]_vars
Spec     == SafeSpec /\ Fairness
=============================================================================
