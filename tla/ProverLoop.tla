----------------------------- MODULE ProverLoop -----------------------------
(***************************************************************************)
(* prove_theorem_agentic() of src/src/agentic_prover.py: the working file, *)
(* the local fast path, the Lean session, the conversation with the model, *)
(* its retries and caps, the wall clock, and how each end of the run is    *)
(* turned into a result.                                                   *)
(*                                                                         *)
(* The provider, the Lean server and the Lean compiler are external: they  *)
(* give any answer, or none.  The calls of one response are chosen when    *)
(* they are handled, since nothing looks at them before.                   *)
(***************************************************************************)
EXTENDS ToolGuard

CONSTANTS
  FastAttempts,  \* length of the fast path's shortlist
  MaxAppend,     \* append_round_cap
  Retries,       \* len(BACKOFF_DELAYS_SECONDS)
  BatchSize,     \* bound on the tool calls of one response
  NoAnswer       \* prove_theorem_agentic() has not returned

ASSUME LoopAssumption ==
  /\ FastAttempts \in Nat /\ Retries \in Nat
  /\ MaxAppend \in Nat \ {0} /\ BatchSize \in Nat \ {0}

VARIABLES
  pc,        \* where the attempt stands
  tried,     \* fast-path tactics tried so far
  rounds,    \* request_count
  retry,     \* retries of the request under way
  left,      \* calls of the response still to handle
  why,       \* what ended the conversation
  answer,    \* what prove_theorem_agentic() returns
  accepted,  \* history: the tactic blocks a verify() call accepted
  workfile   \* whether the working file exists

loopVars == <<pc, tried, rounds, retry, left, why, answer, accepted, workfile>>
vars     == <<guardVars, loopVars>>

PC == {"start", "fast", "opening", "requesting", "handling", "closing",
       "stopping", "ended"}
Failure == {"request_timeout", "retries", "empty_cycle", "cancel_scope", "run_error"}
Why     == Failure \union {"none", "done", "wall_clock", "append_cap", "tool_budget"}
Raised  == [stop |-> "raised", success |-> FALSE, partial |-> FALSE, tactic |-> Sorry]
Answer  == [stop : {"raised", "complete", "incomplete", "timeout", "append_cap",
                    "tool_budget", "retries", "empty_cycle", "run_error"},
            success : BOOLEAN, partial : BOOLEAN, tactic : Tactics \union {Sorry}]
ASSUME NoAnswerAssumption == NoAnswer \notin Answer

Init ==
  /\ GuardInit
  /\ pc = "start"
  /\ tried = 0 /\ rounds = 0 /\ retry = 0 /\ left = 0
  /\ why = "none"
  /\ answer = NoAnswer
  /\ accepted = {}
  /\ workfile = FALSE

(* The finally block: whatever the end, the working file goes.             *)
End(reply) ==
  /\ pc' = "ended"
  /\ answer' = reply
  /\ workfile' = FALSE

Stop(reason) == pc' = "closing" /\ why' = reason /\ left' = 0

-----------------------------------------------------------------------------
(* The working file is written with the placeholder; a compact theorem     *)
(* goes through the fast path first.                                       *)
Initialize ==
  /\ pc = "start"
  /\ pc' \in {"fast", "opening"}
  /\ workfile' = TRUE
  /\ UNCHANGED <<guardVars, tried, rounds, retry, left, why, answer, accepted>>

(* The theorem has no sorry on a line of its own: ValueError. *)
NoPlaceholder ==
  /\ pc = "start"
  /\ End(Raised)
  /\ UNCHANGED <<guardVars, tried, rounds, retry, left, why, accepted>>

FastSuccess(t) ==
  /\ End([stop |-> "complete", success |-> TRUE, partial |-> FALSE, tactic |-> t])
  /\ accepted' = accepted \union {t}

(* One deterministic tactic, verified on the spot; a verify() that raises  *)
(* is one that failed.                                                     *)
TryFast(t) ==
  /\ pc = "fast" /\ tried < FastAttempts
  /\ tactic' = t
  /\ tried' = tried + 1
  /\ FastSuccess(t) \/ UNCHANGED <<pc, answer, accepted, workfile>>
  /\ UNCHANGED <<attempts, pending, tracker, trace, rounds, retry, left, why>>

(* A mutant: the last fast-path tactic stays in the file. *)
FastExhausted_NoRestore ==
  /\ pc = "fast"
  /\ pc' = "opening"
  /\ UNCHANGED <<guardVars, tried, rounds, retry, left, why, answer, accepted, workfile>>

(* The shortlist (never longer than FastAttempts) is through: the file is  *)
(* given its first content back.                                           *)
FastExhausted ==
  /\ pc = "fast"
  /\ tactic' = Sorry
  /\ pc' = "opening"
  /\ UNCHANGED <<attempts, pending, tracker, trace, tried, rounds, retry, left,
                 why, answer, accepted, workfile>>

(* The environment has no API key: KeyError, which only the finally block sees. *)
NoApiKey ==
  /\ pc = "opening"
  /\ End(Raised)
  /\ UNCHANGED <<guardVars, tried, rounds, retry, left, why, accepted>>

OpenSession ==
  /\ pc = "opening"
  /\ pc' = "requesting"
  /\ UNCHANGED <<guardVars, tried, rounds, retry, left, why, answer, accepted, workfile>>

(* A session that does not start; its own time limit counts as the wall clock. *)
OpenFails ==
  /\ pc = "opening"
  /\ pc' = "stopping"
  /\ why' \in {"wall_clock", "cancel_scope", "run_error"}
  /\ UNCHANGED <<guardVars, tried, rounds, retry, left, answer, accepted, workfile>>

-----------------------------------------------------------------------------
(* The first request starts the conversation, the others append to it.     *)
AtAppendCap == rounds > MaxAppend

(* The provider answers, with n tool calls or, for none, with its last word. *)
Reply(n) ==
  /\ pc = "requesting" /\ ~AtAppendCap
  /\ rounds' = rounds + 1
  /\ retry' = 0
  /\ IF n = 0 THEN Stop("done") ELSE pc' = "handling" /\ left' = n /\ UNCHANGED why
  /\ UNCHANGED <<guardVars, tried, answer, accepted, workfile>>

(* A mutant: one retry too many. *)
Backoff_OffByOne ==
  /\ pc = "requesting" /\ ~AtAppendCap
  /\ retry <= Retries
  /\ retry' = retry + 1
  /\ UNCHANGED <<guardVars, pc, tried, rounds, left, why, answer, accepted, workfile>>

(* A transient error (429 and the like): again after a delay. *)
Backoff ==
  /\ pc = "requesting" /\ ~AtAppendCap
  /\ retry < Retries
  /\ retry' = retry + 1
  /\ UNCHANGED <<guardVars, pc, tried, rounds, left, why, answer, accepted, workfile>>

RequestFails ==
  /\ pc = "requesting" /\ ~AtAppendCap
  /\ \E reason \in Failure :
       /\ reason = "retries" => retry = Retries
       /\ Stop(reason)
  /\ UNCHANGED <<guardVars, tried, rounds, retry, answer, accepted, workfile>>

AppendCap ==
  /\ pc = "requesting" /\ AtAppendCap
  /\ Stop("append_cap")
  /\ UNCHANGED <<guardVars, tried, rounds, retry, answer, accepted, workfile>>

(* One call of the response, if the budget allows it. *)
Handle(call) ==
  /\ pc = "handling"
  /\ ~OutOfBudget(call)
  /\ GuardedCall(call)
  /\ left' = left - 1
  /\ pc' = IF left = 1 THEN "requesting" ELSE "handling"
  /\ UNCHANGED <<tried, rounds, retry, why, answer, accepted, workfile>>

(* The calls before this one were made; the rest of the response is dropped. *)
BudgetStop(call) ==
  /\ pc = "handling"
  /\ OutOfBudget(call)
  /\ Stop("tool_budget")
  /\ UNCHANGED <<guardVars, tried, rounds, retry, answer, accepted, workfile>>

Waiting ==
  \/ pc = "requesting" /\ ~AtAppendCap
  \/ pc = "handling" /\ \E call \in Call : ~OutOfBudget(call) /\ Waits(call)

(* A mutant: only the provider is under the wall clock. *)
WallClock_Requests ==
  /\ pc = "requesting" /\ ~AtAppendCap
  /\ Stop("wall_clock")
  /\ UNCHANGED <<guardVars, tried, rounds, retry, answer, accepted, workfile>>

(* asyncio.wait_for() cancels the conversation wherever it waits: for the  *)
(* provider, in a backoff delay, or for the Lean server.                   *)
WallClock ==
  /\ Waiting
  /\ Stop("wall_clock")
  /\ UNCHANGED <<guardVars, tried, rounds, retry, answer, accepted, workfile>>

(* Leaving the session may raise, and that exception takes the place of    *)
(* whatever ended the conversation.                                        *)
CloseSession ==
  /\ pc = "closing"
  /\ pc' = "stopping"
  /\ why' \in {why, "cancel_scope", "run_error"}
  /\ UNCHANGED <<guardVars, tried, rounds, retry, left, answer, accepted, workfile>>

-----------------------------------------------------------------------------
StopReason == IF why \in {"wall_clock", "request_timeout", "cancel_scope"}
              THEN "timeout" ELSE why

(* The final verify() takes the tactic or not; nothing with a sorry passes. *)
Verified(ok) ==
  /\ ok => tactic # Sorry
  /\ accepted' = IF ok THEN accepted \union {tactic} ELSE accepted

(* The model had its last word: the file is verified whatever it holds. *)
Conclude ==
  /\ pc = "stopping" /\ why = "done"
  /\ Finalize
  /\ \E ok \in BOOLEAN :
       /\ Verified(ok)
       /\ End([stop |-> IF ok THEN "complete" ELSE "incomplete",
               success |-> ok, partial |-> FALSE, tactic |-> tactic])
  /\ UNCHANGED <<tactic, tracker, trace, tried, rounds, retry, left, why>>

(* That verify() raises, and nothing catches it here. *)
ConcludeRaises ==
  /\ pc = "stopping" /\ why = "done"
  /\ Finalize
  /\ End(Raised)
  /\ UNCHANGED <<tactic, tracker, trace, tried, rounds, retry, left, why, accepted>>

(* A mutant: the verdict is that of the file, and the placeholder passes.  *)
Interrupted_AnySuccess ==
  /\ pc = "stopping" /\ why # "done"
  /\ Finalize
  /\ \E ok \in BOOLEAN :
       End([stop |-> IF ok THEN "complete" ELSE StopReason, success |-> ok,
            partial |-> ~ok, tactic |-> tactic])
  /\ UNCHANGED <<tactic, tracker, trace, tried, rounds, retry, left, why, accepted>>

(* _build_interrupted_run_result(): the latest candidate is verified if     *)
(* there is one, and a verify() that raises is one that failed.            *)
Interrupted ==
  /\ pc = "stopping" /\ why # "done"
  /\ Finalize
  /\ \E ok \in BOOLEAN :
       /\ Verified(ok)
       /\ End([stop |-> IF ok THEN "complete" ELSE StopReason, success |-> ok,
               partial |-> why # "run_error" /\ ~ok, tactic |-> tactic])
  /\ UNCHANGED <<tactic, tracker, trace, tried, rounds, retry, left, why>>

-----------------------------------------------------------------------------
(* The steps the code takes by itself: local ones, and calls of the Lean   *)
(* compiler and of the session, which have time limits of their own.       *)
Proceeds ==
  \/ Initialize \/ NoPlaceholder
  \/ \E t \in Tactics : TryFast(t)
  \/ FastExhausted
  \/ NoApiKey \/ OpenSession \/ OpenFails
  \/ AppendCap
  \/ \E call \in Call : BudgetStop(call)
  \/ CloseSession
  \/ Conclude \/ ConcludeRaises \/ Interrupted

(* The steps that need somebody else to answer, or the model to go on. *)
Answered ==
  \/ \E n \in 0 .. BatchSize : Reply(n)
  \/ Backoff \/ RequestFails
  \/ \E call \in Call : Handle(call)

Next == Proceeds \/ Answered \/ WallClock

Spec == Init /\ [][Next]_vars

(* No fairness for answers: the provider and the Lean server may be silent, *)
(* which is what the wall clock is for.  A call is certain to be handled   *)
(* only where no call could be waiting for the Lean server.                *)
LiveSpec ==
  /\ Spec
  /\ WF_vars(Proceeds) /\ WF_vars(WallClock)
  /\ WF_vars(\E call \in Call : ~Waiting /\ Handle(call))

-----------------------------------------------------------------------------
(* Properties.                                                             *)

(* Every variable has its type. *)
TypeOK ==
  /\ GuardTypeOK
  /\ pc \in PC
  /\ tried \in 0 .. FastAttempts /\ rounds \in Nat /\ retry \in 0 .. Retries
  /\ left \in 0 .. BatchSize
  /\ why \in Why
  /\ answer \in Answer \union {NoAnswer}
  /\ accepted \in SUBSET Tactics
  /\ workfile \in BOOLEAN

Ran(i, tools) == trace[i].status = "ran" /\ trace[i].tool \in tools
Entries(tools) == {i \in 1 .. Len(trace) : Ran(i, tools)}
ReadTools == {"diagnostics", "goal", "search"}

(* However the model mixes its calls over rounds and batches, the trace is *)
(* no longer than the tool budget, blocked calls included; it holds no     *)
(* more searches than the search budget; the counters reported beside it   *)
(* agree with it; and the requests keep to the append cap.                 *)
BudgetsKept ==
  /\ Len(trace) = tracker.total /\ Len(trace) <= MaxTotal
  /\ Cardinality(Entries({"search"})) = tracker.searches
  /\ tracker.searches <= MaxSearch
  /\ rounds <= MaxAppend + 1

(* The circuit breaker: between two checks of the diagnostics at most      *)
(* MaxUnchecked tactics are applied, whatever else is called in between.   *)
UncheckedAt(j) ==
  {i \in 1 .. j : Ran(i, {"apply_tactic"})
                  /\ \A k \in i .. j : ~Ran(k, {"diagnostics"})}

ChecksKeepUp ==
  \A j \in 1 .. Len(trace) : Cardinality(UncheckedAt(j)) <= MaxUnchecked

(* Between two tactics at most MaxReadOnly calls read, blocked ones aside. *)
ReadAt(j) ==
  {i \in 1 .. j : Ran(i, ReadTools) /\ \A k \in i .. j : ~Ran(k, {"apply_tactic"})}

ReadingEnds ==
  \A j \in 1 .. Len(trace) : Cardinality(ReadAt(j)) <= MaxReadOnly

(* A search runs only after a tactic that reached apply_tactic() was        *)
(* followed by an error report or by another such tactic.                  *)
Proposed(i) == trace[i].said \in {"written", "invalid"}

SearchesEarned ==
  \A s \in Entries({"search"}) :
    \E i, j \in 1 .. s - 1 :
      i < j /\ Proposed(i) /\ (Proposed(j) \/ trace[j].said = "errors")

(* The log of attempts tells what the trace shows: the n-th tactic that    *)
(* reached apply_tactic() is judged by the first readable diagnostics      *)
(* after it unless another tactic came first, and only the last one can be *)
(* open, until the run ends.                                               *)
Judgement(i) ==
  LET later == {j \in i + 1 .. Len(trace) :
                  Proposed(j) \/ trace[j].said \in {"clean", "errors"}}
      first == CHOOSE j \in later : \A k \in later : j <= k
  IN  IF later = {} THEN IF pc = "ended" THEN "unresolved" ELSE "pending"
      ELSE IF Proposed(first) THEN "superseded"
      ELSE trace[first].said

AttemptsJudged ==
  LET proposals == {i \in 1 .. Len(trace) : Proposed(i)} IN
    /\ Cardinality(proposals) = Len(attempts)
    /\ \A i \in proposals :
         attempts[Cardinality({j \in proposals : j <= i})].state = Judgement(i)

(* A result says what happened: proved and proof_complete go together, and *)
(* then the compiler accepted that very tactic block; a partial result is  *)
(* no proof; and the working file is gone.                                 *)
AnswersAreTrue ==
  answer # NoAnswer =>
    /\ pc = "ended" /\ ~workfile
    /\ answer.success <=> answer.stop = "complete"
    /\ answer.success => answer.tactic \in accepted /\ ~answer.partial

(* Before the model is asked, and whenever it has not written a tactic, the *)
(* file holds the placeholder: what an interrupted run verifies and returns *)
(* is never a leftover of the fast path.                                   *)
NoLeftover ==
  pc \notin {"fast", "ended"} /\ (\A i \in 1 .. Len(trace) : trace[i].said # "written")
    => tactic = Sorry

(* The attempt as its callers see it. *)
Phase == CASE pc = "start" -> "waiting" [] pc = "ended" -> "ended" [] OTHER -> "working"

Promised ==
  IF answer = NoAnswer \/ answer = Raised THEN answer
  ELSE [success |-> answer.success, proof |-> answer.tactic]

Attempts == INSTANCE ProofAttempt
  WITH Proofs <- Tactics \union {Sorry}, phase <- Phase, answer <- Promised

(* The loop keeps the promises of ProofAttempt, that it ends included.     *)
KeepsPromises == Attempts!Spec

=============================================================================
