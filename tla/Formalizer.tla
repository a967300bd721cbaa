----------------------------- MODULE Formalizer -----------------------------
(***************************************************************************)
(* formalize() and sorry_validate() of src/src/formalizer.py, run by       *)
(* several threads at once: retrieval, formalization cache, at most two    *)
(* calls of the model and one deterministic repair, and the validation of  *)
(* each candidate by lean_run_code or, failing that, by writing the one    *)
(* file Proof.lean and compiling it.                                       *)
(*                                                                         *)
(* A candidate is named by its thread and a number: 1 is the first one,    *)
(* 2 its repair or the second call's answer, 3 the answer after a repair.  *)
(***************************************************************************)
EXTENDS LeanMcp

CONSTANTS
  Threads,   \* calls of formalize()
  Claims,    \* claim texts with their preambles: cache keys
  NoPlan,    \* what a claim without a search plan has
  PlanOf     \* the search plan that each claim text leads to

ASSUME PlanAssumption == PlanOf \in [Claims -> Plans \union {NoPlan}]

MaxModelCalls  == 2   \* MAX_FORMALIZATION_MODEL_CALLS
MaxValidations == 3   \* MAX_FORMALIZATION_VALIDATIONS

Candidate == Threads \X (1 .. MaxValidations)
Nothing   == <<>>     \* no candidate

VARIABLES
  pc,           \* where each call stands
  claim,        \* its claim
  attempt,      \* its calls of the model
  current,      \* number of its latest candidate
  validations,  \* validation_calls
  valid,        \* the candidate its latest validation found no error in
  reason,       \* fallback reason of its latest validation
  answer,       \* what formalize() returns
  disabled,     \* _LEAN_RUN_CODE_DISABLED_REASON
  proofFile,    \* the candidate in Proof.lean
  cache,        \* formalization_cache
  overwritten   \* history: calls whose Proof.lean another one replaced

callVars   == <<claim, attempt, current, validations, valid, reason, answer>>
sharedVars == <<disabled, proofFile, cache>>
vars       == <<mcpVars, pc, callVars, sharedVars, overwritten>>

PC == {"begin", "retrieving", "looking", "calling", "validating", "running",
       "clearing", "noting", "writing", "compiling", "judging", "diagnosing",
       "done", "raised"}
Ended == {"done", "raised"}

(* checked is a history: the candidate the verdict was about. *)
NoAnswer == [kind |-> "none", candidate |-> Nothing, checked |-> Nothing, replayed |-> FALSE]
Answer   == [kind : {"none", "success", "refused", "failed"}, replayed : BOOLEAN,
             candidate : Candidate \union {Nothing}, checked : Candidate \union {Nothing}]

Init ==
  /\ McpInit
  /\ pc = [t \in Threads |-> "begin"]
  /\ claim \in [Threads -> Claims]
  /\ attempt = [t \in Threads |-> 0]
  /\ current = [t \in Threads |-> 0]
  /\ validations = [t \in Threads |-> 0]
  /\ valid = [t \in Threads |-> Nothing]
  /\ reason = [t \in Threads |-> "none"]
  /\ answer = [t \in Threads |-> NoAnswer]
  /\ disabled = "none"
  /\ proofFile = Nothing
  /\ cache = [c \in Claims |-> NoAnswer]
  /\ overwritten = {}

At(t, from, to) == pc[t] = from /\ pc' = [pc EXCEPT ![t] = to]
Code(t)         == <<t, current[t]>>

Returns(t, kind) ==
  answer' = [answer EXCEPT ![t] =
    [kind |-> kind, candidate |-> IF kind = "success" THEN Code(t) ELSE Nothing,
     checked |-> valid[t], replayed |-> FALSE]]

(* A mutant: whatever is returned is cached. *)
CachePut_All(t) == cache' = [cache EXCEPT ![claim[t]] = answer'[t]]

(* put() keeps successes and refusals only: should_cache(). *)
CachePut(t) ==
  cache' = IF answer'[t].kind \in {"success", "refused"}
           THEN [cache EXCEPT ![claim[t]] = answer'[t]] ELSE cache

-----------------------------------------------------------------------------
(* _build_runtime_search_plan(): what the claim's text leads to. *)
Plan(t) == PlanOf[claim[t]]

(* build_formalization_context(): retrieval comes before the cache, since  *)
(* the preambles it works with are part of the cache key.                  *)
SkipRetrieval(t) ==
  /\ At(t, "begin", "looking")
  /\ Skips(Plan(t))
  /\ UNCHANGED <<mcpVars, callVars, sharedVars, overwritten>>

BeginRetrieval(t) ==
  /\ At(t, "begin", "retrieving")
  /\ ~Skips(Plan(t))
  /\ UNCHANGED <<mcpVars, callVars, sharedVars, overwritten>>

Retrieve(t) ==
  /\ At(t, "retrieving", "looking")
  /\ SearchReturns(Plan(t)) \/ SearchFails
  /\ UNCHANGED <<callVars, sharedVars, overwritten>>

CacheHit(t) ==
  /\ At(t, "looking", "done")
  /\ cache[claim[t]] # NoAnswer
  /\ answer' = [answer EXCEPT ![t] = [cache[claim[t]] EXCEPT !.replayed = TRUE]]
  /\ UNCHANGED <<mcpVars, claim, attempt, current, validations, valid,
                 reason, sharedVars, overwritten>>

CacheMiss(t) ==
  /\ At(t, "looking", "calling")
  /\ cache[claim[t]] = NoAnswer
  /\ UNCHANGED <<mcpVars, callVars, sharedVars, overwritten>>

-----------------------------------------------------------------------------
(* The model says FORMALIZATION_FAILED, on either call. *)
Refuse(t) ==
  /\ At(t, "calling", "done")
  /\ attempt' = [attempt EXCEPT ![t] = @ + 1]
  /\ Returns(t, "refused")
  /\ CachePut(t)
  /\ UNCHANGED <<mcpVars, claim, current, validations, valid, reason,
                 disabled, proofFile, overwritten>>

(* call_leanstral() gave up after its retries: nothing catches it. *)
CallRaises(t) ==
  /\ At(t, "calling", "raised")
  /\ UNCHANGED <<mcpVars, callVars, sharedVars, overwritten>>

(* A candidate that goes on to its validation. *)
Propose(t) ==
  /\ At(t, "calling", "validating")
  /\ attempt' = [attempt EXCEPT ![t] = @ + 1]
  /\ current' = [current EXCEPT ![t] = @ + 1]
  /\ UNCHANGED <<mcpVars, claim, validations, valid, reason,
                 answer, sharedVars, overwritten>>

AfterAttempt(n) == IF n < MaxModelCalls THEN "calling" ELSE "diagnosing"

(* One that its shape disqualifies (acceptance errors) is not validated.   *)
RejectShape(t) ==
  /\ At(t, "calling", AfterAttempt(attempt[t] + 1))
  /\ attempt' = [attempt EXCEPT ![t] = @ + 1]
  /\ current' = [current EXCEPT ![t] = @ + 1]
  /\ UNCHANGED <<mcpVars, claim, validations, valid, reason,
                 answer, sharedVars, overwritten>>

-----------------------------------------------------------------------------
(* A mutant: only the breaker is asked. *)
TryRunCode_IgnoresFlag(t) ==
  /\ At(t, "validating", "running")
  /\ Available("validation")
  /\ validations' = [validations EXCEPT ![t] = @ + 1]
  /\ UNCHANGED <<mcpVars, claim, attempt, current, valid, reason, answer,
                 sharedVars, overwritten>>

(* sorry_validate(): may lean_run_code be tried?  First the breaker, then   *)
(* the flag.  run_code() asks the breaker once more, in RunCodeFails.      *)
TryRunCode(t) ==
  /\ At(t, "validating", "running")
  /\ Available("validation") /\ disabled = "none"
  /\ validations' = [validations EXCEPT ![t] = @ + 1]
  /\ UNCHANGED <<mcpVars, claim, attempt, current, valid, reason, answer,
                 sharedVars, overwritten>>

(* A mutant: what the flag forbids has no way out. *)
SkipRunCode_Flagless(t) ==
  /\ At(t, "validating", "writing")
  /\ ~Available("validation")
  /\ reason' = [reason EXCEPT ![t] = Normalized(Blocked)]
  /\ validations' = [validations EXCEPT ![t] = @ + 1]
  /\ UNCHANGED <<mcpVars, claim, attempt, current, valid, answer,
                 sharedVars, overwritten>>

SkipRunCode(t) ==
  /\ At(t, "validating", "writing")
  /\ ~Available("validation") \/ disabled # "none"
  /\ reason' = [reason EXCEPT ![t] =
       Normalized(IF Available("validation") THEN disabled ELSE Blocked)]
  /\ validations' = [validations EXCEPT ![t] = @ + 1]
  /\ UNCHANGED <<mcpVars, claim, attempt, current, valid, answer,
                 sharedVars, overwritten>>

(* The tool answers, at once or on the one retry after a project-path      *)
(* error.  No error in the answer is as good as success.                   *)
RunCodeReturns(t) ==
  /\ At(t, "running", "clearing")
  /\ MarkSuccess("validation") /\ UNCHANGED found
  /\ \E verdict \in {Code(t), Nothing} : valid' = [valid EXCEPT ![t] = verdict]
  /\ UNCHANGED <<claim, attempt, current, validations, reason,
                 answer, sharedVars, overwritten>>

(* Another call opened the breaker in between; or the session, its         *)
(* bootstrap or the tool fails: a RuntimeError opens the breaker, any      *)
(* other exception, which may have no text, only reaches sorry_validate(). *)
RunCodeFails(t) ==
  /\ At(t, "running", "noting")
  /\ \E text \in Texts \union {"temporarily disabled", "none"} :
       /\ reason' = [reason EXCEPT ![t] = Normalized(text)]
       /\ \/ ~Available("validation") /\ text = Blocked /\ UNCHANGED cooling
          \/ text \in Texts /\ MarkFailure("validation", text)
          \/ text \in {"something else", "none"} /\ UNCHANGED cooling
  /\ UNCHANGED <<found, claim, attempt, current, validations, valid,
                 answer, sharedVars, overwritten>>

ClearFlag(t) ==
  /\ At(t, "clearing", "judging")
  /\ disabled' = "none"
  /\ UNCHANGED <<mcpVars, callVars, proofFile, cache, overwritten>>

(* Whatever went wrong, except a cooldown, disables lean_run_code, if the  *)
(* exception says anything.                                                *)
SetFlag(t) ==
  /\ At(t, "noting", "writing")
  /\ disabled' = IF reason[t] \in {"cooldown", "none"} THEN disabled ELSE reason[t]
  /\ UNCHANGED <<mcpVars, callVars, proofFile, cache, overwritten>>

(* A mutant: a repaired candidate is not written again. *)
WriteProof_Once(t) ==
  /\ At(t, "writing", "compiling")
  /\ proofFile' = IF proofFile = Nothing \/ proofFile[1] # t THEN Code(t) ELSE proofFile
  /\ overwritten' = (overwritten \ {t}) \union {s \in Threads : pc[s] = "compiling"}
  /\ UNCHANGED <<mcpVars, callVars, disabled, cache>>

(* The fallback: Proof.lean is written, then compiled. *)
WriteProof(t) ==
  /\ At(t, "writing", "compiling")
  /\ proofFile' = Code(t)
  /\ overwritten' = (overwritten \ {t}) \union {s \in Threads : pc[s] = "compiling"}
  /\ UNCHANGED <<mcpVars, callVars, disabled, cache>>

(* _record_validation() normalizes the reason, which is a code by now.      *)
Recorded(code) == Normalized(code)

CompileProof(t) ==
  /\ At(t, "compiling", "judging")
  /\ \E verdict \in {proofFile, Nothing} : valid' = [valid EXCEPT ![t] = verdict]
  /\ reason' = [reason EXCEPT ![t] = Recorded(@)]
  /\ UNCHANGED <<mcpVars, claim, attempt, current, validations, answer,
                 sharedVars, overwritten>>

-----------------------------------------------------------------------------
(* A validation's outcome is not used again: forgotten here. *)
Judged(t) ==
  /\ reason' = [reason EXCEPT ![t] = "none"]
  /\ valid' = [valid EXCEPT ![t] = Nothing]
  /\ overwritten' = overwritten \ {t}

Accept(t) ==
  /\ At(t, "judging", "done")
  /\ valid[t] # Nothing
  /\ Returns(t, "success")
  /\ CachePut(t)
  /\ UNCHANGED <<mcpVars, claim, attempt, current, validations, valid, reason,
                 disabled, proofFile, overwritten>>

(* A mutant: a repair may follow any validation. *)
MayRepair_Always(t) == TRUE

(* A repair is tried on the first attempt, after its first validation.     *)
MayRepair(t) == attempt[t] = 1 /\ validations[t] = 1

(* The deterministic repair changed the candidate: validated once more.    *)
Repair(t) ==
  /\ At(t, "judging", "validating")
  /\ valid[t] = Nothing /\ MayRepair(t)
  /\ Judged(t)
  /\ current' = [current EXCEPT ![t] = @ + 1]
  /\ UNCHANGED <<mcpVars, claim, attempt, validations, answer, sharedVars>>

GiveUpAttempt(t) ==
  /\ At(t, "judging", AfterAttempt(attempt[t]))
  /\ valid[t] = Nothing
  /\ Judged(t)
  /\ UNCHANGED <<mcpVars, claim, attempt, current, validations, answer, sharedVars>>

(* A mutant: a failure is cached with the rest. *)
Diagnose_Caches(t) ==
  /\ At(t, "diagnosing", "done")
  /\ Returns(t, "failed")
  /\ CachePut_All(t)
  /\ UNCHANGED <<mcpVars, claim, attempt, current, validations, valid,
                 reason, disabled, proofFile, overwritten>>

(* One more call of the model explains the failure; its own is swallowed.  *)
Diagnose(t) ==
  /\ At(t, "diagnosing", "done")
  /\ Returns(t, "failed")
  /\ UNCHANGED <<mcpVars, claim, attempt, current, validations, valid,
                 reason, sharedVars, overwritten>>

Step(t) ==
  \/ SkipRetrieval(t) \/ BeginRetrieval(t) \/ Retrieve(t)
  \/ CacheHit(t) \/ CacheMiss(t)
  \/ Refuse(t) \/ CallRaises(t) \/ Propose(t) \/ RejectShape(t)
  \/ TryRunCode(t) \/ SkipRunCode(t)
  \/ RunCodeReturns(t) \/ RunCodeFails(t) \/ ClearFlag(t) \/ SetFlag(t)
  \/ WriteProof(t) \/ CompileProof(t)
  \/ Accept(t) \/ Repair(t) \/ GiveUpAttempt(t) \/ Diagnose(t)

Cooldown ==
  \E c \in Capability : Cool(c) /\ UNCHANGED <<pc, callVars, sharedVars, overwritten>>

Next == (\E t \in Threads : Step(t)) \/ Cooldown

Spec == Init /\ [][Next]_vars

(* A thread goes on: Lean and its MCP server are called with time limits,  *)
(* and the provider is assumed to answer or to fail.                       *)
LiveSpec == Spec /\ \A t \in Threads : WF_vars(Step(t))

-----------------------------------------------------------------------------
(* Properties.                                                             *)

(* Every variable has its type. *)
TypeOK ==
  /\ McpTypeOK
  /\ pc \in [Threads -> PC]
  /\ claim \in [Threads -> Claims]
  /\ attempt \in [Threads -> 0 .. MaxModelCalls]
  /\ current \in [Threads -> 0 .. MaxValidations]
  /\ validations \in [Threads -> 0 .. MaxValidations]
  /\ valid \in [Threads -> Candidate \union {Nothing}]
  /\ reason \in [Threads -> Codes \union {"none"}]
  /\ answer \in [Threads -> Answer]
  /\ disabled \in Codes \union {"none"}
  /\ proofFile \in Candidate \union {Nothing}
  /\ cache \in [Claims -> Answer]
  /\ overwritten \in SUBSET Threads

Succeeded(t) == answer[t].kind = "success" /\ ~answer[t].replayed

(* Unless another thread replaced Proof.lean between a write and its       *)
(* check, a success is a theorem that passed: through repairs, second      *)
(* attempts and changes of the method, the verdict is never about an       *)
(* earlier candidate.                                                      *)
SoundUnlessOverwritten ==
  \A t \in Threads : Succeeded(t) /\ t \notin overwritten => answer[t].candidate = answer[t].checked

(* The cache holds successes and refusals of calls for that very claim,    *)
(* and a replayed answer is one of them: a failure, which a lost session   *)
(* may have caused, is tried again.                                        *)
CacheIsGenuine ==
  /\ \A c \in Claims : cache[c] # NoAnswer =>
       \E t \in Threads : claim[t] = c /\ cache[c] = answer[t]
                          /\ answer[t].kind \in {"success", "refused"}
  /\ \A t \in Threads : answer[t].replayed =>
       \E s \in Threads : s # t /\ claim[s] = claim[t]
                          /\ answer[t] = [answer[s] EXCEPT !.replayed = TRUE]

(* Only a call that was already using lean_run_code when another one gave  *)
(* it up can bring it back; when there is none, it is given up until the   *)
(* process ends, in whatever order the flags are set and cleared.          *)
GivenUp == disabled # "none" /\ \A t \in Threads : pc[t] \notin {"running", "clearing"}

GivenUpForGood == [][GivenUp => GivenUp']_vars

(* Every call ends: within two calls of the model and three validations,   *)
(* and whatever the sessions do.                                           *)
FormalizationsEnd == \A t \in Threads : pc[t] = "begin" ~> pc[t] \in Ended

-----------------------------------------------------------------------------
(* What the code's texts say and the code does not do.                     *)

(* formalizer.py: "success (bool): True if sorry-validation passed". *)
TheoremPassed == \A t \in Threads : Succeeded(t) => answer[t].candidate = answer[t].checked
=============================================================================
