----------------------------- MODULE Benchmark ------------------------------
(***************************************************************************)
(* src/src/benchmark_harness.py: build_snapshot() runs every lane of every *)
(* case a number of times, through the formalizer and run_pipeline(), and  *)
(* adds the attempts up.  The two caches, the events each attempt collects *)
(* and the telemetry of the calls it pays for are what couples attempts.   *)
(*                                                                         *)
(* A theorem is named by its case and by what it is made from, the claim   *)
(* or the Lean text.  A case's stub and its raw Lean are one text, as in   *)
(* the repository's benchmark files, and so one key of the result cache.   *)
(***************************************************************************)
EXTENDS Naturals, Sequences, FiniteSets, SequencesExt

CONSTANTS
  Suite,        \* the cases in their order, see SuiteAssumption
  Repetitions   \* --repetitions

Inputs  == {"claim", "stub", "lean"}
Sources == {"claim", "text"}

(* "marked" are the sources that _is_raw_lean_input() takes for Lean.      *)
ASSUME RepetitionsAssumption == Repetitions \in Nat \ {0}
ASSUME SuiteAssumption ==
  Suite \in Seq([tier : STRING, has : (SUBSET Inputs) \ {{}}, marked : SUBSET Sources])

Cases     == DOMAIN Suite
FullLanes == <<"raw_claim_full_api", "theorem_stub_verify", "raw_lean_verify">>
OneLane   == <<"formalizer_only">>
AllLanes  == ToSet(FullLanes) \union ToSet(OneLane)
Theorems  == Cases \X Sources

(* The calls of the provider: the formalizer's, the grader's, the requests *)
(* of the prover that ended, and the one it was waiting for at its end.    *)
ProverCalls == {"prove", "in_flight"}
Calls       == {"formalize", "grade"} \union ProverCalls

VARIABLES
  lanes,       \* selected_lanes
  useCache,    \* --use-cache
  place,       \* the case, the lane and the attempt that are due
  pc,
  errors,      \* stages of the attempt's error events
  attempt,     \* what is known of it
  attempts,    \* the attempts of each case and lane, summarized
  formalized,  \* formalization_cache: what it holds for each source
  proved,      \* result_cache: the theorems it holds
  kept         \* those it held before the benchmark began

recordVars == <<lanes, useCache, place, attempts, kept>>
cacheVars  == <<formalized, proved>>
vars       == <<recordVars, cacheVars, pc, errors, attempt>>

(* spent is a history: the calls that were made, whoever reports them.     *)
Trial == [success : BOOLEAN, theorem : BOOLEAN, replay : BOOLEAN, timeout : BOOLEAN,
          reported : SUBSET Calls, spent : SUBSET Calls]

Blank == [success |-> FALSE, theorem |-> FALSE, replay |-> FALSE, timeout |-> FALSE,
          reported |-> {}, spent |-> {}]

(* _lane_attempt_summary(); "theorem" says whether there was one.          *)
Attempt == [success : BOOLEAN, theorem : BOOLEAN, replay : BOOLEAN,
            stage : {"none", "formalize", "prove", "prover_dispatch", "verify"},
            code : {"none", "formalization", "timeout", "unverified"}]

Lane       == lanes[place.lane]
Needed(l)  == CASE l = "theorem_stub_verify" -> "stub"
                [] l = "raw_lean_verify"     -> "lean"
                [] OTHER                     -> "claim"
Applicable(c, l) == Needed(l) \in Suite[c].has
Source(l)        == IF Needed(l) = "claim" THEN "claim" ELSE "text"
TheoremOf(c, l)  == <<c, Source(l)>>
Marked(c, l)     == Source(l) \in Suite[c].marked

(* The theorems some lane looks for, and those it needs the formalizer for *)
Wanted(ls) == {TheoremOf(x[1], x[2]) : x \in {y \in Cases \X ls : Applicable(y[1], y[2])}}
Asked      == {x \in Wanted(AllLanes \ {"theorem_stub_verify"}) : x[2] \notin Suite[x[1]].marked}

(* Both caches are kept on disk: with --use-cache the benchmark may find   *)
(* anything in them; what it never asks for is left out.  Whether the      *)
(* result cache has the theorem that a claim not formalized yet will get   *)
(* is chosen here: the first success is cached, and stays.                 *)
Init ==
  /\ lanes \in {FullLanes, OneLane}
  /\ useCache \in BOOLEAN
  /\ place = [case |-> 1, lane |-> 1, run |-> 1]
  /\ pc = "due"
  /\ errors = <<>>
  /\ attempt = Blank
  /\ attempts = [c \in Cases |-> [l \in AllLanes |-> <<>>]]
  /\ formalized \in {f \in [Theorems -> {"nothing", "success", "refused"}] :
                      \A x \in Theorems : f[x] # "nothing" => useCache /\ x \in Asked}
  /\ kept \in IF useCache THEN SUBSET Wanted(ToSet(FullLanes)) ELSE {{}}
  /\ proved = kept

Due      == TheoremOf(place.case, Lane)
Replayed == useCache /\ Due \in proved

At(from, to) == pc = from /\ pc' = to

-----------------------------------------------------------------------------
(* A mutant: the count of repetitions is not begun again.                  *)
NextPlace_NoReset ==
  IF place.lane < Len(lanes)
  THEN [place EXCEPT !.lane = @ + 1]
  ELSE [place EXCEPT !.case = @ + 1, !.lane = 1]

(* The loops: cases, lanes, repetitions. *)
NextPlace ==
  IF place.lane < Len(lanes)
  THEN [place EXCEPT !.lane = @ + 1, !.run = 1]
  ELSE [place EXCEPT !.case = @ + 1, !.lane = 1, !.run = 1]

(* A mutant: a lane that does not apply is looked at again. *)
SkipLane_Stays ==
  /\ pc = "due" /\ place.case \in Cases
  /\ ~Applicable(place.case, Lane)
  /\ UNCHANGED vars

SkipLane ==
  /\ pc = "due" /\ place.case \in Cases
  /\ ~Applicable(place.case, Lane)
  /\ place' = NextPlace
  /\ UNCHANGED <<lanes, useCache, attempts, kept, cacheVars, pc, errors, attempt>>

(* The stub goes to run_pipeline() as a theorem.  Raw Lean goes there as   *)
(* it is: the result cache is asked first, and then formalize_claim(),     *)
(* which passes on what looks like Lean and has the rest formalized, as    *)
(* for the claim.                                                          *)
FirstStep ==
  CASE Lane = "theorem_stub_verify" -> "proving"
    [] Lane = "raw_lean_verify" ->
         IF Replayed \/ Marked(place.case, Lane) THEN "proving" ELSE "formalizing"
    [] OTHER -> IF Marked(place.case, Lane) THEN "grading" ELSE "formalizing"

BeginAttempt ==
  /\ place.case \in Cases /\ Applicable(place.case, Lane)
  /\ At("due", FirstStep)
  /\ attempt' = [Blank EXCEPT !.theorem = FirstStep # "formalizing"]
  /\ errors' = <<>>
  /\ UNCHANGED <<recordVars, cacheVars>>

AfterRun ==
  IF place.run < Repetitions THEN [place EXCEPT !.run = @ + 1] ELSE NextPlace

-----------------------------------------------------------------------------
(* The graded lanes grade a theorem before it is proved.                   *)
Formalized(success) ==
  IF ~success THEN "judged" ELSE IF Lane = "raw_lean_verify" THEN "proving" ELSE "grading"

(* formalize_claim(): formalize() answers from its cache, which holds      *)
(* successes and refusals and gives them back without their telemetry...   *)
FormalizeReplays ==
  /\ At("formalizing", Formalized(formalized[Due] = "success"))
  /\ useCache /\ formalized[Due] # "nothing"
  /\ attempt' = [attempt EXCEPT !.theorem = formalized[Due] = "success"]
  /\ errors' = IF formalized[Due] = "success" THEN errors ELSE Append(errors, "formalize")
  /\ UNCHANGED <<recordVars, cacheVars>>

(* ... or it calls the model, and may log an error before it succeeds.     *)
Formalize ==
  /\ \E outcome \in {"success", "refused", "failed"} :
       /\ At("formalizing", Formalized(outcome = "success"))
       /\ attempt' = [attempt EXCEPT !.theorem = outcome = "success",
                        !.spent = @ \union {"formalize"},
                        !.reported = @ \union {"formalize"}]
       /\ \/ errors' = Append(errors, "formalize")
          \/ outcome = "success" /\ UNCHANGED errors
       /\ formalized' = IF useCache /\ outcome # "failed"
                        THEN [formalized EXCEPT ![Due] = outcome]
                        ELSE formalized
  /\ ~(useCache /\ formalized[Due] # "nothing")
  /\ UNCHANGED <<recordVars, proved>>

(* The semantic grader: one more call, whatever becomes of it. *)
Grade ==
  /\ At("grading", IF Lane = "formalizer_only" THEN "judged" ELSE "proving")
  /\ attempt' = [attempt EXCEPT !.success = Lane = "formalizer_only",
                   !.spent = @ \union {"grade"}, !.reported = @ \union {"grade"}]
  /\ UNCHANGED <<recordVars, cacheVars, errors>>

-----------------------------------------------------------------------------
(* A mutant: a replayed result keeps the telemetry it was stored with. *)
RunReplays_Charged ==
  /\ At("proving", "judged")
  /\ Replayed
  /\ attempt' = [attempt EXCEPT !.success = TRUE, !.replay = TRUE,
                   !.reported = @ \union {"prove"}]
  /\ UNCHANGED <<recordVars, cacheVars, errors>>

(* run_pipeline() from the result cache. *)
RunReplays ==
  /\ At("proving", "judged")
  /\ Replayed
  /\ attempt' = [attempt EXCEPT !.success = TRUE, !.replay = TRUE]
  /\ UNCHANGED <<recordVars, cacheVars, errors>>

(* What a run of the prover comes to, and which of its calls are in its    *)
(* telemetry: all that ended, none if the fast path proved the theorem or  *)
(* no session opened, and not the one that a cancellation (the wall clock) *)
(* cut short.  After the empty-tool-cycle error of the provider the answer *)
(* comes without any.  Whatever ended the run, the final check may pass if *)
(* the provider answered.                                                  *)
ProverRuns ==
  {r \in [success : BOOLEAN, timeout : BOOLEAN,
          spent : SUBSET ProverCalls, reported : SUBSET ProverCalls] :
     /\ r.success => ~r.timeout /\ r.spent # {"in_flight"}
     /\ \/ r.reported = r.spent \ {"in_flight"}
        \/ r.spent = {"prove"} /\ r.reported = {} /\ ~r.timeout}

(* A failure leaves an error of its own stage and then prover_dispatch's.  *)
Proves(r) ==
  /\ attempt' = [attempt EXCEPT !.success = r.success, !.timeout = r.timeout,
                   !.spent = @ \union r.spent, !.reported = @ \union r.reported]
  /\ errors' = IF r.success THEN errors ELSE errors \o <<"prove", "prover_dispatch">>

(* A mutant: the result is stored whether or not it is a success. *)
Run_StoresAll ==
  /\ At("proving", "judged")
  /\ ~Replayed
  /\ \E r \in ProverRuns : Proves(r)
  /\ proved' = IF useCache THEN proved \union {Due} ELSE proved
  /\ UNCHANGED <<recordVars, formalized>>

(* run_pipeline() without a cached result. *)
Run ==
  /\ At("proving", "judged")
  /\ ~Replayed
  /\ \E r \in ProverRuns :
       /\ Proves(r)
       /\ proved' = IF useCache /\ r.success THEN proved \union {Due} ELSE proved
  /\ UNCHANGED <<recordVars, formalized>>

(* Nothing catches what the formalizer or the prover raises: the benchmark *)
(* ends without a snapshot.                                                *)
Raise ==
  /\ pc \in {"formalizing", "proving"} /\ pc' = "raised"
  /\ UNCHANGED <<recordVars, cacheVars, errors, attempt>>

-----------------------------------------------------------------------------
Wrapper == {"prover_dispatch"}   \* WRAPPER_STAGES

(* A mutant: the last error, wrapper or not. *)
FailureStage_Last ==
  IF attempt.success THEN "none"
  ELSE IF errors # <<>> THEN Last(errors) ELSE "verify"

(* Lanes that call the formalizer themselves know that it failed. *)
Unformalized == ~attempt.theorem /\ Lane # "raw_lean_verify"

(* _failure_stage_from_events(): the last error that is not a wrapper's.   *)
FailureStage ==
  LET own == {i \in DOMAIN errors : errors[i] \notin Wrapper}
  IN  IF attempt.success THEN "none"
      ELSE IF own # {} THEN errors[Max(own)]
      ELSE IF errors # <<>> THEN Last(errors)
      ELSE IF Unformalized THEN "formalize" ELSE "verify"

(* formalize_error_code() when such a lane has no theorem, otherwise       *)
(* verify_error_code(): "timeout" is PROOF_TIMEOUT, "unverified" the rest. *)
ErrorCode ==
  IF attempt.success THEN "none"
  ELSE IF Unformalized THEN "formalization"
  ELSE IF attempt.timeout THEN "timeout" ELSE "unverified"

Entry == [success |-> attempt.success, theorem |-> attempt.theorem,
          replay |-> attempt.replay, stage |-> FailureStage, code |-> ErrorCode]

Record ==
  /\ At("judged", "due")
  /\ attempts' = [attempts EXCEPT ![place.case][Lane] = Append(@, Entry)]
  /\ place' = AfterRun
  /\ attempt' = Blank /\ errors' = <<>>
  /\ UNCHANGED <<lanes, useCache, kept, cacheVars>>

(* main() writes the snapshot and its report. *)
Write ==
  /\ At("due", "written")
  /\ place.case \notin Cases
  /\ UNCHANGED <<recordVars, cacheVars, errors, attempt>>

Next ==
  \/ SkipLane \/ BeginAttempt
  \/ FormalizeReplays \/ Formalize \/ Grade
  \/ RunReplays \/ Run \/ Raise
  \/ Record \/ Write

Spec == Init /\ [][Next]_vars

(* One thread, whose calls of the formalizer and the prover end.           *)
LiveSpec == Spec /\ WF_vars(Next)

-----------------------------------------------------------------------------
(* The snapshot's summaries of one lane. *)
Count(q, Test(_)) == Cardinality({i \in DOMAIN q : Test(q[i])})

(* _summarize_attempts(). *)
Summary(q) ==
  [attempts_run        |-> Len(q),
   successful_attempts |-> Count(q, LAMBDA a : a.success),
   pass_at_1           |-> q # <<>> /\ q[1].success,
   failure_stages      |-> Count(q, LAMBDA a : a.stage # "none"),
   error_codes         |-> [k \in {"formalization", "timeout", "unverified"} |->
                              Count(q, LAMBDA a : a.code = k)],
   cache_hits          |-> Count(q, LAMBDA a : a.replay)]

(* The attempts of the cases in cs, in their order; a case that the lane   *)
(* does not apply to has none. *)
AllAttempts(cs, l) ==
  FlattenSeq([c \in Cases |-> IF c \in cs THEN attempts[c][l] ELSE <<>>])

(* _aggregate_lane(), of the whole suite or of one tier. *)
Aggregate(cs, l) ==
  [Summary(AllAttempts(cs, l)) EXCEPT
     !.pass_at_1 = Cardinality({c \in cs : Summary(attempts[c][l]).pass_at_1})]

(* _aggregate_by_tier(). *)
Tiers      == {Suite[c].tier : c \in Cases}
OfTier(t)  == {c \in Cases : Suite[c].tier = t}

-----------------------------------------------------------------------------
(* Properties.                                                             *)

(* failure_stage and error_code say which half of the attempt failed:      *)
(* neither an error the formalizer recovered from nor the dispatcher's     *)
(* echo hides the prover's, and a success has none.  A formalization that  *)
(* failed inside run_pipeline() has the stage, but a code of verification. *)
FailuresExplained ==
  \A c \in Cases, l \in AllLanes : \A i \in DOMAIN attempts[c][l] :
    LET a == attempts[c][l][i] IN
    /\ a.stage = IF a.success THEN "none" ELSE IF a.theorem THEN "prove" ELSE "formalize"
    /\ (a.stage = "none") = (a.code = "none")
    /\ (a.code = "formalization") = (a.stage = "formalize" /\ l # "raw_lean_verify")
    /\ a.code = "timeout" => a.stage = "prove"
    /\ l = "theorem_stub_verify" \/ Marked(c, l) => a.stage # "formalize"

(* An attempt never reports a call it did not make: the telemetry that is  *)
(* cached with a result or a formalization is not charged to its replays.  *)
(* The formalizer's and the grader's calls are never missing.  Of the      *)
(* prover's, either the one in flight at the end is, or all the others     *)
(* are, and then the attempt does not pass for a timeout.                  *)
CallsCharged ==
  pc = "judged" =>
    LET missing == attempt.spent \ attempt.reported
    IN  /\ attempt.reported \subseteq attempt.spent
        /\ missing \subseteq ProverCalls
        /\ attempt.replay => missing = {}
        /\ "prove" \in missing => ~attempt.timeout /\ "in_flight" \notin missing

(* An attempt is a replay if and only if the cache is on and its theorem   *)
(* was in it when the benchmark began or has been proved since, by another *)
(* lane or repetition: no failure is ever replayed, and once an attempt    *)
(* has passed none of that theorem is tried again.  A claim must be        *)
(* formalized again before its theorem is found; raw Lean need not be.     *)
Earlier(c, k, j, l, i) ==
  /\ TheoremOf(c, k) = TheoremOf(c, l)
  /\ (k = l /\ j < i) \/ (k = "theorem_stub_verify" /\ l = "raw_lean_verify")

Earned(c, l, i) ==
  \/ TheoremOf(c, l) \in kept
  \/ \E k \in AllLanes : \E j \in DOMAIN attempts[c][k] :
       Earlier(c, k, j, l, i) /\ attempts[c][k][j].success

ReplaysEarned ==
  \A c \in Cases, l \in ToSet(FullLanes) :
    \A i \in DOMAIN attempts[c][l] :
      LET a == attempts[c][l][i]
      IN  a.replay <=> useCache /\ Earned(c, l, i) /\ (Source(l) = "claim" => a.theorem)

(* A snapshot that was written is complete, and its numbers add up: every  *)
(* lane has all attempts of its cases, each one either a success or under  *)
(* one failure stage and one code, and the tiers add up to the whole.      *)
SnapshotAddsUp ==
  pc = "written" =>
    \A l \in ToSet(lanes) :
      LET all     == Aggregate(Cases, l)
          tier(t) == Aggregate(OfTier(t), l)
      IN  /\ all.attempts_run = Repetitions * Cardinality({c \in Cases : Applicable(c, l)})
          /\ all.attempts_run = all.successful_attempts + all.failure_stages
          /\ all.failure_stages = all.error_codes["formalization"]
               + all.error_codes["timeout"] + all.error_codes["unverified"]
          /\ all.cache_hits <= all.successful_attempts
          /\ all.pass_at_1 <= all.successful_attempts
          /\ all.attempts_run = SumFunction([t \in Tiers |-> tier(t).attempts_run])
          /\ all.successful_attempts =
               SumFunction([t \in Tiers |-> tier(t).successful_attempts])
          /\ all.pass_at_1 = SumFunction([t \in Tiers |-> tier(t).pass_at_1])

(* The benchmark ends, with a snapshot or with an exception. *)
BenchmarkEnds == <>(pc \in {"written", "raised"})
=============================================================================
