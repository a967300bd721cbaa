--------------------------- MODULE Benchmark_proofs ---------------------------
(***************************************************************************)
(* What Benchmark promises, for every suite and every number of            *)
(* repetitions, whatever the formalizer and the prover answer.             *)
(***************************************************************************)
EXTENDS Benchmark, SumTheorems

-----------------------------------------------------------------------------
(* The inductive invariant.                                                *)

Working == {"formalizing", "grading", "proving", "judged"}

Typed ==
  /\ lanes \in {FullLanes, OneLane}
  /\ useCache \in BOOLEAN
  /\ place \in [case : Nat \ {0}, lane : 1 .. Len(lanes), run : 1 .. Repetitions]
  /\ pc \in Working \union {"due", "raised", "written"}
  /\ attempt \in Trial
  /\ attempts \in [Cases -> [AllLanes -> Seq(Attempt)]]
  /\ pc \in Working => place.case \in Cases /\ Applicable(place.case, Lane)
  /\ pc = "written" => place.case \notin Cases

(* What an attempt does not report of the calls it made. *)
Charged ==
  LET missing == attempt.spent \ attempt.reported
  IN  /\ attempt.reported \subseteq attempt.spent
      /\ missing \subseteq ProverCalls
      /\ attempt.replay => missing = {}
      /\ "prove" \in missing => ~attempt.timeout /\ "in_flight" \notin missing

(* Formalizing can fail in lane l of case c. *)
Fallible(c, l) == l # "theorem_stub_verify" /\ ~Marked(c, l)

Explained(a, c, l) ==
  /\ a.stage = IF a.success THEN "none" ELSE IF a.theorem THEN "prove" ELSE "formalize"
  /\ (a.stage = "none") = (a.code = "none")
  /\ (a.code = "formalization") = (a.stage = "formalize" /\ l # "raw_lean_verify")
  /\ a.code = "timeout" => a.stage = "prove"
  /\ a.stage = "formalize" => Fallible(c, l)

(* Before the prover, all calls are the formalizer's and the grader's.     *)
Unproved(a) == /\ ~a.success /\ ~a.replay /\ ~a.timeout
               /\ a.reported = a.spent /\ a.spent \intersect ProverCalls = {}

Recovered == {<<>>, <<"formalize">>}
GaveUp    == {<<"prove", "prover_dispatch">>, <<"formalize", "prove", "prover_dispatch">>}

(* The attempt under way, and the errors it has logged. *)
UnderWay ==
  /\ pc \in {"formalizing", "grading", "proving"} => Unproved(attempt)
  /\ pc = "formalizing" => ~attempt.theorem /\ errors = <<>> /\ Fallible(place.case, Lane)
  /\ pc \in {"grading", "proving"} => attempt.theorem /\ errors \in Recovered
  /\ pc = "proving" => Lane # "formalizer_only"
  /\ pc = "judged" => Charged
  /\ pc = "judged" /\ attempt.success => attempt.theorem
  /\ pc = "judged" /\ ~attempt.success =>
       IF attempt.theorem THEN errors \in GaveUp
       ELSE errors = <<"formalize">> /\ ~attempt.timeout /\ Fallible(place.case, Lane)

AllRecorded ==
  \A c \in Cases, l \in AllLanes : \A i \in DOMAIN attempts[c][l] :
    Explained(attempts[c][l][i], c, l)

(* Cases, lanes and repetitions come in their order, and none is left out  *)
(* or done twice.                                                          *)
Past(c, k) == c < place.case \/ (c = place.case /\ k < place.lane)
Here(c, k) == c = place.case /\ k = place.lane

InTurn ==
  /\ \A c \in Cases, k \in 1 .. Len(lanes) :
       Len(attempts[c][lanes[k]]) =
         IF ~Applicable(c, lanes[k]) THEN 0
         ELSE IF Past(c, k) THEN Repetitions
         ELSE IF Here(c, k) THEN place.run - 1 ELSE 0
  /\ \A c \in Cases, l \in AllLanes :
       (\A k \in 1 .. Len(lanes) : lanes[k] # l) => attempts[c][l] = <<>>
  /\ place.case \in Cases /\ ~Applicable(place.case, Lane) => place.run = 1

(* The result cache holds what it held before and what has passed since.   *)
Passed(x) ==
  \E c \in Cases, l \in ToSet(FullLanes) : \E i \in DOMAIN attempts[c][l] :
    TheoremOf(c, l) = x /\ attempts[c][l][i].success

Known(x) == x \in kept \/ Passed(x)

CacheTrue ==
  /\ useCache => \A x \in Theorems :
       x \in proved <=>
         \/ Known(x)
         \/ pc = "judged" /\ Lane # "formalizer_only" /\ attempt.success /\ x = Due
  /\ pc = "formalizing" /\ Lane = "raw_lean_verify" => ~Replayed
  /\ pc = "judged" =>
       (attempt.replay <=> /\ useCache /\ Lane # "formalizer_only" /\ Known(Due)
                           /\ Source(Lane) = "claim" => attempt.theorem)
  /\ ReplaysEarned
-----------------------------------------------------------------------------
(* The operators.                                                          *)

LEMMA LanesAre ==
  /\ ToSet(FullLanes) = {"raw_claim_full_api", "theorem_stub_verify", "raw_lean_verify"}
  /\ AllLanes = ToSet(FullLanes) \union {"formalizer_only"}
  /\ Len(FullLanes) = 3 /\ Len(OneLane) = 1
  /\ FullLanes[1] = "raw_claim_full_api" /\ FullLanes[2] = "theorem_stub_verify"
  /\ FullLanes[3] = "raw_lean_verify" /\ OneLane[1] = "formalizer_only"
<1>1. /\ Len(FullLanes) = 3 /\ Len(OneLane) = 1
      /\ FullLanes[1] = "raw_claim_full_api" /\ FullLanes[2] = "theorem_stub_verify"
      /\ FullLanes[3] = "raw_lean_verify" /\ OneLane[1] = "formalizer_only"
  BY DEF FullLanes, OneLane
<1>2. DOMAIN FullLanes = {1, 2, 3}
  BY DEF FullLanes
<1>3. ToSet(FullLanes) = {"raw_claim_full_api", "theorem_stub_verify", "raw_lean_verify"}
  BY <1>1, <1>2 DEF ToSet
<1>4. DOMAIN OneLane = {1}
  BY DEF OneLane
<1>5. ToSet(OneLane) = {"formalizer_only"}
  BY <1>1, <1>4 DEF ToSet
<1> QED
  BY <1>1, <1>3, <1>5 DEF AllLanes

LEMMA CasesAre ==
  Len(Suite) \in Nat /\ Cases = 1 .. Len(Suite) /\ Cases \subseteq Nat \ {0}
<1> DEFINE S == [tier : STRING, has : (SUBSET Inputs) \ {{}}, marked : SUBSET Sources]
<1>1. Suite \in Seq(S)
  BY SuiteAssumption
<1> HIDE DEF S
<1>2. Len(Suite) \in Nat /\ DOMAIN Suite = 1 .. Len(Suite)
  BY <1>1
<1> QED
  BY <1>2 DEF Cases

LEMMA LaneIs ==
  ASSUME Typed
  PROVE  /\ Len(lanes) \in {1, 3} /\ Lane \in AllLanes
         /\ \A k \in 1 .. Len(lanes) : lanes[k] \in AllLanes
         /\ lanes = OneLane => Lane = "formalizer_only"
         /\ lanes = FullLanes => Lane \in ToSet(FullLanes)
<1>1. CASE lanes = FullLanes
  <2>1. \A k \in 1 .. 3 : lanes[k] \in ToSet(FullLanes)
    BY <1>1, LanesAre
  <2>2. place.lane \in 1 .. 3 /\ Len(lanes) = 3
    BY <1>1, LanesAre DEF Typed
  <2>3. OneLane # FullLanes
    BY LanesAre
  <2> QED
    BY <1>1, <2>1, <2>2, <2>3, LanesAre DEF Lane
<1>2. CASE lanes = OneLane
  <2>1. place.lane = 1 /\ Len(lanes) = 1
    BY <1>2, LanesAre DEF Typed
  <2>2. OneLane # FullLanes
    BY LanesAre
  <2> QED
    BY <1>2, <2>1, <2>2, LanesAre DEF Lane
<1> QED
  BY <1>1, <1>2 DEF Typed

(* The loops end where the next place is out of the suite. *)
LEMMA PlacesGoOn ==
  ASSUME Typed
  PROVE  /\ NextPlace \in [case : Nat \ {0}, lane : 1 .. Len(lanes), run : 1 .. Repetitions]
         /\ AfterRun \in [case : Nat \ {0}, lane : 1 .. Len(lanes), run : 1 .. Repetitions]
         /\ NextPlace.run = 1
         /\ IF place.lane < Len(lanes)
            THEN NextPlace.case = place.case /\ NextPlace.lane = place.lane + 1
            ELSE NextPlace.case = place.case + 1 /\ NextPlace.lane = 1
         /\ IF place.run < Repetitions
            THEN /\ AfterRun.case = place.case /\ AfterRun.lane = place.lane
                 /\ AfterRun.run = place.run + 1
            ELSE AfterRun = NextPlace
<1>1. /\ place \in [case : Nat \ {0}, lane : 1 .. Len(lanes), run : 1 .. Repetitions]
      /\ Len(lanes) \in {1, 3} /\ Repetitions \in Nat \ {0}
  BY LaneIs, RepetitionsAssumption DEF Typed
<1>2. /\ place.case \in Nat \ {0} /\ place.lane \in 1 .. Len(lanes)
      /\ place.run \in 1 .. Repetitions
  BY <1>1
<1>3. NextPlace = [case |-> IF place.lane < Len(lanes) THEN place.case ELSE place.case + 1,
                   lane |-> IF place.lane < Len(lanes) THEN place.lane + 1 ELSE 1,
                   run  |-> 1]
  BY <1>1 DEF NextPlace
<1>4. place.run < Repetitions =>
        AfterRun = [case |-> place.case, lane |-> place.lane, run |-> place.run + 1]
  BY <1>1 DEF AfterRun
<1>5. place.run >= Repetitions => AfterRun = NextPlace
  BY <1>2, RepetitionsAssumption DEF AfterRun
<1>6. NextPlace \in [case : Nat \ {0}, lane : 1 .. Len(lanes), run : 1 .. Repetitions]
  BY <1>1, <1>2, <1>3
<1>7. AfterRun \in [case : Nat \ {0}, lane : 1 .. Len(lanes), run : 1 .. Repetitions]
  BY <1>1, <1>2, <1>4, <1>5, <1>6
<1> QED
  BY <1>1, <1>2, <1>3, <1>4, <1>5, <1>6, <1>7

(* Blank and the updates of an attempt are attempts. *)
LEMMA TrialChanges ==
  ASSUME NEW a \in Trial
  PROVE  /\ Blank \in Trial
         /\ \A t \in BOOLEAN : [Blank EXCEPT !.theorem = t] \in Trial
                               /\ [a EXCEPT !.theorem = t] \in Trial
         /\ \A t \in BOOLEAN, call \in Calls :
              [a EXCEPT !.theorem = t, !.spent = a.spent \union {call},
                        !.reported = a.reported \union {call}] \in Trial
         /\ \A t \in BOOLEAN, call \in Calls :
              [a EXCEPT !.success = t, !.spent = a.spent \union {call},
                        !.reported = a.reported \union {call}] \in Trial
         /\ [a EXCEPT !.success = TRUE, !.replay = TRUE] \in Trial
BY DEF Trial, Blank

LEMMA ProvesEffect ==
  ASSUME attempt \in Trial, NEW r \in ProverRuns, Proves(r)
  PROVE  /\ attempt' \in Trial
         /\ attempt'.success = r.success /\ attempt'.timeout = r.timeout
         /\ attempt'.theorem = attempt.theorem /\ attempt'.replay = attempt.replay
         /\ attempt'.spent = attempt.spent \union r.spent
         /\ attempt'.reported = attempt.reported \union r.reported
<1>1. /\ r.success \in BOOLEAN /\ r.timeout \in BOOLEAN
      /\ r.spent \subseteq Calls /\ r.reported \subseteq Calls
  BY DEF ProverRuns, Calls
<1> QED
  BY <1>1 DEF Proves, Trial

LEMMA MaxIs ==
  ASSUME NEW S \in SUBSET Nat, NEW m \in S, \A k \in S : k <= m
  PROVE  Max(S) = m
<1>1. Max(S) \in S /\ \A k \in S : Max(S) >= k
  BY DEF Max
<1>2. Max(S) \in Nat /\ m \in Nat /\ Max(S) >= m /\ Max(S) <= m
  BY <1>1
<1> QED
  BY <1>2

(* _failure_stage_from_events() of the errors an attempt can have logged.  *)
LEMMA StageIs ==
  ASSUME UnderWay, pc = "judged"
  PROVE  FailureStage = IF attempt.success THEN "none"
                        ELSE IF attempt.theorem THEN "prove" ELSE "formalize"
<1> DEFINE own == {i \in DOMAIN errors : errors[i] \notin Wrapper}
<1>1. FailureStage = IF attempt.success THEN "none"
                     ELSE IF own # {} THEN errors[Max(own)]
                     ELSE IF errors # <<>> THEN Last(errors)
                     ELSE IF Unformalized THEN "formalize" ELSE "verify"
  BY DEF FailureStage
<1>2. CASE ~attempt.success /\ ~attempt.theorem /\ errors = <<"formalize">>
  <2>1. DOMAIN errors = {1} /\ errors[1] = "formalize"
    BY <1>2
  <2>2. own = {1}
    BY <2>1 DEF Wrapper
  <2>3. Max(own) = 1
    BY <2>2, MaxIs
  <2> QED
    BY <1>1, <1>2, <2>1, <2>2, <2>3
<1>3. CASE ~attempt.success /\ attempt.theorem /\ errors = <<"prove", "prover_dispatch">>
  <2>1. DOMAIN errors = {1, 2} /\ errors[1] = "prove" /\ errors[2] = "prover_dispatch"
    BY <1>3
  <2>2. own = {1}
    BY <2>1 DEF Wrapper
  <2>3. Max(own) = 1
    BY <2>2, MaxIs
  <2> QED
    BY <1>1, <1>3, <2>1, <2>2, <2>3
<1>4. CASE /\ ~attempt.success /\ attempt.theorem
           /\ errors = <<"formalize", "prove", "prover_dispatch">>
  <2>1. /\ DOMAIN errors = {1, 2, 3}
        /\ errors[1] = "formalize" /\ errors[2] = "prove" /\ errors[3] = "prover_dispatch"
    BY <1>4
  <2>2. own = {1, 2}
    BY <2>1 DEF Wrapper
  <2>3. Max(own) = 2
    BY <2>2, MaxIs
  <2> QED
    BY <1>1, <1>4, <2>1, <2>2, <2>3
<1>5. CASE attempt.success
  BY <1>1, <1>5
<1> QED
  BY <1>2, <1>3, <1>4, <1>5 DEF UnderWay, GaveUp

LEMMA EntryIs ==
  ASSUME Typed, UnderWay, pc = "judged"
  PROVE  /\ Entry \in Attempt
         /\ Entry.success = attempt.success /\ Entry.replay = attempt.replay
         /\ Entry.theorem = attempt.theorem
         /\ Explained(Entry, place.case, Lane)
<1>1. attempt \in Trial
  BY DEF Typed
<1>2. FailureStage = IF attempt.success THEN "none"
                     ELSE IF attempt.theorem THEN "prove" ELSE "formalize"
  BY StageIs
<1>3. FailureStage \in {"none", "formalize", "prove", "prover_dispatch", "verify"}
  BY <1>2
<1>4. ErrorCode \in {"none", "formalization", "timeout", "unverified"}
  BY DEF ErrorCode
<1>5. /\ Entry \in Attempt
      /\ Entry.success = attempt.success /\ Entry.replay = attempt.replay
      /\ Entry.theorem = attempt.theorem
      /\ Entry.stage = FailureStage /\ Entry.code = ErrorCode
  BY <1>1, <1>3, <1>4 DEF Entry, Attempt, Trial
<1>6. Explained(Entry, place.case, Lane)
  <2>1. attempt.success => attempt.theorem
    BY DEF UnderWay
  <2>2. ~attempt.theorem => ~attempt.timeout /\ Fallible(place.case, Lane)
    BY <2>1 DEF UnderWay
  <2>3. /\ (FailureStage = "none") = (ErrorCode = "none")
        /\ (ErrorCode = "formalization") =
             (FailureStage = "formalize" /\ Lane # "raw_lean_verify")
        /\ ErrorCode = "timeout" => FailureStage = "prove"
        /\ FailureStage = "formalize" => Fallible(place.case, Lane)
    BY <1>2, <2>1, <2>2 DEF ErrorCode, Unformalized
  <2> QED
    BY <1>2, <1>5, <2>3 DEF Explained
<1> QED
  BY <1>5, <1>6

(* Record adds one attempt to its case and lane. *)
LEMMA RecordIs ==
  ASSUME Typed, Record
  PROVE  /\ pc = "judged" /\ pc' = "due" /\ place' = AfterRun /\ attempt' = Blank
         /\ UNCHANGED <<lanes, useCache, kept, formalized, proved>>
         /\ place.case \in Cases /\ Lane \in AllLanes
         /\ \A c \in Cases, l \in AllLanes :
              attempts'[c][l] = IF c = place.case /\ l = Lane
                                THEN Append(attempts[c][l], Entry) ELSE attempts[c][l]
         /\ attempts' = [attempts EXCEPT ![place.case][Lane] = Append(@, Entry)]
<1>1. place.case \in Cases /\ Lane \in AllLanes /\ attempts \in [Cases -> [AllLanes -> Seq(Attempt)]]
  BY LaneIs DEF Typed, Record, At, Working
<1>2. attempts' = [attempts EXCEPT ![place.case][Lane] = Append(@, Entry)]
  BY DEF Record
<1>3. \A c \in Cases, l \in AllLanes :
        attempts'[c][l] = IF c = place.case /\ l = Lane
                          THEN Append(attempts[c][l], Entry) ELSE attempts[c][l]
  BY <1>1, <1>2
<1> QED
  BY <1>1, <1>2, <1>3 DEF Record, At, cacheVars

LEMMA TypeStep ==
  ASSUME Typed, UnderWay, [Next]_vars
  PROVE  Typed'
<1> USE DEF recordVars, cacheVars
<1>0. /\ lanes \in {FullLanes, OneLane} /\ useCache \in BOOLEAN
      /\ place \in [case : Nat \ {0}, lane : 1 .. Len(lanes), run : 1 .. Repetitions]
      /\ attempt \in Trial /\ attempts \in [Cases -> [AllLanes -> Seq(Attempt)]]
      /\ pc \in Working => place.case \in Cases /\ Applicable(place.case, Lane)
  BY DEF Typed
<1>1. ASSUME UNCHANGED <<lanes, useCache, place, attempts>>, attempt' \in Trial,
             pc' \in Working \union {"due", "raised", "written"},
             pc' \in Working => place.case \in Cases /\ Applicable(place.case, Lane),
             pc' = "written" => place.case \notin Cases
      PROVE  Typed'
  BY <1>0, <1>1 DEF Typed, Applicable, Lane
<1>2. CASE SkipLane
  <2>1. place' = NextPlace /\ UNCHANGED <<lanes, useCache, attempts, pc, attempt>> /\ pc = "due"
    BY <1>2 DEF SkipLane
  <2> QED
    BY <1>0, <2>1, PlacesGoOn DEF Typed, Working
<1>3. CASE BeginAttempt
  <2>1. attempt' \in Trial
    BY <1>0, <1>3, TrialChanges DEF BeginAttempt
  <2> QED
    BY <1>1, <1>3, <2>1 DEF BeginAttempt, At, FirstStep, Working
<1>4. CASE FormalizeReplays
  <2>1. attempt' \in Trial
    BY <1>0, <1>4, TrialChanges DEF FormalizeReplays
  <2> QED
    BY <1>0, <1>1, <1>4, <2>1 DEF FormalizeReplays, At, Formalized, Working
<1>5. CASE Formalize
  <2>1. PICK t \in BOOLEAN :
          attempt' = [attempt EXCEPT !.theorem = t, !.spent = attempt.spent \union {"formalize"},
                        !.reported = attempt.reported \union {"formalize"}]
    BY <1>5 DEF Formalize
  <2>2. attempt' \in Trial
    BY <1>0, <2>1, TrialChanges DEF Calls
  <2> QED
    BY <1>0, <1>1, <1>5, <2>2 DEF Formalize, At, Formalized, Working
<1>6. CASE Grade
  <2>1. PICK t \in BOOLEAN :
          attempt' = [attempt EXCEPT !.success = t, !.spent = attempt.spent \union {"grade"},
                        !.reported = attempt.reported \union {"grade"}]
    BY <1>6 DEF Grade
  <2>2. attempt' \in Trial
    BY <1>0, <2>1, TrialChanges DEF Calls
  <2> QED
    BY <1>0, <1>1, <1>6, <2>2 DEF Grade, At, Working
<1>7. CASE RunReplays
  <2>1. attempt' \in Trial
    BY <1>0, <1>7, TrialChanges DEF RunReplays
  <2> QED
    BY <1>0, <1>1, <1>7, <2>1 DEF RunReplays, At, Working
<1>8. CASE Run
  <2>1. PICK r \in ProverRuns : Proves(r)
    BY <1>8 DEF Run
  <2>2. attempt' \in Trial
    BY <1>0, <2>1, ProvesEffect
  <2> QED
    BY <1>0, <1>1, <1>8, <2>2 DEF Run, At, Working
<1>9. CASE Raise
  BY <1>0, <1>1, <1>9 DEF Raise, Working
<1>10. CASE Record
  <2>1. /\ pc = "judged" /\ pc' = "due" /\ place' = AfterRun /\ attempt' = Blank
        /\ UNCHANGED <<lanes, useCache>> /\ place.case \in Cases /\ Lane \in AllLanes
        /\ attempts' = [attempts EXCEPT ![place.case][Lane] = Append(@, Entry)]
    BY <1>10, RecordIs
  <2>2. Append(attempts[place.case][Lane], Entry) \in Seq(Attempt)
    <3>1. attempts[place.case][Lane] \in Seq(Attempt)
      BY <1>0, <2>1
    <3> QED
      BY <2>1, <3>1, EntryIs
  <2>3. attempts' \in [Cases -> [AllLanes -> Seq(Attempt)]]
    BY <1>0, <2>1, <2>2
  <2>4. Blank \in Trial
    BY <1>0, TrialChanges
  <2> QED
    BY <1>0, <2>1, <2>3, <2>4, PlacesGoOn DEF Typed, Working
<1>11. CASE Write
  BY <1>0, <1>1, <1>11 DEF Write, At, Working
<1>12. CASE UNCHANGED vars
  BY <1>12 DEF vars, Typed, Lane, Applicable
<1> QED
  BY <1>2, <1>3, <1>4, <1>5, <1>6, <1>7, <1>8, <1>9, <1>10, <1>11, <1>12 DEF Next

-----------------------------------------------------------------------------
(* What an attempt knows of itself.                                        *)

LEMMA ThreeInARow ==
  ASSUME NEW a, NEW b, NEW c
  PROVE  <<a>> \o <<b, c>> = <<a, b, c>>
<1> DEFINE S == {a, b, c}  one == <<a>>  two == <<b, c>>  three == <<a, b, c>>
           all == one \o two
<1>1. one \in Seq(S) /\ two \in Seq(S) /\ three \in Seq(S)
  OBVIOUS
<1>2. /\ Len(one) = 1 /\ Len(two) = 2 /\ Len(three) = 3
      /\ one[1] = three[1] /\ two[1] = three[2] /\ two[2] = three[3]
  OBVIOUS
<1> HIDE DEF one, two, three, S
<1>3. /\ all \in Seq(S) /\ Len(all) = Len(one) + Len(two)
      /\ \A i \in 1 .. Len(one) + Len(two) :
           all[i] = IF i <= Len(one) THEN one[i] ELSE two[i - Len(one)]
  BY <1>1, ConcatProperties
<1> HIDE DEF all
<1>4. Len(all) = 3 /\ all[1] = one[1] /\ all[2] = two[1] /\ all[3] = two[2]
  BY <1>2, <1>3
<1>5. \A i \in 1 .. Len(all) : all[i] = three[i]
  BY <1>2, <1>4
<1>6. all = three
  BY <1>1, <1>2, <1>3, <1>4, <1>5, SeqEqual
<1> QED
  BY <1>6 DEF all, one, two, three

LEMMA UnderWayStep ==
  ASSUME Typed, UnderWay, [Next]_vars
  PROVE  UnderWay'
<1> USE DEF recordVars, cacheVars
<1>0. attempt \in Trial
  BY DEF Typed
<1>1. ASSUME pc' \notin Working PROVE UnderWay'
  BY <1>1 DEF UnderWay, Working
<1>2. ASSUME UNCHANGED <<place, lanes>>
      PROVE  /\ Lane' = Lane
             /\ Fallible(place.case, Lane)' <=> Fallible(place.case, Lane)
  BY <1>2 DEF Lane, Fallible, Marked
<1>3. CASE SkipLane
  BY <1>1, <1>3 DEF SkipLane, Working
<1>4. CASE BeginAttempt
  <2>1. /\ pc' = FirstStep /\ UNCHANGED <<place, lanes>> /\ errors' = <<>>
        /\ attempt' = [Blank EXCEPT !.theorem = FirstStep # "formalizing"]
    BY <1>4 DEF BeginAttempt, At
  <2>2. Unproved(attempt') /\ (attempt'.theorem <=> FirstStep # "formalizing")
    BY <2>1 DEF Unproved, Blank
  <2>3. /\ FirstStep \in {"formalizing", "grading", "proving"}
        /\ FirstStep = "formalizing" => Fallible(place.case, Lane)
        /\ FirstStep = "proving" => Lane # "formalizer_only"
    BY DEF FirstStep, Fallible
  <2>4. <<>> \in Recovered
    BY DEF Recovered
  <2> QED
    BY <1>2, <2>1, <2>2, <2>3, <2>4 DEF UnderWay, Unproved
<1>5. CASE FormalizeReplays
  <2>1. /\ pc = "formalizing" /\ Unproved(attempt) /\ errors = <<>>
        /\ Fallible(place.case, Lane) /\ UNCHANGED <<place, lanes>>
        /\ pc' = Formalized(formalized[Due] = "success")
    BY <1>5 DEF FormalizeReplays, At, UnderWay
  <2>2. Unproved(attempt') /\ (attempt'.theorem <=> formalized[Due] = "success")
    BY <1>0, <1>5, <2>1 DEF FormalizeReplays, Unproved, Trial
  <2>3. CASE formalized[Due] = "success"
    <3>1. pc' \in {"grading", "proving"} /\ errors' = <<>>
          /\ (pc' = "proving" => Lane # "formalizer_only")
      BY <1>5, <2>1, <2>3 DEF FormalizeReplays, Formalized
    <3> QED
      BY <1>2, <2>1, <2>2, <2>3, <3>1 DEF UnderWay, Recovered, Unproved
  <2>4. CASE formalized[Due] # "success"
    <3>1. pc' = "judged" /\ errors' = <<"formalize">>
      BY <1>5, <2>1, <2>4 DEF FormalizeReplays, Formalized
    <3>2. Charged'
      BY <2>2 DEF Charged, Unproved
    <3> QED
      BY <1>2, <2>1, <2>2, <2>4, <3>1, <3>2 DEF UnderWay, Unproved
  <2> QED
    BY <2>3, <2>4
<1>6. CASE Formalize
  <2>1. PICK outcome \in {"success", "refused", "failed"} :
          /\ At("formalizing", Formalized(outcome = "success"))
          /\ attempt' = [attempt EXCEPT !.theorem = outcome = "success",
                           !.spent = @ \union {"formalize"},
                           !.reported = @ \union {"formalize"}]
          /\ \/ errors' = Append(errors, "formalize")
             \/ outcome = "success" /\ UNCHANGED errors
    BY <1>6 DEF Formalize
  <2>2. /\ pc = "formalizing" /\ Unproved(attempt) /\ errors = <<>>
        /\ Fallible(place.case, Lane) /\ UNCHANGED <<place, lanes>>
        /\ pc' = Formalized(outcome = "success")
    BY <1>6, <2>1 DEF At, UnderWay, Formalize
  <2>3. /\ attempt'.theorem <=> outcome = "success"
        /\ attempt'.success = attempt.success /\ attempt'.replay = attempt.replay
        /\ attempt'.timeout = attempt.timeout
        /\ attempt'.spent = attempt.spent \union {"formalize"}
        /\ attempt'.reported = attempt.reported \union {"formalize"}
    BY <1>0, <2>1 DEF Trial
  <2>4. Unproved(attempt')
    BY <2>2, <2>3 DEF Unproved, ProverCalls
  <2>5. Charged'
    BY <2>4 DEF Charged, Unproved
  <2>6. CASE outcome = "success"
    <3>1. pc' \in {"grading", "proving"} /\ errors' \in Recovered
          /\ (pc' = "proving" => Lane # "formalizer_only")
      BY <2>1, <2>2, <2>6 DEF Formalized, Recovered
    <3> QED
      BY <1>2, <2>2, <2>3, <2>4, <2>6, <3>1 DEF UnderWay, Unproved
  <2>7. CASE outcome # "success"
    <3>1. pc' = "judged" /\ errors' = <<"formalize">>
      BY <2>1, <2>2, <2>7 DEF Formalized
    <3> QED
      BY <1>2, <2>2, <2>3, <2>4, <2>5, <2>7, <3>1 DEF UnderWay, Unproved
  <2> QED
    BY <2>6, <2>7
<1>7. CASE Grade
  <2>1. /\ pc = "grading" /\ pc' = IF Lane = "formalizer_only" THEN "judged" ELSE "proving"
        /\ Unproved(attempt) /\ attempt.theorem /\ errors \in Recovered
        /\ UNCHANGED <<place, lanes>>
    BY <1>7 DEF Grade, At, UnderWay
  <2>2. /\ attempt'.success <=> Lane = "formalizer_only"
        /\ attempt'.theorem = attempt.theorem /\ attempt'.replay = attempt.replay
        /\ attempt'.timeout = attempt.timeout
        /\ attempt'.spent = attempt.spent \union {"grade"}
        /\ attempt'.reported = attempt.reported \union {"grade"}
        /\ errors' = errors
    BY <1>0, <1>7 DEF Grade, Trial
  <2>3. Charged' /\ (Lane # "formalizer_only" => Unproved(attempt'))
    BY <2>1, <2>2 DEF Charged, Unproved, ProverCalls
  <2> QED
    BY <1>2, <2>1, <2>2, <2>3 DEF UnderWay, Unproved
<1>8. CASE RunReplays
  <2>1. /\ pc = "proving" /\ pc' = "judged" /\ attempt.theorem /\ Unproved(attempt)
        /\ attempt' = [attempt EXCEPT !.success = TRUE, !.replay = TRUE]
    BY <1>8 DEF RunReplays, At, UnderWay
  <2>2. /\ attempt'.success /\ attempt'.theorem
        /\ attempt'.spent = attempt.spent /\ attempt'.reported = attempt.reported
    BY <1>0, <2>1 DEF Trial
  <2>3. Charged'
    BY <2>1, <2>2 DEF Charged, Unproved
  <2> QED
    BY <2>1, <2>2, <2>3 DEF UnderWay
<1>9. CASE Run
  <2>1. PICK r \in ProverRuns : Proves(r)
    BY <1>9 DEF Run
  <2>2. /\ pc = "proving" /\ pc' = "judged"
        /\ Unproved(attempt) /\ attempt.theorem /\ errors \in Recovered
    BY <1>9 DEF Run, At, UnderWay
  <2>3. /\ attempt'.success = r.success /\ attempt'.timeout = r.timeout
        /\ attempt'.theorem = attempt.theorem /\ attempt'.replay = attempt.replay
        /\ attempt'.spent = attempt.spent \union r.spent
        /\ attempt'.reported = attempt.reported \union r.reported
    BY <1>0, <2>1, ProvesEffect
  <2>4. /\ r.spent \subseteq ProverCalls /\ r.reported \subseteq ProverCalls
        /\ \/ r.reported = r.spent \ {"in_flight"}
           \/ r.spent = {"prove"} /\ r.reported = {} /\ ~r.timeout
    BY <2>1 DEF ProverRuns
  <2>5. Charged'
    <3>1. attempt'.spent \ attempt'.reported = r.spent \ r.reported
      BY <2>2, <2>3, <2>4 DEF Unproved
    <3>2. attempt'.reported \subseteq attempt'.spent
      BY <2>2, <2>3, <2>4 DEF Unproved
    <3>3. ~attempt'.replay
      BY <2>2, <2>3 DEF Unproved
    <3>4. "prove" \in r.spent \ r.reported =>
            ~attempt'.timeout /\ "in_flight" \notin r.spent \ r.reported
      BY <2>3, <2>4
    <3> QED
      BY <2>4, <3>1, <3>2, <3>3, <3>4 DEF Charged
  <2>6. ~r.success => errors' \in GaveUp
    <3>1. ~r.success => errors' = errors \o <<"prove", "prover_dispatch">>
      BY <2>1 DEF Proves
    <3>2. <<>> \o <<"prove", "prover_dispatch">> = <<"prove", "prover_dispatch">>
      OBVIOUS
    <3>3. <<"formalize">> \o <<"prove", "prover_dispatch">>
            = <<"formalize", "prove", "prover_dispatch">>
      BY ThreeInARow
    <3> QED
      BY <2>2, <3>1, <3>2, <3>3 DEF Recovered, GaveUp
  <2> QED
    BY <2>2, <2>3, <2>5, <2>6 DEF UnderWay
<1>10. CASE Raise
  BY <1>1, <1>10 DEF Raise, Working
<1>11. CASE Record
  BY <1>1, <1>11, RecordIs DEF Working
<1>12. CASE Write
  BY <1>1, <1>12 DEF Write, At, Working
<1>13. CASE UNCHANGED vars
  BY <1>13 DEF vars, UnderWay, Lane, Charged, Unproved, Fallible, Marked
<1> QED
  BY <1>3, <1>4, <1>5, <1>6, <1>7, <1>8, <1>9, <1>10, <1>11, <1>12, <1>13 DEF Next

(* Only Record touches the attempts that are over. *)
LEMMA OthersKeep ==
  ASSUME [Next]_vars
  PROVE  Record \/ UNCHANGED <<lanes, useCache, attempts, kept>>
BY DEF Next, SkipLane, BeginAttempt, FormalizeReplays, Formalize, Grade, RunReplays,
   Run, Raise, Write, recordVars, vars

LEMMA RecordedStep ==
  ASSUME Typed, UnderWay, AllRecorded, [Next]_vars
  PROVE  AllRecorded'
<1>1. CASE UNCHANGED attempts
  <2> SUFFICES ASSUME NEW c \in Cases, NEW l \in AllLanes, NEW i \in DOMAIN attempts'[c][l]
               PROVE  Explained(attempts'[c][l][i], c, l)
    BY DEF AllRecorded, Explained, Fallible, Marked
  <2> QED
    BY <1>1 DEF AllRecorded
<1>2. CASE Record
  <2>1. /\ pc = "judged"
        /\ \A c \in Cases, l \in AllLanes :
             attempts'[c][l] = IF c = place.case /\ l = Lane
                               THEN Append(attempts[c][l], Entry) ELSE attempts[c][l]
    BY <1>2, RecordIs
  <2>2. Explained(Entry, place.case, Lane)
    BY <2>1, EntryIs
  <2> SUFFICES ASSUME NEW c \in Cases, NEW l \in AllLanes, NEW i \in DOMAIN attempts'[c][l]
               PROVE  Explained(attempts'[c][l][i], c, l)
    BY DEF AllRecorded, Explained, Fallible, Marked
  <2>3. attempts[c][l] \in Seq(Attempt)
    BY DEF Typed
  <2>4. i \in DOMAIN attempts[c][l] => Explained(attempts[c][l][i], c, l)
    BY DEF AllRecorded
  <2>5. (c = place.case /\ l = Lane /\ attempts'[c][l][i] = Entry)
        \/ (i \in DOMAIN attempts[c][l] /\ attempts'[c][l][i] = attempts[c][l][i])
    <3>1. CASE c = place.case /\ l = Lane
      <4>1. attempts'[c][l] = Append(attempts[c][l], Entry)
        BY <2>1, <3>1
      <4>2. i \in 1 .. Len(attempts[c][l]) + 1
        BY <2>3, <4>1
      <4>3. CASE i = Len(attempts[c][l]) + 1
        BY <2>3, <3>1, <4>1, <4>3
      <4>4. CASE i \in 1 .. Len(attempts[c][l])
        BY <2>3, <4>1, <4>4
      <4> QED
        BY <2>3, <4>2, <4>3, <4>4
    <3>2. CASE ~(c = place.case /\ l = Lane)
      BY <2>1, <3>2
    <3> QED
      BY <3>1, <3>2
  <2> QED
    BY <2>2, <2>4, <2>5
<1> QED
  BY <1>1, <1>2, OthersKeep

LEMMA FirstInit ==
  ASSUME Init
  PROVE  Typed /\ UnderWay /\ AllRecorded
<1>1. attempts \in [Cases -> [AllLanes -> Seq(Attempt)]]
  BY DEF Init
<1>2. \A c \in Cases, l \in AllLanes : attempts[c][l] = <<>>
  BY DEF Init
<1>3. place \in [case : Nat \ {0}, lane : 1 .. Len(lanes), run : 1 .. Repetitions]
  <2>1. Len(lanes) \in {1, 3}
    BY LanesAre DEF Init
  <2>2. place = [case |-> 1, lane |-> 1, run |-> 1]
    BY DEF Init
  <2>3. 1 \in Nat \ {0} /\ 1 \in 1 .. Len(lanes) /\ 1 \in 1 .. Repetitions
    BY <2>1, RepetitionsAssumption
  <2> QED
    BY <2>2, <2>3
<1>4. Blank \in Trial
  BY DEF Blank, Trial
<1>5. Typed
  BY <1>1, <1>3, <1>4 DEF Init, Typed, Working
<1>6. UnderWay
  BY <1>4 DEF Init, UnderWay
<1>7. AllRecorded
  BY <1>2 DEF AllRecorded
<1> QED
  BY <1>5, <1>6, <1>7

LEMMA AlwaysRecorded == Spec => [](Typed /\ UnderWay /\ AllRecorded)
<1>1. Typed /\ UnderWay /\ AllRecorded /\ [Next]_vars => (Typed /\ UnderWay /\ AllRecorded)'
  BY TypeStep, UnderWayStep, RecordedStep
<1> QED
  BY <1>1, FirstInit, PTL DEF Spec

(* FailuresExplained: neither an error the formalizer recovered from nor   *)
(* the dispatcher's echo hides whose failure it was, in every lane.        *)
THEOREM FailuresAlwaysExplained == Spec => []FailuresExplained
<1>1. AllRecorded => FailuresExplained
  BY DEF AllRecorded, FailuresExplained, Explained, Fallible
<1> QED
  BY <1>1, AlwaysRecorded, PTL

(* CallsCharged: an attempt reports no call it did not make, and only      *)
(* calls of the prover can be missing: the one in flight when it is        *)
(* cancelled, or the others, and then it is no timeout.                    *)
THEOREM CallsAlwaysCharged == Spec => []CallsCharged
<1>1. UnderWay => CallsCharged
  BY DEF UnderWay, CallsCharged, Charged
<1> QED
  BY <1>1, AlwaysRecorded, PTL

-----------------------------------------------------------------------------
(* Cases, lanes and repetitions in turn.                                   *)

LEMMA LanesDiffer ==
  ASSUME Typed, NEW k \in 1 .. Len(lanes)
  PROVE  /\ lanes[k] = Lane => k = place.lane
         /\ Lane = "theorem_stub_verify" => /\ lanes = FullLanes /\ Len(lanes) = 3
                                            /\ place.lane = 2
<1>1. place.lane \in 1 .. Len(lanes) /\ lanes \in {FullLanes, OneLane}
  BY DEF Typed
<1>2. CASE lanes = FullLanes
  BY <1>1, <1>2, LanesAre DEF Lane
<1>3. CASE lanes = OneLane
  BY <1>1, <1>3, LanesAre DEF Lane
<1> QED
  BY <1>1, <1>2, <1>3

(* The next place is the one that follows. *)
LEMMA PastGrows ==
  ASSUME Typed, place.case \in Cases, place' = NextPlace,
         NEW c \in Cases, NEW k \in 1 .. Len(lanes)
  PROVE  /\ Past(c, k)' <=> Past(c, k) \/ Here(c, k)
         /\ Here(c, k)' => ~Past(c, k) /\ ~Here(c, k)
<1>1. c \in Nat /\ k \in Nat /\ k >= 1 /\ k <= Len(lanes) /\ Len(lanes) \in Nat
  BY CasesAre, LaneIs
<1>2. place.case \in Nat /\ place.lane \in 1 .. Len(lanes)
  BY DEF Typed
<1>3. CASE place.lane < Len(lanes)
  <2>1. place'.case = place.case /\ place'.lane = place.lane + 1
    BY <1>3, PlacesGoOn
  <2> QED
    BY <1>1, <1>2, <2>1 DEF Past, Here
<1>4. CASE ~(place.lane < Len(lanes))
  <2>1. place'.case = place.case + 1 /\ place'.lane = 1 /\ place.lane = Len(lanes)
    BY <1>1, <1>2, <1>4, PlacesGoOn
  <2> QED
    BY <1>1, <1>2, <2>1 DEF Past, Here
<1> QED
  BY <1>3, <1>4

LEMMA PastOrHere ==
  ASSUME Typed, NEW c \in Cases, NEW k \in 1 .. Len(lanes)
  PROVE  ~(Past(c, k) /\ Here(c, k))
BY CasesAre DEF Typed, Past, Here

(* How many attempts a case and lane must have. *)
Expected(c, k) ==
  IF ~Applicable(c, lanes[k]) THEN 0
  ELSE IF Past(c, k) THEN Repetitions
  ELSE IF Here(c, k) THEN place.run - 1 ELSE 0

LEMMA InTurnStep ==
  ASSUME Typed, UnderWay, InTurn, [Next]_vars
  PROVE  InTurn'
<1> USE DEF recordVars, cacheVars
<1>0. /\ \A c \in Cases, k \in 1 .. Len(lanes) : Len(attempts[c][lanes[k]]) = Expected(c, k)
      /\ \A c \in Cases, l \in AllLanes :
           (\A k \in 1 .. Len(lanes) : lanes[k] # l) => attempts[c][l] = <<>>
      /\ place.case \in Cases /\ ~Applicable(place.case, Lane) => place.run = 1
      /\ place.run \in 1 .. Repetitions /\ Repetitions \in Nat \ {0}
  BY RepetitionsAssumption DEF InTurn, Expected, Typed
<1>1. CASE UNCHANGED <<lanes, place, attempts>>
  BY <1>1 DEF InTurn, Applicable, Lane, Past, Here
<1>2. ASSUME lanes' = lanes,
             \A c \in Cases, k \in 1 .. Len(lanes) :
               Len(attempts'[c][lanes[k]]) = Expected(c, k)',
             \A c \in Cases, l \in AllLanes :
               (\A k \in 1 .. Len(lanes) : lanes[k] # l) => attempts'[c][l] = <<>>,
             place'.run = 1 \/ Applicable(place'.case, Lane')
      PROVE  InTurn'
  BY <1>2 DEF InTurn, Expected, Applicable, Past, Here, Lane
<1>3. CASE SkipLane
  <2>1. /\ place.case \in Cases /\ ~Applicable(place.case, Lane)
        /\ place' = NextPlace /\ place'.run = 1
        /\ UNCHANGED <<lanes, attempts>>
    BY <1>3, PlacesGoOn DEF SkipLane
  <2>2. ASSUME NEW c \in Cases, NEW k \in 1 .. Len(lanes)
        PROVE  Len(attempts'[c][lanes[k]]) = Expected(c, k)'
    <3>1. /\ Past(c, k)' <=> Past(c, k) \/ Here(c, k)
          /\ Here(c, k)' => ~Past(c, k) /\ ~Here(c, k)
      BY <2>1, PastGrows
    <3>2. Here(c, k) => ~Applicable(c, lanes[k])
      BY <2>1 DEF Here, Lane
    <3>3. Expected(c, k)' = IF ~Applicable(c, lanes[k]) THEN 0
                            ELSE IF Past(c, k)' THEN Repetitions ELSE 0
      BY <2>1 DEF Expected, Applicable
    <3>4. Expected(c, k) = IF ~Applicable(c, lanes[k]) THEN 0
                           ELSE IF Past(c, k) THEN Repetitions ELSE 0
      BY <3>2 DEF Expected
    <3> QED
      BY <1>0, <2>1, <3>1, <3>2, <3>3, <3>4
  <2> QED
    BY <1>0, <1>2, <2>1, <2>2
<1>4. CASE Record
  <2>1. /\ place.case \in Cases /\ Lane \in AllLanes /\ Applicable(place.case, Lane)
        /\ lanes' = lanes /\ place' = AfterRun
        /\ \A c \in Cases, l \in AllLanes :
             attempts'[c][l] = IF c = place.case /\ l = Lane
                               THEN Append(attempts[c][l], Entry) ELSE attempts[c][l]
    BY <1>4, RecordIs DEF Typed, Working
  <2>2. \A c \in Cases, k \in 1 .. Len(lanes) :
          Len(attempts'[c][lanes[k]]) = IF Here(c, k) THEN Expected(c, k) + 1 ELSE Expected(c, k)
    <3> TAKE c \in Cases, k \in 1 .. Len(lanes)
    <3>1. lanes[k] \in AllLanes /\ attempts[c][lanes[k]] \in Seq(Attempt)
      BY LaneIs DEF Typed
    <3>2. Here(c, k) <=> c = place.case /\ lanes[k] = Lane
      BY LanesDiffer DEF Here, Lane
    <3>3. attempts'[c][lanes[k]] = IF Here(c, k) THEN Append(attempts[c][lanes[k]], Entry)
                                   ELSE attempts[c][lanes[k]]
      BY <2>1, <3>1, <3>2
    <3>4. Len(Append(attempts[c][lanes[k]], Entry)) = Len(attempts[c][lanes[k]]) + 1
      BY <3>1
    <3> QED
      BY <1>0, <3>3, <3>4
  <2>3. \A c \in Cases, l \in AllLanes :
          (\A k \in 1 .. Len(lanes) : lanes[k] # l) => attempts'[c][l] = <<>>
    <3>1. place.lane \in 1 .. Len(lanes) /\ lanes[place.lane] = Lane
      BY DEF Typed, Lane
    <3> QED
      BY <1>0, <2>1, <3>1
  <2>4. \A c \in Cases, k \in 1 .. Len(lanes) :
          Here(c, k) => Expected(c, k) = place.run - 1
    BY <2>1, PastOrHere DEF Expected, Here, Lane
  <2>5. CASE place.run < Repetitions
    <3>1. place'.case = place.case /\ place'.lane = place.lane /\ place'.run = place.run + 1
      BY <2>1, <2>5, PlacesGoOn
    <3>2. Applicable(place'.case, Lane')
      BY <2>1, <3>1 DEF Applicable, Lane
    <3>3. ASSUME NEW c \in Cases, NEW k \in 1 .. Len(lanes)
          PROVE  Len(attempts'[c][lanes[k]]) = Expected(c, k)'
      <4>1. (Past(c, k)' <=> Past(c, k)) /\ (Here(c, k)' <=> Here(c, k))
        BY <3>1 DEF Past, Here
      <4>2. Expected(c, k)' = IF ~Applicable(c, lanes[k]) THEN 0
                              ELSE IF Past(c, k) THEN Repetitions
                              ELSE IF Here(c, k) THEN place.run ELSE 0
        BY <1>0, <2>1, <3>1, <4>1 DEF Expected, Applicable
      <4>3. CASE Here(c, k)
        BY <1>0, <2>1, <2>2, <2>4, <4>2, <4>3, PastOrHere DEF Here, Lane
      <4>4. CASE ~Here(c, k)
        BY <2>2, <4>2, <4>4 DEF Expected
      <4> QED
        BY <4>3, <4>4
    <3> QED
      BY <1>2, <2>1, <2>3, <3>2, <3>3
  <2>6. CASE ~(place.run < Repetitions)
    <3>1. place' = NextPlace /\ place'.run = 1 /\ place.run = Repetitions
      BY <1>0, <2>1, <2>6, PlacesGoOn
    <3>2. ASSUME NEW c \in Cases, NEW k \in 1 .. Len(lanes)
          PROVE  Len(attempts'[c][lanes[k]]) = Expected(c, k)'
      <4>1. /\ Past(c, k)' <=> Past(c, k) \/ Here(c, k)
            /\ Here(c, k)' => ~Past(c, k) /\ ~Here(c, k)
        BY <2>1, <3>1, PastGrows
      <4>2. Expected(c, k)' = IF ~Applicable(c, lanes[k]) THEN 0
                              ELSE IF Past(c, k)' THEN Repetitions ELSE 0
        BY <2>1, <3>1 DEF Expected, Applicable
      <4>3. CASE Here(c, k)
        <5>1. Applicable(c, lanes[k])
          BY <2>1, <4>3 DEF Here, Lane
        <5> QED
          BY <1>0, <2>2, <2>4, <3>1, <4>1, <4>2, <4>3, <5>1
      <4>4. CASE ~Here(c, k)
        BY <2>2, <4>1, <4>2, <4>4 DEF Expected
      <4> QED
        BY <4>3, <4>4
    <3> QED
      BY <1>2, <2>1, <2>3, <3>1, <3>2
  <2> QED
    BY <2>5, <2>6
<1>5. SkipLane \/ Record \/ UNCHANGED <<lanes, place, attempts>>
  BY DEF Next, BeginAttempt, FormalizeReplays, Formalize, Grade, RunReplays,
     Run, Raise, Write, vars
<1> QED
  BY <1>1, <1>3, <1>4, <1>5

LEMMA InTurnInit ==
  ASSUME Init
  PROVE  InTurn
<1>1. Typed
  BY FirstInit
<1>2. /\ \A c \in Cases, l \in AllLanes : attempts[c][l] = <<>>
      /\ place.case = 1 /\ place.lane = 1 /\ place.run = 1
  BY DEF Init
<1>3. \A c \in Cases, k \in 1 .. Len(lanes) :
        lanes[k] \in AllLanes /\ ~Past(c, k)
  BY <1>1, <1>2, CasesAre, LaneIs DEF Past
<1> QED
  BY <1>2, <1>3 DEF InTurn

LEMMA AlwaysInTurn == Spec => [](Typed /\ UnderWay /\ InTurn)
<1>1. Typed /\ UnderWay /\ InTurn /\ [Next]_vars => (Typed /\ UnderWay /\ InTurn)'
  BY TypeStep, UnderWayStep, InTurnStep
<1> QED
  BY <1>1, FirstInit, InTurnInit, PTL DEF Spec

(* A snapshot that was written has every repetition of every lane of every *)
(* case it applies to, and nothing else: what its sums are taken over.     *)
Complete ==
  pc = "written" =>
    \A c \in Cases, l \in ToSet(lanes) :
      Len(attempts[c][l]) = IF Applicable(c, l) THEN Repetitions ELSE 0

(* Complete: no repetition, lane or case is left out of a snapshot or done *)
(* twice, whatever the lanes apply to.                                     *)
THEOREM SnapshotsComplete == Spec => []Complete
<1>1. Typed /\ InTurn => Complete
  <2> SUFFICES ASSUME Typed, InTurn, pc = "written", NEW c \in Cases, NEW k \in DOMAIN lanes
               PROVE  Len(attempts[c][lanes[k]]) =
                        IF Applicable(c, lanes[k]) THEN Repetitions ELSE 0
    BY DEF Complete, ToSet
  <2>1. k \in 1 .. Len(lanes)
    BY DEF Typed, FullLanes, OneLane
  <2>2. place.case \in Nat \ {0} /\ place.case \notin Cases
    BY DEF Typed
  <2>3. c < place.case
    BY <2>2, CasesAre
  <2> QED
    BY <2>1, <2>3 DEF InTurn, Past
<1> QED
  BY <1>1, AlwaysInTurn, PTL

-----------------------------------------------------------------------------
(* What is replayed.                                                       *)

LEMMA TheoremsDiffer ==
  ASSUME NEW c, NEW d, NEW l \in ToSet(FullLanes), NEW k \in ToSet(FullLanes)
  PROVE  TheoremOf(c, l) = TheoremOf(d, k) <=>
           /\ c = d
           /\ \/ l = k
              \/ l = "theorem_stub_verify" /\ k = "raw_lean_verify"
              \/ l = "raw_lean_verify" /\ k = "theorem_stub_verify"
<1>1. /\ l \in {"raw_claim_full_api", "theorem_stub_verify", "raw_lean_verify"}
      /\ k \in {"raw_claim_full_api", "theorem_stub_verify", "raw_lean_verify"}
  BY LanesAre
<1>2. /\ TheoremOf(c, l) = <<c, IF l = "raw_claim_full_api" THEN "claim" ELSE "text">>
      /\ TheoremOf(d, k) = <<d, IF k = "raw_claim_full_api" THEN "claim" ELSE "text">>
  BY <1>1 DEF TheoremOf, Source, Needed
<1> QED
  BY <1>1, <1>2

LEMMA DueIs ==
  ASSUME Typed, place.case \in Cases
  PROVE  Due \in Theorems /\ (Lane # "formalizer_only" <=> Lane \in ToSet(FullLanes))
<1>1. Due \in Theorems
  BY DEF Due, TheoremOf, Source, Sources, Theorems
<1> QED
  BY <1>1, LaneIs, LanesAre

(* The lane with the raw Lean comes after the one with the stub. *)
LEMMA StubFirst ==
  ASSUME Typed, InTurn, place.case \in Cases, Lane = "theorem_stub_verify"
  PROVE  attempts[place.case]["raw_lean_verify"] = <<>>
<1>1. lanes = FullLanes /\ Len(lanes) = 3 /\ place.lane = 2 /\ FullLanes[3] = "raw_lean_verify"
  <2>1. place.lane \in 1 .. Len(lanes)
    BY DEF Typed
  <2> QED
    BY <2>1, LanesDiffer, LanesAre
<1>2. 3 \in 1 .. Len(lanes) /\ lanes[3] = "raw_lean_verify"
  BY <1>1
<1>3. ~Past(place.case, 3) /\ ~Here(place.case, 3)
  BY <1>1, CasesAre DEF Past, Here
<1>4. Len(attempts[place.case][lanes[3]]) = 0
  BY <1>2, <1>3 DEF InTurn
<1>5. attempts[place.case][lanes[3]] \in Seq(Attempt)
  BY <1>2, LaneIs DEF Typed
<1> QED
  BY <1>2, <1>4, <1>5

(* Nothing but Record changes what is known to have passed. *)
LEMMA KnownKept ==
  ASSUME UNCHANGED <<attempts, kept, useCache>>
  PROVE  /\ \A x : Known(x)' <=> Known(x)
         /\ ReplaysEarned => ReplaysEarned'
BY DEF Known, Passed, ReplaysEarned, Earned

(* The log of a case and lane before and after Record. *)
LEMMA RecordGrows ==
  ASSUME Typed, Record, NEW c \in Cases, NEW l \in AllLanes
  PROVE  /\ attempts[c][l] \in Seq(Attempt)
         /\ \A i \in DOMAIN attempts[c][l] :
              i \in DOMAIN attempts'[c][l] /\ attempts'[c][l][i] = attempts[c][l][i]
         /\ \A i \in DOMAIN attempts'[c][l] :
              \/ i \in DOMAIN attempts[c][l] /\ attempts'[c][l][i] = attempts[c][l][i]
              \/ /\ c = place.case /\ l = Lane /\ i = Len(attempts[c][l]) + 1
                 /\ attempts'[c][l][i] = Entry
         /\ c = place.case /\ l = Lane => \E i \in DOMAIN attempts'[c][l] :
              attempts'[c][l][i] = Entry
<1>1. attempts[c][l] \in Seq(Attempt)
  BY DEF Typed
<1>2. attempts'[c][l] = IF c = place.case /\ l = Lane
                        THEN Append(attempts[c][l], Entry) ELSE attempts[c][l]
  BY RecordIs
<1>3. CASE c = place.case /\ l = Lane
  <2> DEFINE n == Len(attempts[c][l]) + 1
  <2>1. /\ DOMAIN attempts[c][l] = 1 .. Len(attempts[c][l])
        /\ DOMAIN attempts'[c][l] = 1 .. n
        /\ \A i \in 1 .. Len(attempts[c][l]) : attempts'[c][l][i] = attempts[c][l][i]
        /\ attempts'[c][l][n] = Entry /\ Len(attempts[c][l]) \in Nat
    BY <1>1, <1>2, <1>3
  <2>2. /\ n \in DOMAIN attempts'[c][l]
        /\ \A i \in 1 .. Len(attempts[c][l]) : i \in 1 .. n
        /\ \A i \in 1 .. n : i \in 1 .. Len(attempts[c][l]) \/ i = n
    BY <2>1
  <2>3. \A i \in DOMAIN attempts[c][l] :
          i \in DOMAIN attempts'[c][l] /\ attempts'[c][l][i] = attempts[c][l][i]
    BY <2>1, <2>2
  <2>4. \A i \in DOMAIN attempts'[c][l] :
          \/ i \in DOMAIN attempts[c][l] /\ attempts'[c][l][i] = attempts[c][l][i]
          \/ i = n /\ attempts'[c][l][i] = Entry
    BY <2>1, <2>2
  <2>5. \E i \in DOMAIN attempts'[c][l] : attempts'[c][l][i] = Entry
    BY <2>1, <2>2
  <2> QED
    BY <1>1, <1>3, <2>3, <2>4, <2>5
<1>4. CASE ~(c = place.case /\ l = Lane)
  BY <1>1, <1>2, <1>4
<1> QED
  BY <1>3, <1>4

LEMMA RecordPasses ==
  ASSUME Typed, UnderWay, Record, NEW x
  PROVE  Known(x)' <=> Known(x) \/ (Lane # "formalizer_only" /\ attempt.success /\ x = Due)
<1>1. /\ place.case \in Cases /\ Lane \in AllLanes /\ kept' = kept
      /\ \A c \in Cases, l \in AllLanes :
           attempts'[c][l] = IF c = place.case /\ l = Lane
                             THEN Append(attempts[c][l], Entry) ELSE attempts[c][l]
      /\ Entry.success = attempt.success
  BY RecordIs, EntryIs
<1>2. ToSet(FullLanes) \subseteq AllLanes
  BY LanesAre
<1>3. ASSUME NEW c \in Cases, NEW l \in AllLanes
      PROVE  /\ attempts[c][l] \in Seq(Attempt)
             /\ \A i \in DOMAIN attempts[c][l] :
                  i \in DOMAIN attempts'[c][l] /\ attempts'[c][l][i] = attempts[c][l][i]
             /\ \A i \in DOMAIN attempts'[c][l] :
                  \/ i \in DOMAIN attempts[c][l] /\ attempts'[c][l][i] = attempts[c][l][i]
                  \/ c = place.case /\ l = Lane /\ attempts'[c][l][i] = Entry
             /\ c = place.case /\ l = Lane => \E i \in DOMAIN attempts'[c][l] :
                  attempts'[c][l][i] = Entry
  BY <1>1, RecordGrows
<1>4. ASSUME Passed(x) PROVE Passed(x)'
  <2>1. PICK c \in Cases, l \in ToSet(FullLanes) : \E i \in DOMAIN attempts[c][l] :
          TheoremOf(c, l) = x /\ attempts[c][l][i].success
    BY <1>4 DEF Passed
  <2>2. PICK i \in DOMAIN attempts[c][l] : TheoremOf(c, l) = x /\ attempts[c][l][i].success
    BY <2>1
  <2>3. i \in DOMAIN attempts'[c][l] /\ attempts'[c][l][i].success
    BY <1>2, <1>3, <2>2
  <2> QED
    BY <2>2, <2>3 DEF Passed
<1>5. ASSUME Lane # "formalizer_only", attempt.success, x = Due PROVE Passed(x)'
  <2>1. Lane \in ToSet(FullLanes) /\ TheoremOf(place.case, Lane) = x
    BY <1>1, <1>5, DueIs DEF Due
  <2>2. PICK i \in DOMAIN attempts'[place.case][Lane] : attempts'[place.case][Lane][i] = Entry
    BY <1>1, <1>3
  <2>3. attempts'[place.case][Lane][i].success
    BY <1>1, <1>5, <2>2
  <2> QED
    BY <1>1, <2>1, <2>2, <2>3 DEF Passed
<1>6. ASSUME Passed(x)'
      PROVE  Passed(x) \/ (Lane # "formalizer_only" /\ attempt.success /\ x = Due)
  <2>1. PICK c \in Cases, l \in ToSet(FullLanes) : \E i \in DOMAIN attempts'[c][l] :
          TheoremOf(c, l) = x /\ attempts'[c][l][i].success
    BY <1>6 DEF Passed
  <2>2. PICK i \in DOMAIN attempts'[c][l] : TheoremOf(c, l) = x /\ attempts'[c][l][i].success
    BY <2>1
  <2>3. \/ i \in DOMAIN attempts[c][l] /\ attempts'[c][l][i] = attempts[c][l][i]
        \/ c = place.case /\ l = Lane /\ attempts'[c][l][i] = Entry
    BY <1>2, <1>3, <2>2
  <2>4. CASE i \in DOMAIN attempts[c][l] /\ attempts'[c][l][i] = attempts[c][l][i]
    <3>1. attempts[c][l][i].success
      BY <2>2, <2>4
    <3> QED
      BY <2>2, <2>4, <3>1 DEF Passed
  <2>5. CASE c = place.case /\ l = Lane /\ attempts'[c][l][i] = Entry
    <3>1. x = Due /\ attempt.success
      BY <1>1, <2>2, <2>5 DEF Due
    <3>2. Lane # "formalizer_only"
      BY <1>1, <2>5, DueIs
    <3> QED
      BY <3>1, <3>2
  <2> QED
    BY <2>3, <2>4, <2>5
<1> QED
  BY <1>1, <1>4, <1>5, <1>6 DEF Known

(* A new attempt of another theorem, or of a later lane, changes nothing   *)
(* for the attempts before it.                                             *)
LEMMA EarnedKept ==
  ASSUME Typed, UnderWay, InTurn, Record,
         NEW c \in Cases, NEW l \in ToSet(FullLanes), NEW i \in DOMAIN attempts'[c][l]
  PROVE  Earned(c, l, i)' <=> Earned(c, l, i)
<1>1. place.case \in Cases /\ Lane \in AllLanes /\ kept' = kept /\ l \in AllLanes
  BY RecordIs, LanesAre
<1>2. ASSUME NEW k \in AllLanes, NEW j \in DOMAIN attempts[c][k],
             Earlier(c, k, j, l, i), attempts[c][k][j].success
      PROVE  Earned(c, l, i)'
  <2>1. j \in DOMAIN attempts'[c][k] /\ attempts'[c][k][j].success
    BY <1>2, RecordGrows
  <2> QED
    BY <1>2, <2>1 DEF Earned, Earlier
<1>3. ASSUME NEW k \in AllLanes, NEW j \in DOMAIN attempts'[c][k],
             Earlier(c, k, j, l, i), attempts'[c][k][j].success
      PROVE  Earned(c, l, i)
  <2>1. \/ j \in DOMAIN attempts[c][k] /\ attempts'[c][k][j] = attempts[c][k][j]
        \/ c = place.case /\ k = Lane /\ j = Len(attempts[c][k]) + 1
    BY RecordGrows
  <2>2. CASE j \in DOMAIN attempts[c][k] /\ attempts'[c][k][j] = attempts[c][k][j]
    BY <1>3, <2>2 DEF Earned
  <2>3. CASE c = place.case /\ k = Lane /\ j = Len(attempts[c][k]) + 1
    <3>1. CASE k = l /\ j < i
      <4>1. attempts[c][l] \in Seq(Attempt)
            /\ (i \in DOMAIN attempts[c][l] \/ i = Len(attempts[c][l]) + 1)
        BY <1>1, RecordGrows
      <4>2. i <= Len(attempts[c][l]) + 1 /\ i \in Nat /\ Len(attempts[c][l]) \in Nat
        BY <4>1
      <4> QED
        BY <2>3, <3>1, <4>2
    <3>2. CASE k = "theorem_stub_verify" /\ l = "raw_lean_verify"
      <4>1. attempts[c][l] = <<>>
        BY <2>3, <3>2, StubFirst, <1>1
      <4>2. i \in DOMAIN attempts[c][l]
        BY <1>1, <2>3, <3>2, RecordGrows
      <4> QED
        BY <4>1, <4>2
    <3> QED
      BY <1>3, <3>1, <3>2 DEF Earlier
  <2> QED
    BY <2>1, <2>2, <2>3
<1>4. ASSUME TheoremOf(c, l) \in kept PROVE Earned(c, l, i) /\ Earned(c, l, i)'
  BY <1>1, <1>4 DEF Earned
<1>5. ASSUME Earned(c, l, i) PROVE Earned(c, l, i)'
  BY <1>2, <1>4, <1>5 DEF Earned
<1>6. ASSUME Earned(c, l, i)' PROVE Earned(c, l, i)
  <2>1. \/ TheoremOf(c, l) \in kept
        \/ \E k \in AllLanes : \E j \in DOMAIN attempts'[c][k] :
             Earlier(c, k, j, l, i) /\ attempts'[c][k][j].success
    BY <1>1, <1>6 DEF Earned, Earlier
  <2> QED
    BY <1>3, <1>4, <2>1
<1> QED
  BY <1>5, <1>6

(* What is known to have passed is what an attempt may replay. *)
LEMMA EarnedIsKnown ==
  ASSUME Typed, InTurn, place.case \in Cases, Lane \in ToSet(FullLanes),
         NEW i, i = Len(attempts[place.case][Lane]) + 1
  PROVE  Earned(place.case, Lane, i) <=> Known(Due)
<1>1. ToSet(FullLanes) \subseteq AllLanes
  BY LanesAre
<1>2. attempts[place.case][Lane] \in Seq(Attempt)
  BY <1>1 DEF Typed
<1>3. ASSUME NEW k \in AllLanes, NEW j \in DOMAIN attempts[place.case][k],
             Earlier(place.case, k, j, Lane, i), attempts[place.case][k][j].success
      PROVE  Passed(Due)
  <2>1. k \in ToSet(FullLanes)
    BY <1>3, LanesAre DEF Earlier
  <2> QED
    BY <1>3, <2>1 DEF Passed, Earlier, Due
<1>4. ASSUME Passed(Due) PROVE Earned(place.case, Lane, i)
  <2>1. PICK c \in Cases, l \in ToSet(FullLanes) : \E j \in DOMAIN attempts[c][l] :
          TheoremOf(c, l) = Due /\ attempts[c][l][j].success
    BY <1>4 DEF Passed
  <2>2. PICK j \in DOMAIN attempts[c][l] : TheoremOf(c, l) = Due /\ attempts[c][l][j].success
    BY <2>1
  <2>3. /\ c = place.case
        /\ \/ l = Lane
           \/ l = "theorem_stub_verify" /\ Lane = "raw_lean_verify"
           \/ l = "raw_lean_verify" /\ Lane = "theorem_stub_verify"
    <3>1. TheoremOf(c, l) = TheoremOf(place.case, Lane)
      BY <2>2 DEF Due
    <3>2. \A d, k : k \in ToSet(FullLanes) /\ TheoremOf(c, l) = TheoremOf(d, k) =>
            /\ c = d
            /\ \/ l = k
               \/ l = "theorem_stub_verify" /\ k = "raw_lean_verify"
               \/ l = "raw_lean_verify" /\ k = "theorem_stub_verify"
      BY TheoremsDiffer
    <3> QED
      BY <3>1, <3>2
  <2>4. CASE l = Lane
    <3>1. j < i
      BY <1>2, <2>3, <2>4
    <3>2. Earlier(place.case, l, j, Lane, i)
      BY <2>2, <2>3, <2>4, <3>1 DEF Earlier, Due
    <3> QED
      BY <1>1, <2>2, <2>3, <3>2 DEF Earned
  <2>5. CASE l = "theorem_stub_verify" /\ Lane = "raw_lean_verify"
    <3>1. Earlier(place.case, l, j, Lane, i)
      BY <2>2, <2>3, <2>5 DEF Earlier, Due
    <3> QED
      BY <1>1, <2>2, <2>3, <3>1 DEF Earned
  <2>6. CASE l = "raw_lean_verify" /\ Lane = "theorem_stub_verify"
    <3>1. attempts[c][l] = <<>>
      BY <2>3, <2>6, StubFirst
    <3> QED
      BY <3>1
  <2> QED
    BY <2>3, <2>4, <2>5, <2>6
<1>5. ASSUME Earned(place.case, Lane, i) PROVE Known(Due)
  BY <1>3, <1>5 DEF Earned, Known, Due
<1>6. ASSUME Known(Due) PROVE Earned(place.case, Lane, i)
  BY <1>4, <1>6 DEF Earned, Known, Due
<1> QED
  BY <1>5, <1>6

LEMMA RecordReplays ==
  ASSUME Typed, UnderWay, InTurn, CacheTrue, Record
  PROVE  ReplaysEarned'
<1>1. /\ pc = "judged" /\ UNCHANGED <<useCache, kept>>
      /\ place.case \in Cases /\ Lane \in AllLanes
      /\ Entry.replay = attempt.replay /\ Entry.theorem = attempt.theorem
  BY RecordIs, EntryIs
<1> SUFFICES ASSUME NEW c \in Cases, NEW l \in ToSet(FullLanes), NEW i \in DOMAIN attempts'[c][l]
             PROVE  attempts'[c][l][i].replay <=>
                      /\ useCache' /\ Earned(c, l, i)'
                      /\ Source(l) = "claim" => attempts'[c][l][i].theorem
  BY DEF ReplaysEarned
<1>2. Earned(c, l, i)' <=> Earned(c, l, i)
  BY EarnedKept
<1>3. l \in AllLanes
  BY LanesAre
<1>4. \/ i \in DOMAIN attempts[c][l] /\ attempts'[c][l][i] = attempts[c][l][i]
      \/ /\ c = place.case /\ l = Lane /\ i = Len(attempts[c][l]) + 1
         /\ attempts'[c][l][i] = Entry
  BY <1>3, RecordGrows
<1>5. CASE i \in DOMAIN attempts[c][l] /\ attempts'[c][l][i] = attempts[c][l][i]
  <2>1. attempts[c][l][i].replay <=> /\ useCache /\ Earned(c, l, i)
                                     /\ Source(l) = "claim" => attempts[c][l][i].theorem
    BY <1>5 DEF CacheTrue, ReplaysEarned
  <2> QED
    BY <1>1, <1>2, <1>5, <2>1
<1>6. CASE /\ c = place.case /\ l = Lane /\ i = Len(attempts[c][l]) + 1
           /\ attempts'[c][l][i] = Entry
  <2>1. Earned(c, l, i) <=> Known(Due)
    BY <1>6, EarnedIsKnown
  <2>2. Lane # "formalizer_only"
    BY <1>1, <1>6, DueIs
  <2>3. attempt.replay <=> /\ useCache /\ Known(Due)
                           /\ Source(Lane) = "claim" => attempt.theorem
    BY <1>1, <2>2 DEF CacheTrue
  <2> QED
    BY <1>1, <1>2, <1>6, <2>1, <2>3
<1> QED
  BY <1>4, <1>5, <1>6

(* Raw Lean is formalized when the cache does not have it. *)
LEMMA NothingToReplay ==
  ASSUME Typed, UnderWay, CacheTrue, pc = "formalizing", useCache, Source(Lane) # "claim"
  PROVE  ~Known(Due)
<1>1. Lane = "raw_lean_verify"
  BY LaneIs, LanesAre DEF UnderWay, Fallible, Source, Needed
<1>2. Due \notin proved /\ Due \in Theorems
  BY <1>1, DueIs DEF CacheTrue, Replayed, Typed, Working
<1> QED
  BY <1>2 DEF CacheTrue

(* The steps of an attempt whose theorem is not judged yet. *)
LEMMA CacheWaits ==
  ASSUME CacheTrue, pc # "judged", UNCHANGED <<lanes, useCache, attempts, kept, proved>>,
         pc' = "formalizing" /\ Lane' = "raw_lean_verify" => ~Replayed',
         pc' = "judged" =>
           /\ place' = place /\ ~attempt'.replay
           /\ \/ Lane = "formalizer_only"
              \/ ~attempt'.success /\ ~attempt'.theorem
                   /\ (useCache /\ Source(Lane) # "claim" => ~Known(Due))
  PROVE  CacheTrue'
<1>1. (\A x : Known(x)' <=> Known(x)) /\ ReplaysEarned'
  BY KnownKept DEF CacheTrue
<1>2. pc' = "judged" => Lane' = Lane /\ Due' = Due
  BY DEF Lane, Due, TheoremOf, Source, Needed
<1>3. pc' = "judged" => (Source(Lane)' = Source(Lane))
  BY <1>2 DEF Source, Needed
<1>4. useCache' => \A x \in Theorems : x \in proved' <=> Known(x)'
  BY <1>1 DEF CacheTrue
<1>5. pc' = "judged" => ~(Lane' # "formalizer_only" /\ attempt'.success)
  BY <1>2
<1>6. pc' = "judged" =>
        (attempt'.replay <=> /\ useCache' /\ Lane' # "formalizer_only" /\ Known(Due)'
                             /\ Source(Lane)' = "claim" => attempt'.theorem)
  <2>1. pc' = "judged" => (Known(Due)' <=> Known(Due))
    BY <1>1, <1>2
  <2> QED
    BY <1>2, <1>3, <2>1
<1> QED
  BY <1>1, <1>4, <1>5, <1>6 DEF CacheTrue

LEMMA CacheStep ==
  ASSUME Typed, UnderWay, InTurn, CacheTrue, [Next]_vars
  PROVE  CacheTrue'
<1> USE DEF recordVars, cacheVars
<1>0. attempt \in Trial
  BY DEF Typed
<1>1. CASE SkipLane \/ Raise \/ Write
  BY <1>1, CacheWaits DEF SkipLane, Raise, Write, At
<1>2. CASE BeginAttempt
  <2>1. /\ pc = "due" /\ pc' = FirstStep
        /\ UNCHANGED <<lanes, useCache, place, attempts, kept, proved>>
    BY <1>2 DEF BeginAttempt, At
  <2>2. Lane' = Lane /\ (Replayed' <=> Replayed)
    BY <2>1 DEF Lane, Replayed, Due, TheoremOf, Source, Needed
  <2>3. /\ pc' # "judged"
        /\ pc' = "formalizing" /\ Lane = "raw_lean_verify" => ~Replayed
    BY <2>1 DEF FirstStep
  <2> QED
    BY <2>1, <2>2, <2>3, CacheWaits
<1>3. CASE FormalizeReplays
  <2>1. /\ pc = "formalizing" /\ Unproved(attempt)
        /\ pc' = Formalized(formalized[Due] = "success")
        /\ UNCHANGED <<lanes, useCache, place, attempts, kept, proved>>
    BY <1>3 DEF FormalizeReplays, At, UnderWay
  <2>2. /\ attempt'.success = attempt.success /\ attempt'.replay = attempt.replay
        /\ attempt'.theorem <=> formalized[Due] = "success"
    BY <1>0, <1>3 DEF FormalizeReplays, Trial
  <2>3. /\ pc' # "formalizing"
        /\ pc' = "judged" => formalized[Due] # "success"
    BY <2>1 DEF Formalized
  <2> QED
    BY <2>1, <2>2, <2>3, CacheWaits, NothingToReplay DEF Unproved
<1>4. CASE Formalize
  <2>1. PICK outcome \in {"success", "refused", "failed"} :
          /\ At("formalizing", Formalized(outcome = "success"))
          /\ attempt' = [attempt EXCEPT !.theorem = outcome = "success",
                           !.spent = @ \union {"formalize"},
                           !.reported = @ \union {"formalize"}]
    BY <1>4 DEF Formalize
  <2>2. /\ pc = "formalizing" /\ Unproved(attempt)
        /\ pc' = Formalized(outcome = "success")
        /\ UNCHANGED <<lanes, useCache, place, attempts, kept, proved>>
    BY <1>4, <2>1 DEF Formalize, At, UnderWay
  <2>3. /\ attempt'.success = attempt.success /\ attempt'.replay = attempt.replay
        /\ attempt'.theorem <=> outcome = "success"
    BY <1>0, <2>1 DEF Trial
  <2>4. /\ pc' # "formalizing"
        /\ pc' = "judged" => outcome # "success"
    BY <2>2 DEF Formalized
  <2> QED
    BY <2>2, <2>3, <2>4, CacheWaits, NothingToReplay DEF Unproved
<1>5. CASE Grade
  <2>1. pc = "grading" /\ Unproved(attempt)
        /\ pc' = IF Lane = "formalizer_only" THEN "judged" ELSE "proving"
    BY <1>5 DEF Grade, At, UnderWay
  <2>2. attempt'.replay = attempt.replay
    BY <1>0, <1>5 DEF Grade, Trial
  <2> QED
    BY <1>5, <2>1, <2>2, CacheWaits DEF Grade, Unproved
<1>6. ASSUME pc = "proving", pc' = "judged", UNCHANGED recordVars,
             attempt'.theorem, attempt'.replay <=> Replayed,
             Replayed => attempt'.success,
             proved' = IF useCache /\ attempt'.success THEN proved \union {Due} ELSE proved
      PROVE  CacheTrue'
  <2>1. (\A x : Known(x)' <=> Known(x)) /\ ReplaysEarned'
    BY <1>6, KnownKept DEF CacheTrue
  <2>2. Due \in Theorems /\ Lane # "formalizer_only"
    BY <1>6, DueIs DEF Typed, UnderWay, Working
  <2>3. useCache => \A x \in Theorems : x \in proved <=> Known(x)
    BY <1>6 DEF CacheTrue
  <2>4. Lane' = Lane /\ Due' = Due
    BY <1>6 DEF Lane, Due, TheoremOf, Source, Needed
  <2>5. attempt'.replay <=> useCache /\ Known(Due)
    BY <1>6, <2>2, <2>3 DEF Replayed
  <2>6. useCache => \A x \in Theorems :
          x \in proved' <=> Known(x) \/ (attempt'.success /\ x = Due)
    BY <1>6, <2>3
  <2> QED
    BY <1>6, <2>1, <2>2, <2>4, <2>5, <2>6 DEF CacheTrue
<1>7. CASE RunReplays
  <2>1. /\ pc = "proving" /\ pc' = "judged" /\ attempt.theorem /\ Replayed
        /\ UNCHANGED <<recordVars, proved>>
    BY <1>7 DEF RunReplays, At, UnderWay
  <2>2. attempt'.success /\ attempt'.replay /\ attempt'.theorem
    BY <1>0, <1>7, <2>1 DEF RunReplays, Trial
  <2>3. proved \union {Due} = proved
    BY <2>1 DEF Replayed
  <2> QED
    BY <1>6, <2>1, <2>2, <2>3
<1>8. CASE Run
  <2>1. PICK r \in ProverRuns :
          /\ Proves(r)
          /\ proved' = IF useCache /\ r.success THEN proved \union {Due} ELSE proved
    BY <1>8 DEF Run
  <2>2. /\ pc = "proving" /\ pc' = "judged" /\ Unproved(attempt) /\ attempt.theorem
        /\ ~Replayed /\ UNCHANGED recordVars
    BY <1>8 DEF Run, At, UnderWay
  <2>3. /\ attempt'.success = r.success /\ attempt'.theorem = attempt.theorem
        /\ attempt'.replay = attempt.replay
    BY <1>0, <2>1, ProvesEffect
  <2> QED
    BY <1>6, <2>1, <2>2, <2>3 DEF Unproved
<1>9. CASE Record
  <2>1. /\ pc = "judged" /\ pc' = "due" /\ UNCHANGED <<useCache, proved>>
    BY <1>9, RecordIs
  <2>2. \A x : Known(x)' <=>
               Known(x) \/ (Lane # "formalizer_only" /\ attempt.success /\ x = Due)
    BY <1>9, RecordPasses
  <2>3. useCache => \A x \in Theorems : x \in proved <=>
          Known(x) \/ (Lane # "formalizer_only" /\ attempt.success /\ x = Due)
    BY <2>1 DEF CacheTrue
  <2>4. ReplaysEarned'
    BY <1>9, RecordReplays
  <2> QED
    BY <2>1, <2>2, <2>3, <2>4 DEF CacheTrue
<1>10. CASE UNCHANGED vars
  <2>1. (\A x : Known(x)' <=> Known(x)) /\ ReplaysEarned'
    BY <1>10, KnownKept DEF CacheTrue, vars
  <2>2. Lane' = Lane /\ Due' = Due /\ (Replayed' <=> Replayed)
    BY <1>10 DEF vars, Lane, Replayed, Due, TheoremOf, Source, Needed
  <2> QED
    BY <1>10, <2>1, <2>2 DEF CacheTrue, vars
<1> QED
  BY <1>1, <1>2, <1>3, <1>4, <1>5, <1>7, <1>8, <1>9, <1>10 DEF Next

LEMMA CacheInit ==
  ASSUME Init
  PROVE  CacheTrue
<1>1. \A c \in Cases, l \in AllLanes : attempts[c][l] = <<>>
  BY DEF Init
<1>2. ToSet(FullLanes) \subseteq AllLanes
  BY LanesAre
<1>3. \A x : Known(x) <=> x \in kept
  BY <1>1, <1>2 DEF Known, Passed
<1>4. ReplaysEarned
  BY <1>1, <1>2 DEF ReplaysEarned
<1>5. pc = "due" /\ proved = kept
  BY DEF Init
<1> QED
  BY <1>3, <1>4, <1>5 DEF CacheTrue

(* ReplaysEarned: an attempt is a replay exactly when its theorem was in   *)
(* the cache or has passed since.                                          *)
THEOREM ReplaysAlwaysEarned == Spec => []ReplaysEarned
<1>1. Init => CacheTrue
  BY CacheInit
<1>2. Typed /\ UnderWay /\ InTurn /\ CacheTrue /\ [Next]_vars => CacheTrue'
  BY CacheStep
<1>3. CacheTrue => ReplaysEarned
  BY DEF CacheTrue
<1> QED
  BY <1>1, <1>2, <1>3, AlwaysInTurn, PTL DEF Spec

-----------------------------------------------------------------------------
(* The sums of a snapshot.                                                 *)

(* A replayed attempt repeats a success. *)
Hit(a) == a.replay => a.success

HitsSucceed ==
  /\ pc = "judged" => Hit(attempt)
  /\ \A c \in Cases, l \in AllLanes : \A i \in DOMAIN attempts[c][l] : Hit(attempts[c][l][i])

LEMMA HitsStep ==
  ASSUME Typed, UnderWay, HitsSucceed, [Next]_vars
  PROVE  HitsSucceed'
<1>1. CASE UNCHANGED attempts /\ (pc' = "judged" => Hit(attempt)')
  <2> SUFFICES ASSUME NEW c \in Cases, NEW l \in AllLanes, NEW i \in DOMAIN attempts'[c][l]
               PROVE  Hit(attempts'[c][l][i])
    BY <1>1 DEF HitsSucceed, Hit
  <2> QED
    BY <1>1 DEF HitsSucceed
<1>2. CASE Record
  <2>1. /\ pc = "judged" /\ pc' # "judged"
        /\ \A c \in Cases, l \in AllLanes :
             attempts'[c][l] = IF c = place.case /\ l = Lane
                               THEN Append(attempts[c][l], Entry) ELSE attempts[c][l]
    BY <1>2, RecordIs
  <2>2. Hit(Entry)
    BY <2>1, EntryIs DEF HitsSucceed, Hit
  <2> SUFFICES ASSUME NEW c \in Cases, NEW l \in AllLanes, NEW i \in DOMAIN attempts'[c][l]
               PROVE  Hit(attempts'[c][l][i])
    BY <2>1 DEF HitsSucceed, Hit
  <2>3. \/ i \in DOMAIN attempts[c][l] /\ attempts'[c][l][i] = attempts[c][l][i]
        \/ attempts'[c][l][i] = Entry
    BY <1>2, RecordGrows
  <2>4. i \in DOMAIN attempts[c][l] => Hit(attempts[c][l][i])
    BY DEF HitsSucceed
  <2> QED
    BY <2>2, <2>3, <2>4
<1>3. CASE ~Record /\ Next
  <2>1. UNCHANGED attempts
    BY <1>3, OthersKeep
  <2>2. ASSUME pc' = "judged" PROVE Hit(attempt)'
    <3>0. attempt \in Trial
      BY DEF Typed
    <3>1. CASE RunReplays
      BY <3>0, <3>1 DEF RunReplays, Hit, Trial
    <3>2. CASE FormalizeReplays \/ Formalize \/ Grade
      <4>1. attempt'.replay = attempt.replay
        BY <3>0, <3>2 DEF FormalizeReplays, Formalize, Grade, Trial
      <4>2. ~attempt.replay
        BY <3>2 DEF FormalizeReplays, Formalize, Grade, At, UnderWay, Unproved
      <4> QED
        BY <4>1, <4>2 DEF Hit
    <3>3. CASE Run
      <4>0. PICK r \in ProverRuns : Proves(r)
        BY <3>3 DEF Run
      <4>1. attempt'.replay = attempt.replay
        BY <3>0, <4>0, ProvesEffect
      <4>2. ~attempt.replay
        BY <3>3 DEF Run, At, UnderWay, Unproved
      <4> QED
        BY <4>1, <4>2 DEF Hit
    <3>4. ~BeginAttempt
      BY <2>2 DEF BeginAttempt, At, FirstStep
    <3> QED
      BY <1>3, <2>2, <3>1, <3>2, <3>3, <3>4 DEF Next, SkipLane, Raise, Write, At
  <2> QED
    BY <1>1, <2>1, <2>2
<1>4. CASE UNCHANGED vars
  BY <1>1, <1>4 DEF vars, recordVars, HitsSucceed, Hit
<1> QED
  BY <1>2, <1>3, <1>4

(* The attempts of the cases in cs that are in Q. *)
Found(l, cs, Q) ==
  {p \in Cases \X Nat : /\ p[1] \in cs /\ p[2] \in DOMAIN attempts[p[1]][l]
                       /\ attempts[p[1]][l][p[2]] \in Q}

Rows(cs, l) == [c \in Cases |-> IF c \in cs THEN attempts[c][l] ELSE <<>>]

LEMMA RowsAre ==
  ASSUME Typed, NEW l \in AllLanes, NEW cs \in SUBSET Cases
  PROVE  /\ Rows(cs, l) \in Seq(Seq(Attempt)) /\ Cases = 1 .. Len(Suite)
         /\ Len(Rows(cs, l)) = Len(Suite)
         /\ AllAttempts(cs, l) = FlattenSeq(Rows(cs, l))
<1>1. Cases = 1 .. Len(Suite) /\ Len(Suite) \in Nat
  BY SuiteAssumption DEF Cases
<1>2. \A c \in Cases : attempts[c][l] \in Seq(Attempt) /\ <<>> \in Seq(Attempt)
  BY DEF Typed
<1>3. \A c \in Cases : Rows(cs, l)[c] \in Seq(Attempt)
  BY <1>2 DEF Rows
<1>4. Rows(cs, l) \in [1 .. Len(Suite) -> Seq(Attempt)]
  BY <1>1, <1>3 DEF Rows
<1>5. AllAttempts(cs, l) = FlattenSeq(Rows(cs, l))
  BY DEF AllAttempts, Rows
<1> HIDE DEF Rows
<1> QED
  BY <1>1, <1>4, <1>5

LEMMA FoundIs ==
  ASSUME Typed, NEW l \in AllLanes, NEW cs \in SUBSET Cases, NEW Q
  PROVE  /\ AllAttempts(cs, l) \in Seq(Attempt)
         /\ IsFiniteSet(Found(l, cs, Q))
         /\ Cardinality(Hits(AllAttempts(cs, l), Q)) = Cardinality(Found(l, cs, Q))
         /\ Spots(Rows(cs, l), Len(Suite), Q) = Found(l, cs, Q)
<1>1. Spots(Rows(cs, l), Len(Suite), Q) = Found(l, cs, Q)
  <2>1. Cases = 1 .. Len(Suite)
    BY RowsAre
  <2>2. ASSUME NEW c \in Cases, NEW k \in Nat
        PROVE  k \in DOMAIN Rows(cs, l)[c] /\ Rows(cs, l)[c][k] \in Q
               <=> c \in cs /\ k \in DOMAIN attempts[c][l] /\ attempts[c][l][k] \in Q
    <3>1. CASE c \in cs
      BY <3>1 DEF Rows
    <3>2. CASE c \notin cs
      BY <3>2 DEF Rows
    <3> QED
      BY <3>1, <3>2
  <2> QED
    BY <2>1, <2>2 DEF Spots, Found
<1> QED
  BY <1>1, RowsAre, FlattenedHits

LEMMA CasesFinite == IsFiniteSet(Cases)
<1>1. Cases = 1 .. Len(Suite) /\ Len(Suite) \in Nat
  BY SuiteAssumption DEF Cases
<1> QED
  BY <1>1, FS_Interval

LEMMA TiersFinite == IsFiniteSet(Tiers)
<1> DEFINE f == [c \in Cases |-> Suite[c].tier]
<1>1. f \in Surjection(Cases, Tiers)
  BY DEF Surjection, Tiers
<1> QED
  BY <1>1, CasesFinite, FS_Surjection

(* The tiers share the attempts out among them. *)
LEMMA TiersShare ==
  ASSUME Typed, NEW l \in AllLanes, NEW Q
  PROVE  SumFunction([t \in Tiers |-> Cardinality(Found(l, OfTier(t), Q))])
           = Cardinality(Found(l, Cases, Q))
<1> DEFINE R == Found(l, Cases, Q)
           g == [p \in R |-> Suite[p[1]].tier]
<1>1. IsFiniteSet(Tiers)
  BY TiersFinite
<1>2. IsFiniteSet(R)
  BY FoundIs
<1>3. g \in [R -> Tiers]
  BY DEF Found, Tiers
<1>4. \A t \in Tiers : Found(l, OfTier(t), Q) = {p \in R : g[p] = t}
  BY DEF Found, OfTier
<1>5. [t \in Tiers |-> Cardinality(Found(l, OfTier(t), Q))]
        = [t \in Tiers |-> Cardinality({p \in R : g[p] = t})]
  BY <1>4
<1> HIDE DEF R, g
<1> QED
  BY <1>1, <1>2, <1>3, <1>5, SumOfClasses DEF R

(* What _summarize_attempts() counts. *)
Passing   == {a \in Attempt : a.success}
Failing   == {a \in Attempt : a.stage # "none"}
Coded(k)  == {a \in Attempt : a.code = k}
Replaying == {a \in Attempt : a.replay}
AtOnce(cs, l) == {c \in cs : attempts[c][l] # <<>> /\ attempts[c][l][1].success}

LEMMA SummaryIs ==
  ASSUME NEW q \in Seq(Attempt)
  PROVE  /\ Summary(q).attempts_run = Cardinality(Hits(q, Attempt))
         /\ Summary(q).successful_attempts = Cardinality(Hits(q, Passing))
         /\ Summary(q).failure_stages = Cardinality(Hits(q, Failing))
         /\ \A k \in {"formalization", "timeout", "unverified"} :
              Summary(q).error_codes[k] = Cardinality(Hits(q, Coded(k)))
         /\ Summary(q).cache_hits = Cardinality(Hits(q, Replaying))
         /\ Summary(q).pass_at_1 <=> q # <<>> /\ q[1].success
<1>1. \A i \in DOMAIN q : q[i] \in Attempt
  OBVIOUS
<1>2. /\ {i \in DOMAIN q : q[i].success} = Hits(q, Passing)
      /\ {i \in DOMAIN q : q[i].stage # "none"} = Hits(q, Failing)
      /\ \A k : {i \in DOMAIN q : q[i].code = k} = Hits(q, Coded(k))
      /\ {i \in DOMAIN q : q[i].replay} = Hits(q, Replaying)
  BY <1>1 DEF Hits, Passing, Failing, Coded, Replaying
<1>3. Summary(q).attempts_run = Len(q)
  BY DEF Summary
<1>4. Summary(q).successful_attempts = Cardinality({i \in DOMAIN q : q[i].success})
  BY DEF Summary, Count
<1>5. Summary(q).failure_stages = Cardinality({i \in DOMAIN q : q[i].stage # "none"})
  BY DEF Summary, Count
<1>6. \A k \in {"formalization", "timeout", "unverified"} :
        Summary(q).error_codes[k] = Cardinality({i \in DOMAIN q : q[i].code = k})
  BY DEF Summary, Count
<1>7. Summary(q).cache_hits = Cardinality({i \in DOMAIN q : q[i].replay})
  BY DEF Summary, Count
<1>8. Summary(q).pass_at_1 <=> q # <<>> /\ q[1].success
  BY DEF Summary
<1>9. Summary(q).attempts_run = Cardinality(Hits(q, Attempt))
  BY <1>3, AllHits
<1> QED
  BY <1>2, <1>4, <1>5, <1>6, <1>7, <1>8, <1>9

LEMMA AggregateIs ==
  ASSUME Typed, NEW l \in AllLanes, NEW cs \in SUBSET Cases
  PROVE  /\ Aggregate(cs, l).attempts_run = Cardinality(Found(l, cs, Attempt))
         /\ Aggregate(cs, l).successful_attempts = Cardinality(Found(l, cs, Passing))
         /\ Aggregate(cs, l).failure_stages = Cardinality(Found(l, cs, Failing))
         /\ \A k \in {"formalization", "timeout", "unverified"} :
              Aggregate(cs, l).error_codes[k] = Cardinality(Found(l, cs, Coded(k)))
         /\ Aggregate(cs, l).cache_hits = Cardinality(Found(l, cs, Replaying))
         /\ Aggregate(cs, l).pass_at_1 = Cardinality(AtOnce(cs, l))
<1> DEFINE s == Summary(AllAttempts(cs, l))
           n == Cardinality({c \in cs : Summary(attempts[c][l]).pass_at_1})
<1>1. Aggregate(cs, l) = [s EXCEPT !.pass_at_1 = n]
  BY DEF Aggregate
<1>2. DOMAIN s = {"attempts_run", "successful_attempts", "pass_at_1", "failure_stages",
                  "error_codes", "cache_hits"}
  BY DEF Summary
<1>3. {c \in cs : Summary(attempts[c][l]).pass_at_1} = AtOnce(cs, l)
  <2>1. \A c \in cs : attempts[c][l] \in Seq(Attempt)
    BY DEF Typed
  <2>2. \A c \in cs : Summary(attempts[c][l]).pass_at_1
                      <=> attempts[c][l] # <<>> /\ attempts[c][l][1].success
    BY <2>1, SummaryIs
  <2> QED
    BY <2>2 DEF AtOnce
<1>4. n = Cardinality(AtOnce(cs, l))
  BY <1>3
<1>5. /\ s.attempts_run = Cardinality(Found(l, cs, Attempt))
      /\ s.successful_attempts = Cardinality(Found(l, cs, Passing))
      /\ s.failure_stages = Cardinality(Found(l, cs, Failing))
      /\ \A k \in {"formalization", "timeout", "unverified"} :
           s.error_codes[k] = Cardinality(Found(l, cs, Coded(k)))
      /\ s.cache_hits = Cardinality(Found(l, cs, Replaying))
  BY SummaryIs, FoundIs
<1> HIDE DEF s, n
<1>6. /\ [s EXCEPT !.pass_at_1 = n].pass_at_1 = n
      /\ [s EXCEPT !.pass_at_1 = n].attempts_run = s.attempts_run
      /\ [s EXCEPT !.pass_at_1 = n].successful_attempts = s.successful_attempts
      /\ [s EXCEPT !.pass_at_1 = n].failure_stages = s.failure_stages
      /\ [s EXCEPT !.pass_at_1 = n].error_codes = s.error_codes
      /\ [s EXCEPT !.pass_at_1 = n].cache_hits = s.cache_hits
  BY <1>2, Zenon
<1> QED
  BY <1>1, <1>4, <1>5, <1>6, Zenon

LEMMA AtOnceIs ==
  ASSUME Typed, NEW l \in AllLanes
  PROVE  /\ IsFiniteSet(AtOnce(Cases, l))
         /\ SumFunction([t \in Tiers |-> Cardinality(AtOnce(OfTier(t), l))])
              = Cardinality(AtOnce(Cases, l))
         /\ Cardinality(AtOnce(Cases, l)) <= Cardinality(Found(l, Cases, Passing))
<1> DEFINE R == AtOnce(Cases, l)
           g == [c \in R |-> Suite[c].tier]
           f == [c \in R |-> <<c, 1>>]
<1>1. IsFiniteSet(R)
  BY CasesFinite, FS_Subset DEF AtOnce
<1>2. g \in [R -> Tiers]
  BY DEF AtOnce, Tiers
<1>3. \A t \in Tiers : AtOnce(OfTier(t), l) = {c \in R : g[c] = t}
  BY DEF AtOnce, OfTier
<1>4. [t \in Tiers |-> Cardinality(AtOnce(OfTier(t), l))]
        = [t \in Tiers |-> Cardinality({c \in R : g[c] = t})]
  BY <1>3
<1>5. f \in Injection(R, Found(l, Cases, Passing))
  <2>1. ASSUME NEW c \in R PROVE <<c, 1>> \in Found(l, Cases, Passing)
    <3>1. c \in Cases /\ attempts[c][l] \in Seq(Attempt) /\ attempts[c][l] # <<>>
          /\ attempts[c][l][1].success
      BY DEF AtOnce, Typed
    <3>2. 1 \in DOMAIN attempts[c][l] /\ attempts[c][l][1] \in Attempt
      BY <3>1
    <3> QED
      BY <3>1, <3>2 DEF Found, Passing
  <2>2. f \in [R -> Found(l, Cases, Passing)]
    BY <2>1
  <2>3. \A x, y \in R : f[x] = f[y] => x = y
    OBVIOUS
  <2> HIDE DEF f, R
  <2> QED
    BY <2>2, <2>3 DEF Injection, IsInjective
<1>6. Cardinality(R) <= Cardinality(Found(l, Cases, Passing))
  <2> HIDE DEF f, R
  <2> QED
    BY <1>5, FoundIs, FS_Injection
<1> HIDE DEF R, g
<1>7. SumFunction([t \in Tiers |-> Cardinality({c \in R : g[c] = t})]) = Cardinality(R)
  BY <1>1, <1>2, TiersFinite, SumOfClasses
<1> QED
  BY <1>1, <1>4, <1>6, <1>7 DEF R

(* Each attempt is a success or a failure, of one code. *)
LEMMA Apart ==
  ASSUME Typed, AllRecorded, HitsSucceed, NEW l \in AllLanes
  PROVE  /\ Cardinality(Found(l, Cases, Attempt)) =
              Cardinality(Found(l, Cases, Passing)) + Cardinality(Found(l, Cases, Failing))
         /\ Cardinality(Found(l, Cases, Failing)) =
              Cardinality(Found(l, Cases, Coded("formalization")))
                + Cardinality(Found(l, Cases, Coded("timeout")))
                + Cardinality(Found(l, Cases, Coded("unverified")))
         /\ Cardinality(Found(l, Cases, Replaying)) <= Cardinality(Found(l, Cases, Passing))
<1> DEFINE F(Q) == Found(l, Cases, Q)
<1>1. \A Q : IsFiniteSet(F(Q)) /\ Cardinality(F(Q)) \in Nat
  BY FoundIs, FS_CardinalityType
<1>2. ASSUME NEW p \in F(Attempt), NEW a, a = attempts[p[1]][l][p[2]]
      PROVE  /\ a \in Attempt
             /\ a.success <=> a.stage = "none"
             /\ a.stage = "none" <=> a.code = "none"
             /\ a.replay => a.success
             /\ a.code \in {"none", "formalization", "timeout", "unverified"}
  <2>1. p[1] \in Cases /\ p[2] \in DOMAIN attempts[p[1]][l] /\ a \in Attempt
    BY <1>2 DEF Found
  <2>2. Explained(a, p[1], l) /\ Hit(a)
    BY <1>2, <2>1 DEF AllRecorded, HitsSucceed
  <2> QED
    BY <2>1, <2>2 DEF Explained, Hit, Attempt
<1>3. /\ \A Q \in SUBSET Attempt : F(Q) \subseteq F(Attempt)
      /\ \A Q : \A p \in F(Q) : attempts[p[1]][l][p[2]] \in Q
      /\ \A Q \in SUBSET Attempt : \A p \in F(Attempt) :
           attempts[p[1]][l][p[2]] \in Q => p \in F(Q)
  BY DEF Found
<1>4. /\ Passing \in SUBSET Attempt /\ Failing \in SUBSET Attempt
      /\ Replaying \in SUBSET Attempt /\ \A k : Coded(k) \in SUBSET Attempt
  BY DEF Passing, Failing, Replaying, Coded
<1> HIDE DEF F
<1>5. F(Attempt) = F(Passing) \cup F(Failing) /\ F(Passing) \cap F(Failing) = {}
  BY <1>2, <1>3, <1>4 DEF Passing, Failing
<1>6. /\ F(Failing) = (F(Coded("formalization")) \cup F(Coded("timeout")))
                        \cup F(Coded("unverified"))
      /\ F(Coded("formalization")) \cap F(Coded("timeout")) = {}
      /\ (F(Coded("formalization")) \cup F(Coded("timeout"))) \cap F(Coded("unverified")) = {}
  BY <1>2, <1>3, <1>4 DEF Coded, Failing
<1>7. F(Replaying) \in SUBSET F(Passing)
  BY <1>2, <1>3, <1>4 DEF Replaying, Passing
<1>8. Cardinality(F(Attempt)) = Cardinality(F(Passing)) + Cardinality(F(Failing))
  BY <1>1, <1>5, Disjoint
<1>9. Cardinality(F(Failing)) = Cardinality(F(Coded("formalization")))
        + Cardinality(F(Coded("timeout"))) + Cardinality(F(Coded("unverified")))
  <2>1. /\ IsFiniteSet(F(Coded("formalization")) \cup F(Coded("timeout")))
        /\ Cardinality(F(Coded("formalization")) \cup F(Coded("timeout"))) =
             Cardinality(F(Coded("formalization"))) + Cardinality(F(Coded("timeout")))
    BY <1>1, <1>6, Disjoint
  <2> QED
    BY <1>1, <1>6, <2>1, Disjoint
<1>10. Cardinality(F(Replaying)) <= Cardinality(F(Passing))
  BY <1>1, <1>7, FS_Subset
<1> QED
  BY <1>8, <1>9, <1>10 DEF F

(* A complete lane has as many attempts as repetitions of its cases. *)
LEMMA CompleteLane ==
  ASSUME Typed, Complete, pc = "written", NEW l \in ToSet(lanes), l \in AllLanes
  PROVE  Cardinality(Found(l, Cases, Attempt)) =
           Repetitions * Cardinality({c \in Cases : Applicable(c, l)})
<1> DEFINE A == {c \in Cases : Applicable(c, l)}
           ss == Rows(Cases, l)
<1>1. /\ ss \in Seq(Seq(Attempt)) /\ Cases = 1 .. Len(ss)
      /\ Spots(ss, Len(ss), Attempt) = Found(l, Cases, Attempt)
  BY RowsAre, FoundIs
<1>2. A \in SUBSET (1 .. Len(ss)) /\ Repetitions \in Nat
  BY <1>1, RepetitionsAssumption
<1>3. \A c \in Cases : Len(ss[c]) = IF c \in A THEN Repetitions ELSE 0
  BY DEF Rows, Complete
<1> HIDE DEF A, ss
<1>4. \A i \in 1 .. Len(ss) : Len(ss[i]) = IF i \in A THEN Repetitions ELSE 0
  BY <1>1, <1>3
<1>5. Cardinality(Spots(ss, Len(ss), Attempt)) = Repetitions * Cardinality(A)
  BY <1>1, <1>2, <1>4, EvenSpots
<1> QED
  BY <1>1, <1>5 DEF A

(* SnapshotAddsUp: a snapshot is complete, each of its attempts is counted *)
(* as a success or under one failure stage and one code, and the tiers add *)
(* up to the suite.                                                        *)
THEOREM SnapshotsAddUp == Spec => []SnapshotAddsUp
<1>1. ASSUME Typed, AllRecorded, HitsSucceed, Complete PROVE SnapshotAddsUp
  <2> SUFFICES ASSUME pc = "written", NEW l \in ToSet(lanes)
      PROVE  LET all     == Aggregate(Cases, l)
                 tier(t) == Aggregate(OfTier(t), l)
             IN  /\ all.attempts_run =
                      Repetitions * Cardinality({c \in Cases : Applicable(c, l)})
                 /\ all.attempts_run = all.successful_attempts + all.failure_stages
                 /\ all.failure_stages = all.error_codes["formalization"]
                      + all.error_codes["timeout"] + all.error_codes["unverified"]
                 /\ all.cache_hits <= all.successful_attempts
                 /\ all.pass_at_1 <= all.successful_attempts
                 /\ all.attempts_run = SumFunction([t \in Tiers |-> tier(t).attempts_run])
                 /\ all.successful_attempts =
                      SumFunction([t \in Tiers |-> tier(t).successful_attempts])
                 /\ all.pass_at_1 = SumFunction([t \in Tiers |-> tier(t).pass_at_1])
    BY DEF SnapshotAddsUp
  <2>1. l \in AllLanes
    BY <1>1, LanesAre DEF Typed, AllLanes
  <2> DEFINE all     == Aggregate(Cases, l)
             tier(t) == Aggregate(OfTier(t), l)
             F(cs, Q) == Cardinality(Found(l, cs, Q))
  <2>2. /\ all.attempts_run = F(Cases, Attempt)
        /\ all.successful_attempts = F(Cases, Passing)
        /\ all.failure_stages = F(Cases, Failing)
        /\ all.error_codes["formalization"] = F(Cases, Coded("formalization"))
        /\ all.error_codes["timeout"] = F(Cases, Coded("timeout"))
        /\ all.error_codes["unverified"] = F(Cases, Coded("unverified"))
        /\ all.cache_hits = F(Cases, Replaying)
        /\ all.pass_at_1 = Cardinality(AtOnce(Cases, l))
    BY <1>1, <2>1, AggregateIs
  <2>3. \A t \in Tiers :
          /\ tier(t).attempts_run = F(OfTier(t), Attempt)
          /\ tier(t).successful_attempts = F(OfTier(t), Passing)
          /\ tier(t).pass_at_1 = Cardinality(AtOnce(OfTier(t), l))
    <3>1. \A t : OfTier(t) \in SUBSET Cases
      BY DEF OfTier
    <3> QED
      BY <1>1, <2>1, <3>1, AggregateIs
  <2> HIDE DEF all, tier
  <2>4. /\ [t \in Tiers |-> tier(t).attempts_run] = [t \in Tiers |-> F(OfTier(t), Attempt)]
        /\ [t \in Tiers |-> tier(t).successful_attempts]
             = [t \in Tiers |-> F(OfTier(t), Passing)]
        /\ [t \in Tiers |-> tier(t).pass_at_1]
             = [t \in Tiers |-> Cardinality(AtOnce(OfTier(t), l))]
    BY <2>3
  <2>5. /\ SumFunction([t \in Tiers |-> F(OfTier(t), Attempt)]) = F(Cases, Attempt)
        /\ SumFunction([t \in Tiers |-> F(OfTier(t), Passing)]) = F(Cases, Passing)
    BY <1>1, <2>1, TiersShare
  <2>6. /\ SumFunction([t \in Tiers |-> Cardinality(AtOnce(OfTier(t), l))])
             = Cardinality(AtOnce(Cases, l))
        /\ Cardinality(AtOnce(Cases, l)) <= F(Cases, Passing)
    BY <1>1, <2>1, AtOnceIs
  <2>7. /\ F(Cases, Attempt) = F(Cases, Passing) + F(Cases, Failing)
        /\ F(Cases, Failing) = F(Cases, Coded("formalization"))
             + F(Cases, Coded("timeout")) + F(Cases, Coded("unverified"))
        /\ F(Cases, Replaying) <= F(Cases, Passing)
    BY <1>1, <2>1, Apart
  <2>8. F(Cases, Attempt) = Repetitions * Cardinality({c \in Cases : Applicable(c, l)})
    BY <1>1, <2>1, CompleteLane
  <2> HIDE DEF F
  <2>9. /\ all.attempts_run = Repetitions * Cardinality({c \in Cases : Applicable(c, l)})
        /\ all.attempts_run = all.successful_attempts + all.failure_stages
        /\ all.failure_stages = all.error_codes["formalization"]
             + all.error_codes["timeout"] + all.error_codes["unverified"]
        /\ all.cache_hits <= all.successful_attempts
        /\ all.pass_at_1 <= all.successful_attempts
    BY <2>2, <2>6, <2>7, <2>8
  <2>10. /\ all.attempts_run = SumFunction([t \in Tiers |-> tier(t).attempts_run])
         /\ all.successful_attempts =
              SumFunction([t \in Tiers |-> tier(t).successful_attempts])
         /\ all.pass_at_1 = SumFunction([t \in Tiers |-> tier(t).pass_at_1])
    BY <2>2, <2>4, <2>5, <2>6
  <2> QED
    BY <2>9, <2>10 DEF all, tier
<1>2. Typed /\ UnderWay /\ HitsSucceed /\ [Next]_vars => HitsSucceed'
  BY HitsStep
<1>3. Init => HitsSucceed
  <2>1. Init => pc = "due" /\ \A c \in Cases, l \in AllLanes : attempts[c][l] = <<>>
    BY DEF Init
  <2> QED
    BY <2>1 DEF HitsSucceed
<1>4. Typed /\ AllRecorded /\ HitsSucceed /\ Complete => SnapshotAddsUp
  BY <1>1
<1> QED
  BY <1>2, <1>3, <1>4, AlwaysRecorded, SnapshotsComplete, PTL DEF Spec
=============================================================================
