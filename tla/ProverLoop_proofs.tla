-------------------------- MODULE ProverLoop_proofs --------------------------
(***************************************************************************)
(* What ProverLoop promises, for every budget and every set of tactics and *)
(* queries, whatever the model, the provider and the Lean server do.       *)
(***************************************************************************)
EXTENDS ProverLoop, SumTheorems

-----------------------------------------------------------------------------
(* Types, and what a step is.                                              *)

(* A response whose calls are being handled has one left, and a            *)
(* conversation that has ended has a reason for it.                        *)
Typed ==
  /\ TypeOK
  /\ pc = "handling" => left > 0
  /\ pc \in {"closing", "stopping"} => why # "none"

(* Only a handled call touches the trace and its counters; and the log of  *)
(* attempts changes otherwise only when the run ends.                      *)
LEMMA QuietStep ==
  ASSUME [Next]_vars
  PROVE  \/ \E call \in Call : Handle(call)
         \/ /\ UNCHANGED <<tracker, trace>>
            /\ UNCHANGED <<attempts, pending>> \/ pc' = "ended"
<1> USE DEF guardVars
<1>1. CASE Proceeds
  BY <1>1 DEF Proceeds, Initialize, NoPlaceholder, End, TryFast, FastExhausted,
     NoApiKey, OpenSession, OpenFails, AppendCap, BudgetStop, CloseSession,
     Conclude, ConcludeRaises, Interrupted
<1>2. CASE Answered
  BY <1>2 DEF Answered, Reply, Backoff, RequestFails
<1>3. CASE WallClock \/ UNCHANGED vars
  BY <1>3 DEF WallClock, vars
<1> QED
  BY <1>1, <1>2, <1>3 DEF Next

LEMMA PositiveBudgets ==
  /\ MaxTotal \in Nat \ {0} /\ MaxSearch \in Nat \ {0}
  /\ MaxReadOnly \in Nat \ {0} /\ MaxUnchecked \in Nat \ {0}
BY BudgetAssumption DEF ResolvedBudget

LEMMA CallType ==
  ASSUME NEW call \in Call
  PROVE  call.tool \in {"apply_tactic", "diagnostics", "goal", "search", "unregistered"}
         /\ (call.tool = "apply_tactic" => call.arg \in Tactics \union {Blank, Garbled})
BY DEF Call, ApplyCall, ReadCall

LEMMA RecordType ==
  ASSUME GuardTypeOK, NEW call \in Call, NEW status \in {"ran"} \union Refused,
         NEW said \in Said, Record(call, status, said)
  PROVE  trace' \in Seq(TraceEntry)
<1>1. [tool |-> call.tool, status |-> status, said |-> said] \in TraceEntry
  BY CallType DEF TraceEntry
<1> QED
  BY <1>1 DEF Record, GuardTypeOK

(* The counters after each kind of call. *)
LEMMA TrackerChange ==
  ASSUME NEW t \in Tracker, NEW x \in Nat, NEW y \in Nat, NEW z \in Nat,
         NEW c \in Call \union {NoCall}
  PROVE  /\ [t EXCEPT !.total = x, !.blocked = y] \in Tracker
         /\ [t EXCEPT !.total = x, !.unchecked = y, !.readOnly = z, !.last = c] \in Tracker
         /\ [t EXCEPT !.total = x, !.readOnly = y, !.last = c, !.searches = z] \in Tracker
BY DEF Tracker

LEMMA TrackerFields ==
  ASSUME NEW t \in Tracker
  PROVE  t.total \in Nat /\ t.blocked \in Nat /\ t.unchecked \in Nat
         /\ t.readOnly \in Nat /\ t.searches \in Nat
BY DEF Tracker

LEMMA AttemptChange ==
  ASSUME NEW a \in Attempt, NEW state \in AttemptState
  PROVE  [a EXCEPT !.state = state] \in Attempt
BY DEF Attempt

(* The guard's variables keep their types when a call is handled. *)
LEMMA GuardType ==
  ASSUME GuardTypeOK, NEW call \in Call, GuardedCall(call)
  PROVE  GuardTypeOK'
<1>1. CASE Block(call)
  <2>1. Status(call) \in Refused
    BY <1>1 DEF Block, Status, Refused
  <2>2. trace' \in Seq(TraceEntry)
    BY <1>1, <2>1, RecordType DEF Block, Said
  <2>3. tracker' \in Tracker
    <3>1. tracker.total + 1 \in Nat /\ tracker.blocked + 1 \in Nat /\ tracker \in Tracker
      BY TrackerFields DEF GuardTypeOK
    <3> QED
      BY <1>1, <3>1, TrackerChange DEF Block
  <2> QED
    BY <1>1, <2>2, <2>3 DEF Block, GuardTypeOK
<1>2. CASE Apply(call)
  <2>1. call.arg \in Tactics \union {Blank, Garbled}
    BY <1>2, CallType DEF Apply
  <2>2. trace' \in Seq(TraceEntry)
    BY <1>2, RecordType DEF Apply, Said
  <2>3. Superseded \in Seq(Attempt) /\ Len(Superseded) = Len(attempts)
    <3>1. CASE pending = 0
      BY <3>1 DEF Superseded, GuardTypeOK
    <3>2. CASE pending # 0
      <4>1. pending \in 1 .. Len(attempts) /\ attempts \in Seq(Attempt)
        /\ attempts[pending] \in Attempt
        BY <3>2 DEF GuardTypeOK
      <4>2. [attempts[pending] EXCEPT !.state = "superseded"] \in Attempt
        BY <4>1, AttemptChange DEF AttemptState
      <4> QED
        BY <3>2, <4>1, <4>2 DEF Superseded
    <3> QED
      BY <3>1, <3>2
  <2>4. attempts' \in Seq(Attempt) /\ pending' \in 0 .. Len(attempts')
    <3>1. CASE call.arg = Garbled
      BY <1>2, <3>1 DEF Apply, GuardTypeOK
    <3>2. CASE call.arg # Garbled
      <4>1. [tactic |-> call.arg, state |-> "pending"] \in Attempt
        BY <2>1, <3>2 DEF Attempt, AttemptState
      <4>2. attempts' = Append(Superseded, [tactic |-> call.arg, state |-> "pending"])
            /\ pending' = Len(attempts) + 1
        BY <1>2, <3>2 DEF Apply
      <4>3. Len(attempts) \in Nat
        BY DEF GuardTypeOK
      <4> QED
        BY <2>3, <4>1, <4>2, <4>3
    <3> QED
      BY <3>1, <3>2
  <2>5. tactic' \in Tactics \union {Sorry}
    BY <1>2, <2>1 DEF Apply, GuardTypeOK
  <2>6. tracker' \in Tracker
    <3>1. /\ tracker.total + 1 \in Nat /\ tracker.unchecked + 1 \in Nat
          /\ tracker \in Tracker /\ NoCall \in Call \union {NoCall}
      BY TrackerFields DEF GuardTypeOK
    <3> QED
      BY <1>2, <3>1, TrackerChange DEF Apply
  <2> QED
    BY <2>2, <2>4, <2>5, <2>6 DEF GuardTypeOK
<1>3. CASE Diagnose(call)
  <2>1. PICK said \in {"none", "clean", "errors"} :
          /\ Record(call, "ran", said)
          /\ IF said = "none" \/ pending = 0
             THEN UNCHANGED <<attempts, pending>>
             ELSE /\ attempts' = [attempts EXCEPT ![pending].state = said]
                  /\ pending' = 0
    BY <1>3 DEF Diagnose
  <2>2. trace' \in Seq(TraceEntry)
    BY <2>1, RecordType DEF Said
  <2>3. attempts' \in Seq(Attempt) /\ pending' \in 0 .. Len(attempts')
    <3>1. CASE said = "none" \/ pending = 0
      BY <2>1, <3>1 DEF GuardTypeOK
    <3>2. CASE said # "none" /\ pending # 0
      <4>1. pending \in 1 .. Len(attempts) /\ attempts \in Seq(Attempt)
        /\ attempts[pending] \in Attempt
        BY <3>2 DEF GuardTypeOK
      <4>2. [attempts[pending] EXCEPT !.state = said] \in Attempt
        BY <4>1, <3>2, AttemptChange DEF AttemptState
      <4> QED
        BY <2>1, <3>2, <4>1, <4>2
    <3> QED
      BY <3>1, <3>2
  <2>4. tracker' \in Tracker
    <3>1. /\ tracker.total + 1 \in Nat /\ tracker.readOnly + 1 \in Nat
          /\ tracker \in Tracker /\ call \in Call \union {NoCall}
      BY TrackerFields DEF GuardTypeOK
    <3> QED
      BY <1>3, <3>1, TrackerChange DEF Diagnose
  <2> QED
    BY <1>3, <2>2, <2>3, <2>4 DEF Diagnose, GuardTypeOK
<1>4. CASE Read(call)
  <2>1. trace' \in Seq(TraceEntry)
    BY <1>4, RecordType DEF Read, Said
  <2>2. tracker' \in Tracker
    <3>1. /\ tracker.total + 1 \in Nat /\ tracker.readOnly + 1 \in Nat
          /\ tracker \in Tracker /\ call \in Call \union {NoCall}
          /\ (IF call.tool = "search" THEN tracker.searches + 1 ELSE tracker.searches) \in Nat
      BY TrackerFields DEF GuardTypeOK
    <3> QED
      BY <1>4, <3>1, TrackerChange DEF Read
  <2> QED
    BY <1>4, <2>1, <2>2 DEF Read, GuardTypeOK
<1> QED
  BY <1>1, <1>2, <1>3, <1>4 DEF GuardedCall

LEMMA FinalizeType ==
  ASSUME GuardTypeOK, Finalize, UNCHANGED <<tactic, tracker, trace>>
  PROVE  GuardTypeOK'
<1>1. attempts' \in Seq(Attempt) /\ pending' \in 0 .. Len(attempts')
  <2>1. CASE pending = 0
    BY <2>1 DEF Finalize, GuardTypeOK
  <2>2. CASE pending # 0
    <3>1. pending \in 1 .. Len(attempts) /\ attempts \in Seq(Attempt)
      /\ attempts[pending] \in Attempt
      BY <2>2 DEF GuardTypeOK
    <3>2. [attempts[pending] EXCEPT !.state = "unresolved"] \in Attempt
      BY <3>1, AttemptChange DEF AttemptState
    <3> QED
      BY <2>2, <3>1, <3>2 DEF Finalize
  <2> QED
    BY <2>1, <2>2
<1> QED
  BY <1>1 DEF GuardTypeOK

LEMMA EndType ==
  ASSUME NEW stop \in {"complete", "incomplete", "timeout", "append_cap",
                       "tool_budget", "retries", "empty_cycle", "run_error"},
         NEW success \in BOOLEAN, NEW partial \in BOOLEAN,
         NEW t \in Tactics \union {Sorry},
         End([stop |-> stop, success |-> success, partial |-> partial, tactic |-> t])
  PROVE  pc' = "ended" /\ answer' \in Answer \union {NoAnswer} /\ workfile' = FALSE
BY DEF End, Answer

LEMMA RaisedType ==
  ASSUME End(Raised)
  PROVE  pc' = "ended" /\ answer' \in Answer \union {NoAnswer} /\ workfile' = FALSE
BY DEF End, Answer, Raised

LEMMA VerifiedType ==
  ASSUME TypeOK, NEW ok \in BOOLEAN, Verified(ok)
  PROVE  accepted' \in SUBSET Tactics
BY DEF TypeOK, GuardTypeOK, Verified

LEMMA StopType ==
  ASSUME NEW reason \in Why \ {"none"}, Stop(reason)
  PROVE  pc' = "closing" /\ why' \in Why \ {"none"} /\ left' \in 0 .. BatchSize
BY LoopAssumption DEF Stop

(* The final verification's answer. *)
LEMMA InterruptedType ==
  ASSUME Typed, Interrupted
  PROVE  pc' = "ended" /\ answer' \in Answer \union {NoAnswer} /\ workfile' = FALSE
         /\ accepted' \in SUBSET Tactics
<1>1. PICK ok \in BOOLEAN :
        /\ Verified(ok)
        /\ End([stop |-> IF ok THEN "complete" ELSE StopReason, success |-> ok,
                partial |-> why # "run_error" /\ ~ok, tactic |-> tactic])
  BY DEF Interrupted
<1>2. StopReason \in {"timeout", "append_cap", "tool_budget", "retries",
                      "empty_cycle", "run_error"}
  BY DEF Interrupted, StopReason, Typed, TypeOK, Why, Failure
<1>3. (why # "run_error" /\ ~ok) \in BOOLEAN
  OBVIOUS
<1>4. tactic \in Tactics \union {Sorry}
  BY DEF Typed, TypeOK, GuardTypeOK
<1>5. pc' = "ended" /\ answer' \in Answer \union {NoAnswer} /\ workfile' = FALSE
  BY <1>1, <1>2, <1>3, <1>4, EndType
<1> QED
  BY <1>1, <1>5, VerifiedType DEF Typed

LEMMA ConcludeType ==
  ASSUME Typed, Conclude
  PROVE  pc' = "ended" /\ answer' \in Answer \union {NoAnswer} /\ workfile' = FALSE
         /\ accepted' \in SUBSET Tactics
<1>1. PICK ok \in BOOLEAN :
        /\ Verified(ok)
        /\ End([stop |-> IF ok THEN "complete" ELSE "incomplete",
                success |-> ok, partial |-> FALSE, tactic |-> tactic])
  BY DEF Conclude
<1>2. tactic \in Tactics \union {Sorry}
  BY DEF Typed, TypeOK, GuardTypeOK
<1>3. pc' = "ended" /\ answer' \in Answer \union {NoAnswer} /\ workfile' = FALSE
  BY <1>1, <1>2, EndType
<1> QED
  BY <1>1, <1>3, VerifiedType DEF Typed

(* The types hold after every step. *)
LEMMA TypeStep ==
  ASSUME Typed, [Next]_vars
  PROVE  Typed'
<1> USE LoopAssumption DEF Typed, TypeOK
<1>0. UNCHANGED guardVars => GuardTypeOK'
  BY DEF guardVars, GuardTypeOK
<1>1. CASE Initialize
  BY <1>0, <1>1 DEF Initialize, PC
<1>2. CASE NoPlaceholder
  BY <1>0, <1>2, RaisedType DEF NoPlaceholder, PC
<1>3. ASSUME NEW t \in Tactics, TryFast(t) PROVE Typed'
  <2>1. GuardTypeOK'
    BY <1>3 DEF TryFast, GuardTypeOK
  <2>2. CASE FastSuccess(t)
    <3>1. pc' = "ended" /\ answer' \in Answer \union {NoAnswer} /\ workfile' = FALSE
      BY <2>2, EndType DEF FastSuccess
    <3>2. accepted' \in SUBSET Tactics
      BY <2>2 DEF FastSuccess
    <3>3. /\ tried' \in 0 .. FastAttempts
          /\ UNCHANGED <<rounds, retry, left, why>>
      BY <1>3 DEF TryFast
    <3> QED
      BY <2>1, <3>1, <3>2, <3>3 DEF PC
  <2>3. CASE UNCHANGED <<pc, answer, accepted, workfile>>
    BY <1>3, <2>1, <2>3 DEF TryFast
  <2> QED
    BY <1>3, <2>2, <2>3 DEF TryFast
<1>4. CASE FastExhausted
  <2>1. GuardTypeOK'
    BY <1>4 DEF FastExhausted, GuardTypeOK
  <2> QED
    BY <1>4, <2>1 DEF FastExhausted, PC
<1>5. CASE NoApiKey
  BY <1>0, <1>5, RaisedType DEF NoApiKey, PC
<1>6. CASE OpenSession
  BY <1>0, <1>6 DEF OpenSession, PC
<1>7. CASE OpenFails
  BY <1>0, <1>7 DEF OpenFails, PC, Why, Failure
<1>8. CASE AppendCap
  <2>1. pc' = "closing" /\ why' \in Why \ {"none"} /\ left' \in 0 .. BatchSize
    BY <1>8, StopType DEF AppendCap, Why
  <2> QED
    BY <1>0, <1>8, <2>1 DEF AppendCap, PC
<1>9. ASSUME NEW call \in Call, BudgetStop(call) PROVE Typed'
  <2>1. pc' = "closing" /\ why' \in Why \ {"none"} /\ left' \in 0 .. BatchSize
    BY <1>9, StopType DEF BudgetStop, Why
  <2> QED
    BY <1>0, <1>9, <2>1 DEF BudgetStop, PC
<1>10. CASE CloseSession
  BY <1>0, <1>10 DEF CloseSession, PC, Why, Failure
<1>11. CASE Conclude
  <2>1. GuardTypeOK'
    BY <1>11, FinalizeType DEF Conclude
  <2> QED
    BY <1>11, <2>1, ConcludeType DEF Conclude, PC
<1>12. CASE ConcludeRaises
  <2>1. GuardTypeOK'
    BY <1>12, FinalizeType DEF ConcludeRaises
  <2> QED
    BY <1>12, <2>1, RaisedType DEF ConcludeRaises, PC
<1>13. CASE Interrupted
  <2>1. GuardTypeOK'
    BY <1>13, FinalizeType DEF Interrupted
  <2> QED
    BY <1>13, <2>1, InterruptedType DEF Interrupted, PC
<1>14. ASSUME NEW n \in 0 .. BatchSize, Reply(n) PROVE Typed'
  <2>1. CASE n = 0
    <3>1. pc' = "closing" /\ why' \in Why \ {"none"} /\ left' \in 0 .. BatchSize
      BY <1>14, <2>1, StopType DEF Reply, Why
    <3> QED
      BY <1>0, <1>14, <3>1 DEF Reply, PC
  <2>2. CASE n # 0
    BY <1>0, <1>14, <2>2 DEF Reply, PC
  <2> QED
    BY <2>1, <2>2
<1>15. CASE Backoff
  BY <1>0, <1>15 DEF Backoff
<1>16. CASE RequestFails
  <2>1. pc' = "closing" /\ why' \in Why \ {"none"} /\ left' \in 0 .. BatchSize
    BY <1>16, StopType DEF RequestFails, Why, Failure
  <2> QED
    BY <1>0, <1>16, <2>1 DEF RequestFails, PC
<1>17. ASSUME NEW call \in Call, Handle(call) PROVE Typed'
  <2>1. GuardTypeOK'
    BY <1>17, GuardType DEF Handle
  <2> QED
    BY <1>17, <2>1 DEF Handle, PC
<1>18. CASE WallClock
  <2>1. pc' = "closing" /\ why' \in Why \ {"none"} /\ left' \in 0 .. BatchSize
    BY <1>18, StopType DEF WallClock, Why
  <2> QED
    BY <1>0, <1>18, <2>1 DEF WallClock, PC
<1>19. CASE UNCHANGED vars
  BY <1>0, <1>19 DEF vars, loopVars
<1>20. CASE Proceeds
  BY <1>1, <1>2, <1>3, <1>4, <1>5, <1>6, <1>7, <1>8, <1>9, <1>10, <1>11, <1>12, <1>13,
     <1>20 DEF Proceeds
<1>21. CASE Answered
  BY <1>14, <1>15, <1>16, <1>17, <1>21 DEF Answered
<1> QED
  BY <1>18, <1>19, <1>20, <1>21 DEF Next

LEMMA TypeInit == Init => Typed
<1> SUFFICES ASSUME Init PROVE Typed
  OBVIOUS
<1>1. GuardTypeOK
  BY DEF Init, GuardInit, GuardTypeOK, Tracker
<1>2. accepted \in SUBSET Tactics /\ workfile \in BOOLEAN
  BY DEF Init
<1>3. pc = "start" /\ pc \in PC /\ why \in Why
  BY DEF Init, PC, Why
<1>4. tried \in 0 .. FastAttempts /\ rounds \in Nat /\ retry \in 0 .. Retries
      /\ left \in 0 .. BatchSize
  BY LoopAssumption DEF Init
<1>5. answer \in Answer \union {NoAnswer}
  BY DEF Init
<1> QED
  BY <1>1, <1>2, <1>3, <1>4, <1>5 DEF Typed, TypeOK

LEMMA AlwaysTyped == Spec => []Typed
BY TypeInit, TypeStep, PTL DEF Spec

(* TypeOK: every variable keeps its type, for every budget.                *)
THEOREM TypeCorrect == Spec => []TypeOK
<1>1. Typed => TypeOK
  BY DEF Typed
<1> QED
  BY <1>1, AlwaysTyped, PTL

-----------------------------------------------------------------------------
(* What a handled call does to the trace and to the counters.              *)

NewEntry(n, call) ==
  /\ Len(trace') = n
  /\ \A i \in 1 .. n - 1 : trace'[i] = trace[i]
  /\ trace'[n].tool = call.tool
  /\ trace'[n].status = Status(call)

LEMMA RecordEffect ==
  ASSUME TypeOK, NEW call \in Call, NEW said, Record(call, Status(call), said),
         NEW n, n = Len(trace) + 1
  PROVE  NewEntry(n, call) /\ trace'[n].said = said
BY DEF TypeOK, GuardTypeOK, Record, NewEntry

LEMMA CallEffect ==
  ASSUME TypeOK, NEW call \in Call, Handle(call), NEW n, n = Len(trace) + 1
  PROVE  /\ NewEntry(n, call)
         /\ tracker.total < MaxTotal /\ tracker'.total = tracker.total + 1
         /\ IF Ran(n, {"search"})'
            THEN /\ HasFailedAttempt
                 /\ tracker.searches < MaxSearch
                 /\ tracker'.searches = tracker.searches + 1
            ELSE tracker'.searches = tracker.searches
         /\ Ran(n, {"apply_tactic"})' =>
              /\ tracker.unchecked < MaxUnchecked
              /\ tracker'.unchecked = tracker.unchecked + 1 /\ tracker'.readOnly = 0
         /\ Ran(n, {"diagnostics"})' => tracker'.unchecked = 0
         /\ ~Ran(n, {"apply_tactic", "diagnostics"})' =>
              tracker'.unchecked = tracker.unchecked
         /\ Ran(n, ReadTools)' =>
              /\ tracker.readOnly < MaxReadOnly
              /\ tracker'.readOnly = tracker.readOnly + 1
         /\ ~Ran(n, ReadTools \union {"apply_tactic"})' =>
              tracker'.readOnly = tracker.readOnly
<1> USE DEF Ran, ReadTools
<1>0. /\ tracker \in Tracker
      /\ ~OutOfBudget(call) /\ GuardedCall(call)
      /\ tracker.total \in Nat /\ tracker.readOnly \in Nat /\ tracker.unchecked \in Nat
      /\ tracker.searches \in Nat
  BY TrackerFields DEF TypeOK, GuardTypeOK, Handle
<1>1. tracker.total < MaxTotal /\ (call.tool # "apply_tactic" => tracker.readOnly < MaxReadOnly)
  BY <1>0, PositiveBudgets DEF OutOfBudget
<1>2. CASE Block(call)
  <2>1. NewEntry(n, call)
    BY <1>2, RecordEffect DEF Block
  <2>2. /\ tracker'.total = tracker.total + 1
        /\ tracker'.searches = tracker.searches /\ tracker'.unchecked = tracker.unchecked
        /\ tracker'.readOnly = tracker.readOnly
    BY <1>0, <1>2 DEF Block, Tracker
  <2> QED
    BY <1>1, <1>2, <2>1, <2>2 DEF Block, NewEntry
<1>3. CASE Apply(call)
  <2>1. NewEntry(n, call) /\ call.tool = "apply_tactic" /\ Status(call) = "ran"
    BY <1>3, RecordEffect DEF Apply
  <2>2. /\ tracker'.total = tracker.total + 1
        /\ tracker'.searches = tracker.searches
        /\ tracker'.unchecked = tracker.unchecked + 1
        /\ tracker'.readOnly = 0
    BY <1>0, <1>3 DEF Apply, Tracker
  <2>3. tracker.unchecked < MaxUnchecked
    BY <1>0, <2>1, PositiveBudgets DEF Status, ShouldBlockApply
  <2> QED
    BY <1>1, <2>1, <2>2, <2>3 DEF NewEntry
<1>4. CASE Diagnose(call)
  <2>1. NewEntry(n, call) /\ call.tool = "diagnostics" /\ Status(call) = "ran"
    BY <1>4, RecordEffect DEF Diagnose
  <2>2. /\ tracker'.total = tracker.total + 1
        /\ tracker'.searches = tracker.searches
        /\ tracker'.unchecked = 0
        /\ tracker'.readOnly = tracker.readOnly + 1
    BY <1>0, <1>4 DEF Diagnose, Tracker
  <2> QED
    BY <1>1, <2>1, <2>2 DEF NewEntry
<1>5. CASE Read(call)
  <2>1. NewEntry(n, call) /\ call.tool \in {"goal", "search"} /\ Status(call) = "ran"
    BY <1>5, RecordEffect DEF Read
  <2>2. /\ tracker'.total = tracker.total + 1
        /\ tracker'.searches =
             IF call.tool = "search" THEN tracker.searches + 1 ELSE tracker.searches
        /\ tracker'.unchecked = tracker.unchecked
        /\ tracker'.readOnly = tracker.readOnly + 1
    BY <1>0, <1>5 DEF Read, Tracker
  <2>3. call.tool = "search" => HasFailedAttempt /\ tracker.searches < MaxSearch
    BY <1>0, <2>1, PositiveBudgets DEF Status
  <2> QED
    BY <1>1, <2>1, <2>2, <2>3 DEF NewEntry
<1> QED
  BY <1>0, <1>2, <1>3, <1>4, <1>5 DEF GuardedCall

-----------------------------------------------------------------------------
(* The counters agree with the trace.                                      *)

(* The inductive form: the two consecutive counts are those of the calls   *)
(* since the last check and since the last tactic.                         *)
CountersAgree ==
  /\ BudgetsKept
  /\ tracker.unchecked = Cardinality(UncheckedAt(Len(trace)))
  /\ tracker.readOnly = Cardinality(ReadAt(Len(trace)))
  /\ ChecksKeepUp
  /\ ReadingEnds

LEMMA Grow ==
  ASSUME NEW n \in Nat \ {0}, NEW S \in SUBSET (1 .. n - 1)
  PROVE  Cardinality(S) \in Nat /\ Cardinality(S \union {n}) = Cardinality(S) + 1
<1>1. IsFiniteSet(1 .. n - 1)
  BY FS_Interval
<1>2. IsFiniteSet(S)
  BY <1>1, FS_Subset
<1>3. n \notin S
  OBVIOUS
<1>4. Cardinality(S) \in Nat
  BY <1>2, FS_CardinalityType
<1>5. Cardinality(S \union {n}) = Cardinality(S) + 1
  BY <1>2, <1>3, FS_AddElement
<1> QED
  BY <1>4, <1>5

(* How the sets the properties count change with one more entry. *)
LEMMA SetsGrow ==
  ASSUME NEW n \in Nat \ {0}, n = Len(trace) + 1, NEW call, NewEntry(n, call)
  PROVE  /\ Entries({"search"}) \in SUBSET (1 .. n - 1)
         /\ Entries({"search"})' = IF Ran(n, {"search"})'
              THEN Entries({"search"}) \union {n} ELSE Entries({"search"})
         /\ \A j \in 0 .. n - 1 : UncheckedAt(j)' = UncheckedAt(j) /\ ReadAt(j)' = ReadAt(j)
         /\ UncheckedAt(n - 1) \in SUBSET (1 .. n - 1)
         /\ UncheckedAt(n)' = IF Ran(n, {"diagnostics"})' THEN {}
              ELSE IF Ran(n, {"apply_tactic"})' THEN UncheckedAt(n - 1) \union {n}
              ELSE UncheckedAt(n - 1)
         /\ ReadAt(n - 1) \in SUBSET (1 .. n - 1)
         /\ ReadAt(n)' = IF Ran(n, {"apply_tactic"})' THEN {}
              ELSE IF Ran(n, ReadTools)' THEN ReadAt(n - 1) \union {n}
              ELSE ReadAt(n - 1)
<1>1. \A i \in 1 .. n - 1 : \A tools : Ran(i, tools)' <=> Ran(i, tools)
  BY DEF NewEntry, Ran
<1>2. Len(trace') = n /\ Len(trace) = n - 1
  BY DEF NewEntry
<1>3. Entries({"search"})' = IF Ran(n, {"search"})'
              THEN Entries({"search"}) \union {n} ELSE Entries({"search"})
  BY <1>1, <1>2 DEF Entries
<1>4. \A j \in 0 .. n - 1 : UncheckedAt(j)' = UncheckedAt(j) /\ ReadAt(j)' = ReadAt(j)
  BY <1>1 DEF UncheckedAt, ReadAt
<1>5. UncheckedAt(n)' = IF Ran(n, {"diagnostics"})' THEN {}
              ELSE IF Ran(n, {"apply_tactic"})' THEN UncheckedAt(n - 1) \union {n}
              ELSE UncheckedAt(n - 1)
  BY <1>1 DEF UncheckedAt
<1>6. ReadAt(n)' = IF Ran(n, {"apply_tactic"})' THEN {}
              ELSE IF Ran(n, ReadTools)' THEN ReadAt(n - 1) \union {n}
              ELSE ReadAt(n - 1)
  BY <1>1 DEF ReadAt
<1> QED
  BY <1>2, <1>3, <1>4, <1>5, <1>6 DEF Entries, UncheckedAt, ReadAt

LEMMA CountersCall ==
  ASSUME Typed, CountersAgree, NEW call \in Call, Handle(call)
  PROVE  CountersAgree'
<1> DEFINE m == Len(trace) + 1
<1>1. m \in Nat \ {0}
  BY DEF Typed, TypeOK, GuardTypeOK
<1> HIDE DEF m
<1>2. PICK n \in Nat \ {0} : n = Len(trace) + 1
  BY <1>1 DEF m
<1>3. NewEntry(n, call) /\ Len(trace') = n /\ Len(trace) = n - 1
  BY <1>2, CallEffect DEF Typed, NewEntry
<1>e. /\ IF Ran(n, {"search"})'
         THEN /\ tracker.searches < MaxSearch
              /\ tracker'.searches = tracker.searches + 1
         ELSE tracker'.searches = tracker.searches
      /\ Ran(n, {"apply_tactic"})' =>
           /\ tracker.unchecked < MaxUnchecked
           /\ tracker'.unchecked = tracker.unchecked + 1 /\ tracker'.readOnly = 0
      /\ Ran(n, {"diagnostics"})' => tracker'.unchecked = 0
      /\ ~Ran(n, {"apply_tactic", "diagnostics"})' => tracker'.unchecked = tracker.unchecked
      /\ Ran(n, ReadTools)' =>
           /\ tracker.readOnly < MaxReadOnly
           /\ tracker'.readOnly = tracker.readOnly + 1
      /\ ~Ran(n, ReadTools \union {"apply_tactic"})' => tracker'.readOnly = tracker.readOnly
  BY <1>2, CallEffect DEF Typed
<1>n. /\ tracker.searches \in Nat /\ tracker.unchecked \in Nat /\ tracker.readOnly \in Nat
      /\ MaxSearch \in Nat /\ MaxUnchecked \in Nat /\ MaxReadOnly \in Nat
  BY TrackerFields, PositiveBudgets DEF Typed, TypeOK, GuardTypeOK
<1>o. \A j \in 0 .. n - 1 : UncheckedAt(j)' = UncheckedAt(j) /\ ReadAt(j)' = ReadAt(j)
  BY <1>2, <1>3, SetsGrow
<1>u. UncheckedAt(n)' = IF Ran(n, {"diagnostics"})' THEN {}
              ELSE IF Ran(n, {"apply_tactic"})' THEN UncheckedAt(n - 1) \union {n}
              ELSE UncheckedAt(n - 1)
  BY <1>2, <1>3, SetsGrow
<1>f. Entries({"search"})' = IF Ran(n, {"search"})'
              THEN Entries({"search"}) \union {n} ELSE Entries({"search"})
  BY <1>2, <1>3, SetsGrow
<1>r. ReadAt(n)' = IF Ran(n, {"apply_tactic"})' THEN {}
              ELSE IF Ran(n, ReadTools)' THEN ReadAt(n - 1) \union {n}
              ELSE ReadAt(n - 1)
  BY <1>2, <1>3, SetsGrow
<1>z. Cardinality({}) = 0
  BY FS_EmptySet
<1>4. /\ tracker'.total = tracker.total + 1 /\ tracker.total < MaxTotal
      /\ tracker.total = n - 1
  BY <1>2, CallEffect DEF Typed, CountersAgree, BudgetsKept
<1>5. /\ Cardinality(Entries({"search"}))' = tracker'.searches
      /\ tracker'.searches <= MaxSearch
  <2>1. Cardinality(Entries({"search"})) \in Nat
        /\ Cardinality(Entries({"search"}) \union {n}) = Cardinality(Entries({"search"})) + 1
    BY <1>2, <1>3, SetsGrow, Grow
  <2>2. Cardinality(Entries({"search"})) = tracker.searches /\ tracker.searches <= MaxSearch
    BY DEF CountersAgree, BudgetsKept
  <2>3. CASE Ran(n, {"search"})'
    BY <1>e, <1>f, <1>n, <2>1, <2>2, <2>3
  <2>4. CASE ~Ran(n, {"search"})'
    BY <1>e, <1>f, <1>n, <2>1, <2>2, <2>4
  <2> QED
    BY <2>3, <2>4
<1>6. /\ Cardinality(UncheckedAt(n)') = tracker'.unchecked
      /\ tracker'.unchecked <= MaxUnchecked
  <2>1. /\ Cardinality(UncheckedAt(n - 1)) \in Nat
        /\ Cardinality(UncheckedAt(n - 1) \union {n}) = Cardinality(UncheckedAt(n - 1)) + 1
    BY <1>2, <1>3, SetsGrow, Grow
  <2>2. Cardinality(UncheckedAt(n - 1)) = tracker.unchecked
    BY <1>3 DEF CountersAgree
  <2>3. Cardinality(UncheckedAt(n - 1)) <= MaxUnchecked
    <3>1. CASE n - 1 \in 1 .. Len(trace)
      BY <3>1 DEF CountersAgree, ChecksKeepUp
    <3>2. CASE n - 1 \notin 1 .. Len(trace)
      <4>1. UncheckedAt(n - 1) = {}
        BY <1>2, <3>2 DEF UncheckedAt
      <4> QED
        BY <4>1, FS_EmptySet, PositiveBudgets
    <3> QED
      BY <3>1, <3>2
  <2>4. CASE Ran(n, {"diagnostics"})'
    BY <1>e, <1>n, <1>u, <1>z, <2>4
  <2>5. CASE Ran(n, {"apply_tactic"})'
    <3>1. ~Ran(n, {"diagnostics"})'
      BY <2>5 DEF Ran
    <3> QED
      BY <1>e, <1>n, <1>u, <2>1, <2>2, <2>5, <3>1
  <2>6. CASE ~Ran(n, {"apply_tactic"})' /\ ~Ran(n, {"diagnostics"})'
    <3>1. ~Ran(n, {"apply_tactic", "diagnostics"})'
      BY <2>6 DEF Ran
    <3> QED
      BY <1>e, <1>n, <1>u, <2>1, <2>2, <2>3, <2>6, <3>1
  <2> QED
    BY <2>4, <2>5, <2>6
<1>7. /\ Cardinality(ReadAt(n)') = tracker'.readOnly
      /\ tracker'.readOnly <= MaxReadOnly
  <2>1. /\ Cardinality(ReadAt(n - 1)) \in Nat
        /\ Cardinality(ReadAt(n - 1) \union {n}) = Cardinality(ReadAt(n - 1)) + 1
    BY <1>2, <1>3, SetsGrow, Grow
  <2>2. Cardinality(ReadAt(n - 1)) = tracker.readOnly
    BY <1>3 DEF CountersAgree
  <2>3. Cardinality(ReadAt(n - 1)) <= MaxReadOnly
    <3>1. CASE n - 1 \in 1 .. Len(trace)
      BY <3>1 DEF CountersAgree, ReadingEnds
    <3>2. CASE n - 1 \notin 1 .. Len(trace)
      <4>1. ReadAt(n - 1) = {}
        BY <1>2, <3>2 DEF ReadAt
      <4> QED
        BY <4>1, FS_EmptySet, PositiveBudgets
    <3> QED
      BY <3>1, <3>2
  <2>4. CASE Ran(n, {"apply_tactic"})'
    BY <1>e, <1>n, <1>r, <1>z, <2>4
  <2>5. CASE Ran(n, ReadTools)'
    <3>1. ~Ran(n, {"apply_tactic"})'
      BY <2>5 DEF Ran, ReadTools
    <3> QED
      BY <1>e, <1>n, <1>r, <2>1, <2>2, <2>5, <3>1
  <2>6. CASE ~Ran(n, {"apply_tactic"})' /\ ~Ran(n, ReadTools)'
    <3>1. ~Ran(n, ReadTools \union {"apply_tactic"})'
      BY <2>6 DEF Ran, ReadTools
    <3> QED
      BY <1>e, <1>n, <1>r, <2>1, <2>2, <2>3, <2>6, <3>1
  <2> QED
    BY <2>4, <2>5, <2>6
<1>8. ChecksKeepUp'
  <2> SUFFICES ASSUME NEW j \in 1 .. n PROVE Cardinality(UncheckedAt(j)') <= MaxUnchecked
    BY <1>3 DEF ChecksKeepUp
  <2>1. CASE j = n
    BY <1>6, <2>1
  <2>2. CASE j # n
    <3>1. UncheckedAt(j)' = UncheckedAt(j) /\ j \in 1 .. Len(trace)
      BY <1>2, <1>3, <1>o, <2>2
    <3> QED
      BY <3>1 DEF CountersAgree, ChecksKeepUp
  <2> QED
    BY <2>1, <2>2
<1>9. ReadingEnds'
  <2> SUFFICES ASSUME NEW j \in 1 .. n PROVE Cardinality(ReadAt(j)') <= MaxReadOnly
    BY <1>3 DEF ReadingEnds
  <2>1. CASE j = n
    BY <1>7, <2>1
  <2>2. CASE j # n
    <3>1. ReadAt(j)' = ReadAt(j) /\ j \in 1 .. Len(trace)
      BY <1>2, <1>3, <1>o, <2>2
    <3> QED
      BY <3>1 DEF CountersAgree, ReadingEnds
  <2> QED
    BY <2>1, <2>2
<1>10. BudgetsKept'
  <2>1. UNCHANGED rounds /\ rounds <= MaxAppend + 1
    BY DEF Handle, CountersAgree, BudgetsKept
  <2> QED
    BY <1>3, <1>4, <1>5, <2>1, PositiveBudgets DEF BudgetsKept
<1> QED
  BY <1>3, <1>6, <1>7, <1>8, <1>9, <1>10 DEF CountersAgree

(* The requests keep to the append cap. *)
LEMMA RoundsStep ==
  ASSUME TypeOK, rounds <= MaxAppend + 1, [Next]_vars
  PROVE  rounds' <= MaxAppend + 1
<1> USE LoopAssumption DEF TypeOK
<1>1. CASE Proceeds
  BY <1>1 DEF Proceeds, Initialize, NoPlaceholder, TryFast, FastExhausted,
     NoApiKey, OpenSession, OpenFails, AppendCap, BudgetStop, CloseSession,
     Conclude, ConcludeRaises, Interrupted
<1>2. CASE Answered
  BY <1>2 DEF Answered, Reply, AtAppendCap, Backoff, RequestFails, Handle
<1>3. CASE WallClock \/ UNCHANGED vars
  BY <1>3 DEF WallClock, vars, loopVars
<1> QED
  BY <1>1, <1>2, <1>3 DEF Next

LEMMA CountersStep ==
  ASSUME Typed, CountersAgree, [Next]_vars
  PROVE  CountersAgree'
<1>1. CASE \E call \in Call : Handle(call)
  BY <1>1, CountersCall
<1>2. CASE UNCHANGED <<tracker, trace>>
  <2>1. rounds' <= MaxAppend + 1
    BY RoundsStep DEF Typed, CountersAgree, BudgetsKept
  <2>2. BudgetsKept'
    BY <1>2, <2>1 DEF CountersAgree, BudgetsKept, Entries, Ran
  <2> QED
    BY <1>2, <2>2 DEF CountersAgree, ChecksKeepUp, ReadingEnds, UncheckedAt, ReadAt, Ran
<1> QED
  BY <1>1, <1>2, QuietStep

LEMMA CountersInit == Init => CountersAgree
<1> SUFFICES ASSUME Init PROVE CountersAgree
  OBVIOUS
<1>1. trace = <<>> /\ Len(trace) = 0 /\ rounds = 0
      /\ tracker.total = 0 /\ tracker.searches = 0
      /\ tracker.unchecked = 0 /\ tracker.readOnly = 0
  BY DEF Init, GuardInit
<1>2. Entries({"search"}) = {} /\ UncheckedAt(0) = {} /\ ReadAt(0) = {}
  BY <1>1 DEF Entries, UncheckedAt, ReadAt
<1>3. Cardinality({}) = 0
  BY FS_EmptySet
<1>4. BudgetsKept
  <2>1. 0 <= MaxTotal /\ 0 <= MaxSearch /\ 0 <= MaxAppend + 1
    BY PositiveBudgets, LoopAssumption
  <2>2. Cardinality(Entries({"search"})) = 0
    BY <1>2, <1>3
  <2> QED
    BY <1>1, <2>1, <2>2 DEF BudgetsKept
<1>5. ChecksKeepUp /\ ReadingEnds
  BY <1>1 DEF ChecksKeepUp, ReadingEnds
<1>6. UncheckedAt(Len(trace)) = {} /\ ReadAt(Len(trace)) = {}
  BY <1>1, <1>2
<1> QED
  BY <1>1, <1>3, <1>4, <1>5, <1>6 DEF CountersAgree

LEMMA AlwaysAgree == Spec => []CountersAgree
BY AlwaysTyped, CountersInit, CountersStep, PTL DEF Spec

(* BudgetsKept: the trace keeps to the tool and search budgets and the     *)
(* conversation to the append cap, whatever the model calls.               *)
THEOREM BudgetsAlwaysKept == Spec => []BudgetsKept
<1>1. CountersAgree => BudgetsKept
  BY DEF CountersAgree
<1> QED
  BY <1>1, AlwaysAgree, PTL

(* ChecksKeepUp: the circuit breaker bounds the tactics applied between    *)
(* two checks of the diagnostics.                                          *)
THEOREM ChecksAlwaysKeepUp == Spec => []ChecksKeepUp
<1>1. CountersAgree => ChecksKeepUp
  BY DEF CountersAgree
<1> QED
  BY <1>1, AlwaysAgree, PTL

(* ReadingEnds: the read-only loop check bounds the reads between two      *)
(* tactics.                                                                *)
THEOREM ReadingAlwaysEnds == Spec => []ReadingEnds
<1>1. CountersAgree => ReadingEnds
  BY DEF CountersAgree
<1> QED
  BY <1>1, AlwaysAgree, PTL

-----------------------------------------------------------------------------
(* Searches are earned.                                                    *)

Evidence ==
  \E i, j \in 1 .. Len(trace) :
    i < j /\ Proposed(i) /\ (Proposed(j) \/ trace[j].said = "errors")

(* The inductive form: the log of attempts, which the guard reads, shows a *)
(* failure only if the trace does.                                         *)
LogBacked ==
  /\ pending # 0 => \E i \in 1 .. Len(trace) : Proposed(i)
  /\ pc # "ended" /\ HasFailedAttempt => Evidence
  /\ SearchesEarned

(* One more entry in the trace. *)
LEMMA EvidenceGrows ==
  ASSUME NEW n \in Nat \ {0}, n = Len(trace) + 1, NEW call, NewEntry(n, call)
  PROVE  /\ \A i \in 1 .. n - 1 : Proposed(i)' <=> Proposed(i)
         /\ Evidence => Evidence'
         /\ (\E i \in 1 .. Len(trace) : Proposed(i)) =>
              /\ \E i \in 1 .. Len(trace)' : Proposed(i)'
              /\ Proposed(n)' \/ trace'[n].said = "errors" => Evidence'
         /\ SearchesEarned /\ (Ran(n, {"search"})' => Evidence) => SearchesEarned'
<1>1. Len(trace') = n /\ Len(trace) = n - 1
  BY DEF NewEntry
<1>2. \A i \in 1 .. n - 1 : trace'[i] = trace[i] /\ (Proposed(i)' <=> Proposed(i))
  BY DEF NewEntry, Proposed
<1>3. Evidence => Evidence'
  BY <1>1, <1>2 DEF Evidence
<1>4. ASSUME NEW i \in 1 .. n - 1, Proposed(i)
      PROVE  /\ \E k \in 1 .. Len(trace)' : Proposed(k)'
             /\ Proposed(n)' \/ trace'[n].said = "errors" => Evidence'
  BY <1>1, <1>2, <1>4 DEF Evidence
<1>5. ASSUME SearchesEarned, Ran(n, {"search"})' => Evidence PROVE SearchesEarned'
  <2> SUFFICES ASSUME NEW s \in 1 .. n, Ran(s, {"search"})'
               PROVE  \E i, j \in 1 .. s - 1 : i < j /\ Proposed(i)'
                        /\ (Proposed(j)' \/ trace'[j].said = "errors")
    BY <1>1 DEF SearchesEarned, Entries
  <2>1. CASE s = n
    BY <1>1, <1>2, <1>5, <2>1 DEF Evidence
  <2>2. CASE s # n
    <3>1. s \in Entries({"search"})
      BY <1>1, <1>2, <2>2 DEF Entries, Ran
    <3>2. PICK i, j \in 1 .. s - 1 :
            i < j /\ Proposed(i) /\ (Proposed(j) \/ trace[j].said = "errors")
      BY <1>5, <3>1 DEF SearchesEarned
    <3> QED
      BY <1>2, <3>2
  <2> QED
    BY <2>1, <2>2
<1> QED
  BY <1>1, <1>2, <1>3, <1>4, <1>5

LEMMA BackedCall ==
  ASSUME Typed, LogBacked, NEW call \in Call, Handle(call)
  PROVE  LogBacked'
<1>1. PICK n \in Nat \ {0} : n = Len(trace) + 1
  BY DEF Typed, TypeOK, GuardTypeOK
<1>2. NewEntry(n, call) /\ (Ran(n, {"search"})' => HasFailedAttempt) /\ pc = "handling"
  BY <1>1, CallEffect DEF Typed, Handle
<1>3. SearchesEarned'
  <2>1. Ran(n, {"search"})' => Evidence
    BY <1>2 DEF LogBacked
  <2> QED
    BY <1>1, <1>2, <2>1, EvidenceGrows DEF LogBacked
<1>4. HasFailedAttempt => Evidence'
  BY <1>1, <1>2, EvidenceGrows DEF LogBacked
<1>5. CASE UNCHANGED <<attempts, pending>>
  <2>1. HasFailedAttempt' => Evidence'
    BY <1>4, <1>5 DEF HasFailedAttempt
  <2>2. pending' # 0 => \E i \in 1 .. Len(trace)' : Proposed(i)'
    BY <1>1, <1>2, <1>5, EvidenceGrows DEF LogBacked
  <2> QED
    BY <1>3, <2>1, <2>2 DEF LogBacked
<1>6. CASE Apply(call) /\ call.arg # Garbled
  <2>1. /\ attempts' = Append(Superseded, [tactic |-> call.arg, state |-> "pending"])
        /\ trace'[n].said \in {"written", "invalid"}
    BY <1>1, <1>6, RecordEffect DEF Apply, Typed
  <2>2. Proposed(n)' /\ Len(trace)' = n
    BY <1>2, <2>1 DEF Proposed, NewEntry
  <2>3. ASSUME HasFailedAttempt' PROVE Evidence'
    <3>1. PICK i \in 1 .. Len(attempts') : attempts'[i].state \in Failed
      BY <2>3 DEF HasFailedAttempt
    <3>2. attempts \in Seq(Attempt) /\ pending \in 0 .. Len(attempts)
      BY DEF Typed, TypeOK, GuardTypeOK
    <3>3. CASE pending = 0
      <4>1. attempts' = Append(attempts, [tactic |-> call.arg, state |-> "pending"])
        BY <2>1, <3>3 DEF Superseded
      <4>2. i \in 1 .. Len(attempts) /\ attempts[i].state \in Failed
        BY <3>1, <3>2, <4>1 DEF Failed
      <4> QED
        BY <1>4, <4>2 DEF HasFailedAttempt
    <3>4. CASE pending # 0
      BY <1>1, <1>2, <2>2, <3>4, EvidenceGrows DEF LogBacked
    <3> QED
      BY <3>3, <3>4
  <2>4. \E i \in 1 .. Len(trace)' : Proposed(i)'
    BY <2>2
  <2> QED
    BY <1>3, <2>3, <2>4 DEF LogBacked
<1>7. CASE Diagnose(call) /\ ~UNCHANGED <<attempts, pending>>
  <2>1. PICK said \in {"none", "clean", "errors"} :
          /\ Record(call, "ran", said) /\ Status(call) = "ran"
          /\ IF said = "none" \/ pending = 0
             THEN UNCHANGED <<attempts, pending>>
             ELSE /\ attempts' = [attempts EXCEPT ![pending].state = said]
                  /\ pending' = 0
    BY <1>7 DEF Diagnose
  <2>2. /\ pending # 0 /\ pending' = 0
        /\ attempts' = [attempts EXCEPT ![pending].state = said]
        /\ trace'[n].said = said /\ said # "none"
    BY <1>1, <1>7, <2>1, RecordEffect DEF Typed
  <2>3. ASSUME HasFailedAttempt' PROVE Evidence'
    <3>1. PICK i \in 1 .. Len(attempts') : attempts'[i].state \in Failed
      BY <2>3 DEF HasFailedAttempt
    <3>2. attempts \in Seq(Attempt) /\ pending \in 1 .. Len(attempts)
      BY <2>2 DEF Typed, TypeOK, GuardTypeOK
    <3>3. i \in 1 .. Len(attempts)
      BY <2>2, <3>1, <3>2
    <3>4. CASE i = pending
      <4>1. attempts'[i].state = said
        BY <2>2, <3>2, <3>4 DEF Attempt
      <4>2. trace'[n].said = "errors"
        BY <2>2, <3>1, <4>1 DEF Failed
      <4> QED
        BY <1>1, <1>2, <2>2, <4>2, EvidenceGrows DEF LogBacked
    <3>5. CASE i # pending
      <4>1. attempts'[i] = attempts[i]
        BY <2>2, <3>2, <3>3, <3>5
      <4> QED
        BY <1>4, <3>1, <3>3, <4>1 DEF HasFailedAttempt
    <3> QED
      BY <3>4, <3>5
  <2> QED
    BY <1>3, <2>2, <2>3 DEF LogBacked
<1> QED
  BY <1>5, <1>6, <1>7 DEF Handle, GuardedCall, Block, Apply, Read

LEMMA BackedStep ==
  ASSUME Typed, LogBacked, [Next]_vars
  PROVE  LogBacked'
<1> USE DEF guardVars
<1>1. CASE \E call \in Call : Handle(call)
  BY <1>1, BackedCall
<1>2. ASSUME UNCHANGED trace PROVE SearchesEarned' /\ (Evidence => Evidence')
  BY <1>2 DEF LogBacked, SearchesEarned, Evidence, Entries, Ran, Proposed
<1>3. CASE UNCHANGED <<trace, attempts, pending>> /\ (pc # "ended" \/ pc' = pc)
  BY <1>2, <1>3 DEF LogBacked, HasFailedAttempt, Proposed
<1>4. CASE Finalize /\ UNCHANGED trace /\ pc' = "ended"
  BY <1>2, <1>4 DEF LogBacked, Finalize
<1>5. CASE Proceeds
  BY <1>3, <1>4, <1>5 DEF Proceeds, Initialize, NoPlaceholder, End, TryFast, FastExhausted,
     NoApiKey, OpenSession, OpenFails, AppendCap, BudgetStop, CloseSession,
     Conclude, ConcludeRaises, Interrupted
<1>6. CASE Answered
  BY <1>1, <1>3, <1>6 DEF Answered, Reply, Backoff, RequestFails
<1>7. CASE WallClock
  BY <1>3, <1>7 DEF WallClock, Waiting
<1>8. CASE UNCHANGED vars
  BY <1>3, <1>8 DEF vars, loopVars
<1> QED
  BY <1>5, <1>6, <1>7, <1>8 DEF Next

LEMMA BackedInit == Init => LogBacked
BY DEF Init, GuardInit, LogBacked, HasFailedAttempt, SearchesEarned, Entries

(* SearchesEarned: a search runs only after a tactic failed, as the trace  *)
(* shows and not only as the prover's own log says.                        *)
THEOREM SearchesAlwaysEarned == Spec => []SearchesEarned
<1>1. LogBacked => SearchesEarned
  BY DEF LogBacked
<1> QED
  BY <1>1, AlwaysTyped, BackedInit, BackedStep, PTL DEF Spec

-----------------------------------------------------------------------------
(* How an attempt ends.                                                    *)

(* A step either returns an answer, once and for all, ... *)
Proved(reply) ==
  /\ pc # "start"
  /\ reply.success /\ reply.stop = "complete" /\ ~reply.partial
  /\ reply.tactic \in Tactics
  /\ accepted' = accepted \union {reply.tactic}

NotProved(reply) ==
  ~reply.success /\ reply.stop # "complete" /\ accepted' = accepted

Ends ==
  \E reply \in Answer :
    pc # "ended" /\ End(reply) /\ (Proved(reply) \/ NotProved(reply))

(* ... or leaves the answer and the working file alone. *)
Goes ==
  /\ UNCHANGED <<answer, accepted>>
  /\ \/ Initialize
     \/ /\ UNCHANGED workfile
        /\ pc' = pc \/ (pc \notin {"start", "ended"} /\ pc' \notin {"start", "ended"})

LEMMA RaisedEnds ==
  ASSUME pc # "ended", End(Raised), UNCHANGED accepted
  PROVE  Ends
<1>1. Raised \in Answer /\ NotProved(Raised)
  BY DEF Raised, Answer, NotProved
<1> QED
  BY <1>1 DEF Ends

(* The verdict on the tactic in the file becomes the answer. *)
LEMMA VerdictEnds ==
  ASSUME Typed, pc = "stopping", NEW ok \in BOOLEAN, NEW partial \in BOOLEAN,
         NEW stop \in {"incomplete", "timeout", "append_cap", "tool_budget",
                       "retries", "empty_cycle", "run_error"},
         ok => ~partial,
         Verified(ok),
         End([stop |-> IF ok THEN "complete" ELSE stop, success |-> ok,
              partial |-> partial, tactic |-> tactic])
  PROVE  Ends
<1> DEFINE reply == [stop |-> IF ok THEN "complete" ELSE stop, success |-> ok,
                     partial |-> partial, tactic |-> tactic]
<1>1. tactic \in Tactics \union {Sorry}
  BY DEF Typed, TypeOK, GuardTypeOK
<1>2. reply \in Answer
  BY <1>1 DEF Answer
<1>3. reply.success = ok /\ reply.partial = partial /\ reply.tactic = tactic
      /\ reply.stop = IF ok THEN "complete" ELSE stop
  OBVIOUS
<1>4. CASE ok
  <2>1. Proved(reply)
    BY <1>1, <1>3, <1>4 DEF Verified, Proved
  <2> QED
    BY <1>2, <2>1 DEF Ends
<1>5. CASE ~ok
  <2>1. NotProved(reply)
    BY <1>3, <1>5 DEF Verified, NotProved
  <2> QED
    BY <1>2, <2>1 DEF Ends
<1> QED
  BY <1>4, <1>5

LEMMA StepEnds ==
  ASSUME Typed, [Next]_vars
  PROVE  Goes \/ Ends
<1>1. ASSUME NEW t \in Tactics, TryFast(t) PROVE Goes \/ Ends
  <2>1. CASE FastSuccess(t)
    <3> DEFINE reply == [stop |-> "complete", success |-> TRUE, partial |-> FALSE,
                         tactic |-> t]
    <3>1. reply \in Answer /\ Proved(reply) /\ pc # "ended" /\ End(reply)
      BY <1>1, <2>1 DEF TryFast, FastSuccess, Answer, Proved
    <3> QED
      BY <3>1 DEF Ends
  <2>2. CASE UNCHANGED <<pc, answer, accepted, workfile>>
    BY <2>2 DEF Goes
  <2> QED
    BY <1>1, <2>1, <2>2 DEF TryFast
<1>2. CASE NoPlaceholder \/ NoApiKey \/ ConcludeRaises
  BY <1>2, RaisedEnds DEF NoPlaceholder, NoApiKey, ConcludeRaises
<1>3. CASE Conclude
  <2>1. PICK ok \in BOOLEAN :
          /\ Verified(ok)
          /\ End([stop |-> IF ok THEN "complete" ELSE "incomplete",
                  success |-> ok, partial |-> FALSE, tactic |-> tactic])
    BY <1>3 DEF Conclude
  <2>2. pc = "stopping"
    BY <1>3 DEF Conclude
  <2> QED
    BY <2>1, <2>2, VerdictEnds
<1>4. CASE Interrupted
  <2>1. PICK ok \in BOOLEAN :
          /\ Verified(ok)
          /\ End([stop |-> IF ok THEN "complete" ELSE StopReason, success |-> ok,
                  partial |-> why # "run_error" /\ ~ok, tactic |-> tactic])
    BY <1>4 DEF Interrupted
  <2>2. StopReason \in {"timeout", "append_cap", "tool_budget", "retries",
                        "empty_cycle", "run_error"}
    BY <1>4 DEF Interrupted, StopReason, Typed, TypeOK, Why, Failure
  <2>3. /\ pc = "stopping"
        /\ (why # "run_error" /\ ~ok) \in BOOLEAN
        /\ ok => ~(why # "run_error" /\ ~ok)
    BY <1>4 DEF Interrupted
  <2> QED
    BY <2>1, <2>2, <2>3, VerdictEnds
<1>5. CASE Initialize
  BY <1>5 DEF Initialize, Goes
<1>6. CASE FastExhausted \/ OpenSession \/ OpenFails \/ AppendCap \/ CloseSession
  BY <1>6 DEF FastExhausted, OpenSession, OpenFails, AppendCap, CloseSession, Stop, Goes
<1>7. CASE \E call \in Call : BudgetStop(call)
  BY <1>7 DEF BudgetStop, Stop, Goes
<1>8. CASE Proceeds
  BY <1>1, <1>2, <1>3, <1>4, <1>5, <1>6, <1>7, <1>8 DEF Proceeds
<1>9. CASE Answered
  BY <1>9 DEF Answered, Reply, Backoff, RequestFails, Handle, Stop, Goes
<1>10. CASE WallClock
  BY <1>10 DEF WallClock, Waiting, Stop, Goes
<1>11. CASE UNCHANGED vars
  BY <1>11 DEF vars, loopVars, Goes
<1> QED
  BY <1>8, <1>9, <1>10, <1>11 DEF Next

LEMMA AnswerStep ==
  ASSUME AnswersAreTrue, Goes \/ Ends
  PROVE  AnswersAreTrue'
<1>1. CASE Goes
  BY <1>1 DEF Goes, Initialize, AnswersAreTrue
<1>2. CASE Ends
  <2>1. PICK reply \in Answer :
          pc # "ended" /\ End(reply) /\ (Proved(reply) \/ NotProved(reply))
    BY <1>2 DEF Ends
  <2> QED
    BY <2>1 DEF End, Proved, NotProved, AnswersAreTrue
<1> QED
  BY <1>1, <1>2

(* AnswersAreTrue: whatever ends the run, "proved" is said of a tactic     *)
(* that the compiler accepted, and the working file is gone.               *)
THEOREM AnswersAlwaysTrue == Spec => []AnswersAreTrue
<1>1. Init => AnswersAreTrue
  BY DEF Init, AnswersAreTrue
<1>2. Typed /\ AnswersAreTrue /\ [Next]_vars => AnswersAreTrue'
  BY StepEnds, AnswerStep
<1> QED
  BY <1>1, <1>2, AlwaysTyped, PTL DEF Spec

-----------------------------------------------------------------------------
(* Every step of the loop is one of ProofAttempt, or none.                 *)

LEMMA PromisedAnswer ==
  ASSUME NEW reply \in Answer
  PROVE  reply # NoAnswer
BY NoAnswerAssumption

LEMMA PromiseStep ==
  ASSUME AnswersAreTrue, Goes \/ Ends
  PROVE  [Attempts!Next]_(Attempts!attemptVars)
<1> USE DEF Attempts!attemptVars
<1>1. CASE Goes
  <2>1. UNCHANGED Promised
    BY <1>1 DEF Goes, Promised
  <2>2. CASE Initialize
    <3>1. Attempts!Start
      BY <1>1, <2>1, <2>2 DEF Goes, Initialize, Attempts!Start, Phase
    <3> QED
      BY <3>1 DEF Attempts!Next
  <2>3. CASE ~Initialize
    BY <1>1, <2>1, <2>3 DEF Goes, Phase
  <2> QED
    BY <2>2, <2>3
<1>2. CASE Ends
  <2>1. PICK reply \in Answer :
          pc # "ended" /\ End(reply) /\ (Proved(reply) \/ NotProved(reply))
    BY <1>2 DEF Ends
  <2>2. Phase # "ended" /\ Phase' = "ended" /\ answer' = reply /\ workfile' = FALSE
        /\ answer' # NoAnswer
    BY <2>1, PromisedAnswer DEF Phase, End
  <2>3. CASE Proved(reply)
    <3>1. Promised' = [success |-> TRUE, proof |-> reply.tactic]
      <4>1. reply # Raised /\ reply.success = TRUE
        BY <2>1, <2>3 DEF Proved, Raised, Answer
      <4> QED
        BY <2>2, <4>1 DEF Promised, Raised
    <3>2. Phase = "working" /\ reply.tactic \in Tactics \union {Sorry}
      BY <2>1, <2>3 DEF Phase, Proved
    <3>3. Attempts!Ends([success |-> TRUE, proof |-> reply.tactic])
      BY <2>2, <3>1 DEF Attempts!Ends
    <3>4. Attempts!Prove
      BY <2>3, <3>2, <3>3 DEF Attempts!Prove, Proved
    <3> QED
      BY <3>4 DEF Attempts!Next
  <2>4. CASE NotProved(reply)
    <3>1. Promised' \in {Raised} \union [success : {FALSE}, proof : Tactics \union {Sorry}]
      <4>1. CASE reply = Raised
        BY <2>2, <4>1 DEF Promised, Raised
      <4>2. CASE reply # Raised
        <5>1. Promised' = [success |-> reply.success, proof |-> reply.tactic]
          BY <2>2, <4>2 DEF Promised, Raised
        <5>2. reply.success = FALSE /\ reply.tactic \in Tactics \union {Sorry}
          BY <2>1, <2>4 DEF NotProved, Answer
        <5> QED
          BY <5>1, <5>2
      <4> QED
        BY <4>1, <4>2
    <3>2. Attempts!Ends(Promised')
      BY <2>2 DEF Attempts!Ends
    <3>3. Attempts!GiveUp
      BY <2>4, <3>1, <3>2 DEF Attempts!GiveUp, NotProved
    <3> QED
      BY <3>3 DEF Attempts!Next
  <2> QED
    BY <2>1, <2>3, <2>4
<1> QED
  BY <1>1, <1>2

(* The safety part of KeepsPromises: prove_theorem_agentic() implements    *)
(* what ProofAttempt promises, for every budget.                           *)
THEOREM AttemptKept == Spec => Attempts!Promise
<1>1. Init => Attempts!Init
  BY DEF Init, Attempts!Init, Phase, Promised
<1>2. AnswersAreTrue /\ Typed /\ [Next]_vars => [Attempts!Next]_(Attempts!attemptVars)
  BY StepEnds, PromiseStep
<1> QED
  BY <1>1, <1>2, AlwaysTyped, AnswersAlwaysTrue, PTL DEF Spec, Attempts!Promise

-----------------------------------------------------------------------------
(* The fast path leaves nothing in the file.                               *)

NoneWritten == \A i \in 1 .. Len(trace) : trace[i].said # "written"

LEMMA LeftoverCall ==
  ASSUME Typed, NoLeftover, NEW call \in Call, Handle(call)
  PROVE  NoLeftover'
<1>1. PICK n \in Nat \ {0} : n = Len(trace) + 1
  BY DEF Typed, TypeOK, GuardTypeOK
<1>2. NewEntry(n, call) /\ pc = "handling"
  BY <1>1, CallEffect DEF Typed, Handle
<1>3. NoneWritten' => NoneWritten
  <2> SUFFICES ASSUME NoneWritten', NEW i \in 1 .. Len(trace)
               PROVE  trace[i].said # "written"
    BY DEF NoneWritten
  <2>1. i \in 1 .. n - 1 /\ i \in 1 .. n /\ Len(trace') = n
    BY <1>1, <1>2 DEF NewEntry, Typed, TypeOK, GuardTypeOK
  <2> QED
    BY <1>2, <2>1 DEF NewEntry, NoneWritten
<1>4. NoneWritten => tactic = Sorry
  BY <1>2 DEF NoLeftover, NoneWritten
<1>5. CASE UNCHANGED tactic
  BY <1>3, <1>4, <1>5 DEF NoLeftover, NoneWritten
<1>6. CASE Apply(call) /\ call.arg \notin {Garbled, Blank}
  <2>1. trace'[n].said = "written"
    BY <1>1, <1>6, RecordEffect DEF Apply, Typed
  <2>2. n \in 1 .. Len(trace')
    BY <1>1, <1>2 DEF NewEntry
  <2> QED
    BY <2>1, <2>2 DEF NoLeftover
<1> QED
  BY <1>5, <1>6 DEF Handle, GuardedCall, Block, Apply, Diagnose, Read

LEMMA LeftoverStep ==
  ASSUME Typed, NoLeftover, [Next]_vars
  PROVE  NoLeftover'
<1> USE DEF guardVars
<1>1. CASE \E call \in Call : Handle(call)
  BY <1>1, LeftoverCall
<1>2. CASE UNCHANGED <<tactic, trace>> /\ (pc' = "ended" \/ pc \notin {"fast", "ended"} \/ pc' = pc)
  BY <1>2 DEF NoLeftover
<1>3. ASSUME NEW t \in Tactics, TryFast(t) PROVE NoLeftover'
  BY <1>3 DEF TryFast, FastSuccess, End, NoLeftover
<1>4. CASE FastExhausted
  BY <1>4 DEF FastExhausted, NoLeftover
<1>5. CASE Proceeds
  BY <1>2, <1>3, <1>4, <1>5 DEF Proceeds, Initialize, NoPlaceholder, End,
     NoApiKey, OpenSession, OpenFails, AppendCap, BudgetStop, CloseSession,
     Conclude, ConcludeRaises, Interrupted
<1>6. CASE Answered
  BY <1>1, <1>2, <1>6 DEF Answered, Reply, Backoff, RequestFails
<1>7. CASE WallClock
  BY <1>2, <1>7 DEF WallClock, Waiting
<1>8. CASE UNCHANGED vars
  BY <1>2, <1>8 DEF vars, loopVars
<1> QED
  BY <1>5, <1>6, <1>7, <1>8 DEF Next

(* NoLeftover: what an interrupted run verifies and returns was written by *)
(* the model, or is the placeholder.                                       *)
THEOREM NeverLeftover == Spec => []NoLeftover
<1>1. Init => NoLeftover
  BY DEF Init, GuardInit, NoLeftover
<1>2. Typed /\ NoLeftover /\ [Next]_vars => NoLeftover'
  BY LeftoverStep
<1> QED
  BY <1>1, <1>2, AlwaysTyped, PTL DEF Spec
-----------------------------------------------------------------------------
(* The log of attempts tells what the trace shows.                         *)

Proposals == {i \in 1 .. Len(trace) : Proposed(i)}
Rank(i)   == Cardinality({j \in Proposals : j <= i})

(* The entries after the i-th that settle it, and the first of them. *)
Settles(j)  == Proposed(j) \/ trace[j].said \in {"clean", "errors"}
Settling(i) == {j \in i + 1 .. Len(trace) : Settles(j)}
First(S)    == CHOOSE j \in S : \A k \in S : j <= k

(* The inductive form: while the run lasts, the pending attempt is the one *)
(* proposal nothing has settled yet, and none is open before the model is  *)
(* asked.                                                                  *)
LogIsJudged ==
  /\ AttemptsJudged
  /\ pc # "ended" => \A i \in Proposals : Settling(i) = {} <=> pending = Rank(i)
  /\ pc \in {"start", "fast", "opening"} => pending = 0

LEMMA FirstIs ==
  ASSUME NEW S \in SUBSET Nat, S # {}
  PROVE  First(S) \in S /\ \A k \in S : First(S) <= k
BY LeastOf DEF First

(* A later entry does not settle what is settled. *)
LEMMA FirstStays ==
  ASSUME NEW n \in Nat \ {0}, NEW S \in SUBSET (1 .. n - 1), S # {}
  PROVE  First(S \union {n}) = First(S) /\ First(S) \in S
<1>1. S \in SUBSET Nat /\ S \union {n} \in SUBSET Nat /\ S \union {n} # {}
  OBVIOUS
<1>2. First(S) \in S /\ \A k \in S : First(S) <= k
  BY <1>1, FirstIs
<1>3. /\ First(S \union {n}) \in S \union {n}
      /\ \A k \in S \union {n} : First(S \union {n}) <= k
  BY <1>1, FirstIs
<1>4. First(S) \in 1 .. n - 1 /\ First(S) \in S \union {n}
  BY <1>2
<1>5. First(S \union {n}) <= First(S)
  BY <1>3, <1>4
<1>6. First(S \union {n}) \in S
  BY <1>3, <1>4, <1>5
<1>7. First(S) <= First(S \union {n})
  BY <1>2, <1>6
<1>8. First(S \union {n}) \in 1 .. n - 1
  BY <1>6
<1> QED
  BY <1>2, <1>4, <1>5, <1>7, <1>8

LEMMA FirstAlone ==
  ASSUME NEW n \in Nat
  PROVE  First({} \union {n}) = n
<1>1. {} \union {n} \in SUBSET Nat /\ {} \union {n} # {}
  OBVIOUS
<1>2. First({} \union {n}) \in {} \union {n}
  BY <1>1, FirstIs
<1> QED
  BY <1>2

LEMMA RankOf ==
  ASSUME NEW n \in Nat, NEW S \in SUBSET (1 .. n), NEW i \in S
  PROVE  Cardinality({j \in S : j <= i}) \in 1 .. Cardinality(S)
<1> DEFINE T == {j \in S : j <= i}
<1>1. IsFiniteSet(1 .. n)
  BY FS_Interval
<1>2. IsFiniteSet(S)
  BY <1>1, FS_Subset
<1>3. T \subseteq S /\ i \in T
  OBVIOUS
<1>4. IsFiniteSet(T) /\ Cardinality(T) <= Cardinality(S)
  BY <1>2, <1>3, FS_Subset
<1>5. Cardinality(T) \in Nat /\ Cardinality(S) \in Nat
  BY <1>2, <1>4, FS_CardinalityType
<1>6. Cardinality(T) # 0
  BY <1>3, <1>4, FS_EmptySet
<1> QED
  BY <1>4, <1>5, <1>6

LEMMA RankBounds ==
  ASSUME Typed, Cardinality(Proposals) = Len(attempts), NEW i \in Proposals
  PROVE  Rank(i) \in 1 .. Len(attempts)
<1>1. Len(trace) \in Nat /\ Proposals \in SUBSET (1 .. Len(trace))
  BY DEF Typed, TypeOK, GuardTypeOK, Proposals
<1> QED
  BY <1>1, RankOf DEF Rank

(* How they change with one more entry. *)
LEMMA ProposalsGrow ==
  ASSUME NEW n \in Nat \ {0}, n = Len(trace) + 1, NEW call, NewEntry(n, call)
  PROVE  /\ Proposals \in SUBSET (1 .. n - 1)
         /\ Proposals' = IF Proposed(n)' THEN Proposals \union {n} ELSE Proposals
         /\ \A i \in Proposals :
              /\ Rank(i)' = Rank(i)
              /\ Settling(i) \in SUBSET (1 .. n - 1)
              /\ Settling(i)' = IF Settles(n)' THEN Settling(i) \union {n} ELSE Settling(i)
         /\ Proposed(n)' => /\ Settling(n)' = {}
                            /\ Rank(n)' = Cardinality(Proposals) + 1
                            /\ Cardinality(Proposals') = Cardinality(Proposals) + 1
<1>1. Len(trace') = n /\ Len(trace) = n - 1
  BY DEF NewEntry
<1>2. \A i \in 1 .. n - 1 : (Proposed(i)' <=> Proposed(i)) /\ (Settles(i)' <=> Settles(i))
  BY DEF NewEntry, Proposed, Settles
<1>3. Proposals \in SUBSET (1 .. n - 1)
  BY <1>1 DEF Proposals
<1>4. Proposals' = IF Proposed(n)' THEN Proposals \union {n} ELSE Proposals
  BY <1>1, <1>2 DEF Proposals
<1>5. ASSUME NEW i \in Proposals
      PROVE  /\ Rank(i)' = Rank(i)
             /\ Settling(i) \in SUBSET (1 .. n - 1)
             /\ Settling(i)' = IF Settles(n)' THEN Settling(i) \union {n} ELSE Settling(i)
  <2>1. i \in 1 .. n - 1
    BY <1>3
  <2>2. {j \in Proposals' : j <= i} = {j \in Proposals : j <= i}
    BY <1>3, <1>4, <2>1
  <2>3. Rank(i)' = Rank(i)
    BY <2>2 DEF Rank
  <2>4. Settling(i) \in SUBSET (1 .. n - 1)
    BY <1>1, <2>1 DEF Settling
  <2>5. Settling(i)' = IF Settles(n)' THEN Settling(i) \union {n} ELSE Settling(i)
    BY <1>1, <1>2, <2>1 DEF Settling
  <2> QED
    BY <2>3, <2>4, <2>5
<1>6. ASSUME Proposed(n)'
      PROVE  /\ Settling(n)' = {}
             /\ Rank(n)' = Cardinality(Proposals) + 1
             /\ Cardinality(Proposals') = Cardinality(Proposals) + 1
  <2>1. Cardinality(Proposals \union {n}) = Cardinality(Proposals) + 1
    BY <1>3, Grow
  <2>2. Proposals' = Proposals \union {n}
    BY <1>4, <1>6
  <2>3. \A j \in Proposals \union {n} : j <= n
    BY <1>3
  <2>4. {j \in Proposals' : j <= n} = Proposals \union {n}
    BY <2>2, <2>3
  <2>5. Settling(n)' = {}
    BY <1>1 DEF Settling
  <2> QED
    BY <2>1, <2>2, <2>4, <2>5 DEF Rank
<1> QED
  BY <1>3, <1>4, <1>5, <1>6

Verdict(first) == IF Proposed(first) THEN "superseded" ELSE trace[first].said

LEMMA JudgementIs ==
  ASSUME NEW i
  PROVE  /\ Judgement(i) = IF Settling(i) # {} THEN Verdict(First(Settling(i)))
                           ELSE IF pc = "ended" THEN "unresolved" ELSE "pending"
         /\ Judgement(i)' = IF Settling(i)' # {} THEN Verdict(First(Settling(i)))'
                            ELSE IF pc' = "ended" THEN "unresolved" ELSE "pending"
BY DEF Judgement, Settling, Settles, Verdict, First

LEMMA JudgementGrows ==
  ASSUME NEW n \in Nat \ {0}, n = Len(trace) + 1, NEW call, NewEntry(n, call),
         pc # "ended", pc' # "ended", NEW i \in Proposals
  PROVE  Judgement(i)' = IF Settling(i) = {} /\ Settles(n)'
                         THEN Verdict(n)' ELSE Judgement(i)
<1>1. /\ Settling(i) \in SUBSET (1 .. n - 1)
      /\ Settling(i)' = IF Settles(n)' THEN Settling(i) \union {n} ELSE Settling(i)
  BY ProposalsGrow
<1>2. CASE Settling(i) # {}
  <2>1. First(Settling(i) \union {n}) = First(Settling(i))
        /\ First(Settling(i)) \in Settling(i)
    BY <1>1, <1>2, FirstStays
  <2>2. First(Settling(i)') = First(Settling(i)) /\ Settling(i)' # {}
    BY <1>1, <1>2, <2>1
  <2>3. First(Settling(i)) \in 1 .. n - 1
    BY <1>1, <2>1
  <2>4. trace'[First(Settling(i))] = trace[First(Settling(i))]
    BY <2>3 DEF NewEntry
  <2>5. Verdict(First(Settling(i)))' = Verdict(First(Settling(i)))
    BY <2>2, <2>4 DEF Verdict, Proposed
  <2> QED
    BY <1>2, <2>2, <2>5, JudgementIs
<1>3. CASE Settling(i) = {} /\ Settles(n)'
  <2>1. Settling(i)' = {} \union {n}
    BY <1>1, <1>3
  <2>2. First(Settling(i)') = n /\ Settling(i)' # {}
    BY <2>1, FirstAlone
  <2>3. Verdict(First(Settling(i)))' = Verdict(n)'
    BY <2>2 DEF Verdict, Proposed
  <2> QED
    BY <1>3, <2>2, <2>3, JudgementIs
<1>4. CASE Settling(i) = {} /\ ~Settles(n)'
  BY <1>1, <1>4, JudgementIs
<1> QED
  BY <1>2, <1>3, <1>4

LEMMA JudgedCall ==
  ASSUME Typed, LogIsJudged, NEW call \in Call, Handle(call)
  PROVE  LogIsJudged'
<1>1. PICK n \in Nat \ {0} : n = Len(trace) + 1
  BY DEF Typed, TypeOK, GuardTypeOK
<1>2. /\ NewEntry(n, call) /\ GuardedCall(call)
      /\ pc = "handling" /\ pc' \in {"handling", "requesting"}
  BY <1>1, CallEffect DEF Typed, Handle
<1>3. /\ attempts \in Seq(Attempt) /\ Len(attempts) \in Nat /\ pending \in 0 .. Len(attempts)
      /\ Cardinality(Proposals) = Len(attempts)
  BY DEF Typed, TypeOK, GuardTypeOK, LogIsJudged, AttemptsJudged, Proposals
<1>4. \A i \in Proposals : Rank(i) \in 1 .. Len(attempts)
  BY <1>3, RankBounds
<1>5. \A i \in Proposals :
        /\ attempts[Rank(i)].state = Judgement(i)
        /\ Settling(i) = {} <=> pending = Rank(i)
  BY <1>2 DEF LogIsJudged, AttemptsJudged, Proposals, Rank
<1>6. \A i \in Proposals :
        Judgement(i)' = IF Settling(i) = {} /\ Settles(n)' THEN Verdict(n)' ELSE Judgement(i)
  BY <1>1, <1>2, JudgementGrows
<1>7. SUFFICES /\ Cardinality(Proposals') = Len(attempts')
               /\ \A i \in Proposals' :
                    /\ attempts'[Rank(i)'].state = Judgement(i)'
                    /\ Settling(i)' = {} <=> pending' = Rank(i)'
  BY <1>2 DEF LogIsJudged, AttemptsJudged, Proposals, Rank
<1>8. /\ Proposals \in SUBSET (1 .. n - 1)
      /\ Proposals' = IF Proposed(n)' THEN Proposals \union {n} ELSE Proposals
      /\ \A i \in Proposals :
           /\ Rank(i)' = Rank(i)
           /\ Settling(i)' = IF Settles(n)' THEN Settling(i) \union {n} ELSE Settling(i)
      /\ Proposed(n)' => /\ Settling(n)' = {}
                         /\ Rank(n)' = Cardinality(Proposals) + 1
                         /\ Cardinality(Proposals') = Cardinality(Proposals) + 1
  BY <1>1, <1>2, ProposalsGrow
<1>9. CASE UNCHANGED <<attempts, pending>> /\ trace'[n].said \in {"none", "garbled"}
  <2>1. ~Settles(n)' /\ ~Proposed(n)'
    BY <1>9 DEF Settles, Proposed
  <2> QED
    BY <1>3, <1>5, <1>6, <1>8, <1>9, <2>1
<1>10. CASE /\ UNCHANGED <<attempts, pending>> /\ pending = 0
            /\ trace'[n].said \in {"clean", "errors"}
  <2>1. Settles(n)' /\ ~Proposed(n)'
    BY <1>10 DEF Settles, Proposed
  <2>2. \A i \in Proposals : Settling(i) # {}
    BY <1>4, <1>5, <1>10
  <2> QED
    BY <1>3, <1>4, <1>5, <1>6, <1>8, <1>10, <2>1, <2>2
<1>11. ASSUME NEW said \in {"clean", "errors"}, trace'[n].said = said,
              pending # 0, pending' = 0,
              attempts' = [attempts EXCEPT ![pending].state = said]
       PROVE  /\ Cardinality(Proposals') = Len(attempts')
              /\ \A i \in Proposals' :
                   /\ attempts'[Rank(i)'].state = Judgement(i)'
                   /\ Settling(i)' = {} <=> pending' = Rank(i)'
  <2>1. Settles(n)' /\ ~Proposed(n)' /\ Verdict(n)' = said
    BY <1>11 DEF Settles, Proposed, Verdict
  <2>2. Len(attempts') = Len(attempts) /\ Proposals' = Proposals
    BY <1>3, <1>8, <1>11, <2>1
  <2>3. ASSUME NEW i \in Proposals
        PROVE  /\ attempts'[Rank(i)].state = Judgement(i)'
               /\ Settling(i)' # {} /\ Rank(i)' = Rank(i) /\ Rank(i) # 0
    <3>1. Rank(i) \in 1 .. Len(attempts) /\ pending \in 1 .. Len(attempts)
      BY <1>3, <1>4, <1>11
    <3>2. attempts[Rank(i)] \in Attempt
      BY <1>3, <3>1
    <3>3. attempts'[Rank(i)].state =
            IF Rank(i) = pending THEN said ELSE attempts[Rank(i)].state
      BY <1>3, <1>11, <3>1, <3>2 DEF Attempt
    <3>4. attempts'[Rank(i)].state = Judgement(i)'
      BY <1>5, <1>6, <2>1, <3>3
    <3> QED
      BY <1>8, <2>1, <3>1, <3>4
  <2> QED
    BY <1>3, <1>11, <2>2, <2>3
<1>12. CASE Apply(call) /\ call.arg # Garbled
  <2>1. /\ attempts' = Append(Superseded, [tactic |-> call.arg, state |-> "pending"])
        /\ pending' = Len(attempts) + 1
        /\ trace'[n].said \in {"written", "invalid"}
    BY <1>1, <1>12, RecordEffect DEF Apply, Typed
  <2>2. Settles(n)' /\ Proposed(n)' /\ Verdict(n)' = "superseded"
    BY <2>1 DEF Settles, Proposed, Verdict
  <2>3. Superseded \in Seq(Attempt) /\ Len(Superseded) = Len(attempts)
        /\ \A k \in 1 .. Len(attempts) : Superseded[k].state =
              IF k = pending THEN "superseded" ELSE attempts[k].state
    <3>1. CASE pending = 0
      BY <1>3, <3>1 DEF Superseded
    <3>2. CASE pending # 0
      <4>1. pending \in 1 .. Len(attempts) /\ \A k \in 1 .. Len(attempts) : attempts[k] \in Attempt
        BY <1>3, <3>2
      <4>2. [attempts[pending] EXCEPT !.state = "superseded"] \in Attempt
        BY <4>1, AttemptChange DEF AttemptState
      <4> QED
        BY <1>3, <3>2, <4>1, <4>2 DEF Superseded, Attempt
    <3> QED
      BY <3>1, <3>2
  <2>4. /\ Len(attempts') = Len(attempts) + 1
        /\ attempts'[Len(attempts) + 1].state = "pending"
        /\ \A k \in 1 .. Len(attempts) : attempts'[k] = Superseded[k]
    BY <1>3, <2>1, <2>3
  <2>5. ASSUME NEW i \in Proposals
        PROVE  /\ attempts'[Rank(i)'].state = Judgement(i)'
               /\ Settling(i)' # {} /\ pending' # Rank(i)'
    <3>1. Rank(i) \in 1 .. Len(attempts) /\ Rank(i)' = Rank(i)
      BY <1>4, <1>8
    <3>2. attempts'[Rank(i)].state =
            IF Rank(i) = pending THEN "superseded" ELSE attempts[Rank(i)].state
      BY <2>3, <2>4, <3>1
    <3>3. attempts'[Rank(i)].state = Judgement(i)'
      BY <1>5, <1>6, <2>2, <3>2
    <3>4. Settling(i)' = Settling(i) \union {n}
      BY <1>8, <2>2
    <3>5. pending' # Rank(i)
      BY <1>3, <2>1, <3>1
    <3> QED
      BY <3>1, <3>3, <3>4, <3>5
  <2>6. attempts'[Rank(n)'].state = Judgement(n)' /\ Settling(n)' = {} /\ pending' = Rank(n)'
    <3>1. Settling(n)' = {} /\ Rank(n)' = Len(attempts) + 1
      BY <1>3, <1>8, <2>2
    <3>2. Judgement(n)' = "pending"
      BY <1>2, <3>1, JudgementIs
    <3> QED
      BY <2>1, <2>4, <3>1, <3>2
  <2> QED
    BY <1>3, <1>8, <2>2, <2>4, <2>5, <2>6
<1>13. CASE Diagnose(call)
  <2>1. PICK said \in {"none", "clean", "errors"} :
          /\ Record(call, "ran", said) /\ Status(call) = "ran"
          /\ IF said = "none" \/ pending = 0
             THEN UNCHANGED <<attempts, pending>>
             ELSE /\ attempts' = [attempts EXCEPT ![pending].state = said]
                  /\ pending' = 0
    BY <1>13 DEF Diagnose
  <2>2. trace'[n].said = said
    BY <1>1, <2>1, RecordEffect DEF Typed
  <2> QED
    BY <1>9, <1>10, <1>11, <2>1, <2>2
<1>14. CASE Block(call) \/ Read(call) \/ (Apply(call) /\ call.arg = Garbled)
  <2>1. UNCHANGED <<attempts, pending>>
    BY <1>14 DEF Block, Read, Apply
  <2>2. trace'[n].said \in {"none", "garbled"}
    <3>1. CASE Block(call)
      BY <1>1, <3>1, RecordEffect DEF Block, Typed
    <3>2. CASE Read(call)
      BY <1>1, <3>2, RecordEffect DEF Read, Typed
    <3>3. CASE Apply(call) /\ call.arg = Garbled
      <4>1. Record(call, Status(call), "garbled")
        BY <3>3, TacticAssumption DEF Apply, Record
      <4> QED
        BY <1>1, <4>1, RecordEffect DEF Typed
    <3> QED
      BY <1>14, <3>1, <3>2, <3>3
  <2> QED
    BY <1>9, <2>1, <2>2
<1> QED
  BY <1>2, <1>12, <1>13, <1>14 DEF GuardedCall

LEMMA JudgedEnd ==
  ASSUME Typed, LogIsJudged, pc # "ended", pc' = "ended", Finalize, UNCHANGED trace
  PROVE  LogIsJudged'
<1>1. /\ attempts \in Seq(Attempt) /\ Len(attempts) \in Nat /\ pending \in 0 .. Len(attempts)
      /\ Cardinality(Proposals) = Len(attempts)
  BY DEF Typed, TypeOK, GuardTypeOK, LogIsJudged, AttemptsJudged, Proposals
<1>2. \A i \in Proposals :
        /\ Rank(i) \in 1 .. Len(attempts)
        /\ attempts[Rank(i)].state = Judgement(i)
        /\ Settling(i) = {} <=> pending = Rank(i)
  BY <1>1, RankBounds DEF LogIsJudged, AttemptsJudged, Proposals, Rank
<1>3. /\ Proposals' = Proposals
      /\ \A i : Settling(i)' = Settling(i) /\ Rank(i)' = Rank(i)
      /\ \A i : Verdict(First(Settling(i)))' = Verdict(First(Settling(i)))
  BY DEF Proposals, Proposed, Settling, Settles, Rank, Verdict
<1>4. Len(attempts') = Len(attempts)
  BY <1>1 DEF Finalize
<1>5. ASSUME NEW i \in Proposals PROVE attempts'[Rank(i)].state = Judgement(i)'
  <2>1. Rank(i) \in 1 .. Len(attempts) /\ attempts[Rank(i)] \in Attempt
    BY <1>1, <1>2
  <2>2. CASE Settling(i) # {}
    <3>1. attempts'[Rank(i)] = attempts[Rank(i)]
      BY <1>1, <1>2, <2>1, <2>2 DEF Finalize
    <3> QED
      BY <1>2, <1>3, <2>2, <3>1, JudgementIs
  <2>3. CASE Settling(i) = {}
    <3>1. pending = Rank(i) /\ pending # 0
      BY <1>2, <2>1, <2>3
    <3>2. attempts'[Rank(i)] = [attempts[Rank(i)] EXCEPT !.state = "unresolved"]
      BY <1>1, <2>1, <3>1 DEF Finalize
    <3>3. attempts'[Rank(i)].state = "unresolved"
      BY <2>1, <3>2 DEF Attempt
    <3> QED
      BY <1>3, <2>3, <3>3, JudgementIs
  <2> QED
    BY <2>2, <2>3
<1> QED
  BY <1>1, <1>3, <1>4, <1>5 DEF LogIsJudged, AttemptsJudged, Proposals, Rank

(* The steps that leave the log and the trace alone, and the ends before   *)
(* the model is asked, when nothing is pending.                            *)
LEMMA JudgedQuiet ==
  ASSUME Typed, LogIsJudged, UNCHANGED <<trace, attempts, pending>>,
         \/ pc' = pc
         \/ pc' = "ended" /\ pc \in {"start", "fast", "opening"}
         \/ /\ pc # "ended" /\ pc' # "ended"
            /\ pc' \in {"start", "fast", "opening"} => pc \in {"start", "fast", "opening"}
  PROVE  LogIsJudged'
<1>1. CASE pc' = "ended" /\ pc # "ended"
  <2>1. pending = 0
    BY <1>1 DEF LogIsJudged
  <2>2. Finalize
    BY <2>1 DEF Finalize
  <2> QED
    BY <1>1, <2>2, JudgedEnd
<1>2. CASE ~(pc' = "ended" /\ pc # "ended")
  <2>1. (pc' = "ended") <=> (pc = "ended")
    BY <1>2
  <2>2. /\ Proposals' = Proposals
        /\ \A i : Settling(i)' = Settling(i) /\ Rank(i)' = Rank(i)
        /\ \A i : Verdict(First(Settling(i)))' = Verdict(First(Settling(i)))
    BY DEF Proposals, Proposed, Settling, Settles, Rank, Verdict
  <2>3. \A i : Judgement(i)' = Judgement(i)
    BY <2>1, <2>2, JudgementIs
  <2> QED
    BY <2>1, <2>2, <2>3 DEF LogIsJudged, AttemptsJudged, Proposals, Rank
<1> QED
  BY <1>1, <1>2

LEMMA JudgedStep ==
  ASSUME Typed, LogIsJudged, [Next]_vars
  PROVE  LogIsJudged'
<1> USE DEF guardVars
<1>1. CASE \E call \in Call : Handle(call)
  BY <1>1, JudgedCall
<1>2. CASE Conclude \/ ConcludeRaises \/ Interrupted
  BY <1>2, JudgedEnd DEF Conclude, ConcludeRaises, Interrupted, End
<1>3. CASE \/ Initialize \/ NoPlaceholder \/ (\E t \in Tactics : TryFast(t))
           \/ FastExhausted \/ NoApiKey
  BY <1>3, JudgedQuiet DEF Initialize, NoPlaceholder, End, TryFast, FastSuccess,
     FastExhausted, NoApiKey
<1>4. CASE \/ OpenSession \/ OpenFails \/ AppendCap
           \/ (\E call \in Call : BudgetStop(call)) \/ CloseSession
  BY <1>4, JudgedQuiet DEF OpenSession, OpenFails, AppendCap, BudgetStop, CloseSession, Stop
<1>5. CASE (\E n \in 0 .. BatchSize : Reply(n)) \/ Backoff \/ RequestFails
  BY <1>5, JudgedQuiet DEF Reply, Backoff, RequestFails, Stop
<1>6. CASE WallClock
  BY <1>6, JudgedQuiet DEF WallClock, Waiting, Stop
<1>7. CASE UNCHANGED vars
  BY <1>7, JudgedQuiet DEF vars, loopVars
<1> QED
  BY <1>1, <1>2, <1>3, <1>4, <1>5, <1>6, <1>7 DEF Next, Proceeds, Answered

LEMMA JudgedInit == Init => LogIsJudged
<1> SUFFICES ASSUME Init PROVE LogIsJudged
  OBVIOUS
<1>1. Proposals = {} /\ Len(attempts) = 0 /\ pending = 0
  BY DEF Init, GuardInit, Proposals
<1>2. Cardinality(Proposals) = 0
  BY <1>1, FS_EmptySet
<1> QED
  BY <1>1, <1>2 DEF LogIsJudged, AttemptsJudged, Proposals

(* AttemptsJudged: what the prover's log says of each tactic is what the   *)
(* trace shows of it, whatever the order of the calls and however the run  *)
(* ends.                                                                   *)
THEOREM AttemptsAlwaysJudged == Spec => []AttemptsJudged
<1>1. LogIsJudged => AttemptsJudged
  BY DEF LogIsJudged
<1> QED
  BY <1>1, AlwaysTyped, JudgedInit, JudgedStep, PTL DEF Spec
=============================================================================
