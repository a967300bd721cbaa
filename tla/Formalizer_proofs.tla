-------------------------- MODULE Formalizer_proofs --------------------------
(***************************************************************************)
(* What Formalizer promises, for any number of threads and claims and any  *)
(* search plans, whatever the model, the MCP server and Lean answer.       *)
(***************************************************************************)
EXTENDS Formalizer, TLAPS

-----------------------------------------------------------------------------
(* Types.                                                                  *)

(* The budget of one call: at most two calls of the model, the second      *)
(* without a repair, and so at most three candidates and validations.      *)
Before == {"begin", "retrieving", "looking"}
During == {"running", "clearing", "noting", "writing", "compiling", "judging"}

Budget(t) ==
  /\ pc[t] \in Before => attempt[t] = 0 /\ current[t] = 0 /\ validations[t] = 0
  /\ pc[t] = "calling" =>
       /\ attempt[t] <= 1
       /\ attempt[t] = 0 => current[t] = 0 /\ validations[t] = 0
       /\ current[t] <= 2 /\ validations[t] <= 2
  /\ pc[t] = "validating" =>
       /\ attempt[t] >= 1 /\ current[t] >= 1 /\ validations[t] <= 2
       /\ attempt[t] = 1 => current[t] <= 2 /\ current[t] = validations[t] + 1
  /\ pc[t] \in During =>
       /\ attempt[t] >= 1 /\ current[t] >= 1
       /\ attempt[t] = 1 => current[t] <= 2 /\ current[t] = validations[t]

Planned(t) == pc[t] = "retrieving" => Plan(t) \in Plans

Typed == TypeOK /\ \A t \in Threads : Budget(t) /\ Planned(t)

(* The shared state of the MCP server keeps its type. *)
LEMMA NormalizedType == \A text : Normalized(text) \in Codes \union {"none"}
BY DEF Normalized, Codes

LEMMA BlockedType == McpTypeOK => Blocked \in Texts \union {"temporarily disabled", "none"}
BY DEF McpTypeOK, Blocked, Capability, Texts

LEMMA MarkType ==
  ASSUME McpTypeOK, NEW c \in Capability, NEW text \in Texts \union {"none"},
         cooling' = [cooling EXCEPT ![c] = text], found' \in Seq(Plans)
  PROVE  McpTypeOK'
BY DEF McpTypeOK

LEMMA KeptType ==
  ASSUME McpTypeOK, NEW plan \in Plans
  PROVE  Kept(plan) \in Seq(Plans)
<1>1. SearchLimit \in Nat \ {0}
  BY SearchLimitAssumption
<1>2. CASE Len(found) >= SearchLimit
  <2>1. found # <<>>
    BY <1>1, <1>2 DEF McpTypeOK
  <2>2. Tail(found) \in Seq(Plans)
    BY <2>1 DEF McpTypeOK
  <2> QED
    BY <1>2, <2>2 DEF Kept
<1>3. CASE ~(Len(found) >= SearchLimit)
  BY <1>3 DEF Kept, McpTypeOK
<1> QED
  BY <1>2, <1>3

LEMMA SearchType ==
  ASSUME McpTypeOK, NEW plan \in Plans, SearchReturns(plan) \/ SearchFails
  PROVE  McpTypeOK'
<1>1. CASE SearchReturns(plan)
  BY <1>1, KeptType DEF SearchReturns, MarkSuccess, McpTypeOK, Capability
<1>2. CASE SearchFails
  BY <1>2 DEF SearchFails, MarkFailure, McpTypeOK, Capability, Texts
<1> QED
  BY <1>1, <1>2

(* Steps of one thread leave the others alone. *)
LEMMA Elsewhere ==
  ASSUME TypeOK, NEW t \in Threads, Step(t)
  PROVE  \A s \in Threads \ {t} :
           /\ pc'[s] = pc[s] /\ attempt'[s] = attempt[s] /\ current'[s] = current[s]
           /\ validations'[s] = validations[s] /\ valid'[s] = valid[s]
           /\ answer'[s] = answer[s]
<1> USE DEF TypeOK, At, callVars
<1>1. CASE SkipRetrieval(t) \/ BeginRetrieval(t) \/ Retrieve(t) \/ CacheHit(t) \/ CacheMiss(t)
  BY <1>1 DEF SkipRetrieval, BeginRetrieval, Retrieve, CacheHit, CacheMiss
<1>2. CASE Refuse(t) \/ CallRaises(t) \/ Propose(t) \/ RejectShape(t)
  BY <1>2 DEF Refuse, CallRaises, Propose, RejectShape, Returns
<1>3. CASE TryRunCode(t) \/ SkipRunCode(t) \/ RunCodeReturns(t) \/ RunCodeFails(t)
  BY <1>3 DEF TryRunCode, SkipRunCode, RunCodeReturns, RunCodeFails
<1>4. CASE ClearFlag(t) \/ SetFlag(t) \/ WriteProof(t) \/ CompileProof(t)
  BY <1>4 DEF ClearFlag, SetFlag, WriteProof, CompileProof
<1>5. CASE Accept(t) \/ Repair(t) \/ GiveUpAttempt(t) \/ Diagnose(t)
  BY <1>5 DEF Accept, Repair, GiveUpAttempt, Diagnose, Returns, Judged
<1> QED
  BY <1>1, <1>2, <1>3, <1>4, <1>5 DEF Step

-----------------------------------------------------------------------------
(* What a step does to its own thread's budget. *)
LEMMA BudgetKept ==
  ASSUME Typed, NEW t \in Threads, Step(t)
  PROVE  Budget(t)' /\ Planned(t)'
<1> USE DEF Typed, TypeOK, Budget, Planned, Before, During, At, callVars, MaxModelCalls, MaxValidations
<1>1. CASE SkipRetrieval(t) \/ CacheHit(t) \/ CacheMiss(t) \/ Retrieve(t)
  BY <1>1 DEF SkipRetrieval, CacheHit, CacheMiss, Retrieve
<1>2. CASE BeginRetrieval(t)
  BY <1>2 DEF BeginRetrieval, Skips, Plan
<1>3. CASE Refuse(t) \/ CallRaises(t)
  BY <1>3 DEF Refuse, CallRaises
<1>4. CASE Propose(t)
  BY <1>4 DEF Propose
<1>5. CASE RejectShape(t)
  BY <1>5 DEF RejectShape, AfterAttempt
<1>6. CASE TryRunCode(t) \/ SkipRunCode(t)
  BY <1>6 DEF TryRunCode, SkipRunCode
<1>7. CASE RunCodeReturns(t) \/ RunCodeFails(t)
  BY <1>7 DEF RunCodeReturns, RunCodeFails
<1>8. CASE ClearFlag(t) \/ SetFlag(t) \/ WriteProof(t) \/ CompileProof(t)
  BY <1>8 DEF ClearFlag, SetFlag, WriteProof, CompileProof
<1>9. CASE Accept(t) \/ Diagnose(t)
  BY <1>9 DEF Accept, Diagnose
<1>10. CASE Repair(t)
  BY <1>10 DEF Repair, MayRepair
<1>11. CASE GiveUpAttempt(t)
  BY <1>11 DEF GiveUpAttempt, AfterAttempt
<1> QED
  BY <1>1, <1>2, <1>3, <1>4, <1>5, <1>6, <1>7, <1>8, <1>9, <1>10, <1>11 DEF Step

(* What it returns is an answer. *)
LEMMA ReturnType ==
  ASSUME TypeOK, NEW t \in Threads, NEW kind \in {"success", "refused", "failed"},
         kind = "success" => current[t] >= 1, Returns(t, kind)
  PROVE  answer' \in [Threads -> Answer]
<1>1. kind = "success" => Code(t) \in Candidate
  BY DEF Code, Candidate, TypeOK, MaxValidations
<1> QED
  BY <1>1 DEF Returns, TypeOK, Answer

(* A candidate under validation has its number. *)
LEMMA CodeType ==
  ASSUME Typed, NEW t \in Threads, pc[t] \in During
  PROVE  Code(t) \in Candidate
BY DEF Typed, TypeOK, Budget, During, Code, Candidate, MaxValidations

LEMMA TypeKept ==
  ASSUME Typed, NEW t \in Threads, Step(t)
  PROVE  TypeOK'
<1> USE DEF Typed, TypeOK, At, callVars, sharedVars, mcpVars, PC
<1>1. CASE SkipRetrieval(t) \/ BeginRetrieval(t) \/ CacheMiss(t) \/ CallRaises(t)
  BY <1>1 DEF SkipRetrieval, BeginRetrieval, CacheMiss, CallRaises, McpTypeOK
<1>2. CASE Retrieve(t)
  <2>1. McpTypeOK'
    BY <1>2, SearchType DEF Retrieve, Planned
  <2> QED
    BY <1>2, <2>1 DEF Retrieve
<1>3. CASE CacheHit(t)
  <2>1. cache[claim[t]] \in Answer
    OBVIOUS
  <2>2. [cache[claim[t]] EXCEPT !.replayed = TRUE] \in Answer
    BY <2>1 DEF Answer
  <2>3. answer' \in [Threads -> Answer]
    BY <1>3, <2>2 DEF CacheHit
  <2> QED
    BY <1>3, <2>3 DEF CacheHit, McpTypeOK
<1>4. CASE Refuse(t)
  <2>1. answer' \in [Threads -> Answer]
    BY <1>4, ReturnType DEF Refuse
  <2>2. cache' \in [Claims -> Answer]
    BY <1>4, <2>1 DEF Refuse, CachePut
  <2>3. attempt' \in [Threads -> 0 .. MaxModelCalls]
    BY <1>4 DEF Refuse, Budget, MaxModelCalls
  <2> QED
    BY <1>4, <2>1, <2>2, <2>3 DEF Refuse, McpTypeOK
<1>5. CASE Propose(t) \/ RejectShape(t)
  <2>1. attempt' \in [Threads -> 0 .. MaxModelCalls] /\ current' \in [Threads -> 0 .. MaxValidations]
    BY <1>5 DEF Propose, RejectShape, Budget, MaxModelCalls, MaxValidations
  <2> QED
    BY <1>5, <2>1 DEF Propose, RejectShape, AfterAttempt, McpTypeOK
<1>6. CASE TryRunCode(t) \/ SkipRunCode(t)
  <2>1. validations' \in [Threads -> 0 .. MaxValidations]
    BY <1>6 DEF TryRunCode, SkipRunCode, Budget, MaxValidations
  <2>2. reason' \in [Threads -> Codes \union {"none"}]
    BY <1>6, NormalizedType DEF TryRunCode, SkipRunCode
  <2> QED
    BY <1>6, <2>1, <2>2 DEF TryRunCode, SkipRunCode, McpTypeOK
<1>7. CASE RunCodeReturns(t)
  <2>1. McpTypeOK'
    BY <1>7 DEF RunCodeReturns, MarkSuccess, McpTypeOK, Capability
  <2>2. valid' \in [Threads -> Candidate \union {Nothing}]
    BY <1>7, CodeType DEF RunCodeReturns, During
  <2> QED
    BY <1>7, <2>1, <2>2 DEF RunCodeReturns
<1>8. CASE RunCodeFails(t)
  <2>1. PICK text \in Texts \union {"temporarily disabled", "none"} :
          /\ reason' = [reason EXCEPT ![t] = Normalized(text)]
          /\ \/ UNCHANGED cooling
             \/ text \in Texts /\ cooling' = [cooling EXCEPT !["validation"] = text]
    BY <1>8 DEF RunCodeFails, MarkFailure
  <2>2. Normalized(text) \in Codes \union {"none"}
    BY NormalizedType
  <2>3. reason' \in [Threads -> Codes \union {"none"}]
    BY <2>1, <2>2
  <2>4. UNCHANGED found
    BY <1>8 DEF RunCodeFails
  <2>5. McpTypeOK'
    BY <2>1, <2>4 DEF McpTypeOK, Capability
  <2> QED
    BY <1>8, <2>3, <2>5 DEF RunCodeFails
<1>9. CASE ClearFlag(t) \/ SetFlag(t)
  BY <1>9 DEF ClearFlag, SetFlag, McpTypeOK
<1>10. CASE WriteProof(t)
  <2>1. Code(t) \in Candidate
    BY <1>10, CodeType DEF WriteProof, During
  <2> QED
    BY <1>10, <2>1 DEF WriteProof, McpTypeOK
<1>11. CASE CompileProof(t)
  <2>1. reason' \in [Threads -> Codes \union {"none"}]
    BY <1>11, NormalizedType DEF CompileProof, Recorded
  <2>2. valid' \in [Threads -> Candidate \union {Nothing}]
    BY <1>11 DEF CompileProof
  <2> QED
    BY <1>11, <2>1, <2>2 DEF CompileProof, McpTypeOK
<1>12. CASE Accept(t)
  <2>1. current[t] >= 1
    BY <1>12 DEF Accept, Budget, During
  <2>2. answer' \in [Threads -> Answer]
    BY <1>12, <2>1, ReturnType DEF Accept
  <2>3. cache' \in [Claims -> Answer]
    BY <1>12, <2>2 DEF Accept, CachePut
  <2> QED
    BY <1>12, <2>2, <2>3 DEF Accept, McpTypeOK
<1>13. CASE Repair(t)
  <2>1. current' \in [Threads -> 0 .. MaxValidations]
    BY <1>13 DEF Repair, MayRepair, Budget, During, MaxValidations
  <2> QED
    BY <1>13, <2>1 DEF Repair, Judged, McpTypeOK
<1>14. CASE GiveUpAttempt(t)
  BY <1>14 DEF GiveUpAttempt, AfterAttempt, Judged, McpTypeOK
<1>15. CASE Diagnose(t)
  <2>1. answer' \in [Threads -> Answer]
    BY <1>15, ReturnType DEF Diagnose
  <2> QED
    BY <1>15, <2>1 DEF Diagnose, McpTypeOK
<1> QED
  BY <1>1, <1>2, <1>3, <1>4, <1>5, <1>6, <1>7, <1>8, <1>9, <1>10, <1>11, <1>12,
     <1>13, <1>14, <1>15 DEF Step

LEMMA TypedInit == Init => Typed
BY PlanAssumption
   DEF Init, McpInit, Typed, TypeOK, McpTypeOK, Budget, Planned, Before, During, PC, Candidate,
       Answer, NoAnswer, Nothing, Capability, Codes, Texts, MaxModelCalls, MaxValidations

LEMMA TypedNext == Typed /\ [Next]_vars => Typed'
<1> SUFFICES ASSUME Typed, [Next]_vars
             PROVE  Typed'
  OBVIOUS
<1>1. CASE \E t \in Threads : Step(t)
  <2>1. PICK t \in Threads : Step(t)
    BY <1>1
  <2>2. TypeOK' /\ Budget(t)' /\ Planned(t)'
    BY <2>1, TypeKept, BudgetKept
  <2>3. claim' = claim
    BY <2>1 DEF Step, SkipRetrieval, BeginRetrieval, Retrieve, CacheHit, CacheMiss, Refuse,
       CallRaises, Propose, RejectShape, TryRunCode, SkipRunCode, RunCodeReturns, RunCodeFails,
       ClearFlag, SetFlag, WriteProof, CompileProof, Accept, Repair, GiveUpAttempt, Diagnose,
       callVars
  <2>4. ASSUME NEW s \in Threads \ {t}
        PROVE  Budget(s)' /\ Planned(s)'
    <3>1. pc'[s] = pc[s] /\ attempt'[s] = attempt[s] /\ current'[s] = current[s]
          /\ validations'[s] = validations[s]
      BY <2>1, Elsewhere DEF Typed
    <3> QED
      BY <2>3, <3>1 DEF Typed, Budget, Planned, Plan
  <2> QED
    BY <2>2, <2>4 DEF Typed
<1>2. CASE Cooldown
  <2>1. McpTypeOK'
    BY <1>2 DEF Cooldown, Cool, McpTypeOK, Typed, TypeOK
  <2> QED
    BY <1>2, <2>1 DEF Cooldown, Typed, TypeOK, Budget, Planned, Plan, callVars, sharedVars
<1>3. CASE UNCHANGED vars
  BY <1>3 DEF vars, mcpVars, callVars, sharedVars, Typed, TypeOK, McpTypeOK, Budget, Planned, Plan
<1> QED
  BY <1>1, <1>2, <1>3 DEF Next

LEMMA TypedAlways == Spec => []Typed
BY TypedInit, TypedNext, PTL DEF Spec

(* Every variable keeps its type: no interleaving of the calls, repairs    *)
(* and cooldowns takes a call past two model calls and three validations.  *)
THEOREM TypeCorrect == Spec => []TypeOK
<1>1. Typed => TypeOK
  BY DEF Typed
<1> QED
  BY <1>1, TypedAlways, PTL

-----------------------------------------------------------------------------
(* lean_run_code, once given up.                                           *)

LEMMA FlagStays ==
  ASSUME TypeOK, GivenUp, NEW t \in Threads, Step(t)
  PROVE  GivenUp'
<1> USE DEF TypeOK, GivenUp, At, callVars, sharedVars
<1>1. CASE SkipRetrieval(t) \/ BeginRetrieval(t) \/ Retrieve(t) \/ CacheHit(t) \/ CacheMiss(t)
  BY <1>1 DEF SkipRetrieval, BeginRetrieval, Retrieve, CacheHit, CacheMiss
<1>2. CASE Refuse(t) \/ CallRaises(t) \/ Propose(t) \/ RejectShape(t)
  BY <1>2 DEF Refuse, CallRaises, Propose, RejectShape, AfterAttempt
<1>3. CASE TryRunCode(t) \/ SkipRunCode(t) \/ RunCodeReturns(t) \/ RunCodeFails(t)
  BY <1>3 DEF TryRunCode, SkipRunCode, RunCodeReturns, RunCodeFails
<1>4. CASE ClearFlag(t) \/ SetFlag(t) \/ WriteProof(t) \/ CompileProof(t)
  BY <1>4 DEF ClearFlag, SetFlag, WriteProof, CompileProof
<1>5. CASE Accept(t) \/ Repair(t) \/ GiveUpAttempt(t) \/ Diagnose(t)
  BY <1>5 DEF Accept, Repair, GiveUpAttempt, Diagnose, Judged, AfterAttempt
<1> QED
  BY <1>1, <1>2, <1>3, <1>4, <1>5 DEF Step

(* Once lean_run_code is given up and no call is still using it, it stays  *)
(* given up, for any number of threads that set and clear the flag.        *)
THEOREM NobodyRevivesIt == Spec => GivenUpForGood
<1>1. TypeOK /\ [Next]_vars => [GivenUp => GivenUp']_vars
  <2> SUFFICES ASSUME TypeOK, Next, GivenUp
               PROVE  GivenUp'
    BY DEF vars, mcpVars, callVars, sharedVars
  <2>1. CASE \E t \in Threads : Step(t)
    BY <2>1, FlagStays
  <2>2. CASE Cooldown
    BY <2>2 DEF Cooldown, GivenUp, sharedVars
  <2> QED
    BY <2>1, <2>2 DEF Next
<1> QED
  BY <1>1, TypeCorrect, PTL DEF Spec, GivenUpForGood

-----------------------------------------------------------------------------
(* What an answer was checked against.                                     *)

(* An answer is given when the call ends, and no sooner. *)
Settled(t) == pc[t] # "done" => answer[t] = NoAnswer

(* A call whose Proof.lean nobody replaced compiles and judges its latest  *)
(* candidate.                                                              *)
Faithful(t) ==
  t \notin overwritten =>
    /\ pc[t] = "compiling" => proofFile = Code(t)
    /\ pc[t] \in {"clearing", "judging"} => valid[t] \in {Nothing, Code(t)}
    /\ Succeeded(t) => answer[t].candidate = answer[t].checked

Judging == \A t \in Threads : Settled(t) /\ Faithful(t)

LEMMA JudgedOwn ==
  ASSUME TypeOK, Judging, NEW t \in Threads, Step(t)
  PROVE  Settled(t)' /\ Faithful(t)'
<1> USE DEF TypeOK, Judging, Settled, Faithful, Succeeded, At, Code, callVars, sharedVars,
            NoAnswer, Answer
<1>1. CASE SkipRetrieval(t) \/ BeginRetrieval(t) \/ Retrieve(t) \/ CacheMiss(t)
  BY <1>1 DEF SkipRetrieval, BeginRetrieval, Retrieve, CacheMiss
<1>2. CASE CacheHit(t)
  <2>1. answer'[t].replayed = TRUE
    BY <1>2 DEF CacheHit
  <2> QED
    BY <1>2, <2>1 DEF CacheHit
<1>3. CASE Refuse(t) \/ Diagnose(t)
  <2>1. answer'[t].kind # "success"
    BY <1>3 DEF Refuse, Diagnose, Returns
  <2> QED
    BY <1>3, <2>1 DEF Refuse, Diagnose
<1>4. CASE CallRaises(t) \/ Propose(t) \/ RejectShape(t)
  BY <1>4 DEF CallRaises, Propose, RejectShape, AfterAttempt
<1>5. CASE TryRunCode(t) \/ SkipRunCode(t) \/ RunCodeReturns(t) \/ RunCodeFails(t)
  BY <1>5 DEF TryRunCode, SkipRunCode, RunCodeReturns, RunCodeFails
<1>6. CASE ClearFlag(t) \/ SetFlag(t) \/ CompileProof(t)
  BY <1>6 DEF ClearFlag, SetFlag, CompileProof
<1>7. CASE WriteProof(t)
  <2>1. proofFile' = Code(t) /\ pc'[t] = "compiling" /\ UNCHANGED callVars
    BY <1>7 DEF WriteProof
  <2>2. answer[t] = NoAnswer
    BY <1>7 DEF WriteProof
  <2> QED
    BY <2>1, <2>2
<1>8. CASE Accept(t)
  <2>1. answer'[t].candidate = Code(t) /\ answer'[t].checked = valid[t]
    BY <1>8 DEF Accept, Returns
  <2>2. t \notin overwritten => valid[t] = Code(t)
    BY <1>8 DEF Accept
  <2> QED
    BY <1>8, <2>1, <2>2 DEF Accept
<1>9. CASE Repair(t) \/ GiveUpAttempt(t)
  <2>1. pc'[t] \notin {"compiling", "clearing", "judging", "done"}
    BY <1>9 DEF Repair, GiveUpAttempt, AfterAttempt
  <2>2. answer[t] = NoAnswer /\ answer' = answer
    BY <1>9 DEF Repair, GiveUpAttempt
  <2> QED
    BY <2>1, <2>2
<1> QED
  BY <1>1, <1>2, <1>3, <1>4, <1>5, <1>6, <1>7, <1>8, <1>9 DEF Step

(* A step of one call takes nothing from another, except a Proof.lean that *)
(* it replaces, and that is recorded.                                      *)
LEMMA Replaced ==
  ASSUME TypeOK, NEW t \in Threads, Step(t)
  PROVE  \A s \in Threads \ {t} :
           /\ s \in overwritten => s \in overwritten'
           /\ pc[s] = "compiling" /\ s \notin overwritten' => proofFile' = proofFile
<1> USE DEF TypeOK, callVars, sharedVars
<1>1. CASE SkipRetrieval(t) \/ BeginRetrieval(t) \/ Retrieve(t) \/ CacheHit(t) \/ CacheMiss(t)
  BY <1>1 DEF SkipRetrieval, BeginRetrieval, Retrieve, CacheHit, CacheMiss
<1>2. CASE Refuse(t) \/ CallRaises(t) \/ Propose(t) \/ RejectShape(t)
  BY <1>2 DEF Refuse, CallRaises, Propose, RejectShape
<1>3. CASE TryRunCode(t) \/ SkipRunCode(t) \/ RunCodeReturns(t) \/ RunCodeFails(t)
  BY <1>3 DEF TryRunCode, SkipRunCode, RunCodeReturns, RunCodeFails
<1>4. CASE ClearFlag(t) \/ SetFlag(t) \/ WriteProof(t) \/ CompileProof(t)
  BY <1>4 DEF ClearFlag, SetFlag, WriteProof, CompileProof
<1>5. CASE Accept(t) \/ Repair(t) \/ GiveUpAttempt(t) \/ Diagnose(t)
  BY <1>5 DEF Accept, Repair, GiveUpAttempt, Diagnose, Judged
<1> QED
  BY <1>1, <1>2, <1>3, <1>4, <1>5 DEF Step

LEMMA JudgingNext == TypeOK /\ Judging /\ [Next]_vars => Judging'
<1> SUFFICES ASSUME TypeOK, Judging, [Next]_vars
             PROVE  Judging'
  OBVIOUS
<1>1. CASE \E t \in Threads : Step(t)
  <2>1. PICK t \in Threads : Step(t)
    BY <1>1
  <2>2. Settled(t)' /\ Faithful(t)'
    BY <2>1, JudgedOwn
  <2>3. ASSUME NEW s \in Threads \ {t}
        PROVE  Settled(s)' /\ Faithful(s)'
    <3>1. pc'[s] = pc[s] /\ current'[s] = current[s] /\ valid'[s] = valid[s]
          /\ answer'[s] = answer[s]
      BY <2>1, Elsewhere
    <3>2. /\ s \in overwritten => s \in overwritten'
          /\ pc[s] = "compiling" /\ s \notin overwritten' => proofFile' = proofFile
      BY <2>1, Replaced
    <3>3. Settled(s) /\ Faithful(s)
      BY DEF Judging
    <3> QED
      BY <3>1, <3>2, <3>3 DEF Settled, Faithful, Succeeded, Code
  <2> QED
    BY <2>2, <2>3 DEF Judging
<1>2. CASE Cooldown
  BY <1>2 DEF Cooldown, Judging, Settled, Faithful, Succeeded, Code, callVars, sharedVars
<1>3. CASE UNCHANGED vars
  BY <1>3 DEF vars, callVars, sharedVars, Judging, Settled, Faithful, Succeeded, Code
<1> QED
  BY <1>1, <1>2, <1>3 DEF Next

LEMMA JudgingAlways == Spec => []Judging
<1>1. Init => Judging
  BY DEF Init, Judging, Settled, Faithful, Succeeded, NoAnswer
<1> QED
  BY <1>1, JudgingNext, TypeCorrect, PTL DEF Spec

(* A success whose Proof.lean no other call replaced is about the very     *)
(* candidate Lean judged, through repairs, retries and changes of method.  *)
THEOREM VerdictsAreOwn == Spec => []SoundUnlessOverwritten
<1>1. Judging => SoundUnlessOverwritten
  BY DEF Judging, Faithful, SoundUnlessOverwritten
<1> QED
  BY <1>1, JudgingAlways, PTL

-----------------------------------------------------------------------------
(* The cache.                                                              *)

(* Every entry is the answer of a call that ended, and so is what a        *)
(* replayed answer repeats: answers of ended calls change no more.         *)
Genuine ==
  /\ \A c \in Claims : cache[c] # NoAnswer =>
       \E t \in Threads : pc[t] = "done" /\ claim[t] = c /\ cache[c] = answer[t]
                          /\ answer[t].kind \in {"success", "refused"}
  /\ \A t \in Threads : answer[t].replayed =>
       \E s \in Threads : s # t /\ pc[s] = "done" /\ claim[s] = claim[t]
                          /\ answer[t] = [answer[s] EXCEPT !.replayed = TRUE]

LEMMA Quiet ==
  ASSUME TypeOK, NEW t \in Threads, Step(t),
         ~(CacheHit(t) \/ Refuse(t) \/ Accept(t) \/ Diagnose(t))
  PROVE  answer' = answer /\ cache' = cache
BY DEF Step, SkipRetrieval, BeginRetrieval, Retrieve, CacheMiss, CallRaises, Propose, RejectShape,
       TryRunCode, SkipRunCode, RunCodeReturns, RunCodeFails, ClearFlag, SetFlag, WriteProof,
       CompileProof, Repair, GiveUpAttempt, callVars, sharedVars

LEMMA ClaimStays == ASSUME NEW t \in Threads, Step(t) PROVE claim' = claim /\ pc[t] \notin Ended
BY DEF Step, SkipRetrieval, BeginRetrieval, Retrieve, CacheHit, CacheMiss, Refuse, CallRaises,
       Propose, RejectShape, TryRunCode, SkipRunCode, RunCodeReturns, RunCodeFails, ClearFlag,
       SetFlag, WriteProof, CompileProof, Accept, Repair, GiveUpAttempt, Diagnose, At, Ended,
       callVars

LEMMA EndedStays ==
  ASSUME TypeOK, NEW t \in Threads, Step(t), NEW s \in Threads, pc[s] = "done"
  PROVE  s # t /\ pc'[s] = "done" /\ answer'[s] = answer[s]
BY ClaimStays, Elsewhere DEF Ended

LEMMA Repeats ==
  ASSUME TypeOK, Genuine, NEW t \in Threads, Step(t), NEW u \in Threads, u # t,
         answer'[u].replayed
  PROVE  \E s \in Threads : s # u /\ pc'[s] = "done" /\ claim'[s] = claim'[u]
                            /\ answer'[u] = [answer'[s] EXCEPT !.replayed = TRUE]
<1>1. answer'[u] = answer[u]
  BY Elsewhere
<1>2. PICK s \in Threads : s # u /\ pc[s] = "done" /\ claim[s] = claim[u]
                          /\ answer[u] = [answer[s] EXCEPT !.replayed = TRUE]
  BY <1>1 DEF Genuine
<1>3. pc'[s] = "done" /\ answer'[s] = answer[s] /\ claim' = claim
  BY <1>2, EndedStays, ClaimStays
<1>4. answer'[u] = [answer'[s] EXCEPT !.replayed = TRUE]
  BY <1>1, <1>2, <1>3
<1> QED
  BY <1>2, <1>3, <1>4

LEMMA GenuineStep ==
  ASSUME TypeOK, Genuine, NEW t \in Threads, Step(t)
  PROVE  Genuine'
<1>1. claim' = claim /\ pc[t] # "done"
  BY ClaimStays DEF Ended
<1>2. \A s \in Threads : pc[s] = "done" => s # t /\ pc'[s] = "done" /\ answer'[s] = answer[s]
  BY EndedStays
<1>3. \A s \in Threads \ {t} : answer'[s] = answer[s]
  BY Elsewhere
<1>4. CASE ~(CacheHit(t) \/ Refuse(t) \/ Accept(t) \/ Diagnose(t))
  <2>1. answer' = answer /\ cache' = cache
    BY <1>4, Quiet
  <2> QED
    BY <1>1, <1>2, <2>1 DEF Genuine
<1>5. CASE CacheHit(t)
  <2>1. cache' = cache
    BY <1>5 DEF CacheHit, sharedVars
  <2>2. answer'[t] = [cache[claim[t]] EXCEPT !.replayed = TRUE] /\ cache[claim[t]] # NoAnswer
    BY <1>5 DEF CacheHit, TypeOK
  <2>3. PICK s \in Threads : pc[s] = "done" /\ claim[s] = claim[t] /\ cache[claim[t]] = answer[s]
    BY <2>2 DEF Genuine, TypeOK
  <2>4. s # t /\ pc'[s] = "done" /\ claim'[s] = claim'[t]
        /\ answer'[t] = [answer'[s] EXCEPT !.replayed = TRUE]
    BY <1>1, <1>2, <2>2, <2>3
  <2>5. ASSUME NEW u \in Threads, answer'[u].replayed
        PROVE  \E r \in Threads : r # u /\ pc'[r] = "done" /\ claim'[r] = claim'[u]
                                  /\ answer'[u] = [answer'[r] EXCEPT !.replayed = TRUE]
    <3>1. CASE u = t
      BY <2>4, <3>1
    <3>2. CASE u # t
      BY <1>1, <1>2, <1>3, <2>5, <3>2, Repeats
    <3> QED
      BY <3>1, <3>2
  <2> QED
    BY <1>1, <1>2, <2>1, <2>5 DEF Genuine
<1>6. CASE Refuse(t) \/ Accept(t) \/ Diagnose(t)
  <2>1. pc'[t] = "done" /\ answer'[t].replayed = FALSE
    BY <1>6 DEF Refuse, Accept, Diagnose, At, Returns, TypeOK
  <2>2. \/ cache' = cache
        \/ /\ cache' = [cache EXCEPT ![claim[t]] = answer'[t]]
           /\ answer'[t].kind \in {"success", "refused"}
    BY <1>6 DEF Refuse, Accept, Diagnose, CachePut, sharedVars
  <2>3. ASSUME NEW c \in Claims, cache'[c] # NoAnswer
        PROVE  \E s \in Threads : pc'[s] = "done" /\ claim'[s] = c /\ cache'[c] = answer'[s]
                                  /\ answer'[s].kind \in {"success", "refused"}
    <3>1. CASE cache'[c] = cache[c]
      BY <1>1, <1>2, <2>3, <3>1 DEF Genuine
    <3>2. CASE cache'[c] # cache[c]
      <4>1. c = claim[t] /\ cache'[c] = answer'[t] /\ answer'[t].kind \in {"success", "refused"}
        BY <2>2, <3>2 DEF TypeOK
      <4> QED
        BY <1>1, <2>1, <4>1
    <3> QED
      BY <3>1, <3>2
  <2>4. ASSUME NEW u \in Threads, answer'[u].replayed
        PROVE  \E s \in Threads : s # u /\ pc'[s] = "done" /\ claim'[s] = claim'[u]
                                  /\ answer'[u] = [answer'[s] EXCEPT !.replayed = TRUE]
    <3>1. u # t /\ answer'[u] = answer[u]
      BY <1>3, <2>1, <2>4
    <3> QED
      BY <1>1, <1>2, <2>4, <3>1, Repeats
  <2> QED
    BY <2>3, <2>4 DEF Genuine
<1> QED
  BY <1>4, <1>5, <1>6

(* The formalization cache only ever replays a success or a refusal that   *)
(* a call for the same claim really ended with.                            *)
THEOREM CacheRepeatsAnswers == Spec => []CacheIsGenuine
<1>1. Init => Genuine
  BY DEF Init, Genuine, NoAnswer
<1>2. TypeOK /\ Genuine /\ [Next]_vars => Genuine'
  <2> SUFFICES ASSUME TypeOK, Genuine, [Next]_vars
               PROVE  Genuine'
    OBVIOUS
  <2>1. CASE \E t \in Threads : Step(t)
    BY <2>1, GenuineStep
  <2>2. CASE Cooldown \/ UNCHANGED vars
    BY <2>2 DEF Cooldown, vars, callVars, sharedVars, Genuine
  <2> QED
    BY <2>1, <2>2 DEF Next
<1>3. Genuine => CacheIsGenuine
  BY DEF Genuine, CacheIsGenuine
<1> QED
  BY <1>1, <1>2, <1>3, TypeCorrect, PTL DEF Spec
=============================================================================
