------------------------------ MODULE ToolGuard ------------------------------
(***************************************************************************)
(* The guard of src/src/agentic_prover.py around the tool calls of one     *)
(* proof attempt: AgenticToolTracker, TraceRecorder, apply_tactic and      *)
(* guarded_execute_function_calls().  The model decides which tools are    *)
(* called, in any order; the guard decides which calls run.                *)
(*                                                                         *)
(* A call is a tool and its arguments.  "goal" stands for lean_goal, which *)
(* only reads; "search" for the tools of AGENTIC_SEARCH_TOOLS; and         *)
(* "unregistered" for a name that pruning removed or that never existed.   *)
(***************************************************************************)
EXTENDS Naturals, Sequences, FiniteSets

CONSTANTS
  Tactics,       \* tactic blocks the model may apply
  Sorry,         \* the placeholder in the tactic region
  Blank,         \* a tactic block with nothing in it
  Garbled,       \* arguments apply_tactic() cannot be called with
  Queries,       \* arguments of the tools that read
  NoCall,        \* last_read_only_signature is None
  MaxTotal,      \* max_total_tool_calls
  MaxSearch,     \* max_search_tool_calls
  MaxReadOnly,   \* max_consecutive_read_only_calls
  MaxUnchecked   \* MAX_CONSECUTIVE_APPLY_WITHOUT_DIAGNOSTICS (5)

(* resolve_budget_config(): whatever preset and overrides a request names, *)
(* the budgets are positive.                                               *)
ResolvedBudget ==
  /\ MaxTotal \in Nat \ {0} /\ MaxSearch \in Nat \ {0}
  /\ MaxReadOnly \in Nat \ {0} /\ MaxUnchecked \in Nat \ {0}

ASSUME BudgetAssumption == ResolvedBudget
ASSUME TacticAssumption ==
  /\ Sorry \notin Tactics
  /\ {Sorry, Blank, Garbled} \intersect Tactics = {}
  /\ Blank # Garbled

VARIABLES
  tactic,    \* the controller's current tactic block
  attempts,  \* tactic_call_log of the agent
  pending,   \* pending_tactic_log_index, from 1; 0 for None
  tracker,   \* the counters that decide
  trace      \* the tool_call entries of the trace

guardVars == <<tactic, attempts, pending, tracker, trace>>

ApplyCall == [tool : {"apply_tactic"}, arg : Tactics \union {Blank, Garbled}]
ReadCall  == [tool : {"diagnostics", "goal", "search"}, arg : Queries]
Call == ApplyCall \union ReadCall \union [tool : {"unregistered"}, arg : Queries]
ASSUME CallAssumption == NoCall \notin Call

(* successful is None for "pending", True for "clean", False otherwise.    *)
AttemptState == {"pending", "clean", "errors", "superseded", "unresolved"}
Failed       == {"errors", "superseded", "unresolved"}
Attempt == [tactic : Tactics \union {Blank}, state : AttemptState]

Refused == {"unavailable", "duplicate", "unearned", "no_search_left", "unchecked"}
Said    == {"none", "clean", "errors", "written", "invalid", "garbled"}
TraceEntry == [tool : {"apply_tactic", "diagnostics", "goal", "search", "unregistered"},
          status : {"ran"} \union Refused, said : Said]

Tracker == [total : Nat, searches : Nat, blocked : Nat, unchecked : Nat,
            readOnly : Nat, last : Call \union {NoCall}]

GuardTypeOK ==
  /\ tactic \in Tactics \union {Sorry}
  /\ attempts \in Seq(Attempt)
  /\ pending \in 0 .. Len(attempts)
  /\ tracker \in Tracker
  /\ trace \in Seq(TraceEntry)

GuardInit ==
  /\ tactic = Sorry
  /\ attempts = <<>>
  /\ pending = 0
  /\ tracker = [total |-> 0, searches |-> 0, blocked |-> 0,
                unchecked |-> 0, readOnly |-> 0, last |-> NoCall]
  /\ trace = <<>>

-----------------------------------------------------------------------------
(* A mutant: a call that exhausts the budget is let through. *)
OutOfBudget_OffByOne(call) ==
  \/ tracker.total > MaxTotal
  \/ call.tool # "apply_tactic" /\ tracker.readOnly >= MaxReadOnly

(* A mutant: blocked calls do not wear the budget, and reading never ends. *)
OutOfBudget_NoLoopCheck(call) == tracker.total >= MaxTotal

(* The two ways a call ends the run: ToolBudgetExceededError. *)
OutOfBudget(call) ==
  \/ tracker.total >= MaxTotal
  \/ call.tool # "apply_tactic" /\ tracker.readOnly >= MaxReadOnly

(* A mutant: any attempt earns a search. *)
HasFailedAttempt_Any == attempts # <<>>

HasFailedAttempt == \E i \in 1 .. Len(attempts) : attempts[i].state \in Failed

(* A mutant: the circuit breaker opens one call late. *)
ShouldBlockApply_Late == tracker.unchecked > MaxUnchecked

ShouldBlockApply == tracker.unchecked >= MaxUnchecked

(* What the guard makes of a call within the budget: the checks in order.  *)
Status(call) ==
  CASE call.tool = "unregistered"                          -> "unavailable"
    [] call = tracker.last                                 -> "duplicate"
    [] call.tool = "search" /\ ~HasFailedAttempt           -> "unearned"
    [] call.tool = "search" /\ tracker.searches >= MaxSearch -> "no_search_left"
    [] call.tool = "apply_tactic" /\ ShouldBlockApply      -> "unchecked"
    [] OTHER                                               -> "ran"

Record(call, status, said) ==
  trace' = Append(trace, [tool |-> call.tool, status |-> status, said |-> said])

(* A call that does not run is answered with a warning: note_blocked_tool() *)
(* leaves the consecutive counts and the last signature as they are.       *)
Block(call) ==
  /\ Status(call) # "ran"
  /\ tracker' = [tracker EXCEPT !.total = @ + 1, !.blocked = @ + 1]
  /\ Record(call, Status(call), "none")
  /\ UNCHANGED <<tactic, attempts, pending>>

(* A mutant: the attempt before stays unresolved. *)
Superseded_Kept == attempts

(* note_tactic_attempt(): an attempt nobody checked counts as failed. *)
Superseded ==
  IF pending = 0 THEN attempts
  ELSE [attempts EXCEPT ![pending].state = "superseded"]

(* apply_tactic() notes the attempt, then rewrites the working file, unless *)
(* the block is blank; arguments it cannot take never reach it.            *)
Apply(call) ==
  /\ call.tool = "apply_tactic" /\ Status(call) = "ran"
  /\ tracker' = [tracker EXCEPT !.total = @ + 1, !.unchecked = @ + 1,
                                !.readOnly = 0, !.last = NoCall]
  /\ IF call.arg = Garbled
     THEN UNCHANGED <<tactic, attempts, pending>>
     ELSE /\ attempts' = Append(Superseded, [tactic |-> call.arg, state |-> "pending"])
          /\ pending' = Len(attempts) + 1
          /\ tactic' = IF call.arg = Blank THEN tactic ELSE call.arg
  /\ Record(call, "ran", CASE call.arg = Garbled -> "garbled"
                           [] call.arg = Blank   -> "invalid"
                           [] OTHER              -> "written")

(* Diagnostics of any file: an answer that can be read resolves the pending *)
(* attempt; one that cannot, or an error, counts as a check all the same.  *)
Diagnose(call) ==
  /\ call.tool = "diagnostics" /\ Status(call) = "ran"
  /\ \E said \in {"none", "clean", "errors"} :
       /\ Record(call, "ran", said)
       /\ IF said = "none" \/ pending = 0
          THEN UNCHANGED <<attempts, pending>>
          ELSE /\ attempts' = [attempts EXCEPT ![pending].state = said]
               /\ pending' = 0
  /\ tracker' = [tracker EXCEPT !.total = @ + 1, !.unchecked = 0,
                                !.readOnly = @ + 1, !.last = call]
  /\ UNCHANGED tactic

Read(call) ==
  /\ call.tool \in {"goal", "search"} /\ Status(call) = "ran"
  /\ tracker' = [tracker EXCEPT !.total = @ + 1, !.readOnly = @ + 1, !.last = call,
                   !.searches = IF call.tool = "search" THEN @ + 1 ELSE @]
  /\ Record(call, "ran", "none")
  /\ UNCHANGED <<tactic, attempts, pending>>

(* The calls that wait for the Lean server; the others return at once.     *)
Waits(call) == call.tool # "apply_tactic" /\ Status(call) = "ran"

GuardedCall(call) == Block(call) \/ Apply(call) \/ Diagnose(call) \/ Read(call)

(* finalize_pending_attempt(): nothing stays pending in a result. *)
Finalize ==
  /\ attempts' = IF pending = 0 THEN attempts
                 ELSE [attempts EXCEPT ![pending].state = "unresolved"]
  /\ pending' = 0
=============================================================================
