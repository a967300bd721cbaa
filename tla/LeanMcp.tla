------------------------------- MODULE LeanMcp -------------------------------
(***************************************************************************)
(* The formalizer's use of the Lean MCP server: the circuit breaker of     *)
(* src/src/mcp_runtime.py, one per capability; lean_run_code as            *)
(* src/src/lean_runner.py calls it; and the retrieval of                   *)
(* src/src/formalization_search.py with its cache.  Threads share all of   *)
(* it without a lock.                                                      *)
(*                                                                         *)
(* A deadline in the future is a breaker that is open, and is kept as the  *)
(* failure that opened it; time passes when Cool does.  Every session is a *)
(* fresh process, so sessions share nothing else.                          *)
(***************************************************************************)
EXTENDS Naturals, Sequences, FiniteSets

CONSTANTS
  Plans,        \* search plans that retrieval can be asked for
  SearchLimit   \* FORMALIZATION_MCP_SEARCH_CACHE_LIMIT

ASSUME SearchLimitAssumption == SearchLimit \in Nat \ {0}

VARIABLES
  cooling,  \* the last failure, while _FORMALIZATION_MCP_DISABLED_UNTIL lies ahead
  found     \* keys of _FORMALIZATION_MCP_SEARCH_CACHE, oldest first

mcpVars == <<cooling, found>>

Capability == {"validation", "retrieval"}

(* What an exception says.  A time-out and an MCP error have codes of their *)
(* own, which lead nowhere else than "something else" does.                *)
Texts == {"no valid project path", "something else"}

McpTypeOK == cooling \in [Capability -> Texts \union {"none"}] /\ found \in Seq(Plans)

McpInit == cooling = [c \in Capability |-> "none"] /\ found = <<>>

Available(c) == cooling[c] = "none"

MarkFailure(c, text) == cooling' = [cooling EXCEPT ![c] = text]
MarkSuccess(c)       == cooling' = [cooling EXCEPT ![c] = "none"]

(* The cooldown passes. *)
Cool(c) ==
  /\ ~Available(c)
  /\ cooling' = [cooling EXCEPT ![c] = "none"]
  /\ UNCHANGED found

-----------------------------------------------------------------------------
Cached(plan) == \E i \in 1 .. Len(found) : found[i] = plan

(* The retrieval is skipped: no plan, breaker open, or answer at hand. *)
Skips(plan) == plan \notin Plans \/ ~Available("retrieval") \/ Cached(plan)

(* The answer, tool errors included, is kept in the place of the oldest.   *)
Kept(plan) ==
  LET room == IF Len(found) >= SearchLimit THEN Tail(found) ELSE found
  IN  IF \E i \in 1 .. Len(room) : room[i] = plan THEN room ELSE Append(room, plan)

(* Some hits, or no error: the breaker closes.  Errors only: it stays.     *)
SearchReturns(plan) ==
  /\ MarkSuccess("retrieval") \/ UNCHANGED cooling
  /\ found' = Kept(plan)

(* The session, its primer or its time limit raises. *)
SearchFails == MarkFailure("retrieval", "something else") /\ UNCHANGED found

-----------------------------------------------------------------------------
(* The codes the formalizer makes of a reason.                             *)
Codes == {"no_project_path", "cooldown", "unavailable"}

(* _normalized_validation_fallback_reason() looks for phrases; no code      *)
(* contains one, so a code that is normalized again loses what it said.    *)
Normalized(reason) ==
  CASE reason = "none"                  -> "none"
    [] reason = "no valid project path" -> "no_project_path"
    [] reason = "temporarily disabled"  -> "cooldown"
    [] OTHER                            -> "unavailable"

(* What formalization_mcp_available() says of an open breaker quotes the    *)
(* failure that opened it, and that phrase is looked for first.            *)
Blocked ==
  IF cooling["validation"] = "no valid project path" THEN cooling["validation"]
  ELSE "temporarily disabled"
=============================================================================
