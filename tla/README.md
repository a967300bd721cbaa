# LeanEcon: specifications and proofs

TLA+ specifications of the LeanEcon service (`src/src/*.py`), the TLC
configurations that check them on small instances, and TLAPS proofs of their
safety properties for every instance. LeanEcon takes an economic claim,
formalizes it as a Lean theorem with a language model, proves it with an agent
that drives a Lean MCP server, and lets Lean check the result.

Run everything from this directory, a run as

    tlc -workers 2 -config VerifyService_streams.cfg MCVerifyService

and the proofs with `tlapm X_proofs.tla`, for X one of VerifyService, Pipeline,
ProverLoop, Formalizer, Workspace and Benchmark, and `tlapm SumTheorems.tla`.
`PROJECT.json` lists the runs, the mutants
(a plausible bug in one definition, which the property must catch), the source
lines each definition models, the hazards of the code with the properties aimed
at them, and the theorems.

## 1. Inventory

| Part | State it keeps | Operations | What makes it correct |
|---|---|---|---|
| Job store, `job_store.py` | jobs, subscriber queues, one lock | create, update_status, record_progress, subscribe, unsubscribe, publish, complete, fail, get with the expiry sweep | a record is whole when the lock is free; one outcome per job; no queue outlives its stream |
| Verify service, `api.py` | the store; a background thread per job | POST /verify, GET /jobs/{id}, GET /jobs/{id}/stream | polls and streams see a job only move forward and are told the outcome it has |
| Result and formalization caches, `result_cache.py` | a dictionary, its JSON file, a lock | get, put, clear, load, save | only real answers; bounded; memory and file agree |
| Pipeline, `pipeline.py` | none of its own | run_pipeline, formalize_claim, prove_and_verify | replayed results are proved results; every return is logged |
| Run log, `eval_logger.py`, and `/metrics` | `runs.jsonl` | log_run, metrics | each record is a line; the counts add up |
| Agentic prover, `agentic_prover.py`, `proof_file_controller.py` | working file, tool tracker, log of attempts, trace, budgets, conversation | fast path, agent loop, guarded tool calls, interruption | budgets bound the calls; attempts are judged by their own diagnostics; a result is never better than what Lean accepted |
| Formalizer, `formalizer.py` | attempt loop, the formalization cache, a process-wide flag | formalize, sorry_validate, repairs, classify_claim | a theorem that is returned was validated; the attempts are bounded |
| Formalization search, preambles | retrieval cache; a static catalogue | search plans, retrieval, contexts | the retrieval is skipped or fails without stopping a formalization |
| Lean MCP runtime, `mcp_runtime.py`, `lean_runner.py` | a circuit breaker per capability | mark failure and success, available, sessions, run_code with one retry | an open breaker is respected and closes again |
| Lean verifier, `lean_verifier.py` | files in the Lean workspace, saved outputs | write, compile, verify, save, clean up | a check reads the file it was asked about; nothing is left over |
| Outcome codes, explainer | none | error codes, explain with a time limit | exactly one code per result |
| Provider calls, `leanstral_utils.py`, telemetry | none | call_leanstral with retries | bounded retries; calls are charged once |
| Benchmark harness, evaluation metrics | snapshot files | offline runs over lanes and repetitions | sums agree with their records |

How they interact. `POST /verify` stores a job and hands it to a thread of the
server's pool; the thread calls `run_pipeline()`, whose log callback updates the
store and publishes events into the queues of the streams; other threads answer
polls and streams from the same store. All pipeline runs of a process share the
result cache, the run log, the MCP breakers, the lean_run_code flag and the Lean
workspace; scripts outside the API share the workspace too. `/metrics` reads the
log, `DELETE /cache` empties the cache. The benchmark calls the formalizer and
`run_pipeline()` in a process of its own.

What is hard: dictionaries that are read after the lock is released; events
dropped by full queues; jobs forgotten while they run; a cache file truncated in
place; an agent that may call any tool in any order; a time limit that strikes
at any await; one file that several validations write; breakers and flags that
threads set and clear in turn; files that outlive a crash.

## 2. Plan

Done, in this order:

1. `JobLifecycle`, `JobStore`, `VerifyService`: the asynchronous half of the
   service and its abstract specification.
2. `ResultCache`, `Pipeline`: the cache with its file, concurrent runs, the log,
   crashes.
3. `ToolGuard`, `ProverLoop`, `ProofAttempt`: the agent, and what it promises.
4. `LeanMcp`, `Formalizer`: retrieval, breakers, validation, the attempt loop.
5. `Workspace`: the files that checks and sessions share, and the clean-up.
6. `Benchmark`: the harness over formalizer and pipeline, with both caches.

Each has a module of proofs, and every safety property of a passing run is a
theorem. What could still be added: the retries of one provider call as a
component.

## 3. The modules

### JobStore, VerifyService, JobLifecycle

`JobStore` holds the state of the class (`_jobs` as `present` and `rec`,
`_subscribers` as `subs`, `_lock` as `lock`, the queues as `queue`) and its
methods as operators. The dictionary of a job is shared by everyone `get()` gave
it to and outlives its entry, so `rec` keeps it after the sweep.

`VerifyService` has the threads. A step is what a thread does between two points
where another can see or change shared state. Methods that only take the lock
are one step. `update_status`, `complete` and `fail` write several keys that
readers look at without the lock, so they are one step per key, with `lock` held
throughout.

| Actions | Code |
|---|---|
| `Submit` | `verify_endpoint` after validation |
| `StartKept`, `StartForgotten`, `Started` | `update_status(RUNNING)` |
| `Log`, `CopySubscribers`, `OfferOne`, `Published` | `on_log`: record_progress, publish |
| `FinishKept`, `FinishForgotten`, `OutcomeWritten`, `TimesWritten` | `complete` or `fail`, then publish |
| `PollGet`, `ReadResult`, `ReadStatus`, `PollAnswer` | `get_job_status` |
| `StreamOpen`, `StreamCheck`, `StreamSubscribe`, `StreamAlreadyDone` | `stream_job_events` |
| `StreamBegin`, `StreamReceive`, `StreamTimeout`, `StreamGet`, `StreamReread`, `StreamFinal`, `StreamClose` | `event_generator` |
| `Disconnect` | the client leaves: a generator that was started runs its finally clause, one that was not runs nothing |
| `TimePasses` | the job's age passes the time to live |

`StartForgotten` and `FinishForgotten` are the paths of a job that the sweep
removed: the methods do nothing, and the worker goes on. Abstracted: the text of
messages, timestamps (whether they are set is kept), stage timings, what the
pipeline computes. An event carries its number, so that order can be stated. An
exception's text may be empty, since the streams leave an empty error out.

`JobLifecycle` is the promise: queued, running, one final outcome; the service
may forget a job at any time; a stream is told at most one outcome, a true one.
`VerifyService` implements it with the status in the record as the phase while
the store has the job, and the place of its worker afterwards.

### ResultCache, Pipeline

`ResultCache` is `_JsonBackedCache` with the key and filter of `ResultCache`: the
dictionary in insertion order, the file (absent, torn or whole), the lock, and
where `_save()` stands. `_save()` is two steps, the truncation and the dump,
because a process can die in between, and may fail in either when `DiskErrors`
is on. `older` is a history variable for the one property that needs it.

`Pipeline` is `run_pipeline()` with `use_cache` on, in several threads:
`Begin`, `Hit` or `Miss`, `Formalized` or `NotFormalized`, `Proved` or
`NotProved`, `Stored`, `LogRun`; `Raises` for an exception nobody catches;
`ClearCache` for the endpoint; `Restart` for the end of the process at any step
and a new one that loads the file. An append to the log is one write, so that
appends do not interleave; with disk errors it may stop short. The service always
passes a theorem, and then the formalization cannot fail; both cases are in the
model because the function has other callers.

### ToolGuard, ProverLoop, ProofAttempt

`ToolGuard` is what stands around the tool calls of one attempt. The model may
make any call at any time; `Status` is the guard's decision, its checks in their
order, and `Block`, `Apply`, `Diagnose` and `Read` what the call then does to the
tracker's counters, to the log of tactics (`attempts`, `pending`), to the working
file's tactic and to the trace. All goal and search tools that only read are one
each; a tactic is a model value, apart from a blank block and arguments that
apply_tactic() cannot take.

| Actions of `ProverLoop` | Code |
|---|---|
| `Initialize`, `NoPlaceholder` | the working file, or its ValueError |
| `TryFast`, `FastExhausted` | the local fast path, then the placeholder again |
| `OpenSession`, `OpenFails`, `NoApiKey` | the environment, the Lean session and its tools |
| `Reply`, `Backoff`, `RequestFails`, `AppendCap` | start and append with their retries, and the cap |
| `Handle`, `BudgetStop` | `guarded_execute_function_calls()` |
| `WallClock` | `asyncio.wait_for()` around the conversation |
| `CloseSession` | leaving the session, which may raise |
| `Conclude`, `ConcludeRaises`, `Interrupted` | the final verification and `_build_interrupted_run_result()` |

The calls of one response are chosen when they are handled, since nothing looks
at them before. `accepted` is a history: what the compiler accepted.
`ProofAttempt` is the promise to callers: the attempt ends, calls a theorem
proved only with a proof the compiler accepted during it, and leaves no working
file. `ProverLoop` implements it.

### LeanMcp, Formalizer

`LeanMcp` has the two circuit breakers (an open one is kept as the failure that
opened it, and `Cool` is the passing of the cooldown), the retrieval with its
cache, and the codes of fallback reasons. `Formalizer` runs `formalize()` in
several threads:

| Actions | Code |
|---|---|
| `SkipRetrieval`, `BeginRetrieval`, `Retrieve` | `build_formalization_context()` and the MCP search |
| `CacheHit`, `CacheMiss` | `formalization_cache.get()` |
| `Refuse`, `CallRaises`, `Propose`, `RejectShape` | a call of the model and what its answer is |
| `TryRunCode`, `SkipRunCode`, `RunCodeReturns`, `RunCodeFails`, `ClearFlag`, `SetFlag` | `sorry_validate()` by lean_run_code |
| `WriteProof`, `CompileProof` | its fallback, the one file Proof.lean |
| `Accept`, `Repair`, `GiveUpAttempt`, `Diagnose` | what follows a validation, and the last diagnosis |

A candidate is named by its thread and number, so that a verdict can be compared
with the candidate it was about: `answer.checked` and `overwritten` are
histories for that. Every run_code that raises falls into one of two texts, the
missing project path and the rest. An empty plan never reaches the server.

### Workspace

Files are named by their owners, since names hold a uuid. A check (`verify()` or
the compile endpoint) writes, compiles, asks for axioms, unlinks, and a verify
saves its code and report (`SaveCode`, `SaveReport`); an agent session opens,
rewrites and removes its file, in two steps as `cleanup()` does. `Crash` kills
the API with all the calls it serves; `StartUp`, `RemoveOne` and `Serve` are the
clean-up of `app_lifespan()`. Work in `Outside` belongs to scripts, which share
the directory and survive; a file of `Named` has a name of the client's. That
the directory exists and how Lean is called are left out.

### Benchmark

`build_snapshot()`: cases, lanes and repetitions in their order (`SkipLane`,
`BeginAttempt`, `NextPlace`, `AfterRun`), each attempt through the formalizer, the
grader and `run_pipeline()`, whose own steps are one action per outcome here.

`FirstStep` says where an attempt begins. The stub goes to `run_pipeline()` as a
theorem. Raw Lean goes there as it is: when the result cache does not have it,
`formalize_claim()` passes on what looks like Lean (`Marked`: it has "import
Mathlib", or ":= by" and "sorry") and has the rest formalized as if it were a
claim, so that such an attempt can fail in the formalizer. Its code is one of
verification all the same, since only the two claim lanes ask
`formalize_error_code()` (`Unformalized`).

The attempt under way (`Trial`) has the calls it made, a history, beside those
its telemetry reports. `ProverRuns` are the ways a run of the prover can go, with
what each makes and reports: nothing where the fast path proves the theorem or
no session opens; everything that ended; not the request in flight when the wall
clock cancels it, since its CancelledError is no Exception
(agentic_prover.py:1002); nothing at all after the provider's empty-tool-cycle
error. An attempt that is over (`Attempt`, `Entry`) has what the snapshot sums up,
with the stage and the code that `FailureStage` and `ErrorCode` make of the errors
it logged. `Summary` and `Aggregate` are the harness's sums.

Both caches are kept on disk, so with `--use-cache` they may hold anything at the
start. A case's stub and its raw Lean are taken to be the same text, as they are
in the benchmark files of the repository, and one key of the result cache. A
claim has one theorem, as the formalization cache sees to when it is on (without
the caches nothing is replayed). An API key is taken to be set, so that the
grader makes its call. A case that a lane does not apply to has no attempts, so
that `AllAttempts` need not leave it out. Percentiles, costs, the sums of the
telemetry and Markdown are left out.

## 4. The runs

| Run | Instance | Shows |
|---|---|---|
| `streams` | 1 job, 2 streams, queue of 2, 2 log entries | streams are told the truth, in order; no queue leaks |
| `polls` | 1 job, 1 stream, 1 poller, queue of 1, 2 log entries | no result with a wrong status; answers never go back; `JobLifecycle` implemented, with its fairness; connected streams end |
| `cache` | 3 claims, 4 runs, cache of 2, a clear, a restart | genuine, bounded, durable cache; returned runs are in the metrics |
| `disk` | 2 claims, 2 runs, cache of 2, a clear, a restart, disk errors | the metrics add up; every run ends and the lock is given back |
| `agent` | 1 tactic, 1 query, 5 calls, 1 search, 2 reads, 2 unchecked, 1 fast tactic, 3 rounds of at most 2 calls, 1 retry | budgets, breaker, earned searches, judged attempts, true answers; `ProofAttempt` implemented |
| `formalize` | 2 threads, 1 claim with a plan, cache of 1 search | verdicts are about their candidates; genuine cache; a flag that stays; every call ends |
| `files` | 2 verifies, 1 compile with a name, 2 sessions, 2 of these outside the API, 1 crash, 2 seconds | who can lose a file, what a crash leaves, reports beside their code |
| `suite` | 2 cases of two tiers, one with Lean that looks like Lean and one without, 2 repetitions, both modes, cache on and off, any contents of the caches | attempts explained, charged and replayed rightly; sums add up; it ends |

The bounds. Streams and pollers act on one job each, and share no state with
those of another job except the lock, which every method gives back before it
returns; so two streams show every interference between them (the list of
subscribers that changes while it is being offered an event) and one poller every
interference with the worker. A queue of one or two entries is filled by one or
two log entries, which makes the dropped event happen. In the cache, two entries
and three claims make an eviction happen while two runs race on one claim and a
fourth replays it, and one restart may come at any step. In the agent, five calls
are more than every other budget, so that each of them is exhausted first in some
behaviour, with a duplicate, a blank and a garbled call among them; a second
tactic would only rename. Two formalizations of one claim are what it takes for
one file, one flag and one cache entry to be fought over, each with all its three
validations. Two verifies in two seconds may save in the same one or in
different ones. In the suite (327,980 states), one case goes through two lanes
that share a cache entry, in the second of which its Lean is formalized; the other
has its claim formalized and its Lean taken as it is; and the second repetition is
the one that can be replayed. A claim that looks like Lean is not in the instance;
the theorems cover it. `MaxLog`, `MaxRestarts`, `MaxSeconds`, `MaxCrashes`
and `BatchSize` are the caps that the code does not have.

Jobs, streams, runs, requests, attempts and benchmarks are used once each, so
these systems do stop, and their runs say CHECK_DEADLOCK FALSE; `torn_poll`
checks for deadlock. Symmetry is used only in `streams` and `cache`, which check
only invariants. Between them the passing runs take every action and every
disjunct.

### Where the code and its documents disagree

Each of these runs checks one sentence and ends in a counterexample.

| Run | Sentence | What the code does |
|---|---|---|
| `stream_end` | API.md:346: "The stream closes automatically after the job completes or fails." | A job's age counts from its creation. Once the sweep has removed a running job and its subscribers, its streams get keepalives for ever. |
| `torn_poll` | API.md:291: "`result`: final verify payload when completed" | A poll that overlaps `complete()` can say completed with no result; the next poll has it. |
| `restart` | DEPLOYMENT.md:88: mount the state "if you want the verified-result cache ... to persist across container restarts" | True unless the process is killed inside `_save()`, which loses every entry. |
| `proof_file_race` | formalizer.py:912: "success (bool): True if sorry-validation passed" | Two validations that fall back at once share Proof.lean: one may be told the verdict on the other's theorem, be returned as a success and be cached. |

Six more were met while modelling and are in the models, without a run of their own:
the cache evicts first in, first out, where result_cache.py:48 says "shallow LRU
eviction"; a run that raises is not logged (pipeline.py:584), where eval_logger.py:4
says "structured logging for every pipeline run"; a stream opened inside `fail()`
can announce a failure without its error (api.py:1144), which API.md:365 says is
present; the branch for the provider's empty-tool-cycle error
(agentic_prover.py:1950) builds its result without the calls that were answered
before, where API.md:321 says that `provider_telemetry` has the proving calls; a raw
Lean attempt that failed in the formalizer is recorded with `formalization_success`
true and without the formalizer's telemetry (benchmark_harness.py:643), its stage
notwithstanding; and formalizer.py:985 normalizes a fallback reason that is a code
already, which turns every one into `unavailable` (`Recorded`).

### Hazards that no property covers

- A client that leaves before the first iteration of its stream leaves its queue
  registered (api.py:1177). It goes with the job when that expires, if it was
  registered before; `NoLeakedSubscriber` excepts it.
- The empty-tool-cycle error loses the telemetry of the prover's calls
  (agentic_prover.py:1950). `CallsCharged` bounds what is lost, and with what.
- A line that a full disk tore is glued to the next one, and both are lost to
  `/metrics` (eval_logger.py:55). `ReturnedRunsCounted` is checked without disk
  errors; `MetricsAddUp` with them, but it looks at whole lines only.
- A BaseException in a worker (api.py:850) leaves its job running; nothing in
  the code raises one there.
- An append that was taken although its answer was lost is sent again by the
  backoff (agentic_prover.py:947). What the provider then keeps is the
  provider's.
- An answer of lean_run_code that cannot be parsed has no error in it and so
  counts as valid (lean_runner.py:170). `RunCodeReturns` has that outcome; whether
  it is right is a matter of the tool's format.
- A success that started before a failure closes the breaker the failure opened
  (mcp_runtime.py:115). It costs one more failing session.
- `SaveFails`: an output that cannot be written loses a verdict that was reached.
- The answer of an explainer that timed out is dropped, its thread goes on.

## 5. Fairness

`VerifyService`: weak fairness of each job's worker and of each stream's own
steps. The workers run in the server's thread pool; whoever holds `_lock` only
assigns and releases; the pipeline returns or raises, as `ProverLoop` and
`Formalizer` show for its two halves. Nothing is assumed of clients (`Submit`,
polls, `StreamOpen`, `Disconnect`) or of time.

`Pipeline`: weak fairness of each run once it has begun and of the save in
progress. The lock need not be fair: each run holds it for at most one save.

`ProverLoop`: weak fairness of the steps the code takes by itself (`Proceeds`:
local ones, and calls with time limits of their own), of the wall clock, and of
the handling of a call that does not wait for the Lean server. None for answers
of the provider or of the server: that the attempt ends although they stay
silent is what the wall clock is for, and `KeepsPromises` would be empty if they
were assumed to answer.

`Formalizer`: weak fairness of each thread. Lean and its MCP server are called
with time limits; a call of the provider is assumed to return or to raise, since
`formalize()` has no clock of its own. None for the cooldown: calls end whether
or not a breaker ever closes.

`Benchmark`: weak fairness of its one thread, with the same assumption.
`Workspace` has no liveness property: its clean-up needs a restart, which nothing
promises.

## 6. The proofs

All theorems are proved for every value of the constants, from the assumptions
named in the modules they extend, which TLC evaluates on every run.

`VerifyService_proofs` (any number of jobs, streams, pollers, stages; assumptions
`QueueSizeAssumption`, `NobodyAssumption`, `MaxLogAssumption`): `Invariance`, and
from it `TypeCorrect`, `ResultsAreCompleted`, `StreamsToldTheTruth`,
`NoSubscriberLeaks`, `RecordsStayWhole`, `OutcomesAreFinal`, `EventsInOrder`,
`AnswersOnlyAdvance`; and `Implementation`, the safety part of the refinement of
`JobLifecycle`. The properties are not inductive; `Inv` adds

- `LockHeld`: the lock is held exactly by a worker between its first and last
  write, which is why a sweep or another worker cannot come in between;
- `RecordMatches`: the record of a job follows from the place of its worker;
- `EventMatches`, `Told`: a complete event, wherever it is, has the outcome of
  its job, and exists only once there is one;
- `DraftMatches`: what a poller has read so far bounds what it can read next;
- `Linked`, `StreamMatches`: queues, subscriptions and the streams' own notes
  name the same job.

Two theorems have an invariant of their own on top. `Sequenced`, for `InOrder`,
says that a job's latest event has the latest number (`Numbered`) and that a
stream which is still to be offered that event has seen, and queued, only
earlier ones (`Following`): an event may be dropped, but the next one cannot
overtake it, since a worker offers one event to all before it makes another.
`AnswersBound`, for the action property `AnswersAdvance`, bounds the last answer
and the draft of the next by the job's record, which only moves on.

`Pipeline_proofs` (any claims, runs and clear requests, any cache size above
zero, with and without disk errors, any number of restarts): `Invariance`,
`TypeCorrect`, `OnlyGenuineResults`, `ReplaysAreReal`, `NeverTooLarge`,
`SavedIsLoaded`, `MetricsAlwaysAddUp`, `EveryReturnIsCounted`. The invariant adds `LockedWhileSaving` (no run changes the
dictionary between a change and the end of its save) and `Undecided` (an entry,
which is somebody's answer, cannot be spoilt by a later answer of the same run). The metrics rest on
`LogIsCoherent` (no line is a success and a refusal, or a replay and no success)
and on `LogIsComplete` (without disk errors, the log has as many lines, all
whole, as runs have returned, and each of their answers).

`ProverLoop_proofs` (any budgets, tactics and queries; `BudgetAssumption`,
`TacticAssumption`, `CallAssumption`, `LoopAssumption`, `NoAnswerAssumption`):
`TypeCorrect`, `BudgetsAlwaysKept`, `ChecksAlwaysKeepUp`, `ReadingAlwaysEnds`,
`SearchesAlwaysEarned`, `AttemptsAlwaysJudged`, `AnswersAlwaysTrue`,
`NeverLeftover`, and `AttemptKept`, the safety part of the refinement of `ProofAttempt`. The properties speak of the
whole trace while the guard looks only at counters and at its own log.
`CountersAgree` says that the two consecutive counters are the numbers of
entries since the last check and since the last tactic, and that their bounds
hold at every earlier place; lemmas say how these sets change with one more
entry. `LogBacked` says that the log shows a failure only where the trace does,
which is what a search is allowed for. `NoLeftover` is inductive with the types: only
a handled call writes a tactic once the fast path is over, and the trace keeps
every call. `AttemptsJudged` says how the k-th attempt of the log ended from what
followed the k-th proposal of the trace; `LogIsJudged` adds the link between the
two that the code relies on and never checks: while the run lasts, the one
pending attempt is the only proposal that nothing has settled.

`Formalizer_proofs` (any threads, claims, plans and search limit;
`PlanAssumption`, `SearchLimitAssumption`): `TypeCorrect`, `VerdictsAreOwn`,
`CacheRepeatsAnswers`, `NobodyRevivesIt`. That candidates and validations stay
within three needs `Budget`, which relates the two counters to the attempt and
the place of each call: a repair is taken only on the first one.
`Judging` has `Settled` (a call has no answer before it ends) and `Faithful` (a
call whose Proof.lean nobody replaced compiles and judges its latest candidate);
`Replaced` is the lemma that another call can disturb that only by a write, which
`overwritten` records. `Genuine` strengthens the cache property with "by a call
that has ended": answers of ended calls change no more.

`Workspace_proofs` (any checks, sessions, crashes and clock; `WorkAssumption`,
`BoundAssumption`): `TypeCorrect`, `NobodyServedIsRobbed`, `NoOrphans`,
`ReportsMatch`. `Stopped` is the heart of the first: while the API does not serve,
none of its requests is under way, so that what the clean-up removes from
somebody is a script's; `FilesKept` follows it to the checks and sessions that
miss their file. `Listed` and `Tidy` say that a file a crash left is on the list
until it is removed; `Stamped` that whatever stands under a second was saved in it.

`Benchmark_proofs` (any suite of cases with at least one input each, any tiers
and number of repetitions; `SuiteAssumption`, `RepetitionsAssumption`):
`FailuresAlwaysExplained`, `CallsAlwaysCharged`, `ReplaysAlwaysEarned`,
`SnapshotsComplete`, `SnapshotsAddUp`. `Typed` and `UnderWay` follow one attempt:
which errors it can have logged where it stands, so that the last one that is no
wrapper's is its own; that only a text that does not look like Lean can be in the
formalizer (`Fallible`); and which calls can be missing from its telemetry once it
is judged (`Charged`), before which it reports all it made (`Unproved`). A recorded
attempt is `Explained` for good. `InTurn` says how many attempts each case and lane has, from
the place that is due; at the end that is all of them. `CacheTrue` says that the
result cache holds what it held and what has passed since: an attempt is a replay
because something earlier passed, and the lane with the raw Lean, which shares its
theorem with the one of the stub, comes after it; raw Lean is in the formalizer
only when the cache does not have it. `HitsSucceed` is what makes
replays a part of the successes.

`SumTheorems` has the induction that the sums need. The library's induction
theorems take an operator, which no prover here instantiates; but a least
counterexample is an element of a set (`LeastOf`, from the well-foundedness of
the naturals), which gives induction over sets of numbers (`AllNumbers`). With it,
`FlattenedHits` says what `FlattenSeq()` makes of sequences of sequences, and
`SumOfClasses` that a fold over the classes of a finite set counts the set.
`SnapshotsAddUp` turns every sum of a summary into the size of a set of attempts
(`Found`) by the first, and the sums over tiers into classes by the second.
`ProverLoop_proofs` takes its least settling entry from there too.

Only model-checked: the liveness properties (`StreamEnds`, `RunsEnd`,
`FormalizationsEnd`, `BenchmarkEnds`, and the fairness parts of the two
`KeepsPromises`), which are out of the prover's reach, and the counterexamples of
the four runs that expect one.

## 7. Not modelled

- Prompts, preamble texts and their selection, the classification of claims, the
  shape checks and repairs of a theorem as texts: pure functions on strings whose
  outcomes the models leave open.
- The explainer and the retries of one provider call: a single call without
  shared state, which the models let return or raise.
- Request validation beyond its effect (a refused request creates no job),
  percentiles, prices, rendering of reports, loading of old snapshots, scripts.
- The Lean code of the workspace. Lean, its MCP server, the provider and the web
  framework are external: the last is taken to run each request in a thread of
  its own and to close a generator when its client leaves.
- Agent sessions have a server process each and share only the workspace, so that
  one attempt at a time is enough in `ProverLoop`; what they share is in
  `Workspace`.
