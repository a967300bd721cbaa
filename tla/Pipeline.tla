------------------------------ MODULE Pipeline ------------------------------
(***************************************************************************)
(* run_pipeline() of src/src/pipeline.py, run by several worker threads at *)
(* once with use_cache on, as the service does; the result cache and the   *)
(* run log they share; DELETE /cache; and restarts of the process.         *)
(*                                                                         *)
(* What the formalizer and the prover answer is left open here.            *)
(***************************************************************************)
EXTENDS ResultCache, FiniteSets

CONSTANT MaxRestarts   \* bound on the restarts of the process

ASSUME MaxRestartsAssumption == MaxRestarts \in Nat

VARIABLES
  rpc,       \* where each run stands
  claim,     \* cache_key_input of each run, as a key
  answer,    \* what the run returns
  log,       \* runs.jsonl: what each append left in it
  cpc,       \* where each DELETE /cache request stands
  restarts

runVars == <<rpc, claim, answer, log>>
vars    == <<cacheVars, runVars, cpc, restarts>>

RunPC == {"idle", "looking", "formalizing", "proving", "storing", "logging",
          "done", "raised", "lost"}
Ended == {"done", "raised", "lost"}

NoResult == [by |-> Nobody, success |-> FALSE, refused |-> FALSE,
             fromCache |-> FALSE]
Answer   == Result \union {NoResult}

(* One append to the log: a whole line, or a write that stopped short and  *)
(* left no newline.                                                        *)
Line == [whole: BOOLEAN, result: Answer]

Init ==
  /\ CacheInit
  /\ rpc = [r \in Runs |-> "idle"]
  /\ claim \in [Runs -> Keys]
  /\ answer = [r \in Runs |-> NoResult]
  /\ log = <<>>
  /\ cpc = [c \in Clears |-> "idle"]
  /\ restarts = 0

RunAt(r, from, to) == rpc[r] = from /\ rpc' = [rpc EXCEPT ![r] = to]

Answers(r, success, refused) ==
  answer' = [answer EXCEPT ![r] =
    [by |-> r, success |-> success, refused |-> refused, fromCache |-> FALSE]]

-----------------------------------------------------------------------------
Begin(r) ==
  /\ RunAt(r, "idle", "looking")
  /\ UNCHANGED <<cacheVars, claim, answer, log, cpc, restarts>>

(* A cache hit: the result is marked from_cache, logged and returned. *)
Hit(r) ==
  /\ RunAt(r, "looking", "logging")
  /\ Get(claim[r])
  /\ answer' = [answer EXCEPT ![r] = [Found(claim[r]) EXCEPT !.fromCache = TRUE]]
  /\ UNCHANGED <<claim, log, cpc, restarts>>

Miss(r) ==
  /\ RunAt(r, "looking", "formalizing")
  /\ CacheFree
  /\ ~Holds(claim[r])
  /\ UNCHANGED <<cacheVars, claim, answer, log, cpc, restarts>>

(* A theorem the caller brought, or a formalization that passed. *)
Formalized(r) ==
  /\ RunAt(r, "formalizing", "proving")
  /\ UNCHANGED <<cacheVars, claim, answer, log, cpc, restarts>>

(* The formalizer refused the claim, or its theorem never passed. *)
NotFormalized(r) ==
  /\ RunAt(r, "formalizing", "logging")
  /\ \E refused \in BOOLEAN : Answers(r, FALSE, refused)
  /\ UNCHANGED <<cacheVars, claim, log, cpc, restarts>>

(* A mutant: the result is cached whether or not it is a success. *)
Proved_CachesAll(r) ==
  /\ RunAt(r, "proving", "storing")
  /\ \E success \in BOOLEAN : Answers(r, success, FALSE)
  /\ Put(r, claim[r], answer'[r])
  /\ UNCHANGED <<claim, log, cpc, restarts>>

(* A mutant: the entry is stored before the result is built. *)
Proved_StoresFirst(r) ==
  /\ RunAt(r, "proving", "storing")
  /\ Answers(r, TRUE, FALSE)
  /\ Put(r, claim[r], answer[r])
  /\ UNCHANGED <<claim, log, cpc, restarts>>

(* The prover answered.  A success goes to the cache, then to the log. *)
Proved(r) ==
  /\ RunAt(r, "proving", "storing")
  /\ Answers(r, TRUE, FALSE)
  /\ Put(r, claim[r], answer'[r])
  /\ UNCHANGED <<claim, log, cpc, restarts>>

NotProved(r) ==
  /\ RunAt(r, "proving", "logging")
  /\ Answers(r, FALSE, FALSE)
  /\ UNCHANGED <<cacheVars, claim, log, cpc, restarts>>

Stored(r) ==
  /\ RunAt(r, "storing", "logging")
  /\ cacheLock # r
  /\ UNCHANGED <<cacheVars, claim, answer, log, cpc, restarts>>

(* The formalizer or the prover raised: nothing catches it here. *)
Raises(r) ==
  /\ \/ RunAt(r, "formalizing", "raised")
     \/ RunAt(r, "proving", "raised")
  /\ UNCHANGED <<cacheVars, claim, answer, log, cpc, restarts>>

(* A mutant: a replayed result is returned without being logged. *)
LogRun_FreshOnly(r) ==
  /\ RunAt(r, "logging", "done")
  /\ log' = IF answer[r].fromCache THEN log
            ELSE Append(log, [whole |-> TRUE, result |-> answer[r]])
  /\ UNCHANGED <<cacheVars, claim, answer, cpc, restarts>>

(* log_run(): one write at the end of the file; its errors are swallowed. *)
LogRun(r) ==
  /\ RunAt(r, "logging", "done")
  /\ \/ log' = Append(log, [whole |-> TRUE, result |-> answer[r]])
     \/ DiskErrors /\ log' = Append(log, [whole |-> FALSE, result |-> answer[r]])
     \/ DiskErrors /\ log' = log
  /\ UNCHANGED <<cacheVars, claim, answer, cpc, restarts>>

-----------------------------------------------------------------------------
Save ==
  /\ Truncate \/ Dump \/ SaveFails
  /\ UNCHANGED <<runVars, cpc, restarts>>

ClearCache(c) ==
  /\ cpc[c] = "idle"
  /\ Clear(c)
  /\ cpc' = [cpc EXCEPT ![c] = "done"]
  /\ UNCHANGED <<runVars, restarts>>

(* The process ends, at any point, and a new one loads the file. *)
Restart ==
  /\ restarts < MaxRestarts
  /\ restarts' = restarts + 1
  /\ Load
  /\ rpc' = [r \in Runs |-> IF rpc[r] \in Ended \union {"idle"} THEN rpc[r]
                            ELSE "lost"]
  /\ UNCHANGED <<claim, answer, log, cpc>>

Run(r) ==
  \/ Hit(r) \/ Miss(r) \/ Formalized(r) \/ NotFormalized(r)
  \/ Proved(r) \/ NotProved(r) \/ Stored(r) \/ Raises(r) \/ LogRun(r)

Next ==
  \/ \E r \in Runs : Begin(r) \/ Run(r)
  \/ \E c \in Clears : ClearCache(c)
  \/ Save
  \/ Restart

(* Threads that can go on do, and the calls a run makes return or raise.   *)
(* The lock need not be fair: each run takes it for a save at most once.   *)
Fairness == WF_vars(Save) /\ \A r \in Runs : WF_vars(Run(r))

Spec     == Init /\ [][Next]_vars
LiveSpec == Spec /\ Fairness

-----------------------------------------------------------------------------
(* Properties.                                                             *)

(* Every variable has its type. *)
TypeOK ==
  /\ CacheTypeOK
  /\ rpc \in [Runs -> RunPC]
  /\ claim \in [Runs -> Keys]
  /\ answer \in [Runs -> Answer]
  /\ log \in Seq(Line)
  /\ cpc \in [Clears -> {"idle", "done"}]
  /\ restarts \in 0 .. MaxRestarts

(* What is cached, in memory or on disk, is a success that its run really  *)
(* had for that very claim, and is not marked as replayed: no failure gets *)
(* in, and marking a hit does not change the entry it came from.           *)
Genuine(entry) ==
  /\ entry.result = answer[entry.result.by]
  /\ entry.key = claim[entry.result.by]
  /\ entry.result.success /\ ~entry.result.fromCache

CacheIsGenuine ==
  /\ \A i \in 1 .. Len(cache) : Genuine(cache[i])
  /\ \A i \in 1 .. Len(file.held) : Genuine(file.held[i])

(* A replayed answer is the success of another run of the same claim.      *)
ReplaysAreProved ==
  \A r \in Runs : answer[r].fromCache =>
    LET origin == answer[r].by IN
      /\ origin # r
      /\ claim[origin] = claim[r]
      /\ answer[r] = [answer[origin] EXCEPT !.fromCache = TRUE]
      /\ answer[origin].success

(* The dictionary never outgrows MAX_CACHE_SIZE and has a key once, here   *)
(* and in the file.                                                        *)
Bounded(q) ==
  /\ Len(q) <= MaxSize
  /\ \A i, k \in 1 .. Len(q) : q[i].key = q[k].key => i = k

CacheIsBounded == Bounded(cache) /\ Bounded(file.held)

(* Unless the disk fails, whoever gets the lock finds that a restart now   *)
(* would load what the memory holds: neither a result nor a cleared entry  *)
(* comes back or gets lost, whatever else interleaves.                     *)
RestartLosesNothing ==
  CacheFree /\ ~DiskErrors => Loaded = cache

(* metrics(): the lines that are JSON objects.  A line is spoilt when its  *)
(* write stopped short, and when the one before it did.                    *)
Readable == {i \in 1 .. Len(log) :
              log[i].whole /\ (i = 1 \/ log[i - 1].whole)}

Counted(r) == \E i \in Readable : log[i].result = answer[r]

(* The numbers of /metrics add up: no run is a success and a refusal, and  *)
(* every replayed run counts as verified; so proof_failures is never less  *)
(* than zero and needs no max().                                           *)
MetricsAddUp ==
  LET total    == Cardinality(Readable)
      verified == Cardinality({i \in Readable : log[i].result.success})
      refused  == Cardinality({i \in Readable : log[i].result.refused})
      hits     == Cardinality({i \in Readable : log[i].result.fromCache})
  IN  verified + refused <= total /\ hits <= verified

(* Unless the disk fails, a run that returned is in the log, once for each *)
(* run that returned the same answer.                                      *)
ReturnedRunsCounted ==
  ~DiskErrors =>
    /\ Cardinality({r \in Runs : rpc[r] = "done"}) = Cardinality(Readable)
    /\ \A r \in Runs : rpc[r] = "done" => Counted(r)

(* Every run that was begun ends, and the lock is always given back.       *)
RunsEnd ==
  /\ \A r \in Runs : rpc[r] = "looking" ~> rpc[r] \in Ended
  /\ ~CacheFree ~> CacheFree

(* docs/DEPLOYMENT.md: mount the state directory "if you want the          *)
(* verified-result cache and JSONL run log to persist across container     *)
(* restarts".  A restart then loses at most the entry being stored.        *)
PersistsAcrossRestarts ==
  [][restarts' # restarts =>
       \A k \in Keys :
         (\E i \in 1 .. Len(cache) - 1 : cache[i].key = k) => Holds(k)']_vars
=============================================================================
