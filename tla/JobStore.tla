------------------------------ MODULE JobStore ------------------------------
(***************************************************************************)
(* src/src/job_store.py: the in-memory store of verify jobs.  This module  *)
(* holds the store's state and its methods, as operators on that state;    *)
(* VerifyService calls them from the threads of api.py.                    *)
(*                                                                         *)
(* The dictionary of a job outlives its entry in _jobs, because get()      *)
(* returns the dictionary itself and not a copy: `rec` therefore keeps the *)
(* record of a job that `present` no longer holds.  Methods run under      *)
(* _lock, but readers use the dictionary they were given without it, so a  *)
(* method that writes several keys is several steps here, with `lock` held *)
(* from the first to the last.                                             *)
(***************************************************************************)
EXTENDS Naturals, Sequences

CONSTANTS
  Jobs,       \* the job ids uuid4 will return
  Streams,    \* the subscriber queues, one per stream request
  Stages,     \* names of pipeline stages
  QueueSize,  \* maxsize of a subscriber queue (100 in the code)
  Nobody      \* the lock is free; a stream with no job

ASSUME QueueSizeAssumption == QueueSize \in Nat \ {0}
ASSUME NobodyAssumption    == Nobody \notin Jobs

VARIABLES
  present,    \* keys of _jobs
  aged,       \* jobs created more than _ttl seconds ago
  rec,        \* the dictionary made for each job
  subs,       \* _subscribers
  queue,      \* contents of each subscriber queue
  lock        \* the job whose worker thread holds _lock, or Nobody

storeVars == <<present, aged, rec, subs, queue, lock>>

None       == "none"       \* Python's None
Payload    == "payload"    \* the dictionary of a completed job's result
EmptyError == ""           \* str(exc) of an exception raised with no text
ErrorText  == "error text" \* any other str(exc)

Errors   == {None, EmptyError, ErrorText}
Terminal == {"completed", "failed"}
Statuses == {"queued", "running"} \union Terminal

Record ==
  [status: Statuses, result: {None, Payload}, error: Errors,
   started: BOOLEAN, finished: BOOLEAN, progressed: BOOLEAN,
   stage: Stages \union {None}]

(* A mutant: a job is created without a status. *)
FreshRecord_NoStatus ==
  [status |-> None, result |-> None, error |-> None,
   started |-> FALSE, finished |-> FALSE, progressed |-> FALSE,
   stage |-> None]

FreshRecord ==
  [status |-> "queued", result |-> None, error |-> None,
   started |-> FALSE, finished |-> FALSE, progressed |-> FALSE,
   stage |-> None]

(* An event as the queues carry it.  `n` numbers the events of one job in  *)
(* the order they are published; it stands for stage and message.          *)
Event ==
  [type: {"progress", "complete"}, n: Nat,
   status: {None} \union Terminal, error: Errors]

ProgressEvent(n) ==
  [type |-> "progress", n |-> n, status |-> None, error |-> None]

CompleteEvent(n, status, error) ==
  [type |-> "complete", n |-> n, status |-> status, error |-> error]

StoreTypeOK ==
  /\ present \in SUBSET Jobs
  /\ aged \in SUBSET Jobs
  /\ rec \in [Jobs -> Record]
  /\ subs \in [Jobs -> SUBSET Streams]
  /\ queue \in [Streams -> Seq(Event)]
  /\ lock \in Jobs \union {Nobody}

StoreInit ==
  /\ present = {}
  /\ aged = {}
  /\ rec = [j \in Jobs |-> FreshRecord]
  /\ subs = [j \in Jobs |-> {}]
  /\ queue = [s \in Streams |-> <<>>]
  /\ lock = Nobody

Unlocked == lock = Nobody

-----------------------------------------------------------------------------
(* Time: a job's age passes _ttl, counted from its creation whatever it is *)
(* doing.                                                                  *)
GrowsOld(j) ==
  /\ j \in present \ aged
  /\ aged' = aged \union {j}
  /\ UNCHANGED <<present, rec, subs, queue, lock>>

(* create(): a fresh id, a fresh dictionary. *)
Create(j) ==
  /\ Unlocked
  /\ present' = present \union {j}
  /\ rec' = [rec EXCEPT ![j] = FreshRecord]
  /\ UNCHANGED <<aged, subs, queue, lock>>

(* update_status(): the status first, then started_at when it was unset. *)
WriteStatus(j, status) ==
  /\ Unlocked
  /\ rec' = [rec EXCEPT ![j].status = status]
  /\ lock' = j
  /\ UNCHANGED <<present, aged, subs, queue>>

WriteStarted(j) ==
  /\ lock = j
  /\ rec' = [rec EXCEPT ![j].started = TRUE]
  /\ lock' = Nobody
  /\ UNCHANGED <<present, aged, subs, queue>>

(* The wrapper stage's "done" must not clobber a more specific stage. *)
NewStage(j, stage, done) ==
  IF done /\ rec[j].stage \notin {None, stage} THEN rec[j].stage ELSE stage

(* record_progress(): one step, because no reader relates its keys; the    *)
(* milliseconds of stage_timings, which nothing reads back, are left out.  *)
RecordProgress(j, stage, done) ==
  /\ Unlocked
  /\ rec' = IF j \in present
            THEN [rec EXCEPT ![j].progressed = TRUE,
                             ![j].stage = NewStage(j, stage, done)]
            ELSE rec
  /\ UNCHANGED <<present, aged, subs, queue, lock>>

(* subscribe(): does not ask whether the job is still in _jobs. *)
Subscribe(j, s) ==
  /\ Unlocked
  /\ subs' = [subs EXCEPT ![j] = @ \union {s}]
  /\ UNCHANGED <<present, aged, rec, queue, lock>>

Unsubscribe(j, s) ==
  /\ Unlocked
  /\ subs' = [subs EXCEPT ![j] = @ \ {s}]
  /\ UNCHANGED <<present, aged, rec, queue, lock>>

(* A mutant: an event overtakes those already queued. *)
Offer_Lifo(s, event) ==
  queue' = IF Len(queue[s]) < QueueSize
           THEN [queue EXCEPT ![s] = <<event>> \o @]
           ELSE queue

(* publish(), for one subscriber of the list it copied: put_nowait, and a  *)
(* full queue loses the event.                                             *)
Offer(s, event) ==
  queue' = IF Len(queue[s]) < QueueSize
           THEN [queue EXCEPT ![s] = Append(@, event)]
           ELSE queue

(* A mutant: the timestamps are left to be written without the lock. *)
WriteOutcome_Releases(j, event) ==
  /\ lock = j
  /\ rec' = IF event.status = "completed"
            THEN [rec EXCEPT ![j].result = Payload]
            ELSE [rec EXCEPT ![j].error = event.error]
  /\ lock' = Nobody
  /\ UNCHANGED <<present, aged, subs, queue>>

(* complete() and fail(): the status, then the result or the error, then   *)
(* the timestamps; the lock is released after the last.                    *)
WriteOutcome(j, event) ==
  /\ lock = j
  /\ rec' = IF event.status = "completed"
            THEN [rec EXCEPT ![j].result = Payload]
            ELSE [rec EXCEPT ![j].error = event.error]
  /\ UNCHANGED <<present, aged, subs, queue, lock>>

WriteTimes(j) ==
  /\ lock = j
  /\ rec' = [rec EXCEPT ![j].started = TRUE, ![j].finished = TRUE,
                        ![j].progressed = TRUE]
  /\ lock' = Nobody
  /\ UNCHANGED <<present, aged, subs, queue>>

(* _cleanup_expired(), and get(), which calls it before it looks. *)
Expired == present \intersect aged

CleanupExpired ==
  /\ present' = present \ Expired
  /\ subs' = [j \in Jobs |-> IF j \in Expired THEN {} ELSE subs[j]]
  /\ UNCHANGED <<aged, rec, queue, lock>>

Get(j) == Unlocked /\ CleanupExpired
=============================================================================
