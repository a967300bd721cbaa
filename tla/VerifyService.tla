--------------------------- MODULE VerifyService ----------------------------
(***************************************************************************)
(* src/src/api.py, the asynchronous half: POST /verify creates a job and   *)
(* leaves a background task; the task runs in a worker thread; polling     *)
(* requests and event streams run in other threads; all of them share the  *)
(* JobStore.  One step of a thread is what it does between two points      *)
(* where another thread can see or change the shared state.                *)
(*                                                                         *)
(* The pipeline itself is a worker that logs up to MaxLog entries and then *)
(* returns or raises; what it computes is modelled in other modules.       *)
(***************************************************************************)
EXTENDS JobStore

CONSTANTS
  Pollers,    \* client threads of GET /jobs/{job_id}
  MaxLog      \* bound on the log entries of one pipeline run

ASSUME MaxLogAssumption == MaxLog \in Nat

VARIABLES
  wpc,        \* where each job's request and worker thread stand
  logged,     \* log entries emitted so far
  event,      \* the event the worker is publishing or published last
  targets,    \* subscribers publish() copied and has not offered it to yet
  ppc,        \* where each poller stands
  draft,      \* what a poller has read so far
  reply,      \* the last answer a poller got
  spc,        \* where each stream request stands
  sjob,       \* the job it follows
  seen,       \* number of the last event delivered to it
  told        \* the "complete" event delivered to it

workerVars == <<wpc, logged, event, targets>>
pollVars   == <<ppc, draft, reply>>
streamVars == <<spc, sjob, seen, told>>
vars       == <<storeVars, workerVars, pollVars, streamVars>>

WorkerPC ==
  {"none", "accepted", "starting", "working", "finishing", "stamping",
   "copying", "offering", "done"}
PollPC   == {"idle", "result", "status", "error"}
StreamPC ==
  {"idle", "check", "already", "subscribe", "ready", "waiting", "polling",
   "rereading", "final", "closing", "closed", "notfound", "abandoned"}

Draft == [job: Jobs \union {Nobody}, result: {None, Payload},
          status: Statuses \union {None}]
Reply == [job: Jobs \union {Nobody}, code: {0, 200, 404},
          result: {None, Payload}, status: Statuses \union {None}, error: Errors]

NoDraft == [job |-> Nobody, result |-> None, status |-> None]
NoReply == [job |-> Nobody, code |-> 0, result |-> None, status |-> None,
            error |-> None]
NotFound(j) == [job |-> j, code |-> 404, result |-> None, status |-> None,
                error |-> None]
NoEvent == ProgressEvent(0)

Init ==
  /\ StoreInit
  /\ wpc = [j \in Jobs |-> "none"]
  /\ logged = [j \in Jobs |-> 0]
  /\ event = [j \in Jobs |-> NoEvent]
  /\ targets = [j \in Jobs |-> {}]
  /\ ppc = [p \in Pollers |-> "idle"]
  /\ draft = [p \in Pollers |-> NoDraft]
  /\ reply = [p \in Pollers |-> NoReply]
  /\ spc = [s \in Streams |-> "idle"]
  /\ sjob = [s \in Streams |-> Nobody]
  /\ seen = [s \in Streams |-> 0]
  /\ told = [s \in Streams |-> NoEvent]

WorkerAt(j, from, to) == wpc[j] = from /\ wpc' = [wpc EXCEPT ![j] = to]
StreamAt(s, from, to) == spc[s] = from /\ spc' = [spc EXCEPT ![s] = to]

-----------------------------------------------------------------------------
(* The request and the worker thread.                                      *)

(* verify_endpoint(), once its checks of the request have passed: create   *)
(* the job, add the background task, answer 202 with the id.               *)
Submit(j) ==
  /\ WorkerAt(j, "none", "accepted")
  /\ Create(j)
  /\ UNCHANGED <<logged, event, targets, pollVars, streamVars>>

(* _run_verify_job(): update_status(RUNNING), if the job is still there. *)
StartKept(j) ==
  /\ j \in present
  /\ WorkerAt(j, "accepted", "starting")
  /\ WriteStatus(j, "running")
  /\ UNCHANGED <<logged, event, targets, pollVars, streamVars>>

StartForgotten(j) ==
  /\ Unlocked
  /\ j \notin present
  /\ WorkerAt(j, "accepted", "working")
  /\ UNCHANGED <<storeVars, logged, event, targets, pollVars, streamVars>>

Started(j) ==
  /\ WorkerAt(j, "starting", "working")
  /\ WriteStarted(j)
  /\ UNCHANGED <<logged, event, targets, pollVars, streamVars>>

(* on_log(): record_progress(), then publish(). *)
Log(j) ==
  /\ logged[j] < MaxLog
  /\ WorkerAt(j, "working", "copying")
  /\ \E stage \in Stages, done \in BOOLEAN : RecordProgress(j, stage, done)
  /\ logged' = [logged EXCEPT ![j] = @ + 1]
  /\ event' = [event EXCEPT ![j] = ProgressEvent(logged[j] + 1)]
  /\ UNCHANGED <<targets, pollVars, streamVars>>

Outcomes ==
  {<<"completed", None>>} \union ({"failed"} \X {EmptyError, ErrorText})

(* run_pipeline() returned, or something raised: complete() or fail(). *)
Conclude(j, to) ==
  /\ WorkerAt(j, "working", to)
  /\ \E o \in Outcomes :
       event' = [event EXCEPT ![j] = CompleteEvent(logged[j] + 1, o[1], o[2])]
  /\ UNCHANGED <<logged, targets, pollVars, streamVars>>

FinishKept(j) ==
  /\ j \in present
  /\ Conclude(j, "finishing")
  /\ WriteStatus(j, event'[j].status)

FinishForgotten(j) ==
  /\ Unlocked
  /\ j \notin present
  /\ Conclude(j, "copying")
  /\ UNCHANGED storeVars

OutcomeWritten(j) ==
  /\ WorkerAt(j, "finishing", "stamping")
  /\ WriteOutcome(j, event[j])
  /\ UNCHANGED <<logged, event, targets, pollVars, streamVars>>

TimesWritten(j) ==
  /\ WorkerAt(j, "stamping", "copying")
  /\ WriteTimes(j)
  /\ UNCHANGED <<logged, event, targets, pollVars, streamVars>>

(* publish(): copy the subscribers under the lock, then offer the event to *)
(* each without it.                                                        *)
CopySubscribers(j) ==
  /\ Unlocked
  /\ WorkerAt(j, "copying", "offering")
  /\ targets' = [targets EXCEPT ![j] = subs[j]]
  /\ UNCHANGED <<storeVars, logged, event, pollVars, streamVars>>


(* A mutant: queue.Full is not caught here but in _run_verify_job(), whose *)
(* handler then fails a job that has been completed.                       *)
OfferOne_Raises(j, s) ==
  /\ wpc[j] = "offering"
  /\ s \in targets[j]
  /\ targets' = [targets EXCEPT ![j] = @ \ {s}]
  /\ wpc' = IF Len(queue[s]) < QueueSize THEN wpc
            ELSE [wpc EXCEPT ![j] = "working"]
  /\ Offer(s, event[j])
  /\ UNCHANGED <<present, aged, rec, subs, lock, logged, event,
                 pollVars, streamVars>>

OfferOne(j, s) ==
  /\ wpc[j] = "offering"
  /\ s \in targets[j]
  /\ targets' = [targets EXCEPT ![j] = @ \ {s}]
  /\ Offer(s, event[j])
  /\ UNCHANGED <<present, aged, rec, subs, lock, wpc, logged, event,
                 pollVars, streamVars>>

Published(j) ==
  /\ targets[j] = {}
  /\ WorkerAt(j, "offering",
              IF event[j].type = "complete" THEN "done" ELSE "working")
  /\ UNCHANGED <<storeVars, logged, event, targets, pollVars, streamVars>>

-----------------------------------------------------------------------------
(* get_job_status(): get() under the lock, then the keys of the live       *)
(* dictionary one by one, the result before the status.                    *)
PollGet(p, j) ==
  /\ ppc[p] = "idle"
  /\ wpc[j] # "none"
  /\ Get(j)
  /\ IF j \in present'
     THEN /\ ppc' = [ppc EXCEPT ![p] = "result"]
          /\ draft' = [draft EXCEPT ![p] = [NoDraft EXCEPT !.job = j]]
          /\ UNCHANGED reply
     ELSE /\ reply' = [reply EXCEPT ![p] = NotFound(j)]
          /\ UNCHANGED <<ppc, draft>>
  /\ UNCHANGED <<queue, workerVars, streamVars>>

ReadResult(p) ==
  /\ ppc[p] = "result"
  /\ ppc' = [ppc EXCEPT ![p] = "status"]
  /\ draft' = [draft EXCEPT ![p].result = rec[draft[p].job].result]
  /\ UNCHANGED <<reply, storeVars, workerVars, streamVars>>

ReadStatus(p) ==
  /\ ppc[p] = "status"
  /\ ppc' = [ppc EXCEPT ![p] = "error"]
  /\ draft' = [draft EXCEPT ![p].status = rec[draft[p].job].status]
  /\ UNCHANGED <<reply, storeVars, workerVars, streamVars>>

(* A mutant: the result is read where the answer is put together. *)
PollAnswer_ResultLast(p) ==
  /\ ppc[p] = "error"
  /\ ppc' = [ppc EXCEPT ![p] = "idle"]
  /\ draft' = [draft EXCEPT ![p] = NoDraft]
  /\ reply' = [reply EXCEPT ![p] =
       [job |-> draft[p].job, code |-> 200, result |-> rec[draft[p].job].result,
        status |-> draft[p].status, error |-> rec[draft[p].job].error]]
  /\ UNCHANGED <<storeVars, workerVars, streamVars>>

(* The timestamps and stages read last are left out of the answer. *)
PollAnswer(p) ==
  /\ ppc[p] = "error"
  /\ ppc' = [ppc EXCEPT ![p] = "idle"]
  /\ draft' = [draft EXCEPT ![p] = NoDraft]
  /\ reply' = [reply EXCEPT ![p] =
       [job |-> draft[p].job, code |-> 200, result |-> draft[p].result,
        status |-> draft[p].status, error |-> rec[draft[p].job].error]]
  /\ UNCHANGED <<storeVars, workerVars, streamVars>>

-----------------------------------------------------------------------------
(* stream_job_events().                                                    *)

StreamOpen(s, j) ==
  /\ wpc[j] # "none"
  /\ Get(j)
  /\ StreamAt(s, "idle", IF j \in present' THEN "check" ELSE "notfound")
  /\ sjob' = [sjob EXCEPT ![s] = j]
  /\ UNCHANGED <<seen, told, workerVars, pollVars>>

(* A mutant: a job that has left the queue counts as over. *)
IsTerminal_Started(s) == rec[sjob[s]].status # "queued"

IsTerminal(s) == rec[sjob[s]].status \in Terminal

(* The first test of the status, on the live dictionary. *)
StreamCheck(s) ==
  /\ StreamAt(s, "check", IF IsTerminal(s) THEN "already" ELSE "subscribe")
  /\ UNCHANGED <<sjob, seen, told, storeVars, workerVars, pollVars>>

StreamSubscribe(s) ==
  /\ StreamAt(s, "subscribe", "ready")
  /\ Subscribe(sjob[s], s)
  /\ UNCHANGED <<sjob, seen, told, workerVars, pollVars>>

(* The server begins to iterate event_generator(). *)
StreamBegin(s) ==
  /\ StreamAt(s, "ready", "waiting")
  /\ UNCHANGED <<sjob, seen, told, storeVars, workerVars, pollVars>>

(* subscriber.get(timeout=1.0) returns an event, which is sent. *)
StreamReceive(s) ==
  /\ queue[s] # <<>>
  /\ LET next == Head(queue[s]) IN
       /\ StreamAt(s, "waiting",
                   IF next.type = "complete" THEN "closing" ELSE "waiting")
       /\ seen' = [seen EXCEPT ![s] = next.n]
       /\ told' = IF next.type = "complete"
                  THEN [told EXCEPT ![s] = next] ELSE told
  /\ queue' = [queue EXCEPT ![s] = Tail(@)]
  /\ UNCHANGED <<sjob, present, aged, rec, subs, lock, workerVars, pollVars>>

(* queue.Empty: a keepalive is sent. *)
StreamTimeout(s) ==
  /\ queue[s] = <<>>
  /\ StreamAt(s, "waiting", "polling")
  /\ UNCHANGED <<sjob, seen, told, storeVars, workerVars, pollVars>>

StreamGet(s) ==
  /\ Get(sjob[s])
  /\ StreamAt(s, "polling",
              IF sjob[s] \in present' THEN "rereading" ELSE "waiting")
  /\ UNCHANGED <<sjob, seen, told, workerVars, pollVars>>

(* A mutant: the keepalive branch only keeps the connection alive. *)
StreamReread_KeepaliveOnly(s) ==
  /\ StreamAt(s, "rereading", "waiting")
  /\ UNCHANGED <<sjob, seen, told, storeVars, workerVars, pollVars>>

StreamReread(s) ==
  /\ StreamAt(s, "rereading", IF IsTerminal(s) THEN "final" ELSE "waiting")
  /\ UNCHANGED <<sjob, seen, told, storeVars, workerVars, pollVars>>

(* `if job.get("error")` leaves a missing and an empty error out. *)
ShownError(error) == IF error = EmptyError THEN None ELSE error

(* A mutant: an event made from the record always says "completed". *)
MakeComplete_Assumed(s, from, to) ==
  /\ StreamAt(s, from, to)
  /\ LET r == rec[sjob[s]] IN
       told' = [told EXCEPT ![s] =
                  CompleteEvent(seen[s] + 1, "completed", ShownError(r.error))]
  /\ UNCHANGED <<sjob, seen, storeVars, workerVars, pollVars>>

(* The "complete" event a stream makes itself from the live dictionary:    *)
(* already_done(), or final_event of the keepalive branch.                 *)
MakeComplete(s, from, to) ==
  /\ StreamAt(s, from, to)
  /\ LET r == rec[sjob[s]] IN
       told' = [told EXCEPT ![s] =
                  CompleteEvent(seen[s] + 1, r.status, ShownError(r.error))]
  /\ UNCHANGED <<sjob, seen, storeVars, workerVars, pollVars>>

StreamAlreadyDone(s) == MakeComplete(s, "already", "closed")
StreamFinal(s)       == MakeComplete(s, "final", "closing")

(* A mutant: the loop ends without its finally clause. *)
StreamClose_NoFinally(s) ==
  /\ StreamAt(s, "closing", "closed")
  /\ UNCHANGED <<sjob, seen, told, storeVars, workerVars, pollVars>>

(* The generator's finally clause. *)
StreamClose(s) ==
  /\ StreamAt(s, "closing", "closed")
  /\ Unsubscribe(sjob[s], s)
  /\ UNCHANGED <<sjob, seen, told, workerVars, pollVars>>

(* The client goes away.  A generator that was started is closed, and runs *)
(* its finally clause; one that never was runs nothing.                    *)
Disconnect(s) ==
  /\ \/ StreamAt(s, "waiting", "closing")
     \/ StreamAt(s, "polling", "closing")
     \/ StreamAt(s, "already", "closed")
     \/ StreamAt(s, "ready", "abandoned")
  /\ UNCHANGED <<sjob, seen, told, storeVars, workerVars, pollVars>>

-----------------------------------------------------------------------------
TimePasses(j) ==
  /\ GrowsOld(j)
  /\ UNCHANGED <<workerVars, pollVars, streamVars>>

Worker(j) ==
  \/ StartKept(j) \/ StartForgotten(j) \/ Started(j) \/ Log(j)
  \/ FinishKept(j) \/ FinishForgotten(j) \/ OutcomeWritten(j)
  \/ TimesWritten(j) \/ CopySubscribers(j) \/ Published(j)
  \/ \E s \in Streams : OfferOne(j, s)

Poll(p) ==
  \/ \E j \in Jobs : PollGet(p, j)
  \/ ReadResult(p) \/ ReadStatus(p) \/ PollAnswer(p)

StreamStep(s) ==
  \/ StreamCheck(s) \/ StreamSubscribe(s) \/ StreamBegin(s)
  \/ StreamReceive(s) \/ StreamTimeout(s) \/ StreamGet(s) \/ StreamReread(s)
  \/ StreamAlreadyDone(s) \/ StreamFinal(s) \/ StreamClose(s)

Next ==
  \/ \E j \in Jobs : Submit(j) \/ Worker(j) \/ TimePasses(j)
  \/ \E p \in Pollers : Poll(p)
  \/ \E s \in Streams :
       StreamStep(s) \/ Disconnect(s) \/ \E j \in Jobs : StreamOpen(s, j)

(* Every thread that can go on eventually does: the operating system runs  *)
(* all threads, a holder of _lock releases it, and the pipeline ends.      *)
(* Clients need not ask, and time need not pass.                           *)
Fairness ==
  /\ \A j \in Jobs : WF_vars(Worker(j))
  /\ \A s \in Streams : WF_vars(StreamStep(s))

Spec     == Init /\ [][Next]_vars
LiveSpec == Spec /\ Fairness

-----------------------------------------------------------------------------
(* Properties.                                                             *)

(* Every variable has its type. *)
TypeOK ==
  /\ StoreTypeOK
  /\ wpc \in [Jobs -> WorkerPC]
  /\ logged \in [Jobs -> 0 .. MaxLog]
  /\ event \in [Jobs -> Event]
  /\ targets \in [Jobs -> SUBSET Streams]
  /\ ppc \in [Pollers -> PollPC]
  /\ draft \in [Pollers -> Draft]
  /\ reply \in [Pollers -> Reply]
  /\ spc \in [Streams -> StreamPC]
  /\ sjob \in [Streams -> Jobs \union {Nobody}]
  /\ seen \in [Streams -> Nat]
  /\ told \in [Streams -> Event]

(* Where a job really stands, read off its request and worker thread. *)
Concluded(j) == event[j].type = "complete"

Phase(j) ==
  IF Concluded(j) THEN event[j].status
  ELSE IF wpc[j] = "none" THEN "unknown"
  ELSE IF wpc[j] = "accepted" THEN "queued"
  ELSE "running"

(* A poller never gets a result with a status other than "completed",      *)
(* although get_job_status() reads the two without the lock while          *)
(* complete() writes them: the result is read first and written second.    *)
ResultOnlyIfCompleted ==
  \A p \in Pollers : reply[p].result # None => reply[p].status = "completed"

(* Whenever the lock is free, the record of every job the store holds is   *)
(* whole: a result if and only if completed, an error if and only if       *)
(* failed, the finish time if and only if either, and the status is the    *)
(* one the worker thread stands at.                                        *)
RecordsWhole ==
  Unlocked => \A j \in present :
    /\ rec[j].status = Phase(j)
    /\ (rec[j].result # None) <=> (rec[j].status = "completed")
    /\ (rec[j].error # None) <=> (rec[j].status = "failed")
    /\ rec[j].finished <=> (rec[j].status \in Terminal)

(* No stream is told an outcome its job does not have, by whichever of the *)
(* three ways it learns it: a queued event, the test before subscribing,   *)
(* or the poll after a keepalive.                                          *)
ToldTheTruth ==
  \A s \in Streams :
    told[s].type = "complete" =>
      told[s].status \in Terminal /\ told[s].status = Phase(sjob[s])

(* A stream gets its job's events in the order they were published, none   *)
(* twice, and nothing after the "complete" event.                          *)
InOrder ==
  \A s \in Streams :
    /\ \A i \in 1 .. Len(queue[s]) : queue[s][i].n > seen[s]
    /\ \A i, k \in 1 .. Len(queue[s]) :
         i < k => queue[s][i].n < queue[s][k].n /\ queue[s][i].type = "progress"

(* The stream requests that will still run unsubscribe(). *)
Listening == {"ready", "waiting", "polling", "rereading", "final", "closing"}

(* The store keeps no queue of a stream that has ended, except of one the  *)
(* client left before its generator was started.                           *)
NoLeakedSubscriber ==
  \A j \in Jobs : \A s \in subs[j] :
    sjob[s] = j /\ spc[s] \in Listening \union {"abandoned"}

(* Once the outcome of a job has been written it never changes: no later   *)
(* log entry, no second complete() or fail() touches the record.           *)
OutcomeIsFinal ==
  [][\A j \in Jobs : rec[j].finished => rec'[j] = rec[j]]_vars

(* A client that polls one job sees it only move forward: queued, running, *)
(* one outcome, and in the end 404; after a 404 it never sees it again.    *)
Rank(r) ==
  IF r.code = 404 THEN 4
  ELSE IF r.status \in Terminal THEN 3
  ELSE IF r.status = "running" THEN 2 ELSE 1

AnswersAdvance ==
  [][\A p \in Pollers :
       reply[p].code # 0 /\ reply'[p].job = reply[p].job =>
         /\ Rank(reply'[p]) >= Rank(reply[p])
         /\ Rank(reply'[p]) = 3 /\ Rank(reply[p]) = 3 =>
              reply'[p].status = reply[p].status]_vars

(* The service keeps the promises of JobLifecycle.  What a client can see  *)
(* of a job is its record while the store has it.                          *)
Seen(j) ==
  IF j \in present THEN rec[j].status ELSE Phase(j)

Abstract == INSTANCE JobLifecycle WITH
  phase <- [j \in Jobs |-> Seen(j)],
  kept  <- present,
  told  <- [s \in Streams |-> IF told[s].type = "complete"
                              THEN told[s].status ELSE "nothing"]

KeepsPromises == Abstract!Spec

(* A connected stream ends, unless the store forgets the job: no wake-up   *)
(* is lost between the test of the status and the subscription, nor when a *)
(* full queue drops the "complete" event.                                  *)
Open(s) == spc[s] \in Listening \union {"check", "already", "subscribe"}

StreamEnds ==
  \A s \in Streams : Open(s) ~> (~Open(s) \/ sjob[s] \notin present)

(* docs/API.md: "The stream closes automatically after the job completes   *)
(* or fails."                                                              *)
StreamClosesAfterJob ==
  \A s \in Streams :
    (Open(s) /\ wpc[sjob[s]] = "done") ~> ~Open(s)

(* docs/API.md: "result: final verify payload when completed". *)
CompletedHasResult ==
  \A p \in Pollers : reply[p].status = "completed" => reply[p].result # None
=============================================================================
