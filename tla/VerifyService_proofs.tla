------------------------ MODULE VerifyService_proofs ------------------------
(***************************************************************************)
(* Theorems about VerifyService, for any number of jobs, streams and       *)
(* pollers, any queue size and any number of log entries.                  *)
(***************************************************************************)
EXTENDS VerifyService, TLAPS

(* A request that has got a dictionary follows a job that was created. *)
Linked ==
  /\ \A p \in Pollers :
       ppc[p] # "idle" => draft[p].job \in Jobs /\ wpc[draft[p].job] # "none"
  /\ \A s \in Streams :
       spc[s] # "idle" => sjob[s] \in Jobs /\ wpc[sjob[s]] # "none"
  /\ \A j \in present : wpc[j] # "none"

(* The lock is held across steps exactly by the workers that are between   *)
(* two writes to their record, and their job is in the store meanwhile.    *)
Writing == {"starting", "finishing", "stamping"}

LockHeld ==
  \A j \in Jobs : /\ (lock = j) <=> (wpc[j] \in Writing)
                  /\ wpc[j] \in Writing => j \in present

(* What the worker's position says of the event it has. *)
EventMatches ==
  \A j \in Jobs :
    /\ wpc[j] \in {"none", "accepted", "starting", "working"} => ~Concluded(j)
    /\ wpc[j] \in {"finishing", "stamping", "done"} => Concluded(j)
    /\ Concluded(j) =>
         /\ event[j].status \in Terminal
         /\ (event[j].error = None) <=> (event[j].status = "completed")

(* What the worker's position says of the record. *)
RecordMatches ==
  \A j \in Jobs :
    /\ j \in present => rec[j].status = Phase(j)
    /\ rec[j].status \in Terminal =>
         Concluded(j) /\ rec[j].status = event[j].status
    /\ rec[j].result # None => rec[j].status = "completed"
    /\ rec[j].error # None => rec[j].status = "failed"
    /\ rec[j].finished => rec[j].status \in Terminal
    /\ rec[j].finished => wpc[j] \in {"copying", "offering", "done"} /\ Concluded(j)
    /\ j \in present /\ Concluded(j) /\ wpc[j] # "finishing" =>
         /\ (rec[j].result # None) <=> (rec[j].status = "completed")
         /\ (rec[j].error # None) <=> (rec[j].status = "failed")
    /\ j \in present /\ Concluded(j) /\ wpc[j] \notin {"finishing", "stamping"} =>
         rec[j].finished

(* A result that was read was a completed job's, and stays one. *)
DraftMatches ==
  \A p \in Pollers :
    /\ ppc[p] = "status" /\ draft[p].result # None =>
         rec[draft[p].job].status = "completed"
    /\ ppc[p] = "error" /\ draft[p].result # None =>
         draft[p].status = "completed"

(* Where a stream that was told an outcome stands. *)
Told == {"closing", "closed"}

(* Events reach only the streams of their job, and a stream that is about  *)
(* to make its own "complete" event has seen a terminal status.            *)
StreamMatches ==
  /\ \A j \in Jobs : \A s \in targets[j] : sjob[s] = j /\ spc[s] # "idle"
  /\ \A s \in Streams : \A i \in 1 .. Len(queue[s]) :
       /\ spc[s] # "idle"
       /\ queue[s][i].type = "complete" => queue[s][i] = event[sjob[s]]
  /\ \A s \in Streams : told[s].type = "complete" => spc[s] \in Told
  /\ \A s \in Streams : spc[s] \in {"already", "final"} => IsTerminal(s)

(* The inductive invariant. *)
Inv ==
  /\ TypeOK
  /\ Linked
  /\ LockHeld
  /\ EventMatches
  /\ RecordMatches
  /\ DraftMatches
  /\ ResultOnlyIfCompleted
  /\ StreamMatches
  /\ ToldTheTruth
  /\ NoLeakedSubscriber

-----------------------------------------------------------------------------
(* The record create() makes is a record.                                  *)
LEMMA FreshRecordType == FreshRecord \in Record
  BY DEF FreshRecord, Record, Statuses, Errors

(* Every key assignment of job_store.py leaves a record a record.          *)
LEMMA RecordUpdates ==
  ASSUME NEW r \in Record
  PROVE  /\ \A x \in Statuses : [r EXCEPT !.status = x] \in Record
         /\ \A x \in Errors : [r EXCEPT !.error = x] \in Record
         /\ [r EXCEPT !.result = Payload] \in Record
         /\ [r EXCEPT !.started = TRUE] \in Record
         /\ [r EXCEPT !.started = TRUE, !.finished = TRUE, !.progressed = TRUE]
              \in Record
         /\ \A x \in Stages \union {None} :
              [r EXCEPT !.progressed = TRUE, !.stage = x] \in Record
  BY DEF Record

(* What a record's keys hold.                                              *)
LEMMA RecordFields ==
  ASSUME NEW r \in Record
  PROVE  /\ r.status \in Statuses
         /\ r.result \in {None, Payload}
         /\ r.error \in Errors
         /\ r.stage \in Stages \union {None}
  BY DEF Record

(* on_log(), complete() and fail() publish events.                         *)
LEMMA EventTypes ==
  ASSUME NEW n \in Nat
  PROVE  /\ ProgressEvent(n) \in Event
         /\ \A x \in Terminal \union {None}, e \in Errors : CompleteEvent(n, x, e) \in Event
  BY DEF ProgressEvent, CompleteEvent, Event, Errors

(* What an event holds.                                                    *)
LEMMA EventFields ==
  ASSUME NEW e \in Event
  PROVE  e.n \in Nat /\ e.error \in Errors /\ e.status \in Terminal \union {None}
  BY DEF Event

(* Each read of get_job_status() leaves a draft a draft.                   *)
LEMMA DraftTypes ==
  ASSUME NEW d \in Draft
  PROVE  /\ NoDraft \in Draft
         /\ \A j \in Jobs : [NoDraft EXCEPT !.job = j] \in Draft
         /\ \A x \in {None, Payload} : [d EXCEPT !.result = x] \in Draft
         /\ \A x \in Statuses : [d EXCEPT !.status = x] \in Draft
  BY DEF Draft, NoDraft

(* get_job_status() answers with a reply: 404, or what its draft holds.    *)
LEMMA ReplyTypes ==
  ASSUME NEW d \in Draft
  PROVE  /\ \A j \in Jobs : NotFound(j) \in Reply
         /\ \A x \in Errors :
              [job |-> d.job, code |-> 200, result |-> d.result,
               status |-> d.status, error |-> x] \in Reply
  <1>1. \A j \in Jobs : NotFound(j) \in Reply
    BY DEF Reply, NotFound, Errors
  <1>2. /\ d.job \in Jobs \union {Nobody}
        /\ d.result \in {None, Payload}
        /\ d.status \in Statuses \union {None}
    BY DEF Draft
  <1>3. QED
    BY <1>1, <1>2 DEF Reply

(* The event of complete() or fail() has a terminal status, and an error   *)
(* exactly if the status is "failed"; no other job's event changes.        *)
LEMMA ConcludeEvent ==
  ASSUME TypeOK, NEW j \in Jobs, NEW to, Conclude(j, to)
  PROVE  /\ event' \in [Jobs -> Event]
         /\ event'[j].type = "complete"
         /\ event'[j].status \in Terminal
         /\ (event'[j].error = None) <=> (event'[j].status = "completed")
         /\ \A k \in Jobs \ {j} : event'[k] = event[k]
  <1>1. PICK o \in Outcomes :
          event' = [event EXCEPT ![j] = CompleteEvent(logged[j] + 1, o[1], o[2])]
    BY DEF Conclude
  <1>2. /\ o[1] \in Terminal
        /\ o[2] \in Errors
        /\ (o[2] = None) <=> (o[1] = "completed")
    <2>1. CASE o = <<"completed", None>>
      BY <2>1 DEF Terminal, Errors
    <2>2. CASE o \in {"failed"} \X {EmptyError, ErrorText}
      <3>1. o[1] = "failed" /\ o[2] \in {EmptyError, ErrorText}
        BY <2>2
      <3>2. QED
        BY <3>1 DEF Terminal, Errors, None, EmptyError, ErrorText
    <2>3. QED
      BY <2>1, <2>2 DEF Outcomes
  <1>3. logged[j] + 1 \in Nat
    BY MaxLogAssumption DEF TypeOK
  <1>4. event \in [Jobs -> Event]
    BY DEF TypeOK
  <1>5. CompleteEvent(logged[j] + 1, o[1], o[2]) \in Event
    BY <1>2, <1>3, EventTypes
  <1>6. /\ event' \in [Jobs -> Event]
        /\ event'[j] = CompleteEvent(logged[j] + 1, o[1], o[2])
        /\ \A k \in Jobs \ {j} : event'[k] = event[k]
    BY <1>1, <1>4, <1>5
  <1>7. QED
    BY <1>2, <1>6 DEF CompleteEvent

(* An event a stream makes of the record keeps every variable in its type, *)
(* because the stream has seen the record with a terminal status.          *)
LEMMA MakeCompleteType ==
  ASSUME TypeOK, Linked, StreamMatches, NEW s \in Streams, NEW from \in {"already", "final"},
         NEW to \in StreamPC, MakeComplete(s, from, to)
  PROVE  TypeOK'
  <1>1. sjob[s] \in Jobs /\ rec[sjob[s]].status \in Terminal
    BY DEF MakeComplete, Linked, StreamMatches, StreamAt, IsTerminal
  <1>2. rec[sjob[s]].error \in Errors
    BY <1>1, RecordFields DEF TypeOK, StoreTypeOK
  <1>3. ShownError(rec[sjob[s]].error) \in Errors
    BY <1>2 DEF ShownError, Errors
  <1>4. CompleteEvent(seen[s] + 1, rec[sjob[s]].status, ShownError(rec[sjob[s]].error)) \in Event
    <2>1. seen[s] + 1 \in Nat
      BY DEF TypeOK
    <2>2. QED
      BY <1>1, <1>3, <2>1, EventTypes
  <1>5. told' \in [Streams -> Event] /\ spc' \in [Streams -> StreamPC]
    BY <1>4 DEF MakeComplete, StreamAt, TypeOK
  <1>6. QED
    BY <1>5 DEF MakeComplete, TypeOK, StoreTypeOK, storeVars, workerVars,
       pollVars

(* Every step of the service keeps every variable in its type.             *)
LEMMA TypeStep ==
  ASSUME TypeOK, Linked, StreamMatches, [Next]_vars
  PROVE  TypeOK'
<1> USE QueueSizeAssumption, NobodyAssumption, MaxLogAssumption DEF
   storeVars, workerVars, pollVars, streamVars, WorkerAt, StreamAt,
   Unlocked, TypeOK, StoreTypeOK, WorkerPC, PollPC, StreamPC
<1>1. ASSUME NEW j \in Jobs, Submit(j) PROVE TypeOK'
  BY <1>1, FreshRecordType DEF Submit, Create
<1>2. ASSUME NEW j \in Jobs, StartKept(j) PROVE TypeOK'
  BY <1>2, RecordUpdates DEF StartKept, WriteStatus, Statuses
<1>3. ASSUME NEW j \in Jobs, StartForgotten(j) PROVE TypeOK'
  BY <1>3 DEF StartForgotten
<1>4. ASSUME NEW j \in Jobs, Started(j) PROVE TypeOK'
  BY <1>4, RecordUpdates DEF Started, WriteStarted
<1>5. ASSUME NEW j \in Jobs, Log(j) PROVE TypeOK'
  <2>1. PICK stage \in Stages, done \in BOOLEAN : RecordProgress(j, stage, done)
    BY <1>5 DEF Log
  <2>2. NewStage(j, stage, done) \in Stages \union {None}
    BY RecordFields DEF NewStage
  <2>3. rec' \in [Jobs -> Record]
    BY <2>1, <2>2, RecordUpdates DEF RecordProgress
  <2>4. /\ logged' \in [Jobs -> 0 .. MaxLog]
        /\ event' \in [Jobs -> Event]
    BY <1>5, EventTypes DEF Log
  <2>5. QED
    BY <1>5, <2>1, <2>3, <2>4 DEF Log, RecordProgress
<1>6. ASSUME NEW j \in Jobs, FinishKept(j) PROVE TypeOK'
  <2>1. event' \in [Jobs -> Event] /\ event'[j].status \in Terminal
    BY <1>6, ConcludeEvent DEF FinishKept
  <2>2. rec' \in [Jobs -> Record]
    BY <1>6, <2>1, RecordUpdates DEF FinishKept, WriteStatus, Statuses
  <2>3. QED
    BY <1>6, <2>1, <2>2 DEF FinishKept, Conclude, WriteStatus
<1>7. ASSUME NEW j \in Jobs, FinishForgotten(j) PROVE TypeOK'
  <2>1. event' \in [Jobs -> Event]
    BY <1>7, ConcludeEvent DEF FinishForgotten
  <2>2. QED
    BY <1>7, <2>1 DEF FinishForgotten, Conclude
<1>8. ASSUME NEW j \in Jobs, OutcomeWritten(j) PROVE TypeOK'
  BY <1>8, RecordUpdates, EventFields DEF OutcomeWritten, WriteOutcome
<1>9. ASSUME NEW j \in Jobs, TimesWritten(j) PROVE TypeOK'
  BY <1>9, RecordUpdates DEF TimesWritten, WriteTimes
<1>10. ASSUME NEW j \in Jobs, CopySubscribers(j) PROVE TypeOK'
  BY <1>10 DEF CopySubscribers
<1>11. ASSUME NEW j \in Jobs, NEW s \in Streams, OfferOne(j, s) PROVE TypeOK'
  BY <1>11 DEF OfferOne, Offer
<1>12. ASSUME NEW j \in Jobs, Published(j) PROVE TypeOK'
  BY <1>12 DEF Published
<1>13. ASSUME NEW j \in Jobs, TimePasses(j) PROVE TypeOK'
  BY <1>13 DEF TimePasses, GrowsOld
<1>14. ASSUME NEW p \in Pollers, NEW j \in Jobs, PollGet(p, j) PROVE TypeOK'
  <2> DEFINE kept == j \in present'
  <2>0. /\ draft[p] \in Draft
        /\ ppc' = IF kept THEN [ppc EXCEPT ![p] = "result"] ELSE ppc
        /\ draft' = IF kept THEN [draft EXCEPT ![p] = [NoDraft EXCEPT !.job = j]] ELSE draft
        /\ reply' = IF kept THEN reply ELSE [reply EXCEPT ![p] = NotFound(j)]
    BY <1>14 DEF PollGet
  <2>1. draft' \in [Pollers -> Draft] /\ ppc' \in [Pollers -> PollPC]
    BY <2>0, DraftTypes
  <2>2. reply' \in [Pollers -> Reply]
    BY <2>0, ReplyTypes
  <2>3. QED
    BY <1>14, <2>1, <2>2 DEF PollGet, Get, CleanupExpired, Expired
<1>15. ASSUME NEW p \in Pollers, ReadResult(p) PROVE TypeOK'
  <2>1. rec[draft[p].job].result \in {None, Payload}
    BY <1>15, RecordFields DEF ReadResult, Linked
  <2>2. draft' \in [Pollers -> Draft]
    BY <1>15, <2>1, DraftTypes DEF ReadResult
  <2>3. QED
    BY <1>15, <2>2 DEF ReadResult
<1>16. ASSUME NEW p \in Pollers, ReadStatus(p) PROVE TypeOK'
  <2>1. rec[draft[p].job].status \in Statuses
    BY <1>16, RecordFields DEF ReadStatus, Linked
  <2>2. draft' \in [Pollers -> Draft]
    BY <1>16, <2>1, DraftTypes DEF ReadStatus
  <2>3. QED
    BY <1>16, <2>2 DEF ReadStatus
<1>17. ASSUME NEW p \in Pollers, PollAnswer(p) PROVE TypeOK'
  <2>1. rec[draft[p].job].error \in Errors
    BY <1>17, RecordFields DEF PollAnswer, Linked
  <2>2. draft' \in [Pollers -> Draft] /\ reply' \in [Pollers -> Reply]
    BY <1>17, <2>1, DraftTypes, ReplyTypes DEF PollAnswer
  <2>3. QED
    BY <1>17, <2>2 DEF PollAnswer
<1>18. ASSUME NEW s \in Streams, NEW j \in Jobs, StreamOpen(s, j) PROVE TypeOK'
  BY <1>18 DEF StreamOpen, Get, CleanupExpired, Expired
<1>19. ASSUME NEW s \in Streams, StreamCheck(s) PROVE TypeOK'
  BY <1>19 DEF StreamCheck, IsTerminal
<1>20. ASSUME NEW s \in Streams, StreamSubscribe(s) PROVE TypeOK'
  BY <1>20 DEF StreamSubscribe, Subscribe
<1>21. ASSUME NEW s \in Streams, StreamBegin(s) PROVE TypeOK'
  BY <1>21 DEF StreamBegin
<1>22. ASSUME NEW s \in Streams, StreamReceive(s) PROVE TypeOK'
  BY <1>22, EventFields DEF StreamReceive
<1>23. ASSUME NEW s \in Streams, StreamTimeout(s) PROVE TypeOK'
  BY <1>23 DEF StreamTimeout
<1>24. ASSUME NEW s \in Streams, StreamGet(s) PROVE TypeOK'
  BY <1>24 DEF StreamGet, Get, CleanupExpired, Expired
<1>25. ASSUME NEW s \in Streams, StreamReread(s) PROVE TypeOK'
  BY <1>25 DEF StreamReread, IsTerminal
<1>26. ASSUME NEW s \in Streams, StreamAlreadyDone(s) PROVE TypeOK'
  BY <1>26, MakeCompleteType DEF StreamAlreadyDone
<1>27. ASSUME NEW s \in Streams, StreamFinal(s) PROVE TypeOK'
  BY <1>27, MakeCompleteType DEF StreamFinal
<1>28. ASSUME NEW s \in Streams, StreamClose(s) PROVE TypeOK'
  BY <1>28 DEF StreamClose, Unsubscribe
<1>29. ASSUME NEW s \in Streams, Disconnect(s) PROVE TypeOK'
  <2>1. spc' \in [Streams -> StreamPC]
    BY <1>29 DEF Disconnect
  <2>2. QED
    BY <1>29, <2>1 DEF Disconnect
<1>30. CASE UNCHANGED vars
  BY <1>30 DEF vars
<1>31. QED
  BY <1>1, <1>2, <1>3, <1>4, <1>5, <1>6, <1>7, <1>8, <1>9, <1>10, <1>11,
     <1>12, <1>13, <1>14, <1>15, <1>16, <1>17, <1>18, <1>19, <1>20, <1>21,
     <1>22, <1>23, <1>24, <1>25, <1>26, <1>27, <1>28, <1>29, <1>30 DEF Next,
     Worker, Poll, StreamStep


(***************************************************************************)
(* Who takes a step, and what the others see of it.                        *)
(***************************************************************************)
JobStep   == \E j \in Jobs : Submit(j) \/ Worker(j) \/ TimePasses(j)
PollStep  == \E p \in Pollers : Poll(p)
WatchStep == \E s \in Streams :
  StreamStep(s) \/ Disconnect(s) \/ \E j \in Jobs : StreamOpen(s, j)

(* A step of the service is a step of a job, a poller or a stream.         *)
LEMMA Steps == [Next]_vars <=> JobStep \/ PollStep \/ WatchStep \/ UNCHANGED vars
  BY DEF Next, JobStep, PollStep, WatchStep

(* Requests may expire jobs while the lock is free, and change nothing     *)
(* else of the jobs and their workers.                                     *)
JobsKept ==
  /\ UNCHANGED <<rec, lock, wpc, logged, event, targets>>
  /\ present' \subseteq present
  /\ present' = present \/ Unlocked

(* A request or worker thread of a job leaves pollers and streams alone,   *)
(* and forgets no job.                                                     *)
LEMMA JobFrame ==
  ASSUME JobStep
  PROVE  UNCHANGED <<ppc, draft, reply, spc, sjob, seen, told>>
         /\ present \subseteq present'
  BY DEF JobStep, Worker, Submit, StartKept, StartForgotten, Started, Log,
         FinishKept, FinishForgotten, Conclude, OutcomeWritten, TimesWritten,
         CopySubscribers, OfferOne, Published, TimePasses, Create, WriteStatus,
         WriteStarted, RecordProgress, WriteOutcome, WriteTimes, GrowsOld,
         storeVars, pollVars, streamVars

(* A poller may expire jobs, and changes nothing else outside itself.      *)
LEMMA PollFrame ==
  ASSUME PollStep
  PROVE  /\ JobsKept
         /\ UNCHANGED <<queue, spc, sjob, seen, told>>
         /\ \A k \in Jobs : subs'[k] \subseteq subs[k]
  BY DEF PollStep, Poll, PollGet, ReadResult, ReadStatus, PollAnswer, Get,
         CleanupExpired, Expired, storeVars, workerVars, streamVars, JobsKept

(* A stream may expire jobs, and leaves records, workers and pollers       *)
(* alone.                                                                  *)
LEMMA WatchFrame ==
  ASSUME WatchStep
  PROVE  JobsKept /\ UNCHANGED <<ppc, draft, reply>>
  BY DEF WatchStep, StreamStep, Disconnect, StreamOpen, StreamCheck,
         StreamSubscribe, StreamBegin, StreamReceive, StreamTimeout, StreamGet,
         StreamReread, StreamAlreadyDone, StreamFinal, StreamClose, Get,
         CleanupExpired, Expired, Subscribe, Unsubscribe, MakeComplete,
         storeVars, workerVars, pollVars, JobsKept

(* A job that was created stays so. *)
CreatedStay ==
  /\ \A k \in Jobs : wpc[k] # "none" => wpc'[k] # "none"
  /\ \A k \in present' : wpc'[k] # "none"

(* Whatever a worker does, a job that was created stays so.                *)
LEMMA CreatedStays ==
  ASSUME TypeOK, Linked, JobStep
  PROVE  CreatedStay
<1>1. ASSUME NEW j \in Jobs, Submit(j) \/ Worker(j) \/ TimePasses(j)
      PROVE  CreatedStay
  <2> USE DEF WorkerAt, Unlocked, storeVars, workerVars, pollVars,
     streamVars, CreatedStay, TypeOK, StoreTypeOK, Linked
  <2>1. CASE Submit(j)
    BY <2>1 DEF Submit, Create
  <2>2. CASE StartKept(j)
    BY <2>2 DEF StartKept, WriteStatus
  <2>3. CASE StartForgotten(j)
    BY <2>3 DEF StartForgotten
  <2>4. CASE Started(j)
    BY <2>4 DEF Started, WriteStarted
  <2>5. CASE Log(j)
    BY <2>5 DEF Log, RecordProgress, NewStage
  <2>6. CASE FinishKept(j)
    BY <2>6 DEF FinishKept, Conclude, Outcomes, WriteStatus
  <2>7. CASE FinishForgotten(j)
    BY <2>7 DEF FinishForgotten, Conclude, Outcomes
  <2>8. CASE OutcomeWritten(j)
    BY <2>8 DEF OutcomeWritten, WriteOutcome
  <2>9. CASE TimesWritten(j)
    BY <2>9 DEF TimesWritten, WriteTimes
  <2>10. CASE CopySubscribers(j)
    BY <2>10 DEF CopySubscribers
  <2>11. ASSUME NEW s \in Streams, OfferOne(j, s) PROVE CreatedStay
    BY <2>11 DEF OfferOne, Offer
  <2>12. CASE Published(j)
    BY <2>12 DEF Published
  <2>13. CASE TimePasses(j)
    BY <2>13 DEF TimePasses, GrowsOld
  <2>14. QED
    BY <1>1, <2>1, <2>2, <2>3, <2>4, <2>5, <2>6, <2>7, <2>8, <2>9, <2>10,
       <2>11, <2>12, <2>13 DEF Worker
<1>2. QED
  BY <1>1 DEF JobStep

(* A request that holds a dictionary keeps following a created job.        *)
LEMMA LinkedStep ==
  ASSUME TypeOK, Linked, [Next]_vars
  PROVE  Linked'
<1>1. CASE JobStep
  BY <1>1, CreatedStays, JobFrame DEF Linked, CreatedStay
<1>2. ASSUME NEW p \in Pollers, Poll(p)
      PROVE  Linked'
  <2> USE DEF WorkerAt, Unlocked, storeVars, workerVars, pollVars,
     streamVars, Linked, TypeOK
  <2>1. ASSUME NEW j \in Jobs, PollGet(p, j) PROVE Linked'
    <3>1. j \in Jobs /\ wpc[j] # "none"
      BY <2>1 DEF PollGet
    <3>2. CASE j \in present'
      <4>1. /\ draft' = [draft EXCEPT ![p] = [NoDraft EXCEPT !.job = j]]
            /\ [NoDraft EXCEPT !.job = j].job = j
        BY <2>1, <3>2 DEF PollGet, NoDraft
      <4>2. QED
        BY <2>1, <1>2, <3>1, <4>1, PollFrame DEF PollStep, JobsKept, PollGet
    <3>3. CASE j \notin present'
      BY <2>1, <1>2, <3>3, PollFrame DEF PollStep, JobsKept, PollGet
    <3>4. QED
      BY <3>2, <3>3
  <2>2. CASE ReadResult(p)
    <3>1. [draft[p] EXCEPT !.result = rec[draft[p].job].result].job = draft[p].job
      BY DEF Draft
    <3>2. QED
      BY <2>2, <3>1 DEF ReadResult
  <2>3. CASE ReadStatus(p)
    <3>1. [draft[p] EXCEPT !.status = rec[draft[p].job].status].job = draft[p].job
      BY DEF Draft
    <3>2. QED
      BY <2>3, <3>1 DEF ReadStatus
  <2>4. CASE PollAnswer(p)
    BY <2>4 DEF PollAnswer
  <2>5. QED
    BY <1>2, <2>1, <2>2, <2>3, <2>4 DEF Poll
<1>3. ASSUME NEW s \in Streams,
             StreamStep(s) \/ Disconnect(s) \/ \E j \in Jobs : StreamOpen(s, j)
      PROVE  Linked'
  <2> USE DEF StreamAt, Unlocked, storeVars, workerVars, pollVars,
     streamVars, Linked, TypeOK, IsTerminal, Get, CleanupExpired, Expired,
     MakeComplete
  <2>1. ASSUME NEW j \in Jobs, StreamOpen(s, j) PROVE Linked'
    BY <2>1 DEF StreamOpen, Get, CleanupExpired, Expired
  <2>2. CASE StreamCheck(s)
    BY <2>2 DEF StreamCheck, IsTerminal
  <2>3. CASE StreamSubscribe(s)
    BY <2>3 DEF StreamSubscribe, Subscribe
  <2>4. CASE StreamBegin(s)
    BY <2>4 DEF StreamBegin
  <2>5. CASE StreamReceive(s)
    BY <2>5 DEF StreamReceive
  <2>6. CASE StreamTimeout(s)
    BY <2>6 DEF StreamTimeout
  <2>7. CASE StreamGet(s)
    BY <2>7 DEF StreamGet, Get, CleanupExpired, Expired
  <2>8. CASE StreamReread(s)
    BY <2>8 DEF StreamReread, IsTerminal
  <2>9. CASE StreamAlreadyDone(s)
    BY <2>9 DEF StreamAlreadyDone, MakeComplete
  <2>10. CASE StreamFinal(s)
    BY <2>10 DEF StreamFinal, MakeComplete
  <2>11. CASE StreamClose(s)
    BY <2>11 DEF StreamClose, Unsubscribe
  <2>12. CASE Disconnect(s)
    BY <2>12 DEF Disconnect
  <2>13. QED
    BY <1>3, <2>1, <2>2, <2>3, <2>4, <2>5, <2>6, <2>7, <2>8, <2>9, <2>10,
       <2>11, <2>12 DEF StreamStep
<1>4. CASE UNCHANGED vars
  BY <1>4 DEF vars, storeVars, workerVars, pollVars, streamVars, Linked
<1>5. QED
  BY <1>1, <1>2, <1>3, <1>4, Steps DEF PollStep, WatchStep

(* The lock is taken and given back only by the workers that write.        *)
LEMMA LockHeldStep ==
  ASSUME TypeOK, LockHeld, [Next]_vars
  PROVE  LockHeld'
<1>1. ASSUME NEW j \in Jobs, Submit(j) \/ Worker(j) \/ TimePasses(j)
      PROVE  LockHeld'
  <2> USE DEF WorkerAt, Unlocked, storeVars, workerVars, pollVars,
     streamVars, LockHeld, Writing, TypeOK, StoreTypeOK
  <2>1. CASE Submit(j)
    BY <2>1, NobodyAssumption DEF Submit, Create
  <2>2. CASE StartKept(j)
    BY <2>2, NobodyAssumption DEF StartKept, WriteStatus
  <2>3. CASE StartForgotten(j)
    BY <2>3, NobodyAssumption DEF StartForgotten
  <2>4. CASE Started(j)
    BY <2>4, NobodyAssumption DEF Started, WriteStarted
  <2>5. CASE Log(j)
    BY <2>5, NobodyAssumption DEF Log, RecordProgress, NewStage
  <2>6. CASE FinishKept(j)
    BY <2>6, NobodyAssumption DEF FinishKept, Conclude, Outcomes, WriteStatus
  <2>7. CASE FinishForgotten(j)
    BY <2>7, NobodyAssumption DEF FinishForgotten, Conclude, Outcomes
  <2>8. CASE OutcomeWritten(j)
    BY <2>8, NobodyAssumption DEF OutcomeWritten, WriteOutcome
  <2>9. CASE TimesWritten(j)
    BY <2>9, NobodyAssumption DEF TimesWritten, WriteTimes
  <2>10. CASE CopySubscribers(j)
    BY <2>10, NobodyAssumption DEF CopySubscribers
  <2>11. ASSUME NEW s \in Streams, OfferOne(j, s) PROVE LockHeld'
    BY <2>11, NobodyAssumption DEF OfferOne, Offer
  <2>12. CASE Published(j)
    BY <2>12, NobodyAssumption DEF Published
  <2>13. CASE TimePasses(j)
    BY <2>13, NobodyAssumption DEF TimePasses, GrowsOld
  <2>14. QED
    BY <1>1, <2>1, <2>2, <2>3, <2>4, <2>5, <2>6, <2>7, <2>8, <2>9, <2>10,
       <2>11, <2>12, <2>13 DEF Worker
<1>2. CASE PollStep \/ WatchStep
  BY <1>2, PollFrame, WatchFrame, NobodyAssumption DEF JobsKept,
     LockHeld, Writing, Unlocked
<1>3. CASE UNCHANGED vars
  BY <1>3 DEF vars, storeVars, workerVars, LockHeld
<1>4. QED
  BY <1>1, <1>2, <1>3, Steps DEF JobStep

(* A worker's event goes on matching the place it stands at.               *)
LEMMA EventMatchesStep ==
  ASSUME TypeOK, EventMatches, [Next]_vars
  PROVE  EventMatches'
<1>1. ASSUME NEW j \in Jobs, Submit(j) \/ Worker(j) \/ TimePasses(j)
      PROVE  EventMatches'
  <2> USE DEF WorkerAt, Unlocked, storeVars, workerVars, pollVars,
     streamVars, EventMatches, Concluded, TypeOK
  <2>1. CASE Submit(j)
    BY <2>1 DEF Submit, Create
  <2>2. CASE StartKept(j)
    BY <2>2 DEF StartKept, WriteStatus
  <2>3. CASE StartForgotten(j)
    BY <2>3 DEF StartForgotten
  <2>4. CASE Started(j)
    BY <2>4 DEF Started, WriteStarted
  <2>5. CASE Log(j)
    BY <2>5 DEF Log, RecordProgress, NewStage, ProgressEvent
  <2>6. CASE FinishKept(j)
    <3>1. Conclude(j, "finishing")
      BY <2>6 DEF FinishKept
    <3>2. wpc' = [wpc EXCEPT ![j] = "finishing"]
      BY <3>1 DEF Conclude
    <3>3. QED
      BY <3>1, <3>2, ConcludeEvent
  <2>7. CASE FinishForgotten(j)
    <3>1. Conclude(j, "copying")
      BY <2>7 DEF FinishForgotten
    <3>2. QED
      BY <3>1, ConcludeEvent DEF Conclude
  <2>8. CASE OutcomeWritten(j)
    BY <2>8 DEF OutcomeWritten, WriteOutcome
  <2>9. CASE TimesWritten(j)
    BY <2>9 DEF TimesWritten, WriteTimes
  <2>10. CASE CopySubscribers(j)
    BY <2>10 DEF CopySubscribers
  <2>11. ASSUME NEW s \in Streams, OfferOne(j, s) PROVE EventMatches'
    BY <2>11 DEF OfferOne, Offer
  <2>12. CASE Published(j)
    BY <2>12 DEF Published
  <2>13. CASE TimePasses(j)
    BY <2>13 DEF TimePasses, GrowsOld
  <2>14. QED
    BY <1>1, <2>1, <2>2, <2>3, <2>4, <2>5, <2>6, <2>7, <2>8, <2>9, <2>10,
       <2>11, <2>12, <2>13 DEF Worker
<1>2. CASE PollStep \/ WatchStep
  BY <1>2, PollFrame, WatchFrame DEF JobsKept, EventMatches, Concluded
<1>3. CASE UNCHANGED vars
  BY <1>3 DEF vars, workerVars, EventMatches, Concluded
<1>4. QED
  BY <1>1, <1>2, <1>3, Steps DEF JobStep

(* A job's record goes on matching the place its worker stands at.         *)
LEMMA RecordMatchesStep ==
  ASSUME TypeOK, Linked, LockHeld, EventMatches, RecordMatches, [Next]_vars
  PROVE  RecordMatches'
<1>1. ASSUME NEW j \in Jobs, Submit(j) \/ Worker(j) \/ TimePasses(j)
      PROVE  RecordMatches'
  <2> USE DEF WorkerAt, Unlocked, storeVars, workerVars, pollVars,
     streamVars, TypeOK, StoreTypeOK, RecordMatches, EventMatches,
     Concluded, Phase, Terminal, None
  <2>1. CASE Submit(j)
    <3>1. j \notin present
      BY <2>1 DEF Submit, Linked
    <3>2. QED
      BY <2>1, <3>1 DEF Submit, Create, FreshRecord
  <2>2. CASE StartKept(j)
    BY <2>2 DEF StartKept, WriteStatus, LockHeld
  <2>3. CASE StartForgotten(j)
    BY <2>3 DEF StartForgotten
  <2>4. CASE Started(j)
    BY <2>4 DEF Started, WriteStarted
  <2>5. CASE Log(j)
    BY <2>5 DEF Log, RecordProgress, NewStage, ProgressEvent
  <2>6. CASE FinishKept(j)
    <3>1. Conclude(j, "finishing")
      BY <2>6 DEF FinishKept
    <3>2. /\ wpc[j] = "working"
          /\ wpc' = [wpc EXCEPT ![j] = "finishing"]
          /\ rec' = [rec EXCEPT ![j].status = event'[j].status]
          /\ present' = present
      BY <2>6, <3>1 DEF FinishKept, Conclude, WriteStatus
    <3>3. QED
      BY <3>1, <3>2, ConcludeEvent
  <2>7. CASE FinishForgotten(j)
    <3>1. Conclude(j, "copying")
      BY <2>7 DEF FinishForgotten
    <3>2. /\ wpc[j] = "working"
          /\ wpc' = [wpc EXCEPT ![j] = "copying"]
          /\ UNCHANGED <<rec, present>>
          /\ j \notin present
      BY <2>7, <3>1 DEF FinishForgotten, Conclude
    <3>3. QED
      BY <3>1, <3>2, ConcludeEvent
  <2>8. CASE OutcomeWritten(j)
    BY <2>8 DEF OutcomeWritten, WriteOutcome, Payload, LockHeld, Writing
  <2>9. CASE TimesWritten(j)
    BY <2>9 DEF TimesWritten, WriteTimes, LockHeld, Writing
  <2>10. CASE CopySubscribers(j)
    BY <2>10 DEF CopySubscribers
  <2>11. ASSUME NEW s \in Streams, OfferOne(j, s) PROVE RecordMatches'
    BY <2>11 DEF OfferOne, Offer
  <2>12. CASE Published(j)
    BY <2>12 DEF Published
  <2>13. CASE TimePasses(j)
    BY <2>13 DEF TimePasses, GrowsOld
  <2>14. QED
    BY <1>1, <2>1, <2>2, <2>3, <2>4, <2>5, <2>6, <2>7, <2>8, <2>9, <2>10,
       <2>11, <2>12, <2>13 DEF Worker
<1>2. CASE PollStep \/ WatchStep
  BY <1>2, PollFrame, WatchFrame DEF JobsKept, RecordMatches, Concluded, Phase
<1>3. CASE UNCHANGED vars
  BY <1>3 DEF vars, storeVars, workerVars, RecordMatches, Concluded, Phase
<1>4. QED
  BY <1>1, <1>2, <1>3, Steps DEF JobStep

(* What is settled stays settled. *)
Settled ==
  \A k \in Jobs :
    /\ rec[k].status \in Terminal => rec'[k].status = rec[k].status
    /\ Concluded(k) => event'[k] = event[k]

(* A terminal status and a concluding event never change.                  *)
LEMMA SettledStays ==
  ASSUME TypeOK, Linked, EventMatches, RecordMatches, [Next]_vars
  PROVE  Settled
<1>1. ASSUME NEW j \in Jobs, Submit(j) \/ Worker(j) \/ TimePasses(j)
      PROVE  Settled
  <2> USE DEF WorkerAt, Unlocked, storeVars, workerVars, pollVars,
     streamVars, TypeOK, StoreTypeOK, RecordMatches, EventMatches, Settled
  <2>1. CASE Submit(j)
    BY <2>1 DEF Submit, Create
  <2>2. CASE StartKept(j)
    BY <2>2 DEF StartKept, WriteStatus
  <2>3. CASE StartForgotten(j)
    BY <2>3 DEF StartForgotten
  <2>4. CASE Started(j)
    BY <2>4 DEF Started, WriteStarted
  <2>5. CASE Log(j)
    BY <2>5 DEF Log, RecordProgress, NewStage
  <2>6. CASE FinishKept(j)
    <3>1. Conclude(j, "finishing")
      BY <2>6 DEF FinishKept
    <3>2. /\ wpc[j] = "working"
          /\ rec' = [rec EXCEPT ![j].status = event'[j].status]
      BY <2>6, <3>1 DEF FinishKept, Conclude, WriteStatus
    <3>3. QED
      BY <3>1, <3>2, ConcludeEvent
  <2>7. CASE FinishForgotten(j)
    <3>1. Conclude(j, "copying")
      BY <2>7 DEF FinishForgotten
    <3>2. wpc[j] = "working" /\ UNCHANGED rec
      BY <2>7, <3>1 DEF FinishForgotten, Conclude
    <3>3. QED
      BY <3>1, <3>2, ConcludeEvent
  <2>8. CASE OutcomeWritten(j)
    BY <2>8 DEF OutcomeWritten, WriteOutcome
  <2>9. CASE TimesWritten(j)
    BY <2>9 DEF TimesWritten, WriteTimes
  <2>10. CASE CopySubscribers(j)
    BY <2>10 DEF CopySubscribers
  <2>11. ASSUME NEW s \in Streams, OfferOne(j, s) PROVE Settled
    BY <2>11 DEF OfferOne, Offer
  <2>12. CASE Published(j)
    BY <2>12 DEF Published
  <2>13. CASE TimePasses(j)
    BY <2>13 DEF TimePasses, GrowsOld
  <2>14. QED
    BY <1>1, <2>1, <2>2, <2>3, <2>4, <2>5, <2>6, <2>7, <2>8, <2>9, <2>10,
       <2>11, <2>12, <2>13 DEF Worker
<1>2. CASE PollStep \/ WatchStep
  BY <1>2, PollFrame, WatchFrame DEF JobsKept, Settled
<1>3. CASE UNCHANGED vars
  BY <1>3 DEF vars, storeVars, workerVars, Settled
<1>4. QED
  BY <1>1, <1>2, <1>3, Steps DEF JobStep

(* A poller that read a result before complete() wrote the status is       *)
(* impossible: result and status of a draft, and so of an answer, agree.   *)
LEMMA DraftStep ==
  ASSUME TypeOK, Linked, EventMatches, RecordMatches, DraftMatches,
         ResultOnlyIfCompleted, [Next]_vars
  PROVE  DraftMatches' /\ ResultOnlyIfCompleted'
<1>1. CASE JobStep
  BY <1>1, JobFrame, SettledStays DEF DraftMatches,
     ResultOnlyIfCompleted, Settled,
     Linked, Terminal
<1>2. ASSUME NEW p \in Pollers, Poll(p)
      PROVE  DraftMatches' /\ ResultOnlyIfCompleted'
  <2> USE DEF WorkerAt, Unlocked, storeVars, workerVars, pollVars,
     streamVars, TypeOK, StoreTypeOK, DraftMatches, ResultOnlyIfCompleted,
     Linked
  <2>1. ASSUME NEW j \in Jobs, PollGet(p, j)
        PROVE DraftMatches' /\ ResultOnlyIfCompleted'
    <3>1. UNCHANGED rec
      BY <1>2, PollFrame DEF PollStep, JobsKept
    <3>2. /\ ppc' = IF j \in present' THEN [ppc EXCEPT ![p] = "result"] ELSE ppc
          /\ draft' = IF j \in present'
                      THEN [draft EXCEPT ![p] = [NoDraft EXCEPT !.job = j]] ELSE draft
          /\ reply' = IF j \in present' THEN reply ELSE [reply EXCEPT ![p] = NotFound(j)]
      BY <2>1 DEF PollGet
    <3>3. NotFound(j).result = None
      BY DEF NotFound
    <3>4. QED
      BY <3>1, <3>2, <3>3
  <2>2. CASE ReadResult(p)
    <3>1. /\ draft' = [draft EXCEPT ![p].result = rec[draft[p].job].result]
          /\ draft'[p].job = draft[p].job
          /\ draft'[p].result = rec[draft[p].job].result
      BY <2>2 DEF ReadResult, Draft
    <3>2. draft'[p].result # None => rec[draft[p].job].status = "completed"
      BY <3>1, <2>2 DEF ReadResult, RecordMatches
    <3>3. QED
      BY <2>2, <3>1, <3>2 DEF ReadResult
  <2>3. CASE ReadStatus(p)
    <3>1. /\ draft' = [draft EXCEPT ![p].status = rec[draft[p].job].status]
          /\ draft'[p].result = draft[p].result
          /\ draft'[p].status = rec[draft[p].job].status
      BY <2>3 DEF ReadStatus, Draft
    <3>2. QED
      BY <2>3, <3>1 DEF ReadStatus
  <2>4. CASE PollAnswer(p)
    <3>1. /\ reply'[p].result = draft[p].result
          /\ reply'[p].status = draft[p].status
          /\ \A q \in Pollers \ {p} : reply'[q] = reply[q]
      BY <2>4 DEF PollAnswer
    <3>2. QED
      BY <2>4, <3>1 DEF PollAnswer
  <2>5. QED
    BY <1>2, <2>1, <2>2, <2>3, <2>4 DEF Poll
<1>3. CASE WatchStep
  BY <1>3, WatchFrame DEF JobsKept, DraftMatches, ResultOnlyIfCompleted
<1>4. CASE UNCHANGED vars
  BY <1>4 DEF vars, storeVars, pollVars, DraftMatches, ResultOnlyIfCompleted
<1>5. QED
  BY <1>1, <1>2, <1>3, <1>4, Steps DEF PollStep

(* unsubscribe() and _cleanup_expired() leave no queue of a closed stream  *)
(* in _subscribers.                                                        *)
LEMMA LeakStep ==
  ASSUME TypeOK, Linked, NoLeakedSubscriber, [Next]_vars
  PROVE  NoLeakedSubscriber'
<1>1. CASE JobStep
  <2>1. UNCHANGED subs
    BY <1>1 DEF JobStep, Worker, Submit, StartKept, StartForgotten,
       Started, Log,
         FinishKept, FinishForgotten, Conclude, OutcomeWritten, TimesWritten,
         CopySubscribers, OfferOne, Published, TimePasses, Create, WriteStatus,
         WriteStarted, RecordProgress, WriteOutcome, WriteTimes, GrowsOld,
         storeVars, pollVars, streamVars
  <2>2. QED
    BY <1>1, <2>1, JobFrame DEF NoLeakedSubscriber, Listening
<1>2. CASE PollStep
  BY <1>2, PollFrame DEF NoLeakedSubscriber, Listening
<1>3. ASSUME NEW s \in Streams,
             StreamStep(s) \/ Disconnect(s) \/ \E j \in Jobs : StreamOpen(s, j)
      PROVE  NoLeakedSubscriber'
  <2> USE DEF StreamAt, Unlocked, storeVars, workerVars, pollVars,
     streamVars, TypeOK, StoreTypeOK, Linked, NoLeakedSubscriber, Listening
  <2>1. ASSUME NEW j \in Jobs, StreamOpen(s, j) PROVE NoLeakedSubscriber'
    BY <2>1 DEF StreamOpen, Get, CleanupExpired, Expired
  <2>2. CASE StreamCheck(s)
    BY <2>2 DEF StreamCheck, IsTerminal
  <2>3. CASE StreamSubscribe(s)
    BY <2>3 DEF StreamSubscribe, Subscribe
  <2>4. CASE StreamBegin(s)
    BY <2>4 DEF StreamBegin
  <2>5. CASE StreamReceive(s)
    BY <2>5 DEF StreamReceive
  <2>6. CASE StreamTimeout(s)
    BY <2>6 DEF StreamTimeout
  <2>7. CASE StreamGet(s)
    BY <2>7 DEF StreamGet, Get, CleanupExpired, Expired
  <2>8. CASE StreamReread(s)
    BY <2>8 DEF StreamReread, IsTerminal
  <2>9. CASE StreamAlreadyDone(s)
    BY <2>9 DEF StreamAlreadyDone, MakeComplete
  <2>10. CASE StreamFinal(s)
    BY <2>10 DEF StreamFinal, MakeComplete
  <2>11. CASE StreamClose(s)
    BY <2>11 DEF StreamClose, Unsubscribe
  <2>12. CASE Disconnect(s)
    <3>1. CASE StreamAt(s, "waiting", "closing")
      BY <2>12, <3>1 DEF Disconnect
    <3>2. CASE StreamAt(s, "polling", "closing")
      BY <2>12, <3>2 DEF Disconnect
    <3>3. CASE StreamAt(s, "already", "closed")
      BY <2>12, <3>3 DEF Disconnect
    <3>4. CASE StreamAt(s, "ready", "abandoned")
      BY <2>12, <3>4 DEF Disconnect
    <3>5. QED
      BY <2>12, <3>1, <3>2, <3>3, <3>4 DEF Disconnect
  <2>13. QED
    BY <1>3, <2>1, <2>2, <2>3, <2>4, <2>5, <2>6, <2>7, <2>8, <2>9, <2>10,
       <2>11, <2>12 DEF StreamStep
<1>4. CASE UNCHANGED vars
  BY <1>4 DEF vars, storeVars, streamVars, NoLeakedSubscriber, Listening
<1>5. QED
  BY <1>1, <1>2, <1>3, <1>4, Steps DEF WatchStep

(* The elements of a queue after an event was appended.                    *)
LEMMA AppendedElement ==
  ASSUME NEW q \in Seq(Event), NEW e \in Event, NEW i \in 1 .. Len(Append(q, e))
  PROVE  \/ Append(q, e)[i] = e
         \/ i \in 1 .. Len(q) /\ Append(q, e)[i] = q[i]
<1>1. Len(Append(q, e)) = Len(q) + 1 /\ Len(q) \in Nat
  OBVIOUS
<1>2. Append(q, e)[Len(q) + 1] = e
  OBVIOUS
<1>3. \A k \in 1 .. Len(q) : Append(q, e)[k] = q[k]
  OBVIOUS
<1>4. i = Len(q) + 1 \/ i \in 1 .. Len(q)
  BY <1>1
<1>5. QED
  BY <1>2, <1>3, <1>4

(* Only publish() touches the queues and the copied subscriber lists.      *)
LEMMA PublishFrame ==
  ASSUME NEW j \in Jobs, Submit(j) \/ Worker(j) \/ TimePasses(j)
  PROVE  \/ UNCHANGED <<queue, targets>>
         \/ CopySubscribers(j)
         \/ \E s \in Streams : OfferOne(j, s)
<1> USE DEF storeVars
<1>1. CASE Submit(j) \/ StartKept(j) \/ StartForgotten(j) \/ Started(j)
  BY <1>1 DEF Submit, StartKept, StartForgotten, Started, Create, WriteStatus,
              WriteStarted
<1>2. CASE Log(j)
  BY <1>2 DEF Log, RecordProgress
<1>3. CASE FinishKept(j) \/ FinishForgotten(j)
  BY <1>3 DEF FinishKept, FinishForgotten, Conclude, WriteStatus
<1>4. CASE OutcomeWritten(j) \/ TimesWritten(j)
  BY <1>4 DEF OutcomeWritten, TimesWritten, WriteOutcome, WriteTimes
<1>5. CASE Published(j) \/ TimePasses(j)
  BY <1>5 DEF Published, TimePasses, GrowsOld, workerVars
<1>6. QED
  BY <1>1, <1>2, <1>3, <1>4, <1>5 DEF Worker

(* What a step of one stream request leaves alone, and what it was told.   *)
Moves(s) ==
  /\ \A t \in Streams \ {s} : /\ spc'[t] = spc[t]
                              /\ sjob'[t] = sjob[t]
                              /\ told'[t] = told[t]
                              /\ queue'[t] = queue[t]
  /\ spc'[s] # "idle"
  /\ spc[s] # "idle" => sjob'[s] = sjob[s]
  /\ \/ queue'[s] = queue[s]
     \/ queue[s] # <<>> /\ queue'[s] = Tail(queue[s])
  /\ spc'[s] \in {"already", "final"} => spc[s] # "idle" /\ IsTerminal(s)
  /\ \/ told'[s] = told[s] /\ (spc[s] \in Told => spc'[s] \in Told)
     \/ /\ spc[s] = "waiting" /\ spc'[s] \in Told /\ UNCHANGED present
        /\ queue[s] # <<>> /\ told'[s] = Head(queue[s])
     \/ /\ spc[s] \in {"already", "final"} /\ spc'[s] \in Told /\ UNCHANGED present
        /\ told'[s].status = rec[sjob[s]].status

(* Every step of stream_job_events() moves its own stream only, and tells  *)
(* it an outcome in one of three ways.                                     *)
LEMMA WatchMoves ==
  ASSUME TypeOK, NEW s \in Streams,
         StreamStep(s) \/ Disconnect(s) \/ \E j \in Jobs : StreamOpen(s, j)
  PROVE  Moves(s)
<1> USE DEF StreamAt, Unlocked, storeVars, workerVars, pollVars,
   streamVars, TypeOK, StoreTypeOK, Moves, Told
<1>1. ASSUME NEW j \in Jobs, StreamOpen(s, j) PROVE Moves(s)
  BY <1>1 DEF StreamOpen, Get, CleanupExpired, Expired
<1>2. CASE StreamCheck(s)
  BY <1>2 DEF StreamCheck, IsTerminal
<1>3. CASE StreamSubscribe(s)
  BY <1>3 DEF StreamSubscribe, Subscribe
<1>4. CASE StreamBegin(s)
  BY <1>4 DEF StreamBegin
<1>5. CASE StreamReceive(s)
  BY <1>5 DEF StreamReceive
<1>6. CASE StreamTimeout(s)
  BY <1>6 DEF StreamTimeout
<1>7. CASE StreamGet(s)
  BY <1>7 DEF StreamGet, Get, CleanupExpired, Expired
<1>8. CASE StreamReread(s)
  BY <1>8 DEF StreamReread, IsTerminal
<1>9. CASE StreamAlreadyDone(s)
  <2>1. told'[s].status = rec[sjob[s]].status
    BY <1>9 DEF StreamAlreadyDone, MakeComplete, CompleteEvent
  <2>2. QED
    BY <1>9, <2>1 DEF StreamAlreadyDone, MakeComplete
<1>10. CASE StreamFinal(s)
  <2>1. told'[s].status = rec[sjob[s]].status
    BY <1>10 DEF StreamFinal, MakeComplete, CompleteEvent
  <2>2. QED
    BY <1>10, <2>1 DEF StreamFinal, MakeComplete
<1>11. CASE StreamClose(s)
  BY <1>11 DEF StreamClose, Unsubscribe
<1>12. CASE Disconnect(s)
  <2>1. UNCHANGED <<queue, told, sjob>>
    BY <1>12 DEF Disconnect
  <2>2. /\ spc[s] \in {"waiting", "polling", "already", "ready"}
        /\ spc'[s] \in {"closing", "closed", "abandoned"}
        /\ \A t \in Streams \ {s} : spc'[t] = spc[t]
    <3>1. CASE StreamAt(s, "waiting", "closing")
      BY <3>1
    <3>2. CASE StreamAt(s, "polling", "closing")
      BY <3>2
    <3>3. CASE StreamAt(s, "already", "closed")
      BY <3>3
    <3>4. CASE StreamAt(s, "ready", "abandoned")
      BY <3>4
    <3>5. QED
      BY <1>12, <3>1, <3>2, <3>3, <3>4 DEF Disconnect
  <2>3. QED
    BY <2>1, <2>2
<1>13. QED
  BY <1>1, <1>2, <1>3, <1>4, <1>5, <1>6, <1>7, <1>8, <1>9, <1>10, <1>11,
     <1>12 DEF StreamStep

(* The events in a stream's queue, and the terminal status it has seen, go *)
(* on being its job's.                                                     *)
LEMMA StreamMatchesStep ==
  ASSUME TypeOK, Linked, EventMatches, RecordMatches, StreamMatches,
         NoLeakedSubscriber, [Next]_vars
  PROVE  StreamMatches'
<1> USE DEF TypeOK, StoreTypeOK
<1>0. Settled
  BY SettledStays
<1>1. ASSUME NEW j \in Jobs, Submit(j) \/ Worker(j) \/ TimePasses(j)
      PROVE  StreamMatches'
  <2>1. /\ UNCHANGED <<spc, sjob, told>>
        /\ \A s \in Streams : IsTerminal(s) /\ sjob[s] \in Jobs => IsTerminal(s)'
    BY <1>1, <1>0, JobFrame DEF JobStep, Settled, IsTerminal
  <2>2. \A s \in Streams : \A i \in 1 .. Len(queue[s]) :
          queue[s][i].type = "complete" => queue[s][i] = event'[sjob[s]]
    BY <1>0 DEF StreamMatches, Settled, Linked, Concluded
  <2>3. CASE UNCHANGED <<queue, targets>>
    BY <2>1, <2>2, <2>3 DEF StreamMatches, Linked
  <2>4. CASE CopySubscribers(j)
    <3>1. \A s \in targets'[j] : sjob[s] = j /\ spc[s] # "idle"
      BY <2>4 DEF CopySubscribers, NoLeakedSubscriber, Listening
    <3>2. /\ UNCHANGED queue
          /\ \A k \in Jobs \ {j} : targets'[k] = targets[k]
      BY <2>4 DEF CopySubscribers, storeVars
    <3>3. QED
      BY <2>1, <2>2, <3>1, <3>2 DEF StreamMatches, Linked
  <2>5. ASSUME NEW s \in Streams, OfferOne(j, s)
        PROVE  StreamMatches'
    <3>1. /\ sjob[s] = j /\ spc[s] # "idle"
          /\ \A k \in Jobs : targets'[k] \subseteq targets[k]
          /\ UNCHANGED event
      BY <2>5 DEF OfferOne, StreamMatches
    <3>2. /\ \A t \in Streams \ {s} : queue'[t] = queue[t]
          /\ queue[s] \in Seq(Event) /\ event[j] \in Event
          /\ queue'[s] = queue[s] \/ queue'[s] = Append(queue[s], event[j])
      BY <2>5 DEF OfferOne, Offer
    <3>3. ASSUME NEW i \in 1 .. Len(queue'[s]), queue'[s][i].type = "complete"
          PROVE  queue'[s][i] = event[sjob[s]]
      <4>1. CASE queue'[s] = queue[s]
        BY <3>3, <4>1 DEF StreamMatches
      <4>2. CASE queue'[s] = Append(queue[s], event[j])
        <5>1. \/ queue'[s][i] = event[j]
              \/ i \in 1 .. Len(queue[s]) /\ queue'[s][i] = queue[s][i]
          BY <3>2, <3>3, <4>2, AppendedElement
        <5>2. QED
          BY <3>1, <3>3, <5>1 DEF StreamMatches
      <4>3. QED
        BY <3>2, <4>1, <4>2
    <3>4. \A t \in Streams : \A i \in 1 .. Len(queue'[t]) :
            /\ spc[t] # "idle"
            /\ queue'[t][i].type = "complete" => queue'[t][i] = event'[sjob[t]]
      <4>1. ASSUME NEW t \in Streams \ {s}, NEW i \in 1 .. Len(queue[t])
            PROVE  /\ spc[t] # "idle"
                   /\ queue[t][i].type = "complete" => queue[t][i] = event[sjob[t]]
        BY <4>1 DEF StreamMatches
      <4>2. ASSUME NEW t \in Streams, NEW i \in 1 .. Len(queue'[t])
            PROVE  /\ spc[t] # "idle"
                   /\ queue'[t][i].type = "complete" => queue'[t][i] = event'[sjob[t]]
        <5>1. CASE t = s
          BY <3>1, <3>3, <4>2, <5>1
        <5>2. CASE t # s
          BY <3>1, <3>2, <4>1, <4>2, <5>2
        <5>3. QED
          BY <5>1, <5>2
      <4>3. QED
        BY <4>2
    <3>5. \A k \in Jobs : \A t \in targets'[k] : sjob[t] = k /\ spc[t] # "idle"
      BY <3>1 DEF StreamMatches
    <3>6. QED
      BY <2>1, <3>4, <3>5 DEF StreamMatches, Linked
  <2>6. QED
    BY <1>1, <2>3, <2>4, <2>5, PublishFrame
<1>2. CASE PollStep
  BY <1>2, PollFrame DEF JobsKept, StreamMatches, IsTerminal
<1>3. ASSUME NEW s \in Streams,
             StreamStep(s) \/ Disconnect(s) \/ \E j \in Jobs : StreamOpen(s, j)
      PROVE  StreamMatches'
  <2>1. Moves(s)
    BY <1>3, WatchMoves
  <2>2. UNCHANGED <<rec, targets, event>>
    BY <1>3, WatchFrame DEF WatchStep, JobsKept
  <2>3. \A j \in Jobs : \A t \in targets'[j] : sjob'[t] = j /\ spc'[t] # "idle"
    BY <2>1, <2>2 DEF StreamMatches, Moves
  <2>4. ASSUME NEW t \in Streams, NEW i \in 1 .. Len(queue'[t])
        PROVE  /\ spc'[t] # "idle"
               /\ queue'[t][i].type = "complete" => queue'[t][i] = event'[sjob'[t]]
    <3>1. CASE queue'[t] = queue[t]
      <4>1. /\ spc[t] # "idle"
            /\ queue[t][i].type = "complete" => queue[t][i] = event[sjob[t]]
        BY <2>4, <3>1 DEF StreamMatches
      <4>2. spc'[t] # "idle" /\ sjob'[t] = sjob[t]
        BY <2>1, <4>1 DEF Moves
      <4>3. QED
        BY <2>2, <3>1, <4>1, <4>2
    <3>2. CASE t = s /\ queue[s] # <<>> /\ queue'[s] = Tail(queue[s])
      <4>1. i + 1 \in 1 .. Len(queue[s]) /\ queue'[s][i] = queue[s][i + 1]
        BY <2>4, <3>2
      <4>2. QED
        BY <2>1, <2>2, <3>2, <4>1 DEF StreamMatches, Moves
    <3>3. QED
      BY <2>1, <3>1, <3>2 DEF Moves
  <2>5. ASSUME NEW t \in Streams, told'[t].type = "complete"
        PROVE  spc'[t] \in Told
    <3>1. CASE told'[t] = told[t]
      BY <2>1, <2>5, <3>1 DEF StreamMatches, Moves
    <3>2. CASE told'[t] # told[t]
      BY <2>1, <3>2 DEF Moves
    <3>3. QED
      BY <3>1, <3>2
  <2>6. ASSUME NEW t \in Streams, spc'[t] \in {"already", "final"}
        PROVE  IsTerminal(t)'
    BY <2>1, <2>2, <2>6 DEF StreamMatches, Moves, IsTerminal
  <2>7. QED
    BY <2>3, <2>4, <2>5, <2>6 DEF StreamMatches
<1>4. CASE UNCHANGED vars
  BY <1>4 DEF vars, storeVars, workerVars, streamVars, StreamMatches, IsTerminal
<1>5. QED
  BY <1>1, <1>2, <1>3, <1>4, Steps DEF JobStep, WatchStep

(* Whatever way a stream learns the outcome, it is the job's.              *)
LEMMA ToldTheTruthStep ==
  ASSUME TypeOK, Linked, EventMatches, RecordMatches, StreamMatches,
         ToldTheTruth, [Next]_vars
  PROVE  ToldTheTruth'
<1>1. \A t \in Streams : told[t].type = "complete" =>
        /\ spc[t] # "idle" /\ sjob[t] \in Jobs
        /\ Concluded(sjob[t]) /\ told[t].status = event[sjob[t]].status
  BY DEF ToldTheTruth, Phase, StreamMatches, Told, Linked, Terminal
<1>2. SUFFICES \A t \in Streams : told'[t].type = "complete" =>
        /\ sjob'[t] \in Jobs
        /\ event'[sjob'[t]].type = "complete"
        /\ told'[t].status = event'[sjob'[t]].status
  BY EventMatchesStep DEF ToldTheTruth, Phase, EventMatches, Concluded
<1>3. Settled
  BY SettledStays
<1>4. CASE JobStep
  BY <1>1, <1>3, <1>4, JobFrame DEF Settled, Concluded
<1>5. CASE PollStep \/ UNCHANGED vars
  BY <1>1, <1>5, PollFrame DEF JobsKept, Concluded, vars, workerVars, streamVars
<1>6. ASSUME NEW s \in Streams,
             StreamStep(s) \/ Disconnect(s) \/ \E j \in Jobs : StreamOpen(s, j),
             NEW t \in Streams, told'[t].type = "complete"
      PROVE  /\ sjob'[t] \in Jobs
             /\ event'[sjob'[t]].type = "complete"
             /\ told'[t].status = event'[sjob'[t]].status
  <2>1. Moves(s)
    BY <1>6, WatchMoves
  <2>2. UNCHANGED event
    BY <1>6, WatchFrame DEF WatchStep, JobsKept
  <2>3. CASE told'[t] = told[t]
    BY <1>1, <1>6, <2>1, <2>2, <2>3 DEF Moves, Concluded
  <2>4. CASE t = s /\ queue[s] # <<>> /\ told'[s] = Head(queue[s])
    <3>1. 1 \in 1 .. Len(queue[s]) /\ queue[s][1] = Head(queue[s])
      BY <2>4 DEF TypeOK, StoreTypeOK
    <3>2. spc[s] # "idle" /\ told'[s] = event[sjob[s]]
      BY <1>6, <2>4, <3>1 DEF StreamMatches
    <3>3. QED
      BY <1>6, <2>1, <2>2, <2>4, <3>2 DEF Moves, Linked
  <2>5. CASE /\ t = s /\ spc[s] \in {"already", "final"}
             /\ told'[s].status = rec[sjob[s]].status
    <3>1. spc[s] # "idle" /\ IsTerminal(s)
      BY <2>5 DEF StreamMatches
    <3>2. sjob[s] \in Jobs /\ sjob'[s] = sjob[s]
      BY <2>1, <3>1 DEF Linked, Moves
    <3>3. Concluded(sjob[s]) /\ rec[sjob[s]].status = event[sjob[s]].status
      BY <3>1, <3>2 DEF RecordMatches, IsTerminal
    <3>4. QED
      BY <2>2, <2>5, <3>2, <3>3 DEF Concluded
  <2>6. QED
    BY <2>1, <2>3, <2>4, <2>5 DEF Moves
<1>7. QED
  BY <1>4, <1>5, <1>6, Steps DEF WatchStep

(* The invariant holds of a service that has just started.                 *)
LEMMA InitInv == Init => Inv
<1>1. SUFFICES ASSUME Init PROVE Inv
  OBVIOUS
<1>2. /\ NoEvent \in Event /\ NoEvent.type # "complete"
      /\ NoReply \in Reply /\ NoReply.result = None
      /\ NoDraft \in Draft
  BY DEF NoEvent, ProgressEvent, Event, NoReply, Reply, NoDraft, Draft, Errors
<1>3. TypeOK
  BY <1>1, <1>2, FreshRecordType, MaxLogAssumption
     DEF Init, StoreInit, TypeOK, StoreTypeOK, WorkerPC, PollPC, StreamPC
<1>4. Linked /\ DraftMatches /\ ResultOnlyIfCompleted
  BY <1>1, <1>2 DEF Init, StoreInit, Linked, DraftMatches, ResultOnlyIfCompleted
<1>5. LockHeld
  BY <1>1, NobodyAssumption DEF Init, StoreInit, LockHeld, Writing
<1>6. EventMatches
  BY <1>1, <1>2 DEF Init, EventMatches, Concluded
<1>7. RecordMatches
  BY <1>1, <1>2 DEF Init, StoreInit, RecordMatches, Concluded,
     FreshRecord, Terminal
<1>8. StreamMatches /\ ToldTheTruth /\ NoLeakedSubscriber
  BY <1>1, <1>2 DEF Init, StoreInit, StreamMatches, ToldTheTruth,
     NoLeakedSubscriber
<1>9. QED
  BY <1>3, <1>4, <1>5, <1>6, <1>7, <1>8 DEF Inv

(* Every step preserves the invariant.                                     *)
LEMMA InvStep == Inv /\ [Next]_vars => Inv'
  BY TypeStep, LinkedStep, LockHeldStep, EventMatchesStep, RecordMatchesStep,
     DraftStep, StreamMatchesStep, ToldTheTruthStep, LeakStep DEF Inv

(* The inductive invariant holds throughout: job_store.py and the threads  *)
(* of api.py that share it never leave it.                                 *)
THEOREM Invariance == Spec => []Inv
  BY InitInv, InvStep, PTL DEF Spec

(* Every variable of the service keeps its type.                           *)
THEOREM TypeCorrect == Spec => []TypeOK
<1>1. Inv => TypeOK
  BY DEF Inv
<1>2. QED
  BY <1>1, Invariance, PTL

(* No answer of get_job_status() has a result and a status other than      *)
(* "completed", although it reads the live dictionary without the lock.    *)
THEOREM ResultsAreCompleted == Spec => []ResultOnlyIfCompleted
<1>1. Inv => ResultOnlyIfCompleted
  BY DEF Inv
<1>2. QED
  BY <1>1, Invariance, PTL

(* A "complete" event a stream sends bears the outcome of its job, whether *)
(* it was queued, or made from the record before or after subscribing.     *)
THEOREM StreamsToldTheTruth == Spec => []ToldTheTruth
<1>1. Inv => ToldTheTruth
  BY DEF Inv
<1>2. QED
  BY <1>1, Invariance, PTL

(* The store holds the queues of streams that will still run their finally *)
(* clause, or were never started, and no others.                           *)
THEOREM NoSubscriberLeaks == Spec => []NoLeakedSubscriber
<1>1. Inv => NoLeakedSubscriber
  BY DEF Inv
<1>2. QED
  BY <1>1, Invariance, PTL

(* Whenever the lock is free, the status, result, error and finish time of *)
(* every stored job agree with each other and with its worker.             *)
THEOREM RecordsStayWhole == Spec => []RecordsWhole
<1>1. Inv => RecordsWhole
  <2>1. SUFFICES ASSUME Inv, Unlocked, NEW j \in present
                 PROVE  /\ rec[j].status = Phase(j)
                        /\ (rec[j].result # None) <=> (rec[j].status = "completed")
                        /\ (rec[j].error # None) <=> (rec[j].status = "failed")
                        /\ rec[j].finished <=> (rec[j].status \in Terminal)
    BY DEF RecordsWhole
  <2>2. j \in Jobs /\ wpc[j] \notin Writing
    BY <2>1, NobodyAssumption DEF Inv, TypeOK, StoreTypeOK, LockHeld, Unlocked
  <2>3. rec[j].status = Phase(j)
    BY <2>1, <2>2 DEF Inv, RecordMatches
  <2>4. CASE Concluded(j)
    BY <2>1, <2>2, <2>4 DEF Inv, RecordMatches, EventMatches, Writing
  <2>5. CASE ~Concluded(j)
    BY <2>1, <2>2, <2>3, <2>5 DEF Inv, RecordMatches, Phase, Terminal
  <2>6. QED
    BY <2>3, <2>4, <2>5
<1>2. QED
  BY <1>1, Invariance, PTL

(* No step changes a record whose outcome is written.                      *)
LEMMA FinishedStays ==
  ASSUME Inv, [Next]_vars, NEW k \in Jobs, rec[k].finished
  PROVE  rec'[k] = rec[k]
<1> USE DEF WorkerAt, Inv, RecordMatches, TypeOK, StoreTypeOK
<1>1. wpc[k] \in {"copying", "offering", "done"}
  OBVIOUS
<1>2. ASSUME NEW j \in Jobs, Submit(j) \/ Worker(j) \/ TimePasses(j)
      PROVE  rec'[k] = rec[k]
  <2>1. CASE Submit(j) \/ StartKept(j) \/ Started(j)
    BY <1>1, <2>1 DEF Submit, StartKept, Started, Create, WriteStatus,
       WriteStarted
  <2>2. CASE Log(j)
    BY <1>1, <2>2 DEF Log, RecordProgress
  <2>3. CASE FinishKept(j)
    BY <1>1, <2>3 DEF FinishKept, Conclude, WriteStatus
  <2>4. CASE OutcomeWritten(j) \/ TimesWritten(j)
    BY <1>1, <2>4 DEF OutcomeWritten, TimesWritten, WriteOutcome, WriteTimes
  <2>5. CASE StartForgotten(j) \/ FinishForgotten(j) \/ CopySubscribers(j)
             \/ Published(j) \/ TimePasses(j)
    BY <2>5 DEF StartForgotten, FinishForgotten, CopySubscribers, Published,
                TimePasses, GrowsOld, storeVars
  <2>6. ASSUME NEW s \in Streams, OfferOne(j, s) PROVE rec'[k] = rec[k]
    BY <2>6 DEF OfferOne
  <2>7. QED
    BY <1>2, <2>1, <2>2, <2>3, <2>4, <2>5, <2>6 DEF Worker
<1>3. CASE PollStep \/ WatchStep
  BY <1>3, PollFrame, WatchFrame DEF JobsKept
<1>4. CASE UNCHANGED vars
  BY <1>4 DEF vars, storeVars
<1>5. QED
  BY <1>2, <1>3, <1>4, Steps DEF JobStep

(* Once finished_at is written, neither on_log() nor a second complete()   *)
(* or fail() changes the record.                                           *)
THEOREM OutcomesAreFinal == Spec => OutcomeIsFinal
<1>1. Inv /\ [Next]_vars =>
        [\A j \in Jobs : rec[j].finished => rec'[j] = rec[j]]_vars
  BY FinishedStays
<1>2. QED
  BY <1>1, Invariance, PTL DEF Spec, OutcomeIsFinal

(* What a step of one job does to its phase, and to nothing else.          *)
JobMoves(j) ==
  /\ \A k \in Jobs \ {j} : Phase(k)' = Phase(k)
  /\ \/ Phase(j)' = Phase(j) /\ present' = present
     \/ Phase(j) = "unknown" /\ Phase(j)' = "queued" /\ present' = present \union {j}
     \/ Phase(j) = "queued" /\ Phase(j)' = "running" /\ present' = present
     \/ Phase(j) = "running" /\ Phase(j)' \in Terminal /\ present' = present

(* A step of a job moves its phase at most one place on, and no other's.   *)
LEMMA JobPhases ==
  ASSUME Inv, NEW j \in Jobs, Submit(j) \/ Worker(j) \/ TimePasses(j)
  PROVE  JobMoves(j)
<1> USE DEF WorkerAt, TypeOK, JobMoves, Phase, Concluded, EventMatches,
   Inv, storeVars, workerVars
<1>1. CASE Submit(j)
  BY <1>1 DEF Submit, Create
<1>2. CASE StartKept(j)
  BY <1>2 DEF StartKept, WriteStatus
<1>3. CASE StartForgotten(j)
  BY <1>3 DEF StartForgotten
<1>4. CASE Started(j)
  BY <1>4 DEF Started, WriteStarted
<1>5. CASE Log(j)
  BY <1>5 DEF Log, RecordProgress, NewStage, ProgressEvent
<1>6. CASE FinishKept(j)
  <2>1. Conclude(j, "finishing") /\ wpc[j] = "working" /\ present' = present
    BY <1>6 DEF FinishKept, Conclude, WriteStatus
  <2>2. wpc' = [wpc EXCEPT ![j] = "finishing"]
    BY <1>6 DEF FinishKept, Conclude
  <2>3. QED
    BY <2>1, <2>2, ConcludeEvent
<1>7. CASE FinishForgotten(j)
  <2>1. Conclude(j, "copying") /\ wpc[j] = "working" /\ present' = present
    BY <1>7 DEF FinishForgotten, Conclude
  <2>2. wpc' = [wpc EXCEPT ![j] = "copying"]
    BY <1>7 DEF FinishForgotten, Conclude
  <2>3. QED
    BY <2>1, <2>2, ConcludeEvent
<1>8. CASE OutcomeWritten(j)
  BY <1>8 DEF OutcomeWritten, WriteOutcome
<1>9. CASE TimesWritten(j)
  BY <1>9 DEF TimesWritten, WriteTimes
<1>10. CASE CopySubscribers(j)
  BY <1>10 DEF CopySubscribers
<1>11. ASSUME NEW s \in Streams, OfferOne(j, s) PROVE JobMoves(j)
  BY <1>11 DEF OfferOne, Offer
<1>12. CASE Published(j)
  BY <1>12 DEF Published
<1>13. CASE TimePasses(j)
  BY <1>13 DEF TimePasses, GrowsOld
<1>14. QED
  BY <1>1, <1>2, <1>3, <1>4, <1>5, <1>6, <1>7, <1>8, <1>9, <1>10, <1>11,
     <1>12, <1>13 DEF Worker

(* A service that has just started is one that has promised nothing.       *)
LEMMA InitImplements == Init => Abstract!Init
  BY DEF Init, StoreInit, Abstract!Init, Seen, Phase, Concluded, NoEvent,
     ProgressEvent

(* Every step of the service is one of JobLifecycle, or changes nothing a  *)
(* client can see.                                                         *)
LEMMA StepImplements ==
  ASSUME Inv, Inv', [Next]_vars
  PROVE  [Abstract!Next]_(Abstract!vars)
<1> DEFINE phases == [j \in Jobs |-> Phase(j)]
           ends   == [s \in Streams |-> IF told[s].type = "complete"
                                        THEN told[s].status ELSE "nothing"]
<1>1. /\ [j \in Jobs |-> Seen(j)] = phases
      /\ [j \in Jobs |-> Seen(j)]' = phases'
  BY DEF Inv, RecordMatches, Seen
<1>2. ASSUME NEW j \in Jobs, Submit(j) \/ Worker(j) \/ TimePasses(j)
      PROVE  [Abstract!Next]_(Abstract!vars)
  <2>1. ends' = ends
    BY <1>2, JobFrame DEF JobStep
  <2>2. JobMoves(j)
    BY <1>2, JobPhases
  <2>3. CASE phases' = phases /\ present' = present
    BY <1>1, <2>1, <2>3 DEF Abstract!vars
  <2>4. CASE /\ phases[j] = "unknown" /\ present' = present \union {j}
             /\ phases' = [phases EXCEPT ![j] = "queued"]
    <3>1. Abstract!Submit(j)
      BY <1>1, <2>1, <2>4 DEF Abstract!Submit
    <3>2. QED
      BY <3>1 DEF Abstract!Next
  <2>5. CASE /\ phases[j] = "queued" /\ present' = present
             /\ phases' = [phases EXCEPT ![j] = "running"]
    <3>1. Abstract!Start(j)
      BY <1>1, <2>1, <2>5 DEF Abstract!Start
    <3>2. QED
      BY <3>1 DEF Abstract!Next
  <2>6. CASE /\ phases[j] = "running" /\ present' = present
             /\ \E x \in Terminal : phases' = [phases EXCEPT ![j] = x]
    <3>1. Abstract!Finish(j)
      BY <1>1, <2>1, <2>6 DEF Abstract!Finish, Abstract!Final, Terminal
    <3>2. QED
      BY <3>1 DEF Abstract!Next
  <2>7. /\ phases[j] = Phase(j)
        /\ phases' = [phases EXCEPT ![j] = Phase(j)']
        /\ Phase(j)' = Phase(j) => phases' = phases
    BY <2>2 DEF JobMoves
  <2>8. QED
    BY <2>2, <2>3, <2>4, <2>5, <2>6, <2>7 DEF JobMoves
<1>3. JobsKept => phases' = phases
  BY DEF JobsKept, Phase, Concluded
<1>4. ASSUME phases' = phases, ends' = ends, present' \subseteq present
      PROVE  [Abstract!Next]_(Abstract!vars)
  <2>1. Abstract!Forget
    BY <1>1, <1>4 DEF Abstract!Forget
  <2>2. QED
    BY <2>1 DEF Abstract!Next
<1>5. CASE PollStep
  BY <1>3, <1>4, <1>5, PollFrame DEF JobsKept
<1>6. ASSUME NEW s \in Streams,
             StreamStep(s) \/ Disconnect(s) \/ \E j \in Jobs : StreamOpen(s, j)
      PROVE  [Abstract!Next]_(Abstract!vars)
  <2>1. Moves(s) /\ JobsKept
    BY <1>6, WatchMoves, WatchFrame DEF WatchStep, Inv
  <2>2. CASE told'[s] = told[s]
    <3>1. ends' = ends
      BY <2>1, <2>2 DEF Moves
    <3>2. QED
      BY <1>3, <1>4, <2>1, <3>1 DEF JobsKept
  <2>3. CASE told'[s].type # "complete" /\ told[s].type # "complete"
    <3>1. ends' = ends
      BY <2>1, <2>3 DEF Moves
    <3>2. QED
      BY <1>3, <1>4, <2>1, <3>1 DEF JobsKept
  <2>4. CASE told'[s] # told[s] /\ told'[s].type = "complete"
    <3>1. spc[s] \notin Told /\ spc[s] # "idle" /\ present' = present
      BY <2>1, <2>4 DEF Moves, Told
    <3>2. told[s].type # "complete" /\ sjob[s] \in Jobs /\ sjob'[s] = sjob[s]
      BY <2>1, <3>1 DEF Inv, StreamMatches, Linked, Moves
    <3>3. told'[s].status \in Terminal /\ told'[s].status = Phase(sjob[s])'
      BY <2>4, <3>2 DEF Inv, ToldTheTruth
    <3>4. phases' = phases /\ phases[sjob[s]] = told'[s].status
      BY <1>3, <2>1, <3>2, <3>3
    <3>5. ends[s] = "nothing" /\ ends' = [ends EXCEPT ![s] = told'[s].status]
      BY <2>1, <2>4, <3>2 DEF Moves
    <3>6. PICK j \in Jobs : j = sjob[s]
      BY <3>2
    <3>7. Abstract!Tell(s, j)
      BY <1>1, <3>1, <3>3, <3>4, <3>5, <3>6 DEF Abstract!Tell,
         Abstract!Final, Terminal
    <3>8. QED
      BY <1>6, <3>6, <3>7 DEF Abstract!Next
  <2>5. told[s].type = "complete" => told'[s] = told[s]
    BY <2>1 DEF Moves, Inv, StreamMatches, Told
  <2>6. QED
    BY <2>2, <2>3, <2>4, <2>5
<1>7. CASE UNCHANGED vars
  BY <1>4, <1>7 DEF vars, storeVars, workerVars, streamVars, Phase, Concluded
<1>8. QED
  BY <1>2, <1>5, <1>6, <1>7, Steps DEF JobStep, WatchStep

(* The service keeps the safety promises of JobLifecycle: threads, locks,  *)
(* queues and live dictionaries show a client nothing else.                *)
THEOREM Implementation == Spec => Abstract!SafeSpec
<1>1. Init => Abstract!Init
  BY InitImplements
<1>2. Inv /\ Inv' /\ [Next]_vars => [Abstract!Next]_(Abstract!vars)
  BY StepImplements
<1>3. QED
  BY <1>1, <1>2, Invariance, PTL DEF Spec, Abstract!SafeSpec

-----------------------------------------------------------------------------
(***************************************************************************)
(* The order of a stream's events.                                         *)
(***************************************************************************)

(* The worker has an event it has not copied the subscribers for. *)
Due(j) == wpc[j] \in {"finishing", "stamping", "copying"}

(* The stream may still be offered the event its job's worker has. *)
Awaits(s) == Due(sjob[s]) \/ s \in targets[sjob[s]]

(* The stream has seen, and has queued, no event after its job's last; and *)
(* not even the last while it may still be offered it.                     *)
UpToDate(s) ==
  /\ seen[s] <= event[sjob[s]].n
  /\ \A i \in 1 .. Len(queue[s]) : queue[s][i].n <= event[sjob[s]].n

Behind(s) ==
  /\ seen[s] < event[sjob[s]].n
  /\ \A i \in 1 .. Len(queue[s]) : queue[s][i].n < event[sjob[s]].n

(* Events are numbered as they are published, a worker offers one event at *)
(* a time, and to each subscriber once.                                    *)
Numbered ==
  \A j \in Jobs :
    /\ event[j].n = IF Concluded(j) THEN logged[j] + 1 ELSE logged[j]
    /\ Due(j) => event[j].n > 0
    /\ wpc[j] # "offering" => targets[j] = {}

Following ==
  \A s \in Streams :
    /\ spc[s] = "idle" => seen[s] = 0
    /\ spc[s] # "idle" => UpToDate(s)
    /\ spc[s] # "idle" /\ Awaits(s) => Behind(s)

Sequenced == Numbered /\ Following /\ InOrder

(* A worker's step publishes the next event, or goes on with the one it    *)
(* has, or offers it to one subscriber.                                    *)
Emits(j) ==
  /\ UNCHANGED <<queue, targets>>
  /\ \A k \in Jobs \ {j} : event'[k] = event[k] /\ wpc'[k] = wpc[k]
  /\ wpc[j] = "working" /\ Due(j)'
  /\ event'[j].n = logged[j] + 1
  /\ logged' = [logged EXCEPT ![j] = IF Concluded(j)' THEN @ ELSE @ + 1]

GoesOn(j) ==
  /\ UNCHANGED <<queue, event, logged>>
  /\ \A k \in Jobs \ {j} : wpc'[k] = wpc[k] /\ targets'[k] = targets[k]
  /\ Due(j)' => Due(j)
  /\ \/ targets'[j] = targets[j]
     \/ Due(j) /\ wpc'[j] = "offering"
  /\ wpc'[j] # "offering" => wpc[j] # "offering" \/ targets[j] = {}

(* The event of complete() or fail() is the next of its job.               *)
LEMMA ConcludeNumber ==
  ASSUME TypeOK, NEW j \in Jobs, NEW to, Conclude(j, to)
  PROVE  event'[j].n = logged[j] + 1
  BY DEF Conclude, TypeOK, CompleteEvent

(* Every step of a request or worker thread is one of the three.           *)
LEMMA Publishes ==
  ASSUME TypeOK, NEW j \in Jobs, Submit(j) \/ Worker(j) \/ TimePasses(j)
  PROVE  Emits(j) \/ GoesOn(j) \/ \E s \in Streams : OfferOne(j, s)
<1> USE DEF WorkerAt, TypeOK, Emits, GoesOn, Due, Concluded, storeVars, workerVars
<1>1. CASE Submit(j)
  BY <1>1 DEF Submit, Create
<1>2. CASE StartKept(j)
  BY <1>2 DEF StartKept, WriteStatus
<1>3. CASE StartForgotten(j)
  BY <1>3 DEF StartForgotten
<1>4. CASE Started(j)
  BY <1>4 DEF Started, WriteStarted
<1>5. CASE Log(j)
  BY <1>5 DEF Log, RecordProgress, ProgressEvent
<1>6. CASE FinishKept(j)
  <2>1. /\ event'[j].n = logged[j] + 1 /\ event'[j].type = "complete"
        /\ \A k \in Jobs \ {j} : event'[k] = event[k]
    BY <1>6, ConcludeEvent, ConcludeNumber DEF FinishKept
  <2>2. QED
    BY <1>6, <2>1 DEF FinishKept, Conclude, WriteStatus
<1>7. CASE FinishForgotten(j)
  <2>1. /\ event'[j].n = logged[j] + 1 /\ event'[j].type = "complete"
        /\ \A k \in Jobs \ {j} : event'[k] = event[k]
    BY <1>7, ConcludeEvent, ConcludeNumber DEF FinishForgotten
  <2>2. QED
    BY <1>7, <2>1 DEF FinishForgotten, Conclude
<1>8. CASE OutcomeWritten(j)
  BY <1>8 DEF OutcomeWritten, WriteOutcome
<1>9. CASE TimesWritten(j)
  BY <1>9 DEF TimesWritten, WriteTimes
<1>10. CASE CopySubscribers(j)
  BY <1>10 DEF CopySubscribers
<1>11. CASE Published(j)
  BY <1>11 DEF Published
<1>12. CASE TimePasses(j)
  BY <1>12 DEF TimePasses, GrowsOld
<1>13. QED
  BY <1>1, <1>2, <1>3, <1>4, <1>5, <1>6, <1>7, <1>8, <1>9, <1>10, <1>11,
     <1>12 DEF Worker

(* What one step of a stream request reads of its queue. *)
Reads(s) ==
  /\ \A t \in Streams \ {s} : seen'[t] = seen[t]
  /\ \/ seen'[s] = seen[s] /\ queue'[s] = queue[s]
     \/ /\ spc[s] = "waiting" /\ queue[s] # <<>>
        /\ queue'[s] = Tail(queue[s]) /\ seen'[s] = Head(queue[s]).n

(* A stream sends the events of its queue from the front, one by one.      *)
LEMMA WatchReads ==
  ASSUME TypeOK, NEW s \in Streams,
         StreamStep(s) \/ Disconnect(s) \/ \E j \in Jobs : StreamOpen(s, j)
  PROVE  Reads(s)
<1>1. CASE StreamReceive(s)
  BY <1>1 DEF StreamReceive, StreamAt, Reads, TypeOK, StoreTypeOK
<1>2. CASE ~StreamReceive(s)
  BY <1>2 DEF StreamStep, Disconnect, StreamOpen, StreamCheck, StreamSubscribe,
     StreamBegin, StreamTimeout, StreamGet, StreamReread, StreamAlreadyDone,
     StreamFinal, StreamClose, Get, CleanupExpired, Subscribe, Unsubscribe,
     MakeComplete, storeVars, Reads
<1>3. QED
  BY <1>1, <1>2

(* The numbering goes on.                                                  *)
LEMMA NumberedStep ==
  ASSUME Inv, Inv', Numbered, [Next]_vars
  PROVE  Numbered'
<1> USE DEF Inv, TypeOK, Numbered, Concluded
<1>1. ASSUME NEW j \in Jobs, Submit(j) \/ Worker(j) \/ TimePasses(j)
      PROVE  Numbered'
  <2>1. CASE GoesOn(j)
    BY <2>1 DEF GoesOn, Due
  <2>2. ASSUME NEW s \in Streams, OfferOne(j, s) PROVE Numbered'
    BY <2>2 DEF OfferOne, Due
  <2>3. CASE Emits(j)
    <3>1. /\ \A k \in Jobs : logged[k] \in Nat
          /\ ~Concluded(j) /\ event[j].n = logged[j]
      BY <2>3, MaxLogAssumption DEF Emits, EventMatches
    <3>2. QED
      BY <2>3, <3>1 DEF Emits, Due
  <2>4. QED
    BY <1>1, <2>1, <2>2, <2>3, Publishes
<1>2. CASE PollStep \/ WatchStep
  BY <1>2, PollFrame, WatchFrame DEF JobsKept, Due
<1>3. CASE UNCHANGED vars
  BY <1>3 DEF vars, workerVars, Due
<1>4. QED
  BY <1>1, <1>2, <1>3, Steps DEF JobStep

(* Where the elements of a queue are after an event was appended.          *)
LEMMA AppendedAt ==
  ASSUME NEW q \in Seq(Event), NEW e \in Event, NEW i \in 1 .. Len(Append(q, e))
  PROVE  \/ i = Len(q) + 1 /\ Append(q, e)[i] = e
         \/ i \in 1 .. Len(q) /\ Append(q, e)[i] = q[i]
  OBVIOUS

(* A stream sees the events of its queue in the order they were published: *)
(* each stream is up to date with its job, and behind it while it may      *)
(* still be offered the event its worker has.                              *)
LEMMA FollowingStep ==
  ASSUME Inv, Inv', Numbered, Numbered', Following, InOrder, [Next]_vars
  PROVE  Following' /\ InOrder'
<1>0. /\ \A s \in Streams : seen[s] \in Nat /\ queue[s] \in Seq(Event)
      /\ \A j \in Jobs : event[j] \in Event /\ event[j].n \in Nat
      /\ \A s \in Streams : \A i \in 1 .. Len(queue[s]) : queue[s][i].n \in Nat
  BY EventFields DEF Inv, TypeOK, StoreTypeOK
<1>1. ASSUME NEW j \in Jobs, Submit(j) \/ Worker(j) \/ TimePasses(j)
      PROVE  Following' /\ InOrder'
  <2>1. UNCHANGED <<spc, sjob, seen>>
    BY <1>1, JobFrame DEF JobStep
  <2>2. CASE GoesOn(j)
    <3>1. ASSUME NEW s \in Streams, spc[s] # "idle", Awaits(s)'
          PROVE  Awaits(s)
      <4>1. sjob[s] \in Jobs /\ sjob'[s] = sjob[s]
        BY <2>1, <3>1 DEF Inv, Linked
      <4>2. QED
        BY <2>2, <3>1, <4>1 DEF Awaits, GoesOn, Due
    <3>2. QED
      BY <2>1, <2>2, <3>1 DEF GoesOn, Following, InOrder, UpToDate, Behind
  <2>3. CASE Emits(j)
    <3>1. event'[j].n = event[j].n + 1
      BY <2>3 DEF Emits, Numbered, Inv, EventMatches
    <3>2. ASSUME NEW s \in Streams, spc[s] # "idle"
          PROVE  UpToDate(s)' /\ (Awaits(s)' => Behind(s)')
      <4>1. sjob[s] \in Jobs /\ UpToDate(s) /\ (Awaits(s) => Behind(s))
        BY <3>2 DEF Following, Inv, Linked
      <4>2. CASE sjob[s] = j
        BY <1>0, <2>1, <2>3, <3>1, <4>1, <4>2 DEF Emits, UpToDate, Behind
      <4>3. CASE sjob[s] # j
        BY <2>1, <2>3, <4>1, <4>3 DEF Emits, UpToDate, Behind, Awaits, Due
      <4>4. QED
        BY <4>2, <4>3
    <3>3. QED
      BY <2>1, <2>3, <3>2 DEF Emits, Following, InOrder
  <2>4. ASSUME NEW s \in Streams, OfferOne(j, s)
        PROVE  Following' /\ InOrder'
    <3>1. /\ sjob[s] = j /\ spc[s] # "idle" /\ s \in targets[j]
          /\ targets' = [targets EXCEPT ![j] = @ \ {s}]
          /\ wpc[j] = "offering"
          /\ UNCHANGED <<event, wpc>>
      BY <2>4 DEF OfferOne, Inv, StreamMatches
    <3>2. Behind(s) /\ UpToDate(s)
      BY <3>1 DEF Following, Awaits
    <3>3. /\ \A t \in Streams \ {s} : queue'[t] = queue[t]
          /\ queue'[s] = queue[s] \/ queue'[s] = Append(queue[s], event[j])
      BY <2>4 DEF OfferOne, Offer, Inv, TypeOK, StoreTypeOK
    <3>4. ~Awaits(s)'
      BY <2>1, <3>1 DEF Awaits, Due, Inv, TypeOK
    <3>5. \A t \in Streams \ {s} : Awaits(t)' => Awaits(t)
      BY <2>1, <3>1 DEF Awaits, Due, Inv, TypeOK
    <3>6. \A i \in 1 .. Len(queue[s]) : queue[s][i].type = "progress"
      <4>1. \A i \in 1 .. Len(queue[s]) : queue[s][i].type # "complete"
        BY <1>0, <3>1, <3>2 DEF Behind, Inv, StreamMatches
      <4>2. \A i \in 1 .. Len(queue[s]) : queue[s][i] \in Event
        BY <1>0
      <4>3. QED
        BY <4>1, <4>2 DEF Event
    <3>7. CASE queue'[s] = queue[s]
      BY <2>1, <3>1, <3>3, <3>4, <3>5, <3>7 DEF Following, InOrder, UpToDate, Behind
    <3>8. CASE queue'[s] = Append(queue[s], event[j])
      <4>1. \A i \in 1 .. Len(queue'[s]) :
              \/ i = Len(queue[s]) + 1 /\ queue'[s][i] = event[j]
              \/ i \in 1 .. Len(queue[s]) /\ queue'[s][i] = queue[s][i]
        BY <1>0, <3>8, AppendedAt
      <4>2. UpToDate(s)'
        BY <1>0, <2>1, <3>1, <3>2, <4>1 DEF UpToDate
      <4>3. \A i \in 1 .. Len(queue'[s]) : queue'[s][i].n > seen[s]
        BY <1>0, <3>1, <3>2, <4>1 DEF InOrder, Behind
      <4>4. \A i, k \in 1 .. Len(queue'[s]) :
              i < k => /\ queue'[s][i].n < queue'[s][k].n
                       /\ queue'[s][i].type = "progress"
        <5>1. ASSUME NEW i \in 1 .. Len(queue'[s]), NEW k \in 1 .. Len(queue'[s]),
                     i < k
              PROVE  /\ i \in 1 .. Len(queue[s]) /\ queue'[s][i] = queue[s][i]
                     /\ \/ k \in 1 .. Len(queue[s]) /\ queue'[s][k] = queue[s][k]
                        \/ queue'[s][k] = event[j]
          BY <1>0, <4>1, <5>1
        <5>2. ASSUME NEW i \in 1 .. Len(queue'[s]), NEW k \in 1 .. Len(queue'[s]),
                     i < k
              PROVE  /\ queue'[s][i].n < queue'[s][k].n
                     /\ queue'[s][i].type = "progress"
          <6>1. i \in 1 .. Len(queue[s]) /\ queue'[s][i] = queue[s][i]
            BY <5>1, <5>2
          <6>2. CASE k \in 1 .. Len(queue[s]) /\ queue'[s][k] = queue[s][k]
            BY <5>2, <6>1, <6>2 DEF InOrder
          <6>3. CASE queue'[s][k] = event[j]
            BY <3>1, <3>2, <3>6, <6>1, <6>3 DEF Behind
          <6>4. QED
            BY <5>1, <5>2, <6>2, <6>3
        <5>3. QED
          BY <5>2
      <4>5. InOrder'
        BY <2>1, <3>3, <4>3, <4>4 DEF InOrder
      <4>6. \A t \in Streams \ {s} :
              /\ UpToDate(t)' <=> UpToDate(t)
              /\ Behind(t)' <=> Behind(t)
        BY <2>1, <3>1, <3>3 DEF UpToDate, Behind
      <4>7. QED
        BY <2>1, <3>1, <3>4, <3>5, <4>2, <4>5, <4>6 DEF Following
    <3>9. QED
      BY <3>3, <3>7, <3>8
  <2>5. QED
    BY <1>1, <2>2, <2>3, <2>4, Publishes DEF Inv
<1>2. CASE PollStep
  BY <1>2, PollFrame DEF JobsKept, Following, InOrder, UpToDate, Behind, Awaits, Due
<1>3. ASSUME NEW s \in Streams,
             StreamStep(s) \/ Disconnect(s) \/ \E j \in Jobs : StreamOpen(s, j)
      PROVE  Following' /\ InOrder'
  <2>1. Moves(s) /\ Reads(s) /\ UNCHANGED <<wpc, event, targets>>
    BY <1>3, WatchMoves, WatchReads, WatchFrame DEF WatchStep, JobsKept, Inv
  <2>2. ASSUME NEW t \in Streams \ {s}
        PROVE  /\ UNCHANGED <<spc[t], sjob[t], seen[t], queue[t]>>
               /\ UpToDate(t)' <=> UpToDate(t)
               /\ Behind(t)' <=> Behind(t)
               /\ Awaits(t)' <=> Awaits(t)
    BY <2>1, <2>2 DEF Moves, Reads, UpToDate, Behind, Awaits, Due
  <2>3. spc'[s] # "idle"
    BY <2>1 DEF Moves
  <2>4. SUFFICES /\ UpToDate(s)' /\ (Awaits(s)' => Behind(s)')
                 /\ \A i \in 1 .. Len(queue'[s]) : queue'[s][i].n > seen'[s]
                 /\ \A i, k \in 1 .. Len(queue'[s]) :
                      i < k => /\ queue'[s][i].n < queue'[s][k].n
                               /\ queue'[s][i].type = "progress"
    BY <2>2, <2>3 DEF Following, InOrder
  <2>5. CASE spc[s] = "idle"
    <3>1. Len(queue[s]) = 0 /\ seen[s] = 0
      BY <1>0, <2>5 DEF Inv, StreamMatches, Following
    <3>2. queue'[s] = queue[s] /\ seen'[s] = 0
      BY <2>1, <2>5, <3>1 DEF Reads
    <3>3. sjob'[s] \in Jobs
      BY <2>3 DEF Inv, Linked
    <3>4. s \notin targets[sjob'[s]]
      BY <2>5, <3>3 DEF Inv, StreamMatches
    <3>5. UpToDate(s)'
      BY <1>0, <2>1, <3>1, <3>2, <3>3 DEF UpToDate
    <3>6. Awaits(s)' => Behind(s)'
      BY <1>0, <2>1, <3>1, <3>2, <3>3, <3>4 DEF Awaits, Behind, Numbered, Due
    <3>7. QED
      BY <3>1, <3>2, <3>5, <3>6
  <2>6. CASE spc[s] # "idle"
    <3>1. /\ sjob'[s] = sjob[s] /\ sjob[s] \in Jobs
          /\ UpToDate(s) /\ (Awaits(s) => Behind(s))
          /\ Awaits(s)' <=> Awaits(s)
      BY <2>1, <2>6 DEF Moves, Following, Inv, Linked, Awaits, Due
    <3>2. CASE seen'[s] = seen[s] /\ queue'[s] = queue[s]
      BY <2>1, <3>1, <3>2 DEF UpToDate, Behind, InOrder
    <3>3. CASE /\ queue[s] # <<>> /\ queue'[s] = Tail(queue[s])
               /\ seen'[s] = Head(queue[s]).n
      <4>1. /\ 1 \in 1 .. Len(queue[s]) /\ seen'[s] = queue[s][1].n
            /\ \A i \in 1 .. Len(queue'[s]) :
                 i + 1 \in 1 .. Len(queue[s]) /\ queue'[s][i] = queue[s][i + 1]
        BY <1>0, <3>3
      <4>2. UpToDate(s)' /\ (Awaits(s)' => Behind(s)')
        BY <2>1, <3>1, <4>1 DEF UpToDate, Behind
      <4>3. \A i \in 1 .. Len(queue'[s]) : queue'[s][i].n > seen'[s]
        BY <1>0, <4>1 DEF InOrder
      <4>4. \A i, k \in 1 .. Len(queue'[s]) :
              i < k => /\ queue'[s][i].n < queue'[s][k].n
                       /\ queue'[s][i].type = "progress"
        <5>1. ASSUME NEW i \in 1 .. Len(queue'[s]), NEW k \in 1 .. Len(queue'[s]),
                     i < k
              PROVE  /\ queue'[s][i].n < queue'[s][k].n
                     /\ queue'[s][i].type = "progress"
          <6>1. /\ i + 1 \in 1 .. Len(queue[s]) /\ k + 1 \in 1 .. Len(queue[s])
                /\ i + 1 < k + 1
                /\ queue'[s][i] = queue[s][i + 1] /\ queue'[s][k] = queue[s][k + 1]
            BY <4>1, <5>1
          <6>2. QED
            BY <6>1 DEF InOrder
        <5>2. QED
          BY <5>1
      <4>5. QED
        BY <4>2, <4>3, <4>4
    <3>4. QED
      BY <2>1, <3>2, <3>3 DEF Reads
  <2>7. QED
    BY <2>5, <2>6
<1>4. CASE UNCHANGED vars
  BY <1>4 DEF vars, storeVars, workerVars, streamVars, Following, InOrder,
     UpToDate, Behind, Awaits, Due
<1>5. QED
  BY <1>1, <1>2, <1>3, <1>4, Steps DEF JobStep, WatchStep

(* A stream sends its job's events in the order the worker published them, *)
(* none twice and none after the "complete" event, whatever a full queue   *)
(* drops and whenever the stream subscribed.                               *)
THEOREM EventsInOrder == Spec => []InOrder
<1>1. Init => Sequenced
  BY DEF Init, StoreInit, Sequenced, Numbered, Following, InOrder, Concluded, Due,
     NoEvent, ProgressEvent
<1>2. Inv /\ Inv' /\ Sequenced /\ [Next]_vars => Sequenced'
  BY NumberedStep, FollowingStep DEF Sequenced
<1>3. Sequenced => InOrder
  BY DEF Sequenced
<1>4. QED
  BY <1>1, <1>2, <1>3, Invariance, PTL DEF Spec

-----------------------------------------------------------------------------
(***************************************************************************)
(* What a client that polls sees of a job.                                 *)
(***************************************************************************)

(* A job that shows x may later show y. *)
Precedes(x, y) ==
  x = y \/ x = "queued" \/ (x = "running" /\ y \in Terminal)

(* The last answer, and a status that was read for the next, were true of  *)
(* the job when they were read, and the job has only gone on since.        *)
AnswerTrue(p) ==
  /\ reply[p].code # 0 => reply[p].job \in Jobs /\ wpc[reply[p].job] # "none"
  /\ reply[p].code = 404 => reply[p].job \notin present
  /\ reply[p].code = 200 =>
       /\ reply[p].status \in Statuses
       /\ Precedes(reply[p].status, rec[reply[p].job].status)

DraftTrue(p) ==
  ppc[p] = "error" =>
    /\ draft[p].status \in Statuses
    /\ Precedes(draft[p].status, rec[draft[p].job].status)

(* Nothing is being read for a job that was not found, and what has been   *)
(* read is not older than the last answer.                                 *)
NotOlder(p) ==
  /\ ppc[p] # "idle" /\ reply[p].code = 404 => reply[p].job # draft[p].job
  /\ /\ ppc[p] = "error" /\ reply[p].code = 200
     /\ reply[p].job = draft[p].job
     => Precedes(reply[p].status, draft[p].status)

AnswersBound == \A p \in Pollers : AnswerTrue(p) /\ DraftTrue(p) /\ NotOlder(p)

(* A created job's record moves on only, and a forgotten job stays so. *)
JobsAdvance ==
  \A k \in Jobs : wpc[k] # "none" =>
    /\ wpc'[k] # "none"
    /\ Precedes(rec[k].status, rec'[k].status)
    /\ k \notin present => k \notin present'

(* The statuses are in order.                                              *)
LEMMA PrecedesTransitive ==
  ASSUME NEW x \in Statuses, NEW y \in Statuses, NEW z \in Statuses,
         Precedes(x, y), Precedes(y, z)
  PROVE  Precedes(x, z)
  BY DEF Precedes, Statuses, Terminal

(* No thread takes a job's record back, nor revives one that was dropped.  *)
LEMMA JobsGoOn ==
  ASSUME Inv, [Next]_vars
  PROVE  JobsAdvance
<1>1. ASSUME NEW j \in Jobs, Submit(j) \/ Worker(j) \/ TimePasses(j)
      PROVE  JobsAdvance
  <2> USE DEF WorkerAt, JobsAdvance, Precedes, TypeOK, StoreTypeOK, Inv
  <2>1. CASE Submit(j)
    BY <2>1 DEF Submit, Create
  <2>2. CASE StartKept(j)
    BY <2>2 DEF StartKept, WriteStatus, RecordMatches, EventMatches, Phase
  <2>3. CASE StartForgotten(j)
    BY <2>3 DEF StartForgotten, storeVars
  <2>4. CASE Started(j)
    BY <2>4 DEF Started, WriteStarted
  <2>5. CASE Log(j)
    BY <2>5 DEF Log, RecordProgress
  <2>6. CASE FinishKept(j)
    <3>1. event'[j].status \in Terminal /\ rec[j].status = "running"
      BY <2>6, ConcludeEvent DEF FinishKept, Conclude, RecordMatches, EventMatches, Phase
    <3>2. QED
      BY <2>6, <3>1 DEF FinishKept, Conclude, WriteStatus
  <2>7. CASE FinishForgotten(j)
    BY <2>7 DEF FinishForgotten, Conclude, storeVars
  <2>8. CASE OutcomeWritten(j)
    BY <2>8 DEF OutcomeWritten, WriteOutcome
  <2>9. CASE TimesWritten(j)
    BY <2>9 DEF TimesWritten, WriteTimes
  <2>10. CASE CopySubscribers(j)
    BY <2>10 DEF CopySubscribers, storeVars
  <2>11. ASSUME NEW s \in Streams, OfferOne(j, s) PROVE JobsAdvance
    BY <2>11 DEF OfferOne
  <2>12. CASE Published(j)
    BY <2>12 DEF Published, storeVars
  <2>13. CASE TimePasses(j)
    BY <2>13 DEF TimePasses, GrowsOld, workerVars
  <2>14. QED
    BY <1>1, <2>1, <2>2, <2>3, <2>4, <2>5, <2>6, <2>7, <2>8, <2>9, <2>10,
       <2>11, <2>12, <2>13 DEF Worker
<1>2. CASE PollStep \/ WatchStep
  BY <1>2, PollFrame, WatchFrame DEF JobsKept, JobsAdvance, Precedes
<1>3. CASE UNCHANGED vars
  BY <1>3 DEF vars, storeVars, workerVars, JobsAdvance, Precedes
<1>4. QED
  BY <1>1, <1>2, <1>3, Steps DEF JobStep

(* An answer that was not replaced is still true of its job.               *)
LEMMA AnswerStays ==
  ASSUME Inv, Inv', JobsAdvance, NEW p \in Pollers, AnswerTrue(p), reply'[p] = reply[p]
  PROVE  AnswerTrue(p)'
<1>1. CASE reply[p].code = 200
  <2>1. reply[p].job \in Jobs /\ wpc[reply[p].job] # "none"
    BY <1>1 DEF AnswerTrue
  <2>2. /\ rec[reply[p].job].status \in Statuses
        /\ rec'[reply[p].job].status \in Statuses
    BY <2>1, RecordFields DEF Inv, TypeOK, StoreTypeOK
  <2>3. Precedes(reply[p].status, rec'[reply[p].job].status)
    BY <1>1, <2>1, <2>2, PrecedesTransitive DEF AnswerTrue, JobsAdvance
  <2>4. QED
    BY <1>1, <2>1, <2>3 DEF AnswerTrue, JobsAdvance
<1>2. CASE reply[p].code # 200
  BY <1>2 DEF AnswerTrue, JobsAdvance
<1>3. QED
  BY <1>1, <1>2

(* A status that was read, and not yet answered, is still true of its job. *)
LEMMA DraftStays ==
  ASSUME Inv, Inv', JobsAdvance, NEW p \in Pollers, DraftTrue(p),
         ppc'[p] = ppc[p], draft'[p] = draft[p]
  PROVE  DraftTrue(p)'
<1>1. CASE ppc[p] = "error"
  <2>1. draft[p].job \in Jobs /\ wpc[draft[p].job] # "none"
    BY <1>1 DEF Inv, Linked
  <2>2. /\ rec[draft[p].job].status \in Statuses
        /\ rec'[draft[p].job].status \in Statuses
    BY <2>1, RecordFields DEF Inv, TypeOK, StoreTypeOK
  <2>3. QED
    BY <1>1, <2>1, <2>2, PrecedesTransitive DEF DraftTrue, JobsAdvance
<1>2. CASE ppc[p] # "error"
  BY <1>2 DEF DraftTrue
<1>3. QED
  BY <1>1, <1>2

(* What one poller does between two answers, and what it answers.          *)
LEMMA PollerStep ==
  ASSUME Inv, Inv', JobsAdvance, NEW p \in Pollers, Poll(p),
         AnswerTrue(p), DraftTrue(p), NotOlder(p)
  PROVE  AnswerTrue(p)' /\ DraftTrue(p)' /\ NotOlder(p)'
<1>0. JobsKept
  BY PollFrame DEF PollStep
<1> USE DEF Inv, TypeOK
<1>1. ASSUME NEW j \in Jobs, PollGet(p, j)
      PROVE  AnswerTrue(p)' /\ DraftTrue(p)' /\ NotOlder(p)'
  <2>0. ppc[p] = "idle" /\ wpc[j] # "none"
    BY <1>1 DEF PollGet
  <2>1. CASE j \in present'
    <3>1. /\ ppc'[p] = "result" /\ reply'[p] = reply[p]
          /\ draft'[p].job = j
      BY <1>1, <2>1 DEF PollGet, NoDraft
    <3>2. AnswerTrue(p)'
      BY <3>1, AnswerStays
    <3>3. QED
      BY <2>1, <3>1, <3>2 DEF DraftTrue, NotOlder, AnswerTrue
  <2>2. CASE j \notin present'
    <3>1. ppc'[p] = "idle" /\ reply'[p] = NotFound(j)
      BY <1>1, <2>0, <2>2 DEF PollGet
    <3>2. QED
      BY <1>0, <2>0, <2>2, <3>1 DEF DraftTrue, NotOlder, AnswerTrue, NotFound, JobsKept
  <2>3. QED
    BY <2>1, <2>2
<1>2. CASE ReadResult(p)
  <2>1. /\ ppc[p] = "result" /\ ppc'[p] = "status" /\ reply'[p] = reply[p]
        /\ draft'[p].job = draft[p].job
    BY <1>2 DEF ReadResult, Draft
  <2>2. AnswerTrue(p)'
    BY <2>1, AnswerStays
  <2>3. QED
    BY <2>1, <2>2 DEF DraftTrue, NotOlder
<1>3. CASE ReadStatus(p)
  <2>1. /\ ppc[p] = "status" /\ ppc'[p] = "error" /\ reply'[p] = reply[p]
        /\ draft'[p].job = draft[p].job /\ rec' = rec
        /\ draft'[p].status = rec[draft[p].job].status
    BY <1>3 DEF ReadStatus, Draft, storeVars
  <2>2. AnswerTrue(p)'
    BY <2>1, AnswerStays
  <2>3. draft[p].job \in Jobs /\ rec[draft[p].job].status \in Statuses
    BY <2>1, RecordFields DEF Linked, StoreTypeOK
  <2>4. QED
    BY <2>1, <2>2, <2>3 DEF DraftTrue, NotOlder, AnswerTrue, Precedes
<1>4. CASE PollAnswer(p)
  <2>1. /\ ppc[p] = "error" /\ ppc'[p] = "idle" /\ rec' = rec
        /\ reply'[p].code = 200 /\ reply'[p].job = draft[p].job
        /\ reply'[p].status = draft[p].status
    BY <1>4 DEF PollAnswer, storeVars
  <2>2. draft[p].job \in Jobs /\ wpc[draft[p].job] # "none" /\ wpc' = wpc
    BY <1>0, <2>1 DEF Linked, JobsKept
  <2>3. QED
    BY <2>1, <2>2 DEF AnswerTrue, DraftTrue, NotOlder
<1>5. QED
  BY <1>1, <1>2, <1>3, <1>4 DEF Poll

(* Another poller's step is none of a poller's business.                   *)
LEMMA OtherPollers ==
  ASSUME Inv, NEW p \in Pollers, NEW q \in Pollers \ {p}, Poll(p)
  PROVE  UNCHANGED <<ppc[q], draft[q], reply[q]>>
  BY DEF Inv, TypeOK, Poll, PollGet, ReadResult, ReadStatus, PollAnswer

(* The bounds on a poller's answers hold on.                               *)
LEMMA AnswersBoundStep ==
  ASSUME Inv, Inv', AnswersBound, [Next]_vars
  PROVE  AnswersBound'
<1>0. JobsAdvance
  BY JobsGoOn
<1>1. ASSUME NEW p \in Pollers, UNCHANGED <<ppc[p], draft[p], reply[p]>>
      PROVE  AnswerTrue(p)' /\ DraftTrue(p)' /\ NotOlder(p)'
  <2>1. AnswerTrue(p) /\ DraftTrue(p) /\ NotOlder(p)
    BY DEF AnswersBound
  <2>2. AnswerTrue(p)' /\ DraftTrue(p)'
    BY <1>0, <1>1, <2>1, AnswerStays, DraftStays
  <2>3. NotOlder(p)'
    BY <1>1, <2>1 DEF NotOlder
  <2>4. QED
    BY <2>2, <2>3
<1>2. CASE JobStep \/ WatchStep \/ UNCHANGED vars
  BY <1>1, <1>2, JobFrame, WatchFrame DEF AnswersBound, vars, pollVars
<1>3. ASSUME NEW p \in Pollers, Poll(p) PROVE AnswersBound'
  BY <1>0, <1>1, <1>3, PollerStep, OtherPollers DEF AnswersBound
<1>4. QED
  BY <1>2, <1>3, Steps DEF PollStep

(* The next answer of a poller about the same job is no step back.         *)
LEMMA AnswerAdvances ==
  ASSUME Inv, AnswersBound, [Next]_vars, NEW p \in Pollers,
         reply[p].code # 0, reply'[p].job = reply[p].job
  PROVE  /\ Rank(reply'[p]) >= Rank(reply[p])
         /\ Rank(reply'[p]) = 3 /\ Rank(reply[p]) = 3 =>
              reply'[p].status = reply[p].status
<1>1. CASE reply'[p] = reply[p]
  BY <1>1 DEF Rank
<1>2. CASE reply'[p].code = 404
  BY <1>2 DEF Rank
<1>3. CASE PollAnswer(p)
  <2>1. /\ ppc[p] = "error" /\ reply'[p].code = 200
        /\ reply'[p].job = draft[p].job /\ reply'[p].status = draft[p].status
    BY <1>3 DEF PollAnswer, Inv, TypeOK
  <2>2. reply[p].code = 200
    <3>1. reply[p] \in Reply
      BY DEF Inv, TypeOK
    <3>2. NotOlder(p) /\ reply[p].job = draft[p].job
      BY <2>1 DEF AnswersBound
    <3>3. QED
      BY <2>1, <3>1, <3>2 DEF Reply, NotOlder
  <2>3. /\ Precedes(reply[p].status, draft[p].status)
        /\ reply[p].status \in Statuses /\ draft[p].status \in Statuses
    BY <2>1, <2>2 DEF AnswersBound, NotOlder, AnswerTrue, DraftTrue
  <2>4. QED
    BY <2>1, <2>2, <2>3 DEF Rank, Precedes, Statuses, Terminal
<1>4. CASE PollStep
  <2>1. PICK q \in Pollers : Poll(q)
    BY <1>4 DEF PollStep
  <2>2. CASE q # p
    BY <1>1, <2>1, <2>2, OtherPollers
  <2>3. CASE q = p
    <3>1. ASSUME NEW j \in Jobs, PollGet(p, j)
          PROVE  reply'[p] = reply[p] \/ reply'[p].code = 404
      BY <3>1 DEF PollGet, NotFound, Inv, TypeOK
    <3>2. ReadResult(p) \/ ReadStatus(p) => reply'[p] = reply[p]
      BY DEF ReadResult, ReadStatus
    <3>3. QED
      BY <1>1, <1>2, <1>3, <2>1, <2>3, <3>1, <3>2 DEF Poll
  <2>4. QED
    BY <2>2, <2>3
<1>5. CASE JobStep \/ WatchStep \/ UNCHANGED vars
  BY <1>1, <1>5, JobFrame, WatchFrame DEF vars, pollVars
<1>6. QED
  BY <1>4, <1>5, Steps

(* A client that polls sees its job move only forward, keep the outcome it *)
(* was first told, and never come back after a 404, although its answers   *)
(* are put together from several reads of the live dictionary.             *)
THEOREM AnswersOnlyAdvance == Spec => AnswersAdvance
<1>1. Init => AnswersBound
  BY DEF Init, AnswersBound, AnswerTrue, DraftTrue, NotOlder, NoReply
<1>2. Inv /\ Inv' /\ AnswersBound /\ [Next]_vars => AnswersBound'
  BY AnswersBoundStep
<1>3. Inv /\ AnswersBound /\ [Next]_vars =>
        [\A p \in Pollers :
           reply[p].code # 0 /\ reply'[p].job = reply[p].job =>
             /\ Rank(reply'[p]) >= Rank(reply[p])
             /\ Rank(reply'[p]) = 3 /\ Rank(reply[p]) = 3 =>
                  reply'[p].status = reply[p].status]_vars
  BY AnswerAdvances
<1>4. QED
  BY <1>1, <1>2, <1>3, Invariance, PTL DEF Spec, AnswersAdvance
=============================================================================
