------------------------- MODULE TopologyTaskExecutor -------------------------
(***************************************************************************)
(* The task executor of one worker.  Three kinds of threads share it: the  *)
(* Run loop of the engine (notifies and ticks), the callback pool (the     *)
(* business callbacks and the cleanup effects) and the progress pool (the  *)
(* completions).  An operation is a task of one batch epoch.  Time is left *)
(* out: a scheduled retry may be due at any tick, and the callback window  *)
(* of a batch may be exhausted at any time.                                *)
(***************************************************************************)
EXTENDS Integers, Sequences, FiniteSets

CONSTANTS
  Task,         \* the tasks of this worker, the same in every batch
  Histories,    \* bound: the change types of successive epochs, "NONE" for no batch
  Capacity,     \* callbackThreads + callbackQueueCapacity
  MaxAttempts,  \* ordinaryMaxAttempts
  MaxFaults     \* bound: failed reads, writes, callbacks and submissions

ASSUME ExecutorAssumption ==
  /\ Histories \subseteq Seq({"NONE", "SCALE_IN", "SCALE_OUT", "FAILURE"})
  /\ Capacity \in Nat \ {0} /\ MaxAttempts \in Nat \ {0} /\ MaxFaults \in Nat

VARIABLES
  batches,      \* the history of this behaviour
  authority,    \* the epoch of the topology in the store
  snapshot,     \* the epoch of the snapshot this worker has published
  loop,         \* the Run loop: [pc, todo]
  ex,           \* the executor: [running, epoch, ops, gate, window]
  jobs,         \* operation |-> its callback body, completion or cleanup effect
  marker,       \* operations with a metadata-done marker in the store
  finished,     \* operations whose task is finished in the store
  handoff,      \* scaleOutHandoffCompletion_: the operations handed over
  effects,      \* the <<operation, effect>> that business code has completed
  faults

xvars == <<batches, authority, snapshot, loop, ex, jobs, marker, finished, handoff, effects, faults>>

Epoch == UNION {DOMAIN h : h \in Histories}
Type(e) == IF e \in DOMAIN batches THEN batches[e] ELSE "NONE"
Key == Epoch \X Task
EpochOf(k) == k[1]
TypeOf(k) == Type(EpochOf(k))

NewOp == [inFlight |-> FALSE, scheduled |-> FALSE, attempts |-> 0,
          progressReady |-> FALSE, metadataDone |-> FALSE]
NoneYet == [k \in {} |-> NewOp]
NewJob == [stage |-> "body", status |-> "OK", cleanup |-> FALSE, cancelled |-> FALSE]

Drop(f, k) == [j \in DOMAIN f \ {k} |-> f[j]]
Set(f, k, v) == [j \in DOMAIN f \cup {k} |-> IF j = k THEN v ELSE f[j]]

ExecutorInit ==
  /\ batches \in Histories
  /\ authority = 0 /\ snapshot = 0
  /\ loop = [pc |-> "idle", todo |-> {}]
  /\ ex = [running |-> TRUE, epoch |-> 0, ops |-> NoneYet, gate |-> {}, window |-> TRUE]
  /\ jobs = NoneYet
  /\ marker = {} /\ finished = {} /\ handoff = {} /\ effects = {}
  /\ faults = 0

(***************************************************************************)
(* The bookkeeping that the executor does under its mutex.                 *)
(***************************************************************************)
Known(x, k) == k \in DOMAIN x.ops
InFlight(x) == {k \in DOMAIN x.ops : x.ops[k].inFlight}
\* Mutant: the gate is never closed.
GateOpen(x, k) == TRUE

\* No operation of the source and the batch still waits for its marker.
GateReady(x, k) == \A j \in x.gate : EpochOf(j) # EpochOf(k)

Release(x, k) == IF Known(x, k) THEN [x EXCEPT !.ops[k].inFlight = FALSE] ELSE x
Schedule(x, k) == [x EXCEPT !.ops[k].scheduled = TRUE]
Erase(x, k) == [x EXCEPT !.ops = Drop(@, k), !.gate = @ \ {k}]

CanRetry(x, k) == Known(x, k) /\ (TypeOf(k) = "FAILURE" \/ x.ops[k].attempts < MaxAttempts)

ScheduleRetryOrErase(x, k, wanted) ==
  IF wanted /\ CanRetry(x, k) THEN Schedule(x, k) ELSE Erase(x, k)

\* Mutant: the operation keeps its slot.
CompleteFailureLeaks(x, k, status, progressFailure) ==
  ScheduleRetryOrErase(x, k, progressFailure \/ (TypeOf(k) # "FAILURE" /\ status = "RETRY"))

\* The slot is free again; only a retryable status, or a failed progress
\* write, keeps the operation.
CompleteFailure(x, k, status, progressFailure) ==
  ScheduleRetryOrErase(Release(x, k), k,
                       progressFailure \/ (TypeOf(k) # "FAILURE" /\ status = "RETRY"))

\* Mutant: every phase has its progress only repeated.
CompletionRefusedAnyPhase(x, k, status) ==
  LET y == Release(x, k)
      z == IF Known(y, k) THEN [y EXCEPT !.ops[k].progressReady = TRUE] ELSE y
  IN ScheduleRetryOrErase(z, k, x.running /\ (TypeOf(k) = "FAILURE" \/ status # "FATAL"))

\* A body whose completion the dispatcher refused: the operation is run again
\* or, for a failure recovery, only its progress is.
CompletionRefused(x, k, status) ==
  LET y == Release(x, k)
      z == IF Known(y, k) /\ TypeOf(k) = "FAILURE" THEN [y EXCEPT !.ops[k].progressReady = TRUE] ELSE y
  IN ScheduleRetryOrErase(z, k, x.running /\ (TypeOf(k) = "FAILURE" \/ status # "FATAL"))

\* The operation may start a callback: the result, the executor, and whether
\* a body is to be enqueued.
AdmitCallback(x, k, drain) ==
  LET known == IF Known(x, k) THEN x ELSE [x EXCEPT !.ops = Set(@, k, NewOp)]
      op == known.ops[k]
      more == IF op.attempts < MaxAttempts THEN op.attempts + 1 ELSE MaxAttempts
      tried == [known EXCEPT !.ops[k].attempts = more, !.ops[k].scheduled = FALSE]
      result(rc, y, start) == [rc |-> rc, ex |-> y, start |-> start]
  IN CASE ~ x.running -> result("K_NOT_READY", x, FALSE)
       [] x.running /\ op.inFlight -> result("OK", x, FALSE)
       [] x.running /\ ~ op.inFlight /\ ~ x.window ->
            result("OK", IF CanRetry(tried, k) THEN Schedule(tried, k) ELSE tried, FALSE)
       [] x.running /\ ~ op.inFlight /\ x.window /\ (op.progressReady \/ (~ drain /\ op.metadataDone)) ->
            result("OK", Schedule(known, k), FALSE)
       [] OTHER ->
            IF Cardinality(InFlight(x)) < Capacity
            THEN result("OK", [tried EXCEPT !.ops[k].inFlight = TRUE,
                                            !.gate = IF TypeOf(k) = "SCALE_IN" /\ ~ drain
                                                     THEN @ \cup {k} ELSE @], TRUE)
            ELSE result("K_TRY_AGAIN", known, FALSE)

\* Mutant: the new epoch does not wait for the bodies of the old one.
RefreshNotifyEpochEager(x, e) ==
  IF x.epoch \in {0, e} THEN [rc |-> "OK", ex |-> [x EXCEPT !.epoch = e]]
  ELSE [rc |-> "OK", ex |-> [x EXCEPT !.epoch = e, !.ops = NoneYet, !.gate = {}, !.window = TRUE]]

\* A new epoch starts with no operation, once those of the old one drained.
RefreshNotifyEpoch(x, e) ==
  IF x.epoch \in {0, e} THEN [rc |-> "OK", ex |-> [x EXCEPT !.epoch = e]]
  ELSE IF InFlight(x) # {} THEN [rc |-> "K_TRY_AGAIN", ex |-> x]
  ELSE [rc |-> "OK", ex |-> [x EXCEPT !.epoch = e, !.ops = NoneYet, !.gate = {}, !.window = TRUE]]

Cancelled(js, x) == [k \in DOMAIN js |-> IF k \in InFlight(x) THEN [js[k] EXCEPT !.cancelled = TRUE] ELSE js[k]]

Fault == faults < MaxFaults /\ faults' = faults + 1

(***************************************************************************)
(* The topology: a batch is replaced, or ends, at any time.                *)
(***************************************************************************)
ChangeTopology ==
  /\ authority < Len(batches)
  /\ authority' = authority + 1
  /\ UNCHANGED <<batches, snapshot, loop, ex, jobs, marker, finished, handoff, effects, faults>>

\* Publishing a snapshot forgets the hand-over of any other batch.
ResetScaleOutHandoffIfBatchChanged(h, s) == {k \in h : EpochOf(k) = s /\ Type(s) = "SCALE_OUT"}

Publish ==
  /\ snapshot' = authority
  /\ handoff' = ResetScaleOutHandoffIfBatchChanged(handoff, authority)

\* The Run loop: a snapshot that is only published (a topology event, a resync).
ReloadTopology ==
  /\ loop.pc = "idle" /\ snapshot # authority
  /\ Publish
  /\ UNCHANGED <<batches, authority, loop, ex, jobs, marker, finished, effects, faults>>

\* The Run loop: the periodic or evented exact read, then the own notify of
\* the batch just read; its tasks are submitted one by one.
HandleNotify ==
  /\ loop.pc = "idle" /\ ex.running
  /\ Publish
  /\ IF Type(authority) = "NONE" THEN UNCHANGED <<loop, ex, jobs>>
     ELSE LET r == RefreshNotifyEpoch(ex, authority) IN
       /\ jobs' = IF ex.epoch \in {0, authority} THEN jobs ELSE Cancelled(jobs, ex)
       /\ ex' = r.ex
       /\ loop' = IF r.rc = "OK" THEN [pc |-> "submit", todo |-> {authority} \X Task] ELSE loop
  /\ UNCHANGED <<batches, authority, marker, finished, effects, faults>>

LoopDone(k) == LET left == loop.todo \ {k} IN
  loop' = [pc |-> IF left = {} THEN "idle" ELSE loop.pc, todo |-> left]

\* PreserveDueOperation: a due operation that could not be submitted.
Preserve(x, k, rc) ==
  CASE ~ x.running \/ ~ Known(x, k) \/ rc = "OK" -> x
    [] x.running /\ Known(x, k) /\ rc = "K_INVALID" -> Erase(x, k)
    [] OTHER -> Schedule(x, k)

\* SubmitCallback: a body is enqueued, or the pool throws.
SubmitCallback(k, drain, due) ==
  LET a == AdmitCallback(ex, k, drain)
      keep(x, rc) == IF due THEN Preserve(x, k, rc) ELSE x
  IN \/ /\ ex' = keep(a.ex, a.rc)
        /\ jobs' = IF a.start THEN Set(jobs, k, NewJob) ELSE jobs
        /\ UNCHANGED faults
     \/ /\ a.start /\ Fault
        /\ ex' = keep(ScheduleRetryOrErase(Release(a.ex, k), k, TRUE), "K_RUNTIME_ERROR")
        /\ UNCHANGED jobs

\* One turn of SubmitNotifiedTasks: a task that cannot be read is skipped, so
\* is one that is finished.
SubmitNotifiedTask(k) ==
  /\ loop.pc = "submit" /\ k \in loop.todo
  /\ LoopDone(k)
  /\ \/ k \notin finished /\ SubmitCallback(k, FALSE, FALSE)
     \/ k \in finished /\ UNCHANGED <<ex, jobs, faults>>
     \/ Fault /\ UNCHANGED <<ex, jobs>>
  /\ UNCHANGED <<batches, authority, snapshot, marker, finished, handoff, effects>>

\* HandleTick: the due operations are collected, then handled one by one.
HandleTick(due) ==
  /\ loop.pc = "idle" /\ ex.running
  /\ due # {} /\ due \subseteq {k \in DOMAIN ex.ops : ex.ops[k].scheduled /\ ~ ex.ops[k].inFlight}
  /\ loop' = [pc |-> "tick", todo |-> due]
  /\ UNCHANGED <<batches, authority, snapshot, ex, jobs, marker, finished, handoff, effects, faults>>

\* Mutant: the recorded hand-over is not checked against the snapshot.
RecordAlways(k, ok) == IF ok /\ TypeOf(k) = "SCALE_OUT" THEN handoff \cup {k} ELSE handoff

\* Only a hand-over of the batch the snapshot still shows is recorded.
RecordScaleOutHandoffCompletion(k, ok) ==
  IF ok /\ TypeOf(k) = "SCALE_OUT" /\ EpochOf(k) = snapshot THEN handoff \cup {k} ELSE handoff

\* MarkTaskScopeFinished for the operation k, and what follows from its result;
\* a write that fails may have taken effect.
CompleteProgress(k, ok) ==
  IF ~ Known(ex, k) THEN UNCHANGED <<ex, finished, handoff, faults>>
  ELSE LET x == [ex EXCEPT !.ops[k].progressReady = TRUE] IN
    \/ /\ finished' = finished \cup {k}
       /\ handoff' = RecordScaleOutHandoffCompletion(k, ok)
       /\ ex' = Erase(x, k)
       /\ UNCHANGED faults
    \/ /\ Fault
       /\ finished' \in {finished, finished \cup {k}}
       /\ ex' = CompleteFailure(x, k, "RETRY", TRUE)
       /\ UNCHANGED handoff

\* One due operation: erased when its batch is not that of the snapshot, else
\* its progress is written, its drain started once the gate is open, or its
\* callback started.
TickOperation(k) ==
  /\ loop.pc = "tick" /\ k \in loop.todo
  /\ LoopDone(k)
  /\ CASE ~ Known(ex, k) -> UNCHANGED <<ex, jobs, finished, handoff, faults>>
       [] Known(ex, k) /\ EpochOf(k) # snapshot ->
            ex' = Preserve(ex, k, "K_INVALID") /\ UNCHANGED <<jobs, finished, handoff, faults>>
       [] Known(ex, k) /\ EpochOf(k) = snapshot /\ ex.ops[k].progressReady ->
            CompleteProgress(k, TRUE) /\ UNCHANGED jobs
       [] Known(ex, k) /\ EpochOf(k) = snapshot /\ ~ ex.ops[k].progressReady
            /\ ex.ops[k].metadataDone /\ ~ GateReady(ex, k) ->
            ex' = Preserve(ex, k, "K_NOT_READY") /\ UNCHANGED <<jobs, finished, handoff, faults>>
       [] OTHER -> SubmitCallback(k, ex.ops[k].metadataDone, TRUE) /\ UNCHANGED <<finished, handoff>>
  /\ UNCHANGED <<batches, authority, snapshot, marker, effects>>

\* The callback window of the running batch ends.
WindowExhausted ==
  /\ ex.window /\ DOMAIN ex.ops # {}
  /\ ex' = [ex EXCEPT !.window = FALSE]
  /\ UNCHANGED <<batches, authority, snapshot, loop, jobs, marker, finished, handoff, effects, faults>>

(***************************************************************************)
(* The callback pool.                                                      *)
(***************************************************************************)
At(k, stage) == k \in DOMAIN jobs /\ jobs[k].stage = stage
Goto(k, stage, status) == jobs' = [jobs EXCEPT ![k].stage = stage, ![k].status = status]

\* ValidateFence: the exact task and the exact topology still make the fence.
FenceHolds(k) == EpochOf(k) = authority /\ k \notin finished

Effect(k) ==
  CASE TypeOf(k) = "SCALE_OUT" -> "scale-out"
    [] TypeOf(k) = "FAILURE" -> "recovery"
    [] OTHER -> IF Known(ex, k) /\ ex.ops[k].metadataDone THEN "drain" ELSE "migrate"

\* FinishCallbackBody, with the completion accepted by the dispatcher or not;
\* the dispatcher takes nothing once the engine stops.
Accepted(k, status, cleanup) ==
  /\ ex.running
  /\ jobs' = [jobs EXCEPT ![k].stage = "completion", ![k].status = status, ![k].cleanup = cleanup]
  /\ UNCHANGED ex

Refused(k, status) ==
  /\ ex' = CompletionRefused(ex, k, status)
  /\ jobs' = Drop(jobs, k)

SubmitCompletion(k, status, cleanup) ==
  \/ Accepted(k, status, cleanup) /\ UNCHANGED faults
  \/ Refused(k, status) /\ IF ex.running THEN Fault ELSE UNCHANGED faults

\* A body that fails, with an error that may be retried or with any other.
BodyFails(k) ==
  /\ Fault
  /\ \E status \in {"RETRY", "FATAL"} : Accepted(k, status, FALSE) \/ Refused(k, status)

\* RunCallback up to the business callback.
RunCallback(k) ==
  /\ At(k, "body")
  /\ CASE ~ FenceHolds(k) -> SubmitCompletion(k, "FATAL", FALSE)
       [] FenceHolds(k) /\ jobs[k].cancelled -> SubmitCompletion(k, "RETRY", FALSE)
       [] OTHER -> Goto(k, "invoke", "OK") /\ UNCHANGED <<ex, faults>>
  /\ UNCHANGED <<batches, authority, snapshot, loop, marker, finished, handoff, effects>>

\* The business callback returns: with its effect done, with an error that may
\* be retried (a deadline, a cancellation), or with any other error.
InvokeCallback(k) ==
  /\ At(k, "invoke")
  /\ \/ /\ effects' = effects \cup {<<k, Effect(k)>>}
        /\ SubmitCompletion(k, "OK", Effect(k) = "drain")
     \/ BodyFails(k) /\ UNCHANGED effects
  /\ UNCHANGED <<batches, authority, snapshot, loop, marker, finished, handoff>>

\* The cleanup effect, unless it was cancelled meanwhile.
ExecuteCleanupApply(k) ==
  /\ At(k, "apply")
  /\ \/ /\ ~ jobs[k].cancelled
        /\ effects' = effects \cup {<<k, "apply">>}
        /\ SubmitCompletion(k, "OK", FALSE)
     \/ /\ jobs[k].cancelled
        /\ SubmitCompletion(k, "RETRY", FALSE)
        /\ UNCHANGED effects
     \/ BodyFails(k) /\ UNCHANGED effects
  /\ UNCHANGED <<batches, authority, snapshot, loop, marker, finished, handoff>>

(***************************************************************************)
(* The progress pool: HandleCompletion.                                    *)
(***************************************************************************)
\* Up to the next access to the store: discarded when stopping, stale when the
\* fence does not hold, else on to the authorization, to the metadata marker,
\* to the progress or to the failure.
HandleCompletion(k) ==
  /\ At(k, "completion")
  /\ LET job == jobs[k]
         metadata == TypeOf(k) = "SCALE_IN" /\ job.status = "OK" /\ ~ (Known(ex, k) /\ ex.ops[k].metadataDone)
         end(x) == ex' = x /\ jobs' = Drop(jobs, k) /\ UNCHANGED faults
     IN CASE ~ ex.running -> end(Erase(ex, k))
          [] ex.running /\ FenceHolds(k) /\ job.status = "OK" /\ job.cleanup ->
               Goto(k, "authorize", "OK") /\ UNCHANGED <<ex, faults>>
          [] ex.running /\ ~ FenceHolds(k) ->
               end(Erase(ex, k))
          [] ex.running /\ FenceHolds(k) /\ ~ job.cleanup /\ metadata ->
               Goto(k, "metadata", "OK") /\ UNCHANGED <<ex, faults>>
          [] ex.running /\ FenceHolds(k) /\ ~ metadata /\ ~ job.cleanup
               /\ (job.status = "OK" \/ TypeOf(k) = "FAILURE") ->
               Goto(k, "progress", job.status) /\ UNCHANGED <<ex, faults>>
          [] OTHER -> end(CompleteFailure(ex, k, job.status, FALSE))
  /\ UNCHANGED <<batches, authority, snapshot, loop, marker, finished, handoff, effects>>

\* The same completion, when the store cannot be read to validate the fence.
ValidateFails(k) ==
  /\ At(k, "completion") /\ ex.running /\ Fault
  /\ ex' = IF jobs[k].status = "OK" /\ jobs[k].cleanup
           THEN CompleteFailure(ex, k, "RETRY", FALSE) ELSE Erase(ex, k)
  /\ jobs' = Drop(jobs, k)
  /\ UNCHANGED <<batches, authority, snapshot, loop, marker, finished, handoff, effects>>

\* AuthorizeCleanupIfCurrent under the publication lock, then SubmitCleanupApply,
\* which may fail to enqueue.
AuthorizeCleanup(k) ==
  /\ At(k, "authorize")
  /\ \/ /\ snapshot = EpochOf(k) /\ ex.running /\ k \in InFlight(ex)
        /\ jobs' = [jobs EXCEPT ![k].stage = "apply", ![k].cleanup = FALSE]
        /\ UNCHANGED <<ex, faults>>
     \/ /\ snapshot # EpochOf(k) \/ k \notin InFlight(ex) \/ ~ ex.running
        /\ ex' = CompleteFailure(ex, k, IF snapshot = EpochOf(k) /\ ~ ex.running THEN "RETRY" ELSE "FATAL", FALSE)
        /\ jobs' = Drop(jobs, k)
        /\ UNCHANGED faults
     \/ /\ snapshot = EpochOf(k) /\ ex.running /\ k \in InFlight(ex) /\ Fault
        /\ ex' = CompleteFailure(ex, k, "RETRY", FALSE)
        /\ jobs' = Drop(jobs, k)
  /\ UNCHANGED <<batches, authority, snapshot, loop, marker, finished, handoff, effects>>

\* The metadata-done marker; the slot is free, and the gate opens with the
\* last operation that was waiting in it.
CompleteScaleInMetadata(k) ==
  /\ At(k, "metadata")
  /\ jobs' = Drop(jobs, k)
  /\ IF ~ Known(ex, k) THEN UNCHANGED <<ex, marker, faults>>
     ELSE \/ LET x == [Release(ex, k) EXCEPT !.ops[k].metadataDone = TRUE, !.gate = @ \ {k}] IN
             /\ marker' = marker \cup {k}
             /\ ex' = [x EXCEPT !.ops = [j \in DOMAIN @ |->
                         IF j = k \/ (GateReady(x, k) /\ EpochOf(j) = EpochOf(k) /\ @[j].metadataDone)
                         THEN [@[j] EXCEPT !.scheduled = TRUE] ELSE @[j]]]
             /\ UNCHANGED faults
          \/ /\ Fault
             /\ marker' \in {marker, marker \cup {k}}
             /\ \E status \in {"RETRY", "FATAL"} : ex' = CompleteFailure(ex, k, status, FALSE)
  /\ UNCHANGED <<batches, authority, snapshot, loop, finished, handoff, effects>>

FinishProgress(k) ==
  /\ At(k, "progress")
  /\ CompleteProgress(k, jobs[k].status = "OK")
  /\ jobs' = Drop(jobs, k)
  /\ UNCHANGED <<batches, authority, snapshot, loop, marker, effects>>

(***************************************************************************)
(* Stop cancels every body, then clears the executor once they returned.   *)
(***************************************************************************)
Stop ==
  /\ ex.running
  /\ ex' = [ex EXCEPT !.running = FALSE]
  /\ jobs' = Cancelled(jobs, ex)
  /\ UNCHANGED <<batches, authority, snapshot, loop, marker, finished, handoff, effects, faults>>

StopDrained ==
  /\ ~ ex.running /\ DOMAIN ex.ops # {}
  /\ \A k \in DOMAIN jobs : jobs[k].stage \notin {"body", "invoke", "apply"}
  /\ ex' = [ex EXCEPT !.ops = NoneYet, !.gate = {}]
  /\ UNCHANGED <<batches, authority, snapshot, loop, jobs, marker, finished, handoff, effects, faults>>

LoopStep ==
  \/ ReloadTopology
  \/ HandleNotify
  \/ \E k \in Key : SubmitNotifiedTask(k)
  \/ \E due \in SUBSET DOMAIN ex.ops : HandleTick(due)
  \/ \E k \in Key : TickOperation(k)

BodyStep(k) == RunCallback(k) \/ InvokeCallback(k) \/ ExecuteCleanupApply(k)

CompletionStep(k) ==
  HandleCompletion(k) \/ ValidateFails(k) \/ AuthorizeCleanup(k) \/ CompleteScaleInMetadata(k) \/ FinishProgress(k)

ExecutorNext ==
  \/ ChangeTopology
  \/ LoopStep
  \/ WindowExhausted
  \/ \E k \in Key : BodyStep(k) \/ CompletionStep(k)
  \/ Stop
  \/ StopDrained

ExecutorSpec == ExecutorInit /\ [][ExecutorNext]_xvars

\* The Run loop reads its notify periodically and ticks after every event with
\* all that is due; the pools run what they accepted.
ExecutorFairSpec ==
  /\ ExecutorSpec
  /\ WF_xvars(HandleNotify)
  /\ WF_xvars(\E k \in Key : SubmitNotifiedTask(k))
  /\ SF_xvars(HandleTick({k \in DOMAIN ex.ops : ex.ops[k].scheduled /\ ~ ex.ops[k].inFlight}))
  /\ WF_xvars(\E k \in Key : TickOperation(k))
  /\ \A k \in Key : WF_xvars(BodyStep(k)) /\ WF_xvars(CompletionStep(k))
  /\ WF_xvars(StopDrained)

(***************************************************************************)
(* Properties.                                                             *)
(***************************************************************************)
\* No slot leaks: while the executor runs, an operation holds one of the
\* callbackThreads + callbackQueueCapacity slots exactly while a body or a
\* completion of it is on its way.  A leaked slot would hold up every later epoch
\* in RefreshNotifyEpochLocked.
SlotsExact ==
  /\ ex.running => InFlight(ex) = DOMAIN jobs
  /\ Cardinality(InFlight(ex)) <= Capacity

\* Callbacks of two batches never run together: RefreshNotifyEpochLocked drains
\* the old epoch before the first operation of a new one is admitted.
OneEpochInFlight == ex.running => \A k \in DOMAIN jobs : EpochOf(k) = ex.epoch

\* Nothing of a scale-in is reported early: a task is finished in the store only
\* after its metadata was migrated, its data drained and its cleanup applied, in
\* the same epoch, and a cleanup is applied only to what was drained.  A scale-out
\* task is finished only after its callback succeeded; retries, refused
\* completions and progress-only retries included.
FinishedAfterEffects ==
  /\ \A k \in finished :
       /\ TypeOf(k) = "SCALE_IN" => k \in marker /\ {<<k, e>> : e \in {"migrate", "drain", "apply"}} \subseteq effects
       /\ TypeOf(k) = "SCALE_OUT" => <<k, "scale-out">> \in effects
  /\ \A k \in Key : <<k, "apply">> \in effects => <<k, "drain">> \in effects /\ k \in marker

\* A source answers "handed over" only for tasks that are finished, and only
\* while its snapshot shows their scale-out: RecordScaleOutHandoffCompletion
\* races the publication of the next topology.
HandoffOfThisBatch ==
  \A k \in handoff : k \in finished /\ EpochOf(k) = snapshot

\* The drain of a scale-in source starts only when every task admitted so far
\* has its metadata marker (ScaleInMetadataGateWaitsForAllAdmittedSourceTasks).
DrainWaitsForAdmitted ==
  [][\A k \in DOMAIN jobs' \ DOMAIN jobs :
       TypeOf(k) = "SCALE_IN" /\ ex'.ops[k].metadataDone
         => \A j \in DOMAIN ex'.ops : ex'.ops[j].attempts > 0 => ex'.ops[j].metadataDone /\ j \in marker]_xvars

\* Every task of a batch is finished in the end, whatever callback, completion
\* and store write fails on the way, unless the topology moves on, the callback
\* window ends or the executor stops: no operation is forgotten unscheduled.
TasksFinish ==
  \A e \in Epoch :
    Type(e) # "NONE" /\ authority = e
      ~> \/ authority # e
         \/ {e} \X Task \subseteq finished
         \/ ~ ex.window \/ ~ ex.running

\* What the topology module's README says of the drain: "only after all expected
\* source markers exist does the executor re-enter the task to drain".
AllMarkersBeforeDrain ==
  \A k \in Key : <<k, "drain">> \in effects => {EpochOf(k)} \X Task \subseteq marker

=============================================================================
