--------------------------- MODULE ExecutorTheorems ---------------------------
(***************************************************************************)
(* Every step of TopologyTaskExecutor preserves ExecutorInv, the invariant *)
(* of ExecutorProofs, and the theorems that follow from it.                *)
(***************************************************************************)
EXTENDS ExecutorProofs

\* A leaf is tried with SMT, then with Zenon, then with SMT for longer.
USE SMTT(30), ZenonT(40), SMTT(60)

(***************************************************************************)
(* The steps.                                                              *)
(***************************************************************************)
\* A body whose completion is refused.
LEMMA RefusedStep ==
  ASSUME ExecutorInv, NEW k \in Key, NEW status, Refused(k, status), loop' = loop,
         Grows, authority' = authority, snapshot' = snapshot, finished' = finished, handoff' = handoff,
         \A j \in Key \ {k} : <<j, "apply">> \in effects' => <<j, "apply">> \in effects,
         StoreInv(k)'
  PROVE  ExecutorInv'
  <1>1. ex \in Executors BY DEF ExecutorInv, ExecutorTypes
  <1>2. Settled(ex, ex', k) BY <1>1, CompletionRefusedFacts DEF Refused
  <1>3. jobs' = Drop(jobs, k) BY DEF Refused
  <1>4. HandoffKept BY ZenonT(40) DEF HandoffKept, ExecutorInv
  <1> QED BY <1>2, <1>3, <1>4, SettledStep

LEMMA JobMoves ==
  ASSUME jobs \in Jobs, NEW k, k \in DOMAIN jobs, NEW stage \in Stages,
         NEW status \in {"OK", "RETRY", "FATAL"}, jobs' = MovedJob(jobs, k, stage, status)
  PROVE  OneJob(jobs, jobs', k) /\ k \in DOMAIN jobs' /\ jobs'[k].stage = stage
  BY MovedJobFacts

LEMMA JobCompletes ==
  ASSUME jobs \in Jobs, NEW k, k \in DOMAIN jobs, NEW status \in {"OK", "RETRY", "FATAL"},
         NEW cleanup \in BOOLEAN, jobs' = CompletedJob(jobs, k, status, cleanup)
  PROVE  /\ OneJob(jobs, jobs', k) /\ k \in DOMAIN jobs'
         /\ jobs'[k].stage = "completion" /\ jobs'[k].status = status /\ jobs'[k].cleanup = cleanup
  BY CompletedJobFacts

\* A body whose completion is accepted.
LEMMA AcceptedStep ==
  ASSUME ExecutorInv, NEW k \in Key, NEW status \in {"OK", "RETRY", "FATAL"}, NEW cleanup \in BOOLEAN,
         k \in DOMAIN jobs, Accepted(k, status, cleanup), loop' = loop,
         Grows, authority' = authority, snapshot' = snapshot, finished' = finished, handoff' = handoff,
         \A j \in Key \ {k} : <<j, "apply">> \in effects' => <<j, "apply">> \in effects,
         StoreInv(k)',
         status = "OK" =>
           /\ TypeOf(k) = "SCALE_OUT" => <<k, "scale-out">> \in effects'
           /\ cleanup => Drained(k)'
           /\ ~ cleanup /\ TypeOf(k) = "SCALE_IN" =>
                IF ex.ops[k].metadataDone THEN <<k, "apply">> \in effects' ELSE <<k, "migrate">> \in effects'
  PROVE  ExecutorInv'
  <1>0. jobs \in Jobs BY ZenonT(40) DEF ExecutorInv, ExecutorTypes
  <1>1. ex' = ex /\ jobs' = CompletedJob(jobs, k, status, cleanup) BY ZenonT(40) DEF Accepted, CompletedJob
  <1>2. /\ OneJob(jobs, jobs', k) /\ k \in DOMAIN jobs'
        /\ jobs'[k].stage = "completion" /\ jobs'[k].status = status /\ jobs'[k].cleanup = cleanup
      BY <1>0, <1>1, JobCompletes, ZenonT(40)
  <1>3. TypeOf(k)' = TypeOf(k) BY TypeKept, ZenonT(40) DEF Grows
  <1>4. KeyInv(k) BY DEF ExecutorInv
  <1>5. JobInv(k)' BY <1>1, <1>2, <1>3, <1>4, ZenonT(40) DEF JobInv, KeyInv
  <1> QED BY <1>1, <1>2, <1>5, JobStep

LEMMA LoopDoneFacts ==
  ASSUME NEW k, LoopDone(k), loop \in Loops
  PROVE  /\ loop' \in Loops /\ k \notin (loop').todo
         /\ (loop').todo \subseteq loop.todo
         /\ (loop').todo # {} => (loop').pc = loop.pc
  BY DEF LoopDone, Loops

LEMMA SubmitNotifiedTaskStep ==
  ASSUME ExecutorInv, NEW k \in Key, SubmitNotifiedTask(k)
  PROVE  ExecutorInv'
  <1>1. KeyInv(k) /\ ex \in Executors /\ loop \in Loops BY DEF ExecutorInv, ExecutorTypes
  <1>2. EpochOf(k) = ex.epoch BY <1>1, ZenonT(40) DEF SubmitNotifiedTask, KeyInv, TodoInv
  <1>3. /\ loop' \in Loops /\ k \notin (loop').todo
        /\ (loop').todo \subseteq loop.todo
        /\ (loop').todo # {} => (loop').pc = loop.pc
      BY <1>1, LoopDoneFacts DEF SubmitNotifiedTask
  <1>4. /\ batches' = batches /\ authority' = authority /\ marker' = marker /\ effects' = effects
        /\ finished' = finished /\ handoff' = handoff /\ snapshot' = snapshot
      BY DEF SubmitNotifiedTask
  <1>5. HandoffKept BY <1>4 DEF HandoffKept, ExecutorInv
  <1>6. CASE SubmitCallback(k, FALSE, FALSE)
    <2>1. FALSE \in BOOLEAN OBVIOUS
    <2>2. \/ Stays(ex, ex', k) /\ jobs' = jobs
          \/ Admits(ex, ex', k, FALSE) /\ Flying(ex', k) /\ jobs' = Set(jobs, k, NewJob)
          \/ Admits(ex, ex', k, FALSE) /\ ~ Flying(ex', k) /\ jobs' = jobs
        BY <1>1, <1>6, <2>1, SubmitFacts, ZenonT(40)
    <2>3. CASE Stays(ex, ex', k) /\ jobs' = jobs
      <3>1. Waits(ex, ex', k) BY <2>3 DEF Waits
      <3> QED BY <1>2, <1>3, <1>4, <1>5, <2>3, <3>1, WaitsStep, ZenonT(40)
    <2>4. CASE Admits(ex, ex', k, FALSE) /\ (\/ Flying(ex', k) /\ jobs' = Set(jobs, k, NewJob)
                                             \/ ~ Flying(ex', k) /\ jobs' = jobs)
        BY <1>2, <1>3, <1>4, <1>5, <2>1, <2>4, AdmitsStep, ZenonT(40)
    <2> QED BY <2>2, <2>3, <2>4, ZenonT(40)
  <1>7. CASE UNCHANGED <<ex, jobs>>
    <2>1. Waits(ex, ex', k) BY <1>1, <1>7, TouchesSelf DEF Waits, Stays
    <2> QED BY <1>2, <1>3, <1>4, <1>5, <1>7, <2>1, WaitsStep, ZenonT(40)
  <1> QED BY <1>6, <1>7, ZenonT(40) DEF SubmitNotifiedTask

LEMMA TickOperationStep ==
  ASSUME ExecutorInv, NEW k \in Key, TickOperation(k)
  PROVE  ExecutorInv'
  <1>1. KeyInv(k) /\ ex \in Executors /\ loop \in Loops BY DEF ExecutorInv, ExecutorTypes
  <1>2. k \in DOMAIN ex.ops => EpochOf(k) = ex.epoch /\ ~ Flying(ex, k)
      BY <1>1 DEF TickOperation, KeyInv, OpInv, TodoInv, Flying
  <1>3. /\ loop' \in Loops /\ k \notin (loop').todo
        /\ (loop').todo \subseteq loop.todo
        /\ (loop').todo # {} => (loop').pc = loop.pc
      BY <1>1, LoopDoneFacts DEF TickOperation
  <1>4. /\ batches' = batches /\ authority' = authority /\ marker' = marker /\ effects' = effects
        /\ snapshot' = snapshot
      BY DEF TickOperation
  <1>5. finished' = finished /\ handoff' = handoff => HandoffKept BY <1>4, ZenonT(40) DEF HandoffKept, ExecutorInv
  <1>6. CASE ~ Known(ex, k)
    <2>1. UNCHANGED <<ex, jobs, finished, handoff>> BY <1>6, ZenonT(40) DEF TickOperation
    <2>2. Waits(ex, ex', k) BY <1>1, <2>1, TouchesSelf DEF Waits, Stays
    <2> QED BY <1>2, <1>3, <1>4, <1>5, <2>1, <2>2, WaitsStep, ZenonT(40)
  <1>7. CASE Known(ex, k) /\ EpochOf(k) # snapshot
    <2>1. ex' = Preserve(ex, k, "K_INVALID") /\ UNCHANGED <<jobs, finished, handoff>>
        BY <1>7, ZenonT(40) DEF TickOperation
    <2>2. Waits(ex, ex', k) BY <1>1, <1>2, <1>7, <2>1, PreserveFacts DEF Known
    <2> QED BY <1>2, <1>3, <1>4, <1>5, <1>7, <2>1, <2>2, WaitsStep, ZenonT(40) DEF Known
  <1>8. CASE Known(ex, k) /\ EpochOf(k) = snapshot /\ ex.ops[k].progressReady
    <2>1. CompleteProgress(k, TRUE) /\ jobs' = jobs BY <1>8, ZenonT(40) DEF TickOperation
    <2>2. Done(k) /\ k \in DOMAIN ex.ops BY <1>1, <1>8 DEF KeyInv, OpInv, Known
    <2>3. /\ HandoffKept
          /\ \A j \in Key \ {k} : j \in finished' <=> j \in finished
          /\ Settled(ex, ex', k)
      <3>1. TRUE \in BOOLEAN OBVIOUS
      <3> QED BY <1>4, <2>1, <2>2, <3>1, ProgressFacts, ZenonT(40)
    <2>4. ~ Flying(ex, k) /\ ~ Flying(ex', k)
      <3>1. ~ Flying(ex', k) BY <2>3 DEF Settled, Erased, Kept, Flying
      <3> QED BY <1>2, <2>2, <3>1, ZenonT(40)
    <2>5. Touches(ex, ex', k) BY <2>3 DEF Settled
    <2>6. OneJob(jobs, jobs', k) BY <2>1, ZenonT(40) DEF OneJob, ExecutorInv, ExecutorTypes
    <2>7. OnlyKey(k) BY <1>3, <1>4, <2>3, <2>5, <2>6 DEF OnlyKey, Grows, ExecutorInv, ExecutorTypes
    <2>8. SlotInv' BY <2>4, <2>5, SlotsFreed, ZenonT(40) DEF ExecutorInv
    <2>9. /\ TypeOf(k)' = TypeOf(k) /\ EpochOf(k)' = EpochOf(k)
          /\ Done(k)'
          /\ MetadataMoved(k) => MetadataMoved(k)'
        BY <1>4, <2>2, DoneKept, TypeKept, ZenonT(40) DEF Grows, EpochOf
    <2>10. /\ (ex').running = ex.running /\ (ex').epoch = ex.epoch /\ (ex').window = ex.window
        BY <2>5 DEF Touches
    <2>11. OpInv(k)'
      <3>1. CASE Erased(ex', k) BY <3>1 DEF OpInv, Erased
      <3>2. CASE Kept(ex, ex', k) BY <1>1, <2>9, <2>10, <3>2, ZenonT(40) DEF OpInv, Kept, KeyInv
      <3> QED BY <2>3, <3>1, <3>2, ZenonT(40) DEF Settled
    <2>12. JobInv(k)'
      <3>1. ex.running => k \notin DOMAIN jobs BY <1>1, <2>4, ZenonT(40) DEF KeyInv, JobInv, Flying
      <3>2. Drained(k) /\ ~ ex.running => Drained(k)' BY <1>4, <2>9, <2>10 DEF Drained
      <3> QED BY <1>1, <1>4, <2>1, <2>9, <2>10, <3>1, <3>2, ZenonT(40) DEF KeyInv, JobInv
    <2>13. TodoInv(k)' /\ StoreInv(k)' BY <1>1, <1>3, <1>4, <2>9, ZenonT(40) DEF TodoInv, StoreInv, KeyInv
    <2>14. KeyInv(k)' BY <2>11, <2>12, <2>13, ZenonT(40) DEF KeyInv
    <2> QED BY <2>3, <2>7, <2>8, <2>14, OneKeyStep
  <1>9. CASE /\ Known(ex, k) /\ EpochOf(k) = snapshot /\ ~ ex.ops[k].progressReady
             /\ ex.ops[k].metadataDone /\ ~ GateReady(ex, k)
    <2>1. ex' = Preserve(ex, k, "K_NOT_READY") /\ UNCHANGED <<jobs, finished, handoff>>
        BY <1>9 DEF TickOperation
    <2>2. Waits(ex, ex', k) BY <1>1, <1>2, <1>9, <2>1, PreserveFacts, ZenonT(40) DEF Known
    <2> QED BY <1>2, <1>3, <1>4, <1>5, <1>9, <2>1, <2>2, WaitsStep DEF Known
  <1>10. CASE /\ Known(ex, k) /\ EpochOf(k) = snapshot /\ ~ ex.ops[k].progressReady
              /\ ~ (ex.ops[k].metadataDone /\ ~ GateReady(ex, k))
    <2> DEFINE drain == ex.ops[k].metadataDone
    <2>1. SubmitCallback(k, drain, TRUE) /\ UNCHANGED <<finished, handoff>>
        BY <1>10, ZenonT(40) DEF TickOperation
    <2>2. k \in DOMAIN ex.ops BY <1>10 DEF Known
    <2>3. drain \in BOOLEAN /\ TRUE \in BOOLEAN BY <1>1, <2>2, OpsShape DEF Executors, Op
    <2>4. drain => Moved(ex, k) BY <2>2 DEF Moved
    <2> HIDE DEF drain
    <2>5. \/ Stays(ex, ex', k) /\ jobs' = jobs
          \/ Admits(ex, ex', k, drain) /\ Flying(ex', k) /\ jobs' = Set(jobs, k, NewJob)
          \/ Admits(ex, ex', k, drain) /\ ~ Flying(ex', k) /\ jobs' = jobs
        BY <1>1, <2>1, <2>3, SubmitFacts, ZenonT(40)
    <2>6. HandoffKept BY <1>5, <2>1
    <2>7. CASE Stays(ex, ex', k) /\ jobs' = jobs
      <3>1. Waits(ex, ex', k) BY <2>7 DEF Waits
      <3> QED BY <1>2, <1>3, <1>4, <2>1, <2>2, <2>6, <2>7, <3>1, WaitsStep, ZenonT(40)
    <2>8. CASE Admits(ex, ex', k, drain) /\ (\/ Flying(ex', k) /\ jobs' = Set(jobs, k, NewJob)
                                             \/ ~ Flying(ex', k) /\ jobs' = jobs)
        BY <1>2, <1>3, <1>4, <2>1, <2>2, <2>3, <2>4, <2>6, <2>8, AdmitsStep, ZenonT(40)
    <2> QED BY <2>5, <2>7, <2>8
  <1> QED BY <1>6, <1>7, <1>8, <1>9, <1>10

\* A body that fails leaves everything but its own operation and job.
LEMMA BodyFailsStep ==
  ASSUME ExecutorInv, NEW k \in Key, k \in DOMAIN jobs, NEW status \in {"RETRY", "FATAL"},
         Accepted(k, status, FALSE) \/ Refused(k, status), effects' = effects,
         UNCHANGED <<batches, authority, snapshot, loop, marker, finished, handoff>>
  PROVE  ExecutorInv'
  <1>1. Grows BY DEF Grows
  <1>2. StoreInv(k)'
    <2>1. KeyInv(k) BY DEF ExecutorInv
    <2> QED BY <1>1, <2>1, DoneKept DEF StoreInv, KeyInv
  <1>3. CASE Refused(k, status) BY <1>1, <1>2, <1>3, RefusedStep
  <1>4. CASE Accepted(k, status, FALSE)
    <2>1. FALSE \in BOOLEAN /\ status \in {"OK", "RETRY", "FATAL"} /\ status # "OK" OBVIOUS
    <2> QED BY <1>1, <1>2, <1>4, <2>1, AcceptedStep, ZenonT(40)
  <1> QED BY <1>3, <1>4, ZenonT(40)

LEMMA RunCallbackStep ==
  ASSUME ExecutorInv, NEW k \in Key, RunCallback(k)
  PROVE  ExecutorInv'
  <1>1. /\ k \in DOMAIN jobs /\ effects' = effects
        /\ UNCHANGED <<batches, authority, snapshot, loop, marker, finished, handoff>>
      BY DEF RunCallback, At
  <1>2. CASE \E status \in {"RETRY", "FATAL"} : SubmitCompletion(k, status, FALSE)
    <2>1. PICK status \in {"RETRY", "FATAL"} : Accepted(k, status, FALSE) \/ Refused(k, status)
        BY <1>2, ZenonT(40) DEF SubmitCompletion
    <2> QED BY <1>1, <2>1, BodyFailsStep, ZenonT(40)
  <1>3. CASE Goto(k, "invoke", "OK") /\ UNCHANGED <<ex, faults>>
    <2>1. jobs' = MovedJob(jobs, k, "invoke", "OK") BY <1>3 DEF Goto, MovedJob
    <2>2. "invoke" \in Stages /\ "OK" \in {"OK", "RETRY", "FATAL"} BY ZenonT(40) DEF Stages
    <2>3. OneJob(jobs, jobs', k) /\ k \in DOMAIN jobs' /\ jobs'[k].stage = "invoke"
        BY <1>1, <2>1, <2>2, JobMoves, ZenonT(40) DEF ExecutorInv, ExecutorTypes
    <2>4. KeyInv(k) BY DEF ExecutorInv
    <2>5. JobInv(k)' BY <1>1, <1>3, <2>3, <2>4, ZenonT(40) DEF KeyInv, JobInv
    <2>6. Grows BY <1>1 DEF Grows
    <2>7. StoreInv(k)' BY <1>1, <2>4, <2>6, DoneKept DEF StoreInv, KeyInv
    <2> QED BY <1>1, <1>3, <2>3, <2>5, <2>6, <2>7, JobStep, ZenonT(40)
  <1> QED BY <1>2, <1>3, ZenonT(40) DEF RunCallback

LEMMA InvokeCallbackStep ==
  ASSUME ExecutorInv, NEW k \in Key, InvokeCallback(k)
  PROVE  ExecutorInv'
  <1>1. /\ k \in DOMAIN jobs
        /\ UNCHANGED <<batches, authority, snapshot, loop, marker, finished, handoff>>
      BY DEF InvokeCallback, At
  <1>2. CASE BodyFails(k) /\ effects' = effects
    <2>1. PICK status \in {"RETRY", "FATAL"} : Accepted(k, status, FALSE) \/ Refused(k, status)
        BY <1>2, ZenonT(40) DEF BodyFails
    <2> QED BY <1>1, <1>2, <2>1, BodyFailsStep, ZenonT(40)
  <1>3. CASE /\ effects' = effects \cup {<<k, Effect(k)>>}
             /\ SubmitCompletion(k, "OK", Effect(k) = "drain")
    <2> DEFINE cleanup == Effect(k) = "drain"
    <2>1. Grows BY <1>1, <1>3 DEF Grows
    <2>2. KeyInv(k) BY DEF ExecutorInv
    <2>3. Effect(k) # "apply" BY DEF Effect
    <2>4. StoreInv(k)' BY <1>1, <1>3, <2>1, <2>2, <2>3, DoneKept DEF StoreInv, KeyInv
    <2>5. \A j \in Key \ {k} : <<j, "apply">> \in effects' => <<j, "apply">> \in effects BY <1>3
    <2>6. CASE Refused(k, "OK") BY <1>1, <2>1, <2>4, <2>5, <2>6, RefusedStep
    <2>7. CASE Accepted(k, "OK", cleanup)
      <3>1. ex' = ex /\ ex.running BY <2>7, ZenonT(40) DEF Accepted
      <3>2. k \in DOMAIN ex.ops BY <1>1, <2>2, <3>1 DEF KeyInv, JobInv
      <3>3. TypeOf(k)' = TypeOf(k) BY <1>1, TypeKept
      <3>4. TypeOf(k) = "SCALE_OUT" => <<k, "scale-out">> \in effects' BY <1>3 DEF Effect
      <3>5. cleanup => Drained(k)'
        <4>1. cleanup => ex.ops[k].metadataDone BY <3>2, ZenonT(40) DEF Effect
        <4>2. cleanup => MetadataMoved(k) BY <2>2, <3>2, <4>1 DEF KeyInv, OpInv
        <4> QED BY <1>1, <1>3, <3>1, <3>3, <4>1, <4>2 DEF Drained, MetadataMoved
      <3>6. ~ cleanup /\ TypeOf(k) = "SCALE_IN" =>
              IF ex.ops[k].metadataDone THEN <<k, "apply">> \in effects' ELSE <<k, "migrate">> \in effects'
          BY <1>3, <3>2 DEF Effect, Known
      <3>7. cleanup \in BOOLEAN /\ "OK" \in {"OK", "RETRY", "FATAL"} OBVIOUS
      <3> HIDE DEF cleanup
      <3> QED BY <1>1, <2>1, <2>4, <2>5, <2>7, <3>4, <3>5, <3>6, <3>7, AcceptedStep, ZenonT(40)
    <2> QED BY <1>3, <2>6, <2>7 DEF SubmitCompletion
  <1> QED BY <1>2, <1>3 DEF InvokeCallback

LEMMA ExecuteCleanupApplyStep ==
  ASSUME ExecutorInv, NEW k \in Key, ExecuteCleanupApply(k)
  PROVE  ExecutorInv'
  <1>1. /\ k \in DOMAIN jobs /\ jobs[k].stage = "apply"
        /\ UNCHANGED <<batches, authority, snapshot, loop, marker, finished, handoff>>
      BY DEF ExecuteCleanupApply, At
  <1>2. CASE (BodyFails(k) \/ SubmitCompletion(k, "RETRY", FALSE)) /\ effects' = effects
    <2>1. PICK status \in {"RETRY", "FATAL"} : Accepted(k, status, FALSE) \/ Refused(k, status)
        BY <1>2, ZenonT(40) DEF BodyFails, SubmitCompletion
    <2> QED BY <1>1, <1>2, <2>1, BodyFailsStep, ZenonT(40)
  <1>3. CASE effects' = effects \cup {<<k, "apply">>} /\ SubmitCompletion(k, "OK", FALSE)
    <2>1. Grows BY <1>1, <1>3 DEF Grows
    <2>2. KeyInv(k) BY DEF ExecutorInv
    <2>3. Drained(k) BY <1>1, <2>2, ZenonT(40) DEF KeyInv, JobInv
    <2>4. StoreInv(k)' BY <1>1, <1>3, <2>1, <2>2, <2>3, DoneKept, ZenonT(40) DEF StoreInv, KeyInv, Drained
    <2>5. \A j \in Key \ {k} : <<j, "apply">> \in effects' => <<j, "apply">> \in effects BY <1>3, ZenonT(40)
    <2>6. CASE Refused(k, "OK") BY <1>1, <2>1, <2>4, <2>5, <2>6, RefusedStep
    <2>7. CASE Accepted(k, "OK", FALSE)
      <3>1. ex.running BY <2>7 DEF Accepted
      <3>2. TypeOf(k) = "SCALE_IN" /\ ex.ops[k].metadataDone BY <2>3, <3>1 DEF Drained
      <3>3. <<k, "apply">> \in effects' BY <1>3
      <3>4. FALSE \in BOOLEAN /\ "OK" \in {"OK", "RETRY", "FATAL"} OBVIOUS
      <3> QED BY <1>1, <2>1, <2>4, <2>5, <2>7, <3>2, <3>3, <3>4, AcceptedStep, ZenonT(40)
    <2> QED BY <1>3, <2>6, <2>7, ZenonT(40) DEF SubmitCompletion
  <1> QED BY <1>2, <1>3, ZenonT(40) DEF ExecuteCleanupApply

\* The completion of k ends with its operation settled, nothing else changed.
LEMMA EndsStep ==
  ASSUME ExecutorInv, NEW k \in Key, Settled(ex, ex', k), jobs' = Drop(jobs, k),
         UNCHANGED <<batches, authority, snapshot, loop, marker, finished, handoff, effects>>
  PROVE  ExecutorInv'
  <1>1. Grows BY DEF Grows
  <1>2. KeyInv(k) BY DEF ExecutorInv
  <1>3. StoreInv(k)' BY <1>1, <1>2, DoneKept DEF StoreInv, KeyInv
  <1>4. HandoffKept BY ZenonT(40) DEF HandoffKept, ExecutorInv
  <1> QED BY <1>1, <1>3, <1>4, SettledStep

\* The completion of k moves on to a stage that tells what was done.
LEMMA GotoStep ==
  ASSUME ExecutorInv, NEW k \in Key, k \in DOMAIN jobs, NEW stage \in Stages, NEW status \in {"OK", "RETRY", "FATAL"},
         Goto(k, stage, status), ex' = ex, stage # "completion",
         stage \in {"authorize", "apply"} => Drained(k),
         stage = "metadata" => TypeOf(k) = "SCALE_IN" /\ <<k, "migrate">> \in effects,
         stage = "progress" => Done(k),
         UNCHANGED <<batches, authority, snapshot, loop, marker, finished, handoff, effects>>
  PROVE  ExecutorInv'
  <1>1. Grows BY DEF Grows
  <1>2. KeyInv(k) BY DEF ExecutorInv
  <1>3. StoreInv(k)' BY <1>1, <1>2, DoneKept DEF StoreInv, KeyInv
  <1>0. jobs \in Jobs BY ZenonT(40) DEF ExecutorInv, ExecutorTypes
  <1>4. jobs' = MovedJob(jobs, k, stage, status) BY ZenonT(40) DEF Goto, MovedJob
  <1>5. OneJob(jobs, jobs', k) /\ k \in DOMAIN jobs' /\ jobs'[k].stage = stage
      BY <1>0, <1>4, JobMoves, ZenonT(40)
  <1>6. TypeOf(k)' = TypeOf(k) /\ (Done(k) => Done(k)') /\ (Drained(k) => Drained(k)')
      BY <1>1, TypeKept, DoneKept, ZenonT(40) DEF Drained
  <1>7. JobInv(k)' BY <1>2, <1>5, <1>6, ZenonT(40) DEF KeyInv, JobInv
  <1> QED BY <1>1, <1>3, <1>5, <1>7, JobStep, ZenonT(40)

LEMMA HandleCompletionStep ==
  ASSUME ExecutorInv, NEW k \in Key, HandleCompletion(k)
  PROVE  ExecutorInv'
  <1> DEFINE job == jobs[k]
             metadata == TypeOf(k) = "SCALE_IN" /\ job.status = "OK" /\ ~ (Known(ex, k) /\ ex.ops[k].metadataDone)
             end(x) == ex' = x /\ jobs' = Drop(jobs, k) /\ UNCHANGED faults
  <1>1. /\ k \in DOMAIN jobs /\ job.stage = "completion"
        /\ UNCHANGED <<batches, authority, snapshot, loop, marker, finished, handoff, effects>>
      BY DEF HandleCompletion, At
  <1>2. (CASE ~ ex.running -> end(Erase(ex, k))
          [] ex.running /\ FenceHolds(k) /\ job.status = "OK" /\ job.cleanup ->
               Goto(k, "authorize", "OK") /\ UNCHANGED <<ex, faults>>
          [] ex.running /\ ~ FenceHolds(k) ->
               end(Erase(ex, k))
          [] ex.running /\ FenceHolds(k) /\ ~ job.cleanup /\ metadata ->
               Goto(k, "metadata", "OK") /\ UNCHANGED <<ex, faults>>
          [] ex.running /\ FenceHolds(k) /\ ~ metadata /\ ~ job.cleanup
               /\ (job.status = "OK" \/ TypeOf(k) = "FAILURE") ->
               Goto(k, "progress", job.status) /\ UNCHANGED <<ex, faults>>
          [] OTHER -> end(CompleteFailure(ex, k, job.status, FALSE)))
      BY ZenonT(40) DEF HandleCompletion
  <1>3. KeyInv(k) /\ ex \in Executors /\ jobs \in Jobs BY DEF ExecutorInv, ExecutorTypes
  <1>4. job \in Job BY <1>1, <1>3, JobsShape
  <1>5. /\ ex.running \in BOOLEAN /\ job.cleanup \in BOOLEAN /\ job.status \in {"OK", "RETRY", "FATAL"}
        /\ FenceHolds(k) \in BOOLEAN
      BY <1>3, <1>4 DEF Executors, Job, FenceHolds
  <1>6. ex.running => k \in DOMAIN ex.ops BY <1>1, <1>3, ZenonT(40) DEF KeyInv, JobInv
  <1>7. job.status = "OK" /\ ex.running =>
          /\ TypeOf(k) = "SCALE_OUT" => <<k, "scale-out">> \in effects
          /\ job.cleanup => Drained(k)
          /\ ~ job.cleanup /\ TypeOf(k) = "SCALE_IN" =>
               IF ex.ops[k].metadataDone THEN <<k, "apply">> \in effects ELSE <<k, "migrate">> \in effects
      BY <1>1, <1>3, ZenonT(40) DEF KeyInv, JobInv
  <1>8. Settled(ex, Erase(ex, k), k) BY <1>3, EraseFacts, ZenonT(40) DEF Settled
  <1>9. CASE end(Erase(ex, k)) BY <1>1, <1>8, <1>9, EndsStep
  <1>10. CASE end(CompleteFailure(ex, k, job.status, FALSE))
    <2>1. FALSE \in BOOLEAN OBVIOUS
    <2>2. Settled(ex, ex', k) BY <1>3, <1>10, <2>1, CompleteFailureFacts, ZenonT(40)
    <2> QED BY <1>1, <1>10, <2>2, EndsStep, ZenonT(40)
  <1>11. CASE ex.running /\ FenceHolds(k) /\ job.status = "OK" /\ job.cleanup
    <2>1. Goto(k, "authorize", "OK") /\ ex' = ex BY <1>2, <1>11
    <2>2. Drained(k) BY <1>7, <1>11
    <2>3. "authorize" \in Stages /\ "OK" \in {"OK", "RETRY", "FATAL"} BY ZenonT(40) DEF Stages
    <2> QED BY <1>1, <2>1, <2>2, <2>3, GotoStep, ZenonT(40)
  <1>12. CASE ex.running /\ FenceHolds(k) /\ ~ job.cleanup /\ metadata
    <2>1. Goto(k, "metadata", "OK") /\ ex' = ex BY <1>2, <1>12, ZenonT(40)
    <2>2. TypeOf(k) = "SCALE_IN" /\ <<k, "migrate">> \in effects BY <1>6, <1>7, <1>12, ZenonT(40) DEF Known
    <2>3. "metadata" \in Stages /\ "OK" \in {"OK", "RETRY", "FATAL"} BY DEF Stages
    <2> QED BY <1>1, <2>1, <2>2, <2>3, GotoStep
  <1>13. CASE /\ ex.running /\ FenceHolds(k) /\ ~ metadata /\ ~ job.cleanup
              /\ (job.status = "OK" \/ TypeOf(k) = "FAILURE")
    <2>1. Goto(k, "progress", job.status) /\ ex' = ex BY <1>2, <1>13, ZenonT(40)
    <2>2. Done(k)
      <3>1. CASE TypeOf(k) = "SCALE_IN"
        <4>1. k \in DOMAIN ex.ops /\ ex.ops[k].metadataDone /\ <<k, "apply">> \in effects
            BY <1>6, <1>7, <1>13, <3>1 DEF Known
        <4>2. MetadataMoved(k) BY <1>3, <4>1, ZenonT(40) DEF KeyInv, OpInv
        <4>3. <<k, "drain">> \in effects BY <1>3, <4>1, ZenonT(40) DEF KeyInv, StoreInv
        <4> QED BY <3>1, <4>1, <4>2, <4>3, ZenonT(40) DEF Done, MetadataMoved
      <3>2. CASE TypeOf(k) = "SCALE_OUT" BY <1>7, <1>13, <3>2, ZenonT(40) DEF Done
      <3>3. CASE TypeOf(k) \notin {"SCALE_IN", "SCALE_OUT"} BY <3>3 DEF Done
      <3> QED BY <3>1, <3>2, <3>3, ZenonT(40)
    <2>3. "progress" \in Stages BY DEF Stages
    <2> HIDE DEF job
    <2> QED BY <1>1, <1>5, <2>1, <2>2, <2>3, GotoStep, ZenonT(40)
  <1> QED BY <1>2, <1>9, <1>10, <1>11, <1>12, <1>13, ZenonT(40)

LEMMA ValidateFailsStep ==
  ASSUME ExecutorInv, NEW k \in Key, ValidateFails(k)
  PROVE  ExecutorInv'
  <1>1. ex \in Executors /\ FALSE \in BOOLEAN BY DEF ExecutorInv, ExecutorTypes
  <1>2. Settled(ex, Erase(ex, k), k) BY <1>1, EraseFacts DEF Settled
  <1>3. Settled(ex, CompleteFailure(ex, k, "RETRY", FALSE), k) BY <1>1, CompleteFailureFacts, ZenonT(40)
  <1>4. Settled(ex, ex', k) /\ jobs' = Drop(jobs, k) BY <1>2, <1>3, ZenonT(40) DEF ValidateFails
  <1> QED BY <1>4, EndsStep, ZenonT(40) DEF ValidateFails

LEMMA AuthorizeCleanupStep ==
  ASSUME ExecutorInv, NEW k \in Key, AuthorizeCleanup(k)
  PROVE  ExecutorInv'
  <1>1. /\ k \in DOMAIN jobs /\ jobs[k].stage = "authorize"
        /\ UNCHANGED <<batches, authority, snapshot, loop, marker, finished, handoff, effects>>
      BY DEF AuthorizeCleanup, At
  <1>2. KeyInv(k) /\ ex \in Executors /\ jobs \in Jobs /\ FALSE \in BOOLEAN BY DEF ExecutorInv, ExecutorTypes
  <1>3. CASE jobs' = ApplyingJob(jobs, k) /\ ex' = ex
    <2>1. OneJob(jobs, jobs', k) /\ k \in DOMAIN jobs' /\ jobs'[k].stage = "apply"
        BY <1>1, <1>2, <1>3, ApplyingJobFacts, ZenonT(40)
    <2>2. Grows BY <1>1 DEF Grows
    <2>3. TypeOf(k)' = TypeOf(k) BY <1>1, TypeKept
    <2>4. Drained(k)' BY <1>1, <1>2, <1>3, <2>3, ZenonT(40) DEF KeyInv, JobInv, Drained
    <2>5. JobInv(k)' BY <1>1, <1>2, <1>3, <2>1, <2>4, ZenonT(40) DEF KeyInv, JobInv
    <2>6. StoreInv(k)' BY <1>1, <1>2, <2>2, DoneKept, ZenonT(40) DEF StoreInv, KeyInv
    <2> QED BY <1>1, <1>3, <2>1, <2>2, <2>5, <2>6, JobStep, ZenonT(40)
  <1>4. CASE jobs' = Drop(jobs, k) /\ \E status : ex' = CompleteFailure(ex, k, status, FALSE)
    <2>1. Settled(ex, ex', k) BY <1>2, <1>4, CompleteFailureFacts, ZenonT(40)
    <2> QED BY <1>1, <1>4, <2>1, EndsStep, ZenonT(40)
  <1> QED BY <1>3, <1>4, ZenonT(40) DEF AuthorizeCleanup, ApplyingJob

LEMMA FinishProgressStep ==
  ASSUME ExecutorInv, NEW k \in Key, FinishProgress(k)
  PROVE  ExecutorInv'
  <1>1. /\ k \in DOMAIN jobs /\ jobs[k].stage = "progress" /\ jobs' = Drop(jobs, k)
        /\ UNCHANGED <<batches, authority, snapshot, loop, marker, effects>>
        /\ CompleteProgress(k, jobs[k].status = "OK")
      BY ZenonT(40) DEF FinishProgress, At
  <1>2. KeyInv(k) BY DEF ExecutorInv
  <1>3. Done(k) BY <1>1, <1>2, ZenonT(40) DEF KeyInv, JobInv
  <1>4. /\ HandoffKept
        /\ \A j \in Key \ {k} : j \in finished' <=> j \in finished
        /\ \/ ex' = ex /\ k \notin DOMAIN ex.ops /\ finished' = finished
           \/ Settled(ex, ex', k)
    <2>1. (jobs[k].status = "OK") \in BOOLEAN OBVIOUS
    <2> QED BY <1>1, <1>3, <2>1, ProgressFacts, ZenonT(40)
  <1>5. Settled(ex, ex', k)
    <2>1. CASE ex' = ex /\ k \notin DOMAIN ex.ops
      <3>1. k \notin ex.gate BY <1>2, <2>1, ZenonT(40) DEF KeyInv, OpInv
      <3> QED BY <2>1, <3>1, TouchesSelf DEF Settled, Erased, ExecutorInv, ExecutorTypes
    <2> QED BY <1>4, <2>1, ZenonT(40)
  <1>6. Grows BY <1>1 DEF Grows
  <1>7. StoreInv(k)' BY <1>1, <1>2, <1>3, <1>6, DoneKept, ZenonT(40) DEF StoreInv, KeyInv
  <1> QED BY <1>1, <1>4, <1>5, <1>6, <1>7, SettledStep, ZenonT(40)

\* The metadata marker as CompleteScaleInMetadata records it, and the drains
\* that become due with it.
Noted(y, k) == [y EXCEPT !.ops[k].metadataDone = TRUE, !.gate = @ \ {k}]
Due(x, k, j) == j = k \/ (GateReady(x, k) /\ EpochOf(j) = EpochOf(k) /\ x.ops[j].metadataDone)
Rescheduled(x, k) ==
  [x EXCEPT !.ops = [j \in DOMAIN @ |-> IF Due(x, k, j) THEN [@[j] EXCEPT !.scheduled = TRUE] ELSE @[j]]]

LEMMA NotedFacts ==
  ASSUME NEW x \in Executors, NEW k \in DOMAIN x.ops
  PROVE  LET y == Noted(x, k) IN
         /\ Touches(x, y, k) /\ k \in DOMAIN y.ops /\ k \notin y.gate
         /\ y.ops[k].metadataDone
         /\ y.ops[k].inFlight = x.ops[k].inFlight /\ y.ops[k].progressReady = x.ops[k].progressReady
  <1> DEFINE o == [x.ops[k] EXCEPT !.metadataDone = TRUE]
             z == [x EXCEPT !.ops[k] = o]
             g == x.gate \ {k}
             y == Noted(x, k)
  <1>1. x.ops[k] \in Op BY OpsShape DEF Executors
  <1>2. /\ o \in Op /\ o.metadataDone
        /\ o.inFlight = x.ops[k].inFlight /\ o.progressReady = x.ops[k].progressReady
      BY <1>1, ZenonT(40) DEF Op
  <1>3. y = [z EXCEPT !.gate = g] BY DEF Noted, Executors
  <1>4. g \in SUBSET Key /\ k \notin g /\ \A j \in Key \ {k} : j \in g <=> j \in x.gate
      BY DEF Executors
  <1> HIDE DEF o, g
  <1>5. Touches(x, z, k) /\ k \in DOMAIN z.ops /\ z.ops[k] = o /\ z.gate = x.gate
      BY <1>2, ChangeOp
  <1> HIDE DEF z, y
  <1>6. z \in Executors BY <1>5 DEF Touches
  <1>7. y \in Executors /\ y.gate = g /\ y.ops = z.ops /\ y.running = z.running
        /\ y.epoch = z.epoch /\ y.window = z.window
      BY <1>3, <1>4, <1>6, ZenonT(40) DEF Executors
  <1>8. Touches(x, y, k) BY <1>4, <1>5, <1>7 DEF Touches
  <1>9. /\ Touches(x, y, k) /\ k \in DOMAIN y.ops /\ k \notin y.gate
        /\ y.ops[k].metadataDone
        /\ y.ops[k].inFlight = x.ops[k].inFlight /\ y.ops[k].progressReady = x.ops[k].progressReady
      BY <1>2, <1>4, <1>5, <1>7, <1>8, ZenonT(40)
  <1> QED BY <1>9 DEF y

LEMMA RescheduledFacts ==
  ASSUME NEW x \in Executors, NEW k \in DOMAIN x.ops
  PROVE  LET y == Rescheduled(x, k) IN
         /\ Touches(x, y, k) /\ k \in DOMAIN y.ops /\ y.gate = x.gate
         /\ y.ops[k].metadataDone = x.ops[k].metadataDone
         /\ y.ops[k].inFlight = x.ops[k].inFlight /\ y.ops[k].progressReady = x.ops[k].progressReady
  <1> DEFINE f == [j \in DOMAIN x.ops |-> IF Due(x, k, j) THEN [x.ops[j] EXCEPT !.scheduled = TRUE] ELSE x.ops[j]]
             y == Rescheduled(x, k)
  <1>1. DOMAIN x.ops \in SUBSET Key /\ \A j \in DOMAIN x.ops : x.ops[j] \in Op
      BY OpsShape DEF Executors
  <1>2. \A j \in DOMAIN x.ops :
          /\ f[j] \in Op /\ f[j].inFlight = x.ops[j].inFlight /\ f[j].attempts = x.ops[j].attempts
          /\ f[j].progressReady = x.ops[j].progressReady /\ f[j].metadataDone = x.ops[j].metadataDone
      BY <1>1, ZenonT(40) DEF Op
  <1>3. f \in [DOMAIN x.ops -> Op] BY <1>2, ZenonT(40)
  <1>4. f \in Ops /\ DOMAIN f = DOMAIN x.ops BY <1>1, <1>3 DEF Ops
  <1>5. y = [x EXCEPT !.ops = f] BY DEF Rescheduled, Executors
  <1> HIDE DEF f, y
  <1>6. y \in Executors /\ y.ops = f /\ y.gate = x.gate /\ y.running = x.running
        /\ y.epoch = x.epoch /\ y.window = x.window
      BY <1>4, <1>5, ZenonT(40) DEF Executors
  <1>7. Touches(x, y, k) BY <1>2, <1>4, <1>6, ZenonT(40) DEF Touches
  <1>8. /\ Touches(x, y, k) /\ k \in DOMAIN y.ops /\ y.gate = x.gate
        /\ y.ops[k].metadataDone = x.ops[k].metadataDone
        /\ y.ops[k].inFlight = x.ops[k].inFlight /\ y.ops[k].progressReady = x.ops[k].progressReady
      BY <1>2, <1>4, <1>6, <1>7
  <1> QED BY <1>8 DEF y

LEMMA CompleteScaleInMetadataStep ==
  ASSUME ExecutorInv, NEW k \in Key, CompleteScaleInMetadata(k)
  PROVE  ExecutorInv'
  <1>1. /\ k \in DOMAIN jobs /\ jobs[k].stage = "metadata" /\ jobs' = Drop(jobs, k)
        /\ UNCHANGED <<batches, authority, snapshot, loop, finished, handoff, effects>>
      BY DEF CompleteScaleInMetadata, At
  <1>2. KeyInv(k) /\ ex \in Executors /\ FALSE \in BOOLEAN BY DEF ExecutorInv, ExecutorTypes
  <1>3. TypeOf(k) = "SCALE_IN" /\ <<k, "migrate">> \in effects BY <1>1, <1>2, ZenonT(40) DEF KeyInv, JobInv
  <1>4. HandoffKept BY <1>1, ZenonT(40) DEF HandoffKept, ExecutorInv
  <1>5. marker \subseteq marker' => Grows /\ StoreInv(k)'
    <2>1. marker \subseteq marker' => Grows BY <1>1, ZenonT(40) DEF Grows
    <2> QED BY <1>1, <1>2, <2>1, DoneKept, ZenonT(40) DEF StoreInv, KeyInv
  <1>6. CASE ~ Known(ex, k)
    <2>1. ex' = ex /\ marker' = marker BY <1>6 DEF CompleteScaleInMetadata
    <2>2. k \notin DOMAIN ex.ops /\ k \notin ex.gate BY <1>2, <1>6, ZenonT(40) DEF KeyInv, OpInv, Known
    <2>3. Settled(ex, ex', k) BY <1>2, <2>1, <2>2, TouchesSelf DEF Settled, Erased
    <2> QED BY <1>1, <2>1, <2>3, EndsStep
  <1>7. CASE \E status \in {"RETRY", "FATAL"} :
               marker' \in {marker, marker \cup {k}} /\ ex' = CompleteFailure(ex, k, status, FALSE)
    <2>1. Settled(ex, ex', k) BY <1>2, <1>7, CompleteFailureFacts, ZenonT(40)
    <2>2. Grows /\ StoreInv(k)' BY <1>5, <1>7
    <2> QED BY <1>1, <1>4, <2>1, <2>2, SettledStep, ZenonT(40)
  <1>8. CASE Known(ex, k) /\ marker' = marker \cup {k} /\ ex' = Rescheduled(Noted(Release(ex, k), k), k)
    <2> DEFINE y == Release(ex, k)  z == Noted(y, k)
    <2>1. k \in DOMAIN ex.ops BY <1>8 DEF Known
    <2>2. Touches(ex, y, k) /\ Kept(ex, y, k) BY <1>2, <2>1, ReleaseFacts
    <2>3. y \in Executors /\ k \in DOMAIN y.ops BY <2>2, ZenonT(40) DEF Touches, Kept
    <2> HIDE DEF y
    <2>4. /\ Touches(y, z, k) /\ k \in DOMAIN z.ops /\ k \notin z.gate
          /\ z.ops[k].metadataDone
          /\ z.ops[k].inFlight = y.ops[k].inFlight /\ z.ops[k].progressReady = y.ops[k].progressReady
        BY <2>3, NotedFacts, ZenonT(40)
    <2>5. z \in Executors BY <2>4, ZenonT(40) DEF Touches
    <2> HIDE DEF z
    <2>6. ex' = Rescheduled(z, k) BY <1>8 DEF y, z
    <2>7. /\ Touches(z, ex', k) /\ k \in DOMAIN (ex').ops /\ (ex').gate = z.gate
          /\ (ex').ops[k].metadataDone = z.ops[k].metadataDone
          /\ (ex').ops[k].inFlight = z.ops[k].inFlight /\ (ex').ops[k].progressReady = z.ops[k].progressReady
        BY <2>4, <2>5, <2>6, RescheduledFacts, ZenonT(40)
    <2>8. Touches(ex, ex', k)
      <3>1. Touches(ex, z, k) BY <2>2, <2>4, TouchesTrans
      <3> QED BY <2>7, <3>1, TouchesTrans, ZenonT(40)
    <2>9. /\ (ex').running = ex.running /\ (ex').epoch = ex.epoch /\ (ex').window = ex.window
        BY <2>8 DEF Touches
    <2>10. Grows /\ StoreInv(k)' BY <1>5, <1>8, ZenonT(40)
    <2>11. OneJob(jobs, jobs', k) /\ k \notin DOMAIN jobs'
        BY <1>1, DropJob DEF ExecutorInv, ExecutorTypes
    <2>12. OnlyKey(k) BY <1>1, <2>8, <2>10, <2>11, ZenonT(40) DEF OnlyKey, ExecutorInv, ExecutorTypes
    <2>13. /\ TypeOf(k)' = TypeOf(k) /\ EpochOf(k)' = EpochOf(k)
           /\ Done(k) => Done(k)'
           /\ MetadataMoved(k)'
        BY <1>1, <1>3, <1>8, <2>10, DoneKept, TypeKept, ZenonT(40) DEF EpochOf, MetadataMoved
    <2>14. ~ (ex').ops[k].inFlight /\ (ex').ops[k].metadataDone
           /\ ((ex').ops[k].progressReady => ex.ops[k].progressReady \/ Done(k))
        BY <2>2, <2>4, <2>7, ZenonT(40) DEF Kept
    <2>15. OpInv(k)' BY <1>2, <2>1, <2>4, <2>7, <2>9, <2>13, <2>14, ZenonT(40) DEF KeyInv, OpInv
    <2>16. JobInv(k)' BY <2>11, ZenonT(40) DEF JobInv
    <2>17. TodoInv(k)' BY <1>1, <1>2, <2>9, <2>13, <2>14, ZenonT(40) DEF KeyInv, TodoInv
    <2>18. KeyInv(k)' BY <2>10, <2>15, <2>16, <2>17, ZenonT(40) DEF KeyInv
    <2>19. SlotInv' BY <2>8, <2>14, SlotsFreed DEF Flying, ExecutorInv
    <2> QED BY <1>4, <2>12, <2>18, <2>19, OneKeyStep
  <1>9. CASE Known(ex, k)
    <2>1. \/ marker' = marker \cup {k} /\ ex' = Rescheduled(Noted(Release(ex, k), k), k)
          \/ \E status \in {"RETRY", "FATAL"} :
               marker' \in {marker, marker \cup {k}} /\ ex' = CompleteFailure(ex, k, status, FALSE)
        BY <1>9, ZenonT(40) DEF CompleteScaleInMetadata, Noted, Rescheduled, Due
    <2> QED BY <1>7, <1>8, <1>9, <2>1, ZenonT(40)
  <1> QED BY <1>6, <1>9

(***************************************************************************)
(* The steps on the whole executor.                                        *)
(***************************************************************************)
\* The operations and the stages of the jobs are left as they are.
SameRecords ==
  /\ batches' = batches /\ marker' = marker /\ effects' = effects /\ finished' = finished
  /\ (ex').ops = ex.ops /\ (ex').gate = ex.gate /\ (ex').epoch = ex.epoch
  /\ (ex').running => ex.running
  /\ (ex').window => ex.window
  /\ DOMAIN jobs' = DOMAIN jobs
  /\ \A k \in DOMAIN jobs : /\ jobs'[k].stage = jobs[k].stage /\ jobs'[k].status = jobs[k].status
                            /\ jobs'[k].cleanup = jobs[k].cleanup

LEMMA SameRecordsKept ==
  ASSUME ExecutorInv, SameRecords, ExecutorTypes', HandoffOfThisBatch', (handoff \subseteq Key)',
         \A k \in Key : TodoInv(k)'
  PROVE  ExecutorInv'
  <1>1. SlotInv' BY ZenonT(40) DEF ExecutorInv, SlotInv, Counting, Bounded, InFlight, SameRecords
  <1>2. Grows BY DEF Grows, SameRecords
  <1>3. ASSUME NEW k \in Key PROVE KeyInv(k)'
    <2>1. /\ TypeOf(k)' = TypeOf(k) /\ EpochOf(k)' = EpochOf(k)
          /\ Done(k) => Done(k)'
          /\ MetadataMoved(k) => MetadataMoved(k)'
        BY <1>2, DoneKept, TypeKept DEF Grows, EpochOf
    <2>2. KeyInv(k) BY DEF ExecutorInv
    <2>3. Drained(k) => Drained(k)' BY <2>1, ZenonT(40) DEF Drained, SameRecords
    <2>4. OpInv(k)' BY <2>1, <2>2, ZenonT(40) DEF KeyInv, OpInv, SameRecords
    <2>5. JobInv(k)' BY <2>1, <2>2, <2>3, ZenonT(40) DEF KeyInv, JobInv, SameRecords
    <2>6. StoreInv(k)' BY <2>1, <2>2, ZenonT(40) DEF KeyInv, StoreInv, SameRecords
    <2> QED BY <2>4, <2>5, <2>6 DEF KeyInv
  <1>4. (\A k \in Key : KeyInv(k))' BY <1>3, ZenonT(40) DEF Key, Epoch
  <1>5. (finished \subseteq Key)' BY DEF ExecutorInv, SameRecords
  <1> QED BY <1>1, <1>4, <1>5 DEF ExecutorInv

LEMMA TodoKept ==
  ASSUME ExecutorInv, loop' = loop, (ex').ops = ex.ops, (ex').epoch = ex.epoch
  PROVE  \A k \in Key : TodoInv(k)'
  BY DEF ExecutorInv, KeyInv, TodoInv, EpochOf

\* Publishing a snapshot keeps only the hand-over of its batch.
LEMMA PublishFacts ==
  ASSUME ExecutorInv, Publish, finished' = finished
  PROVE  HandoffOfThisBatch' /\ (handoff \subseteq Key)' /\ snapshot' = authority
  BY DEF ExecutorInv, Publish, ResetScaleOutHandoffIfBatchChanged, HandoffOfThisBatch, EpochOf

LEMMA ChangeTopologyStep == ExecutorInv /\ ChangeTopology => ExecutorInv'
  <1> SUFFICES ASSUME ExecutorInv, ChangeTopology PROVE ExecutorInv' OBVIOUS
  <1>1. ExecutorTypes' BY DEF ExecutorInv, ExecutorTypes, ChangeTopology
  <1>2. SameRecords BY DEF SameRecords, ChangeTopology
  <1>3. HandoffOfThisBatch' /\ (handoff \subseteq Key)'
      BY DEF ChangeTopology, ExecutorInv, HandoffOfThisBatch, EpochOf
  <1>4. \A k \in Key : TodoInv(k)' BY TodoKept DEF ChangeTopology
  <1> QED BY <1>1, <1>2, <1>3, <1>4, SameRecordsKept

LEMMA ReloadTopologyStep == ExecutorInv /\ ReloadTopology => ExecutorInv'
  <1> SUFFICES ASSUME ExecutorInv, ReloadTopology PROVE ExecutorInv' OBVIOUS
  <1>1. HandoffOfThisBatch' /\ (handoff \subseteq Key)' /\ snapshot' = authority
      BY PublishFacts DEF ReloadTopology
  <1>2. ExecutorTypes' BY <1>1 DEF ExecutorInv, ExecutorTypes, ReloadTopology
  <1>3. SameRecords BY DEF SameRecords, ReloadTopology
  <1>4. \A k \in Key : TodoInv(k)' BY TodoKept DEF ReloadTopology
  <1> QED BY <1>1, <1>2, <1>3, <1>4, SameRecordsKept

LEMMA HandleTickStep ==
  ASSUME ExecutorInv, NEW due, HandleTick(due)
  PROVE  ExecutorInv'
  <1>0. DOMAIN ex.ops \subseteq Key BY OpsShape DEF ExecutorInv, ExecutorTypes, Executors
  <1>1. due \subseteq Key /\ \A k \in due : k \in DOMAIN ex.ops => ~ ex.ops[k].inFlight
      BY <1>0 DEF HandleTick
  <1>2. loop' \in Loops /\ (loop').pc = "tick" /\ (loop').todo = due BY <1>1 DEF HandleTick, Loops
  <1>3. ExecutorTypes' BY <1>2 DEF ExecutorInv, ExecutorTypes, HandleTick
  <1>4. SameRecords BY DEF SameRecords, HandleTick
  <1>5. HandoffOfThisBatch' /\ (handoff \subseteq Key)'
      BY DEF HandleTick, ExecutorInv, HandoffOfThisBatch, EpochOf
  <1>6. \A k \in Key : TodoInv(k)' BY <1>1, <1>2 DEF TodoInv, HandleTick
  <1> QED BY <1>3, <1>4, <1>5, <1>6, SameRecordsKept

LEMMA WindowExhaustedStep == ExecutorInv /\ WindowExhausted => ExecutorInv'
  <1> SUFFICES ASSUME ExecutorInv, WindowExhausted PROVE ExecutorInv' OBVIOUS
  <1>0. ex \in Executors BY DEF ExecutorInv, ExecutorTypes
  <1>1. /\ ex' \in Executors /\ (ex').ops = ex.ops /\ (ex').gate = ex.gate /\ (ex').epoch = ex.epoch
        /\ (ex').running = ex.running /\ ~ (ex').window
      BY <1>0, ZenonT(40) DEF WindowExhausted, Executors
  <1>2. ExecutorTypes' BY <1>1 DEF ExecutorInv, ExecutorTypes, WindowExhausted
  <1>3. SameRecords BY <1>1 DEF SameRecords, WindowExhausted
  <1>4. HandoffOfThisBatch' /\ (handoff \subseteq Key)'
      BY DEF WindowExhausted, ExecutorInv, HandoffOfThisBatch, EpochOf
  <1>5. \A k \in Key : TodoInv(k)' BY <1>1, TodoKept, ZenonT(40) DEF WindowExhausted
  <1> QED BY <1>2, <1>3, <1>4, <1>5, SameRecordsKept

LEMMA StopStep == ExecutorInv /\ Stop => ExecutorInv'
  <1> SUFFICES ASSUME ExecutorInv, Stop PROVE ExecutorInv' OBVIOUS
  <1>0. ex \in Executors /\ jobs \in Jobs BY DEF ExecutorInv, ExecutorTypes
  <1>1. /\ ex' \in Executors /\ (ex').ops = ex.ops /\ (ex').gate = ex.gate /\ (ex').epoch = ex.epoch
        /\ ~ (ex').running /\ (ex').window = ex.window
      BY <1>0, ZenonT(40) DEF Stop, Executors
  <1>2. /\ jobs' \in Jobs /\ DOMAIN jobs' = DOMAIN jobs
        /\ \A k \in DOMAIN jobs : /\ jobs'[k].stage = jobs[k].stage /\ jobs'[k].status = jobs[k].status
                                  /\ jobs'[k].cleanup = jobs[k].cleanup
      BY <1>0, CancelledFacts DEF Stop
  <1>3. ExecutorTypes' BY <1>1, <1>2 DEF ExecutorInv, ExecutorTypes, Stop
  <1>4. SameRecords BY <1>1, <1>2 DEF SameRecords, Stop
  <1>5. HandoffOfThisBatch' /\ (handoff \subseteq Key)'
      BY DEF Stop, ExecutorInv, HandoffOfThisBatch, EpochOf
  <1>6. \A k \in Key : TodoInv(k)' BY <1>1, TodoKept DEF Stop
  <1> QED BY <1>3, <1>4, <1>5, <1>6, SameRecordsKept

LEMMA EpochsPositive == Epoch \subseteq Nat \ {0} /\ \A k \in Key : EpochOf(k) \in Epoch
  <1>1. ASSUME NEW h \in Histories PROVE DOMAIN h \subseteq Nat \ {0}
    <2>1. h \in Seq({"NONE", "SCALE_IN", "SCALE_OUT", "FAILURE"}) BY ExecutorAssumption
    <2>2. DOMAIN h = 1..Len(h) /\ Len(h) \in Nat BY <2>1
    <2> QED BY <2>2
  <1> QED BY <1>1 DEF Epoch, Key, EpochOf

\* An executor with no operation.
LEMMA NoOps ==
  /\ NoneYet \in Ops /\ DOMAIN NoneYet = {} /\ NoneYet \in Jobs
  <1>1. NoneYet \in [{} -> Op] /\ NoneYet \in [{} -> Job] BY DEF NoneYet
  <1>2. {} \in SUBSET Key OBVIOUS
  <1> QED BY <1>1, <1>2, ZenonT(40) DEF Ops, Jobs, NoneYet

LEMMA BoundedEmpty == Counting => Bounded({})
  BY ExecutorAssumption DEF Counting, Bounded

LEMMA EmptySlots == (ex').ops = NoneYet => SlotInv'
  <1>1. (ex').ops = NoneYet => InFlight(ex)' = {} BY NoOps DEF InFlight
  <1>2. (ex').ops = NoneYet => (Counting => Bounded(InFlight(ex)')) BY <1>1, BoundedEmpty
  <1> QED BY <1>2, ZenonT(40) DEF SlotInv, Counting, Bounded

LEMMA StopDrainedStep == ExecutorInv /\ StopDrained => ExecutorInv'
  <1> SUFFICES ASSUME ExecutorInv, StopDrained PROVE ExecutorInv' OBVIOUS
  <1>0. ex \in Executors /\ ~ ex.running BY DEF ExecutorInv, ExecutorTypes, StopDrained
  <1>1. /\ ex' \in Executors /\ (ex').ops = NoneYet /\ (ex').gate = {} /\ ~ (ex').running
        /\ (ex').epoch = ex.epoch
      BY <1>0, NoOps, ZenonT(40) DEF StopDrained, Executors
  <1>2. ExecutorTypes' BY <1>1 DEF ExecutorInv, ExecutorTypes, StopDrained
  <1>3. HandoffOfThisBatch' /\ (handoff \subseteq Key)' /\ (finished \subseteq Key)'
      BY DEF StopDrained, ExecutorInv, HandoffOfThisBatch, EpochOf
  <1>4. SlotInv' BY <1>1, EmptySlots
  <1>5. ASSUME NEW k \in Key PROVE KeyInv(k)'
    <2>1. Grows BY DEF Grows, StopDrained
    <2>2. /\ TypeOf(k)' = TypeOf(k) /\ EpochOf(k)' = EpochOf(k) /\ (Done(k) => Done(k)')
        BY <2>1, DoneKept, TypeKept DEF Grows, EpochOf
    <2>3. KeyInv(k) BY DEF ExecutorInv
    <2>4. Drained(k) => Drained(k)' BY <1>1, <2>2, ZenonT(40) DEF Drained, StopDrained
    <2>5. OpInv(k)' BY <1>1, NoOps DEF OpInv
    <2>6. JobInv(k)' BY <1>1, <2>2, <2>3, <2>4 DEF KeyInv, JobInv, StopDrained
    <2>7. TodoInv(k)' BY <1>1, <2>2, <2>3, NoOps DEF KeyInv, TodoInv, StopDrained
    <2>8. StoreInv(k)' BY <2>2, <2>3 DEF KeyInv, StoreInv, StopDrained
    <2> QED BY <2>5, <2>6, <2>7, <2>8 DEF KeyInv
  <1>6. (\A k \in Key : KeyInv(k))' BY <1>5 DEF Key, Epoch
  <1> QED BY <1>2, <1>3, <1>4, <1>6 DEF ExecutorInv

LEMMA HandleNotifyStep == ExecutorInv /\ HandleNotify => ExecutorInv'
  <1> SUFFICES ASSUME ExecutorInv, HandleNotify PROVE ExecutorInv' OBVIOUS
  <1>1. /\ loop.pc = "idle" /\ ex.running /\ Publish
        /\ UNCHANGED <<batches, authority, marker, finished, effects, faults>>
      BY ZenonT(40) DEF HandleNotify
  <1>2. HandoffOfThisBatch' /\ (handoff \subseteq Key)' /\ snapshot' = authority
      BY <1>1, PublishFacts
  <1>3. ex \in Executors /\ jobs \in Jobs /\ loop \in Loops /\ authority \in Nat /\ batches \in Histories
      BY DEF ExecutorInv, ExecutorTypes
  <1>4. /\ Cancelled(jobs, ex) \in Jobs /\ DOMAIN Cancelled(jobs, ex) = DOMAIN jobs
        /\ \A k \in DOMAIN jobs : /\ Cancelled(jobs, ex)[k].stage = jobs[k].stage
                                  /\ Cancelled(jobs, ex)[k].status = jobs[k].status
                                  /\ Cancelled(jobs, ex)[k].cleanup = jobs[k].cleanup
      BY <1>3, CancelledFacts
  <1>5. CASE Type(authority) = "NONE" \/ (ex.epoch \notin {0, authority} /\ InFlight(ex) # {})
    <2>1. ex' = ex /\ loop' = loop /\ jobs' \in {jobs, Cancelled(jobs, ex)}
        BY <1>5 DEF HandleNotify, RefreshNotifyEpoch
    <2>2. ExecutorTypes' BY <1>1, <1>2, <1>3, <1>4, <2>1, ZenonT(40) DEF ExecutorTypes
    <2>3. SameRecords BY <1>1, <1>4, <2>1 DEF SameRecords
    <2>4. \A k \in Key : TodoInv(k)' BY <2>1, TodoKept
    <2> QED BY <1>2, <2>2, <2>3, <2>4, SameRecordsKept
  <1>6. ASSUME Type(authority) # "NONE"
        PROVE  [pc |-> "submit", todo |-> {authority} \X Task] \in Loops
    <2>1. authority \in Epoch BY <1>3, <1>6 DEF Type, Epoch
    <2>2. {authority} \X Task \subseteq Key BY <2>1 DEF Key
    <2> QED BY <2>2 DEF Loops
  <1>7. CASE Type(authority) # "NONE" /\ ex.epoch \in {0, authority}
    <2>1. /\ ex' = [ex EXCEPT !.epoch = authority] /\ jobs' = jobs
          /\ loop' = [pc |-> "submit", todo |-> {authority} \X Task]
        BY <1>7 DEF HandleNotify, RefreshNotifyEpoch
    <2>2. /\ ex' \in Executors /\ (ex').ops = ex.ops /\ (ex').gate = ex.gate /\ (ex').epoch = authority
          /\ (ex').running = ex.running /\ (ex').window = ex.window
        BY <1>3, <2>1, ZenonT(40) DEF Executors
    <2>3. ex.epoch # authority => \A k \in Key : k \notin DOMAIN ex.ops
        BY <1>7, EpochsPositive DEF ExecutorInv, KeyInv, OpInv
    <2>4. ExecutorTypes' BY <1>1, <1>2, <1>3, <1>6, <1>7, <2>1, <2>2 DEF ExecutorTypes
    <2>5. SlotInv' BY <2>2, ZenonT(40) DEF SlotInv, Counting, Bounded, InFlight, ExecutorInv
    <2>6. ASSUME NEW k \in Key PROVE KeyInv(k)'
      <3>1. Grows BY <1>1 DEF Grows
      <3>2. /\ TypeOf(k)' = TypeOf(k) /\ EpochOf(k)' = EpochOf(k) /\ (Done(k) => Done(k)')
            /\ MetadataMoved(k) => MetadataMoved(k)'
          BY <3>1, DoneKept, TypeKept, ZenonT(40) DEF Grows, EpochOf
      <3>3. KeyInv(k) BY DEF ExecutorInv
      <3>4. Drained(k) => Drained(k)' BY <1>1, <2>2, <3>2 DEF Drained
      <3>5. OpInv(k)' BY <2>1, <2>2, <2>3, <3>2, <3>3 DEF KeyInv, OpInv
      <3>6. JobInv(k)' BY <1>1, <2>1, <2>2, <3>2, <3>3, <3>4, ZenonT(40) DEF KeyInv, JobInv
      <3>7. TodoInv(k)' BY <2>1, <2>2 DEF TodoInv, EpochOf
      <3>8. StoreInv(k)' BY <1>1, <3>2, <3>3 DEF KeyInv, StoreInv
      <3> QED BY <3>5, <3>6, <3>7, <3>8 DEF KeyInv
    <2>7. (\A k \in Key : KeyInv(k))' BY <2>6 DEF Key, Epoch
    <2>8. (finished \subseteq Key)' BY <1>1 DEF ExecutorInv
    <2> QED BY <1>2, <2>4, <2>5, <2>7, <2>8 DEF ExecutorInv
  <1>8. CASE Type(authority) # "NONE" /\ ex.epoch \notin {0, authority} /\ InFlight(ex) = {}
    <2>1. /\ ex' = [ex EXCEPT !.epoch = authority, !.ops = NoneYet, !.gate = {}, !.window = TRUE]
          /\ jobs' = Cancelled(jobs, ex)
          /\ loop' = [pc |-> "submit", todo |-> {authority} \X Task]
        BY <1>8 DEF HandleNotify, RefreshNotifyEpoch
    <2>2. ex' \in Executors /\ (ex').ops = NoneYet /\ (ex').gate = {} /\ (ex').epoch = authority
        BY <1>3, <2>1, NoOps, ZenonT(40) DEF Executors
    <2>3. \A k \in Key : k \notin DOMAIN jobs
        BY <1>1, <1>8, ZenonT(40) DEF ExecutorInv, KeyInv, JobInv, InFlight
    <2>4. ExecutorTypes' BY <1>1, <1>2, <1>3, <1>4, <1>6, <1>8, <2>1, <2>2, ZenonT(40) DEF ExecutorTypes
    <2>5. SlotInv' BY <2>2, EmptySlots
    <2>6. ASSUME NEW k \in Key PROVE KeyInv(k)'
      <3>1. Grows BY <1>1 DEF Grows
      <3>2. Done(k) => Done(k)' BY <3>1, DoneKept, ZenonT(40)
      <3>3. KeyInv(k) BY DEF ExecutorInv
      <3>4. OpInv(k)' BY <2>2, NoOps DEF OpInv
      <3>5. JobInv(k)' BY <1>4, <2>1, <2>3 DEF JobInv
      <3>6. TodoInv(k)' BY <2>1, <2>2 DEF TodoInv, EpochOf
      <3>7. StoreInv(k)' BY <1>1, <3>2, <3>3 DEF KeyInv, StoreInv
      <3> QED BY <3>4, <3>5, <3>6, <3>7 DEF KeyInv
    <2>7. (\A k \in Key : KeyInv(k))' BY <2>6 DEF Key, Epoch
    <2>8. (finished \subseteq Key)' BY <1>1 DEF ExecutorInv
    <2> QED BY <1>2, <2>4, <2>5, <2>7, <2>8 DEF ExecutorInv
  <1> QED BY <1>5, <1>7, <1>8, ZenonT(40)

LEMMA InitInv == ExecutorInit => ExecutorInv
  <1> SUFFICES ASSUME ExecutorInit PROVE ExecutorInv BY ZenonT(40)
  <1>1. /\ ex \in Executors /\ ex.ops = NoneYet /\ ex.gate = {} /\ jobs \in Jobs /\ DOMAIN jobs = {}
        /\ loop \in Loops /\ loop.todo = {}
      BY NoOps, ZenonT(40) DEF ExecutorInit, Executors, Loops
  <1>2. ExecutorTypes BY <1>1 DEF ExecutorInit, ExecutorTypes
  <1>3. SlotInv
    <2>1. InFlight(ex) = {} BY <1>1, NoOps DEF InFlight
    <2> QED BY <2>1, BoundedEmpty DEF SlotInv
  <1>4. \A k \in Key : KeyInv(k)
      BY <1>1, NoOps, ZenonT(40) DEF ExecutorInit, KeyInv, OpInv, JobInv, TodoInv, StoreInv
  <1>5. finished = {} /\ handoff = {} BY DEF ExecutorInit
  <1> QED BY <1>2, <1>3, <1>4, <1>5 DEF ExecutorInv, HandoffOfThisBatch

LEMMA ExecutorInvariant == ExecutorSpec => []ExecutorInv
  <1>1. ExecutorInv /\ [ExecutorNext]_xvars => ExecutorInv'
    <2> SUFFICES ASSUME ExecutorInv, [ExecutorNext]_xvars PROVE ExecutorInv' OBVIOUS
    <2>1. CASE ChangeTopology BY <2>1, ChangeTopologyStep
    <2>2. CASE ReloadTopology BY <2>2, ReloadTopologyStep
    <2>3. CASE HandleNotify BY <2>3, HandleNotifyStep
    <2>4. CASE \E k \in Key : SubmitNotifiedTask(k) BY <2>4, SubmitNotifiedTaskStep
    <2>5. CASE \E due \in SUBSET DOMAIN ex.ops : HandleTick(due) BY <2>5, HandleTickStep
    <2>6. CASE \E k \in Key : TickOperation(k) BY <2>6, TickOperationStep
    <2>7. CASE WindowExhausted BY <2>7, WindowExhaustedStep
    <2>8. CASE \E k \in Key : BodyStep(k)
        BY <2>8, RunCallbackStep, InvokeCallbackStep, ExecuteCleanupApplyStep, ZenonT(40) DEF BodyStep
    <2>9. CASE \E k \in Key : CompletionStep(k)
        BY <2>9, HandleCompletionStep, ValidateFailsStep, AuthorizeCleanupStep,
           CompleteScaleInMetadataStep, FinishProgressStep, ZenonT(40) DEF CompletionStep
    <2>10. CASE Stop BY <2>10, StopStep
    <2>11. CASE StopDrained BY <2>11, StopDrainedStep
    <2>12. CASE UNCHANGED xvars
      <3>1. batches' = batches /\ authority' = authority /\ snapshot' = snapshot /\ loop' = loop /\ ex' = ex
            /\ jobs' = jobs /\ marker' = marker /\ finished' = finished /\ handoff' = handoff
            /\ effects' = effects
          BY <2>12 DEF xvars
      <3>2. SameRecords BY <3>1, ZenonT(40) DEF SameRecords
      <3>3. ExecutorTypes' /\ HandoffOfThisBatch' /\ (handoff \subseteq Key)'
          BY <3>1 DEF ExecutorInv, ExecutorTypes, HandoffOfThisBatch, EpochOf
      <3>4. \A k \in Key : TodoInv(k)' BY <3>1, TodoKept
      <3> QED BY <3>2, <3>3, <3>4, SameRecordsKept, ZenonT(40)
    <2> QED BY <2>1, <2>2, <2>3, <2>4, <2>5, <2>6, <2>7, <2>8, <2>9, <2>10, <2>11, <2>12, ZenonT(40)
            DEF ExecutorNext, LoopStep
  <1> QED BY <1>1, InitInv, PTL DEF ExecutorSpec

\* Callbacks of two batches never run together: RefreshNotifyEpochLocked admits
\* nothing of a new epoch before every body of the old one has returned, for any
\* number of tasks, slots, batches and faults.
THEOREM EpochsApart == ExecutorSpec => []OneEpochInFlight
  <1>1. ExecutorInv => OneEpochInFlight
    <2> SUFFICES ASSUME ExecutorInv, ex.running, NEW k \in DOMAIN jobs PROVE EpochOf(k) = ex.epoch
        BY DEF OneEpochInFlight
    <2>1. k \in Key BY JobsShape DEF ExecutorInv, ExecutorTypes
    <2>2. KeyInv(k) BY <2>1 DEF ExecutorInv
    <2> QED BY <2>2, ZenonT(40) DEF KeyInv, JobInv, OpInv
  <1> QED BY <1>1, ExecutorInvariant, PTL

\* A task is finished in the store only after its effects: MarkTaskScopeFinished
\* comes after the migration, the marker, the drain and the cleanup of a scale-in
\* and after the callback of a scale-out, through every retry.
THEOREM FinishedComesLast == ExecutorSpec => []FinishedAfterEffects
  <1>1. ExecutorInv => FinishedAfterEffects
    <2> SUFFICES ASSUME ExecutorInv PROVE FinishedAfterEffects OBVIOUS
    <2>1. \A k \in Key : StoreInv(k) BY DEF ExecutorInv, KeyInv
    <2>2. finished \subseteq Key BY DEF ExecutorInv
    <2> QED BY <2>1, <2>2, ZenonT(40) DEF FinishedAfterEffects, StoreInv, Done
  <1> QED BY <1>1, ExecutorInvariant, PTL

\* The answer to a hand-over query names only finished tasks of the batch in the
\* published snapshot, however the completion races the publication.
THEOREM HandoffsAreCurrent == ExecutorSpec => []HandoffOfThisBatch
  <1>1. ExecutorInv => HandoffOfThisBatch BY DEF ExecutorInv
  <1> QED BY <1>1, ExecutorInvariant, PTL

\* A body of k that is started to drain finds the gate open.
LEMMA DrainStarts ==
  ASSUME ExecutorInv, NEW k \in Key, NEW drain \in BOOLEAN, Admits(ex, ex', k, drain),
         drain => GateReady(ex, k), EpochOf(k) = ex.epoch, k \in DOMAIN (ex').ops,
         (ex').ops[k].metadataDone, NEW j \in DOMAIN (ex').ops, (ex').ops[j].attempts > 0
  PROVE  (ex').ops[j].metadataDone /\ j \in marker
  <1>1. Touches(ex, ex', k) /\ ex.window BY ZenonT(40) DEF Admits
  <1>2. j \in Key BY <1>1, OpsShape, ZenonT(40) DEF Touches, Executors
  <1>3. KeyInv(k) /\ KeyInv(j) /\ ex \in Executors BY <1>2 DEF ExecutorInv, ExecutorTypes
  <1>4. Moved(ex, k) /\ drain
    <2>1. Moved(ex', k) /\ ~ Erased(ex', k) BY ZenonT(40) DEF Moved, Erased
    <2> QED BY <2>1, ZenonT(40) DEF Admits
  <1>5. k \in marker /\ TypeOf(k) = "SCALE_IN" BY <1>3, <1>4, ZenonT(40) DEF KeyInv, OpInv, Moved, MetadataMoved
  <1>6. CASE j = k BY <1>5, <1>6, ZenonT(40)
  <1>7. CASE j # k
    <2>1. /\ j \in DOMAIN ex.ops /\ ex.ops[j].attempts > 0
          /\ (ex').ops[j].metadataDone = ex.ops[j].metadataDone
        BY <1>1, <1>2, <1>7, ZenonT(40) DEF Touches
    <2>2. EpochOf(j) = EpochOf(k) BY <1>3, <2>1, ZenonT(40) DEF KeyInv, OpInv
    <2>3. TypeOf(j) = "SCALE_IN" BY <1>5, <2>2, ZenonT(40) DEF TypeOf
    <2>4. j \notin ex.gate BY <1>4, <2>2, ZenonT(40) DEF GateReady
    <2>5. ex.ops[j].metadataDone BY <1>1, <1>3, <2>1, <2>3, <2>4, ZenonT(40) DEF KeyInv, OpInv
    <2> QED BY <1>3, <2>1, <2>5, ZenonT(40) DEF KeyInv, OpInv, MetadataMoved
  <1> QED BY <1>6, <1>7

\* The data of a scale-in source is drained only once every task admitted so far
\* has its metadata marker: the gate of SubmitCallback and of the tick.
THEOREM DrainsWait == ExecutorSpec => DrainWaitsForAdmitted
  <1> DEFINE Waited == \A k \in DOMAIN jobs' \ DOMAIN jobs :
               TypeOf(k) = "SCALE_IN" /\ ex'.ops[k].metadataDone
                 => \A j \in DOMAIN ex'.ops : ex'.ops[j].attempts > 0 => ex'.ops[j].metadataDone /\ j \in marker
  <1>1. ExecutorInv /\ [ExecutorNext]_xvars => [Waited]_xvars
    <2> SUFFICES ASSUME ExecutorInv, ExecutorNext PROVE Waited OBVIOUS
    <2>0. ex \in Executors /\ jobs \in Jobs /\ loop \in Loops BY DEF ExecutorInv, ExecutorTypes
    <2>1. ASSUME DOMAIN jobs' \subseteq DOMAIN jobs PROVE Waited BY <2>1
    <2> HIDE DEF Waited
    <2>2. ASSUME NEW k \in Key, SubmitNotifiedTask(k) PROVE Waited
      <3>1. KeyInv(k) BY DEF ExecutorInv
      <3>2. EpochOf(k) = ex.epoch BY <2>2, <3>1 DEF SubmitNotifiedTask, KeyInv, TodoInv
      <3>3. CASE jobs' = jobs BY <2>1, <3>3
      <3>4. CASE jobs' # jobs
        <4>1. SubmitCallback(k, FALSE, FALSE) BY <2>2, <3>4, ZenonT(40) DEF SubmitNotifiedTask
        <4>2. FALSE \in BOOLEAN OBVIOUS
        <4>3. Admits(ex, ex', k, FALSE) /\ Flying(ex', k) /\ jobs' = Set(jobs, k, NewJob)
            BY <2>0, <3>4, <4>1, <4>2, SubmitFacts, ZenonT(40)
        <4>4. DOMAIN jobs' \ DOMAIN jobs \subseteq {k} BY <4>3 DEF Set
        <4>5. k \in DOMAIN (ex').ops BY <4>3 DEF Flying
        <4> QED BY <3>2, <4>2, <4>3, <4>4, <4>5, DrainStarts, ZenonT(40) DEF Waited
      <3> QED BY <3>3, <3>4, ZenonT(40)
    <2>3. ASSUME NEW k \in Key, TickOperation(k) PROVE Waited
      <3>1. KeyInv(k) BY DEF ExecutorInv
      <3>2. CASE jobs' = jobs BY <2>1, <3>2
      <3>3. CASE jobs' # jobs
        <4> DEFINE drain == ex.ops[k].metadataDone
        <4>1. /\ Known(ex, k) /\ SubmitCallback(k, drain, TRUE)
              /\ drain => GateReady(ex, k)
            BY <2>3, <3>3, ZenonT(40) DEF TickOperation, CompleteProgress
        <4>2. k \in DOMAIN ex.ops /\ EpochOf(k) = ex.epoch BY <3>1, <4>1, ZenonT(40) DEF Known, KeyInv, OpInv
        <4>3. drain \in BOOLEAN /\ TRUE \in BOOLEAN BY <2>0, <4>2, OpsShape DEF Executors, Op
        <4> HIDE DEF drain
        <4>4. Admits(ex, ex', k, drain) /\ Flying(ex', k) /\ jobs' = Set(jobs, k, NewJob)
            BY <2>0, <3>3, <4>1, <4>3, SubmitFacts, ZenonT(40)
        <4>5. DOMAIN jobs' \ DOMAIN jobs \subseteq {k} BY <4>4 DEF Set
        <4>6. k \in DOMAIN (ex').ops BY <4>4 DEF Flying
        <4> QED BY <4>1, <4>2, <4>3, <4>4, <4>5, <4>6, DrainStarts, ZenonT(40) DEF Waited
      <3> QED BY <3>2, <3>3
    <2>4. ASSUME \/ ChangeTopology \/ ReloadTopology \/ WindowExhausted \/ StopDrained
                 \/ \E due \in SUBSET DOMAIN ex.ops : HandleTick(due)
          PROVE  Waited
        BY <2>1, <2>4 DEF ChangeTopology, ReloadTopology, WindowExhausted, StopDrained, HandleTick
    <2>5. ASSUME HandleNotify \/ Stop PROVE Waited
        BY <2>1, <2>5, ZenonT(40) DEF HandleNotify, Stop, Cancelled
    <2>6. ASSUME NEW k \in Key, BodyStep(k) PROVE Waited
        BY <2>1, <2>6, ZenonT(40) DEF BodyStep, RunCallback, InvokeCallback, ExecuteCleanupApply, SubmitCompletion,
           BodyFails, Accepted, Refused, Goto, Drop
    <2>7. ASSUME NEW k \in Key, CompletionStep(k) PROVE Waited
        BY <2>1, <2>7, ZenonT(40) DEF CompletionStep, HandleCompletion, ValidateFails, AuthorizeCleanup,
           CompleteScaleInMetadata, FinishProgress, Goto, Drop
    <2> QED BY <2>2, <2>3, <2>4, <2>5, <2>6, <2>7, ZenonT(40) DEF ExecutorNext, LoopStep
  <1> QED BY <1>1, ExecutorInvariant, PTL DEF ExecutorSpec, DrainWaitsForAdmitted
-----------------------------------------------------------------------------
(* The slots.  The library's facts on finite sets are needed from here on. *)

INSTANCE FiniteSetTheorems

LEMMA CountingHolds == Counting
  <1>1. IsFiniteSet({}) /\ Cardinality({}) = 0 BY FS_EmptySet
  <1>2. \A S : IsFiniteSet(S) => Cardinality(S) \in Nat BY FS_CardinalityType
  <1>3. \A S, T : IsFiniteSet(S) /\ T \subseteq S => IsFiniteSet(T) /\ Cardinality(T) <= Cardinality(S)
      BY FS_Subset
  <1>4. ASSUME NEW S, NEW x, IsFiniteSet(S)
        PROVE  IsFiniteSet(S \cup {x}) /\ Cardinality(S \cup {x}) <= Cardinality(S) + 1
    <2>1. Cardinality(S) \in Nat BY <1>2, <1>4
    <2>2. /\ IsFiniteSet(S \cup {x})
          /\ Cardinality(S \cup {x}) = IF x \in S THEN Cardinality(S) ELSE Cardinality(S) + 1
        BY <1>4, FS_AddElement, ZenonT(40)
    <2> QED BY <2>1, <2>2
  <1> QED BY <1>1, <1>2, <1>3, <1>4, ZenonT(40) DEF Counting

\* No slot of the callback pool leaks and none is given twice: releaseInflight
\* runs exactly once for each admitted operation, on every path of the callback,
\* the completion and the failed submission.
THEOREM SlotsAreExact == ExecutorSpec => []SlotsExact
  <1>1. ExecutorInv => SlotsExact
    <2> SUFFICES ASSUME ExecutorInv PROVE SlotsExact OBVIOUS
    <2>1. DOMAIN jobs \subseteq Key /\ DOMAIN ex.ops \subseteq Key
        BY JobsShape, OpsShape DEF ExecutorInv, ExecutorTypes, Executors
    <2>2. \A k \in Key : KeyInv(k) BY DEF ExecutorInv
    <2>3. ex.running => InFlight(ex) = DOMAIN jobs
        BY <2>1, <2>2, ZenonT(40) DEF KeyInv, JobInv, OpInv, InFlight
    <2> QED BY <2>3, CountingHolds, ZenonT(40) DEF SlotsExact, ExecutorInv, SlotInv, Bounded
  <1> QED BY <1>1, ExecutorInvariant, PTL
=============================================================================
