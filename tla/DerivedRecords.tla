---------------------------- MODULE DerivedRecords ----------------------------
(***************************************************************************)
(* The derived records of a batch: one task per executor and the notify    *)
(* that tells the executor of it.  The controller writes them once per     *)
(* topology version, the executors mark the tasks finished, and the        *)
(* janitor removes what its own read of the topology does not expect.      *)
(*                                                                         *)
(* Every write is a CAS of two steps, a read and a Put at the version of   *)
(* the key that was read; the version of a deleted key starts again.  The  *)
(* values of a record are numbers: 0 is no record, a negative number a     *)
(* tombstone; a task is Open or Finished, a notify is the epoch it names.  *)
(* Restart facts and scale-in markers are left out.                        *)
(***************************************************************************)
EXTENDS Integers, FiniteSets

CONSTANTS
  Worker,       \* the executors
  Janitor,      \* the janitor threads
  MaxVersion,   \* bound: topology versions
  MaxCrashes    \* bound: worker and janitor restarts

Controller == "controller"

\* The three kinds of processes are different.
ASSUME DerivedAssumption ==
  /\ MaxVersion \in Nat /\ MaxCrashes \in Nat
  /\ Controller \notin Worker \cup Janitor /\ Worker \cap Janitor = {}

VARIABLES
  authority,    \* [version, epoch, executors]; epoch 0: no active batch
  record,       \* key |-> [val, ver]
  ctl,          \* the controller: derived version and the records still to write
  scheduled,    \* worker |-> the epoch its executor works on, or 0
  job,          \* janitor |-> its pass
  cas,          \* process |-> the CAS it is in
  crashes

dvars == <<authority, record, ctl, scheduled, job, cas, crashes>>

Absent == 0
Open == 1
Finished == 2

Task(e, w) == <<"task", e, w>>
Notify(w) == <<"notify", 0, w>>
TaskKeys == {Task(e, w) : e \in 1 .. MaxVersion, w \in Worker}
NotifyKeys == {Notify(w) : w \in Worker}

Process == {Controller} \cup Worker \cup Janitor

NoCas == [key |-> <<>>, ver |-> 0, new |-> 0]
NoJob == [pc |-> "idle", snap |-> [version |-> 0, epoch |-> 0, executors |-> {}], list |-> {}]

DerivedInit ==
  /\ authority = [version |-> 1, epoch |-> 0, executors |-> {}]
  /\ record = [k \in TaskKeys \cup NotifyKeys |-> [val |-> Absent, ver |-> 0]]
  /\ ctl = [derived |-> 0, todo |-> {}]
  /\ scheduled = [w \in Worker |-> 0]
  /\ job = [j \in Janitor |-> NoJob]
  /\ cas = [p \in Process |-> NoCas]
  /\ crashes = 0

\* RebuildExpected, for the topology t.
ExpectedTasks(t) == IF t.epoch = 0 THEN {} ELSE {Task(t.epoch, w) : w \in t.executors}
ExpectedNotify(t, k) == IF t.epoch > 0 /\ k[3] \in t.executors THEN t.epoch ELSE Absent

-----------------------------------------------------------------------------
(* RunCas *)

Begin(p, k, new) == cas' = [cas EXCEPT ![p] = [key |-> k, ver |-> record[k].ver, new |-> new]]

End(p) == cas' = [cas EXCEPT ![p] = NoCas]

InCas(p) == cas[p] # NoCas

\* The conditional Put; a lost one is read again.
Won(p) == record[cas[p].key].ver = cas[p].ver

Write(p) ==
  record' = IF Won(p)
            THEN [record EXCEPT ![cas[p].key] = [val |-> cas[p].new, ver |-> @.ver + 1]]
            ELSE record

-----------------------------------------------------------------------------
(* The controller. *)

StartBatch(A) ==
  /\ authority.epoch = 0 /\ authority.version < MaxVersion
  /\ authority' = [version |-> authority.version + 1, epoch |-> authority.version + 1,
                   executors |-> A]
  /\ UNCHANGED <<record, ctl, scheduled, job, cas, crashes>>

PrepareDerivedGeneration ==
  /\ ctl.derived # authority.version
  /\ ~ InCas(Controller)
  /\ ctl' = [derived |-> authority.version,
             todo |-> ExpectedTasks(authority) \cup {k \in NotifyKeys : ExpectedNotify(authority, k) > 0}]
  /\ UNCHANGED <<authority, record, scheduled, job, cas, crashes>>

\* CreateTaskIfAbsent and RewriteEncodedNotify, the tasks first; a tombstone is K_TRY_AGAIN.
ReconcileDerivedSlice(k) ==
  LET current == record[k].val
      desired == IF k \in TaskKeys THEN Open ELSE ExpectedNotify(authority, k)
      keep    == IF k \in TaskKeys THEN current # Absent ELSE current = desired
  IN  /\ ctl.derived = authority.version /\ ~ InCas(Controller)
      /\ k \in ctl.todo /\ (k \in NotifyKeys => ctl.todo \cap TaskKeys = {})
      /\ current >= 0
      /\ IF keep THEN ctl' = [ctl EXCEPT !.todo = @ \ {k}] /\ cas' = cas
                 ELSE Begin(Controller, k, desired) /\ ctl' = ctl
      /\ UNCHANGED <<authority, record, scheduled, job, crashes>>

ReconcileDerivedPut ==
  /\ InCas(Controller)
  /\ Write(Controller) /\ End(Controller)
  /\ ctl' = IF Won(Controller) THEN [ctl EXCEPT !.todo = @ \ {cas[Controller].key}] ELSE ctl
  /\ UNCHANGED <<authority, scheduled, job, crashes>>

\* TryFinalizeActiveBatch
FinishBatch ==
  /\ authority.epoch > 0
  /\ ctl.derived = authority.version /\ ctl.todo = {}
  /\ \A k \in ExpectedTasks(authority) : record[k].val = Finished
  /\ authority' = [version |-> authority.version + 1, epoch |-> 0, executors |-> {}]
  /\ UNCHANGED <<record, ctl, scheduled, job, cas, crashes>>

-----------------------------------------------------------------------------
(* The executors. *)

\* ReloadTopologyAndNotify; an absent notify and a tombstone are K_NOT_FOUND.
ReadNotify(w) ==
  /\ record[Notify(w)].val > 0 /\ ~ InCas(w)
  /\ scheduled' = [scheduled EXCEPT ![w] = record[Notify(w)].val]
  /\ UNCHANGED <<authority, record, ctl, job, cas, crashes>>

\* The work on the task is done under the fence of its epoch; MarkTaskScopeFinished.
ExecuteTask(w) ==
  LET k == Task(scheduled[w], w)
  IN  /\ scheduled[w] > 0 /\ ~ InCas(w)
      /\ authority.epoch = scheduled[w] /\ w \in authority.executors
      /\ record[k].val = Open
      /\ Begin(w, k, Finished)
      /\ UNCHANGED <<authority, record, ctl, scheduled, job, crashes>>

MarkTaskScopeFinished(w) ==
  /\ InCas(w) /\ Write(w) /\ End(w)
  /\ UNCHANGED <<authority, ctl, scheduled, job, crashes>>

Crash == crashes < MaxCrashes /\ crashes' = crashes + 1

RestartWorker(w) ==
  /\ Crash
  /\ scheduled' = [scheduled EXCEPT ![w] = 0] /\ End(w)
  /\ UNCHANGED <<authority, record, ctl, job>>

-----------------------------------------------------------------------------
(* TopologyTaskJanitor::RunOnce *)

Goto(j, b) == job' = [job EXCEPT ![j] = b]

JanitorRead(j) ==
  /\ job[j].pc = "idle"
  /\ Goto(j, [job[j] EXCEPT !.pc = "tasks", !.snap = authority])
  /\ UNCHANGED <<authority, record, ctl, scheduled, cas, crashes>>

\* Mutant: the next epoch counts as stale.
MaximumStaleEpochNext(t) == IF t.epoch > 0 THEN t.epoch ELSE t.version + 1

MaximumStaleEpoch(t) == IF t.epoch > 0 THEN t.epoch - 1 ELSE t.version

\* Mutant: a tombstone that another pass left is not a candidate.
StaleTasksLive(t) ==
  {k \in TaskKeys \ ExpectedTasks(t) : record[k].val > 0 /\ k[2] <= MaximumStaleEpoch(t)}

StaleTasks(t) ==
  {k \in TaskKeys \ ExpectedTasks(t) : record[k].val # Absent /\ k[2] <= MaximumStaleEpoch(t)}

\* The notifies that differ from the expected ones; every tombstone does.
StaleNotifies(t) ==
  {k \in NotifyKeys : record[k].val # Absent /\ record[k].val # ExpectedNotify(t, k)}

\* ListTaskCandidatesForJanitor and ListNotifyCandidatesForJanitor, with the bytes to match.
ListCandidates(j) ==
  LET stale == IF job[j].pc = "tasks" THEN StaleTasks(job[j].snap) ELSE StaleNotifies(job[j].snap)
      next  == IF job[j].pc = "tasks" THEN "cleanTasks" ELSE "cleanNotifies"
  IN  /\ job[j].pc \in {"tasks", "notifies"}
      /\ Goto(j, [job[j] EXCEPT !.pc = next, !.list = {<<k, record[k].val>> : k \in stale}])
      /\ UNCHANGED <<authority, record, ctl, scheduled, cas, crashes>>

CandidatesDone(j) ==
  /\ job[j].pc \in {"cleanTasks", "cleanNotifies"} /\ job[j].list = {}
  /\ Goto(j, IF job[j].pc = "cleanTasks" THEN [job[j] EXCEPT !.pc = "notifies"] ELSE NoJob)
  /\ UNCHANGED <<authority, record, ctl, scheduled, cas, crashes>>

NextDeleteTombstone(val) == IF val = -1 THEN -2 ELSE -1

\* DeleteTaskIfMatches and ReconcileNotifyIfMatches: read the record and compare its bytes.
MatchCandidate(j, c) ==
  LET k == c[1]
      replacement == IF k \in NotifyKeys THEN ExpectedNotify(job[j].snap, k) ELSE Absent
      new == IF replacement = Absent THEN NextDeleteTombstone(c[2]) ELSE replacement
  IN  /\ c \in job[j].list /\ ~ InCas(j)
      /\ job[j].pc \in {"cleanTasks", "cleanNotifies"}
      /\ IF record[k].val = c[2]
         THEN Begin(j, k, new) /\ job' = job
         ELSE Goto(j, [job[j] EXCEPT !.list = @ \ {c}]) /\ cas' = cas
      /\ UNCHANGED <<authority, record, ctl, scheduled, crashes>>

\* The tombstone, or the replacement, is put.  The delete that follows a tombstone is a call
\* of its own.
JanitorPut(j) ==
  LET done == {c \in job[j].list : c[1] = cas[j].key}
  IN  /\ InCas(j) /\ job[j].pc # "delete"
      /\ Write(j)
      /\ IF Won(j) /\ cas[j].new < 0
         THEN cas' = cas /\ Goto(j, [job[j] EXCEPT !.pc = "delete", !.list = @ \ done])
         ELSE End(j) /\ Goto(j, IF Won(j) THEN [job[j] EXCEPT !.list = @ \ done] ELSE job[j])
      /\ UNCHANGED <<authority, ctl, scheduled, crashes>>

JanitorDelete(j) ==
  /\ job[j].pc = "delete"
  /\ record' = [record EXCEPT ![cas[j].key] = [val |-> Absent, ver |-> 0]]
  /\ Goto(j, [job[j] EXCEPT !.pc = IF cas[j].key \in TaskKeys THEN "cleanTasks" ELSE "cleanNotifies"])
  /\ End(j)
  /\ UNCHANGED <<authority, ctl, scheduled, crashes>>

RestartJanitor(j) ==
  /\ Crash /\ Goto(j, NoJob) /\ End(j)
  /\ UNCHANGED <<authority, record, ctl, scheduled>>

-----------------------------------------------------------------------------

ControllerStep ==
  \/ PrepareDerivedGeneration \/ ReconcileDerivedPut \/ FinishBatch
  \/ \E k \in DOMAIN record : ReconcileDerivedSlice(k)

ExecutorStep(w) == ReadNotify(w) \/ ExecuteTask(w) \/ MarkTaskScopeFinished(w)

JanitorStep(j) ==
  \/ JanitorRead(j) \/ ListCandidates(j) \/ CandidatesDone(j) \/ JanitorPut(j) \/ JanitorDelete(j)
  \/ \E c \in job[j].list : MatchCandidate(j, c)

DerivedNext ==
  \/ \E A \in (SUBSET Worker) \ {{}} : StartBatch(A)
  \/ ControllerStep
  \/ \E w \in Worker : ExecutorStep(w) \/ RestartWorker(w)
  \/ \E j \in Janitor : JanitorStep(j) \/ RestartJanitor(j)

DerivedSpec == DerivedInit /\ [][DerivedNext]_dvars

\* The controller ticks, the janitor threads pass, the executors work on what they know and
\* the watch of a notify makes them read it.
DerivedFairSpec ==
  /\ DerivedSpec
  /\ WF_dvars(ControllerStep)
  /\ \A w \in Worker : /\ WF_dvars(ExecuteTask(w) \/ MarkTaskScopeFinished(w))
                       /\ SF_dvars(ReadNotify(w) /\ scheduled' # scheduled)
  /\ \A j \in Janitor : WF_dvars(JanitorStep(j))

-----------------------------------------------------------------------------
(* Properties. *)

\* Whatever topology a janitor pass has read, and although a Put compares only versions that
\* start again: while its batch is active a task is neither deleted nor set back, so that
\* neither the work of an executor nor its progress is lost.
ActiveTasksKept ==
  [][\A k \in ExpectedTasks(authority) :
       (authority' = authority /\ record[k].val > 0) => record'[k].val >= record[k].val]_dvars

\* Tasks of other epochs, and the tombstones of passes that were cut off, are removed in the
\* end.
StaleTasksRemoved ==
  \A k \in TaskKeys :
    (record[k].val # Absent /\ k[2] # authority.epoch) ~> (record[k].val = Absent)

\* README of the topology module: "Task/notify are non-authoritative and deterministic
\* Controller reconciliation restores any such record; topology correctness never depends on
\* Janitor success."  The executors of a batch learn of their tasks and the batch ends.
BatchCompletes == \A e \in 1 .. MaxVersion : (authority.epoch = e) ~> (authority.epoch # e)
===============================================================================
