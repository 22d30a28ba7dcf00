-------------------------- MODULE TopologyController --------------------------
(***************************************************************************)
(* TopologyController: the instances of the control loop that cooperate    *)
(* through the CAS on the topology, with the membership records they       *)
(* observe, the derived tasks they write and the executors that finish     *)
(* them.  A reconcile tick of a controller is a walk of its pc; every step *)
(* makes at most one access to the shared store.                           *)
(*                                                                         *)
(* Mode "EXTERNAL_ETCD" is a controller on every worker, fed by one        *)
(* ordered watch stream; "EXTERNAL" is the controller of the coordinator,  *)
(* which reads the store exactly.  Timeouts, probes, witnesses and         *)
(* collection windows decide when a step is taken: here it may be taken at *)
(* any time.  Addresses are numbers in the order of the address strings.   *)
(***************************************************************************)
EXTENDS TopologyPlan

CONSTANTS
  Deployments,   \* the clusters to look at; see Deployment
  MaxMembers     \* maxMembersPerBatch

None == [a \in {} |-> a]

NoTopology == [version |-> 0, hasInit |-> FALSE, members |-> None, batch |-> NoBatch]

Member == [id : Nat, state : MemberState]
Batch == {NoBatch} \cup [type : {"SCALE_OUT", "SCALE_IN", "FAILURE"}, epoch : Nat]
Record == [lifecycle : {"READY", "RESTARTING", "RECOVERING", "EXITING"}, ts : Nat]

TopologyType(t) ==
  /\ t \in [version : Nat, hasInit : BOOLEAN, batch : Batch, members : [DOMAIN t.members -> Member]]
  /\ DOMAIN t.members \subseteq Address

MembershipType(m) == m \in [DOMAIN m -> Record] /\ DOMAIN m \subseteq Address

\* What holds of every topology the control loop commits, beyond its validation: a cluster
\* with owners or with a batch was initialised, a scale-out has owners to take over from,
\* and of scale-out and scale-in at most one is under way, preempted or not.
Consistent(t) ==
  /\ TopologyType(t) /\ ValidTopology(t)
  /\ (In(t, Committed) # {} \/ t.batch # NoBatch) => t.hasInit
  /\ t.batch.type = "SCALE_OUT" => In(t, Committed) # {}
  /\ In(t, {"JOINING"}) = {} \/ In(t, {"LEAVING"}) = {}

\* How a cluster is run, what it looks like at first, and the bounds on what happens to it.
Deployment(d) ==
  /\ d.mode \in {"EXTERNAL", "EXTERNAL_ETCD"}               \* TopologyEventSourceMode
  /\ d.controllers \subseteq Address                       \* whose process runs a controller
  /\ d.fresh \subseteq {"READY", "RESTARTING", "RECOVERING"} \* of a new membership
  /\ d.windows \in BOOLEAN         \* the collect windows are not zero
  /\ d.summaries \in BOOLEAN       \* present members may be reported as failed
  /\ d.topology = NoTopology \/ Consistent(d.topology)
  /\ MembershipType(d.membership)
  /\ d.maxChanges \in Nat          \* bound: membership events
  /\ d.maxAlarms \in Nat           \* bound: expired batch deadlines and failure summaries

ASSUME ControllerAssumption ==
  /\ Address \subseteq Nat /\ MaxMembers \in Nat \ {0}
  /\ \A d \in Deployments : Deployment(d)

VARIABLES
  authority,     \* the topology in the store; version 0: absent
  membership,    \* address |-> [lifecycle, ts] for the present records
  tasks,         \* the derived task records
  finished,      \* those with every range finished
  ctl,           \* the state of every controller
  changes, alarms,
  deployment     \* one of Deployments

vars == <<authority, membership, tasks, finished, ctl, changes, alarms, deployment>>

Mode == deployment.mode
Controller == deployment.controllers
CollectWindows == deployment.windows
Summaries == deployment.summaries

ControllerInit ==
  [pc |-> "idle", latest |-> NoTopology, seen |-> None,
   confirmed |-> {}, retained |-> FALSE, summary |-> {},
   derived |-> 0, expected |-> {}, todo |-> {},
   progress |-> 0, done |-> {}, sweep |-> {},
   quarantine |-> [a \in Address |-> 0], err |-> "K_OK"]

Init ==
  /\ deployment \in Deployments
  /\ authority = deployment.topology
  /\ membership = deployment.membership
  /\ tasks = {} /\ finished = {}
  /\ ctl = [c \in Controller |-> ControllerInit]
  /\ changes = 0 /\ alarms = 0

\* The first k in address order.
First(S, k) == {a \in S : Cardinality({b \in S : b < a}) < k}

Direct(t) == Mode = "EXTERNAL" /\ t.hasInit

-----------------------------------------------------------------------------
(* What a controller sees. *)

Lifecycle(seen, L) == {a \in DOMAIN seen : seen[a].lifecycle \in L}

\* CollectMembershipFacts: a quarantined generation is not ready.
Ready(k) == {a \in Lifecycle(k.seen, {"READY", "RESTARTING"}) : k.seen[a].ts > k.quarantine[a]}

AllMembersExiting(k) ==
  /\ DOMAIN k.latest.members # {}
  /\ DOMAIN k.latest.members \subseteq Lifecycle(k.seen, {"EXITING"})

IsCollectiveCommittedMembershipMissing(k) ==
  /\ In(k.latest, Committed) # {}
  /\ In(k.latest, Committed) \cap DOMAIN k.seen = {}

Missing(k) == In(k.latest, Committed) \ DOMAIN k.seen

RemoveInitial(k) == In(k.latest, {"INITIAL"}) \ DOMAIN k.seen

\* The missing ones and those a failure summary names.
RemoveJoining(k) ==
  (In(k.latest, {"JOINING"}) \ DOMAIN k.seen) \cup (In(k.latest, {"JOINING"}) \cap k.summary)

\* Mutant: the first owner has no predecessor.
ProbeTargetNoWrap(t, c) ==
  LET below == {a \in In(t, Committed) : a < c}
  IN  IF c \in In(t, Committed) THEN {a \in below : \A b \in below : b <= a} ELSE {}

\* FailureProbeTargetOwnedBy: the committed predecessor of the local address.
ProbeTarget(t, c) ==
  LET owners == In(t, Committed)
      below  == {a \in owners : a < c}
      from   == IF below = {} THEN owners ELSE below
  IN  IF c \in owners THEN {a \in from : \A b \in from : b <= a} ELSE {}

\* Mutants: only members with a persisted state are candidates.
LeavingPersisted(k) == First(In(k.latest, {"PRE_LEAVING"}), MaxMembers)
JoiningPersisted(k) == First(In(k.latest, {"INITIAL"}) \cap Ready(k), MaxMembers)

\* CollectNextBatchCandidates
Leaving(k) ==
  First(In(k.latest, {"PRE_LEAVING"})
          \cup (IF Direct(k.latest)
                THEN In(k.latest, {"ACTIVE"}) \cap Lifecycle(k.seen, {"EXITING"}) ELSE {}),
        MaxMembers)

Joining(k) ==
  LET initial == In(k.latest, {"INITIAL"}) \cap Ready(k)
      room    == MaxMembers - Cardinality(initial)
      unknown == Ready(k) \ DOMAIN k.latest.members
  IN  First(initial \cup (IF Direct(k.latest) THEN First(unknown, room) ELSE {}), MaxMembers)

\* Mutant: the lifecycle of the record is taken for a member state.
AdmitLifecycle(members, seen, A) ==
  [a \in DOMAIN members \cup A |->
     IF a \in DOMAIN members THEN members[a] ELSE [id |-> seen[a].ts, state |-> seen[a].lifecycle]]

\* ApplyReadyMembershipFacts: the records of A become INITIAL members.
Admit(members, seen, A) ==
  [a \in DOMAIN members \cup A |->
     IF a \in DOMAIN members THEN members[a] ELSE [id |-> seen[a].ts, state |-> "INITIAL"]]

-----------------------------------------------------------------------------
(* The end of a tick, and the commit of a plan. *)

\* The facts of an exact read are locals of the tick; the watch keeps its facts.
Idle(k, err) ==
  [k EXCEPT !.pc = "idle", !.confirmed = {}, !.retained = FALSE, !.summary = {}, !.err = err,
            !.latest = IF Mode = "EXTERNAL" THEN NoTopology ELSE @,
            !.seen = IF Mode = "EXTERNAL" THEN None ELSE @]

Step(c, k) == ctl' = [ctl EXCEPT ![c] = k]

Goto(c, k, pc) == Step(c, [k EXCEPT !.pc = pc])

Refused(plan) == plan.rc # "K_OK" \/ ~ ValidTopology(plan.next)

\* Mutant: the version that was read is not compared.
CommitUnfenced(c, k, plan, final) ==
  /\ authority' = IF Refused(plan) THEN authority ELSE plan.next
  /\ Step(c, Idle(k, "K_OK"))

\* CommitAndReadBack over CompareAndSwapTopology.  k is the controller's state so far, and
\* final its state if the commit succeeds.  A failure summary is committed at the revision
\* of the membership it was taken from.
Commit(c, k, plan, final) ==
  LET fenced == k.summary # {} => membership = k.seen
      won    == authority.version = k.latest.version /\ fenced
      rc     == IF plan.rc = "K_NOT_READY" THEN "K_NOT_READY" ELSE "K_INVALID"
      lost   == IF authority.version = plan.next.version THEN "DIFFERENT_BYTES" ELSE "K_TRY_AGAIN"
  IN  IF Refused(plan)
      THEN authority' = authority /\ Step(c, Idle(k, rc))
      ELSE IF won \/ authority = plan.next
      THEN authority' = plan.next /\ Step(c, Idle([final EXCEPT !.latest = plan.next], "K_OK"))
      ELSE authority' = authority /\ Step(c, Idle(k, lost))

-----------------------------------------------------------------------------
(* Reading the facts. *)

EnsureTopologyAuthority(c) ==
  /\ ctl[c].pc = "idle" /\ authority.version = 0
  /\ authority' = [NoTopology EXCEPT !.version = 1]
  /\ UNCHANGED <<membership, tasks, finished, ctl, changes, alarms, deployment>>

\* The watch has delivered everything, or the tick works on the facts it already has.
DeliverEtcd(c) ==
  /\ Mode = "EXTERNAL_ETCD" /\ ctl[c].pc = "idle" /\ authority.version > 0
  /\ Step(c, [ctl[c] EXCEPT !.pc = "confirm", !.latest = authority, !.seen = membership,
                            !.err = "K_OK"])
  /\ UNCHANGED <<authority, membership, tasks, finished, changes, alarms, deployment>>

TickOnKnownFacts(c) ==
  /\ Mode = "EXTERNAL_ETCD" /\ ctl[c].pc = "idle" /\ ctl[c].latest.version > 0
  /\ Step(c, [ctl[c] EXCEPT !.pc = "confirm", !.err = "K_OK"])
  /\ UNCHANGED <<authority, membership, tasks, finished, changes, alarms, deployment>>

ReadTopology(c) ==
  /\ Mode = "EXTERNAL" /\ ctl[c].pc = "idle" /\ authority.version > 0
  /\ Step(c, [ctl[c] EXCEPT !.pc = "memberships", !.latest = authority, !.err = "K_OK"])
  /\ UNCHANGED <<authority, membership, tasks, finished, changes, alarms, deployment>>

ReadMemberships(c) ==
  /\ ctl[c].pc = "memberships"
  /\ Step(c, [ctl[c] EXCEPT !.pc = "confirm", !.seen = membership])
  /\ UNCHANGED <<authority, membership, tasks, finished, changes, alarms, deployment>>

\* The local member has recovered: publish it READY, and read everything again.
RestoreReadyAfterLocalRecovery(c) ==
  /\ Mode = "EXTERNAL_ETCD" /\ ctl[c].pc = "confirm"
  /\ c \in Lifecycle(ctl[c].seen, {"RECOVERING"}) \cap In(ctl[c].latest, {"ACTIVE"})
  /\ c \in Lifecycle(membership, {"RECOVERING"})
  /\ membership' = [membership EXCEPT ![c].lifecycle = "READY"]
  /\ Step(c, [Idle(ctl[c], "K_NOT_READY") EXCEPT !.latest = NoTopology, !.seen = None])
  /\ UNCHANGED <<authority, tasks, finished, changes, alarms, deployment>>

-----------------------------------------------------------------------------
(* TryConfirmFailures *)

\* Every member is EXITING; the coordinator first lets a replacement join.
CommitClusterShutdown(c) ==
  LET k == ctl[c]
      t == [k.latest EXCEPT !.batch = NoBatch,
                            !.members = WithState(@, DOMAIN @, "PRE_LEAVING")]
  IN  /\ k.pc = "confirm" /\ AllMembersExiting(k)
      /\ IF Direct(k.latest) /\ Joining(k) # {}
         THEN authority' = authority /\ Goto(c, k, "derive")
         ELSE Commit(c, k, BuildClusterShutdownFinal(t), k)
      /\ UNCHANGED <<membership, tasks, finished, changes, alarms, deployment>>

\* The member that decides for a replacement; the coordinator decides always.
ReplacementReady(k, seen) ==
  {a \in Lifecycle(seen, {"READY"}) : seen[a].ts > k.quarantine[a]}

OwnsProbe(c, k, seen) ==
  /\ ReplacementReady(k, seen) # {}
  /\ Mode = "EXTERNAL_ETCD" => First(ReplacementReady(k, seen), 1) = {c}

\* No committed member is left.  The topology is preserved, or, past the timeouts and the
\* probes of every sample, the memberships are read once more.
PreserveTopology(c) ==
  LET k == ctl[c]
  IN  /\ k.pc = "confirm" /\ ~ AllMembersExiting(k)
      /\ IsCollectiveCommittedMembershipMissing(k)
      /\ Goto(c, k, "derive")
      /\ UNCHANGED <<authority, membership, tasks, finished, changes, alarms, deployment>>

HandleCollectiveMembershipAbsence(c) ==
  LET k == ctl[c]
      preserve == \/ In(k.latest, Committed) \cap DOMAIN membership # {}
                  \/ ~ OwnsProbe(c, k, membership)
  IN  /\ k.pc = "confirm" /\ ~ AllMembersExiting(k)
      /\ IsCollectiveCommittedMembershipMissing(k) /\ OwnsProbe(c, k, k.seen)
      /\ IF preserve THEN Goto(c, k, "derive")
                     ELSE Step(c, [k EXCEPT !.pc = "replace", !.seen = membership])
      /\ UNCHANGED <<authority, membership, tasks, finished, changes, alarms, deployment>>

\* A new cluster of the ready members replaces the lost one.
BootstrapCollectiveReplacement(c) ==
  LET k        == ctl[c]
      admitted == First(Ready(k), MaxMembers)
      empty    == [k.latest EXCEPT !.members = Admit(None, k.seen, admitted), !.batch = NoBatch]
  IN  /\ k.pc = "replace"
      /\ Commit(c, k, BuildBootstrap(empty, admitted), k)
      /\ UNCHANGED <<membership, tasks, finished, changes, alarms, deployment>>

\* What ProbeActiveFailureCandidates may confirm; two workers that accuse each other are kept.
SummaryCandidates(t) ==
  {S \in SUBSET In(t, {"ACTIVE", "JOINING"}) :
     /\ S # {} => Summaries /\ Mode = "EXTERNAL"
     /\ S \cap In(t, {"JOINING"}) # {} => t.batch.type = "SCALE_OUT"
     /\ Cardinality(In(t, {"ACTIVE"})) = 2 => Cardinality(S \cap In(t, {"ACTIVE"})) < 2}

\* Whom the controller confirms: the witnesses decide, or the probe of its predecessor and
\* the exact membership read that follows it.
Confirmable(c, M) ==
  IF Mode = "EXTERNAL" THEN M ELSE (M \cap ProbeTarget(ctl[c].latest, c)) \ DOMAIN membership

\* The failure classifier, whose timeout the members of M are past, the members F that are
\* confirmed, and the members S that failure summaries name.
ConfirmFailures(c, M, F, S) ==
  LET k == ctl[c]
  IN  /\ k.pc = "confirm"
      /\ ~ AllMembersExiting(k) /\ ~ IsCollectiveCommittedMembershipMissing(k)
      /\ S \cap (DOMAIN k.latest.members \ DOMAIN k.seen) = {}
      /\ IF S = {} THEN alarms' = alarms ELSE alarms < deployment.maxAlarms /\ alarms' = alarms + 1
      /\ Step(c, [k EXCEPT !.pc = "facts", !.retained = M # {}, !.summary = S,
                           !.confirmed = F \cup (S \cap In(k.latest, {"ACTIVE"}))])
      /\ UNCHANGED <<authority, membership, tasks, finished, changes, deployment>>

Failing(k) == k.confirmed # {} \/ (k.retained /\ In(k.latest, {"FAILED"}) # {})

\* The failed members the plan keeps, and the new ones it has room for.
NewlyFailed(k) == First(k.confirmed, MaxMembers - Cardinality(In(k.latest, {"FAILED"})))

\* Nothing new, or witnesses of other missing members still to answer: no commit yet.
HoldFailures(c) ==
  LET k == ctl[c]
  IN  /\ k.pc = "facts" /\ Failing(k)
      /\ NewlyFailed(k) = {} \/ (Mode = "EXTERNAL" /\ Missing(k) \ k.confirmed # {})
      /\ Goto(c, k, "derive")
      /\ UNCHANGED <<authority, membership, tasks, finished, changes, alarms, deployment>>

CommitConfirmedFailures(c) ==
  LET k    == ctl[c]
      plan == BuildFailureStartOrReplan(k.latest, In(k.latest, {"FAILED"}) \cup NewlyFailed(k))
  IN  /\ k.pc = "facts" /\ NewlyFailed(k) # {}
      /\ Commit(c, k, [plan EXCEPT !.next.members = Without(@, RemoveInitial(k) \cup RemoveJoining(k))],
                k)
      /\ UNCHANGED <<membership, tasks, finished, changes, alarms, deployment>>

CommitUncommittedCleanup(c) ==
  LET k    == ctl[c]
      t    == k.latest
      plan == CASE t.batch.type = "SCALE_OUT" -> BuildScaleOutReplan(t, RemoveJoining(k))
                [] t.batch.type = "FAILURE"   -> BuildFailureStartOrReplan(t, In(t, {"FAILED"}))
  IN  /\ k.pc = "facts" /\ ~ Failing(k)
      /\ RemoveInitial(k) \cup RemoveJoining(k) # {}
      /\ IF RemoveJoining(k) # {}
         THEN Commit(c, k, [plan EXCEPT !.next.members = Without(@, RemoveInitial(k) \cup RemoveJoining(k))],
                     k)
         ELSE Commit(c, k, Ok(Advance(t, Without(t.members, RemoveInitial(k)), t.batch)), k)
      /\ UNCHANGED <<membership, tasks, finished, changes, alarms, deployment>>

\* ApplyExitingMembershipFacts and ApplyReadyMembershipFacts.  The coordinator does both
\* when it starts a batch.  While a batch is active no member is admitted.
CommitMembershipFacts(c) ==
  LET k        == ctl[c]
      t        == k.latest
      leaving  == First(In(t, {"ACTIVE"}) \cap Lifecycle(k.seen, {"EXITING"}), MaxMembers)
      unknown  == Ready(k) \ DOMAIN t.members
      admitted == First(unknown, MaxMembers - Cardinality(leaving))
      commit(A) == IF leaving \cup A = {}
                   THEN authority' = authority /\ Goto(c, k, "derive")
                   ELSE Commit(c, k, Ok(Advance(t, Admit(WithState(t.members, leaving, "PRE_LEAVING"),
                                                         k.seen, A), t.batch)), k)
  IN  /\ k.pc = "facts" /\ ~ Failing(k)
      /\ RemoveInitial(k) \cup RemoveJoining(k) = {}
      /\ IF Direct(t) THEN authority' = authority /\ Goto(c, k, "derive")
         ELSE \/ /\ ~ (t.hasInit /\ t.batch # NoBatch)
                 /\ commit(admitted)
              \/ /\ (t.hasInit /\ t.batch # NoBatch) \/ CollectWindows
                 /\ commit({})
      /\ UNCHANGED <<membership, tasks, finished, changes, alarms, deployment>>

-----------------------------------------------------------------------------
(* ReconcileDerivedState *)

PrepareDerivedGeneration(k) ==
  IF k.derived = k.latest.version THEN k
  ELSE [k EXCEPT !.derived = k.latest.version, !.expected = RebuildExpected(k.latest).tasks,
                 !.todo = RebuildExpected(k.latest).tasks]

\* One slice creates some of the missing records; CreateTaskIfAbsent leaves a present one alone.
ReconcileDerivedState(c) ==
  LET k == PrepareDerivedGeneration(ctl[c])
      rc == RebuildExpected(ctl[c].latest).rc
  IN  /\ ctl[c].pc = "derive"
      /\ IF k # ctl[c] /\ rc # "K_OK"
         THEN tasks' = tasks /\ Step(c, Idle(ctl[c], rc))
         ELSE \E slice \in SUBSET k.todo :
                /\ k.todo # {} => slice # {}
                /\ tasks' = tasks \cup slice
                /\ Goto(c, [k EXCEPT !.todo = @ \ slice], "finalize")
      /\ UNCHANGED <<authority, membership, finished, changes, alarms, deployment>>

-----------------------------------------------------------------------------
(* TryFinalizeActiveBatch *)

\* A new version starts a new sweep, and so does the end of the last one.
RefreshTaskProgressCache(k) ==
  LET now == IF k.progress = k.derived THEN k
             ELSE [k EXCEPT !.progress = k.derived, !.done = {}, !.sweep = {}]
  IN  [now EXCEPT !.sweep = IF @ = {} THEN k.expected ELSE @]

\* One slice of the sweep reads the records of V.
ReadProgress(k, V) == [k EXCEPT !.sweep = @ \ V, !.done = @ \cup (V \cap finished)]

CollectFailedJoining(k) ==
  In(k.latest, {"JOINING"}) \cap {task.target : task \in k.expected \ k.done}

\* The READY generations of the members in A are not admitted again.
Quarantine(k, A) ==
  [k EXCEPT !.quarantine = [a \in Address |->
     IF /\ a \in A \cap Lifecycle(k.seen, {"READY"})
        /\ k.seen[a].ts = k.latest.members[a].id
     THEN k.seen[a].ts ELSE @[a]]]

Final(t) ==
  CASE t.batch.type = "SCALE_OUT" -> BuildScaleOutFinal(t)
    [] t.batch.type = "SCALE_IN"  -> BuildScaleInFinal(t)
    [] t.batch.type = "FAILURE"   -> BuildFailureFinal(t)

\* CommitBatchFinal; a failed member that is READY must restart.
CommitBatchFinal(c, k) ==
  Commit(c, k, Final(k.latest),
         IF k.latest.batch.type = "FAILURE" THEN Quarantine(k, Participants(k.latest)) ELSE k)

CommitScaleOutExhaustion(c, k) ==
  LET failedJoining == CollectFailedJoining(k)
      q == Quarantine(k, failedJoining)
  IN  Commit(c, q, BuildScaleOutReplan(k.latest, failedJoining), q)

CommitExpiredBatch(c, k) ==
  IF k.latest.batch.type = "SCALE_OUT" THEN CommitScaleOutExhaustion(c, k)
                                       ELSE CommitBatchFinal(c, k)

\* Without an active batch, or with records still to write, there is nothing to inspect.  An
\* expired scale-in waits for its members to be terminated.
TryFinalizeActiveBatch(c) ==
  LET k    == ctl[c]
      swept == RefreshTaskProgressCache(k)
      pass(next) == authority' = authority /\ alarms' = alarms /\ Goto(c, next, "start")
  IN  /\ k.pc = "finalize"
      /\ CASE k.latest.batch = NoBatch ->
               pass([k EXCEPT !.progress = 0, !.done = {}, !.sweep = {}])
           [] k.latest.batch # NoBatch /\ k.todo # {} -> pass(k)
           [] OTHER ->
               \E V \in SUBSET swept.sweep :
                 LET seen == ReadProgress(swept, V)
                 IN  /\ swept.sweep # {} => V # {}
                     /\ \/ /\ seen.done = seen.expected
                           /\ alarms' = alarms /\ CommitBatchFinal(c, seen)
                        \/ seen.done # seen.expected /\ pass(seen)
                        \/ /\ seen.done # seen.expected /\ seen.sweep = {}
                           /\ k.latest.batch.type # "SCALE_IN"
                           /\ alarms < deployment.maxAlarms /\ alarms' = alarms + 1
                           /\ CommitExpiredBatch(c, seen)
      /\ UNCHANGED <<membership, tasks, finished, changes, deployment>>

-----------------------------------------------------------------------------
(* TryStartNextBatch *)

\* PrepareBatchStartState and CommitBatchStart
CommitBatchStart(c, k, A, type) ==
  LET t == IF ~ Direct(k.latest) THEN k.latest
           ELSE IF type = "SCALE_OUT"
           THEN [k.latest EXCEPT !.members = Admit(@, k.seen, A)]
           ELSE [k.latest EXCEPT !.members = WithState(@, A, "PRE_LEAVING")]
      plan == IF type = "SCALE_IN" THEN BuildScaleInStart(t, A)
              ELSE IF In(k.latest, Committed) = {} THEN BuildBootstrap(t, A)
              ELSE BuildScaleOutStart(t, A)
  IN  Commit(c, k, plan, k)

TryStartNextBatch(c) ==
  LET k    == ctl[c]
      wait == authority' = authority /\ Step(c, Idle(k, "K_OK"))
  IN  /\ k.pc = "start"
      /\ CASE k.latest.batch # NoBatch \/ Joining(k) \cup Leaving(k) = {} -> wait
           [] OTHER -> \/ CollectWindows /\ wait
                       \/ IF Joining(k) # {}
                          THEN CommitBatchStart(c, k, Joining(k), "SCALE_OUT")
                          ELSE CommitBatchStart(c, k, Leaving(k), "SCALE_IN")
      /\ UNCHANGED <<membership, tasks, finished, changes, alarms, deployment>>

-----------------------------------------------------------------------------
(* The executors and the members. *)

\* BuildExecutionFence: the executor works on a task of the active batch only.
Authorized(task, t) ==
  LET e == Executor(task)
      state(a) == IF a \in DOMAIN t.members THEN t.members[a].state ELSE "NONE"
  IN  /\ t.batch.type = task.type /\ t.batch.epoch = task.epoch
      /\ CASE task.type = "SCALE_OUT" -> state(e) \in Committed /\ state(task.target) = "JOINING"
           [] task.type = "SCALE_IN"  -> state(e) = "LEAVING" /\ state(task.target) \in {"ACTIVE", "PRE_LEAVING"}
           [] task.type = "FAILURE"   -> state(e) = "ACTIVE" /\ state(task.source) = "FAILED"

Execute(task) ==
  /\ task \notin finished
  /\ Executor(task) \in DOMAIN membership
  /\ Authorized(task, authority)
  /\ finished' = finished \cup {task}
  /\ UNCHANGED <<authority, membership, tasks, ctl, changes, alarms, deployment>>

Change == changes < deployment.maxChanges /\ changes' = changes + 1

\* A process registers, or registers again after a restart.
Register(a, lifecycle) ==
  /\ Change
  /\ membership' = [b \in DOMAIN membership \cup {a} |->
                      IF b = a THEN [lifecycle |-> lifecycle, ts |-> changes + 2] ELSE membership[b]]
  /\ UNCHANGED <<authority, tasks, finished, ctl, alarms, deployment>>

Publish(a, from, to) ==
  /\ Change
  /\ a \in Lifecycle(membership, from)
  /\ membership' = [membership EXCEPT ![a].lifecycle = to]
  /\ UNCHANGED <<authority, tasks, finished, ctl, alarms, deployment>>

\* The lease of a crashed or exited process runs out.
Depart(a) ==
  /\ Change
  /\ a \in DOMAIN membership
  /\ membership' = Without(membership, {a})
  /\ UNCHANGED <<authority, tasks, finished, ctl, alarms, deployment>>

-----------------------------------------------------------------------------

ConfirmSomeFailures(c) ==
  /\ ctl[c].pc = "confirm"
  /\ \E M \in SUBSET Missing(ctl[c]), S \in SummaryCandidates(ctl[c].latest) :
       \E F \in SUBSET Confirmable(c, M) : ConfirmFailures(c, M, F, S)

Tick(c) ==
  \/ EnsureTopologyAuthority(c) \/ DeliverEtcd(c) \/ TickOnKnownFacts(c)
  \/ ReadTopology(c) \/ ReadMemberships(c)
  \/ RestoreReadyAfterLocalRecovery(c) \/ CommitClusterShutdown(c)
  \/ PreserveTopology(c) \/ HandleCollectiveMembershipAbsence(c)
  \/ BootstrapCollectiveReplacement(c)
  \/ ConfirmSomeFailures(c) \/ HoldFailures(c) \/ CommitConfirmedFailures(c)
  \/ CommitUncommittedCleanup(c) \/ CommitMembershipFacts(c)
  \/ ReconcileDerivedState(c) \/ TryFinalizeActiveBatch(c) \/ TryStartNextBatch(c)

Environment ==
  \/ \E a \in Address, lifecycle \in deployment.fresh : Register(a, lifecycle)
  \/ \E a \in Address : \/ Publish(a, {"RESTARTING"}, "READY")
                        \/ Publish(a, {"READY", "RECOVERING"}, "EXITING")
                        \/ Depart(a)

Next ==
  \/ \E c \in Controller : Tick(c)
  \/ \E task \in tasks : Execute(task)
  \/ Environment

Spec == Init /\ [][Next]_vars

\* The control thread never stops ticking and the watch delivers in the end.  The timeout of a
\* member that stays away passes, its probe fails, and the witnesses give up.  The executors
\* keep running; a task whose target is away may never succeed.
Fairness ==
  /\ \A c \in UNION {d.controllers : d \in Deployments} :
       /\ []<>(c \in Controller => ctl[c].pc = "idle")
       /\ []<>(c \in Controller => /\ ctl[c].pc = "confirm" /\ ctl[c].latest = authority
                                  /\ ctl[c].seen = membership)
       /\ SF_vars(/\ c \in Controller /\ Confirmable(c, Missing(ctl[c])) # {}
                  /\ ConfirmFailures(c, Missing(ctl[c]), Confirmable(c, Missing(ctl[c])), {}))
       /\ SF_vars(c \in Controller /\ CommitConfirmedFailures(c))
       /\ SF_vars(c \in Controller /\ HandleCollectiveMembershipAbsence(c))
  /\ \A a \in Address : 
       WF_vars(\E task \in tasks : /\ Executor(task) = a /\ task.target \in DOMAIN membership
                                  /\ Execute(task))

FairSpec == Spec /\ Fairness

-----------------------------------------------------------------------------
(* Properties. *)

Task == [type : {"SCALE_OUT", "SCALE_IN", "FAILURE"}, epoch : Nat,
         source : Address, target : Address, tokens : SUBSET Token]

ControllerType(k) ==
  /\ k \in [pc : {"idle", "memberships", "confirm", "replace", "facts", "derive", "finalize", "start"},
            latest : {k.latest}, seen : {k.seen},
            confirmed : SUBSET Address, retained : BOOLEAN, summary : SUBSET Address,
            derived : Nat, expected : SUBSET Task, todo : SUBSET Task,
            progress : Nat, done : SUBSET Task, sweep : SUBSET Task,
            quarantine : [Address -> Nat],
            err : {"K_OK", "K_NOT_READY", "K_INVALID", "K_TRY_AGAIN", "DIFFERENT_BYTES"}]
  /\ TopologyType(k.latest) /\ MembershipType(k.seen)

\* Types of the store and of the controllers' caches.
ControllerTypeOK ==
  /\ TopologyType(authority) /\ MembershipType(membership)
  /\ tasks \in SUBSET Task /\ finished \in SUBSET tasks
  /\ DOMAIN ctl = Controller /\ \A c \in Controller : ControllerType(ctl[c])
  /\ changes \in Nat /\ alarms \in Nat
  /\ deployment \in Deployments

\* Whatever the controllers have seen and in whatever order they commit, every plan they
\* build is accepted: no builder refuses its input and no topology that is to be committed
\* fails ValidateAndCanonicalizeTopologyState, which would freeze the control loop.
PlansAreValid ==
  /\ authority.version > 0 => ValidTopology(authority)
  /\ \A c \in Controller : ctl[c].err # "K_INVALID"

\* A batch keeps its kind and its participants for the whole of its epoch; what it moves is
\* fenced by that epoch alone.
EpochsFixParticipants ==
  [][(authority'.batch = authority.batch /\ authority.batch # NoBatch)
       => Participants(authority') = Participants(authority)]_vars

Owners(t) == In(t, Committed \cup {"FAILED"})

\* README of the topology module, "Normal scale-out/scale-in must keep business traffic
\* lossless": while some owner survives, a token passes from an owner that has not failed to
\* another only when a task of the committed epoch has moved it.
Lossless ==
  [][authority' # authority /\ In(authority, Committed) \cap In(authority', Committed) # {}
       => \A h \in Token :
            LET from == FindOwner(OwnerRing(Owners(authority)), h)
                to   == FindOwner(OwnerRing(Owners(authority')), h)
            IN  (from # to /\ from \notin In(authority, {"FAILED"}))
                  => \E task \in finished :
                       /\ task.epoch = authority.batch.epoch
                       /\ task.source = from /\ task.target = to /\ h \in task.tokens]_vars

\* A scale-in that has lost every owner it could hand over to has no plan (RebuildExpected
\* answers K_NOT_READY) until its members are terminated from outside.
Stranded == authority.batch.type = "SCALE_IN" /\ In(authority, {"ACTIVE", "PRE_LEAVING"}) = {}

\* Once memberships stop changing, the controllers bring every batch to its end: a
\* preempting failure batch, the batch it preempted and replanned, and a batch whose
\* executors or participants have gone.  HandleCollectiveMembershipAbsence preserves a
\* topology that has no live owner.
BatchesEnd ==
  []<>(authority.batch = NoBatch \/ Stranded \/ In(authority, Committed) \cap DOMAIN membership = {})

ExitingOwner(a) == a \in Lifecycle(membership, {"EXITING"}) /\ a \in In(authority, Committed)

\* A member of the cluster that stays EXITING ceases to be an owner, by its scale-in, by a
\* failure or with the whole cluster.
ExitingLeave == \A a \in Address : ExitingOwner(a) ~> (~ ExitingOwner(a) \/ Stranded)

\* A worker that stays READY becomes an owner, unless it was given up as exhausted.
ReadyJoin ==
  \A a \in Address :
    a \in Lifecycle(membership, {"READY"})
      ~> \/ a \notin Lifecycle(membership, {"READY"})
         \/ a \in In(authority, Committed)
         \/ \E c \in Controller : membership[a].ts <= ctl[c].quarantine[a]
         \/ Stranded

MissingOwner(a) == a \in In(authority, Committed) /\ a \notin DOMAIN membership

\* An owner whose membership stays away is failed over as long as another owner is alive,
\* although only its successor among the owners probes it.
MissingFail ==
  \A a \in Address :
    MissingOwner(a) ~> (~ MissingOwner(a) \/ In(authority, Committed) \cap DOMAIN membership = {})

\* README of the topology module: a failure preempts an ordinary batch "preserving
\* `JOINING`/`LEAVING` facts, completing the Failure batch first, and replanning ordinary
\* work from the latest topology".  A leaving member is let go even when the failure took
\* the owners it was handing over to.
PreemptedScaleInEnds == \A a \in Address : ExitingOwner(a) ~> ~ ExitingOwner(a)
===============================================================================
