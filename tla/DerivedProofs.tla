---------------------------- MODULE DerivedProofs ----------------------------
(***************************************************************************)
(* What an executor is told and keeps: the tasks of an active batch        *)
(* survive the janitor, for any number of executors, janitor passes,       *)
(* topology versions and crashes; what it remembers of the restart facts   *)
(* in its notify was applied, for any peers, restarts and faults; and the  *)
(* ranges in its tasks, which DiffOwners plans, are exact, for every ring  *)
(* size and every pair of rings.                                           *)
(***************************************************************************)
EXTENDS DerivedRecords, RestartEffects, HashRing, TLAPS

\* A leaf is tried with SMT, then with Zenon, then with SMT for longer.
USE SMTT(30), ZenonT(40), SMTT(60)

RecordKeys == TaskKeys \cup NotifyKeys

Topologies == [version : Nat, epoch : Nat, executors : SUBSET Worker]

\* A batch has the version of the topology that started it as its epoch.
AuthorityInv ==
  /\ authority \in Topologies /\ authority.version > 0
  /\ authority.epoch \in {0, authority.version}
  /\ authority.epoch <= MaxVersion

\* A record is absent exactly when its version has started again, and a task
\* has no value above Finished.
RecordInv ==
  /\ record \in [RecordKeys -> [val : Int, ver : Nat]]
  /\ \A k \in TaskKeys : /\ record[k].val <= Finished
                         /\ record[k].val = Absent <=> record[k].ver = 0

\* A task that no batch can be working on, now or later.
Outdated(k) == k \in TaskKeys => k[2] <= MaximumStaleEpoch(authority)

PassSteps == {"idle", "tasks", "notifies", "cleanTasks", "cleanNotifies", "delete"}
Candidates == RecordKeys \X Int
Passes == [pc : PassSteps, snap : Topologies, list : SUBSET Candidates]

\* What a janitor pass has read lies behind, and it collects outdated tasks only.
PassOf(b) ==
  /\ MaximumStaleEpoch(b.snap) <= MaximumStaleEpoch(authority)
  /\ \A c \in b.list : Outdated(c[1])

PassInv ==
  /\ job \in [Janitor -> Passes]
  /\ \A j \in Janitor : PassOf(job[j])

Writes == [key : RecordKeys \cup {<<>>}, ver : Nat, new : Int]

\* The write m of the process p: the controller creates a task only where there
\* was no record, an executor finishes one, a janitor touches outdated ones only.
WriteOf(p, m) ==
  m # NoCas =>
    /\ m.key \in RecordKeys
    /\ m.key \in TaskKeys => m.new <= Finished /\ m.new # Absent
    /\ p = Controller /\ m.key \in TaskKeys => m.ver = 0
    /\ p \in Worker => m.new = Finished
    /\ p \in Janitor => Outdated(m.key)

CasInv ==
  /\ cas \in [Process -> Writes]
  /\ \A p \in Process : WriteOf(p, cas[p])

DeleteInv == \A j \in Janitor : job[j].pc = "delete" => cas[j] # NoCas

DerivedInv == AuthorityInv /\ RecordInv /\ CasInv /\ PassInv /\ DeleteInv
-----------------------------------------------------------------------------
(* Keys, and the epochs that lie behind. *)

LEMMA TaskIsNotNotify == \A k \in TaskKeys : k \notin NotifyKeys
BY DEF TaskKeys, NotifyKeys, Task, Notify

LEMMA NoCasType == NoCas \in Writes
BY DEF NoCas, Writes

\* The tasks of the active batch are not outdated.
LEMMA ExpectedNotOutdated ==
  ASSUME AuthorityInv, NEW k \in ExpectedTasks(authority)
  PROVE  k \in TaskKeys /\ ~ Outdated(k)
<1>1. /\ authority.epoch \in Nat /\ authority.epoch > 0 /\ authority.epoch <= MaxVersion
      /\ \E w \in Worker : k = Task(authority.epoch, w)
  BY DEF AuthorityInv, ExpectedTasks, Topologies
<1>2. k \in TaskKeys /\ k[2] = authority.epoch
  BY <1>1, DerivedAssumption DEF TaskKeys, Task
<1>3. MaximumStaleEpoch(authority) = authority.epoch - 1
  BY <1>1 DEF MaximumStaleEpoch
<1> QED BY <1>1, <1>2, <1>3 DEF Outdated

\* MaximumStaleEpoch never goes back: what is outdated stays so.
LEMMA StaleType ==
  ASSUME NEW t \in Topologies PROVE MaximumStaleEpoch(t) \in Int
BY DEF Topologies, MaximumStaleEpoch

LEMMA OutdatedStays ==
  ASSUME AuthorityInv, authority' \in Topologies, NEW k, Outdated(k),
         MaximumStaleEpoch(authority) <= MaximumStaleEpoch(authority')
  PROVE  Outdated(k)'
<1>1. \A l \in TaskKeys : l[2] \in Int
  BY DerivedAssumption DEF TaskKeys, Task
<1>2. MaximumStaleEpoch(authority) \in Int /\ MaximumStaleEpoch(authority') \in Int
  BY StaleType DEF AuthorityInv
<1> QED BY <1>1, <1>2 DEF Outdated

\* A step of the topology alone.
LEMMA TopologyStepInv ==
  ASSUME DerivedInv, AuthorityInv', UNCHANGED <<record, job, cas>>,
         MaximumStaleEpoch(authority) <= MaximumStaleEpoch(authority')
  PROVE  DerivedInv'
<1> USE DEF DerivedInv
<1>1. authority' \in Topologies
  BY DEF AuthorityInv
<1>2. ASSUME NEW k, Outdated(k) PROVE Outdated(k)'
  BY <1>1, <1>2, OutdatedStays
<1>3. CasInv'
  BY <1>2 DEF CasInv, WriteOf
<1>4. PassInv'
  <2> SUFFICES ASSUME NEW j \in Janitor PROVE PassOf(job[j])'
    BY DEF PassInv
  <2>1. job[j].snap \in Topologies /\ PassOf(job[j])
    BY DEF PassInv, Passes
  <2>2. /\ MaximumStaleEpoch(job[j].snap) \in Int /\ MaximumStaleEpoch(authority) \in Int
        /\ MaximumStaleEpoch(authority') \in Int
    BY <1>1, <2>1, StaleType DEF AuthorityInv
  <2>3. MaximumStaleEpoch(job[j].snap) <= MaximumStaleEpoch(authority')
    BY <2>1, <2>2 DEF PassOf
  <2> QED BY <1>2, <2>1, <2>3 DEF PassOf
<1> QED BY <1>3, <1>4 DEF RecordInv, DeleteInv

LEMMA StartBatchInv ==
  ASSUME DerivedInv, NEW A \in SUBSET Worker, StartBatch(A) PROVE DerivedInv'
<1>1. /\ authority.epoch = 0 /\ authority.version \in Nat /\ authority.version < MaxVersion
      /\ authority' = [version |-> authority.version + 1, epoch |-> authority.version + 1,
                       executors |-> A]
      /\ UNCHANGED <<record, job, cas>>
  BY DEF StartBatch, DerivedInv, AuthorityInv, Topologies
<1>2. AuthorityInv'
  BY <1>1, DerivedAssumption DEF AuthorityInv, Topologies
<1>3. /\ MaximumStaleEpoch(authority) = authority.version
      /\ MaximumStaleEpoch(authority') = authority.version
  BY <1>1 DEF MaximumStaleEpoch
<1> QED BY <1>1, <1>2, <1>3, TopologyStepInv

LEMMA FinishBatchInv ==
  ASSUME DerivedInv, FinishBatch PROVE DerivedInv'
<1>1. /\ authority.version \in Nat /\ authority.epoch = authority.version /\ authority.version > 0
      /\ authority' = [version |-> authority.version + 1, epoch |-> 0, executors |-> {}]
      /\ UNCHANGED <<record, job, cas>>
  BY DEF FinishBatch, DerivedInv, AuthorityInv, Topologies
<1>2. AuthorityInv'
  BY <1>1, DerivedAssumption DEF AuthorityInv, Topologies
<1>3. /\ MaximumStaleEpoch(authority) = authority.version - 1
      /\ MaximumStaleEpoch(authority') = authority.version + 1
  BY <1>1 DEF MaximumStaleEpoch
<1>4. MaximumStaleEpoch(authority) <= MaximumStaleEpoch(authority')
  BY <1>1, <1>3
<1> QED BY <1>1, <1>2, <1>4, TopologyStepInv
-----------------------------------------------------------------------------
(* The parts of a step that leaves the topology alone. *)

\* RunCas of the process p begins or ends.
LEMMA CasStep ==
  ASSUME CasInv, UNCHANGED authority, NEW p \in Process, NEW m \in Writes, WriteOf(p, m),
         cas' = [cas EXCEPT ![p] = m]
  PROVE  CasInv'
<1>1. cas' \in [Process -> Writes]
  BY DEF CasInv
<1>2. ASSUME NEW q \in Process PROVE WriteOf(q, cas[q])'
  <2>1. (cas'[q] = m /\ q = p) \/ cas'[q] = cas[q]
    BY DEF CasInv
  <2> QED BY <2>1 DEF CasInv, WriteOf, Outdated
<1> QED BY <1>1, <1>2 DEF CasInv

LEMMA EndStep ==
  ASSUME CasInv, UNCHANGED authority, NEW p \in Process, End(p) PROVE CasInv'
<1>1. WriteOf(p, NoCas)
  BY DEF WriteOf
<1> QED BY <1>1, NoCasType, CasStep, ZenonT(40) DEF End

\* A pass moves on.
LEMMA PassStep ==
  ASSUME PassInv, UNCHANGED authority, NEW j \in Janitor, NEW b \in Passes, PassOf(b), Goto(j, b)
  PROVE  PassInv'
<1>1. job' \in [Janitor -> Passes]
  BY DEF PassInv, Goto
<1>2. ASSUME NEW i \in Janitor PROVE PassOf(job[i])'
  <2>1. job'[i] = b \/ job'[i] = job[i]
    BY DEF PassInv, Goto
  <2> QED BY <2>1 DEF PassInv, PassOf, Outdated
<1> QED BY <1>1, <1>2 DEF PassInv

LEMMA Unmoved ==
  ASSUME UNCHANGED authority
  PROVE  /\ AuthorityInv => AuthorityInv'
         /\ UNCHANGED record /\ RecordInv => RecordInv'
         /\ UNCHANGED cas /\ CasInv => CasInv'
         /\ UNCHANGED job /\ PassInv => PassInv'
BY DEF AuthorityInv, RecordInv, CasInv, PassInv, WriteOf, PassOf, Outdated

\* The conditional Put of the process p.
LEMMA WriteStep ==
  ASSUME RecordInv, CasInv, NEW p \in Process, InCas(p), Write(p)
  PROVE  RecordInv'
<1> DEFINE k == cas[p].key
           n == cas[p].new
<1>1. /\ k \in RecordKeys /\ n \in Int
      /\ k \in TaskKeys => n <= Finished /\ n # Absent
  BY DEF CasInv, WriteOf, InCas, Writes
<1>2. record[k] \in [val : Int, ver : Nat]
  BY <1>1 DEF RecordInv
<1>3. \/ record' = record
      \/ record' = [record EXCEPT ![k] = [val |-> n, ver |-> record[k].ver + 1]]
  BY DEF Write
<1> HIDE DEF k, n
<1>4. [val |-> n, ver |-> record[k].ver + 1] \in [val : Int, ver : Nat]
  BY <1>1, <1>2
<1>5. record' \in [RecordKeys -> [val : Int, ver : Nat]]
  BY <1>3, <1>4 DEF RecordInv
<1>6. ASSUME NEW l \in TaskKeys
      PROVE  /\ record'[l].val <= Finished
             /\ record'[l].val = Absent <=> record'[l].ver = 0
  <2>1. l \in RecordKeys
    BY DEF RecordKeys
  <2>2. CASE record'[l] = record[l]
    BY <2>2 DEF RecordInv
  <2>3. CASE l = k /\ record'[l] = [val |-> n, ver |-> record[k].ver + 1]
    BY <1>1, <1>2, <2>3 DEF Absent
  <2> QED BY <1>3, <2>1, <2>2, <2>3 DEF RecordInv
<1> QED BY <1>5, <1>6 DEF RecordInv
-----------------------------------------------------------------------------
(* The controller and the executors. *)

LEMMA Processes ==
  /\ Controller \in Process /\ Controller \notin Worker /\ Controller \notin Janitor
  /\ \A w \in Worker : w \in Process /\ w # Controller /\ w \notin Janitor
  /\ \A j \in Janitor : j \in Process /\ j # Controller /\ j \notin Worker
BY DerivedAssumption DEF Process

\* The write of one process leaves the deletes of the janitors alone.
LEMMA OthersDelete ==
  ASSUME CasInv, DeleteInv, NEW p \in Process, p \notin Janitor, NEW m,
         cas' = [cas EXCEPT ![p] = m], UNCHANGED job
  PROVE  DeleteInv'
BY DEF CasInv, DeleteInv

LEMMA ReconcileDerivedSliceInv ==
  ASSUME DerivedInv, NEW k \in DOMAIN record, ReconcileDerivedSlice(k) PROVE DerivedInv'
<1> DEFINE desired == IF k \in TaskKeys THEN Open ELSE ExpectedNotify(authority, k)
           m == [key |-> k, ver |-> record[k].ver, new |-> desired]
<1>1. UNCHANGED <<authority, record, job>>
  BY DEF ReconcileDerivedSlice
<1>2. \/ UNCHANGED cas
      \/ /\ cas' = [cas EXCEPT ![Controller] = m]
         /\ k \in TaskKeys => record[k].val = Absent
  BY DEF ReconcileDerivedSlice, Begin
<1>3. k \in RecordKeys /\ record[k].ver \in Nat /\ desired \in Int
  BY DEF DerivedInv, RecordInv, AuthorityInv, Topologies, Open, ExpectedNotify, Absent
<1>4. m \in Writes
  BY <1>3 DEF Writes
<1>5. CASE UNCHANGED cas
  BY <1>1, <1>5, Unmoved DEF DerivedInv, DeleteInv
<1>6. CASE cas' = [cas EXCEPT ![Controller] = m] /\ (k \in TaskKeys => record[k].val = Absent)
  <2>1. k \in TaskKeys => record[k].ver = 0 /\ desired = Open
    BY <1>6 DEF DerivedInv, RecordInv
  <2>2. WriteOf(Controller, m)
    BY <1>3, <2>1, Processes DEF WriteOf, Open, Finished, Absent
  <2> HIDE DEF m
  <2>3. CasInv'
    BY <1>1, <1>4, <1>6, <2>2, CasStep, Processes, ZenonT(40) DEF DerivedInv
  <2>4. DeleteInv'
    BY <1>1, <1>6, OthersDelete, Processes, ZenonT(40) DEF DerivedInv
  <2> QED BY <1>1, <2>3, <2>4, Unmoved DEF DerivedInv
<1> QED BY <1>2, <1>5, <1>6

\* A Put of the controller or of an executor.
LEMMA PutInv ==
  ASSUME DerivedInv, NEW p \in Process, p \notin Janitor, InCas(p), Write(p), End(p),
         UNCHANGED <<authority, job>>
  PROVE  DerivedInv'
<1>1. RecordInv'
  BY WriteStep DEF DerivedInv
<1>2. CasInv'
  BY EndStep DEF DerivedInv
<1>3. DeleteInv'
  BY OthersDelete, ZenonT(40) DEF DerivedInv, End
<1> QED BY <1>1, <1>2, <1>3, Unmoved DEF DerivedInv

LEMMA ExecuteTaskInv ==
  ASSUME DerivedInv, NEW w \in Worker, ExecuteTask(w) PROVE DerivedInv'
<1> DEFINE k == Task(scheduled[w], w)
           m == [key |-> k, ver |-> record[k].ver, new |-> Finished]
<1>1. /\ UNCHANGED <<authority, record, job>> /\ cas' = [cas EXCEPT ![w] = m]
      /\ scheduled[w] = authority.epoch /\ scheduled[w] > 0
  BY DEF ExecuteTask, Begin
<1>2. k \in TaskKeys
  BY <1>1, DerivedAssumption DEF DerivedInv, AuthorityInv, Topologies, TaskKeys
<1>3. k \in RecordKeys /\ record[k].ver \in Nat
  BY <1>2 DEF RecordKeys, DerivedInv, RecordInv
<1> HIDE DEF k
<1>4. m \in Writes /\ WriteOf(w, m)
  BY <1>3, Processes DEF Writes, WriteOf, Finished, Absent
<1> HIDE DEF m
<1>5. CasInv' /\ DeleteInv'
  BY <1>1, <1>4, CasStep, OthersDelete, Processes, ZenonT(40) DEF DerivedInv
<1> QED BY <1>1, <1>5, Unmoved DEF DerivedInv

LEMMA RestartWorkerInv ==
  ASSUME DerivedInv, NEW w \in Worker, RestartWorker(w) PROVE DerivedInv'
<1>1. UNCHANGED <<authority, record, job>> /\ End(w)
  BY DEF RestartWorker
<1>2. CasInv' /\ DeleteInv'
  BY <1>1, EndStep, OthersDelete, Processes, ZenonT(40) DEF DerivedInv, End
<1> QED BY <1>1, <1>2, Unmoved DEF DerivedInv
-----------------------------------------------------------------------------
(* The janitor. *)

\* The delete of a pass goes with its write.
LEMMA OwnDelete ==
  ASSUME DeleteInv, PassInv, CasInv, NEW j \in Janitor, NEW b, Goto(j, b),
         NEW m, cas' = [cas EXCEPT ![j] = m], b.pc = "delete" => m # NoCas
  PROVE  DeleteInv'
<1> SUFFICES ASSUME NEW i \in Janitor, job'[i].pc = "delete" PROVE cas'[i] # NoCas
  BY DEF DeleteInv
<1>1. i \in Process /\ j \in Process
  BY Processes
<1>2. CASE i = j
  BY <1>1, <1>2 DEF PassInv, CasInv, Goto
<1>3. CASE i # j
  BY <1>1, <1>3 DEF PassInv, CasInv, Goto, DeleteInv
<1> QED BY <1>2, <1>3

\* A step of a pass that begins no write.
LEMMA PassMoveInv ==
  ASSUME DerivedInv, NEW j \in Janitor, NEW b \in Passes, PassOf(b), Goto(j, b),
         b.pc # "delete", UNCHANGED <<authority, record, cas>>
  PROVE  DerivedInv'
<1>1. PassInv'
  BY PassStep DEF DerivedInv
<1>2. DeleteInv'
  BY DEF DerivedInv, DeleteInv, PassInv, Goto
<1> QED BY <1>1, <1>2, Unmoved DEF DerivedInv

LEMMA PassFields ==
  ASSUME PassInv, NEW j \in Janitor
  PROVE  /\ job[j] \in Passes /\ job[j].snap \in Topologies /\ PassOf(job[j])
         /\ job[j].list \in SUBSET Candidates
BY DEF PassInv, Passes

LEMMA PassGoes ==
  ASSUME NEW r \in Passes, NEW pc \in PassSteps, NEW b, b = [r EXCEPT !.pc = pc]
  PROVE  b \in Passes /\ b.pc = pc /\ b.snap = r.snap /\ b.list = r.list
BY DEF Passes

LEMMA PassLeaves ==
  ASSUME NEW r \in Passes, NEW list \in SUBSET Candidates, NEW b, b = [r EXCEPT !.list = list]
  PROVE  b \in Passes /\ b.pc = r.pc /\ b.snap = r.snap /\ b.list = list
BY DEF Passes

LEMMA JanitorReadInv ==
  ASSUME DerivedInv, NEW j \in Janitor, JanitorRead(j) PROVE DerivedInv'
<1> DEFINE b == [job[j] EXCEPT !.pc = "tasks", !.snap = authority]
<1>1. job[j] \in Passes /\ PassOf(job[j]) /\ authority \in Topologies
  BY PassFields DEF DerivedInv, AuthorityInv
<1>2. Goto(j, b) /\ UNCHANGED <<authority, record, cas>>
  BY DEF JanitorRead
<1>3. b \in Passes /\ b.pc = "tasks" /\ b.snap = authority /\ b.list = job[j].list
  <2>1. "tasks" \in PassSteps
    BY DEF PassSteps
  <2> QED BY <1>1, <2>1, ZenonT(40) DEF Passes
<1> HIDE DEF b
<1>4. MaximumStaleEpoch(authority) \in Int
  BY <1>1, StaleType
<1>5. PassOf(b)
  BY <1>1, <1>3, <1>4 DEF PassOf
<1> QED BY <1>2, <1>3, <1>5, PassMoveInv

LEMMA ListCandidatesInv ==
  ASSUME DerivedInv, NEW j \in Janitor, ListCandidates(j) PROVE DerivedInv'
<1> DEFINE stale == IF job[j].pc = "tasks" THEN StaleTasks(job[j].snap) ELSE StaleNotifies(job[j].snap)
           next  == IF job[j].pc = "tasks" THEN "cleanTasks" ELSE "cleanNotifies"
           list  == {<<k, record[k].val>> : k \in stale}
           b     == [job[j] EXCEPT !.pc = next, !.list = list]
<1>1. job[j] \in Passes /\ job[j].snap \in Topologies /\ PassOf(job[j])
  BY PassFields DEF DerivedInv
<1>2. Goto(j, b) /\ UNCHANGED <<authority, record, cas>>
  BY DEF ListCandidates
<1>3. stale \subseteq RecordKeys
  BY DEF StaleTasks, StaleNotifies, RecordKeys
<1>4. \A k \in stale : Outdated(k)
  <2> SUFFICES ASSUME NEW k \in stale, k \in TaskKeys PROVE k[2] <= MaximumStaleEpoch(authority)
    BY DEF Outdated
  <2>1. k \in StaleTasks(job[j].snap)
    BY TaskIsNotNotify DEF StaleNotifies
  <2>2. k[2] <= MaximumStaleEpoch(job[j].snap) /\ k[2] \in Int
    BY <2>1, DerivedAssumption DEF StaleTasks, TaskKeys, Task
  <2>3. MaximumStaleEpoch(job[j].snap) \in Int /\ MaximumStaleEpoch(authority) \in Int
    BY <1>1, StaleType DEF DerivedInv, AuthorityInv
  <2> QED BY <1>1, <2>2, <2>3 DEF PassOf
<1> HIDE DEF stale
<1>5. list \in SUBSET Candidates /\ \A c \in list : Outdated(c[1])
  BY <1>3, <1>4 DEF DerivedInv, RecordInv, Candidates
<1> HIDE DEF list
<1>6. next \in PassSteps /\ next # "delete"
  BY DEF PassSteps
<1> HIDE DEF next
<1>7. b \in Passes /\ b.pc = next /\ b.snap = job[j].snap /\ b.list = list
  BY <1>1, <1>5, <1>6, ZenonT(40) DEF Passes
<1> HIDE DEF b
<1>8. PassOf(b)
  BY <1>1, <1>5, <1>7 DEF PassOf
<1> QED BY <1>2, <1>6, <1>7, <1>8, PassMoveInv

LEMMA NoJobPass ==
  ASSUME AuthorityInv PROVE NoJob \in Passes /\ PassOf(NoJob) /\ NoJob.pc # "delete"
<1>1. MaximumStaleEpoch(NoJob.snap) = 0 /\ NoJob.list = {} /\ NoJob.pc = "idle"
  BY DEF NoJob, MaximumStaleEpoch
<1>2. MaximumStaleEpoch(authority) >= 0
  BY DEF AuthorityInv, Topologies, MaximumStaleEpoch
<1>3. NoJob \in Passes
  BY DEF NoJob, Passes, PassSteps, Topologies
<1> QED BY <1>1, <1>2, <1>3 DEF PassOf

LEMMA CandidatesDoneInv ==
  ASSUME DerivedInv, NEW j \in Janitor, CandidatesDone(j) PROVE DerivedInv'
<1> DEFINE b == [job[j] EXCEPT !.pc = "notifies"]
<1>1. job[j] \in Passes /\ PassOf(job[j])
  BY PassFields DEF DerivedInv
<1>2. (Goto(j, b) \/ Goto(j, NoJob)) /\ UNCHANGED <<authority, record, cas>>
  BY DEF CandidatesDone
<1>3. b \in Passes /\ b.pc = "notifies" /\ b.snap = job[j].snap /\ b.list = job[j].list
  <2>1. "notifies" \in PassSteps
    BY DEF PassSteps
  <2> QED BY <1>1, <2>1, PassGoes
<1> HIDE DEF b
<1>4. PassOf(b)
  BY <1>1, <1>3 DEF PassOf
<1>5. CASE Goto(j, b)
  BY <1>2, <1>3, <1>4, <1>5, PassMoveInv
<1>6. CASE Goto(j, NoJob)
  BY <1>2, <1>6, NoJobPass, PassMoveInv DEF DerivedInv
<1> QED BY <1>2, <1>5, <1>6

LEMMA RestartJanitorInv ==
  ASSUME DerivedInv, NEW j \in Janitor, RestartJanitor(j) PROVE DerivedInv'
<1>1. Goto(j, NoJob) /\ End(j) /\ UNCHANGED <<authority, record>> /\ j \in Process
  BY Processes DEF RestartJanitor
<1>2. NoJob \in Passes /\ PassOf(NoJob) /\ NoJob.pc # "delete"
  BY NoJobPass DEF DerivedInv
<1>3. PassInv'
  BY <1>1, <1>2, PassStep DEF DerivedInv
<1>4. CasInv'
  BY <1>1, EndStep DEF DerivedInv
<1>5. DeleteInv'
  BY <1>1, <1>2, OwnDelete, ZenonT(40) DEF DerivedInv, End
<1> QED BY <1>1, <1>3, <1>4, <1>5, Unmoved DEF DerivedInv

LEMMA MatchCandidateInv ==
  ASSUME DerivedInv, NEW j \in Janitor, NEW c \in job[j].list, MatchCandidate(j, c)
  PROVE  DerivedInv'
<1> DEFINE k == c[1]
           replacement == IF k \in NotifyKeys THEN ExpectedNotify(job[j].snap, k) ELSE Absent
           new == IF replacement = Absent THEN NextDeleteTombstone(c[2]) ELSE replacement
           m == [key |-> k, ver |-> record[k].ver, new |-> new]
           rest == job[j].list \ {c}
           b == [job[j] EXCEPT !.list = rest]
<1>1. /\ job[j] \in Passes /\ job[j].snap \in Topologies /\ PassOf(job[j])
      /\ job[j].list \in SUBSET Candidates
  BY PassFields DEF DerivedInv
<1>2. UNCHANGED <<authority, record>> /\ job[j].pc \in {"cleanTasks", "cleanNotifies"}
  BY DEF MatchCandidate
<1>3. \/ cas' = [cas EXCEPT ![j] = m] /\ UNCHANGED job
      \/ Goto(j, b) /\ UNCHANGED cas
  BY DEF MatchCandidate, Begin
<1>4. k \in RecordKeys /\ Outdated(k)
  BY <1>1 DEF Candidates, PassOf
<1>5. CASE cas' = [cas EXCEPT ![j] = m] /\ UNCHANGED job
  <2>1. record[k].ver \in Nat
    BY <1>4 DEF DerivedInv, RecordInv
  <2>2. new \in Int
    BY <1>1 DEF Topologies, ExpectedNotify, NextDeleteTombstone, Absent
  <2>3. k \in TaskKeys => new \in {-1, -2}
    BY TaskIsNotNotify DEF NextDeleteTombstone
  <2> HIDE DEF k, new
  <2>4. m \in Writes
    BY <1>4, <2>1, <2>2 DEF Writes
  <2>5. j \in Process /\ j # Controller /\ j \notin Worker
    BY Processes
  <2>6. WriteOf(j, m)
    BY <1>4, <2>3, <2>5 DEF WriteOf, Finished, Absent
  <2> HIDE DEF m
  <2>7. CasInv'
    BY <1>2, <1>5, <2>4, <2>5, <2>6, CasStep, ZenonT(40) DEF DerivedInv
  <2>8. DeleteInv'
    BY <1>2, <1>5, <2>5 DEF DeleteInv, DerivedInv, CasInv
  <2> QED BY <1>2, <1>5, <2>7, <2>8, Unmoved DEF DerivedInv
<1>6. CASE Goto(j, b) /\ UNCHANGED cas
  <2>1. rest \in SUBSET Candidates /\ rest \subseteq job[j].list
    BY <1>1
  <2> HIDE DEF rest
  <2>2. b \in Passes /\ b.pc = job[j].pc /\ b.snap = job[j].snap /\ b.list = rest
    BY <1>1, <2>1, PassLeaves
  <2> HIDE DEF b
  <2>3. PassOf(b) /\ b.pc # "delete"
    BY <1>1, <1>2, <2>1, <2>2 DEF PassOf
  <2> QED BY <1>2, <1>6, <2>2, <2>3, PassMoveInv
<1> QED BY <1>3, <1>5, <1>6

LEMMA JanitorPutInv ==
  ASSUME DerivedInv, NEW j \in Janitor, JanitorPut(j) PROVE DerivedInv'
<1> DEFINE done == {c \in job[j].list : c[1] = cas[j].key}
           rest == job[j].list \ done
           deletes == [job[j] EXCEPT !.pc = "delete", !.list = rest]
           goesOn == [job[j] EXCEPT !.list = rest]
<1>1. /\ InCas(j) /\ Write(j) /\ job[j].pc # "delete" /\ UNCHANGED authority
      /\ \/ UNCHANGED cas /\ Goto(j, deletes)
         \/ End(j) /\ (Goto(j, goesOn) \/ Goto(j, job[j]))
  BY DEF JanitorPut
<1>2. /\ job[j] \in Passes /\ PassOf(job[j]) /\ job[j].list \in SUBSET Candidates
      /\ j \in Process
  BY PassFields, Processes DEF DerivedInv
<1>3. RecordInv' /\ AuthorityInv'
  BY <1>1, <1>2, WriteStep, Unmoved DEF DerivedInv
<1>4. rest \in SUBSET Candidates /\ rest \subseteq job[j].list
  BY <1>2
<1> HIDE DEF rest
<1>5. CASE UNCHANGED cas /\ Goto(j, deletes)
  <2>1. /\ deletes \in Passes /\ deletes.pc = "delete" /\ deletes.snap = job[j].snap
        /\ deletes.list = rest
    BY <1>2, <1>4, ZenonT(40) DEF Passes, PassSteps
  <2> HIDE DEF deletes
  <2>2. PassOf(deletes)
    BY <1>2, <1>4, <2>1 DEF PassOf
  <2>3. PassInv'
    BY <1>1, <1>5, <2>1, <2>2, PassStep DEF DerivedInv
  <2>4. CasInv'
    BY <1>1, <1>5, Unmoved DEF DerivedInv
  <2>5. DeleteInv'
    BY <1>1, <1>5 DEF DerivedInv, DeleteInv, PassInv, Goto, InCas
  <2> QED BY <1>3, <2>3, <2>4, <2>5 DEF DerivedInv
<1>6. ASSUME End(j), NEW b \in Passes, PassOf(b), b.pc # "delete", Goto(j, b) PROVE DerivedInv'
  <2>1. PassInv'
    BY <1>1, <1>6, PassStep DEF DerivedInv
  <2>2. CasInv'
    BY <1>1, <1>2, <1>6, EndStep DEF DerivedInv
  <2>3. DeleteInv'
    BY <1>6, OwnDelete, ZenonT(40) DEF DerivedInv, End
  <2> QED BY <1>3, <2>1, <2>2, <2>3 DEF DerivedInv
<1>7. CASE End(j) /\ Goto(j, goesOn)
  <2>1. goesOn \in Passes /\ goesOn.pc = job[j].pc /\ goesOn.snap = job[j].snap /\ goesOn.list = rest
    BY <1>2, <1>4 DEF Passes
  <2> HIDE DEF goesOn
  <2>2. PassOf(goesOn)
    BY <1>2, <1>4, <2>1 DEF PassOf
  <2> QED BY <1>1, <1>6, <1>7, <2>1, <2>2
<1>8. CASE End(j) /\ Goto(j, job[j])
  BY <1>1, <1>2, <1>6, <1>8
<1> QED BY <1>1, <1>5, <1>7, <1>8

LEMMA JanitorDeleteInv ==
  ASSUME DerivedInv, NEW j \in Janitor, JanitorDelete(j) PROVE DerivedInv'
<1> DEFINE k == cas[j].key
           pc == IF k \in TaskKeys THEN "cleanTasks" ELSE "cleanNotifies"
           b == [job[j] EXCEPT !.pc = pc]
<1>1. /\ record' = [record EXCEPT ![k] = [val |-> Absent, ver |-> 0]]
      /\ Goto(j, b) /\ End(j) /\ UNCHANGED authority /\ j \in Process
  BY Processes DEF JanitorDelete
<1>2. job[j] \in Passes /\ PassOf(job[j])
  BY PassFields DEF DerivedInv
<1>3. pc \in PassSteps /\ pc # "delete"
  BY DEF PassSteps
<1> HIDE DEF pc
<1>4. b \in Passes /\ b.pc = pc /\ b.snap = job[j].snap /\ b.list = job[j].list
  BY <1>2, <1>3, PassGoes
<1> HIDE DEF b
<1>5. PassOf(b)
  BY <1>2, <1>4 DEF PassOf
<1>6. PassInv' /\ CasInv' /\ AuthorityInv'
  BY <1>1, <1>4, <1>5, PassStep, EndStep, Unmoved DEF DerivedInv
<1>7. DeleteInv'
  BY <1>1, <1>3, <1>4, OwnDelete, ZenonT(40) DEF DerivedInv, End
<1>8. RecordInv'
  <2>1. [val |-> Absent, ver |-> 0] \in [val : Int, ver : Nat]
    BY DEF Absent
  <2>2. record' \in [RecordKeys -> [val : Int, ver : Nat]]
    BY <1>1, <2>1, ZenonT(40) DEF DerivedInv, RecordInv
  <2>3. \A l \in TaskKeys : record'[l] = record[l] \/ record'[l] = [val |-> Absent, ver |-> 0]
    BY <1>1 DEF DerivedInv, RecordInv, RecordKeys
  <2>4. \A l \in TaskKeys : /\ record'[l].val <= Finished
                            /\ record'[l].val = Absent <=> record'[l].ver = 0
    BY <2>3 DEF DerivedInv, RecordInv, Absent, Finished
  <2> QED BY <2>2, <2>4 DEF RecordInv
<1> QED BY <1>6, <1>7, <1>8 DEF DerivedInv
-----------------------------------------------------------------------------
LEMMA DerivedInitInv == DerivedInit => DerivedInv
<1> SUFFICES ASSUME DerivedInit PROVE DerivedInv
  BY ZenonT(40)
<1>1. AuthorityInv
  BY DerivedAssumption DEF DerivedInit, AuthorityInv, Topologies
<1>2. RecordInv
  BY DEF DerivedInit, RecordInv, RecordKeys, Absent, Finished
<1>3. CasInv
  BY NoCasType DEF DerivedInit, CasInv, WriteOf
<1>4. NoJob \in Passes /\ PassOf(NoJob) /\ NoJob.pc # "delete"
  BY <1>1, NoJobPass
<1>5. PassInv /\ DeleteInv
  BY <1>4 DEF DerivedInit, PassInv, DeleteInv
<1> QED BY <1>1, <1>2, <1>3, <1>5 DEF DerivedInv

\* Steps that write no record and take no part in a CAS or a pass.
LEMMA AsideInv ==
  ASSUME DerivedInv, UNCHANGED <<authority, record, job, cas>> PROVE DerivedInv'
BY Unmoved DEF DerivedInv, DeleteInv

LEMMA DerivedStepInv == DerivedInv /\ [DerivedNext]_dvars => DerivedInv'
<1> SUFFICES ASSUME DerivedInv, [DerivedNext]_dvars PROVE DerivedInv'
  OBVIOUS
<1>1. ASSUME NEW A \in (SUBSET Worker) \ {{}}, StartBatch(A) PROVE DerivedInv'
  BY <1>1, StartBatchInv
<1>2. CASE ControllerStep
  <2>1. CASE PrepareDerivedGeneration
    BY <2>1, AsideInv DEF PrepareDerivedGeneration
  <2>2. CASE ReconcileDerivedPut
    BY <2>2, PutInv, Processes DEF ReconcileDerivedPut
  <2>3. CASE FinishBatch
    BY <2>3, FinishBatchInv
  <2>4. ASSUME NEW k \in DOMAIN record, ReconcileDerivedSlice(k) PROVE DerivedInv'
    BY <2>4, ReconcileDerivedSliceInv
  <2> QED BY <1>2, <2>1, <2>2, <2>3, <2>4 DEF ControllerStep
<1>3. ASSUME NEW w \in Worker, ExecutorStep(w) PROVE DerivedInv'
  <2>1. CASE ReadNotify(w)
    BY <2>1, AsideInv DEF ReadNotify
  <2>2. CASE MarkTaskScopeFinished(w)
    BY <2>2, PutInv, Processes DEF MarkTaskScopeFinished
  <2> QED BY <1>3, <2>1, <2>2, ExecuteTaskInv DEF ExecutorStep
<1>4. ASSUME NEW w \in Worker, RestartWorker(w) PROVE DerivedInv'
  BY <1>4, RestartWorkerInv
<1>5. ASSUME NEW j \in Janitor, JanitorStep(j) PROVE DerivedInv'
  BY <1>5, JanitorReadInv, ListCandidatesInv, CandidatesDoneInv, JanitorPutInv,
     JanitorDeleteInv, MatchCandidateInv DEF JanitorStep
<1>6. ASSUME NEW j \in Janitor, RestartJanitor(j) PROVE DerivedInv'
  BY <1>6, RestartJanitorInv
<1>7. CASE UNCHANGED dvars
  BY <1>7, AsideInv DEF dvars
<1> QED BY <1>1, <1>2, <1>3, <1>4, <1>5, <1>6, <1>7 DEF DerivedNext

\* A record changes by the Put of a process or by the delete of a janitor.
LEMMA RecordChanges ==
  ASSUME [DerivedNext]_dvars
  PROVE  \/ UNCHANGED record
         \/ \E p \in Process : InCas(p) /\ Write(p)
         \/ \E j \in Janitor : JanitorDelete(j)
<1>1. ASSUME ControllerStep
      PROVE  UNCHANGED record \/ \E p \in Process : InCas(p) /\ Write(p)
  BY <1>1, Processes, ZenonT(40) DEF ControllerStep, PrepareDerivedGeneration, ReconcileDerivedPut,
     FinishBatch, ReconcileDerivedSlice
<1>2. ASSUME NEW w \in Worker, ExecutorStep(w) \/ RestartWorker(w)
      PROVE  UNCHANGED record \/ \E p \in Process : InCas(p) /\ Write(p)
  BY <1>2, Processes DEF ExecutorStep, RestartWorker, ReadNotify, ExecuteTask, MarkTaskScopeFinished
<1>3. ASSUME NEW j \in Janitor, JanitorStep(j) \/ RestartJanitor(j)
      PROVE  \/ UNCHANGED record
             \/ \E p \in Process : InCas(p) /\ Write(p)
             \/ JanitorDelete(j)
  BY <1>3, Processes, ZenonT(40) DEF JanitorStep, RestartJanitor, JanitorRead, ListCandidates,
     CandidatesDone, MatchCandidate, JanitorPut
<1> QED BY <1>1, <1>2, <1>3 DEF DerivedNext, StartBatch, dvars

LEMMA ActiveTaskKept ==
  ASSUME DerivedInv, [DerivedNext]_dvars, NEW k \in ExpectedTasks(authority), record[k].val > 0
  PROVE  record'[k].val >= record[k].val
<1>1. k \in TaskKeys /\ k \in RecordKeys /\ ~ Outdated(k)
  BY ExpectedNotOutdated DEF DerivedInv, RecordKeys
<1>2. /\ record \in [RecordKeys -> [val : Int, ver : Nat]] /\ record[k].val \in Int
      /\ record[k].ver # 0 /\ record[k].val <= Finished
  BY <1>1 DEF DerivedInv, RecordInv, Absent
<1>3. ASSUME NEW p \in Process, InCas(p), Write(p) PROVE record'[k].val >= record[k].val
  <2>1. CASE cas[p].key # k \/ ~ Won(p)
    BY <1>1, <1>2, <1>3, <2>1 DEF Write
  <2>2. CASE cas[p].key = k /\ Won(p)
    <3>1. record'[k].val = cas[p].new /\ cas[p].ver = record[k].ver
      BY <1>1, <1>2, <1>3, <2>2 DEF Write, Won
    <3>2. WriteOf(p, cas[p]) /\ cas[p] # NoCas
      BY <1>3 DEF DerivedInv, CasInv, InCas
    <3>3. p \in Worker
      BY <1>1, <1>2, <2>2, <3>1, <3>2 DEF WriteOf, Process
    <3> QED BY <1>2, <3>1, <3>2, <3>3 DEF WriteOf, Finished
  <2> QED BY <2>1, <2>2
<1>4. ASSUME NEW j \in Janitor, JanitorDelete(j) PROVE record'[k].val >= record[k].val
  <2>1. WriteOf(j, cas[j]) /\ cas[j] # NoCas
    BY <1>4, Processes DEF DerivedInv, CasInv, DeleteInv, JanitorDelete
  <2>2. cas[j].key # k
    BY <1>1, <2>1 DEF WriteOf
  <2>3. record'[k] = record[k]
    BY <1>1, <1>2, <1>4, <2>2 DEF JanitorDelete
  <2> QED BY <1>2, <2>3
<1>5. CASE UNCHANGED record
  BY <1>2, <1>5
<1> QED BY <1>3, <1>4, <1>5, RecordChanges

\* DeleteTaskIfMatches, CreateTaskIfAbsent and MarkTaskScopeFinished together,
\* for any number of janitors and executors that crash at any step: a task of
\* the active batch is never deleted, buried or set back, although a pass works
\* with an old topology and the versions that a Put compares start again.
THEOREM ActiveTasksSurvive == DerivedSpec => ActiveTasksKept
<1>1. DerivedInv /\ [DerivedNext]_dvars =>
        [\A k \in ExpectedTasks(authority) :
           (authority' = authority /\ record[k].val > 0) => record'[k].val >= record[k].val]_dvars
  BY ActiveTaskKept
<1>2. DerivedSpec => []DerivedInv
  BY DerivedInitInv, DerivedStepInv, PTL DEF DerivedSpec
<1> QED BY <1>1, <1>2, PTL DEF DerivedSpec, ActiveTasksKept

-----------------------------------------------------------------------------
(* Restart facts. *)

\* A batch and the memory are functions of the peers, and what is remembered
\* was applied.
RestartInv ==
  /\ batch \in [Peer -> Int] /\ completed \in [Peer -> Int] /\ facts \in [Peer -> Int]
  /\ newest \in [Peer -> Int]
  /\ CompletedWereApplied

\* completedRestartTimestampsByAddress_ holds a timestamp only after the effects
\* of that restart ran: HandleRestartFacts only forgets, and a batch that
\* succeeded is recorded at the timestamps it was started with.
THEOREM CompletedAreApplied == RestartSpec => []CompletedWereApplied
<1>1. RestartInit => RestartInv
  BY DEF RestartInit, RestartInv, Nothing, CompletedWereApplied
<1>2. RestartInv /\ [RestartNext]_rvars => RestartInv'
  <2> SUFFICES ASSUME RestartInv, [RestartNext]_rvars PROVE RestartInv'
    OBVIOUS
  <2> USE DEF RestartInv, CompletedWereApplied
  <2>1. ASSUME NEW p \in Peer, PublishFact(p) PROVE RestartInv'
    BY <2>1 DEF PublishFact
  <2>2. ASSUME NEW p \in Peer, DropFact(p) PROVE RestartInv'
    BY <2>2 DEF DropFact
  <2>3. CASE HandleRestartFacts
    <3>1. batch' \in [Peer -> Int] /\ completed' \in [Peer -> Int]
      BY <2>3 DEF HandleRestartFacts, Pending
    <3>2. CompletedWereApplied'
      BY <2>3 DEF HandleRestartFacts
    <3> QED BY <2>3, <3>1, <3>2 DEF HandleRestartFacts
  <2>4. CASE FinishRestartEffects
    <3>1. batch' \in [Peer -> Int] /\ completed' \in [Peer -> Int]
      BY <2>4 DEF FinishRestartEffects, Record, Nothing
    <3>2. CompletedWereApplied'
      BY <2>4 DEF FinishRestartEffects, Record
    <3> QED BY <2>4, <3>1, <3>2 DEF FinishRestartEffects
  <2>5. CASE UNCHANGED rvars
    BY <2>5 DEF rvars
  <2> QED BY <2>1, <2>2, <2>3, <2>4, <2>5 DEF RestartNext
<1>3. RestartInv => CompletedWereApplied
  BY DEF RestartInv
<1> QED BY <1>1, <1>2, <1>3, PTL DEF RestartSpec
-----------------------------------------------------------------------------
(* The ranges of the tasks.  The least of a set of numbers is the library's. *)

INSTANCE WellFoundedInduction

LEMMA LeastExists ==
  ASSUME NEW S \in SUBSET Nat, S # {}
  PROVE  \E t \in S : IsLeast(t, S)
<1>1. PICK x \in S : \A y \in S : ~ (<<y, x>> \in OpToRel(<, Nat))
  BY NatLessThanWellFounded, WFMin, ZenonT(40)
<1>2. \A y \in S : ~ (y < x)
  BY <1>1, ZenonT(40) DEF OpToRel
<1> QED BY <1>2 DEF IsLeast

\* The token a search finds is one of the ring's.
LEMMA FindOwnerType ==
  ASSUME NEW ring \in Ring, NEW h \in Token
  PROVE  FindOwner(ring, h) \in Address
<1> USE MaxTokenAssumption DEF Token
<1>1. PICK T \in (SUBSET Token) \ {{}} : ring \in [T -> Address]
  BY DEF Ring
<1> DEFINE found == IF AtOrAfter(ring, h) = {} THEN DOMAIN ring ELSE AtOrAfter(ring, h)
<1>2. found # {} /\ found \subseteq T /\ T \subseteq Nat
  BY <1>1 DEF AtOrAfter
<1>3. \E t \in found : IsLeast(t, found)
  <2> HIDE DEF found
  <2>1. found \in SUBSET Nat
    BY <1>2
  <2> QED BY <1>2, <2>1, LeastExists
<1>4. (CHOOSE t \in found : IsLeast(t, found)) \in T
  <2> HIDE DEF found
  <2> QED BY <1>2, <1>3, ZenonT(40)
<1>5. ring[CHOOSE t \in found : IsLeast(t, found)] \in Address
  <2> HIDE DEF found
  <2> QED BY <1>1, <1>4, ZenonT(40)
<1> QED BY <1>5 DEF FindOwner

LEMMA RingTokens ==
  ASSUME NEW ring \in Ring
  PROVE  DOMAIN ring \subseteq Token
BY DEF Ring

\* The segment that starts at b ends before the next boundary and inside the ring.
LEMMA NextBoundaryType ==
  ASSUME fromOwners \in Ring, toOwners \in Ring, NEW b \in Token
  PROVE  /\ NextBoundary(b) \in b + 1 .. MaxToken + 1
         /\ NextBoundary(b) \in Boundaries(fromOwners, toOwners) \cup {MaxToken + 1}
         /\ \A c \in Boundaries(fromOwners, toOwners) : c > b => NextBoundary(b) <= c
<1> DEFINE bs == Boundaries(fromOwners, toOwners)
           later == {c \in bs : c > b}
<1>1. bs \subseteq Token
  BY MaxTokenAssumption, RingTokens DEF Boundaries, Token
<1>2. CASE later = {}
  <2>1. NextBoundary(b) = MaxToken + 1
    BY <1>2 DEF NextBoundary
  <2> HIDE DEF bs
  <2> QED BY <1>1, <1>2, <2>1, MaxTokenAssumption DEF Token, bs
<1>3. CASE later # {}
  <2>1. NextBoundary(b) = CHOOSE c \in later : IsLeast(c, later)
    BY <1>3 DEF NextBoundary
  <2>2. later \in SUBSET Nat
    <3>1. bs \subseteq Nat
      <4> HIDE DEF bs
      <4> QED BY <1>1, MaxTokenAssumption DEF Token
    <3> HIDE DEF bs
    <3> QED BY <3>1, ZenonT(40)
  <2>3. \E c \in later : IsLeast(c, later)
    <3> HIDE DEF later
    <3> QED BY <1>3, <2>2, LeastExists
  <2>4. NextBoundary(b) \in later /\ IsLeast(NextBoundary(b), later)
    <3> HIDE DEF later
    <3> QED BY <2>1, <2>3
  <2>5. NextBoundary(b) \in bs /\ NextBoundary(b) > b
    BY <2>4
  <2>6. \A c \in bs : c > b => NextBoundary(b) <= c
    BY <2>4 DEF IsLeast
  <2> HIDE DEF bs
  <2> QED BY <1>1, <2>5, <2>6, MaxTokenAssumption DEF Token, bs
<1> QED BY <1>2, <1>3

\* Between two boundaries no token of either ring intervenes, so the owner at
\* the start of a segment owns all of it: the reason DiffOwners may look up one
\* token per segment.
LEMMA SegmentOwner ==
  ASSUME fromOwners \in Ring, toOwners \in Ring, NEW b \in Token,
         NEW ring \in {fromOwners, toOwners},
         NEW h \in b .. NextBoundary(b) - 1
  PROVE  FindOwner(ring, h) = FindOwner(ring, b)
<1>1. /\ NextBoundary(b) \in b + 1 .. MaxToken + 1
      /\ \A c \in Boundaries(fromOwners, toOwners) : c > b => NextBoundary(b) <= c
  BY NextBoundaryType
<1>2. \A t \in DOMAIN ring : t >= b => t >= h
  <2> SUFFICES ASSUME NEW t \in DOMAIN ring, t >= b, ~ (t >= h) PROVE FALSE
    OBVIOUS
  <2>1. t \in Token
    BY RingTokens
  <2>2. t # MaxToken
    BY <1>1, <2>1, MaxTokenAssumption DEF Token
  <2>3. t + 1 \in Boundaries(fromOwners, toOwners)
    BY <2>2 DEF Boundaries
  <2> QED BY <1>1, <2>1, <2>3, MaxTokenAssumption DEF Token
<1>3. \A t \in DOMAIN ring : t >= h => t >= b
  BY <1>1, RingTokens, MaxTokenAssumption DEF Token
<1>4. AtOrAfter(ring, h) = AtOrAfter(ring, b)
  BY <1>2, <1>3 DEF AtOrAfter
<1> QED BY <1>4 DEF FindOwner

\* Ordered, maximal, and all before bound.
Ordered(ranges, bound) ==
  \A i \in DOMAIN ranges :
    /\ ranges[i].from <= ranges[i].end
    /\ ranges[i].end < bound
    /\ i > 1 => ranges[i - 1].end + 1 < ranges[i].from

\* AppendRange adds exactly the new range to what a group covers and keeps
\* the group ordered and maximal.
LEMMA AppendRangeAdds ==
  ASSUME NEW ranges \in Seq(TokenRange), NEW from \in Token, NEW end \in Token,
         from <= end, Ordered(ranges, from)
  PROVE  /\ AppendRange(ranges, from, end) \in Seq(TokenRange)
         /\ Ordered(AppendRange(ranges, from, end), end + 1)
         /\ \A h \in Token : Covers(AppendRange(ranges, from, end), h)
                               <=> Covers(ranges, h) \/ (from <= h /\ h <= end)
<1> DEFINE n == Len(ranges)
           glued == [ranges EXCEPT ![n].end = end]
           added == Append(ranges, [from |-> from, end |-> end])
<1> USE MaxTokenAssumption DEF Token
<1>0. n \in Nat /\ DOMAIN ranges = 1 .. n /\ \A i \in 1 .. n : ranges[i] \in TokenRange
  OBVIOUS
<1>1. CASE ranges # <<>> /\ ranges[n].end # MaxToken /\ ranges[n].end + 1 = from
  <2>1. AppendRange(ranges, from, end) = glued
    BY <1>1 DEF AppendRange
  <2>2. n \in 1 .. n
    BY <1>0, <1>1
  <2>3. /\ glued \in Seq(TokenRange) /\ DOMAIN glued = 1 .. n
        /\ \A i \in 1 .. n : i # n => glued[i] = ranges[i]
        /\ glued[n].from = ranges[n].from /\ glued[n].end = end
    BY <1>0, <2>2 DEF TokenRange
  <2> HIDE DEF glued
  <2>4. Ordered(glued, end + 1)
    <3> SUFFICES ASSUME NEW i \in 1 .. n
                 PROVE  /\ glued[i].from <= glued[i].end
                        /\ glued[i].end < end + 1
                        /\ i > 1 => glued[i - 1].end + 1 < glued[i].from
      BY <2>3 DEF Ordered
    <3>1. /\ ranges[i].from <= ranges[i].end /\ ranges[i].end < from
          /\ i > 1 => ranges[i - 1].end + 1 < ranges[i].from
          /\ ranges[i].from \in Token /\ ranges[i].end \in Token
      BY <1>0, ZenonT(40) DEF Ordered, TokenRange
    <3>2. i > 1 => i - 1 \in 1 .. n /\ i - 1 # n
      BY <1>0
    <3>3. CASE i = n
      BY <1>1, <2>3, <3>1, <3>2, <3>3
    <3>4. CASE i # n
      BY <2>3, <3>1, <3>2, <3>4
    <3> QED BY <3>3, <3>4
  <2>5. ASSUME NEW h \in Token
        PROVE  Covers(glued, h) <=> Covers(ranges, h) \/ (from <= h /\ h <= end)
    <3>1. /\ ranges[n].from \in Token /\ ranges[n].end \in Token
          /\ ranges[n].from <= ranges[n].end
      BY <1>0, <2>2 DEF Ordered, TokenRange
    <3>2. (glued[n].from <= h /\ h <= glued[n].end)
            <=> (ranges[n].from <= h /\ h <= ranges[n].end) \/ (from <= h /\ h <= end)
      BY <1>1, <2>3, <3>1
    <3> QED BY <1>0, <2>2, <2>3, <3>2, ZenonT(40) DEF Covers
  <2> QED BY <2>1, <2>3, <2>4, <2>5
<1>2. CASE ~ (ranges # <<>> /\ ranges[n].end # MaxToken /\ ranges[n].end + 1 = from)
  <2>1. AppendRange(ranges, from, end) = added
    BY <1>2 DEF AppendRange
  <2>2. /\ added \in Seq(TokenRange) /\ DOMAIN added = 1 .. n + 1
        /\ \A i \in 1 .. n : added[i] = ranges[i]
        /\ added[n + 1].from = from /\ added[n + 1].end = end
    BY <1>0 DEF TokenRange
  <2> HIDE DEF added
  <2>3. Ordered(added, end + 1)
    <3> SUFFICES ASSUME NEW i \in 1 .. n + 1
                 PROVE  /\ added[i].from <= added[i].end
                        /\ added[i].end < end + 1
                        /\ i > 1 => added[i - 1].end + 1 < added[i].from
      BY <2>2 DEF Ordered
    <3>1. CASE i \in 1 .. n
      <4>1. /\ ranges[i].from <= ranges[i].end /\ ranges[i].end < from
            /\ i > 1 => ranges[i - 1].end + 1 < ranges[i].from
            /\ ranges[i].from \in Token /\ ranges[i].end \in Token
        BY <1>0, <3>1, ZenonT(40) DEF Ordered, TokenRange
      <4>2. i > 1 => i - 1 \in 1 .. n
        BY <1>0, <3>1
      <4>3. added[i] = ranges[i] /\ (i > 1 => added[i - 1] = ranges[i - 1])
        BY <2>2, <3>1, <4>2
      <4>4. ranges[i].end < end + 1
        BY <4>1
      <4> QED BY <4>1, <4>3, <4>4
    <3>2. CASE i = n + 1
      <4>1. i > 1 => n \in 1 .. n
        BY <1>0, <3>2
      <4>2. i > 1 => ranges[n].end < from /\ ranges[n].end \in Token
        BY <1>0, <4>1 DEF Ordered, TokenRange
      <4>3. i > 1 => ranges[n].end + 1 < from
        <5>1. i > 1 => ranges # <<>>
          BY <1>0, <4>1
        <5> HIDE DEF n
        <5> QED BY <1>2, <4>2, <5>1
      <4>4. i > 1 => added[i - 1] = ranges[n]
        BY <1>0, <2>2, <3>2, <4>1
      <4> QED BY <2>2, <3>2, <4>3, <4>4
    <3> QED BY <1>0, <3>1, <3>2
  <2>4. ASSUME NEW h \in Token
        PROVE  Covers(added, h) <=> Covers(ranges, h) \/ (from <= h /\ h <= end)
    <3>1. \A i \in 1 .. n + 1 : i \in 1 .. n \/ i = n + 1
      BY <1>0
    <3>2. n + 1 \in 1 .. n + 1 /\ 1 .. n \subseteq 1 .. n + 1
      BY <1>0
    <3> QED BY <1>0, <2>2, <3>1, <3>2 DEF Covers
  <2> QED BY <2>1, <2>2, <2>3, <2>4
<1> QED BY <1>1, <1>2

\* The tokens that move from p[1] to p[2].
Moves(p, h) == /\ p[1] # p[2]
               /\ FindOwner(fromOwners, h) = p[1]
               /\ FindOwner(toOwners, h) = p[2]

\* The loop invariant: below the cursor the groups hold exactly the moves, and
\* no range reaches the cursor.
RingInv ==
  /\ RingTypeOK
  /\ \A p \in Address \X Address :
       /\ Ordered(grouped[p], cursor)
       /\ \A h \in Token : h < cursor => (Covers(grouped[p], h) <=> Moves(p, h))

LEMMA RingInitInv == RingInit => RingInv
<1> SUFFICES ASSUME RingInit PROVE RingInv
  OBVIOUS
<1>1. RingTypeOK
  BY MaxTokenAssumption DEF RingInit, RingTypeOK
<1>2. \A p \in Address \X Address : Ordered(grouped[p], cursor)
  BY DEF RingInit, Ordered
<1>3. \A h \in Token : ~ (h < cursor)
  BY MaxTokenAssumption DEF RingInit, Token
<1> QED BY <1>1, <1>2, <1>3 DEF RingInv

LEMMA RangeEnds ==
  ASSUME NEW ranges \in Seq(TokenRange), NEW i \in DOMAIN ranges
  PROVE  ranges[i].end \in Nat
<1>1. ranges[i] \in TokenRange
  OBVIOUS
<1> QED BY <1>1, MaxTokenAssumption DEF TokenRange, Token

\* A range that ends before b also ends before a later c.
LEMMA OrderedLater ==
  ASSUME NEW ranges \in Seq(TokenRange), NEW b \in Nat, NEW c \in Nat, b <= c,
         Ordered(ranges, b)
  PROVE  Ordered(ranges, c)
<1>1. \A i \in DOMAIN ranges : ranges[i].end \in Nat
  BY RangeEnds
<1> QED BY <1>1 DEF Ordered

\* A group covers nothing at or past the cursor.
LEMMA NothingPast ==
  ASSUME NEW ranges \in Seq(TokenRange), NEW b \in Nat, Ordered(ranges, b),
         NEW h \in Token, h >= b
  PROVE  ~ Covers(ranges, h)
<1>1. \A i \in DOMAIN ranges : ranges[i].end \in Nat /\ ranges[i].end < b
  BY RangeEnds DEF Ordered
<1> QED BY <1>1, MaxTokenAssumption DEF Covers, Token

LEMMA DiffSegmentInv == RingInv /\ DiffSegment => RingInv'
<1> SUFFICES ASSUME RingInv, DiffSegment PROVE RingInv'
  OBVIOUS
<1> DEFINE next   == NextBoundary(cursor)
           source == FindOwner(fromOwners, cursor)
           target == FindOwner(toOwners, cursor)
           Pair   == Address \X Address
<1>1. /\ fromOwners \in Ring /\ toOwners \in Ring
      /\ cursor \in Token /\ cursor \in Nat
      /\ grouped \in [Pair -> Seq(TokenRange)]
  BY MaxTokenAssumption DEF RingInv, RingTypeOK, DiffSegment, Token
<1>2. /\ next \in cursor + 1 .. MaxToken + 1
      /\ next - 1 \in Token /\ cursor <= next - 1 /\ next \in Nat
  <2>1. next \in cursor + 1 .. MaxToken + 1
    BY <1>1, NextBoundaryType
  <2> HIDE DEF next
  <2> QED BY <2>1, <1>1, MaxTokenAssumption DEF Token
<1>3. source \in Address /\ target \in Address
  BY <1>1, FindOwnerType
<1>4. ASSUME NEW h \in Token, cursor <= h, h < next
      PROVE  FindOwner(fromOwners, h) = source /\ FindOwner(toOwners, h) = target
  <2>1. h \in cursor .. next - 1
    <3> HIDE DEF next
    <3> QED BY <1>1, <1>2, <1>4, MaxTokenAssumption DEF Token
  <2> QED BY <1>1, <2>1, SegmentOwner
<1>5. /\ fromOwners' = fromOwners /\ toOwners' = toOwners /\ cursor' = next
      /\ grouped' = IF source = target THEN grouped
                    ELSE [grouped EXCEPT ![<<source, target>>] =
                            AppendRange(@, cursor, next - 1)]
  BY DEF DiffSegment
<1>6. \A p \in Pair, h \in Token : Moves(p, h)' <=> Moves(p, h)
  BY <1>5, ZenonT(40) DEF Moves
<1>7. ASSUME NEW p \in Pair
      PROVE  /\ grouped'[p] \in Seq(TokenRange)
             /\ Ordered(grouped'[p], next)
             /\ \A h \in Token : h < next => (Covers(grouped'[p], h) <=> Moves(p, h))
  <2>1. grouped[p] \in Seq(TokenRange) /\ Ordered(grouped[p], cursor)
    BY <1>1 DEF RingInv
  <2>2. \A h \in Token : h < cursor => (Covers(grouped[p], h) <=> Moves(p, h))
    BY DEF RingInv
  <2>3. \A h \in Token : ~ (h < cursor) => ~ Covers(grouped[p], h)
    BY <1>1, <2>1, NothingPast, MaxTokenAssumption DEF Token
  <2>4. CASE source # target /\ p = <<source, target>>
    <3>1. grouped'[p] = AppendRange(grouped[p], cursor, next - 1)
      BY <1>1, <1>5, <2>4, ZenonT(40)
    <3>2. /\ grouped'[p] \in Seq(TokenRange) /\ Ordered(grouped'[p], (next - 1) + 1)
          /\ \A h \in Token : Covers(grouped'[p], h)
                <=> Covers(grouped[p], h) \/ (cursor <= h /\ h <= next - 1)
      <4> HIDE DEF next
      <4> QED BY <1>1, <1>2, <2>1, <3>1, AppendRangeAdds
    <3>3. (next - 1) + 1 = next
      <4> HIDE DEF next
      <4> QED BY <1>2
    <3>4. ASSUME NEW h \in Token, h < next
          PROVE  Covers(grouped'[p], h) <=> Moves(p, h)
      <4>1. CASE h < cursor
        <5>1. ~ (cursor <= h)
          BY <1>1, <4>1, MaxTokenAssumption DEF Token
        <5> QED BY <2>2, <3>2, <4>1, <5>1
      <4>2. CASE ~ (h < cursor)
        <5>1. cursor <= h /\ h <= next - 1
          <6> HIDE DEF next
          <6> QED BY <1>1, <1>2, <3>4, <4>2, MaxTokenAssumption DEF Token
        <5>2. Moves(p, h)
          BY <1>4, <2>4, <3>4, <5>1, ZenonT(40) DEF Moves
        <5> QED BY <3>2, <5>1, <5>2
      <4> QED BY <4>1, <4>2
    <3> QED BY <3>2, <3>3, <3>4
  <2>5. CASE ~ (source # target /\ p = <<source, target>>)
    <3>1. grouped'[p] = grouped[p]
      BY <1>1, <1>3, <1>5, <2>5
    <3>2. Ordered(grouped[p], next)
      <4> HIDE DEF next
      <4> QED BY <1>1, <1>2, <2>1, OrderedLater
    <3>3. ASSUME NEW h \in Token, h < next
          PROVE  Covers(grouped[p], h) <=> Moves(p, h)
      <4>1. CASE h < cursor
        BY <2>2, <4>1
      <4>2. CASE ~ (h < cursor)
        <5>1. cursor <= h
          BY <1>1, <4>2, MaxTokenAssumption DEF Token
        <5>2. ~ Moves(p, h)
          <6> SUFFICES ASSUME Moves(p, h) PROVE FALSE
            OBVIOUS
          <6>1. p[1] = source /\ p[2] = target /\ p[1] # p[2]
            BY <1>4, <3>3, <5>1 DEF Moves
          <6>2. p = <<p[1], p[2]>>
            OBVIOUS
          <6> QED BY <2>5, <6>1, <6>2
        <5> QED BY <2>3, <4>2, <5>2
      <4> QED BY <4>1, <4>2
    <3> QED BY <2>1, <3>1, <3>2, <3>3
  <2> QED BY <2>4, <2>5
<1>8. RingTypeOK'
  <2>1. DOMAIN grouped' = Pair /\ grouped' = [p \in Pair |-> grouped'[p]]
    BY <1>1, <1>5, ZenonT(40)
  <2>2. grouped' \in [Pair -> Seq(TokenRange)]
    BY <1>7, <2>1
  <2>3. cursor' \in 0 .. MaxToken + 1
    <3> HIDE DEF next
    <3> QED BY <1>2, <1>5
  <2> QED BY <1>1, <1>5, <2>2, <2>3 DEF RingTypeOK
<1> QED BY <1>5, <1>6, <1>7, <1>8, ZenonT(40) DEF RingInv

\* The loop of DiffOwners preserves the invariant.
LEMMA RingInvariant == RingSpec => []RingInv
<1>1. RingInv /\ [RingNext]_ringVars => RingInv'
  <2> SUFFICES ASSUME RingInv, [RingNext]_ringVars PROVE RingInv'
    OBVIOUS
  <2>1. CASE DiffSegment
    BY <2>1, DiffSegmentInv
  <2>2. CASE UNCHANGED ringVars
    BY <2>2 DEF ringVars, RingInv, RingTypeOK, Moves
  <2> QED BY <2>1, <2>2 DEF RingNext
<1> QED BY <1>1, RingInitInv, PTL DEF RingSpec

\* DiffOwners, for every number of tokens and members: the plan moves exactly
\* the tokens that change owner, each to its new owner.
THEOREM PlanIsExact == RingSpec => []PlanMovesExactly
<1>1. RingInv => PlanMovesExactly
  <2>1. RingInv /\ RingDone => \A h \in Token : h < cursor
    BY MaxTokenAssumption DEF RingDone, Token
  <2> QED BY <2>1 DEF RingInv, PlanMovesExactly, Moves
<1> QED BY <1>1, RingInvariant, PTL

\* AppendRange, at every iteration of the loop and for every pair of owners: the
\* ranges are in order and not empty, and no two of them are adjacent.
THEOREM RangesAreMaximal == RingSpec => []RangesMaximal
<1>1. RingInv => RangesMaximal
  BY DEF RingInv, Ordered, RangesMaximal
<1> QED BY <1>1, RingInvariant, PTL
=============================================================================
