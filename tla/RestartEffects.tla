---------------------------- MODULE RestartEffects ----------------------------
(***************************************************************************)
(* Restart facts on one worker: the notify tells which members restarted   *)
(* and when, the executor runs one batch of restart effects at a time in   *)
(* its callback pool and remembers the timestamps it has dealt with.       *)
(***************************************************************************)
EXTENDS Integers

CONSTANTS
  Peer,        \* the members that restart
  MaxTime,     \* bound: restarts of one member
  MaxFaults    \* bound: failing batches and enqueues

VARIABLES
  facts,       \* the facts of the own notify: peer |-> timestamp, 0 for none
  newest,      \* peer |-> its latest restart
  completed,   \* completedRestartTimestampsByAddress_
  batch,       \* the batch in flight: peer |-> timestamp, 0 for none
  applied,     \* the <<peer, timestamp>> whose effects succeeded
  faults

rvars == <<facts, newest, completed, batch, applied, faults>>

Nothing == [p \in Peer |-> 0]

RestartInit ==
  facts = Nothing /\ newest = Nothing /\ completed = Nothing /\ batch = Nothing
  /\ applied = {} /\ faults = 0

\* The controller adds the fact of a restart, and drops it when it is settled.
PublishFact(p) ==
  /\ newest[p] < MaxTime
  /\ newest' = [newest EXCEPT ![p] = @ + 1]
  /\ facts' = [facts EXCEPT ![p] = newest[p] + 1]
  /\ UNCHANGED <<completed, batch, applied, faults>>

DropFact(p) ==
  /\ facts[p] # 0
  /\ facts' = [facts EXCEPT ![p] = 0]
  /\ UNCHANGED <<newest, completed, batch, applied, faults>>

\* Mutant: a member is dealt with once, whatever its timestamp.
PendingOnce(p) == IF completed[p] # 0 THEN 0 ELSE facts[p]

\* The timestamp to deal with, or 0.
Pending(p) == IF completed[p] = facts[p] THEN 0 ELSE facts[p]

\* Facts that are gone are forgotten; what is left and not completed at its
\* timestamp becomes the batch, unless one is in flight or cannot be enqueued.
HandleRestartFacts ==
  /\ completed' = [p \in Peer |-> IF facts[p] = 0 THEN 0 ELSE completed[p]]
  /\ \/ /\ batch = Nothing
        /\ batch' = [p \in Peer |-> Pending(p)]
        /\ UNCHANGED faults
     \/ batch # Nothing /\ UNCHANGED <<batch, faults>>
     \/ /\ batch = Nothing /\ faults < MaxFaults
        /\ faults' = faults + 1 /\ UNCHANGED batch
  /\ UNCHANGED <<facts, newest, applied>>

\* Mutant: what the notify says by now is taken as done.
RecordNewest(b) == [p \in Peer |-> IF b[p] # 0 THEN newest[p] ELSE completed[p]]

\* A batch that succeeded is remembered at the timestamps it was started with.
Record(b) == [p \in Peer |-> IF b[p] # 0 THEN b[p] ELSE completed[p]]

FinishRestartEffects ==
  /\ batch # Nothing
  /\ batch' = Nothing
  /\ \/ /\ applied' = applied \cup {<<p, batch[p]>> : p \in {q \in Peer : batch[q] # 0}}
        /\ completed' = Record(batch)
        /\ UNCHANGED faults
     \/ /\ faults < MaxFaults /\ faults' = faults + 1
        /\ UNCHANGED <<applied, completed>>
  /\ UNCHANGED <<facts, newest>>

RestartNext ==
  \/ \E p \in Peer : PublishFact(p) \/ DropFact(p)
  \/ HandleRestartFacts
  \/ FinishRestartEffects

\* The own notify is read again periodically, and the pool runs what it accepted.
RestartSpec ==
  RestartInit /\ [][RestartNext]_rvars /\ WF_rvars(HandleRestartFacts) /\ WF_rvars(FinishRestartEffects)

\* A timestamp counts as dealt with only after the effects of that restart ran,
\* although facts change and disappear while a batch is running.
CompletedWereApplied == \A p \in Peer : completed[p] # 0 => <<p, completed[p]>> \in applied

\* A restart fact that the notify keeps has its effects in the end, whatever
\* batch fails and however the facts of other members come and go.
RestartsHandled ==
  \A p \in Peer : \A t \in 1 .. MaxTime : facts[p] = t ~> facts[p] # t \/ <<p, t>> \in applied

=============================================================================
