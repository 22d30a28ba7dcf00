---------------------------- MODULE WatchDispatcher ----------------------------
(***************************************************************************)
(* WatchDispatcher: committed mutations enter one pending queue; a fan-out *)
(* thread moves them to the queues of the matching watch channels; worker  *)
(* bthreads take channels that are ready, send a batch without holding the *)
(* channel's mutex, and commit it when the receiver has answered.          *)
(*                                                                         *)
(* A channel that has been cancelled is inert in the code (every access    *)
(* tests "cancelled" first), so it is simply absent from channels here,    *)
(* and so are its entries in the ready and retry lists.  Watch ids are     *)
(* never reused.  The ready and retry lists are counts per channel: the    *)
(* order between channels does not matter, but a channel listed twice      *)
(* would.                                                                  *)
(***************************************************************************)
EXTENDS WatchRegistry, Sequences, FiniteSets

CONSTANTS WatchId,            \* the ids Register may hand out
          Worker,             \* dispatch bthreads
          MaxPendingEvents,   \* MAX_PENDING_EVENTS
          MaxFanOut,          \* MAX_WATCH_EVENTS_PER_FAN_OUT
          BackpressureLimit,  \* WatcherChannel::backpressureLimit
          BatchLimit          \* MAX_WATCH_EVENTS_PER_BATCH

ASSUME DispatcherAssumption ==
  /\ WatchId \subseteq Nat \ {0}
  /\ MaxPendingEvents \in Nat \ {0}
  /\ MaxFanOut \in Nat \ {0}
  /\ BackpressureLimit \in Nat \ {0}
  /\ BatchLimit \in Nat \ {0}

VARIABLES pendingQueue,      \* pendingQueue_
          pendingOverflow,   \* pendingOverflow_
          fanOut,            \* the fan-out thread: its step and its batch
          channels,          \* ids of the channels in channels_
          queue,             \* WatcherChannel::queue
          snapshotRevision,  \* WatcherChannel::snapshotRevision
          needReWatch,       \* channels whose needReWatch is set
          dispatchQueued,    \* channels whose dispatchQueued is set
          ready,             \* how often a channel is in readyChannels
          retry,             \* how often a channel is in retryChannels
          worker             \* what each dispatch bthread is sending

channelVars == <<channels, queue, snapshotRevision, needReWatch, dispatchQueued,
                 ready, retry>>
dispatcherVars == <<pendingQueue, pendingOverflow, fanOut, worker, channelVars>>

\* A REWATCH made for an overflow of the pending queue has revision 0.
Rewatch(rev) == [type |-> "REWATCH", key |-> "", revision |-> rev,
                 modRevision |-> 0]

Idle == [channel |-> 0, events |-> <<>>, rewatch |-> FALSE]

DispatcherInit ==
  /\ pendingQueue = <<>>
  /\ pendingOverflow = FALSE
  /\ fanOut = [at |-> "take", batch |-> <<>>]
  /\ channels = {}
  /\ queue = [c \in WatchId |-> <<>>]
  /\ snapshotRevision = [c \in WatchId |-> 0]
  /\ needReWatch = {}
  /\ dispatchQueued = {}
  /\ ready = [c \in WatchId |-> 0]
  /\ retry = [c \in WatchId |-> 0]
  /\ worker = [t \in Worker |-> Idle]

Lesser(m, n) == IF m <= n THEN m ELSE n

\* A queue without its longest prefix of events with revision at most rev.
DropThrough(events, rev) ==
  LET later == {i \in 1..Len(events) : events[i].revision > rev}
  IN IF later = {} THEN <<>>
     ELSE SubSeq(events, CHOOSE i \in later : \A j \in later : i <= j,
                 Len(events))

MaxRevisionOf(events) ==
  CHOOSE r \in {events[i].revision : i \in DOMAIN events} :
    \A i \in DOMAIN events : events[i].revision <= r

\* Enqueue: the callback of a committed mutation, under pendingMutex_.
Enqueue(event) ==
  /\ IF Len(pendingQueue) >= MaxPendingEvents
     THEN /\ pendingOverflow' = TRUE
          /\ UNCHANGED pendingQueue
     ELSE /\ pendingQueue' = Append(pendingQueue, event)
          /\ UNCHANGED pendingOverflow
  /\ UNCHANGED <<fanOut, worker, channelVars>>

AddChannel(c) ==
  /\ channels' = channels \cup {c}
  /\ UNCHANGED <<pendingQueue, pendingOverflow, fanOut, worker, queue,
                 snapshotRevision, needReWatch, dispatchQueued, ready, retry>>

\* CancelChannel and the erasure from channels_, for the channels in ids.
RemoveChannels(ids) ==
  /\ channels' = channels \ ids
  /\ queue' = [c \in WatchId |-> IF c \in ids THEN <<>> ELSE queue[c]]
  /\ dispatchQueued' = dispatchQueued \ ids
  /\ ready' = [c \in WatchId |-> IF c \in ids THEN 0 ELSE ready[c]]
  /\ retry' = [c \in WatchId |-> IF c \in ids THEN 0 ELSE retry[c]]
  /\ UNCHANGED <<snapshotRevision, needReWatch>>

\* Mutant: ScheduleChannelLocked without its test of dispatchQueued.
ScheduleChannelsAgain(ids) ==
  /\ dispatchQueued' = dispatchQueued \cup ids
  /\ ready' = [c \in WatchId |-> IF c \in ids THEN ready[c] + 1 ELSE ready[c]]

\* ScheduleChannelLocked for the channels in ids.
ScheduleChannels(ids) ==
  /\ dispatchQueued' = dispatchQueued \cup ids
  /\ ready' = [c \in WatchId |-> IF c \in ids \ dispatchQueued
                                 THEN ready[c] + 1 ELSE ready[c]]

\* Mutant: events that arrived before the snapshot are not scheduled with it.
SetSnapshotRevisionOnly(c, rev) ==
  /\ snapshotRevision' = IF c \in channels
                         THEN [snapshotRevision EXCEPT ![c] = rev]
                         ELSE snapshotRevision
  /\ UNCHANGED <<pendingQueue, pendingOverflow, fanOut, worker, channels, queue,
                 needReWatch, dispatchQueued, ready, retry>>

SetSnapshotRevision(c, rev) ==
  /\ IF c \in channels
     THEN /\ snapshotRevision' = [snapshotRevision EXCEPT ![c] = rev]
          /\ ScheduleChannels(IF queue[c] # <<>> THEN {c} ELSE {})
     ELSE UNCHANGED <<snapshotRevision, dispatchQueued, ready>>
  /\ UNCHANGED <<pendingQueue, pendingOverflow, fanOut, worker, channels, queue,
                 needReWatch, retry>>
-----------------------------------------------------------------------------
(* FanOutLoop *)

\* The batch leaves the pending queue.  An idle wait that times out takes an
\* empty batch, which matters only when events have been dropped.
FanOutTake ==
  LET n == Lesser(MaxFanOut, Len(pendingQueue))
  IN /\ fanOut.at = "take"
     /\ pendingQueue # <<>> \/ pendingOverflow
     /\ fanOut' = [at |-> "overflow", batch |-> SubSeq(pendingQueue, 1, n)]
     /\ pendingQueue' = SubSeq(pendingQueue, n + 1, Len(pendingQueue))
     /\ UNCHANGED <<pendingOverflow, worker, channelVars, registryVars>>

\* Mutant: the queues are reset and needReWatch is not set.
RewatchUnflagged ==
  LET ids == channels \ needReWatch
  IN /\ queue' = [c \in WatchId |-> IF c \in ids THEN <<Rewatch(0)>>
                                    ELSE queue[c]]
     /\ ScheduleChannels(ids)
     /\ UNCHANGED <<channels, snapshotRevision, needReWatch, retry>>

\* ScheduleAllChannelsForRewatch: dropped events reset every live channel.
RewatchAll ==
  LET ids == channels \ needReWatch
  IN /\ queue' = [c \in WatchId |-> IF c \in ids THEN <<Rewatch(0)>>
                                    ELSE queue[c]]
     /\ needReWatch' = needReWatch \cup ids
     /\ ScheduleChannels(ids)
     /\ UNCHANGED <<channels, snapshotRevision, retry>>

FanOutOverflow ==
  /\ fanOut.at = "overflow"
  /\ fanOut' = [fanOut EXCEPT !.at = IF fanOut.batch = <<>> THEN "take"
                                     ELSE "events"]
  /\ pendingOverflow' = FALSE
  /\ IF pendingOverflow THEN RewatchAll ELSE UNCHANGED channelVars
  /\ UNCHANGED <<pendingQueue, worker, registryVars>>

\* Mutant: the backpressure limit is off by one.
IsPastFull(c) == Len(queue[c]) > BackpressureLimit

IsFull(c) == Len(queue[c]) >= BackpressureLimit

\* Mutant: the REWATCH of a full channel carries no revision.
RewatchWithout(event) == Rewatch(0)

RewatchFor(event) == Rewatch(event.revision)

\* One event of the batch goes to every matching channel; a channel at its
\* backpressure limit loses its queue to a single REWATCH.
FanOutEvent ==
  LET event   == Head(fanOut.batch)
      matched == (MatchWatchers(event.key) \cap channels) \ needReWatch
      full    == {c \in matched : IsFull(c)}
      rest    == Tail(fanOut.batch)
  IN /\ fanOut.at = "events"
     /\ fanOut' = [at |-> IF rest = <<>> THEN "take" ELSE "events",
                   batch |-> rest]
     /\ queue' = [c \in WatchId |->
                    IF c \in full THEN <<RewatchFor(event)>>
                    ELSE IF c \in matched THEN Append(queue[c], event)
                    ELSE queue[c]]
     /\ needReWatch' = needReWatch \cup full
     /\ ScheduleChannels(matched)
     /\ UNCHANGED <<pendingQueue, pendingOverflow, worker, channels,
                    snapshotRevision, retry, registryVars>>
-----------------------------------------------------------------------------
(* DispatchLoop *)

\* Mutant: a channel that is in no retry list is moved as well.
RetryAny(c) ==
  /\ retry' = [retry EXCEPT ![c] = @ - 1]
  /\ ready' = [ready EXCEPT ![c] = @ + 1]
  /\ UNCHANGED <<pendingQueue, pendingOverflow, fanOut, worker, channels, queue,
                 snapshotRevision, needReWatch, dispatchQueued, registryVars>>

\* WaitForReadyChannel moves a retry that is due to the ready list.
RetryDue(c) ==
  /\ retry[c] > 0
  /\ retry' = [retry EXCEPT ![c] = @ - 1]
  /\ ready' = [ready EXCEPT ![c] = @ + 1]
  /\ UNCHANGED <<pendingQueue, pendingOverflow, fanOut, worker, channels, queue,
                 snapshotRevision, needReWatch, dispatchQueued, registryVars>>

\* WaitForReadyChannel and PrepareChannelEvents: a worker takes a ready
\* channel and either has nothing to send, and clears dispatchQueued, or
\* keeps the channel while it sends a batch.  The merge threshold in bytes
\* may end a batch at any event.
PrepareChannelEvents(t, c) ==
  LET left == DropThrough(queue[c], snapshotRevision[c])
  IN /\ worker[t] = Idle
     /\ ready[c] > 0
     /\ ready' = [ready EXCEPT ![c] = @ - 1]
     /\ \/ /\ queue[c] # <<>>
           /\ c \in needReWatch
           /\ worker' = [worker EXCEPT ![t] =
                           [channel |-> c, events |-> <<Head(queue[c])>>,
                            rewatch |-> TRUE]]
           /\ UNCHANGED <<queue, dispatchQueued>>
        \/ /\ c \notin needReWatch
           /\ snapshotRevision[c] > 0
           /\ left # <<>>
           /\ \E n \in 1..Lesser(BatchLimit, Len(left)) :
                worker' = [worker EXCEPT ![t] =
                             [channel |-> c, events |-> SubSeq(left, 1, n),
                              rewatch |-> FALSE]]
           /\ queue' = [queue EXCEPT ![c] = left]
           /\ UNCHANGED dispatchQueued
        \/ /\ \/ queue[c] = <<>>
              \/ c \notin needReWatch /\ snapshotRevision[c] <= 0
              \/ c \notin needReWatch /\ left = <<>>
           /\ dispatchQueued' = dispatchQueued \ {c}
           /\ queue' = IF c \notin needReWatch /\ snapshotRevision[c] > 0
                       THEN [queue EXCEPT ![c] = left] ELSE queue
           /\ UNCHANGED worker
     /\ UNCHANGED <<pendingQueue, pendingOverflow, fanOut, channels,
                    snapshotRevision, needReWatch, retry, registryVars>>

Sending(t) == worker[t].channel # 0

\* The channel was cancelled while its batch was being sent.
NotifyCancelled(t) ==
  /\ Sending(t)
  /\ worker[t].channel \notin channels
  /\ worker' = [worker EXCEPT ![t] = Idle]
  /\ UNCHANGED <<pendingQueue, pendingOverflow, fanOut, channelVars,
                 registryVars>>

\* DoNotify succeeded: commit every queued event up to the batch's revision.
NotifyOk(t) ==
  LET c    == worker[t].channel
      left == DropThrough(queue[c], MaxRevisionOf(worker[t].events))
  IN /\ Sending(t)
     /\ c \in channels
     /\ ~worker[t].rewatch
     /\ worker' = [worker EXCEPT ![t] = Idle]
     /\ queue' = [queue EXCEPT ![c] = left]
     /\ IF left = <<>>
        THEN dispatchQueued' = dispatchQueued \ {c} /\ UNCHANGED ready
        ELSE ready' = [ready EXCEPT ![c] = @ + 1] /\ UNCHANGED dispatchQueued
     /\ UNCHANGED <<pendingQueue, pendingOverflow, fanOut, channels,
                    snapshotRevision, needReWatch, retry, registryVars>>

\* RemoveRewatchRequiredWatcher: the receiver knows no such watch, or has
\* been told to build a new one.
NotifyRemoves(t) ==
  /\ Sending(t)
  /\ worker[t].channel \in channels
  /\ worker' = [worker EXCEPT ![t] = Idle]
  /\ Unregister({worker[t].channel})
  /\ RemoveChannels({worker[t].channel})
  /\ UNCHANGED <<pendingQueue, pendingOverflow, fanOut>>

\* Any other error keeps the batch queued and retries after a delay.
NotifyRetryLater(t) ==
  /\ Sending(t)
  /\ worker[t].channel \in channels
  /\ worker' = [worker EXCEPT ![t] = Idle]
  /\ retry' = [retry EXCEPT ![worker[t].channel] = @ + 1]
  /\ UNCHANGED <<pendingQueue, pendingOverflow, fanOut, channels, queue,
                 snapshotRevision, needReWatch, dispatchQueued, ready,
                 registryVars>>
=============================================================================
