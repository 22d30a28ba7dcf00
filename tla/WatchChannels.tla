----------------------------- MODULE WatchChannels -----------------------------
(***************************************************************************)
(* The watch dispatcher and registry under every use of their interface:   *)
(* mutation callbacks that arrive in any order, registrations, snapshots   *)
(* and cancellations at any time, receivers that answer anything.          *)
(***************************************************************************)
EXTENDS WatchDispatcher

CONSTANTS EventKey,     \* the keys that change
          Addr,         \* the watchers' addresses
          Scope,        \* the key sets they watch
          MaxCommitted  \* bound: the last revision

ASSUME WatchChannelsAssumption == MaxCommitted \in Nat

VARIABLE enqueued  \* history: the revisions whose callbacks have run

channelsVars == <<registryVars, dispatcherVars, enqueued>>

WatchEvent == [type : {"PUT", "DELETE"}, key : EventKey, revision : Nat,
               modRevision : Nat]

ChannelsInit == /\ RegistryInit
                /\ DispatcherInit
                /\ enqueued = {}

\* The callback of the mutation with revision rev.
EnqueueNew(k, rev) ==
  /\ rev \notin enqueued
  /\ enqueued' = enqueued \cup {rev}
  /\ Enqueue([type |-> "PUT", key |-> k, revision |-> rev, modRevision |-> rev])
  /\ UNCHANGED registryVars

\* WatchRange up to the snapshot: a new watch gets its channel.
AddWatch(addr, scope) ==
  /\ nextWatchId \in WatchId
  /\ Register(addr, nextWatchId, scope)
  /\ AddChannel(nextWatchId)
  /\ UNCHANGED enqueued

\* WatchRange read the store when its revision was rev.
SetSnapshot(c, rev) ==
  /\ SetSnapshotRevision(c, rev)
  /\ UNCHANGED <<registryVars, enqueued>>

\* CancelWatch, or the removal of an address's channels.
RemoveWatch(ids) ==
  /\ Unregister(ids)
  /\ RemoveChannels(ids)
  /\ UNCHANGED <<pendingQueue, pendingOverflow, fanOut, worker, enqueued>>

FanOutStep == (FanOutTake \/ FanOutOverflow \/ FanOutEvent) /\ UNCHANGED enqueued

DispatchStep(t) ==
  /\ \/ \E c \in WatchId : PrepareChannelEvents(t, c)
     \/ NotifyCancelled(t)
     \/ NotifyOk(t)
     \/ NotifyRemoves(t)
     \/ NotifyRetryLater(t)
  /\ UNCHANGED enqueued

RetryStep == \E c \in WatchId : RetryDue(c) /\ UNCHANGED enqueued

ChannelsNext ==
  \/ \E k \in EventKey, rev \in 1..MaxCommitted : EnqueueNew(k, rev)
  \/ \E addr \in Addr, scope \in Scope : AddWatch(addr, scope)
  \/ \E c \in channels, rev \in 1..MaxCommitted : SetSnapshot(c, rev)
  \/ \E c \in channels : RemoveWatch({c})
  \/ FanOutStep
  \/ \E t \in Worker : DispatchStep(t)
  \/ RetryStep

ChannelsSpec == ChannelsInit /\ [][ChannelsNext]_channelsVars
-----------------------------------------------------------------------------
QueuedEvent == [type : {"PUT", "DELETE", "REWATCH"}, key : EventKey \cup {""},
                revision : Nat, modRevision : Nat]

\* Types of the registry, the channels and the workers' batches.
ChannelsTypeOK ==
  /\ nextWatchId \in Nat \ {0}
  /\ DOMAIN watchers \subseteq WatchId
  /\ watchers \in [DOMAIN watchers ->
                     [addr : Addr, registrationId : Nat, scope : Scope]]
  /\ pendingQueue \in Seq(WatchEvent)
  /\ pendingOverflow \in BOOLEAN
  /\ fanOut \in [at : {"take", "overflow", "events"}, batch : Seq(WatchEvent)]
  /\ channels \subseteq WatchId
  /\ queue \in [WatchId -> Seq(QueuedEvent)]
  /\ snapshotRevision \in [WatchId -> Nat]
  /\ needReWatch \subseteq WatchId
  /\ dispatchQueued \subseteq WatchId
  /\ ready \in [WatchId -> Nat]
  /\ retry \in [WatchId -> Nat]
  /\ worker \in [Worker -> [channel : WatchId \cup {0},
                            events : Seq(QueuedEvent), rewatch : BOOLEAN]]

Holds(t, c) == worker[t].channel = c

\* A live channel is in the hands of at most one dispatcher at a time: it is in
\* the ready list, in the retry list or being sent, never in two of them and
\* never twice, and exactly when its dispatchQueued flag is set.  So two workers
\* never send for the same watch at once, although the flag is set and cleared
\* by the fan-out thread, the registration and the workers under the channel's
\* mutex only, while the lists have mutexes of their own.
OneDispatcher ==
  \A c \in channels :
    /\ ready[c] + retry[c] <= 1
    /\ \A t \in Worker : Holds(t, c) => ready[c] + retry[c] = 0
    /\ \A t, u \in Worker : Holds(t, c) /\ Holds(u, c) => t = u
    /\ c \in dispatchQueued
         <=> ready[c] + retry[c] = 1 \/ \E t \in Worker : Holds(t, c)

\* No wake-up is lost: a live channel that has something it may send is on its
\* way to a worker, although a worker clears the flag when it finds nothing to
\* send while the fan-out thread and SetSnapshotRevision add work.
NoLostWakeup ==
  \A c \in channels :
    queue[c] # <<>> /\ (c \in needReWatch \/ snapshotRevision[c] > 0)
      => c \in dispatchQueued

\* The batch in flight is what the channel's queue still begins with, until a
\* reset replaces the queue.  A failed send therefore sends the same events
\* again, and a successful one removes what was sent.
BatchIsPrefix ==
  \A t \in Worker : LET c == worker[t].channel IN
    c \in channels /\ c \notin needReWatch =>
      /\ Len(worker[t].events) <= Len(queue[c])
      /\ \A i \in 1..Len(worker[t].events) : worker[t].events[i] = queue[c][i]

\* Memory is bounded whatever receivers do: a slow watcher costs at most its
\* backpressure limit, and slow fan-out at most the pending limit.
QueuesBounded ==
  /\ Len(pendingQueue) <= MaxPendingEvents
  /\ Len(fanOut.batch) <= MaxFanOut
  /\ \A c \in channels : Len(queue[c]) <= BackpressureLimit
  /\ \A t \in Worker : Len(worker[t].events) <= BatchLimit
=============================================================================
