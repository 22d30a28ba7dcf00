-------------------------- MODULE WatchChannelsProofs --------------------------
(***************************************************************************)
(* Proofs about the watch dispatcher, for any number of watches, workers,  *)
(* events and revisions and for any limits.                                *)
(***************************************************************************)
EXTENDS WatchChannels, TLAPS, WellFoundedInduction

\* A leaf is tried with SMT, then with Zenon, then with SMT for longer.
USE SMTT(30), ZenonT(40), SMTT(60)

\* Watch ids are handed out once: what is in use is below the next one.
IdsAreFresh ==
  /\ \A w \in DOMAIN watchers : w < nextWatchId
  /\ \A c \in channels : c < nextWatchId
  /\ \A t \in Worker : worker[t].channel < nextWatchId

\* A channel that is not in channels_ has left the lists and its queue is gone.
GoneAreInert ==
  \A c \in WatchId \ channels :
    ready[c] = 0 /\ retry[c] = 0 /\ queue[c] = <<>> /\ c \notin dispatchQueued

\* The fan-out thread distributes only while it has events.
FanOutHasEvents == fanOut.at = "events" => fanOut.batch # <<>>

\* ChannelsTypeOK in four parts.
RegistryTypes ==
  /\ nextWatchId \in Nat \ {0}
  /\ DOMAIN watchers \subseteq WatchId
  /\ watchers \in [DOMAIN watchers ->
                     [addr : Addr, registrationId : Nat, scope : Scope]]

FanOutTypes ==
  /\ pendingQueue \in Seq(WatchEvent)
  /\ pendingOverflow \in BOOLEAN
  /\ fanOut \in [at : {"take", "overflow", "events"}, batch : Seq(WatchEvent)]

ChannelTypes ==
  /\ channels \subseteq WatchId
  /\ queue \in [WatchId -> Seq(QueuedEvent)]
  /\ snapshotRevision \in [WatchId -> Nat]
  /\ needReWatch \subseteq WatchId
  /\ dispatchQueued \subseteq WatchId
  /\ ready \in [WatchId -> Nat]
  /\ retry \in [WatchId -> Nat]

Sends == [channel : WatchId \cup {0}, events : Seq(QueuedEvent), rewatch : BOOLEAN]

LEMMA TypeParts ==
  ChannelsTypeOK <=>
    RegistryTypes /\ FanOutTypes /\ ChannelTypes /\ worker \in [Worker -> Sends]
BY DEF ChannelsTypeOK, RegistryTypes, FanOutTypes, ChannelTypes, Sends

ChannelsInv ==
  /\ RegistryTypes /\ FanOutTypes /\ ChannelTypes /\ worker \in [Worker -> Sends]
  /\ IdsAreFresh
  /\ GoneAreInert
  /\ FanOutHasEvents
  /\ OneDispatcher
  /\ NoLostWakeup
  /\ BatchIsPrefix
  /\ QueuesBounded
-----------------------------------------------------------------------------
(* The operators on queues. *)

LEMMA LeastIndex ==
  ASSUME NEW I \in SUBSET Nat, I # {}
  PROVE  \E i \in I : \A j \in I : i <= j
<1>1. PICK x \in I : \A y \in I : ~ (<<y, x>> \in OpToRel(<, Nat))
  BY NatLessThanWellFounded, WFMin, ZenonT(40)
<1>2. \A y \in I : ~ (y < x)
  BY <1>1, ZenonT(40) DEF OpToRel
<1> QED BY <1>2, SMT

\* DropThrough leaves a suffix.
LEMMA DropThroughSuffix ==
  ASSUME NEW S, NEW events \in Seq(S), NEW rev
  PROVE  /\ DropThrough(events, rev) \in Seq(S)
         /\ Len(DropThrough(events, rev)) <= Len(events)
         /\ events = <<>> => DropThrough(events, rev) = <<>>
<1> DEFINE later == {i \in 1..Len(events) : events[i].revision > rev}
           first == CHOOSE i \in later : \A j \in later : i <= j
<1>1. CASE later = {}
  BY <1>1 DEF DropThrough
<1>2. CASE later # {}
  <2>1. \E i \in later : \A j \in later : i <= j
    <3>1. later \in SUBSET Nat
      OBVIOUS
    <3> HIDE DEF later
    <3> QED BY <1>2, <3>1, LeastIndex
  <2>2. first \in later
    BY <2>1
  <2>3. first \in 1..Len(events)
    BY <2>2
  <2>4. DropThrough(events, rev) = SubSeq(events, first, Len(events))
    BY <1>2, ZenonT(40) DEF DropThrough
  <2> HIDE DEF first
  <2> QED BY <2>3, <2>4
<1> QED BY <1>1, <1>2

\* The two ends of a cut sequence.
LEMMA CutTypes ==
  ASSUME NEW S, NEW s \in Seq(S), NEW n \in 0..Len(s)
  PROVE  /\ SubSeq(s, 1, n) \in Seq(S) /\ Len(SubSeq(s, 1, n)) = n
         /\ \A i \in 1..n : SubSeq(s, 1, n)[i] = s[i]
         /\ SubSeq(s, n + 1, Len(s)) \in Seq(S)
         /\ Len(SubSeq(s, n + 1, Len(s))) = Len(s) - n
  OBVIOUS

\* The batch of a channel that asks for a re-watch is the front of its queue.
LEMMA FirstAlone ==
  ASSUME NEW S, NEW s \in Seq(S), s # <<>>
  PROVE  <<Head(s)>> \in Seq(S) /\ Len(<<Head(s)>>) = 1
OBVIOUS

LEMMA IdsAreNumbers == \A c \in WatchId \cup {0} : c \in Nat
BY DispatcherAssumption

LEMMA EventTypes ==
  /\ WatchEvent \subseteq QueuedEvent
  /\ \A event \in WatchEvent : RewatchFor(event) \in QueuedEvent
  /\ Rewatch(0) \in QueuedEvent
BY ZenonT(40) DEF WatchEvent, QueuedEvent, RewatchFor, Rewatch
-----------------------------------------------------------------------------
LEMMA ChannelsInitInv == ChannelsInit => ChannelsInv
<1> SUFFICES ASSUME ChannelsInit PROVE ChannelsInv
  OBVIOUS
<1> USE DispatcherAssumption DEF ChannelsInit, RegistryInit, DispatcherInit, Idle
<1>1. RegistryTypes
  <2>1. DOMAIN watchers = {}
    OBVIOUS
  <2> QED BY <2>1 DEF RegistryTypes
<1>5. FanOutTypes /\ ChannelTypes
  <2>1. <<>> \in Seq(WatchEvent) /\ <<>> \in Seq(QueuedEvent)
    OBVIOUS
  <2>2. FanOutTypes
    BY <2>1, ZenonT(40) DEF FanOutTypes
  <2>3. ChannelTypes
    BY <2>1 DEF ChannelTypes
  <2> QED BY <2>2, <2>3
<1>6. Idle \in Sends
  BY DEF Sends
<1>7. worker \in [Worker -> Sends]
  BY <1>6
<1>2. IdsAreFresh /\ GoneAreInert /\ FanOutHasEvents
  BY DEF IdsAreFresh, GoneAreInert, FanOutHasEvents
<1>3. OneDispatcher /\ NoLostWakeup /\ BatchIsPrefix
  BY DEF OneDispatcher, NoLostWakeup, BatchIsPrefix
<1>4. QueuesBounded
  BY DEF QueuesBounded
<1> QED BY <1>1, <1>2, <1>3, <1>4, <1>5, <1>7 DEF ChannelsInv

LEMMA EnqueueInv ==
  ASSUME ChannelsInv, NEW event \in WatchEvent, Enqueue(event), UNCHANGED registryVars
  PROVE  ChannelsInv'
<1> USE DEF ChannelsInv, Enqueue, channelVars, registryVars
<1>1. RegistryTypes' /\ ChannelTypes' /\ worker' \in [Worker -> Sends]
  BY DEF RegistryTypes, ChannelTypes
<1>6. FanOutTypes'
  <2>1. pendingQueue' = pendingQueue \/ pendingQueue' = Append(pendingQueue, event)
    OBVIOUS
  <2>3. pendingQueue' \in Seq(WatchEvent)
    <3>1. pendingQueue \in Seq(WatchEvent)
      BY ZenonT(40) DEF FanOutTypes
    <3> HIDE DEF ChannelsInv, Enqueue
    <3> QED BY <2>1, <3>1
  <2>2. pendingOverflow' \in BOOLEAN
    BY ZenonT(40) DEF FanOutTypes
  <2> QED BY <2>3, <2>2 DEF FanOutTypes
<1>2. IdsAreFresh' /\ GoneAreInert' /\ FanOutHasEvents'
  BY DEF IdsAreFresh, GoneAreInert, FanOutHasEvents
<1>3. OneDispatcher' /\ NoLostWakeup' /\ BatchIsPrefix'
  BY DEF OneDispatcher, NoLostWakeup, BatchIsPrefix, Holds
<1>4. Len(pendingQueue') <= MaxPendingEvents
  BY DispatcherAssumption DEF RegistryTypes, FanOutTypes, ChannelTypes, QueuesBounded
<1>5. QueuesBounded'
  BY <1>4 DEF QueuesBounded
<1> QED BY <1>1, <1>2, <1>3, <1>5, <1>6

LEMMA AddChannelInv ==
  ASSUME ChannelsInv, NEW addr \in Addr, NEW reg \in Nat, NEW scope \in Scope,
         WatchesOf(reg) = {}, nextWatchId \in WatchId,
         Register(addr, reg, scope), AddChannel(nextWatchId)
  PROVE  ChannelsInv'
<1> USE DEF ChannelsInv, AddChannel
<1> DEFINE c == nextWatchId
<1>1. c \in WatchId /\ c \in Nat /\ c \notin channels
  BY DispatcherAssumption DEF RegistryTypes, FanOutTypes, ChannelTypes, IdsAreFresh
<1>3. /\ nextWatchId' = c + 1
      /\ watchers' = [w \in DOMAIN watchers \cup {c} |->
                        IF w = c THEN [addr |-> addr, registrationId |-> reg, scope |-> scope]
                        ELSE watchers[w]]
  BY ZenonT(40) DEF Register
<1>4. RegistryTypes' /\ FanOutTypes' /\ ChannelTypes' /\ worker' \in [Worker -> Sends]
  <2>1. RegistryTypes'
    BY <1>1, <1>3 DEF RegistryTypes
  <2>2. FanOutTypes'
    BY DEF FanOutTypes
  <2>3. ChannelTypes'
    BY <1>1, ZenonT(40) DEF ChannelTypes
  <2> QED BY <2>1, <2>2, <2>3
<1>5. IdsAreFresh'
  <2>2. \A d \in channels' : d < c + 1
    <3>1. \A d \in channels : d \in Nat /\ d < c
      BY DispatcherAssumption DEF ChannelTypes, IdsAreFresh
    <3> QED BY <1>1, <3>1
  <2>3. \A t \in Worker : worker[t].channel < c + 1
    <3>1. \A t \in Worker : worker[t].channel \in Nat /\ worker[t].channel < c
      <4> SUFFICES ASSUME NEW t \in Worker
                   PROVE  worker[t].channel \in Nat /\ worker[t].channel < c
        OBVIOUS
      <4>1. worker[t] \in Sends
        OBVIOUS
      <4>2. worker[t].channel \in WatchId \cup {0}
        BY <4>1 DEF Sends
      <4>3. worker[t].channel < c
        BY DEF IdsAreFresh
      <4>4. worker[t].channel \in Nat
        BY <4>2, IdsAreNumbers
      <4> QED BY <4>3, <4>4
    <3> QED BY <1>1, <3>1
  <2>1. \A w \in DOMAIN watchers' : w < c + 1
    <3>1. \A w \in DOMAIN watchers : w \in Nat /\ w < c
      BY DispatcherAssumption DEF RegistryTypes, IdsAreFresh
    <3> QED BY <1>1, <1>3, <3>1
  <2> QED BY <1>3, <2>1, <2>2, <2>3, ZenonT(40) DEF IdsAreFresh
<1>6. GoneAreInert' /\ FanOutHasEvents'
  BY DEF GoneAreInert, FanOutHasEvents
<1>7. ready[c] = 0 /\ retry[c] = 0 /\ queue[c] = <<>> /\ c \notin dispatchQueued
  BY <1>1 DEF GoneAreInert
<1>8. \A t \in Worker : worker[t].channel # c
  BY <1>1 DEF IdsAreFresh
<1>9. OneDispatcher'
  BY <1>1, <1>7, <1>8 DEF OneDispatcher, Holds
<1>10. NoLostWakeup' /\ BatchIsPrefix'
  BY <1>1, <1>7, <1>8 DEF NoLostWakeup, BatchIsPrefix
<1>11. QueuesBounded'
  BY <1>7, DispatcherAssumption DEF QueuesBounded
<1> QED BY <1>4, <1>5, <1>6, <1>9, <1>10, <1>11

\* ScheduleChannelLocked, for live channels that are not listed or held yet.
LEMMA ScheduleKeepsOne ==
  ASSUME ChannelsInv, NEW ids \in SUBSET channels, ScheduleChannels(ids),
         UNCHANGED <<worker, retry, channels>>
  PROVE  /\ OneDispatcher'
         /\ ready' \in [WatchId -> Nat] /\ dispatchQueued' \subseteq WatchId
         /\ \A c \in WatchId \ channels : ready'[c] = 0 /\ c \notin dispatchQueued'
<1> USE DEF ChannelsInv, ScheduleChannels
<1>1. ready' \in [WatchId -> Nat] /\ dispatchQueued' \subseteq WatchId
  BY DEF RegistryTypes, FanOutTypes, ChannelTypes
<1>2. \A c \in WatchId \ channels : ready'[c] = 0 /\ c \notin dispatchQueued'
  BY DEF GoneAreInert, RegistryTypes, FanOutTypes, ChannelTypes
<1>3. ASSUME NEW c \in channels
      PROVE  /\ ready'[c] + retry'[c] <= 1
             /\ \A t \in Worker : Holds(t, c)' => ready'[c] + retry'[c] = 0
             /\ \A t, u \in Worker : Holds(t, c)' /\ Holds(u, c)' => t = u
             /\ c \in dispatchQueued'
                  <=> ready'[c] + retry'[c] = 1 \/ \E t \in Worker : Holds(t, c)'
  <2>1. c \in WatchId /\ ready[c] \in Nat /\ retry[c] \in Nat
    BY DEF RegistryTypes, FanOutTypes, ChannelTypes
  <2>2. CASE c \in ids \ dispatchQueued
    <3>1. ready[c] = 0 /\ retry[c] = 0 /\ \A t \in Worker : ~ Holds(t, c)
      BY <2>1, <2>2 DEF OneDispatcher
    <3>2. ready'[c] = 1 /\ c \in dispatchQueued'
      BY <2>1, <2>2, <3>1
    <3> QED BY <3>1, <3>2 DEF Holds
  <2>3. CASE c \notin ids \ dispatchQueued
    <3>1. ready'[c] = ready[c] /\ (c \in dispatchQueued' <=> c \in dispatchQueued)
      BY <2>1, <2>3
    <3> QED BY <3>1 DEF OneDispatcher, Holds
  <2> QED BY <2>2, <2>3
<1> QED BY <1>1, <1>2, <1>3 DEF OneDispatcher

LEMMA SetSnapshotInv ==
  ASSUME ChannelsInv, NEW c \in channels, NEW rev \in Nat, SetSnapshotRevision(c, rev),
         UNCHANGED registryVars
  PROVE  ChannelsInv'
<1> USE DEF ChannelsInv, SetSnapshotRevision, registryVars
<1> DEFINE ids == IF queue[c] # <<>> THEN {c} ELSE {}
<1>1. ids \in SUBSET channels /\ ScheduleChannels(ids)
  OBVIOUS
<1>2. /\ OneDispatcher'
      /\ ready' \in [WatchId -> Nat] /\ dispatchQueued' \subseteq WatchId
      /\ \A d \in WatchId \ channels : ready'[d] = 0 /\ d \notin dispatchQueued'
  <2> HIDE DEF ids
  <2> QED BY <1>1, ScheduleKeepsOne
<1>3. RegistryTypes' /\ FanOutTypes' /\ ChannelTypes' /\ worker' \in [Worker -> Sends]
  <2>1. RegistryTypes' /\ FanOutTypes' /\ worker' \in [Worker -> Sends]
    BY DEF RegistryTypes, FanOutTypes
  <2>2. ChannelTypes'
    BY <1>2, ZenonT(40) DEF ChannelTypes
  <2> QED BY <2>1, <2>2
<1>4. IdsAreFresh' /\ GoneAreInert' /\ FanOutHasEvents'
  BY <1>2 DEF IdsAreFresh, GoneAreInert, FanOutHasEvents
<1>5. NoLostWakeup'
  BY <1>1, ZenonT(40) DEF RegistryTypes, FanOutTypes, ChannelTypes, NoLostWakeup, ScheduleChannels
<1>6. BatchIsPrefix' /\ QueuesBounded'
  BY DEF BatchIsPrefix, QueuesBounded
<1> QED BY <1>2, <1>3, <1>4, <1>5, <1>6

\* CancelChannel keeps every other channel as it is.
LEMMA RemoveChannelsInv ==
  ASSUME ChannelsInv, NEW ids, Unregister(ids), RemoveChannels(ids),
         UNCHANGED <<pendingQueue, pendingOverflow, fanOut>>,
         worker' \in [Worker -> Sends],
         \A t \in Worker : \/ worker'[t] = worker[t]
                           \/ worker'[t] = Idle /\ worker[t].channel \in ids
  PROVE  ChannelsInv'
<1> USE DEF ChannelsInv, Unregister, RemoveChannels
<1>1. RegistryTypes' /\ FanOutTypes' /\ ChannelTypes'
  <2>1. RegistryTypes'
    BY DEF RegistryTypes
  <2>2. FanOutTypes'
    BY DEF FanOutTypes
  <2>3. ChannelTypes'
    BY DEF ChannelTypes
  <2> QED BY <2>1, <2>2, <2>3
<1>2. IdsAreFresh'
  BY DEF IdsAreFresh, RegistryTypes, Idle
<1>3. GoneAreInert' /\ FanOutHasEvents'
  BY DEF GoneAreInert, FanOutHasEvents
<1>4. \A t \in Worker : worker'[t].channel \in channels' => worker'[t] = worker[t]
  BY DispatcherAssumption DEF ChannelTypes, Idle
<1>5. \A c \in channels' : /\ c \in channels /\ c \in WatchId /\ c \notin ids
                           /\ ready'[c] = ready[c] /\ retry'[c] = retry[c]
                           /\ queue'[c] = queue[c]
                           /\ c \in dispatchQueued' <=> c \in dispatchQueued
  BY DEF ChannelTypes
<1>6. \A c \in channels', t \in Worker : worker'[t].channel = c <=> worker[t].channel = c
  BY <1>4, <1>5
<1>7. OneDispatcher'
  <2>1. OneDispatcher
    OBVIOUS
  <2> HIDE DEF ChannelsInv, Unregister, RemoveChannels
  <2> QED BY <1>5, <1>6, <2>1 DEF OneDispatcher, Holds
<1>8. NoLostWakeup'
  BY <1>5, ZenonT(40) DEF NoLostWakeup
<1>9. BatchIsPrefix'
  <2>1. BatchIsPrefix /\ needReWatch' = needReWatch
    OBVIOUS
  <2> HIDE DEF ChannelsInv, Unregister, RemoveChannels
  <2> QED BY <1>4, <1>5, <2>1 DEF BatchIsPrefix
<1>10. QueuesBounded'
  <2>1. QueuesBounded
    OBVIOUS
  <2>2. \A t \in Worker : Len(worker'[t].events) <= BatchLimit
    BY DispatcherAssumption DEF QueuesBounded, Idle
  <2> HIDE DEF ChannelsInv, Unregister, RemoveChannels
  <2> QED BY <1>5, <2>1, <2>2 DEF QueuesBounded
<1> QED BY <1>1, <1>2, <1>3, <1>7, <1>8, <1>9, <1>10

LEMMA RemoveWatchInv ==
  ASSUME ChannelsInv, NEW ids, RemoveWatch(ids)
  PROVE  ChannelsInv'
<1>1. worker' = worker /\ worker \in [Worker -> Sends]
  BY DEF RemoveWatch, ChannelsInv
<1> QED BY <1>1, RemoveChannelsInv DEF RemoveWatch
-----------------------------------------------------------------------------
(* The fan-out thread. *)

LEMMA FanOutTakeInv ==
  ASSUME ChannelsInv, FanOutTake PROVE ChannelsInv'
<1> DEFINE n == Lesser(MaxFanOut, Len(pendingQueue))
<1> USE DEF ChannelsInv, registryVars, channelVars
<1>1. /\ fanOut' = [at |-> "overflow", batch |-> SubSeq(pendingQueue, 1, n)]
      /\ pendingQueue' = SubSeq(pendingQueue, n + 1, Len(pendingQueue))
      /\ UNCHANGED <<pendingOverflow, worker, channelVars, registryVars>>
  BY DEF FanOutTake
<1>2. pendingQueue \in Seq(WatchEvent) /\ Len(pendingQueue) \in Nat
  BY DEF FanOutTypes
<1>3. n \in 0..Len(pendingQueue) /\ n <= MaxFanOut
  BY <1>2, DispatcherAssumption DEF Lesser
<1> HIDE DEF n
<1>4. /\ SubSeq(pendingQueue, 1, n) \in Seq(WatchEvent)
      /\ Len(SubSeq(pendingQueue, 1, n)) = n
      /\ pendingQueue' \in Seq(WatchEvent)
      /\ Len(pendingQueue') = Len(pendingQueue) - n
  BY <1>1, <1>2, <1>3, CutTypes, ZenonT(40)
<1>5. FanOutTypes'
  BY <1>1, <1>4 DEF FanOutTypes
<1>6. RegistryTypes' /\ ChannelTypes' /\ worker' \in [Worker -> Sends]
  BY <1>1 DEF RegistryTypes, ChannelTypes
<1>7. IdsAreFresh' /\ GoneAreInert' /\ FanOutHasEvents'
  BY <1>1 DEF IdsAreFresh, GoneAreInert, FanOutHasEvents
<1>8. OneDispatcher' /\ NoLostWakeup' /\ BatchIsPrefix'
  BY <1>1 DEF OneDispatcher, NoLostWakeup, BatchIsPrefix, Holds
<1>9. Len(pendingQueue') <= MaxPendingEvents /\ Len(fanOut'.batch) <= MaxFanOut
  BY <1>1, <1>2, <1>3, <1>4, DispatcherAssumption DEF QueuesBounded
<1>10. QueuesBounded'
  BY <1>1, <1>9, ZenonT(40) DEF QueuesBounded
<1> QED BY <1>5, <1>6, <1>7, <1>8, <1>10

\* What RewatchAll and FanOutEvent do to the channels in ids: a queue that stays
\* in its bounds, and a place in the ready list.
LEMMA QueueingInv ==
  ASSUME ChannelsInv, NEW ids \in SUBSET (channels \ needReWatch), NEW reset \in SUBSET ids,
         ScheduleChannels(ids),
         UNCHANGED <<worker, channels, snapshotRevision, retry, registryVars>>,
         FanOutTypes', FanOutHasEvents', Len(pendingQueue') <= MaxPendingEvents,
         Len(fanOut'.batch) <= MaxFanOut,
         needReWatch' = needReWatch \cup reset,
         queue' \in [WatchId -> Seq(QueuedEvent)],
         \A c \in WatchId \ ids : queue'[c] = queue[c],
         \A c \in ids : Len(queue'[c]) <= BackpressureLimit,
         \A c \in ids \ reset : /\ Len(queue[c]) <= Len(queue'[c])
                                /\ \A i \in 1..Len(queue[c]) : queue'[c][i] = queue[c][i]
  PROVE  ChannelsInv'
<1> USE DEF ChannelsInv
<1>0. ids \in SUBSET channels
  OBVIOUS
<1>1. /\ OneDispatcher'
      /\ ready' \in [WatchId -> Nat] /\ dispatchQueued' \subseteq WatchId
      /\ \A c \in WatchId \ channels : ready'[c] = 0 /\ c \notin dispatchQueued'
  BY <1>0, ScheduleKeepsOne
<1>2. RegistryTypes' /\ ChannelTypes' /\ worker' \in [Worker -> Sends]
  BY <1>1 DEF registryVars, RegistryTypes, ChannelTypes
<1>3. IdsAreFresh'
  BY DEF IdsAreFresh, registryVars
<1>4. GoneAreInert'
  BY <1>1, ZenonT(40) DEF GoneAreInert
<1>5. NoLostWakeup'
  BY DEF NoLostWakeup, ScheduleChannels, ChannelTypes
<1>6. BatchIsPrefix'
  <2> SUFFICES ASSUME NEW t \in Worker, NEW c, c = worker[t].channel,
                      c \in channels, c \notin needReWatch'
               PROVE  /\ Len(worker[t].events) <= Len(queue'[c])
                      /\ \A i \in 1..Len(worker[t].events) : worker[t].events[i] = queue'[c][i]
    BY DEF BatchIsPrefix
  <2>1. c \notin needReWatch /\ c \notin reset /\ c \in WatchId
    BY DEF ChannelTypes
  <2>2. /\ Len(worker[t].events) <= Len(queue[c])
        /\ \A i \in 1..Len(worker[t].events) : worker[t].events[i] = queue[c][i]
    BY <2>1 DEF BatchIsPrefix
  <2>3. /\ Len(queue[c]) <= Len(queue'[c])
        /\ \A i \in 1..Len(queue[c]) : queue'[c][i] = queue[c][i]
    BY <2>1 DEF ChannelTypes
  <2>4. /\ Len(worker[t].events) \in Nat /\ Len(queue[c]) \in Nat
        /\ Len(queue'[c]) \in Nat
    <3>1. worker[t].events \in Seq(QueuedEvent)
      BY DEF Sends
    <3>2. queue[c] \in Seq(QueuedEvent) /\ queue'[c] \in Seq(QueuedEvent)
      BY <2>1 DEF ChannelTypes
    <3> QED BY <3>1, <3>2
  <2> QED BY <2>2, <2>3, <2>4
<1>7. QueuesBounded'
  BY DEF QueuesBounded, ChannelTypes
<1> QED BY <1>1, <1>2, <1>3, <1>4, <1>5, <1>6, <1>7

LEMMA FanOutOverflowInv ==
  ASSUME ChannelsInv, FanOutOverflow PROVE ChannelsInv'
<1> USE DEF ChannelsInv
<1>1. FanOutTypes'
  BY ZenonT(40) DEF FanOutTypes, FanOutOverflow
<1>2. FanOutHasEvents' /\ fanOut'.batch = fanOut.batch
  BY DEF FanOutHasEvents, FanOutTypes, FanOutOverflow
<1>3. pendingQueue' = pendingQueue /\ UNCHANGED <<worker, registryVars>>
  BY DEF FanOutOverflow
<1>4. CASE pendingOverflow
  <2> DEFINE ids == channels \ needReWatch
  <2>1. RewatchAll
    BY <1>4 DEF FanOutOverflow
  <2>2. /\ ScheduleChannels(ids) /\ needReWatch' = needReWatch \cup ids
        /\ UNCHANGED <<channels, snapshotRevision, retry>>
        /\ queue' = [c \in WatchId |-> IF c \in ids THEN <<Rewatch(0)>> ELSE queue[c]]
    BY <2>1 DEF RewatchAll
  <2>3. ids \subseteq WatchId
    BY DEF ChannelTypes
  <2> HIDE DEF ids
  <2>4. <<Rewatch(0)>> \in Seq(QueuedEvent) /\ Len(<<Rewatch(0)>>) = 1
    BY EventTypes
  <2>5. queue' \in [WatchId -> Seq(QueuedEvent)]
    BY <2>2, <2>4 DEF ChannelTypes
  <2>6. \A c \in ids : Len(queue'[c]) <= BackpressureLimit
    BY <2>2, <2>3, <2>4, DispatcherAssumption
  <2>7. \A c \in WatchId \ ids : queue'[c] = queue[c]
    BY <2>2
  <2>8. Len(pendingQueue') <= MaxPendingEvents /\ Len(fanOut'.batch) <= MaxFanOut
    BY <1>2, <1>3 DEF QueuesBounded
  <2>9. ids \in SUBSET (channels \ needReWatch)
    BY DEF ids
  <2> QED BY <1>1, <1>2, <1>3, <2>2, <2>5, <2>6, <2>7, <2>8, <2>9, QueueingInv, ZenonT(40)
<1>5. CASE ~ pendingOverflow
  <2>1. UNCHANGED channelVars
    BY <1>5 DEF FanOutOverflow
  <2> USE <1>3, <2>1 DEF channelVars, registryVars
  <2>2. RegistryTypes' /\ ChannelTypes' /\ worker' \in [Worker -> Sends]
    BY DEF RegistryTypes, ChannelTypes
  <2>3. IdsAreFresh' /\ GoneAreInert'
    BY ZenonT(40) DEF IdsAreFresh, GoneAreInert
  <2>4. OneDispatcher' /\ NoLostWakeup' /\ BatchIsPrefix'
    BY DEF OneDispatcher, NoLostWakeup, BatchIsPrefix, Holds
  <2>5. QueuesBounded'
    BY <1>2 DEF QueuesBounded
  <2> QED BY <1>1, <1>2, <2>2, <2>3, <2>4, <2>5
<1> QED BY <1>4, <1>5

LEMMA FanOutEventInv ==
  ASSUME ChannelsInv, FanOutEvent PROVE ChannelsInv'
<1> DEFINE event   == Head(fanOut.batch)
           matched == (MatchWatchers(event.key) \cap channels) \ needReWatch
           full    == {c \in matched : IsFull(c)}
           rest    == Tail(fanOut.batch)
<1>1. /\ fanOut.at = "events"
      /\ fanOut' = [at |-> IF rest = <<>> THEN "take" ELSE "events", batch |-> rest]
      /\ queue' = [c \in WatchId |-> IF c \in full THEN <<RewatchFor(event)>>
                                     ELSE IF c \in matched THEN Append(queue[c], event)
                                     ELSE queue[c]]
      /\ needReWatch' = needReWatch \cup full
      /\ ScheduleChannels(matched)
      /\ UNCHANGED <<pendingQueue, pendingOverflow, worker, channels,
                     snapshotRevision, retry, registryVars>>
  BY ZenonT(40) DEF FanOutEvent
<1> USE DEF ChannelsInv
<1>2. fanOut.batch \in Seq(WatchEvent) /\ fanOut.batch # <<>>
  BY <1>1 DEF FanOutTypes, FanOutHasEvents
<1>3. /\ event \in WatchEvent /\ rest \in Seq(WatchEvent)
      /\ Len(rest) = Len(fanOut.batch) - 1 /\ Len(fanOut.batch) \in Nat
  BY <1>2
<1>4. matched \in SUBSET (channels \ needReWatch) /\ full \in SUBSET matched
  OBVIOUS
<1>5. \A c \in matched \ full : ~ IsFull(c)
  OBVIOUS
<1> HIDE DEF event, matched, full, rest
<1>6. matched \subseteq WatchId
  BY <1>4 DEF ChannelTypes
<1>7. event \in QueuedEvent /\ RewatchFor(event) \in QueuedEvent
  BY <1>3, EventTypes
<1>8. queue \in [WatchId -> Seq(QueuedEvent)]
  BY DEF ChannelTypes
<1>9. queue' \in [WatchId -> Seq(QueuedEvent)]
  BY <1>1, <1>7, <1>8
<1>10. \A c \in WatchId \ matched : queue'[c] = queue[c]
  BY <1>1, <1>4
<1>11. ASSUME NEW c \in matched \ full
       PROVE  /\ Len(queue'[c]) <= BackpressureLimit
              /\ Len(queue[c]) <= Len(queue'[c])
              /\ \A i \in 1..Len(queue[c]) : queue'[c][i] = queue[c][i]
  <2>1. queue'[c] = Append(queue[c], event) /\ queue[c] \in Seq(QueuedEvent)
    BY <1>1, <1>6, <1>8
  <2>2. Len(queue[c]) \in Nat /\ Len(queue'[c]) = Len(queue[c]) + 1
    BY <2>1
  <2>3. Len(queue[c]) < BackpressureLimit
    BY <1>5, <2>2, DispatcherAssumption DEF IsFull
  <2> QED BY <1>7, <2>1, <2>2, <2>3, DispatcherAssumption
<1>12. \A c \in full : Len(queue'[c]) <= BackpressureLimit
  <2>1. \A c \in full : queue'[c] = <<RewatchFor(event)>>
    BY <1>1, <1>4, <1>6
  <2>2. Len(<<RewatchFor(event)>>) = 1
    OBVIOUS
  <2>3. 1 <= BackpressureLimit
    BY DispatcherAssumption
  <2> HIDE DEF ChannelsInv
  <2> QED BY <2>1, <2>2, <2>3, ZenonT(40)
<1>13. \A c \in matched : Len(queue'[c]) <= BackpressureLimit
  BY <1>11, <1>12
<1>14. FanOutTypes' /\ FanOutHasEvents'
  BY <1>1, <1>3 DEF FanOutTypes, FanOutHasEvents
<1>15. Len(pendingQueue') <= MaxPendingEvents /\ Len(fanOut'.batch) <= MaxFanOut
  BY <1>1, <1>3, DispatcherAssumption DEF QueuesBounded
<1> HIDE DEF ChannelsInv
<1> QED BY <1>1, <1>4, <1>9, <1>10, <1>11, <1>13, <1>14, <1>15, QueueingInv, ZenonT(40)
-----------------------------------------------------------------------------
(* The dispatch bthreads. *)

LEMMA RetryDueInv ==
  ASSUME ChannelsInv, NEW c \in WatchId, RetryDue(c) PROVE ChannelsInv'
<1> USE DEF ChannelsInv, RetryDue, registryVars
<1>1. RegistryTypes' /\ FanOutTypes' /\ worker' \in [Worker -> Sends]
  BY DEF RegistryTypes, FanOutTypes
<1>2. ChannelTypes'
  BY DEF ChannelTypes
<1>3. c \in channels
  BY DEF GoneAreInert
<1>4. IdsAreFresh' /\ FanOutHasEvents'
  BY DEF IdsAreFresh, FanOutHasEvents
<1>5. GoneAreInert'
  BY <1>3 DEF GoneAreInert, ChannelTypes
<1>6. \A d \in channels : ready'[d] + retry'[d] = ready[d] + retry[d]
  BY DEF ChannelTypes
<1>7. OneDispatcher'
  <2>1. OneDispatcher /\ UNCHANGED <<channels, worker, dispatchQueued>>
    OBVIOUS
  <2> HIDE DEF ChannelsInv, RetryDue
  <2> QED BY <1>6, <2>1 DEF OneDispatcher, Holds
<1>8. NoLostWakeup' /\ BatchIsPrefix' /\ QueuesBounded'
  BY ZenonT(40) DEF NoLostWakeup, BatchIsPrefix, QueuesBounded
<1> QED BY <1>1, <1>2, <1>4, <1>5, <1>7, <1>8

\* A step of the worker t that touches no other channel than c and no other
\* worker: t holds m afterwards, c has the queue q and is r times in the ready
\* and s times in the retry list.
StepsOn(t, c, m, q, r, s) ==
  /\ t \in Worker /\ c \in channels /\ m \in Sends /\ q \in Seq(QueuedEvent)
  /\ r \in Nat /\ s \in Nat
  /\ UNCHANGED <<pendingQueue, pendingOverflow, fanOut, channels, snapshotRevision,
                 needReWatch, registryVars>>
  /\ worker' = [worker EXCEPT ![t] = m]
  /\ queue' = [queue EXCEPT ![c] = q]
  /\ ready' = [ready EXCEPT ![c] = r]
  /\ retry' = [retry EXCEPT ![c] = s]
  /\ dispatchQueued' \in {dispatchQueued, dispatchQueued \ {c}}

\* What such a step must show about its channel.
LEMMA WorkerStepInv ==
  ASSUME ChannelsInv, NEW t, NEW c, NEW m, NEW q, NEW r, NEW s, StepsOn(t, c, m, q, r, s),
         m.channel \in {0, c}, Len(m.events) <= BatchLimit,
         Len(q) <= BackpressureLimit,
         worker[t].channel \in {0, c},
         \A u \in Worker \ {t} : worker[u].channel # c,
         r + s <= 1, m.channel = c => r + s = 0,
         c \in dispatchQueued' <=> r + s = 1 \/ m.channel = c,
         q # <<>> /\ (c \in needReWatch \/ snapshotRevision[c] > 0) => c \in dispatchQueued',
         m.channel = c /\ c \notin needReWatch =>
           Len(m.events) <= Len(q) /\ \A i \in 1..Len(m.events) : m.events[i] = q[i]
  PROVE  ChannelsInv'
<1> USE DEF ChannelsInv, StepsOn
<1>1. RegistryTypes' /\ FanOutTypes' /\ worker' \in [Worker -> Sends]
  BY DEF RegistryTypes, FanOutTypes, registryVars
<1>2. c \in WatchId /\ c # 0
  BY DispatcherAssumption DEF ChannelTypes
<1>3. ChannelTypes'
  BY <1>2, ZenonT(40) DEF ChannelTypes
<1>4. \A d \in WatchId : d # c => /\ queue'[d] = queue[d] /\ ready'[d] = ready[d]
                                 /\ retry'[d] = retry[d]
                                 /\ d \in dispatchQueued' <=> d \in dispatchQueued
  BY ZenonT(40) DEF ChannelTypes
<1>5. queue'[c] = q /\ ready'[c] = r /\ retry'[c] = s
  BY <1>2, ZenonT(40) DEF ChannelTypes
<1>6. worker'[t] = m /\ \A u \in Worker : u # t => worker'[u] = worker[u]
  BY ZenonT(40)
<1>7. \A d \in channels : d # c => \A u \in Worker : worker'[u].channel = d <=> worker[u].channel = d
  <2>1. c # 0 /\ \A d \in channels : d # 0
    BY DispatcherAssumption, ZenonT(40) DEF ChannelTypes
  <2>2. ASSUME NEW d \in channels, d # c
        PROVE  worker'[t].channel = d <=> worker[t].channel = d
    BY <1>6, <2>1, <2>2
  <2> QED BY <1>6, <2>2, ZenonT(40)
<1>8. IdsAreFresh' /\ FanOutHasEvents'
  <2>1. 0 < nextWatchId /\ c < nextWatchId
    BY DEF RegistryTypes, IdsAreFresh
  <2> QED BY <1>6, <2>1, ZenonT(40) DEF IdsAreFresh, FanOutHasEvents, registryVars
<1>9. GoneAreInert'
  BY <1>4 DEF GoneAreInert
<1>10. OneDispatcher'
  <2> SUFFICES ASSUME NEW d \in channels
               PROVE  /\ ready'[d] + retry'[d] <= 1
                      /\ \A u \in Worker : worker'[u].channel = d => ready'[d] + retry'[d] = 0
                      /\ \A u, v \in Worker :
                           worker'[u].channel = d /\ worker'[v].channel = d => u = v
                      /\ d \in dispatchQueued'
                           <=> ready'[d] + retry'[d] = 1 \/ \E u \in Worker : worker'[u].channel = d
    BY ZenonT(40) DEF OneDispatcher, Holds
  <2>1. CASE d = c
    <3>1. \A u \in Worker : worker'[u].channel = c <=> u = t /\ m.channel = c
      BY <1>6, ZenonT(40)
    <3> QED BY <1>5, <2>1, <3>1
  <2>2. CASE d # c
    <3>1. d \in WatchId
      BY ZenonT(40) DEF ChannelTypes
    <3>2. OneDispatcher /\ channels' = channels
      BY ZenonT(40)
    <3>3. /\ ready[d] + retry[d] <= 1
          /\ \A u \in Worker : worker[u].channel = d => ready[d] + retry[d] = 0
          /\ \A u, v \in Worker : worker[u].channel = d /\ worker[v].channel = d => u = v
          /\ d \in dispatchQueued
               <=> ready[d] + retry[d] = 1 \/ \E u \in Worker : worker[u].channel = d
      BY <3>2, ZenonT(40) DEF OneDispatcher, Holds
    <3>4. /\ ready'[d] = ready[d] /\ retry'[d] = retry[d]
          /\ d \in dispatchQueued' <=> d \in dispatchQueued
      BY <1>4, <2>2, <3>1
    <3>5. \A u \in Worker : worker'[u].channel = d <=> worker[u].channel = d
      BY <1>7, <2>2, ZenonT(40)
    <3> HIDE DEF ChannelsInv, StepsOn
    <3> QED BY <3>3, <3>4, <3>5, ZenonT(40)
  <2> QED BY <2>1, <2>2, ZenonT(40)
<1>11. NoLostWakeup'
  BY <1>4, <1>5, ZenonT(40) DEF NoLostWakeup, ChannelTypes
<1>12. BatchIsPrefix'
  <2> SUFFICES ASSUME NEW u \in Worker, NEW d, d = worker'[u].channel, d \in channels,
                      d \notin needReWatch
               PROVE  /\ Len(worker'[u].events) <= Len(queue'[d])
                      /\ \A i \in 1..Len(worker'[u].events) : worker'[u].events[i] = queue'[d][i]
    BY DEF BatchIsPrefix
  <2>1. d \in WatchId /\ d # 0
    BY DispatcherAssumption, ZenonT(40) DEF ChannelTypes
  <2>2. CASE u = t
    <3>1. d = c
      BY <1>6, <2>1, <2>2
    <3> QED BY <1>5, <1>6, <2>2, <3>1, ZenonT(40)
  <2>3. CASE u # t
    <3>1. worker'[u] = worker[u] /\ d # c
      BY <1>6, <2>3, ZenonT(40)
    <3> QED BY <1>4, <2>1, <3>1 DEF BatchIsPrefix
  <2> QED BY <2>2, <2>3, ZenonT(40)
<1>13. QueuesBounded'
  <2>1. \A d \in channels : Len(queue'[d]) <= BackpressureLimit
    BY <1>4, <1>5, ZenonT(40) DEF QueuesBounded, ChannelTypes
  <2>2. \A u \in Worker : Len(worker'[u].events) <= BatchLimit
    BY <1>6, ZenonT(40) DEF QueuesBounded
  <2> QED BY <2>1, <2>2, ZenonT(40) DEF QueuesBounded
<1> QED BY <1>1, <1>3, <1>8, <1>9, <1>10, <1>11, <1>12, <1>13, ZenonT(40)

\* A worker takes a ready channel: it is live, in no other list, and no worker
\* sends for it.
LEMMA TakenIsFree ==
  ASSUME ChannelsInv, NEW c \in WatchId, ready[c] > 0
  PROVE  /\ c \in channels /\ c \in dispatchQueued /\ ready[c] = 1 /\ retry[c] = 0
         /\ \A u \in Worker : worker[u].channel # c
<1> USE DEF ChannelsInv
<1>1. c \in channels /\ ready[c] \in Nat /\ retry[c] \in Nat
  BY DEF GoneAreInert, ChannelTypes
<1> QED BY <1>1 DEF OneDispatcher, Holds

\* A channel whose batch is being sent is in no list.
LEMMA HeldIsUnlisted ==
  ASSUME ChannelsInv, NEW t \in Worker, worker[t].channel \in channels
  PROVE  LET c == worker[t].channel IN
         /\ c \in WatchId /\ c \in dispatchQueued /\ ready[c] = 0 /\ retry[c] = 0
         /\ \A u \in Worker \ {t} : worker[u].channel # c
<1> USE DEF ChannelsInv
<1> DEFINE c == worker[t].channel
<1>1. c \in WatchId /\ ready[c] \in Nat /\ retry[c] \in Nat
  BY ZenonT(40) DEF ChannelTypes
<1> QED BY <1>1 DEF OneDispatcher, Holds

LEMMA IdleType == Idle \in Sends /\ Idle.channel = 0 /\ Len(Idle.events) = 0
<1>1. <<>> \in Seq(QueuedEvent)
  OBVIOUS
<1> QED BY <1>1 DEF Idle, Sends

LEMMA PrepareInv ==
  ASSUME ChannelsInv, NEW t \in Worker, NEW c \in WatchId, PrepareChannelEvents(t, c)
  PROVE  ChannelsInv'
<1> DEFINE left == DropThrough(queue[c], snapshotRevision[c])
<1>1. /\ worker[t] = Idle /\ ready[c] > 0
      /\ ready' = [ready EXCEPT ![c] = @ - 1]
      /\ UNCHANGED <<pendingQueue, pendingOverflow, fanOut, channels,
                     snapshotRevision, needReWatch, retry, registryVars>>
  BY DEF PrepareChannelEvents
<1>2. /\ c \in channels /\ c \in dispatchQueued /\ ready[c] = 1 /\ retry[c] = 0
      /\ \A u \in Worker : worker[u].channel # c
  BY <1>1, TakenIsFree
<1>3. /\ queue[c] \in Seq(QueuedEvent) /\ Len(queue[c]) <= BackpressureLimit
      /\ ready \in [WatchId -> Nat] /\ retry \in [WatchId -> Nat]
      /\ queue \in [WatchId -> Seq(QueuedEvent)] /\ snapshotRevision[c] \in Nat
      /\ worker \in [Worker -> Sends]
  BY <1>2 DEF ChannelsInv, ChannelTypes, QueuesBounded
<1>4. /\ left \in Seq(QueuedEvent) /\ Len(left) <= Len(queue[c])
      /\ queue[c] = <<>> => left = <<>>
  BY <1>3, DropThroughSuffix, ZenonT(40)
<1> HIDE DEF left
<1>5. ready' = [ready EXCEPT ![c] = 0] /\ retry' = [retry EXCEPT ![c] = 0]
  BY <1>1, <1>2, <1>3
<1>6. Len(left) \in Nat /\ Len(queue[c]) \in Nat /\ Len(left) <= BackpressureLimit
  BY <1>3, <1>4, DispatcherAssumption
<1>7. worker[t].channel = 0
  BY <1>1, IdleType, ZenonT(40)
<1>8. ASSUME queue[c] # <<>>, c \in needReWatch,
             worker' = [worker EXCEPT ![t] = [channel |-> c, events |-> <<Head(queue[c])>>,
                                              rewatch |-> TRUE]],
             UNCHANGED <<queue, dispatchQueued>>
      PROVE  ChannelsInv'
  <2> DEFINE m == [channel |-> c, events |-> <<Head(queue[c])>>, rewatch |-> TRUE]
  <2>1. <<Head(queue[c])>> \in Seq(QueuedEvent) /\ Len(<<Head(queue[c])>>) = 1
    BY <1>3, <1>8, FirstAlone, ZenonT(40)
  <2>2. m \in Sends /\ m.channel = c /\ Len(m.events) <= BatchLimit
    <3>1. BatchLimit \in Nat /\ 1 <= BatchLimit
      BY DispatcherAssumption
    <3>2. m.channel = c /\ Len(m.events) <= BatchLimit
      BY <2>1, <3>1
    <3> QED BY <2>1, <3>2, ZenonT(40) DEF Sends
  <2>3. queue' = [queue EXCEPT ![c] = queue[c]]
    BY <1>3, <1>8
  <2>4. worker' = [worker EXCEPT ![t] = m]
    BY <1>8, ZenonT(40)
  <2> HIDE DEF m
  <2>5. StepsOn(t, c, m, queue[c], 0, 0)
    BY <1>1, <1>2, <1>3, <1>5, <1>8, <2>2, <2>3, <2>4, ZenonT(40) DEF StepsOn
  <2>6. c \in dispatchQueued' /\ c \in needReWatch
    BY <1>2, <1>8, ZenonT(40)
  <2> DEFINE q == queue[c]
  <2>7. StepsOn(t, c, m, q, 0, 0) /\ Len(q) <= BackpressureLimit
    BY <1>3, <2>5, ZenonT(40)
  <2>8. \A u \in Worker \ {t} : worker[u].channel # c
    BY <1>2, ZenonT(40)
  <2> HIDE DEF q
  <2>9. m.channel \in {0, c} /\ m.channel = c /\ worker[t].channel \in {0, c}
    BY <1>7, <2>2, ZenonT(40)
  <2>10. 0 + 0 <= 1 /\ 0 + 0 = 0
    OBVIOUS
  <2> QED BY <2>2, <2>6, <2>7, <2>8, <2>9, <2>10, WorkerStepInv, ZenonT(40)
<1>9. ASSUME c \notin needReWatch, snapshotRevision[c] > 0, left # <<>>,
             NEW n \in 1..Lesser(BatchLimit, Len(left)),
             worker' = [worker EXCEPT ![t] = [channel |-> c, events |-> SubSeq(left, 1, n),
                                              rewatch |-> FALSE]],
             queue' = [queue EXCEPT ![c] = left],
             UNCHANGED dispatchQueued
      PROVE  ChannelsInv'
  <2> DEFINE m == [channel |-> c, events |-> SubSeq(left, 1, n), rewatch |-> FALSE]
  <2>1. n \in 0..Len(left) /\ n <= BatchLimit
    BY <1>6, <1>9, DispatcherAssumption DEF Lesser
  <2>2. /\ SubSeq(left, 1, n) \in Seq(QueuedEvent) /\ Len(SubSeq(left, 1, n)) = n
        /\ \A i \in 1..n : SubSeq(left, 1, n)[i] = left[i]
    BY <1>4, <2>1, CutTypes, ZenonT(40)
  <2>3. /\ m \in Sends /\ m.channel = c /\ Len(m.events) = n
        /\ \A i \in 1..Len(m.events) : m.events[i] = left[i]
    BY <2>2, ZenonT(40) DEF Sends
  <2>4. worker' = [worker EXCEPT ![t] = m]
    BY <1>9
  <2> HIDE DEF m
  <2>5. Len(m.events) <= BatchLimit /\ Len(m.events) <= Len(left)
    BY <2>1, <2>3
  <2>6. StepsOn(t, c, m, left, 0, 0)
    BY <1>1, <1>2, <1>4, <1>5, <1>9, <2>3, <2>4, ZenonT(40) DEF StepsOn
  <2>7. m.channel \in {0, c} /\ m.channel = c /\ worker[t].channel \in {0, c}
    BY <1>7, <2>3, ZenonT(40)
  <2>8. 0 + 0 <= 1 /\ 0 + 0 = 0
    OBVIOUS
  <2>9. c \in dispatchQueued'
    BY <1>2, <1>9, ZenonT(40)
  <2>10. Len(left) <= BackpressureLimit /\ \A u \in Worker \ {t} : worker[u].channel # c
    BY <1>2, <1>6, ZenonT(40)
  <2> QED BY <2>3, <2>5, <2>6, <2>7, <2>8, <2>9, <2>10, WorkerStepInv, ZenonT(40)
<1>10. ASSUME \/ queue[c] = <<>>
              \/ c \notin needReWatch /\ snapshotRevision[c] <= 0
              \/ c \notin needReWatch /\ left = <<>>,
              dispatchQueued' = dispatchQueued \ {c},
              queue' = IF c \notin needReWatch /\ snapshotRevision[c] > 0
                       THEN [queue EXCEPT ![c] = left] ELSE queue,
              UNCHANGED worker
       PROVE  ChannelsInv'
  <2> DEFINE q == IF c \notin needReWatch /\ snapshotRevision[c] > 0 THEN left ELSE queue[c]
  <2>1. queue' = [queue EXCEPT ![c] = q]
    BY <1>3, <1>10, ZenonT(40)
  <2>2. q \in Seq(QueuedEvent) /\ Len(q) <= BackpressureLimit
    BY <1>3, <1>4, <1>6
  <2>3. ~ (q # <<>> /\ (c \in needReWatch \/ snapshotRevision[c] > 0))
    BY <1>3, <1>4, <1>10
  <2>4. worker' = [worker EXCEPT ![t] = Idle]
    BY <1>1, <1>3, <1>10
  <2>5. c # 0 /\ Len(Idle.events) <= BatchLimit
    BY DispatcherAssumption, IdleType
  <2> HIDE DEF q
  <2>6. StepsOn(t, c, Idle, q, 0, 0)
    BY <1>1, <1>2, <1>5, <1>10, <2>1, <2>2, <2>4, IdleType, ZenonT(40) DEF StepsOn
  <2>7. Idle.channel \in {0, c} /\ Idle.channel # c /\ worker[t].channel \in {0, c}
    BY <1>7, <2>5, IdleType, ZenonT(40)
  <2>8. 0 + 0 <= 1 /\ 0 + 0 = 0 /\ 0 + 0 # 1
    OBVIOUS
  <2>9. c \notin dispatchQueued'
    BY <1>10, ZenonT(40)
  <2>10. \A u \in Worker \ {t} : worker[u].channel # c
    BY <1>2, ZenonT(40)
  <2> QED BY <2>2, <2>3, <2>5, <2>6, <2>7, <2>8, <2>9, <2>10, WorkerStepInv, ZenonT(40)
<1> QED BY <1>8, <1>9, <1>10, ZenonT(40) DEF PrepareChannelEvents, left

LEMMA NotifyCancelledInv ==
  ASSUME ChannelsInv, NEW t \in Worker, NotifyCancelled(t) PROVE ChannelsInv'
<1> USE DEF ChannelsInv
<1>1. /\ worker[t].channel \notin channels /\ worker' = [worker EXCEPT ![t] = Idle]
      /\ UNCHANGED <<pendingQueue, pendingOverflow, fanOut, channelVars, registryVars>>
  BY DEF NotifyCancelled
<1> USE <1>1 DEF channelVars, registryVars
<1>2. RegistryTypes' /\ FanOutTypes' /\ ChannelTypes' /\ worker' \in [Worker -> Sends]
  <2>1. RegistryTypes' /\ FanOutTypes' /\ ChannelTypes'
    BY DEF RegistryTypes, FanOutTypes, ChannelTypes
  <2> QED BY <2>1, IdleType
<1>3. 0 \notin channels
  BY DispatcherAssumption DEF ChannelTypes
<1>4. worker'[t] = Idle /\ \A u \in Worker : u # t => worker'[u] = worker[u]
  OBVIOUS
<1>5. \A c \in channels, u \in Worker : worker'[u].channel = c <=> worker[u].channel = c
  BY <1>3, <1>4, IdleType
<1>6. IdsAreFresh' /\ GoneAreInert' /\ FanOutHasEvents'
  BY <1>4, IdleType DEF IdsAreFresh, GoneAreInert, FanOutHasEvents, RegistryTypes
<1>7. OneDispatcher'
  BY <1>5 DEF OneDispatcher, Holds
<1>8. NoLostWakeup'
  BY ZenonT(40) DEF NoLostWakeup
<1>9. BatchIsPrefix'
  BY <1>3, <1>4, IdleType, ZenonT(40) DEF BatchIsPrefix
<1>10. QueuesBounded'
  BY <1>4, IdleType, DispatcherAssumption DEF QueuesBounded
<1> QED BY <1>2, <1>6, <1>7, <1>8, <1>9, <1>10

LEMMA NotifyOkInv ==
  ASSUME ChannelsInv, NEW t \in Worker, NotifyOk(t) PROVE ChannelsInv'
<1> DEFINE c    == worker[t].channel
           left == DropThrough(queue[c], MaxRevisionOf(worker[t].events))
<1>1. /\ c \in channels /\ worker' = [worker EXCEPT ![t] = Idle]
      /\ queue' = [queue EXCEPT ![c] = left]
      /\ IF left = <<>>
         THEN dispatchQueued' = dispatchQueued \ {c} /\ UNCHANGED ready
         ELSE ready' = [ready EXCEPT ![c] = @ + 1] /\ UNCHANGED dispatchQueued
      /\ UNCHANGED <<pendingQueue, pendingOverflow, fanOut, channels,
                     snapshotRevision, needReWatch, retry, registryVars>>
  BY ZenonT(40) DEF NotifyOk
<1>2. /\ c \in WatchId /\ c \in dispatchQueued /\ ready[c] = 0 /\ retry[c] = 0
      /\ \A u \in Worker \ {t} : worker[u].channel # c
  BY <1>1, HeldIsUnlisted, ZenonT(40)
<1>3. /\ queue[c] \in Seq(QueuedEvent) /\ Len(queue[c]) <= BackpressureLimit
      /\ ready \in [WatchId -> Nat] /\ retry \in [WatchId -> Nat]
  BY <1>1, <1>2, ZenonT(40) DEF ChannelsInv, ChannelTypes, QueuesBounded
<1>4. left \in Seq(QueuedEvent) /\ Len(left) <= Len(queue[c])
  BY <1>3, DropThroughSuffix
<1> HIDE DEF left
<1>5. Len(left) \in Nat /\ Len(left) <= BackpressureLimit
  BY <1>3, <1>4, DispatcherAssumption
<1> DEFINE r == IF left = <<>> THEN 0 ELSE 1
<1>6. ready' = [ready EXCEPT ![c] = r] /\ retry' = [retry EXCEPT ![c] = 0]
  <2>1. retry' = retry /\ retry[c] = 0
    BY <1>1, <1>2, ZenonT(40)
  <2>2. retry' = [retry EXCEPT ![c] = 0]
    BY <1>3, <2>1
  <2>3. ready' = [ready EXCEPT ![c] = r]
    <3>1. CASE left = <<>>
      <4>1. ready' = ready /\ r = 0
        BY <1>1, <3>1, ZenonT(40)
      <4> QED BY <1>2, <1>3, <4>1
    <3>2. CASE left # <<>>
      <4>1. ready' = [ready EXCEPT ![c] = ready[c] + 1] /\ r = 1
        BY <1>1, <3>2, ZenonT(40)
      <4>2. ready[c] + 1 = r
        BY <1>2, <4>1
      <4> QED BY <4>1, <4>2, ZenonT(40)
    <3> QED BY <3>1, <3>2
  <2> QED BY <2>2, <2>3
<1>7. c # 0 /\ Len(Idle.events) <= BatchLimit
  BY <1>2, DispatcherAssumption, IdleType
<1>8. c \in dispatchQueued' <=> r + 0 = 1
  BY <1>1, <1>2
<1>9. dispatchQueued' \in {dispatchQueued, dispatchQueued \ {c}} /\ r \in Nat /\ r + 0 <= 1
  BY <1>1
<1>10. left # <<>> => c \in dispatchQueued'
  BY <1>1, <1>2
<1> HIDE DEF r, c
<1>11. worker[t].channel = c
  BY DEF c
<1>12. StepsOn(t, c, Idle, left, r, 0)
  BY <1>1, <1>4, <1>6, <1>9, IdleType, ZenonT(40) DEF StepsOn
<1> QED BY <1>2, <1>5, <1>7, <1>8, <1>9, <1>10, <1>11, <1>12, IdleType, WorkerStepInv

LEMMA NotifyRemovesInv ==
  ASSUME ChannelsInv, NEW t \in Worker, NotifyRemoves(t) PROVE ChannelsInv'
<1>1. worker' = [worker EXCEPT ![t] = Idle] /\ worker \in [Worker -> Sends]
  BY DEF NotifyRemoves, ChannelsInv
<1>2. worker' \in [Worker -> Sends]
  BY <1>1, IdleType
<1>3. \A u \in Worker : \/ worker'[u] = worker[u]
                        \/ worker'[u] = Idle /\ worker[u].channel \in {worker[t].channel}
  BY <1>1, ZenonT(40)
<1> QED BY <1>2, <1>3, RemoveChannelsInv DEF NotifyRemoves

LEMMA NotifyRetryLaterInv ==
  ASSUME ChannelsInv, NEW t \in Worker, NotifyRetryLater(t) PROVE ChannelsInv'
<1> DEFINE c == worker[t].channel
<1>1. /\ c \in channels /\ worker' = [worker EXCEPT ![t] = Idle]
      /\ retry' = [retry EXCEPT ![c] = @ + 1]
      /\ UNCHANGED <<pendingQueue, pendingOverflow, fanOut, channels, queue,
                     snapshotRevision, needReWatch, dispatchQueued, ready, registryVars>>
  BY DEF NotifyRetryLater
<1>2. /\ c \in WatchId /\ c \in dispatchQueued /\ ready[c] = 0 /\ retry[c] = 0
      /\ \A u \in Worker \ {t} : worker[u].channel # c
  BY <1>1, HeldIsUnlisted
<1>3. /\ queue[c] \in Seq(QueuedEvent) /\ Len(queue[c]) <= BackpressureLimit
      /\ ready \in [WatchId -> Nat] /\ retry \in [WatchId -> Nat]
      /\ queue \in [WatchId -> Seq(QueuedEvent)]
  BY <1>1, <1>2 DEF ChannelsInv, ChannelTypes, QueuesBounded
<1>4. /\ ready' = [ready EXCEPT ![c] = 0] /\ retry' = [retry EXCEPT ![c] = 1]
      /\ queue' = [queue EXCEPT ![c] = queue[c]]
  BY <1>1, <1>2, <1>3
<1>5. c # 0 /\ Len(Idle.events) <= BatchLimit
  BY <1>2, DispatcherAssumption, IdleType
<1> HIDE DEF c
<1>6. worker[t].channel = c
  BY DEF c
<1>7. StepsOn(t, c, Idle, queue[c], 0, 1)
  BY <1>1, <1>3, <1>4, IdleType, ZenonT(40) DEF StepsOn
<1>8. c \in dispatchQueued'
  BY <1>1, <1>2
<1>9. Idle.channel \in {0, c} /\ Idle.channel # c /\ worker[t].channel \in {0, c}
  BY <1>5, <1>6, IdleType, ZenonT(40)
<1>10. 0 + 1 <= 1 /\ 0 + 1 = 1
  OBVIOUS
<1>11. Len(queue[c]) <= BackpressureLimit /\ \A u \in Worker \ {t} : worker[u].channel # c
  BY <1>2, <1>3, ZenonT(40)
<1> QED BY <1>5, <1>7, <1>8, <1>9, <1>10, <1>11, WorkerStepInv, ZenonT(40)
-----------------------------------------------------------------------------
LEMMA ChannelsRest ==
  ASSUME ChannelsInv, UNCHANGED <<registryVars, dispatcherVars>> PROVE ChannelsInv'
<1> USE DEF registryVars, dispatcherVars, channelVars
<1>1. RegistryTypes' /\ FanOutTypes' /\ ChannelTypes' /\ worker' \in [Worker -> Sends]
  BY ZenonT(40) DEF ChannelsInv, RegistryTypes, FanOutTypes, ChannelTypes
<1>2. IdsAreFresh' /\ GoneAreInert' /\ FanOutHasEvents'
  BY ZenonT(40) DEF ChannelsInv, IdsAreFresh, GoneAreInert, FanOutHasEvents
<1>3. OneDispatcher'
  BY ZenonT(40) DEF ChannelsInv, OneDispatcher, Holds
<1>4. NoLostWakeup' /\ QueuesBounded'
  BY ZenonT(40) DEF ChannelsInv, NoLostWakeup, QueuesBounded
<1>5. BatchIsPrefix'
  BY ZenonT(40) DEF ChannelsInv, BatchIsPrefix
<1> QED BY <1>1, <1>2, <1>3, <1>4, <1>5, ZenonT(40) DEF ChannelsInv

\* In ChannelsSpec a registration id is the watch id it was given, so that a new
\* one is never in use.
RegistrationsAreFresh ==
  \A w \in DOMAIN watchers : watchers[w].registrationId < nextWatchId

LEMMA AddWatchInv ==
  ASSUME ChannelsInv, RegistrationsAreFresh, NEW addr \in Addr, NEW scope \in Scope,
         AddWatch(addr, scope)
  PROVE  ChannelsInv' /\ RegistrationsAreFresh'
<1>1. /\ nextWatchId \in Nat
      /\ \A w \in DOMAIN watchers : watchers[w].registrationId \in Nat
  BY DEF ChannelsInv, RegistryTypes
<1>2. WatchesOf(nextWatchId) = {}
  BY <1>1 DEF RegistrationsAreFresh, WatchesOf
<1>3. /\ nextWatchId \in WatchId /\ Register(addr, nextWatchId, scope)
      /\ AddChannel(nextWatchId)
  BY ZenonT(40) DEF AddWatch
<1>4. /\ nextWatchId' = nextWatchId + 1
      /\ watchers' = [w \in DOMAIN watchers \cup {nextWatchId} |->
                        IF w = nextWatchId
                        THEN [addr |-> addr, registrationId |-> nextWatchId, scope |-> scope]
                        ELSE watchers[w]]
  BY <1>2, <1>3, ZenonT(40) DEF Register
<1>5. ChannelsInv'
  BY <1>1, <1>2, <1>3, AddChannelInv, ZenonT(40)
<1>6. RegistrationsAreFresh'
  BY <1>1, <1>4 DEF RegistrationsAreFresh
<1> QED BY <1>5, <1>6

LEMMA UnregisterFresh ==
  ASSUME RegistrationsAreFresh, NEW ids, Unregister(ids) PROVE RegistrationsAreFresh'
BY ZenonT(40) DEF RegistrationsAreFresh, Unregister

LEMMA RegistryRests ==
  ASSUME RegistrationsAreFresh, UNCHANGED registryVars PROVE RegistrationsAreFresh'
BY ZenonT(40) DEF RegistrationsAreFresh, registryVars

LEMMA ChannelsStepInv ==
  ASSUME ChannelsInv, RegistrationsAreFresh, [ChannelsNext]_channelsVars
  PROVE  ChannelsInv' /\ RegistrationsAreFresh'
<1>1. ASSUME NEW k \in EventKey, NEW rev \in 1..MaxCommitted, EnqueueNew(k, rev)
      PROVE  ChannelsInv' /\ RegistrationsAreFresh'
  <2> DEFINE event == [type |-> "PUT", key |-> k, revision |-> rev, modRevision |-> rev]
  <2>1. event \in WatchEvent
    BY WatchChannelsAssumption DEF WatchEvent
  <2>2. Enqueue(event) /\ UNCHANGED registryVars
    BY <1>1, ZenonT(40) DEF EnqueueNew
  <2> QED BY <2>1, <2>2, EnqueueInv, RegistryRests, ZenonT(40)
<1>2. ASSUME NEW addr \in Addr, NEW scope \in Scope, AddWatch(addr, scope)
      PROVE  ChannelsInv' /\ RegistrationsAreFresh'
  BY <1>2, AddWatchInv, ZenonT(40)
<1>3. ASSUME NEW c \in channels, NEW rev \in 1..MaxCommitted, SetSnapshot(c, rev)
      PROVE  ChannelsInv' /\ RegistrationsAreFresh'
  <2>1. rev \in Nat
    BY WatchChannelsAssumption
  <2>2. SetSnapshotRevision(c, rev) /\ UNCHANGED registryVars
    BY <1>3, ZenonT(40) DEF SetSnapshot, registryVars
  <2> QED BY <2>1, <2>2, SetSnapshotInv, RegistryRests, ZenonT(40)
<1>4. ASSUME NEW c \in channels, RemoveWatch({c})
      PROVE  ChannelsInv' /\ RegistrationsAreFresh'
  BY <1>4, RemoveWatchInv, UnregisterFresh, ZenonT(40) DEF RemoveWatch
<1>5. CASE FanOutStep
  <2>1. UNCHANGED registryVars
    BY <1>5, ZenonT(40) DEF FanOutStep, FanOutTake, FanOutOverflow, FanOutEvent, registryVars
  <2>2. ChannelsInv'
    BY <1>5, FanOutTakeInv, FanOutOverflowInv, FanOutEventInv, ZenonT(40) DEF FanOutStep
  <2> QED BY <2>1, <2>2, RegistryRests, ZenonT(40)
<1>6. ASSUME NEW t \in Worker, DispatchStep(t)
      PROVE  ChannelsInv' /\ RegistrationsAreFresh'
  <2>1. ChannelsInv'
    BY <1>6, PrepareInv, NotifyCancelledInv, NotifyOkInv, NotifyRemovesInv,
       NotifyRetryLaterInv, ZenonT(40) DEF DispatchStep
  <2>2. CASE NotifyRemoves(t)
    BY <2>1, <2>2, UnregisterFresh, ZenonT(40) DEF NotifyRemoves
  <2>3. CASE ~NotifyRemoves(t)
    <3>1. UNCHANGED registryVars
      BY <1>6, <2>3, ZenonT(40) DEF DispatchStep, PrepareChannelEvents, NotifyCancelled, NotifyOk,
         NotifyRetryLater, registryVars
    <3> QED BY <2>1, <3>1, RegistryRests, ZenonT(40)
  <2> QED BY <2>2, <2>3
<1>7. CASE RetryStep
  <2>1. PICK c \in WatchId : RetryDue(c)
    BY <1>7, ZenonT(40) DEF RetryStep
  <2>2. UNCHANGED registryVars
    BY <2>1, ZenonT(40) DEF RetryDue, registryVars
  <2> QED BY <2>1, <2>2, RetryDueInv, RegistryRests, ZenonT(40)
<1>8. CASE UNCHANGED channelsVars
  BY <1>8, ChannelsRest, RegistryRests, ZenonT(40) DEF channelsVars
<1> QED BY <1>1, <1>2, <1>3, <1>4, <1>5, <1>6, <1>7, <1>8, ZenonT(40) DEF ChannelsNext

LEMMA ChannelsInvariant == ChannelsSpec => []ChannelsInv
<1>1. ChannelsInit => ChannelsInv /\ RegistrationsAreFresh
  <2>1. ChannelsInit => RegistrationsAreFresh
    BY DEF ChannelsInit, RegistryInit, RegistrationsAreFresh
  <2> QED BY <2>1, ChannelsInitInv
<1>2. ChannelsInv /\ RegistrationsAreFresh /\ [ChannelsNext]_channelsVars
        => ChannelsInv' /\ RegistrationsAreFresh'
  BY ChannelsStepInv, ZenonT(40)
<1> QED BY <1>1, <1>2, PTL DEF ChannelsSpec

\* The dispatcher's and the registry's state keeps its types.
THEOREM ChannelsTypes == ChannelsSpec => []ChannelsTypeOK
<1>1. ChannelsInv => ChannelsTypeOK
  BY TypeParts DEF ChannelsInv
<1> QED BY <1>1, ChannelsInvariant, PTL

\* ScheduleChannelLocked, PrepareChannelEvents and the completions, for any
\* number of workers and watches: a channel that is not cancelled is in one
\* place at a time, so no two workers send for one watch at once.
THEOREM DispatchersExclusive == ChannelsSpec => []OneDispatcher
<1>1. ChannelsInv => OneDispatcher
  BY DEF ChannelsInv
<1> QED BY <1>1, ChannelsInvariant, PTL

\* Nothing that a channel may send waits unscheduled: dispatchQueued is set
\* whenever there is work, although a worker clears it in PrepareChannelEvents.
THEOREM WakeupsKept == ChannelsSpec => []NoLostWakeup
<1>1. ChannelsInv => NoLostWakeup
  BY DEF ChannelsInv
<1> QED BY <1>1, ChannelsInvariant, PTL

\* The batch that DoNotify sends without the channel's mutex stays the front of
\* the channel's queue, until a REWATCH replaces the queue.
THEOREM BatchesArePrefixes == ChannelsSpec => []BatchIsPrefix
<1>1. ChannelsInv => BatchIsPrefix
  BY DEF ChannelsInv
<1> QED BY <1>1, ChannelsInvariant, PTL

\* MAX_PENDING_EVENTS, MAX_WATCH_EVENTS_PER_FAN_OUT, the backpressure limit and
\* MAX_WATCH_EVENTS_PER_BATCH bound what the dispatcher holds.
THEOREM MemoryBounded == ChannelsSpec => []QueuesBounded
<1>1. ChannelsInv => QueuesBounded
  BY DEF ChannelsInv
<1> QED BY <1>1, ChannelsInvariant, PTL
=============================================================================
