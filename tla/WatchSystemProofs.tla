--------------------------- MODULE WatchSystemProofs ---------------------------
(***************************************************************************)
(* Proofs about WatchSystem, for any clients, keys, threads and bounds:    *)
(* the coordinator with its watches is still the store of LeasedStore, and *)
(* the observer of committed mutations removes the watches of members that *)
(* left and of no others.                                                  *)
(***************************************************************************)
EXTENDS WatchSystem, LeasedStoreProofs

\* A leaf is tried with SMT, then with Zenon, then with SMT for longer.
USE SMTT(30), ZenonT(40), SMTT(60)

\* A callback for k that the observer has yet to act on: it is behind another
\* callback of its thread, it has not been observed, or the observer is removing.
ToObserve(k) ==
  \E t \in Threads : \E i \in 1..Len(callbacks[t]) :
    /\ callbacks[t][i].key = k
    /\ i > 1 \/ t \notin observed \/ t \in removing

WatcherKey(c) == MemberKey[channelAddr[c]]

\* The addresses of channels and calls are clients, and an observer is in the
\* middle of a callback.
WatchTypes ==
  /\ channels \cup backed \subseteq WatchId
  /\ channelAddr \in [WatchId -> Client \cup {"none"}]
  /\ \A c \in channels \cup backed : channelAddr[c] \in Client
  /\ \A q \in requests : q.addr \in Client
  /\ observed \subseteq Threads
  /\ removing \subseteq observed
  /\ \A t \in observed : callbacks[t] # <<>>
  /\ \A t, u \in removing : t = u

\* A watch whose member is not in the store is about to be removed.
WatchesAccounted ==
  \A c \in channels : Exists(WatcherKey(c)) \/ ToObserve(WatcherKey(c))

\* A backed watch has its member, and is not one the observer removes: the gate
\* keeps registrations out between its look at the store and the removal.
BackedSafe ==
  /\ \A c \in backed : Exists(WatcherKey(c))
  /\ \A t \in removing : \A c \in backed : WatcherKey(c) # CallbackKey(t)

WatchInv == /\ LeasedTypeOK
            /\ WatchTypes
            /\ WatchesAccounted
            /\ BackedSafe
-----------------------------------------------------------------------------
(* The store within the coordinator. *)

\* Every step of the coordinator and its clients is one of the store, or leaves
\* the store alone.
LEMMA StepOfStore == [Next]_vars => [LeasedNext]_leasedVars
<1> SUFFICES ASSUME [Next]_vars PROVE [LeasedNext]_leasedVars
  OBVIOUS
<1>1. CASE StoreStep
  BY <1>1 DEF StoreStep, LeasedNext
<1>2. ASSUME NEW t \in Threads, EnqueueMutation(t)
      PROVE  LeasedNext
  BY <1>2 DEF EnqueueMutation, LeasedNext
<1>3. ASSUME NEW t \in Threads, ObserveMutation(t) \/ RemoveMemberWatches(t)
      PROVE  UNCHANGED leasedVars
  BY <1>3 DEF ObserveMutation, RemoveMemberWatches
<1>4. ASSUME NEW q \in requests, HandleWatchRange(q) \/ RefuseWatchRange(q)
      PROVE  UNCHANGED leasedVars
  BY <1>4 DEF HandleWatchRange, RefuseWatchRange
<1>5. CASE ReadSnapshot \/ ReplyWatchRange \/ FanOutStep \/ RetryStep
  BY <1>5 DEF ReadSnapshot, ReplyWatchRange, FanOutStep, RetryStep
<1>6. ASSUME NEW t \in Worker, PrepareStep(t) \/ Deliver(t) \/ Answered(t)
      PROVE  UNCHANGED leasedVars
  BY <1>6, ZenonT(40) DEF PrepareStep, Deliver, Answered
<1>7. CASE ClientNext
  BY <1>7 DEF ClientNext, StartWatch, RetryWatch, GiveUpWatch, CancelPrevious,
              ApplySnapshot, ClearStale, MembershipRecreated
<1>8. CASE ReplyNext
  BY <1>8 DEF ReplyNext, AcceptReply, LoseReply
<1>9. ASSUME NEW a \in Client, RefreshRead(a) \/ RefreshApply(a)
      PROVE  UNCHANGED leasedVars
  BY <1>9 DEF RefreshRead, RefreshApply
<1>10. CASE UNCHANGED vars
  BY <1>10 DEF vars
<1> QED
  BY <1>1, <1>2, <1>3, <1>4, <1>5, <1>6, <1>7, <1>8, <1>9, <1>10, ZenonT(40)
     DEF Next, WatchNext, CoordinatorNext

\* The callbacks bound to the store (BindCallbacks) and the watch service do not
\* change what CoordinatorStore does: the coordinator is the store of LeasedStore.
LEMMA ContainsStore == Spec => LeasedSpec
<1>1. Init => LeasedInit
  BY DEF Init
<1> QED
  BY <1>1, StepOfStore, PTL DEF Spec, LeasedSpec

\* With watches, observers and slow callbacks in place, the coordinator still
\* keeps the promise of LeaseStore: a membership is removed only when the lease of
\* its last Put or KeepAlive has run out.
THEOREM CoordinatorKeepsLeases == Spec => KeepsLeases
  BY ContainsStore, KeepsLeasesHolds, PTL

\* No lease is forgotten in the coordinator either, so that every membership that
\* is not renewed is on its way out, whatever its callbacks wait for.
THEOREM CoordinatorForgetsNoLease == Spec => []NoLeaseForgotten
  BY ContainsStore, LeasesNotForgotten, PTL
-----------------------------------------------------------------------------
(* What the store's steps do to members and callbacks. *)

\* Delete reports every key that it erased.
LEMMA DeleteEventsCover ==
  ASSUME LeasedTypeOK, NEW keys \in SUBSET DOMAIN data,
         NEW s \in DeleteEvents(keys), NEW k \in keys
  PROVE  \E i \in 1..Len(s) : s[i].key = k
<1> DEFINE events == {DeleteEvent(x) : x \in keys}
           n == Cardinality(keys)
           f == [x \in keys |-> DeleteEvent(x)]
<1>1. IsFiniteSet(keys) /\ n \in Nat
  BY LeasedStoreAssumption, FS_Subset, FS_CardinalityType DEF LeasedTypeOK
<1>2. \A x \in keys : DeleteEvent(x).key = x
  BY DEF DeleteEvent
<1>3. f \in Bijection(keys, events)
  BY <1>2 DEF Bijection, Injection, Surjection, IsInjective
<1>4. IsFiniteSet(events) /\ Cardinality(events) = n
  <2> HIDE DEF events, f
  <2> QED
    BY <1>1, <1>3, FS_Bijection DEF ExistsBijection
<1>5. s \in Injection(1..n, events)
  BY DEF DeleteEvents, Injection, IsInjective
<1>6. IsFiniteSet(1..n) /\ Cardinality(1..n) = n
  <2> HIDE DEF n
  <2> QED
    BY <1>1, FS_Interval
<1>7. s \in Surjection(1..n, events)
  <2> HIDE DEF events, n
  <2> QED
    BY <1>4, <1>5, <1>6, FS_Injection
<1>8. PICK i \in 1..n : s[i] = DeleteEvent(k)
  BY <1>7, ZenonT(40) DEF Surjection
<1>9. Len(s) = n
  <2> HIDE DEF n
  <2>1. s \in [1..n -> events]
    BY <1>5 DEF Injection
  <2>2. DOMAIN s = 1..n /\ s \in Seq(events)
    BY <1>1, <2>1
  <2> QED
    BY <1>1, <2>2
<1> QED
  BY <1>2, <1>8, <1>9, ZenonT(40)

\* What a step of the store leaves of the callbacks, and what it owes them: a
\* thread in the middle of its callbacks does nothing else, and a key that leaves
\* the store leaves behind a callback for it.
StoreReports ==
  /\ \A t \in Threads : callbacks[t] # <<>> => callbacks'[t] = callbacks[t]
  /\ \A k \in DOMAIN data \ DOMAIN data' :
       \E t \in Threads : /\ callbacks[t] = <<>>
                          /\ \E i \in 1..Len(callbacks'[t]) : callbacks'[t][i].key = k

LEMMA PutReports ==
  ASSUME LeasedTypeOK, NEW t \in Thread, NEW k, NEW ttlMs, NEW v, NEW m,
         Put(t, k, ttlMs, v, m)
  PROVE  StoreReports
  BY DEF LeasedTypeOK, Put, Free, KvPut, StoreReports, Threads

LEMMA DeleteRangeReports ==
  ASSUME LeasedTypeOK, NEW t \in Thread, NEW scope, NEW m, DeleteRange(t, scope, m)
  PROVE  StoreReports
<1> DEFINE keys == scope \cap DOMAIN data
<1>1. PICK s \in DeleteEvents(keys) : callbacks' = [callbacks EXCEPT ![t] = s]
  BY ZenonT(40) DEF DeleteRange
<1>2. \A k \in keys : \E i \in 1..Len(s) : s[i].key = k
  BY DeleteEventsCover, ZenonT(40)
<1>3. t \in Threads /\ callbacks[t] = <<>> /\ callbacks'[t] = s
  BY <1>1, ZenonT(40) DEF DeleteRange, Free, Threads, LeasedTypeOK
<1>4. DOMAIN data \ DOMAIN data' = keys
  BY DEF DeleteRange, KvErase
<1>5. \A u \in Threads : callbacks[u] # <<>> => callbacks'[u] = callbacks[u]
  BY <1>1, <1>3, ZenonT(40) DEF LeasedTypeOK
<1> QED
  BY <1>2, <1>3, <1>4, <1>5 DEF StoreReports

LEMMA ExpireKeyReports ==
  ASSUME LeasedTypeOK, NEW r, ExpireKey(r)
  PROVE  StoreReports
<1>1. CASE TtlExpiredMatches(r.key, r.revision, r.ttlGeneration)
  <2>1. /\ callbacks[TtlThread] = <<>>
        /\ callbacks' = [callbacks EXCEPT ![TtlThread] = <<DeleteEvent(r.key)>>]
        /\ data' = [x \in DOMAIN data \ {r.key} |-> data[x]]
    BY <1>1, ZenonT(40) DEF ExpireKey, KvErase
  <2>2. TtlThread \in Threads /\ callbacks'[TtlThread] = <<DeleteEvent(r.key)>>
    BY <2>1 DEF LeasedTypeOK, Threads
  <2>3. Len(callbacks'[TtlThread]) = 1 /\ callbacks'[TtlThread][1].key = r.key
    BY <2>2 DEF DeleteEvent
  <2>4. \A k \in DOMAIN data \ DOMAIN data' : k = r.key
    BY <2>1
  <2>5. \E i \in 1..Len(callbacks'[TtlThread]) : callbacks'[TtlThread][i].key = r.key
    BY <2>3
  <2>6. \A t \in Threads : callbacks[t] # <<>> => callbacks'[t] = callbacks[t]
    BY <2>1, ZenonT(40) DEF LeasedTypeOK
  <2>7. ASSUME NEW k \in DOMAIN data \ DOMAIN data'
        PROVE  \E t \in Threads : /\ callbacks[t] = <<>>
                                  /\ \E i \in 1..Len(callbacks'[t]) : callbacks'[t][i].key = k
    <3>1. k = r.key
      BY <2>4
    <3> QED
      BY <2>1, <2>2, <2>5, <3>1
  <2> QED
    BY <2>6, <2>7, ZenonT(40) DEF StoreReports
<1>2. CASE ~TtlExpiredMatches(r.key, r.revision, r.ttlGeneration)
  BY <1>2 DEF ExpireKey, StoreReports, kvVars
<1> QED
  BY <1>1, <1>2

LEMMA StoreStepReports ==
  ASSUME LeasedTypeOK, StoreStep
  PROVE  StoreReports
<1>1. ASSUME NEW t \in Thread, Request(t)
      PROVE  StoreReports
  <2>1. ASSUME NEW k \in Key, NEW m \in Fence, KeepAlive(t, k, m)
        PROVE  StoreReports
    BY <2>1, ZenonT(40) DEF KeepAlive, KvKeepAlive, StoreReports, LeasedTypeOK
  <2> QED
    BY <1>1, <2>1, PutReports, DeleteRangeReports, ZenonT(40) DEF Request
<1>2. ASSUME NEW t \in Thread, Schedule(t)
      PROVE  StoreReports
  BY <1>2 DEF Schedule, StoreReports, kvVars
<1>3. CASE Expiry
  <2>1. ASSUME NEW keys \in SUBSET Key, CheckExpiration(keys)
        PROVE  StoreReports
    BY <2>1 DEF CheckExpiration, StoreReports, kvVars, callVars
  <2> QED
    BY <1>3, <2>1, ExpireKeyReports, ZenonT(40) DEF Expiry
<1>4. CASE ClockTick
  BY <1>4 DEF ClockTick, StoreReports, kvVars, callVars
<1> QED
  BY <1>1, <1>2, <1>3, <1>4 DEF StoreStep
-----------------------------------------------------------------------------
(* The invariant. *)

LEMMA WatchInitially == Init => WatchInv
<1> SUFFICES ASSUME Init PROVE WatchInv
  OBVIOUS
<1>1. LeasedTypeOK
  BY InitType DEF Init
<1>2. channels = {} /\ backed = {} /\ observed = {} /\ removing = {} /\ requests = {}
  BY DEF Init, DispatcherInit
<1>3. channelAddr \in [WatchId -> Client \cup {"none"}]
  BY DEF Init
<1> QED
  BY <1>1, <1>2, <1>3 DEF WatchInv, WatchTypes, WatchesAccounted, BackedSafe

\* A step that leaves store, observer and addresses alone, and adds no channel.
LEMMA ShrinkInv ==
  ASSUME WatchInv, UNCHANGED <<leasedVars, observed, removing, channelAddr, backed>>,
         channels' \subseteq channels, \A q \in requests' : q.addr \in Client
  PROVE  WatchInv'
<1>1. UNCHANGED <<data, callbacks, observed, removing, channelAddr, backed>>
  BY DEF leasedVars, kvVars, callVars
<1>2. LeasedTypeOK'
  BY NextType, ZenonT(40) DEF WatchInv
<1>3. WatchTypes'
  BY <1>1 DEF WatchInv, WatchTypes
<1>4. WatchesAccounted'
  <2> SUFFICES ASSUME NEW c \in channels'
               PROVE  Exists(WatcherKey(c))' \/ ToObserve(WatcherKey(c))'
    BY DEF WatchesAccounted
  <2>1. Exists(WatcherKey(c)) \/ ToObserve(WatcherKey(c))
    BY DEF WatchInv, WatchesAccounted
  <2>2. WatcherKey(c)' = WatcherKey(c)
    BY <1>1 DEF WatcherKey
  <2> QED
    BY <1>1, <2>1, <2>2 DEF Exists, ToObserve
<1>5. BackedSafe'
  BY <1>1 DEF WatchInv, BackedSafe, WatcherKey, Exists, CallbackKey
<1> QED
  BY <1>2, <1>3, <1>4, <1>5 DEF WatchInv

\* A mutation may take the member of a watch away; the callback it leaves has
\* then yet to be observed.
LEMMA StoreStepInv ==
  ASSUME WatchInv, StoreStep
  PROVE  WatchInv'
<1>1. StoreReports
  BY StoreStepReports, ZenonT(40) DEF WatchInv
<1>2. /\ UNCHANGED <<channels, observed, removing, requests, channelAddr>>
      /\ backed' = StillBacked
  BY DEF StoreStep, dispatcherVars, channelVars
<1>3. LeasedTypeOK'
  <2>1. LeasedNext
    BY ZenonT(40) DEF StoreStep, LeasedNext
  <2> QED
    BY <2>1, NextType DEF WatchInv
<1>4. \A t \in observed : t \in Threads /\ callbacks[t] # <<>> /\ callbacks'[t] = callbacks[t]
  BY <1>1 DEF StoreReports, WatchInv, WatchTypes
<1>5. WatchTypes'
  BY <1>2, <1>4 DEF WatchInv, WatchTypes, StillBacked
<1>6. WatchesAccounted'
  <2> SUFFICES ASSUME NEW c \in channels'
               PROVE  Exists(WatcherKey(c))' \/ ToObserve(WatcherKey(c))'
    BY DEF WatchesAccounted
  <2> DEFINE k == WatcherKey(c)
  <2>1. WatcherKey(c)' = k
    BY <1>2 DEF WatcherKey
  <2>2. CASE Exists(k) /\ k \notin DOMAIN data'
    <3>1. PICK t \in Threads : /\ callbacks[t] = <<>>
                               /\ \E i \in 1..Len(callbacks'[t]) : callbacks'[t][i].key = k
      BY <1>1, <2>2, ZenonT(40) DEF StoreReports, Exists
    <3>2. t \notin observed'
      BY <1>2, <1>4, <3>1, ZenonT(40)
    <3> QED
      BY <2>1, <3>1, <3>2, ZenonT(40) DEF ToObserve
  <2>3. CASE ~Exists(k)
    <3>1. ToObserve(k)
      BY <1>2, <2>3 DEF WatchInv, WatchesAccounted
    <3>2. PICK t \in Threads : \E i \in 1..Len(callbacks[t]) :
                                 /\ callbacks[t][i].key = k
                                 /\ i > 1 \/ t \notin observed \/ t \in removing
      BY <3>1 DEF ToObserve
    <3>3. callbacks'[t] = callbacks[t]
      BY <1>1, <3>2 DEF StoreReports
    <3> QED
      BY <1>2, <2>1, <3>2, <3>3 DEF ToObserve
  <2> QED
    BY <2>1, <2>2, <2>3 DEF Exists
<1>7. BackedSafe'
  <2>1. \A c \in backed' : Exists(WatcherKey(c))'
    BY <1>2, ZenonT(40) DEF StillBacked, WatcherKey, Exists
  <2>2. \A t \in removing' : CallbackKey(t)' = CallbackKey(t)
    BY <1>2, <1>4 DEF WatchInv, WatchTypes, CallbackKey
  <2>3. \A c \in backed' : c \in backed /\ WatcherKey(c)' = WatcherKey(c)
    BY <1>2 DEF StillBacked, WatcherKey
  <2> QED
    BY <1>2, <2>1, <2>2, <2>3, ZenonT(40) DEF WatchInv, BackedSafe
<1> QED
  BY <1>3, <1>5, <1>6, <1>7 DEF WatchInv

\* The observer looks again: either the member is back, or it will remove.
LEMMA ObserveMutationInv ==
  ASSUME WatchInv, NEW t \in Threads, ObserveMutation(t)
  PROVE  WatchInv'
<1>1. /\ UNCHANGED <<leasedVars, channels, requests, channelAddr, backed>>
      /\ UNCHANGED <<data, callbacks>>
      /\ callbacks[t] # <<>> /\ t \notin observed /\ removing = {}
      /\ observed' = observed \cup {t}
      /\ removing' = IF MemberGone(t) THEN {t} ELSE {}
  BY ZenonT(40) DEF ObserveMutation, GateFree, dispatcherVars, channelVars, leasedVars, kvVars, callVars
<1>2. LeasedTypeOK'
  BY <1>1, NextType, ZenonT(40) DEF WatchInv
<1>3. WatchTypes'
  BY <1>1 DEF WatchInv, WatchTypes
<1>5. CallbackKey(t)' = CallbackKey(t) /\ CallbackKey(t) = callbacks[t][1].key
  BY <1>1 DEF CallbackKey, WatchInv, LeasedTypeOK
<1>6. WatchesAccounted'
  <2>1. ASSUME NEW k, ToObserve(k), ~Exists(k)
        PROVE  ToObserve(k)'
    <3>1. PICK u \in Threads : \E i \in 1..Len(callbacks[u]) :
                                 /\ callbacks[u][i].key = k
                                 /\ i > 1 \/ u \notin observed \/ u \in removing
      BY <2>1, ZenonT(40) DEF ToObserve
    <3>2. PICK i \in 1..Len(callbacks[u]) : /\ callbacks[u][i].key = k
                                            /\ i > 1 \/ u \notin observed \/ u \in removing
      BY <3>1, ZenonT(40)
    <3>3. i = 1 /\ u = t => u \in removing'
      BY <1>1, <1>5, <2>1, <3>2, ZenonT(40) DEF MemberGone
    <3>4. i > 1 \/ u \notin observed' \/ u \in removing'
      BY <1>1, <3>2, <3>3
    <3> QED
      BY <1>1, <3>2, <3>4, ZenonT(40) DEF ToObserve
  <2>2. \A c \in channels : WatcherKey(c)' = WatcherKey(c)
    BY <1>1, ZenonT(40) DEF WatcherKey
  <2> QED
    BY <1>1, <2>1, <2>2, ZenonT(40) DEF WatchInv, WatchesAccounted, Exists
<1>7. BackedSafe'
  <2>1. \A c \in backed : WatcherKey(c)' = WatcherKey(c) /\ Exists(WatcherKey(c))
    BY <1>1, ZenonT(40) DEF WatcherKey, WatchInv, BackedSafe
  <2>2. MemberGone(t) => \A c \in backed : WatcherKey(c) # CallbackKey(t)
    BY <2>1 DEF MemberGone
  <2> QED
    BY <1>1, <1>5, <2>1, <2>2, ZenonT(40) DEF BackedSafe, Exists
<1> QED
  BY <1>2, <1>3, <1>6, <1>7, ZenonT(40) DEF WatchInv

\* RemoveChannelsByWatcherInScopes leaves no watch of the member; the callback it
\* ran for has done its work.
LEMMA RemoveMemberWatchesInv ==
  ASSUME WatchInv, NEW t \in Threads, RemoveMemberWatches(t)
  PROVE  /\ WatchInv'
         /\ backed \cap channels \subseteq channels'
<1>1. /\ UNCHANGED <<leasedVars, data, callbacks, observed, requests, channelAddr, backed>>
      /\ t \in removing /\ removing' = {}
      /\ channels' = channels \ WatchesOfKey(CallbackKey(t))
  BY ZenonT(40) DEF RemoveMemberWatches, RemoveChannels, leasedVars, kvVars, callVars
<1>2. removing = {t} /\ t \in observed
  BY <1>1, ZenonT(40) DEF WatchInv, WatchTypes
<1>3. CallbackKey(t) = callbacks[t][1].key
  BY <1>2 DEF CallbackKey, WatchInv, WatchTypes, LeasedTypeOK
<1>4. \A c \in channels : c \in channels' <=> WatcherKey(c) # CallbackKey(t)
  BY <1>1 DEF WatchesOfKey, MembersOf, WatcherKey, WatchInv, WatchTypes
<1>5. \A c \in WatchId : WatcherKey(c)' = WatcherKey(c)
  BY <1>1 DEF WatcherKey
<1>6. LeasedTypeOK'
  BY <1>1, NextType, ZenonT(40) DEF WatchInv
<1>7. WatchTypes'
  BY <1>1 DEF WatchInv, WatchTypes
<1>8. WatchesAccounted'
  <2>1. ASSUME NEW k, ToObserve(k), k # CallbackKey(t)
        PROVE  ToObserve(k)'
    <3>1. PICK u \in Threads : \E i \in 1..Len(callbacks[u]) :
                                 /\ callbacks[u][i].key = k
                                 /\ i > 1 \/ u \notin observed \/ u \in removing
      BY <2>1, ZenonT(40) DEF ToObserve
    <3>2. PICK i \in 1..Len(callbacks[u]) :
            callbacks[u][i].key = k /\ (i > 1 \/ u \notin observed \/ u \in removing)
      BY <3>1, ZenonT(40)
    <3>3. i > 1 \/ u \notin observed
      BY <1>2, <1>3, <2>1, <3>2
    <3> QED
      BY <1>1, <3>2, <3>3, ZenonT(40) DEF ToObserve
  <2>2. \A c \in channels' : /\ c \in channels
                             /\ WatcherKey(c)' = WatcherKey(c)
                             /\ WatcherKey(c) # CallbackKey(t)
    BY <1>1, <1>4, <1>5, ZenonT(40) DEF WatchInv, WatchTypes
  <2> QED
    BY <1>1, <2>1, <2>2, ZenonT(40) DEF WatchInv, WatchesAccounted, Exists
<1>9. BackedSafe'
  BY <1>1 DEF WatchInv, BackedSafe, WatcherKey, Exists
<1>10. backed \cap channels \subseteq channels'
  BY <1>1, <1>4, ZenonT(40) DEF WatchInv, BackedSafe
<1> QED
  BY <1>6, <1>7, <1>8, <1>9, <1>10, ZenonT(40) DEF WatchInv

\* The callback that returns has been observed, or concerns no client.
LEMMA EnqueueMutationInv ==
  ASSUME WatchInv, NEW t \in Threads, EnqueueMutation(t)
  PROVE  WatchInv'
<1>1. /\ UNCHANGED <<data, channels, removing, requests, channelAddr, backed>>
      /\ callbacks' = [callbacks EXCEPT ![t] = Tail(@)] /\ callbacks[t] # <<>>
      /\ observed' = observed \ {t} /\ t \notin removing
      /\ t \in observed \/ MembersOf(CallbackKey(t)) = {}
  BY DEF EnqueueMutation, CallbackDone, Enqueue, channelVars, kvVars
<1>2. LeasedTypeOK'
  <2>1. CallbackDone(t)
    BY DEF EnqueueMutation
  <2> QED
    BY <2>1, CallbackDoneType DEF WatchInv
<1>3. callbacks \in [Threads -> Seq(Event)]
  BY DEF WatchInv, LeasedTypeOK
<1>4. \A u \in Threads \ {t} : callbacks'[u] = callbacks[u]
  BY <1>1, <1>3, ZenonT(40)
<1>5. WatchTypes'
  BY <1>1, <1>4 DEF WatchInv, WatchTypes
<1>6. WatchesAccounted'
  <2>1. ASSUME NEW k, ToObserve(k), t \in observed \/ k # CallbackKey(t)
        PROVE  ToObserve(k)'
    <3>1. PICK u \in Threads : \E i \in 1..Len(callbacks[u]) :
                                 /\ callbacks[u][i].key = k
                                 /\ i > 1 \/ u \notin observed \/ u \in removing
      BY <2>1, ZenonT(40) DEF ToObserve
    <3>2. PICK i \in 1..Len(callbacks[u]) :
            callbacks[u][i].key = k /\ (i > 1 \/ u \notin observed \/ u \in removing)
      BY <3>1
    <3>3. CASE u # t
      BY <1>1, <1>4, <3>2, <3>3, ZenonT(40) DEF ToObserve
    <3>4. CASE u = t
      <4>1. callbacks[t] \in Seq(Event) /\ callbacks[t] # <<>>
        BY <1>1, <1>3
      <4>2. i > 1
        BY <1>1, <2>1, <3>2, <3>4, <4>1 DEF CallbackKey
      <4>3. callbacks'[t] = Tail(callbacks[t])
        BY <1>1, <1>3, ZenonT(40)
      <4>4. i - 1 \in 1..Len(callbacks'[t]) /\ callbacks'[t][i - 1].key = k
        BY <3>2, <3>4, <4>1, <4>2, <4>3
      <4> QED
        BY <1>1, <4>4, ZenonT(40) DEF ToObserve
    <3> QED
      BY <3>3, <3>4, ZenonT(40)
  <2>2. \A c \in channels : /\ WatcherKey(c)' = WatcherKey(c)
                            /\ t \in observed \/ WatcherKey(c) # CallbackKey(t)
    BY <1>1, ZenonT(40) DEF WatcherKey, MembersOf, WatchInv, WatchTypes
  <2> QED
    BY <1>1, <2>1, <2>2 DEF WatchInv, WatchesAccounted, Exists
<1>7. BackedSafe'
  <2>1. \A u \in removing : CallbackKey(u)' = CallbackKey(u)
    BY <1>1, <1>4 DEF CallbackKey, WatchInv, WatchTypes
  <2> QED
    BY <1>1, <2>1, ZenonT(40) DEF WatchInv, BackedSafe, WatcherKey, Exists
<1> QED
  BY <1>2, <1>5, <1>6, <1>7, ZenonT(40) DEF WatchInv

\* WatchRange registers a watch only for a member that it finds in the store, and
\* only while no observer is between its look and its removal.
LEMMA HandleWatchRangeInv ==
  ASSUME WatchInv, NEW q \in requests, HandleWatchRange(q)
  PROVE  WatchInv'
<1>0. PICK w : w = RegisteredId(q.registrationId)
  OBVIOUS
<1>1. /\ UNCHANGED <<leasedVars, data, callbacks, observed, removing>>
      /\ removing = {} /\ Exists(MemberKey[q.addr]) /\ w \in WatchId
      /\ requests' = requests \ {q} /\ q.addr \in Client
  BY <1>0, ZenonT(40) DEF HandleWatchRange, GateFree, CheckWatcherMembership, leasedVars, kvVars, callVars,
         WatchInv, WatchTypes
<1>2. CASE w \in DOMAIN watchers
  <2>1. UNCHANGED <<channels, channelAddr, backed>>
    BY <1>0, <1>2 DEF HandleWatchRange, dispatcherVars, channelVars
  <2> QED
    BY <1>1, <2>1, ShrinkInv, ZenonT(40) DEF WatchInv, WatchTypes
<1>3. CASE w \notin DOMAIN watchers
  <2>1. /\ channels' = channels \cup {w}
        /\ channelAddr' = [channelAddr EXCEPT ![w] = q.addr]
        /\ backed' = backed \cup {w}
    BY <1>0, <1>3, ZenonT(40) DEF HandleWatchRange, AddChannel
  <2>2. LeasedTypeOK'
    BY <1>1, NextType, ZenonT(40) DEF WatchInv
  <2>3. WatchTypes'
    BY <1>1, <2>1, ZenonT(40) DEF WatchInv, WatchTypes
  <2>4. /\ WatcherKey(w)' = MemberKey[q.addr]
        /\ \A c \in WatchId \ {w} : WatcherKey(c)' = WatcherKey(c)
    BY <1>1, <2>1, ZenonT(40) DEF WatcherKey, WatchInv, WatchTypes
  <2>5. \A k : (Exists(k)' <=> Exists(k)) /\ (ToObserve(k) => ToObserve(k)')
    BY <1>1, ZenonT(40) DEF Exists, ToObserve
  <2>6. WatchesAccounted'
    BY <1>1, <2>1, <2>4, <2>5, ZenonT(40) DEF WatchInv, WatchTypes, WatchesAccounted
  <2>7. BackedSafe'
    BY <1>1, <2>1, <2>4, <2>5, ZenonT(40) DEF WatchInv, WatchTypes, BackedSafe
  <2> QED
    BY <2>2, <2>3, <2>6, <2>7 DEF WatchInv
<1> QED
  BY <1>2, <1>3

\* A refused call, and every step of delivery and of the clients, adds no channel.
LEMMA OtherCoordinatorInv ==
  ASSUME WatchInv,
         \/ \E q \in requests : RefuseWatchRange(q)
         \/ ReadSnapshot
         \/ ReplyWatchRange
         \/ FanOutStep
         \/ \E t \in Worker : PrepareStep(t) \/ Deliver(t) \/ Answered(t)
         \/ RetryStep
  PROVE  WatchInv'
<1>1. ASSUME NEW q \in requests, RefuseWatchRange(q)
      PROVE  WatchInv'
  <2>1. /\ UNCHANGED <<leasedVars, channels, observed, removing, channelAddr, backed>>
        /\ requests' = requests \ {q}
    BY <1>1, ZenonT(40) DEF RefuseWatchRange, dispatcherVars, channelVars
  <2> QED
    BY <2>1, ShrinkInv, ZenonT(40) DEF WatchInv, WatchTypes
<1>2. CASE ReadSnapshot
  <2>1. UNCHANGED <<leasedVars, channels, observed, removing, channelAddr, backed, requests>>
    BY <1>2, ZenonT(40) DEF ReadSnapshot, dispatcherVars, channelVars
  <2> QED
    BY <2>1, ShrinkInv, ZenonT(40) DEF WatchInv, WatchTypes
<1>3. CASE ReplyWatchRange
  <2>1. UNCHANGED <<leasedVars, channels, observed, removing, channelAddr, backed, requests>>
    BY <1>3, ZenonT(40) DEF ReplyWatchRange, SetSnapshotRevision
  <2> QED
    BY <2>1, ShrinkInv, ZenonT(40) DEF WatchInv, WatchTypes
<1>4. CASE FanOutStep
  <2>1. UNCHANGED <<leasedVars, channels, observed, removing, channelAddr, backed, requests>>
    BY <1>4, ZenonT(40) DEF FanOutStep, FanOutTake, FanOutOverflow, FanOutEvent, RewatchAll, channelVars,
                systemVars
  <2> QED
    BY <2>1, ShrinkInv, ZenonT(40) DEF WatchInv, WatchTypes
<1>5. ASSUME NEW t \in Worker, PrepareStep(t)
      PROVE  WatchInv'
  <2>1. UNCHANGED <<leasedVars, channels, observed, removing, channelAddr, backed, requests>>
    BY <1>5, ZenonT(40) DEF PrepareStep, PrepareChannelEvents, systemVars
  <2> QED
    BY <2>1, ShrinkInv, ZenonT(40) DEF WatchInv, WatchTypes
<1>6. ASSUME NEW t \in Worker, Deliver(t)
      PROVE  WatchInv'
  <2>1. UNCHANGED <<leasedVars, channels, observed, removing, channelAddr, backed, requests>>
    BY <1>6, ZenonT(40) DEF Deliver, dispatcherVars, channelVars
  <2> QED
    BY <2>1, ShrinkInv, ZenonT(40) DEF WatchInv, WatchTypes
<1>7. ASSUME NEW t \in Worker, Answered(t)
      PROVE  WatchInv'
  <2>1. UNCHANGED <<leasedVars, observed, removing, channelAddr, backed, requests>>
    BY <1>7, ZenonT(40) DEF Answered
  <2>2. channels' \subseteq channels
    BY <1>7, ZenonT(40) DEF Answered, NotifyCancelled, NotifyOk, NotifyRemoves, NotifyRetryLater,
                RemoveChannels, channelVars
  <2> QED
    BY <2>1, <2>2, ShrinkInv, ZenonT(40) DEF WatchInv, WatchTypes
<1>8. CASE RetryStep
  <2>1. UNCHANGED <<leasedVars, channels, observed, removing, channelAddr, backed, requests>>
    BY <1>8 DEF RetryStep, RetryDue, systemVars
  <2> QED
    BY <2>1, ShrinkInv, ZenonT(40) DEF WatchInv, WatchTypes
<1> QED
  BY <1>1, <1>2, <1>3, <1>4, <1>5, <1>6, <1>7, <1>8, ZenonT(40)

LEMMA ClientInv ==
  ASSUME WatchInv, NEW a \in Client,
         \/ StartWatch(a) \/ RetryWatch(a) \/ GiveUpWatch(a) \/ CancelPrevious(a)
         \/ ApplySnapshot(a) \/ ClearStale(a) \/ MembershipRecreated(a)
         \/ RefreshRead(a) \/ RefreshApply(a)
  PROVE  WatchInv'
<1>1. UNCHANGED <<leasedVars, observed, removing, channelAddr, backed>>
  BY ZenonT(40) DEF StartWatch, RetryWatch, GiveUpWatch, CancelPrevious, ApplySnapshot, ClearStale,
         MembershipRecreated, RefreshRead, RefreshApply, systemVars
<1>2. channels' \subseteq channels
  BY ZenonT(40) DEF StartWatch, RetryWatch, GiveUpWatch, CancelPrevious, ApplySnapshot, ClearStale,
         MembershipRecreated, RefreshRead, RefreshApply, dispatcherVars, channelVars,
         RemoveChannels
<1>3. requests' = requests \/ requests' = requests \cup {Call(a)}
  BY ZenonT(40) DEF StartWatch, RetryWatch, GiveUpWatch, CancelPrevious, ApplySnapshot, ClearStale,
         MembershipRecreated, RefreshRead, RefreshApply, systemVars
<1>4. \A q \in requests' : q.addr \in Client
  <2>1. Call(a).addr = a
    BY ZenonT(40) DEF Call
  <2> QED
    BY <1>3, <2>1, ZenonT(40) DEF WatchInv, WatchTypes
<1> QED
  BY <1>1, <1>2, <1>4, ShrinkInv, ZenonT(40)

LEMMA ReplyInv ==
  ASSUME WatchInv, NEW r \in replies, AcceptReply(r) \/ LoseReply(r)
  PROVE  WatchInv'
<1>1. UNCHANGED <<leasedVars, channels, observed, removing, channelAddr, backed, requests>>
  BY ZenonT(40) DEF AcceptReply, LoseReply, dispatcherVars, channelVars
<1> QED
  BY <1>1, ShrinkInv, ZenonT(40) DEF WatchInv, WatchTypes

\* Every step keeps the invariant, and removes no backed watch as an observer.
LEMMA WatchStep ==
  ASSUME WatchInv, [Next]_vars
  PROVE  /\ WatchInv'
         /\ \A t \in Threads : t \in removing \ removing'
                                 => backed \cap channels \subseteq channels'
<1>1. CASE StoreStep
  <2>1. removing' = removing
    BY <1>1, ZenonT(40) DEF StoreStep
  <2> QED
    BY <1>1, <2>1, StoreStepInv, ZenonT(40)
<1>2. ASSUME NEW t \in Threads, ObserveMutation(t)
      PROVE  WatchInv' /\ removing = {}
  BY <1>2, ObserveMutationInv, ZenonT(40) DEF ObserveMutation, GateFree
<1>3. ASSUME NEW t \in Threads, RemoveMemberWatches(t)
      PROVE  WatchInv' /\ backed \cap channels \subseteq channels'
  BY <1>3, RemoveMemberWatchesInv
<1>4. ASSUME NEW t \in Threads, EnqueueMutation(t)
      PROVE  WatchInv' /\ removing' = removing
  <2>1. removing' = removing
    BY <1>4 DEF EnqueueMutation
  <2> QED
    BY <1>4, <2>1, EnqueueMutationInv
<1>5. ASSUME NEW q \in requests, HandleWatchRange(q)
      PROVE  WatchInv' /\ removing' = removing
  <2>1. removing' = removing
    BY <1>5 DEF HandleWatchRange
  <2> QED
    BY <1>5, <2>1, HandleWatchRangeInv
<1>6. ASSUME \/ \E q \in requests : RefuseWatchRange(q)
             \/ ReadSnapshot
             \/ ReplyWatchRange
             \/ FanOutStep
             \/ \E t \in Worker : PrepareStep(t) \/ Deliver(t) \/ Answered(t)
             \/ RetryStep
      PROVE  WatchInv' /\ removing' = removing
  <2>1. removing' = removing
    BY <1>6 DEF RefuseWatchRange, ReadSnapshot, ReplyWatchRange, FanOutStep, PrepareStep, Deliver,
                Answered, RetryStep, systemVars
  <2> QED
    BY <1>6, <2>1, OtherCoordinatorInv, ZenonT(40)
<1>7. ASSUME NEW a \in Client,
             \/ StartWatch(a) \/ RetryWatch(a) \/ GiveUpWatch(a) \/ CancelPrevious(a)
             \/ ApplySnapshot(a) \/ ClearStale(a) \/ MembershipRecreated(a)
             \/ RefreshRead(a) \/ RefreshApply(a)
      PROVE  WatchInv' /\ removing' = removing
  <2>1. removing' = removing
    BY <1>7, ZenonT(40) DEF StartWatch, RetryWatch, GiveUpWatch, CancelPrevious, ApplySnapshot, ClearStale,
                MembershipRecreated, RefreshRead, RefreshApply, systemVars
  <2> QED
    BY <1>7, <2>1, ClientInv, ZenonT(40)
<1>8. ASSUME NEW r \in replies, AcceptReply(r) \/ LoseReply(r)
      PROVE  WatchInv' /\ removing' = removing
  <2>1. removing' = removing
    BY <1>8, ZenonT(40) DEF AcceptReply, LoseReply
  <2> QED
    BY <1>8, <2>1, ReplyInv, ZenonT(40)
<1>9. CASE UNCHANGED vars
  <2>1. UNCHANGED <<leasedVars, channels, observed, removing, channelAddr, backed, requests>>
    BY <1>9 DEF vars, dispatcherVars, channelVars, systemVars
  <2> QED
    BY <2>1, ShrinkInv, ZenonT(40) DEF WatchInv, WatchTypes
<1> QED
  BY <1>1, <1>2, <1>3, <1>4, <1>5, <1>6, <1>7, <1>8, <1>9, ZenonT(40)
     DEF Next, WatchNext, CoordinatorNext, ClientNext, ReplyNext

LEMMA WatchInvariance == Spec => []WatchInv
  BY WatchInitially, WatchStep, PTL DEF Spec

\* Once the callbacks of its deletion have run, a departed member has no watch:
\* the gate (membershipWatchMutex_) orders WatchRange's membership check and its
\* registration against the observer, however many threads delete, expire, create
\* again and register at once.
THEOREM DepartedLeaveNoWatch == Spec => []DepartedWatchesRemoved
<1>1. WatchInv => DepartedWatchesRemoved
  <2> SUFFICES ASSUME WatchInv, NEW a \in Client, ~Exists(MemberKey[a]),
                      \A t \in Threads : \A i \in DOMAIN callbacks[t] :
                        callbacks[t][i].key # MemberKey[a],
                      NEW c \in channels, channelAddr[c] = a
               PROVE  FALSE
    BY ZenonT(40) DEF DepartedWatchesRemoved
  <2>1. ToObserve(MemberKey[a])
    BY ZenonT(40) DEF WatchInv, WatchesAccounted, WatcherKey
  <2>2. \A t \in Threads : DOMAIN callbacks[t] = 1..Len(callbacks[t])
    BY DEF WatchInv, LeasedTypeOK
  <2> QED
    BY <2>1, <2>2, ZenonT(40) DEF ToObserve
<1> QED
  BY <1>1, WatchInvariance, PTL

\* The observer never removes the watch of a member that has been in the store
\* since the watch was registered, although it runs after the mutation it is told
\* of, when the member may have been created, watched and deleted again.
THEOREM ObserverSpares == Spec => ObserverSparesLiveMembers
<1>1. WatchInv /\ [Next]_vars
        => [\A t \in Threads : t \in removing \ removing'
                                 => backed \cap channels \subseteq channels']_vars
  BY WatchStep, ZenonT(40)
<1> QED
  BY <1>1, WatchInvariance, PTL DEF Spec, ObserverSparesLiveMembers
-----------------------------------------------------------------------------
(* The dispatcher within the coordinator. *)

\* Registration ids and revisions that reach the registry and the dispatcher.
SessionTypes ==
  /\ registrationId \in [Client -> Nat]
  /\ nextRegistration \in Nat
  /\ \A q \in requests : q.registrationId \in Nat
  /\ watchCall \in [addr : {watchCall.addr}, registrationId : {watchCall.registrationId},
                    attempt : {watchCall.attempt}, at : {watchCall.at},
                    watchId : {watchCall.watchId}, revision : Nat,
                    members : {watchCall.members}]

LEMMA SessionInitially == Init => SessionTypes
BY DEF Init, ClientInit, NoCall, SessionTypes

LEMMA SessionRests ==
  ASSUME SessionTypes, UNCHANGED <<registrationId, nextRegistration, watchCall>>,
         requests' \subseteq requests
  PROVE  SessionTypes'
BY ZenonT(40) DEF SessionTypes

LEMMA SessionCalls ==
  ASSUME SessionTypes, NEW a \in Client, StartWatch(a) \/ RetryWatch(a)
  PROVE  SessionTypes'
<1>1. requests' = requests \cup {Call(a)} /\ watchCall' = watchCall
  BY ZenonT(40) DEF StartWatch, RetryWatch
<1>2. registrationId' \in [Client -> Nat] /\ nextRegistration' \in Nat
  <2>1. registrationId \in [Client -> Nat] /\ nextRegistration \in Nat
    BY ZenonT(40) DEF SessionTypes
  <2>2. \/ UNCHANGED <<registrationId, nextRegistration>>
        \/ /\ registrationId' = [registrationId EXCEPT ![a] = nextRegistration]
           /\ nextRegistration' = nextRegistration + 1
    BY ZenonT(40) DEF StartWatch, RetryWatch, RegisterWatchPlan, RetryWatchRange
  <2> QED BY <2>1, <2>2
<1>3. Call(a).registrationId \in Nat
  BY <1>2, ZenonT(40) DEF Call
<1> QED BY <1>1, <1>2, <1>3, ZenonT(40) DEF SessionTypes

LEMMA SessionStep ==
  ASSUME LeasedTypeOK, SessionTypes, [Next]_vars
  PROVE  SessionTypes'
<1> USE DEF clientVars, sessionVars
<1>1. CASE StoreStep \/ FanOutStep \/ RetryStep
  BY <1>1, SessionRests, ZenonT(40) DEF StoreStep, FanOutStep, RetryStep, systemVars
<1>2. ASSUME NEW t \in Threads,
             ObserveMutation(t) \/ RemoveMemberWatches(t) \/ EnqueueMutation(t)
      PROVE  SessionTypes'
  BY <1>2, SessionRests, ZenonT(40) DEF ObserveMutation, RemoveMemberWatches, EnqueueMutation
<1>3. ASSUME NEW q \in requests, HandleWatchRange(q)
      PROVE  SessionTypes'
  <2>1. /\ UNCHANGED <<registrationId, nextRegistration>> /\ requests' = requests \ {q}
        /\ watchCall' = [NoCall EXCEPT !.addr = q.addr, !.attempt = q.attempt,
                                       !.registrationId = q.registrationId, !.at = "range",
                                       !.watchId = RegisteredId(q.registrationId)]
    BY <1>3, ZenonT(40) DEF HandleWatchRange
  <2>2. watchCall' \in [addr : {watchCall'.addr}, registrationId : {watchCall'.registrationId},
                        attempt : {watchCall'.attempt}, at : {watchCall'.at},
                        watchId : {watchCall'.watchId}, revision : Nat,
                        members : {watchCall'.members}]
    BY <2>1, ZenonT(40) DEF NoCall
  <2> QED BY <2>1, <2>2, ZenonT(40) DEF SessionTypes
<1>4. ASSUME NEW q \in requests, RefuseWatchRange(q)
      PROVE  SessionTypes'
  BY <1>4, SessionRests, ZenonT(40) DEF RefuseWatchRange, AbandonWatchPlan
<1>5. CASE ReadSnapshot
  <2>1. /\ UNCHANGED <<registrationId, nextRegistration, requests>>
        /\ watchCall' = [watchCall EXCEPT !.at = "snapshot", !.revision = revision,
                                          !.members = KvRange(Key)]
    BY <1>5, ZenonT(40) DEF ReadSnapshot
  <2>2. revision \in Nat
    BY DEF LeasedTypeOK
  <2>3. watchCall' \in [addr : {watchCall'.addr}, registrationId : {watchCall'.registrationId},
                        attempt : {watchCall'.attempt}, at : {watchCall'.at},
                        watchId : {watchCall'.watchId}, revision : Nat,
                        members : {watchCall'.members}]
    BY <2>1, <2>2, ZenonT(40) DEF SessionTypes
  <2> QED BY <2>1, <2>3, ZenonT(40) DEF SessionTypes
<1>6. CASE ReplyWatchRange
  <2>1. UNCHANGED <<registrationId, nextRegistration, requests>> /\ watchCall' = NoCall
    BY <1>6, ZenonT(40) DEF ReplyWatchRange
  <2>2. watchCall' \in [addr : {watchCall'.addr}, registrationId : {watchCall'.registrationId},
                        attempt : {watchCall'.attempt}, at : {watchCall'.at},
                        watchId : {watchCall'.watchId}, revision : Nat,
                        members : {watchCall'.members}]
    BY <2>1 DEF NoCall
  <2> QED BY <2>1, <2>2, ZenonT(40) DEF SessionTypes
<1>7. ASSUME NEW t \in Worker, PrepareStep(t) \/ Deliver(t) \/ Answered(t)
      PROVE  SessionTypes'
  BY <1>7, SessionRests, ZenonT(40) DEF PrepareStep, Deliver, Answered, systemVars, HandleWatchEvents
<1>8. ASSUME NEW a \in Client, StartWatch(a) \/ RetryWatch(a)
      PROVE  SessionTypes'
  BY <1>8, SessionCalls, ZenonT(40)
<1>9. ASSUME NEW a \in Client,
             \/ GiveUpWatch(a) \/ CancelPrevious(a) \/ ApplySnapshot(a) \/ ClearStale(a)
             \/ MembershipRecreated(a) \/ RefreshRead(a) \/ RefreshApply(a)
      PROVE  SessionTypes'
  <2>1. UNCHANGED <<registrationId, nextRegistration, watchCall, requests>>
    BY <1>9, ZenonT(40) DEF GiveUpWatch, AbandonWatchPlan, CancelPrevious, PreviousCancelled,
       ApplySnapshot, ApplyInitialSnapshot, ClearStale, ClearStaleMembershipCandidates,
       MembershipRecreated, InvalidateMembershipWatches, RefreshRead, ReadMemberships,
       RefreshApply, ApplyRefresh, systemVars
  <2> QED BY <2>1, SessionRests, ZenonT(40)
<1>10. ASSUME NEW r \in replies, AcceptReply(r) \/ LoseReply(r)
       PROVE  SessionTypes'
  <2>1. UNCHANGED <<nextRegistration, watchCall, requests>>
    BY <1>10, ZenonT(40) DEF AcceptReply, LoseReply, CommitWatchPlan
  <2>2. \/ registrationId' = registrationId
        \/ registrationId' = [registrationId EXCEPT ![r.addr] = 0]
    BY <1>10, ZenonT(40) DEF AcceptReply, LoseReply, CommitWatchPlan
  <2>3. registrationId' \in [Client -> Nat]
    BY <2>2 DEF SessionTypes
  <2> QED BY <2>1, <2>3, ZenonT(40) DEF SessionTypes
<1>11. CASE UNCHANGED vars
  BY <1>11, SessionRests, ZenonT(40) DEF vars, systemVars
<1> QED
  BY <1>1, <1>2, <1>3, <1>4, <1>5, <1>6, <1>7, <1>8, <1>9, <1>10, <1>11, ZenonT(40)
     DEF Next, WatchNext, CoordinatorNext, ClientNext, ReplyNext

LEMMA CallbackIsEvent ==
  ASSUME LeasedTypeOK, NEW t \in Threads, callbacks[t] # <<>>
  PROVE  Head(callbacks[t]) \in Event
BY DEF LeasedTypeOK

LEMMA NotBelowItself == \A n \in Nat : ~(n < n)
OBVIOUS

\* Registry and dispatcher see the callbacks of the store as events, and the
\* clients' plans as watches of all keys.  Neither the revisions' bound nor the
\* history of ChannelsSpec matters to what is used of it.
Dispatch == INSTANCE WatchChannelsProofs
              WITH EventKey <- Key, Addr <- Client, Scope <- {Key},
                   MaxCommitted <- 1, enqueued <- {}

LEMMA DispatchRests ==
  ASSUME Dispatch!ChannelsInv, UNCHANGED <<registryVars, dispatcherVars>>
  PROVE  Dispatch!ChannelsInv'
BY DispatcherAssumption, Dispatch!ChannelsRest, ZenonT(40) DEF registryVars, channelVars, dispatcherVars,
   Dispatch!registryVars, Dispatch!channelVars, Dispatch!dispatcherVars

LEMMA DispatchInitially == Init => Dispatch!ChannelsInv
<1>1. Init => Dispatch!ChannelsInit
  BY ZenonT(40) DEF Init, RegistryInit, DispatcherInit, Idle, Dispatch!ChannelsInit,
     Dispatch!RegistryInit, Dispatch!DispatcherInit, Dispatch!Idle
<1> QED BY <1>1, DispatcherAssumption, Dispatch!ChannelsInitInv, ZenonT(40)

\* The fan-out thread's steps and the workers' are those of WatchChannels.
LEMMA FanOutKeeps ==
  ASSUME Dispatch!ChannelsInv, FanOutStep PROVE Dispatch!ChannelsInv'
<1> USE DEF registryVars, channelVars, dispatcherVars, Dispatch!registryVars,
            Dispatch!channelVars, Dispatch!dispatcherVars
<1>1. CASE FanOutTake
  <2>1. Dispatch!FanOutTake
    BY <1>1, ZenonT(40) DEF FanOutTake, Lesser, Dispatch!FanOutTake, Dispatch!Lesser
  <2> QED BY <2>1, DispatcherAssumption, Dispatch!FanOutTakeInv, ZenonT(40)
<1>2. CASE FanOutOverflow
  <2>1. Dispatch!FanOutOverflow
    BY <1>2, ZenonT(40) DEF FanOutOverflow, RewatchAll, Rewatch, ScheduleChannels,
       Dispatch!FanOutOverflow, Dispatch!RewatchAll, Dispatch!Rewatch, Dispatch!ScheduleChannels
  <2> QED BY <2>1, DispatcherAssumption, Dispatch!FanOutOverflowInv, ZenonT(40)
<1>3. CASE FanOutEvent
  <2>1. Dispatch!FanOutEvent
    BY <1>3, ZenonT(40) DEF FanOutEvent, MatchWatchers, IsFull, RewatchFor, Rewatch,
       ScheduleChannels, Dispatch!FanOutEvent, Dispatch!MatchWatchers, Dispatch!IsFull,
       Dispatch!RewatchFor, Dispatch!Rewatch, Dispatch!ScheduleChannels
  <2> QED BY <2>1, DispatcherAssumption, Dispatch!FanOutEventInv, ZenonT(40)
<1> QED BY <1>1, <1>2, <1>3, ZenonT(40) DEF FanOutStep

LEMMA WorkersKeep ==
  ASSUME Dispatch!ChannelsInv, NEW t \in Worker, PrepareStep(t) \/ Deliver(t) \/ Answered(t)
  PROVE  Dispatch!ChannelsInv'
<1> USE DEF registryVars, channelVars, dispatcherVars, Dispatch!registryVars,
            Dispatch!channelVars, Dispatch!dispatcherVars
<1>1. ASSUME NEW c \in WatchId, PrepareChannelEvents(t, c) PROVE Dispatch!ChannelsInv'
  <2>1. Dispatch!PrepareChannelEvents(t, c)
    BY <1>1, ZenonT(40) DEF PrepareChannelEvents, DropThrough, Lesser, Idle,
       Dispatch!PrepareChannelEvents, Dispatch!DropThrough, Dispatch!Lesser, Dispatch!Idle
  <2> QED BY <2>1, DispatcherAssumption, Dispatch!PrepareInv, ZenonT(40)
<1>2. CASE NotifyCancelled(t)
  <2>1. Dispatch!NotifyCancelled(t)
    BY <1>2, ZenonT(40) DEF NotifyCancelled, Sending, Idle, Dispatch!NotifyCancelled,
       Dispatch!Sending, Dispatch!Idle
  <2> QED BY <2>1, DispatcherAssumption, Dispatch!NotifyCancelledInv, ZenonT(40)
<1>3. CASE NotifyOk(t)
  <2>1. Dispatch!NotifyOk(t)
    BY <1>3, ZenonT(40) DEF NotifyOk, Sending, Idle, DropThrough, MaxRevisionOf, Dispatch!NotifyOk,
       Dispatch!Sending, Dispatch!Idle, Dispatch!DropThrough, Dispatch!MaxRevisionOf
  <2> QED BY <2>1, DispatcherAssumption, Dispatch!NotifyOkInv, ZenonT(40)
<1>4. CASE NotifyRemoves(t)
  <2>1. Dispatch!NotifyRemoves(t)
    BY <1>4, ZenonT(40) DEF NotifyRemoves, Sending, Idle, Unregister, RemoveChannels,
       Dispatch!NotifyRemoves, Dispatch!Sending, Dispatch!Idle, Dispatch!Unregister,
       Dispatch!RemoveChannels
  <2> QED BY <2>1, DispatcherAssumption, Dispatch!NotifyRemovesInv, ZenonT(40)
<1>5. CASE NotifyRetryLater(t)
  <2>1. Dispatch!NotifyRetryLater(t)
    BY <1>5, ZenonT(40) DEF NotifyRetryLater, Sending, Idle, Dispatch!NotifyRetryLater,
       Dispatch!Sending, Dispatch!Idle
  <2> QED BY <2>1, DispatcherAssumption, Dispatch!NotifyRetryLaterInv, ZenonT(40)
<1>6. CASE PrepareStep(t)
  BY <1>1, <1>6, ZenonT(40) DEF PrepareStep
<1>7. CASE Deliver(t)
  BY <1>7, DispatchRests, ZenonT(40) DEF Deliver
<1>8. CASE Answered(t)
  BY <1>2, <1>3, <1>4, <1>5, <1>8, ZenonT(40) DEF Answered
<1> QED BY <1>6, <1>7, <1>8, ZenonT(40)

LEMMA RetriesKeep ==
  ASSUME Dispatch!ChannelsInv, RetryStep PROVE Dispatch!ChannelsInv'
<1>1. PICK c \in WatchId : RetryDue(c)
  BY ZenonT(40) DEF RetryStep
<1>2. Dispatch!RetryDue(c)
  BY <1>1, ZenonT(40) DEF RetryDue, Dispatch!RetryDue, registryVars, Dispatch!registryVars
<1> QED BY <1>2, DispatcherAssumption, Dispatch!RetryDueInv, ZenonT(40)

\* A committed mutation's callbacks cancel watches and enqueue its event.
LEMMA CallbacksKeep ==
  ASSUME LeasedTypeOK, Dispatch!ChannelsInv, NEW t \in Threads,
         ObserveMutation(t) \/ RemoveMemberWatches(t) \/ EnqueueMutation(t)
  PROVE  Dispatch!ChannelsInv'
<1>1. CASE ObserveMutation(t)
  BY <1>1, DispatchRests, ZenonT(40) DEF ObserveMutation
<1>2. CASE RemoveMemberWatches(t)
  <2>1. Dispatch!RemoveWatch(WatchesOfKey(CallbackKey(t)))
    BY <1>2, ZenonT(40) DEF RemoveMemberWatches, Unregister, RemoveChannels, Dispatch!RemoveWatch,
       Dispatch!Unregister, Dispatch!RemoveChannels
  <2> QED BY <2>1, DispatcherAssumption, Dispatch!RemoveWatchInv, ZenonT(40)
<1>3. CASE EnqueueMutation(t)
  <2> DEFINE event == Head(callbacks[t])
  <2>1. event \in Dispatch!WatchEvent
    <3>1. callbacks[t] # <<>>
      BY <1>3, ZenonT(40) DEF EnqueueMutation, CallbackDone
    <3>2. event \in Event
      BY <3>1, CallbackIsEvent, ZenonT(40)
    <3> QED BY <3>2, ZenonT(40) DEF Event, Dispatch!WatchEvent
  <2>2. Dispatch!Enqueue(event) /\ UNCHANGED Dispatch!registryVars
    BY <1>3, ZenonT(40) DEF EnqueueMutation, Enqueue, Dispatch!Enqueue, channelVars,
       Dispatch!channelVars, registryVars, Dispatch!registryVars
  <2> HIDE DEF event
  <2> QED BY <2>1, <2>2, DispatcherAssumption, Dispatch!EnqueueInv, ZenonT(40)
<1> QED BY <1>1, <1>2, <1>3, ZenonT(40)

\* WatchRange adds a channel when it registers a watch, and only then: a repeated
\* call finds the watch of its registration id.
LEMMA RegistrationKeeps ==
  ASSUME WatchTypes, SessionTypes, Dispatch!ChannelsInv, NEW q \in requests,
         HandleWatchRange(q)
  PROVE  Dispatch!ChannelsInv'
<1> DEFINE reg == q.registrationId
           w   == RegisteredId(reg)
<1>1. /\ w \in WatchId /\ Register(q.addr, reg, Key)
      /\ IF w \in DOMAIN watchers THEN UNCHANGED dispatcherVars ELSE AddChannel(w)
  BY ZenonT(40) DEF HandleWatchRange
<1>2. CASE WatchesOf(reg) # {}
  <2>1. w \in DOMAIN watchers
    BY <1>2, ZenonT(40) DEF RegisteredId, WatchesOf
  <2> QED BY <1>1, <1>2, <2>1, DispatchRests, ZenonT(40) DEF Register
<1>3. CASE WatchesOf(reg) = {}
  <2>1. w = nextWatchId
    BY <1>3, ZenonT(40) DEF RegisteredId
  <2>2. w \notin DOMAIN watchers
    BY <2>1, NotBelowItself, ZenonT(40)
       DEF Dispatch!ChannelsInv, Dispatch!RegistryTypes, Dispatch!IdsAreFresh
  <2>3. /\ q.addr \in Client /\ reg \in Nat /\ Key \in {Key} /\ nextWatchId \in WatchId
        /\ Dispatch!WatchesOf(reg) = {}
    BY <1>1, <1>3, <2>1, ZenonT(40) DEF WatchTypes, SessionTypes, WatchesOf, Dispatch!WatchesOf
  <2>4. Dispatch!Register(q.addr, reg, Key) /\ Dispatch!AddChannel(nextWatchId)
    BY <1>1, <2>1, <2>2, ZenonT(40) DEF Register, AddChannel, WatchesOf, registryVars,
       Dispatch!Register, Dispatch!AddChannel, Dispatch!WatchesOf, Dispatch!registryVars
  <2> QED BY <2>3, <2>4, DispatcherAssumption, Dispatch!AddChannelInv, ZenonT(40)
<1> QED BY <1>2, <1>3, ZenonT(40)

LEMMA SnapshotKeeps ==
  ASSUME SessionTypes, Dispatch!ChannelsInv, ReplyWatchRange
  PROVE  Dispatch!ChannelsInv'
<1> DEFINE c   == watchCall.watchId
           rev == watchCall.revision
<1>1. SetSnapshotRevision(c, rev) /\ UNCHANGED registryVars
  BY ZenonT(40) DEF ReplyWatchRange
<1>2. CASE c \in channels
  <2>1. rev \in Nat
    BY ZenonT(40) DEF SessionTypes
  <2>2. Dispatch!SetSnapshotRevision(c, rev) /\ UNCHANGED Dispatch!registryVars
    BY <1>1, ZenonT(40) DEF SetSnapshotRevision, ScheduleChannels, Dispatch!SetSnapshotRevision,
       Dispatch!ScheduleChannels, registryVars, Dispatch!registryVars
  <2> HIDE DEF c, rev
  <2> QED BY <1>2, <2>1, <2>2, DispatcherAssumption, Dispatch!SetSnapshotInv, ZenonT(40)
<1>3. CASE c \notin channels
  BY <1>1, <1>3, DispatchRests, ZenonT(40) DEF SetSnapshotRevision, dispatcherVars, channelVars
<1> QED BY <1>2, <1>3, ZenonT(40)

\* The workers of other nodes reach the dispatcher by CancelWatch only.
LEMMA ClientsKeep ==
  ASSUME Dispatch!ChannelsInv, NEW a \in Client,
         \/ StartWatch(a) \/ RetryWatch(a) \/ GiveUpWatch(a) \/ CancelPrevious(a)
         \/ ApplySnapshot(a) \/ ClearStale(a) \/ MembershipRecreated(a)
         \/ RefreshRead(a) \/ RefreshApply(a)
  PROVE  Dispatch!ChannelsInv'
<1>1. CASE CancelPrevious(a)
  <2>1. CASE Unregister(previous[a]) /\ RemoveChannels(previous[a])
    <3>1. Dispatch!RemoveWatch(previous[a])
      BY <1>1, <2>1, ZenonT(40) DEF CancelPrevious, Unregister, RemoveChannels, Dispatch!RemoveWatch,
         Dispatch!Unregister, Dispatch!RemoveChannels
    <3> QED BY <3>1, DispatcherAssumption, Dispatch!RemoveWatchInv, ZenonT(40)
  <2>2. CASE UNCHANGED <<registryVars, channelVars>>
    BY <1>1, <2>2, DispatchRests, ZenonT(40) DEF CancelPrevious, dispatcherVars
  <2> QED BY <1>1, <2>1, <2>2, ZenonT(40) DEF CancelPrevious
<1>2. CASE ~CancelPrevious(a)
  BY <1>2, DispatchRests, ZenonT(40) DEF StartWatch, RetryWatch, GiveUpWatch, ApplySnapshot,
     ClearStale, MembershipRecreated, RefreshRead, RefreshApply
<1> QED BY <1>1, <1>2, ZenonT(40)

LEMMA DispatchStep ==
  ASSUME WatchInv, SessionTypes, Dispatch!ChannelsInv, [Next]_vars
  PROVE  Dispatch!ChannelsInv'
<1>1. LeasedTypeOK /\ WatchTypes
  BY ZenonT(40) DEF WatchInv
<1>2. CASE StoreStep \/ ReadSnapshot
  BY <1>2, DispatchRests, ZenonT(40) DEF StoreStep, ReadSnapshot
<1>3. ASSUME NEW t \in Threads,
             ObserveMutation(t) \/ RemoveMemberWatches(t) \/ EnqueueMutation(t)
      PROVE  Dispatch!ChannelsInv'
  BY <1>1, <1>3, CallbacksKeep, ZenonT(40)
<1>4. ASSUME NEW q \in requests, HandleWatchRange(q) \/ RefuseWatchRange(q)
      PROVE  Dispatch!ChannelsInv'
  <2>1. CASE HandleWatchRange(q)
    BY <1>1, <2>1, RegistrationKeeps, ZenonT(40)
  <2>2. CASE RefuseWatchRange(q)
    BY <2>2, DispatchRests, ZenonT(40) DEF RefuseWatchRange
  <2> QED BY <1>4, <2>1, <2>2, ZenonT(40)
<1>5. CASE ReplyWatchRange
  BY <1>5, SnapshotKeeps, ZenonT(40)
<1>6. CASE FanOutStep \/ RetryStep
  BY <1>6, FanOutKeeps, RetriesKeep, ZenonT(40)
<1>7. ASSUME NEW t \in Worker, PrepareStep(t) \/ Deliver(t) \/ Answered(t)
      PROVE  Dispatch!ChannelsInv'
  BY <1>7, WorkersKeep, ZenonT(40)
<1>8. ASSUME NEW a \in Client,
             \/ StartWatch(a) \/ RetryWatch(a) \/ GiveUpWatch(a) \/ CancelPrevious(a)
             \/ ApplySnapshot(a) \/ ClearStale(a) \/ MembershipRecreated(a)
             \/ RefreshRead(a) \/ RefreshApply(a)
      PROVE  Dispatch!ChannelsInv'
  BY <1>8, ClientsKeep, ZenonT(40)
<1>9. ASSUME NEW r \in replies, AcceptReply(r) \/ LoseReply(r)
      PROVE  Dispatch!ChannelsInv'
  BY <1>9, DispatchRests, ZenonT(40) DEF AcceptReply, LoseReply
<1>10. CASE UNCHANGED vars
  BY <1>10, DispatchRests, ZenonT(40) DEF vars
<1> QED
  BY <1>2, <1>3, <1>4, <1>5, <1>6, <1>7, <1>8, <1>9, <1>10, ZenonT(40)
     DEF Next, WatchNext, CoordinatorNext, ClientNext, ReplyNext

\* What the dispatcher promises holds in the coordinator it is part of, where the
\* store's callbacks, WatchRange, CancelWatch, the membership observer and the
\* workers' answers use it at once: a channel has one dispatcher, no wake-up is
\* lost, a batch in flight begins its channel's queue unless a reset replaced it,
\* and the queues are bounded.
THEOREM CoordinatorDispatches ==
  Spec => [](/\ Dispatch!OneDispatcher /\ Dispatch!NoLostWakeup
             /\ Dispatch!BatchIsPrefix /\ Dispatch!QueuesBounded)
<1>1. WatchInv /\ SessionTypes /\ [Next]_vars => SessionTypes'
  BY SessionStep, ZenonT(40) DEF WatchInv
<1>2. WatchInv /\ SessionTypes /\ Dispatch!ChannelsInv /\ [Next]_vars => Dispatch!ChannelsInv'
  BY DispatchStep, ZenonT(40)
<1>3. Dispatch!ChannelsInv => /\ Dispatch!OneDispatcher /\ Dispatch!NoLostWakeup
                              /\ Dispatch!BatchIsPrefix /\ Dispatch!QueuesBounded
  BY ZenonT(40) DEF Dispatch!ChannelsInv
<1> QED
  BY <1>1, <1>2, <1>3, WatchInvariance, SessionInitially, DispatchInitially, PTL DEF Spec
=============================================================================
