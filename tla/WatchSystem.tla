------------------------------ MODULE WatchSystem ------------------------------
(***************************************************************************)
(* The coordinator and the workers that watch it: CoordinatorStore with    *)
(* its callbacks bound (BindCallbacks), the service's WatchRange handler   *)
(* and committed-mutation observer, the dispatcher's RPCs, and a worker    *)
(* session per client.  Every key is a membership key; MemberKey[a] is the *)
(* membership of client a itself.                                          *)
(***************************************************************************)
EXTENDS LeasedStore, WatchDispatcher, WatchClient

CONSTANTS MemberKey,   \* the membership key of each client
          MaxAttempts, \* bound: WatchRange calls with one registration id
          MaxRegistrations \* bound: registration ids

ASSUME WatchSystemAssumption ==
  /\ ViewKey = Key
  /\ MemberKey \in [Client -> Key]

VARIABLES observed,    \* threads whose observer has run for this callback
          removing,    \* a thread whose observer saw the member gone
          requests,    \* WatchRange calls the coordinator has yet to handle
          watchCall,   \* the WatchRange call that holds membershipWatchMutex_
          replies,     \* answers to WatchRange calls, on their way back
          channelAddr, \* WatcherChannel::watcherAddr
          answer,      \* what DoNotify has returned to a worker
          recreated,   \* clients told that their membership was created anew
          backed       \* history: watches whose member never left since

systemVars == <<observed, removing, requests, watchCall, replies, channelAddr, answer,
                recreated, backed>>
vars == <<leasedVars, registryVars, dispatcherVars, clientVars, systemVars>>

NoCall == [addr |-> "none", registrationId |-> 0, attempt |-> 0, at |-> "idle",
           watchId |-> 0, revision |-> 0, members |-> [k \in {} |-> 0]]

\* Client a waits for the answer to the call q.
Awaits(a, q) == /\ a \in inProgress
                /\ registrationId[a] = q.registrationId
                /\ attempt[a] = q.attempt

\* The WatchRange call client a makes, after the step that makes it.
Call(a) == [addr |-> a, registrationId |-> registrationId'[a],
            attempt |-> attempt'[a]]

Init == /\ LeasedInit
        /\ RegistryInit
        /\ DispatcherInit
        /\ ClientInit
        /\ observed = {}
        /\ removing = {}
        /\ requests = {}
        /\ watchCall = NoCall
        /\ replies = {}
        /\ channelAddr = [c \in WatchId |-> "none"]
        /\ answer = [t \in Worker |-> "none"]
        /\ recreated = {}
        /\ backed = {}

\* membershipWatchMutex_ is free.
GateFree == watchCall.at = "idle" /\ removing = {}

MembersOf(k) == {a \in Client : MemberKey[a] = k}
WatchesOfKey(k) == {c \in channels : channelAddr[c] \in MembersOf(k)}

\* A watch stays backed while the membership of its address stays in the store.
StillBacked == {c \in backed : MemberKey[channelAddr[c]] \in DOMAIN data'}
-----------------------------------------------------------------------------
(* The store's own steps, and the callbacks of a committed mutation. *)

\* The client whose membership a Put creates learns of it from the reply.
StoreStep ==
  /\ \/ \E t \in Thread : Request(t) \/ Schedule(t)
     \/ Expiry
     \/ ClockTick
  /\ recreated' = recreated \cup {a \in Client : /\ ~Exists(MemberKey[a])
                                                 /\ MemberKey[a] \in DOMAIN data'}
  /\ backed' = StillBacked
  /\ UNCHANGED <<registryVars, dispatcherVars, clientVars, observed, removing,
                 requests, watchCall, replies, channelAddr, answer>>

CallbackKey(t) == Head(callbacks[t]).key

\* Mutant: the observer believes the event instead of reading the store.
MemberDeleted(t) == Head(callbacks[t]).type = "DELETE"

MemberGone(t) == ~Exists(CallbackKey(t))

\* HandleCommittedMembershipMutation takes the gate and reads the member again.
ObserveMutation(t) ==
  /\ callbacks[t] # <<>>
  /\ MembersOf(CallbackKey(t)) # {}
  /\ t \notin observed
  /\ GateFree
  /\ observed' = observed \cup {t}
  /\ removing' = IF MemberGone(t) THEN {t} ELSE {}
  /\ UNCHANGED <<leasedVars, registryVars, dispatcherVars, clientVars, requests,
                 watchCall, replies, channelAddr, answer, recreated, backed>>

\* The member was gone: RemoveChannelsByWatcherInScopes, then release the gate.
RemoveMemberWatches(t) ==
  /\ t \in removing
  /\ removing' = {}
  /\ Unregister(WatchesOfKey(CallbackKey(t)))
  /\ RemoveChannels(WatchesOfKey(CallbackKey(t)))
  /\ UNCHANGED <<leasedVars, pendingQueue, pendingOverflow, fanOut, worker,
                 clientVars, observed, requests, watchCall, replies, channelAddr, answer,
                 recreated, backed>>

\* The callback ends with Enqueue.
EnqueueMutation(t) ==
  /\ CallbackDone(t)
  /\ t \in observed \/ MembersOf(CallbackKey(t)) = {}
  /\ t \notin removing
  /\ Enqueue(Head(callbacks[t]))
  /\ observed' = observed \ {t}
  /\ UNCHANGED <<registryVars, clientVars, removing, requests, watchCall,
                 replies, channelAddr, answer, recreated, backed>>
-----------------------------------------------------------------------------
(* WatchRange, end to end.  The registration and the channel are one step:    *)
(* fan-out reads both, and the channel sends nothing before its snapshot.     *)

StartWatch(a) ==
  /\ RegisterWatchPlan(a)
  /\ IF registrationId[a] = 0 THEN nextRegistration <= MaxRegistrations
     ELSE attempt[a] < MaxAttempts
  /\ requests' = requests \cup {Call(a)}
  /\ UNCHANGED <<leasedVars, registryVars, dispatcherVars, observed, removing,
                 watchCall, replies, channelAddr, answer, recreated, backed>>

\* The call timed out; the coordinator may still handle it, or have done so.
RetryWatch(a) ==
  /\ RetryWatchRange(a)
  /\ attempt[a] < MaxAttempts
  /\ requests' = requests \cup {Call(a)}
  /\ UNCHANGED <<leasedVars, registryVars, dispatcherVars, observed, removing,
                 watchCall, replies, channelAddr, answer, recreated, backed>>

GiveUpWatch(a) ==
  /\ AbandonWatchPlan(a)
  /\ UNCHANGED <<leasedVars, registryVars, dispatcherVars, systemVars>>

\* Mutant: watchers need not be members.
AnyWatcher(addr) == TRUE

CheckWatcherMembership(addr) == Exists(MemberKey[addr])

\* WatchRange takes the gate, checks the membership and registers.
HandleWatchRange(q) ==
  LET w == RegisteredId(q.registrationId)
  IN /\ GateFree
     /\ CheckWatcherMembership(q.addr)
     /\ w \in WatchId
     /\ requests' = requests \ {q}
     /\ Register(q.addr, q.registrationId, Key)
     /\ IF w \in DOMAIN watchers
        THEN UNCHANGED <<dispatcherVars, channelAddr, backed>>
        ELSE /\ AddChannel(w)
             /\ channelAddr' = [channelAddr EXCEPT ![w] = q.addr]
             /\ backed' = backed \cup {w}
     /\ watchCall' = [NoCall EXCEPT !.addr = q.addr, !.attempt = q.attempt,
                                    !.registrationId = q.registrationId,
                                    !.at = "range", !.watchId = w]
     /\ UNCHANGED <<leasedVars, clientVars, observed, removing, replies, answer,
                    recreated>>

\* CheckWatcherMembership failed: the client gets an error it does not retry.
RefuseWatchRange(q) ==
  /\ GateFree
  /\ ~CheckWatcherMembership(q.addr)
  /\ requests' = requests \ {q}
  /\ IF Awaits(q.addr, q)
     THEN AbandonWatchPlan(q.addr)
     ELSE UNCHANGED clientVars
  /\ UNCHANGED <<leasedVars, registryVars, dispatcherVars, observed, removing,
                 watchCall, replies, channelAddr, answer, recreated, backed>>

\* CoordinatorStore::WatchRange reads the snapshot, with its revision ...
ReadSnapshot ==
  /\ watchCall.at = "range"
  /\ watchCall' = [watchCall EXCEPT !.at = "snapshot", !.revision = revision,
                                    !.members = KvRange(Key)]
  /\ UNCHANGED <<leasedVars, registryVars, dispatcherVars, clientVars, observed,
                 removing, requests, replies, channelAddr, answer, recreated,
                 backed>>

\* ... tells the dispatcher, releases the gate and replies.
ReplyWatchRange ==
  /\ watchCall.at = "snapshot"
  /\ SetSnapshotRevision(watchCall.watchId, watchCall.revision)
  /\ replies' = replies \cup {watchCall}
  /\ watchCall' = NoCall
  /\ UNCHANGED <<leasedVars, registryVars, clientVars, observed, removing,
                 requests, channelAddr, answer, recreated, backed>>

\* The reply to the call the client waits for commits its plan.
AcceptReply(r) ==
  /\ r \in replies
  /\ Awaits(r.addr, r)
  /\ CommitWatchPlan(r.addr, r.watchId,
       [watchId |-> r.watchId, revision |-> r.revision, members |-> r.members])
  /\ replies' = replies \ {r}
  /\ UNCHANGED <<leasedVars, registryVars, dispatcherVars, observed, removing,
                 requests, watchCall, channelAddr, answer, recreated, backed>>

\* A reply is lost, or comes too late to matter.
LoseReply(r) ==
  /\ r \in replies
  /\ replies' = replies \ {r}
  /\ UNCHANGED <<leasedVars, registryVars, dispatcherVars, clientVars, observed,
                 removing, requests, watchCall, channelAddr, answer, recreated,
                 backed>>

\* CancelWatch for the replaced watches; the call may be lost.
CancelPrevious(a) ==
  /\ PreviousCancelled(a)
  /\ \/ Unregister(previous[a]) /\ RemoveChannels(previous[a])
     \/ UNCHANGED <<registryVars, channelVars>>
  /\ UNCHANGED <<leasedVars, pendingQueue, pendingOverflow, fanOut, worker,
                 systemVars>>
-----------------------------------------------------------------------------
(* Delivery. *)

FanOutStep == /\ FanOutTake \/ FanOutOverflow \/ FanOutEvent
              /\ UNCHANGED <<leasedVars, clientVars, systemVars>>

PrepareStep(t) ==
  /\ \E c \in WatchId : PrepareChannelEvents(t, c)
  /\ UNCHANGED <<leasedVars, clientVars, systemVars>>

\* DoNotify: the worker handles the batch and its answer may be lost, or the
\* batch itself is.
Deliver(t) ==
  LET w == worker[t].channel
      a == channelAddr[w]
  IN /\ Sending(t)
     /\ answer[t] = "none"
     /\ \/ /\ ReceiveStatus(a, w) = "K_OK"
           /\ HandleWatchEvents(a, w, worker[t].events, worker[t].rewatch)
           /\ answer' \in {[answer EXCEPT ![t] = s] : s \in {"K_OK", "error"}}
        \/ /\ answer' = [answer EXCEPT ![t] = "error"]
           /\ UNCHANGED clientVars
     /\ UNCHANGED <<leasedVars, registryVars, dispatcherVars, observed, removing,
                    requests, watchCall, replies, channelAddr, recreated, backed>>

\* HandleChannelEvents acts on the answer.
Answered(t) ==
  /\ answer[t] # "none"
  /\ \/ NotifyCancelled(t)
     \/ answer[t] = "K_OK" /\ ~worker[t].rewatch /\ NotifyOk(t)
     \/ answer[t] = "K_OK" /\ worker[t].rewatch /\ NotifyRemoves(t)
     \/ answer[t] = "error" /\ NotifyRetryLater(t)
  /\ answer' = [answer EXCEPT ![t] = "none"]
  /\ UNCHANGED <<leasedVars, clientVars, observed, removing, requests, watchCall,
                 replies, channelAddr, recreated, backed>>

RetryStep == \E c \in WatchId : RetryDue(c)
                                /\ UNCHANGED <<leasedVars, clientVars, systemVars>>
-----------------------------------------------------------------------------
(* The worker's own steps. *)

ApplySnapshot(a) ==
  /\ ApplyInitialSnapshot(a)
  /\ UNCHANGED <<leasedVars, registryVars, dispatcherVars, systemVars>>

ClearStale(a) ==
  /\ ClearStaleMembershipCandidates(a)
  /\ UNCHANGED <<leasedVars, registryVars, dispatcherVars, systemVars>>

\* The reply of the Put that created the membership: HandleMembershipSuccess.
MembershipRecreated(a) ==
  /\ a \in recreated
  /\ recreated' = recreated \ {a}
  /\ InvalidateMembershipWatches(a)
  /\ UNCHANGED <<leasedVars, registryVars, dispatcherVars, observed, removing,
                 requests, watchCall, replies, channelAddr, answer, backed>>

RefreshRead(a) ==
  /\ ReadMemberships(a, KvRange(Key), revision)
  /\ UNCHANGED <<leasedVars, registryVars, dispatcherVars, systemVars>>

RefreshApply(a) ==
  /\ ApplyRefresh(a)
  /\ UNCHANGED <<leasedVars, registryVars, dispatcherVars, systemVars>>

CoordinatorNext ==
  \/ StoreStep
  \/ \E t \in Threads : \/ ObserveMutation(t)
                        \/ RemoveMemberWatches(t)
                        \/ EnqueueMutation(t)
  \/ \E q \in requests : HandleWatchRange(q) \/ RefuseWatchRange(q)
  \/ ReadSnapshot
  \/ ReplyWatchRange
  \/ FanOutStep
  \/ \E t \in Worker : PrepareStep(t) \/ Deliver(t) \/ Answered(t)
  \/ RetryStep

ClientNext ==
  \E a \in Client : \/ StartWatch(a)
                    \/ RetryWatch(a)
                    \/ GiveUpWatch(a)
                    \/ CancelPrevious(a)
                    \/ ApplySnapshot(a)
                    \/ ClearStale(a)
                    \/ MembershipRecreated(a)

ReplyNext == \E r \in replies : AcceptReply(r) \/ LoseReply(r)

\* Without the periodic refresh, to see what the watch alone delivers.
WatchNext == CoordinatorNext \/ ClientNext \/ ReplyNext

Next == WatchNext \/ \E a \in Client : RefreshRead(a) \/ RefreshApply(a)

WatchSpec == Init /\ [][WatchNext]_vars
Spec == Init /\ [][Next]_vars

\* A worker's state thread refreshes its view periodically, and its event
\* dispatcher handles the RESET of an invalidated watch.  Nothing is assumed
\* of the coordinator, of the network, or of registration.
FairSpec == /\ Spec
            /\ \A a \in Client : /\ WF_vars(RefreshRead(a))
                                 /\ WF_vars(RefreshApply(a))
                                 /\ WF_vars(ClearStale(a))
-----------------------------------------------------------------------------
\* No committed mutation is on its way to the channels.
NothingPending ==
  /\ \A t \in Threads : callbacks[t] = <<>>
  /\ pendingQueue = <<>>
  /\ ~pendingOverflow
  /\ fanOut.at = "take"

\* Client a has settled on a watch, and the watch has delivered all it had.
Settled(a) ==
  /\ watchId[a] # 0
  /\ OwnsWatchIdentity(a, watchId[a])
  /\ previous[a] = {}
  /\ initial[a] = {}
  /\ a \notin recreated
  /\ queue[watchId[a]] = <<>>
  /\ \A t \in Worker : worker[t].channel # watchId[a]

\* A client that has settled while nothing is pending sees the current value of
\* every live membership: what WatchRange's snapshot does not hold, the events
\* after its revision bring, however registration, snapshot, fan-out, retries
\* and resets interleave.
LiveMembersSeen ==
  NothingPending =>
    \A a \in Client : Settled(a) /\ watchId[a] \in channels =>
      \A k \in DOMAIN data : view[a][k].value = data[k].modRevision

\* A client that has settled while nothing is pending sees no membership that is
\* gone: DeleteMembership has taken every DELETE into account.
DepartedMembersGone ==
  NothingPending =>
    \A a \in Client : Settled(a) /\ watchId[a] \in channels =>
      \A k \in Key \ DOMAIN data : view[a][k].value = 0

\* A client that believes it owns a watch, and whose membership is in the
\* store, is served: the coordinator has a channel for it.
OwnedWatchServed ==
  NothingPending =>
    \A a \in Client : Settled(a) /\ Exists(MemberKey[a]) =>
      watchId[a] \in channels

\* A channel that must tell its watcher to watch again still has that to say.
RewatchQueued ==
  \A c \in channels \cap needReWatch :
    queue[c] # <<>> /\ Head(queue[c]).type = "REWATCH"

\* The committed-mutation observer removes the watches of a member that left,
\* and of no other: a watch registered while its member has been there all the
\* time survives the callbacks of an earlier deletion of that member.
ObserverSparesLiveMembers ==
  [][\A t \in Threads : t \in removing \ removing' => backed \cap channels \subseteq channels']_vars

\* Once the callbacks of its deletion are done, a departed member has no watch.
DepartedWatchesRemoved ==
  \A a \in Client :
    /\ ~Exists(MemberKey[a])
    /\ \A t \in Threads : \A i \in DOMAIN callbacks[t] :
         callbacks[t][i].key # MemberKey[a]
    /\ watchCall.at = "idle"
    => \A c \in channels : channelAddr[c] # a

\* A departed member leaves the view of every worker in the end, also where its
\* DELETE was ignored, lost or never sent, and whatever becomes of the watch.
DepartedForgotten ==
  \A a \in Client, k \in Key :
    (view[a][k].value # 0 /\ ~Exists(k)) ~> (view[a][k].value = 0 \/ Exists(k))
=============================================================================
