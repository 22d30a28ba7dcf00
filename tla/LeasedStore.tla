------------------------------ MODULE LeasedStore ------------------------------
(***************************************************************************)
(* CoordinatorStore without its watches: request threads run Put,          *)
(* DeleteRange and KeepAlive over MemoryKvStore and TtlManager while the   *)
(* expiry thread deletes the keys whose leases have run out.               *)
(*                                                                         *)
(* An operation is several steps, because the store and the TTL manager    *)
(* have a mutex each: the mutation commits; its callbacks run after the    *)
(* store's mutex is released; the new expiry is scheduled last.  Other     *)
(* threads run between any two of them.  A rejected operation changes      *)
(* nothing and is not an action.                                           *)
(***************************************************************************)
EXTENDS MemoryKvStore, TtlManager, Sequences

CONSTANTS Thread,         \* the threads that serve requests
          TtlThread,      \* expirationThread_
          Ttl,            \* the TTLs of Put requests; 0 is no expiry
          DeleteScope,    \* the key sets DeleteRange is asked to delete
          MaxRevision,    \* bound: mutations by requests
          MaxGeneration,  \* bound: renewals of one entry
          MaxTime         \* bound: clock ticks

ASSUME LeasedStoreAssumption ==
  /\ IsFiniteSet(Key)
  /\ Ttl \subseteq Nat
  /\ TtlThread \notin Thread
  /\ DeleteScope \subseteq SUBSET Key
  /\ MaxExpiredKeysPerCheck \in Nat \ {0}

VARIABLES callbacks,   \* a thread's mutation callbacks still to run
          toSchedule,  \* the lease a request thread has yet to schedule
          renewedAt,   \* history: when each live entry was last renewed
          lapsed       \* history: the keys that are gone by expiry

callVars == <<callbacks, toSchedule>>
historyVars == <<renewedAt, lapsed>>
leasedVars == <<kvVars, ttlVars, callVars, historyVars>>

Threads == Thread \cup {TtlThread}

\* A mutation and the entry it reports, by modRevision: the entry that was
\* written, or the one that was deleted.
Event == [type : {"PUT", "DELETE"}, key : Key, revision : Nat,
          modRevision : Nat]

PutEvent(k) == [type |-> "PUT", key |-> k, revision |-> revision + 1,
                modRevision |-> revision + 1]

DeleteEvent(k) == [type |-> "DELETE", key |-> k, revision |-> revision + 1,
                   modRevision |-> data[k].modRevision]

Lease == [key : Key, ttlMs : Nat, revision : Nat \ {0},
          ttlGeneration : Nat \ {0}]

\* What requests may expect of the entry they change.
ExpectedVersion == {NoVersionCheck, KeyNotExists, 1, 2}
Fence == {NoModRevisionCheck} \cup 2..MaxRevision

LeasedInit ==
  /\ KvInit
  /\ TtlInit
  /\ callbacks = [t \in Threads |-> <<>>]
  /\ toSchedule = [t \in Thread |-> {}]
  /\ renewedAt = [k \in {} |-> 0]
  /\ lapsed = {}

Free(t) == callbacks[t] = <<>> /\ toSchedule[t] = {}

\* The lease of k as Put and KeepAlive hand it to Schedule.
LeaseOf(k, entry) == [key |-> k, ttlMs |-> entry.ttlMs,
                      revision |-> entry.modRevision,
                      ttlGeneration |-> entry.ttlGeneration]

Put(t, k, ttlMs, expectedVersion, expectedModRevision) ==
  /\ Free(t)
  /\ revision < MaxRevision
  /\ PutStatus(k, expectedVersion, expectedModRevision,
               NoGlobalRevisionCheck) = "K_OK"
  /\ KvPut(k, ttlMs)
  /\ callbacks' = [callbacks EXCEPT ![t] = <<PutEvent(k)>>]
  /\ toSchedule' = [toSchedule EXCEPT ![t] =
       IF ttlMs > 0 THEN {LeaseOf(k, PutEntry(k, ttlMs))} ELSE {}]
  /\ renewedAt' = [x \in DOMAIN data \cup {k} |->
                     IF x = k THEN now ELSE renewedAt[x]]
  /\ lapsed' = lapsed \ {k}
  /\ UNCHANGED ttlVars

\* The callbacks of one Delete: an event per deleted key, in some order (the
\* code's is the order of the keys), all with the same revision.
DeleteEvents(keys) ==
  {s \in [1..Cardinality(keys) -> {DeleteEvent(k) : k \in keys}] :
     \A i, j \in DOMAIN s : i # j => s[i] # s[j]}

DeleteRange(t, scope, expectedModRevision) ==
  LET keys == scope \cap DOMAIN data
  IN /\ Free(t)
     /\ revision < MaxRevision
     /\ keys # {}
     /\ \/ expectedModRevision = NoModRevisionCheck
        \/ /\ Cardinality(scope) = 1
           /\ \A k \in keys : DeleteStatus(k, expectedModRevision) = "K_OK"
     /\ KvErase(keys)
     /\ \E s \in DeleteEvents(keys) :
          callbacks' = [callbacks EXCEPT ![t] = s]
     /\ renewedAt' = [x \in DOMAIN data \ keys |-> renewedAt[x]]
     /\ UNCHANGED <<ttlVars, toSchedule, lapsed>>

\* KeepAlive renews the entry; its new generation is not scheduled yet.
KeepAlive(t, k, expectedModRevision) ==
  /\ Free(t)
  /\ KeepAliveStatus(k, expectedModRevision) = "K_OK"
  /\ data[k].ttlGeneration < MaxGeneration
  /\ KvKeepAlive(k)
  /\ toSchedule' = [toSchedule EXCEPT ![t] =
       {[LeaseOf(k, data[k]) EXCEPT !.ttlGeneration = @ + 1]}]
  /\ renewedAt' = [renewedAt EXCEPT ![k] = now]
  /\ UNCHANGED <<ttlVars, callbacks, lapsed>>

\* The mutation callback for the next event has returned.
CallbackDone(t) ==
  /\ callbacks[t] # <<>>
  /\ callbacks' = [callbacks EXCEPT ![t] = Tail(@)]
  /\ UNCHANGED <<kvVars, ttlVars, toSchedule, historyVars>>

\* The last step of Put and KeepAlive.
Schedule(t) ==
  /\ callbacks[t] = <<>>
  /\ \E l \in toSchedule[t] :
       TtlSchedule(l.key, l.ttlMs, l.revision, l.ttlGeneration)
  /\ toSchedule' = [toSchedule EXCEPT ![t] = {}]
  /\ UNCHANGED <<kvVars, callbacks, historyVars>>

\* CheckExpiration pops what is due.  It comes back here only after it has
\* called back every record it popped before.
CheckExpiration(keys) ==
  /\ callbacks[TtlThread] = <<>>
  /\ TtlPop(keys)
  /\ UNCHANGED <<kvVars, callVars, historyVars>>

StillExpired(r) == expired \ {r}

\* The expire callback for one popped record: DeleteIfTtlExpired.
ExpireKey(r) ==
  /\ callbacks[TtlThread] = <<>>
  /\ r \in expired
  /\ expired' = StillExpired(r)
  /\ IF TtlExpiredMatches(r.key, r.revision, r.ttlGeneration)
     THEN /\ KvErase({r.key})
          /\ callbacks' = [callbacks EXCEPT ![TtlThread] =
                             <<DeleteEvent(r.key)>>]
          /\ renewedAt' = [x \in DOMAIN data \ {r.key} |-> renewedAt[x]]
          /\ lapsed' = lapsed \cup {r.key}
     ELSE UNCHANGED <<kvVars, callbacks, historyVars>>
  /\ UNCHANGED <<now, expiryIndex, toSchedule>>

ClockTick == /\ now < MaxTime
             /\ Tick
             /\ UNCHANGED <<kvVars, callVars, historyVars>>

\* A step of a request thread other than the return of a callback.
Request(t) ==
  \/ \E k \in Key, ttlMs \in Ttl, v \in ExpectedVersion, m \in Fence :
       Put(t, k, ttlMs, v, m)
  \/ \E scope \in DeleteScope, m \in Fence : DeleteRange(t, scope, m)
  \/ \E k \in Key, m \in Fence : KeepAlive(t, k, m)

Expiry == \/ \E keys \in SUBSET Key : CheckExpiration(keys)
          \/ \E r \in expired : ExpireKey(r)

LeasedNext == \/ \E t \in Thread : Request(t) \/ Schedule(t)
              \/ \E t \in Threads : CallbackDone(t)
              \/ Expiry
              \/ ClockTick

LeasedSpec == LeasedInit /\ [][LeasedNext]_leasedVars

\* A request that has started finishes, and the expiry thread keeps running.
\* Nothing makes clients send requests.
LeasedFairness ==
  /\ \A t \in Thread : WF_leasedVars(Schedule(t))
  /\ \A t \in Threads : WF_leasedVars(CallbackDone(t))
  /\ WF_leasedVars(Expiry)

FairLeasedSpec == LeasedSpec /\ LeasedFairness
-----------------------------------------------------------------------------
\* Types of the store, the expiry records and the calls in progress; no entry is
\* newer than the store's revision_.
LeasedTypeOK ==
  /\ revision \in Nat \ {0}
  /\ DOMAIN data \subseteq Key
  /\ data \in [DOMAIN data -> Entry]
  /\ \A k \in DOMAIN data : data[k].modRevision <= revision
  /\ now \in Nat
  /\ DOMAIN expiryIndex \subseteq Key
  /\ expiryIndex \in [DOMAIN expiryIndex -> Record]
  /\ expired \subseteq [key : Key, revision : Nat, ttlGeneration : Nat]
  /\ callbacks \in [Threads -> Seq(Event)]
  /\ toSchedule \in [Thread -> SUBSET Lease]
  /\ renewedAt \in [DOMAIN data -> Nat]
  /\ lapsed \subseteq Key

HasTtl(k) == Exists(k) /\ data[k].ttlMs > 0

\* The three places where the current lease of k can be on its way to expiry.
Unscheduled(k) == \E t \in Thread : LeaseOf(k, data[k]) \in toSchedule[t]

Scheduled(k) == /\ k \in DOMAIN expiryIndex
                /\ expiryIndex[k].revision = data[k].modRevision
                /\ expiryIndex[k].ttlGeneration = data[k].ttlGeneration

Popped(k) == \E r \in expired : /\ r.key = k
                                /\ TtlExpiredMatches(k, r.revision, r.ttlGeneration)

\* Put and KeepAlive commit before they schedule, schedules can arrive late and
\* in any order, and the expiry thread pops records before it looks at the
\* store.  Still no lease is forgotten: the current lease of every key with a
\* TTL is about to be scheduled, is scheduled, or is being expired.
NoLeaseForgotten ==
  \A k \in Key : HasTtl(k) => Unscheduled(k) \/ Scheduled(k) \/ Popped(k)

\* A record that can remove the current lease of k is never early: the (revision,
\* ttlGeneration) pair that DeleteIfTtlExpired compares tells this lease from
\* every lease k had before, however late their schedules came.
NoEarlyRecord ==
  \A k \in Key : HasTtl(k) =>
    /\ Scheduled(k) =>
         expiryIndex[k].expireTime >= renewedAt[k] + data[k].ttlMs
    /\ Popped(k) => now >= renewedAt[k] + data[k].ttlMs

\* The live entries as LeaseStore sees them.
Promise == INSTANCE LeaseStore
  WITH lease <- [k \in DOMAIN data |->
                   [renewed |-> renewedAt[k], ttlMs |-> data[k].ttlMs]]

\* The store keeps the promise of LeaseStore: DeleteIfTtlExpired removes a key
\* only when the lease of the last Put or KeepAlive has run out.
KeepsLeases == Promise!Spec

\* A lease whose expiry is due ends: it is renewed, replaced or removed.
DueLeaseEnds ==
  \A k \in Key, rev \in 1..MaxRevision, gen \in 1..MaxGeneration :
    (/\ HasTtl(k) /\ Scheduled(k) /\ k \in Due
     /\ data[k].modRevision = rev /\ data[k].ttlGeneration = gen)
    ~> ~(Exists(k) /\ data[k].modRevision = rev /\ data[k].ttlGeneration = gen)
=============================================================================
