--------------------------- MODULE LeasedStoreProofs ---------------------------
(***************************************************************************)
(* Proofs about LeasedStore, for any keys, threads, TTLs and bounds: type  *)
(* correctness, that no lease is forgotten or expires early, and that the  *)
(* store implements LeaseStore.                                            *)
(***************************************************************************)
EXTENDS LeasedStore, FiniteSetTheorems, TLAPS

\* A leaf is tried with SMT, then with Zenon, then with SMT for longer.
USE SMTT(30), ZenonT(40), SMTT(60)

\* A lease (rev, generation) of k is not ahead of the entry of k: overwriting
\* raises the revision, renewing the generation.
NotAhead(k, rev, generation) ==
  /\ rev <= revision
  /\ Exists(k) => \/ rev < data[k].modRevision
                  \/ /\ rev = data[k].modRevision
                     /\ generation <= data[k].ttlGeneration

\* Everything that is on its way to expiry is a present or past lease.
LeasesInOrder ==
  /\ \A t \in Thread : \A l \in toSchedule[t] :
       NotAhead(l.key, l.revision, l.ttlGeneration)
  /\ \A k \in DOMAIN expiryIndex :
       NotAhead(k, expiryIndex[k].revision, expiryIndex[k].ttlGeneration)
  /\ \A r \in expired : NotAhead(r.key, r.revision, r.ttlGeneration)

\* A request thread has at most one lease to schedule, with the TTL of the entry
\* it is for, and no entry was renewed in the future.
LeasesAgree ==
  /\ \A t \in Thread : \A l1, l2 \in toSchedule[t] : l1 = l2
  /\ \A t \in Thread : \A l \in toSchedule[t] :
       Exists(l.key) /\ l.revision = data[l.key].modRevision
         => l.ttlMs = data[l.key].ttlMs
  /\ \A k \in DOMAIN data : renewedAt[k] <= now

LeasedInv == /\ LeasedTypeOK
             /\ LeasesInOrder
             /\ LeasesAgree
             /\ NoLeaseForgotten
             /\ NoEarlyRecord
-----------------------------------------------------------------------------
\* The callbacks of a Delete are a sequence of events.
LEMMA DeleteEventsType ==
  ASSUME LeasedTypeOK, NEW keys \in SUBSET DOMAIN data,
         NEW s \in DeleteEvents(keys)
  PROVE  s \in Seq(Event)
<1>1. IsFiniteSet(keys)
  BY LeasedStoreAssumption, FS_Subset DEF LeasedTypeOK
<1>2. Cardinality(keys) \in Nat
  BY <1>1, FS_CardinalityType
<1>3. \A k \in keys : DeleteEvent(k) \in Event
  BY DEF LeasedTypeOK, DeleteEvent, Event, Entry
<1> QED
  BY <1>2, <1>3 DEF DeleteEvents

\* The store Start leaves behind is well typed.
LEMMA InitType == LeasedInit => LeasedTypeOK
  BY DEF LeasedInit, KvInit, TtlInit, LeasedTypeOK, Threads, Entry, Record

\* Put writes a well-typed entry, event and lease.
LEMMA PutType ==
  ASSUME LeasedTypeOK, NEW t \in Thread, NEW k \in Key, NEW ttlMs \in Ttl,
         NEW v, NEW m, Put(t, k, ttlMs, v, m)
  PROVE  LeasedTypeOK'
<1>0. ttlMs \in Nat
  BY LeasedStoreAssumption
<1>1. PutEntry(k, ttlMs) \in Entry
  BY <1>0 DEF LeasedTypeOK, PutEntry, Entry, Exists
<1>2. PutEntry(k, ttlMs).modRevision = revision + 1
  BY DEF PutEntry
<1>3. DOMAIN data' = DOMAIN data \cup {k}
  BY DEF Put, KvPut
<1>4. data' \in [DOMAIN data' -> Entry]
  BY <1>1, <1>3 DEF LeasedTypeOK, Put, KvPut
<1>5. \A x \in DOMAIN data' : data'[x].modRevision <= revision'
  BY <1>2, <1>3 DEF LeasedTypeOK, Put, KvPut, Entry
<1>6. LeaseOf(k, PutEntry(k, ttlMs)) \in Lease
  BY <1>0, <1>1 DEF LeaseOf, Lease, Entry
<1>7. PutEvent(k) \in Event
  BY DEF LeasedTypeOK, PutEvent, Event
<1>8. callbacks' \in [Threads -> Seq(Event)]
  <2>1. <<PutEvent(k)>> \in Seq(Event)
    BY <1>7
  <2>2. callbacks' = [callbacks EXCEPT ![t] = <<PutEvent(k)>>]
    BY DEF Put
  <2> QED
    BY <2>1, <2>2, ZenonT(40) DEF LeasedTypeOK
<1>9. toSchedule' \in [Thread -> SUBSET Lease]
  BY <1>6 DEF LeasedTypeOK, Put
<1>10. renewedAt' \in [DOMAIN data' -> Nat]
  BY <1>3 DEF LeasedTypeOK, Put
<1>11. /\ revision' \in Nat \ {0}
       /\ DOMAIN data' \subseteq Key
       /\ lapsed' \subseteq Key
  BY <1>3 DEF LeasedTypeOK, Put, KvPut
<1>12. UNCHANGED <<now, expiryIndex, expired>>
  BY DEF Put, ttlVars
<1> QED
  BY <1>4, <1>5, <1>8, <1>9, <1>10, <1>11, <1>12 DEF LeasedTypeOK

\* Erasing keys, by request or by expiry, leaves a well-typed store.
LEMMA EraseType ==
  ASSUME LeasedTypeOK, NEW keys \in SUBSET DOMAIN data, KvErase(keys),
         renewedAt' = [x \in DOMAIN data \ keys |-> renewedAt[x]]
  PROVE  /\ revision' \in Nat \ {0}
         /\ DOMAIN data' = DOMAIN data \ keys
         /\ DOMAIN data' \subseteq Key
         /\ data' \in [DOMAIN data' -> Entry]
         /\ \A x \in DOMAIN data' : data'[x].modRevision <= revision'
         /\ renewedAt' \in [DOMAIN data' -> Nat]
<1>1. DOMAIN data' = DOMAIN data \ keys
  BY DEF KvErase
<1>2. data' \in [DOMAIN data' -> Entry]
  BY <1>1 DEF KvErase, LeasedTypeOK
<1>3. \A x \in DOMAIN data' : data'[x].modRevision <= revision'
  BY <1>1 DEF KvErase, LeasedTypeOK, Entry
<1> QED
  BY <1>1, <1>2, <1>3 DEF KvErase, LeasedTypeOK

\* DeleteRange keeps the types.
LEMMA DeleteRangeType ==
  ASSUME LeasedTypeOK, NEW t \in Thread, NEW scope, NEW m, DeleteRange(t, scope, m)
  PROVE  LeasedTypeOK'
<1> DEFINE keys == scope \cap DOMAIN data
<1>1. /\ KvErase(keys)
      /\ renewedAt' = [x \in DOMAIN data \ keys |-> renewedAt[x]]
  BY DEF DeleteRange
<1>2. /\ revision' \in Nat \ {0}
      /\ DOMAIN data' \subseteq Key
      /\ data' \in [DOMAIN data' -> Entry]
      /\ \A x \in DOMAIN data' : data'[x].modRevision <= revision'
      /\ renewedAt' \in [DOMAIN data' -> Nat]
  <2> HIDE DEF keys
  <2>1. keys \in SUBSET DOMAIN data
    BY DEF keys
  <2> QED
    BY <1>1, <2>1, EraseType
<1>3. callbacks' \in [Threads -> Seq(Event)]
  <2>1. PICK s \in DeleteEvents(keys) : callbacks' = [callbacks EXCEPT ![t] = s]
    BY ZenonT(40) DEF DeleteRange
  <2>2. s \in Seq(Event)
    BY DeleteEventsType
  <2> QED
    BY <2>1, <2>2, ZenonT(40) DEF LeasedTypeOK
<1>4. UNCHANGED <<now, expiryIndex, expired, toSchedule, lapsed>>
  BY DEF DeleteRange, ttlVars
<1> QED
  BY <1>2, <1>3, <1>4 DEF LeasedTypeOK

\* KeepAlive keeps the types: the renewed generation is a generation.
LEMMA KeepAliveType ==
  ASSUME LeasedTypeOK, NEW t \in Thread, NEW k \in Key, NEW m, KeepAlive(t, k, m)
  PROVE  LeasedTypeOK'
<1>1. k \in DOMAIN data
  BY DEF KeepAlive, KeepAliveStatus, Exists
<1>2. data' = [data EXCEPT ![k].ttlGeneration = @ + 1]
  BY DEF KeepAlive, KvKeepAlive
<1>3. /\ DOMAIN data' = DOMAIN data
      /\ data' \in [DOMAIN data -> Entry]
      /\ \A x \in DOMAIN data : data'[x].modRevision = data[x].modRevision
  <2> DEFINE renewed == [data[k] EXCEPT !.ttlGeneration = @ + 1]
  <2>1. data[k] \in Entry
    BY <1>1 DEF LeasedTypeOK
  <2>2. renewed \in Entry /\ renewed.modRevision = data[k].modRevision
    BY <2>1 DEF Entry
  <2>3. data' = [data EXCEPT ![k] = renewed]
    BY <1>2
  <2> HIDE DEF renewed
  <2> QED
    BY <1>1, <2>2, <2>3 DEF LeasedTypeOK
<1>4. toSchedule' \in [Thread -> SUBSET Lease]
  <2>1. [LeaseOf(k, data[k]) EXCEPT !.ttlGeneration = @ + 1] \in Lease
    <3>1. data[k] \in Entry
      BY <1>1 DEF LeasedTypeOK
    <3>2. LeaseOf(k, data[k]) \in Lease
      BY <3>1 DEF LeaseOf, Lease, Entry, KeepAlive, KeepAliveStatus
    <3> QED
      BY <3>2 DEF Lease
  <2> QED
    BY <2>1 DEF LeasedTypeOK, KeepAlive
<1>5. renewedAt' \in [DOMAIN data' -> Nat]
  BY <1>3, ZenonT(40) DEF LeasedTypeOK, KeepAlive
<1>6. UNCHANGED <<revision, now, expiryIndex, expired, callbacks, lapsed>>
  BY DEF KeepAlive, KvKeepAlive, ttlVars
<1> QED
  BY <1>3, <1>4, <1>5, <1>6, ZenonT(40) DEF LeasedTypeOK

\* The return of a mutation callback keeps the types.
LEMMA CallbackDoneType ==
  ASSUME LeasedTypeOK, NEW t \in Threads, CallbackDone(t)
  PROVE  LeasedTypeOK'
<1>1. callbacks' \in [Threads -> Seq(Event)]
  BY DEF LeasedTypeOK, CallbackDone
<1>2. UNCHANGED <<data, revision, now, expiryIndex, expired, toSchedule,
                  renewedAt, lapsed>>
  BY DEF CallbackDone, kvVars, ttlVars, historyVars
<1> QED
  BY <1>1, <1>2 DEF LeasedTypeOK

\* TtlManager::Schedule keeps the types.
LEMMA ScheduleType ==
  ASSUME LeasedTypeOK, NEW t \in Thread, Schedule(t)
  PROVE  LeasedTypeOK'
<1>1. PICK l \in toSchedule[t] :
        TtlSchedule(l.key, l.ttlMs, l.revision, l.ttlGeneration)
  BY DEF Schedule
<1>2. l \in Lease
  BY DEF LeasedTypeOK
<1>3. /\ DOMAIN expiryIndex' \subseteq Key
      /\ expiryIndex' \in [DOMAIN expiryIndex' -> Record]
  BY <1>1, <1>2 DEF TtlSchedule, LeasedTypeOK, Lease, Record
<1>4. toSchedule' \in [Thread -> SUBSET Lease]
  BY DEF LeasedTypeOK, Schedule
<1>5. UNCHANGED <<data, revision, now, expired, callbacks, renewedAt, lapsed>>
  BY <1>1 DEF Schedule, TtlSchedule, kvVars, historyVars
<1> QED
  BY <1>3, <1>4, <1>5 DEF LeasedTypeOK

\* Popping due records keeps the types.
LEMMA CheckExpirationType ==
  ASSUME LeasedTypeOK, NEW keys \in SUBSET Key, CheckExpiration(keys)
  PROVE  LeasedTypeOK'
<1>1. /\ DOMAIN expiryIndex' \subseteq Key
      /\ expiryIndex' \in [DOMAIN expiryIndex' -> Record]
  BY DEF LeasedTypeOK, CheckExpiration, TtlPop
<1>2. expired' \subseteq [key : Key, revision : Nat, ttlGeneration : Nat]
  BY DEF LeasedTypeOK, CheckExpiration, TtlPop, Due, Record
<1>3. UNCHANGED <<data, revision, now, callbacks, toSchedule, renewedAt, lapsed>>
  BY DEF CheckExpiration, TtlPop, kvVars, callVars, historyVars
<1> QED
  BY <1>1, <1>2, <1>3 DEF LeasedTypeOK

\* DeleteIfTtlExpired keeps the types.
LEMMA ExpireKeyType ==
  ASSUME LeasedTypeOK, NEW r \in expired, ExpireKey(r)
  PROVE  LeasedTypeOK'
<1>1. expired' \subseteq [key : Key, revision : Nat, ttlGeneration : Nat]
  BY DEF LeasedTypeOK, ExpireKey, StillExpired
<1>2. UNCHANGED <<now, expiryIndex, toSchedule>>
  BY DEF ExpireKey
<1>3. CASE TtlExpiredMatches(r.key, r.revision, r.ttlGeneration)
  <2>1. r.key \in DOMAIN data /\ r.key \in Key
    BY <1>3 DEF TtlExpiredMatches, Exists, LeasedTypeOK
  <2>2. /\ KvErase({r.key})
        /\ renewedAt' = [x \in DOMAIN data \ {r.key} |-> renewedAt[x]]
        /\ callbacks' = [callbacks EXCEPT ![TtlThread] = <<DeleteEvent(r.key)>>]
        /\ lapsed' = lapsed \cup {r.key}
    BY <1>3 DEF ExpireKey
  <2>3. DeleteEvent(r.key) \in Event
    BY <2>1 DEF LeasedTypeOK, DeleteEvent, Event, Entry
  <2>4. <<DeleteEvent(r.key)>> \in Seq(Event)
    BY <2>3
  <2>5. callbacks' \in [Threads -> Seq(Event)]
    BY <2>2, <2>4, ZenonT(40) DEF LeasedTypeOK
  <2>6. {r.key} \in SUBSET DOMAIN data
    BY <2>1
  <2>7. /\ revision' \in Nat \ {0}
        /\ DOMAIN data' \subseteq Key
        /\ data' \in [DOMAIN data' -> Entry]
        /\ \A x \in DOMAIN data' : data'[x].modRevision <= revision'
        /\ renewedAt' \in [DOMAIN data' -> Nat]
    BY <2>2, <2>6, EraseType, ZenonT(40)
  <2>8. lapsed' \subseteq Key
    BY <2>1, <2>2 DEF LeasedTypeOK
  <2> QED
    BY <1>1, <1>2, <2>5, <2>7, <2>8 DEF LeasedTypeOK
<1>4. CASE ~TtlExpiredMatches(r.key, r.revision, r.ttlGeneration)
  <2>1. UNCHANGED <<data, revision, callbacks, renewedAt, lapsed>>
    BY <1>4 DEF ExpireKey, kvVars, historyVars
  <2> QED
    BY <1>1, <1>2, <2>1 DEF LeasedTypeOK
<1> QED
  BY <1>3, <1>4

\* Every step keeps the types.
LEMMA NextType == LeasedTypeOK /\ [LeasedNext]_leasedVars => LeasedTypeOK'
<1> SUFFICES ASSUME LeasedTypeOK, [LeasedNext]_leasedVars
             PROVE  LeasedTypeOK'
  OBVIOUS
<1>1. ASSUME NEW t \in Thread, Request(t)
      PROVE  LeasedTypeOK'
  BY <1>1, PutType, DeleteRangeType, KeepAliveType DEF Request
<1>2. ASSUME NEW t \in Thread, Schedule(t)
      PROVE  LeasedTypeOK'
  BY <1>2, ScheduleType
<1>3. ASSUME NEW t \in Threads, CallbackDone(t)
      PROVE  LeasedTypeOK'
  BY <1>3, CallbackDoneType
<1>4. CASE Expiry
  BY <1>4, CheckExpirationType, ExpireKeyType DEF Expiry
<1>5. CASE ClockTick
  BY <1>5 DEF ClockTick, Tick, LeasedTypeOK, kvVars, callVars, historyVars
<1>6. CASE UNCHANGED leasedVars
  BY <1>6 DEF leasedVars, LeasedTypeOK, kvVars, ttlVars, callVars, historyVars
<1> QED
  BY <1>1, <1>2, <1>3, <1>4, <1>5, <1>6 DEF LeasedNext

\* Every state the store reaches is well typed.
THEOREM LeasedTypes == LeasedSpec => []LeasedTypeOK
  BY InitType, NextType, PTL DEF LeasedSpec
-----------------------------------------------------------------------------
(* The invariant. *)

\* Without entries there are no leases to forget.
LEMMA InitInv == LeasedInit => LeasedInv
<1> SUFFICES ASSUME LeasedInit PROVE LeasedInv
  OBVIOUS
<1>1. LeasedTypeOK
  BY InitType
<1>2. LeasesInOrder
  BY DEF LeasedInit, TtlInit, LeasesInOrder
<1>3. LeasesAgree
  BY DEF LeasedInit, KvInit, LeasesAgree
<1>4. NoLeaseForgotten /\ NoEarlyRecord
  BY DEF LeasedInit, KvInit, NoLeaseForgotten, NoEarlyRecord, HasTtl, Exists
<1> QED
  BY <1>1, <1>2, <1>3, <1>4 DEF LeasedInv

\* A Put makes every earlier lease of its key a past one.
LEMMA PutInv ==
  ASSUME LeasedInv, NEW t \in Thread, NEW k \in Key, NEW ttlMs \in Ttl,
         NEW v, NEW m, Put(t, k, ttlMs, v, m)
  PROVE  LeasedInv'
<1> DEFINE entry == PutEntry(k, ttlMs)
<1>0. ttlMs \in Nat
  BY LeasedStoreAssumption
<1>1. LeasedTypeOK /\ LeasedTypeOK'
  BY PutType DEF LeasedInv
<1>2. /\ revision' = revision + 1
      /\ DOMAIN data' = DOMAIN data \cup {k}
      /\ data'[k] = entry
      /\ \A x \in DOMAIN data \ {k} : data'[x] = data[x]
      /\ renewedAt'[k] = now
      /\ \A x \in DOMAIN data \ {k} : renewedAt'[x] = renewedAt[x]
      /\ UNCHANGED <<now, expiryIndex, expired>>
  BY DEF Put, KvPut, ttlVars
<1>3. /\ entry.modRevision = revision + 1
      /\ entry.ttlMs = ttlMs
      /\ entry.ttlGeneration \in Nat \ {0}
  BY <1>1, <1>0 DEF PutEntry, LeasedTypeOK, Entry, Exists
<1>4. /\ toSchedule'[t] = IF ttlMs > 0 THEN {LeaseOf(k, entry)} ELSE {}
      /\ \A u \in Thread \ {t} : toSchedule'[u] = toSchedule[u]
      /\ toSchedule[t] = {}
  BY <1>1 DEF Put, Free, LeasedTypeOK
<1> HIDE DEF entry
<1>5. ASSUME NEW x \in Key, NEW rev \in Nat, NEW generation \in Nat,
             NotAhead(x, rev, generation)
      PROVE  NotAhead(x, rev, generation)'
  BY <1>1, <1>2, <1>3, <1>5 DEF NotAhead, Exists, LeasedTypeOK
<1>6. ASSUME NEW l, l = LeaseOf(k, entry)
      PROVE  NotAhead(l.key, l.revision, l.ttlGeneration)'
  <2>1. l.key = k /\ l.revision = revision' /\ l.revision = data'[k].modRevision
        /\ l.ttlGeneration = data'[k].ttlGeneration
    BY <1>2, <1>3, <1>6 DEF LeaseOf
  <2> QED
    BY <1>1, <1>2, <1>3, <2>1 DEF NotAhead, LeasedTypeOK
<1>7. LeasesInOrder'
  <2>1. ASSUME NEW u \in Thread, NEW l \in toSchedule'[u]
        PROVE  NotAhead(l.key, l.revision, l.ttlGeneration)'
    <3>1. CASE u = t
      BY <1>4, <1>6, <3>1
    <3>2. CASE u # t
      <4>1. l \in toSchedule[u] /\ l \in Lease
        BY <1>1, <1>4, <3>2 DEF LeasedTypeOK
      <4> QED
        BY <1>5, <4>1 DEF LeasedInv, LeasesInOrder, Lease
    <3> QED
      BY <3>1, <3>2
  <2>2. ASSUME NEW x \in DOMAIN expiryIndex
        PROVE  NotAhead(x, expiryIndex[x].revision, expiryIndex[x].ttlGeneration)'
    BY <1>1, <1>2, <1>5 DEF LeasedInv, LeasesInOrder, LeasedTypeOK, Record
  <2>3. ASSUME NEW r \in expired
        PROVE  NotAhead(r.key, r.revision, r.ttlGeneration)'
    BY <1>1, <1>2, <1>5 DEF LeasedInv, LeasesInOrder, LeasedTypeOK
  <2> QED
    BY <1>2, <2>1, <2>2, <2>3 DEF LeasesInOrder
<1>8. LeasesAgree'
  <2>1. ASSUME NEW u \in Thread, NEW l \in toSchedule'[u], l.key \in DOMAIN data',
               l.revision = data'[l.key].modRevision
        PROVE  l.ttlMs = data'[l.key].ttlMs
    <3>1. CASE u = t
      BY <1>2, <1>3, <1>4, <3>1 DEF LeaseOf
    <3>2. CASE u # t
      <4>1. l \in toSchedule[u] /\ l \in Lease
        BY <1>1, <1>4, <3>2 DEF LeasedTypeOK
      <4>2. l.revision <= revision
        BY <4>1 DEF LeasedInv, LeasesInOrder, NotAhead
      <4>3. l.key # k
        BY <1>1, <1>2, <1>3, <2>1, <4>1, <4>2 DEF LeasedTypeOK, Lease
      <4> QED
        BY <1>2, <2>1, <4>1, <4>3 DEF LeasedInv, LeasesAgree, Exists
    <3> QED
      BY <3>1, <3>2
  <2>2. \A x \in DOMAIN data' : renewedAt'[x] <= now
    BY <1>1, <1>2 DEF LeasedInv, LeasesAgree, LeasedTypeOK
  <2>3. \A u \in Thread : \A l1, l2 \in toSchedule'[u] : l1 = l2
    BY <1>4 DEF LeasedInv, LeasesAgree
  <2> QED
    BY <1>2, <2>1, <2>2, <2>3 DEF LeasesAgree, Exists
<1>9. NoLeaseForgotten'
  <2> SUFFICES ASSUME NEW x \in Key, HasTtl(x)'
               PROVE  (Unscheduled(x) \/ Scheduled(x) \/ Popped(x))'
    BY DEF NoLeaseForgotten
  <2>1. CASE x = k
    BY <1>0, <1>2, <1>3, <1>4, <2>1 DEF HasTtl, Unscheduled, LeaseOf
  <2>2. CASE x # k
    <3>1. HasTtl(x) /\ x \in DOMAIN data /\ data'[x] = data[x]
      BY <1>2, <2>2 DEF HasTtl, Exists
    <3>2. CASE Unscheduled(x)
      BY <1>4, <3>1, <3>2 DEF Unscheduled
    <3>3. CASE Scheduled(x)
      BY <1>2, <3>1, <3>3 DEF Scheduled
    <3>4. CASE Popped(x)
      BY <1>2, <3>1, <3>4 DEF Popped, TtlExpiredMatches, Exists
    <3> QED
      BY <3>1, <3>2, <3>3, <3>4 DEF LeasedInv, NoLeaseForgotten
  <2> QED
    BY <2>1, <2>2
<1>10. NoEarlyRecord'
  <2> SUFFICES ASSUME NEW x \in Key, HasTtl(x)'
               PROVE  /\ Scheduled(x)' =>
                           expiryIndex[x].expireTime >= renewedAt'[x] + data'[x].ttlMs
                      /\ Popped(x)' => now >= renewedAt'[x] + data'[x].ttlMs
    BY <1>2 DEF NoEarlyRecord
  <2>1. CASE x = k
    <3>1. ~Scheduled(x)'
      BY <1>1, <1>2, <1>3, <2>1
      DEF LeasedInv, LeasesInOrder, NotAhead, Scheduled, LeasedTypeOK, Record
    <3>2. ~Popped(x)'
      BY <1>1, <1>2, <1>3, <2>1
      DEF LeasedInv, LeasesInOrder, NotAhead, Popped, TtlExpiredMatches, LeasedTypeOK
    <3> QED
      BY <3>1, <3>2
  <2>2. CASE x # k
    <3>1. HasTtl(x) /\ x \in DOMAIN data /\ data'[x] = data[x]
          /\ renewedAt'[x] = renewedAt[x]
      BY <1>2, <2>2 DEF HasTtl, Exists
    <3>2. Scheduled(x)' => Scheduled(x)
      BY <1>2, <3>1 DEF Scheduled
    <3>3. Popped(x)' => Popped(x)
      BY <1>2, <3>1 DEF Popped, TtlExpiredMatches, Exists
    <3> QED
      BY <3>1, <3>2, <3>3 DEF LeasedInv, NoEarlyRecord
  <2> QED
    BY <2>1, <2>2
<1> QED
  BY <1>1, <1>7, <1>8, <1>9, <1>10 DEF LeasedInv

\* Removing keys, and dropping popped records that match no key left, keeps the
\* invariant.
LEMMA RemoveInv ==
  ASSUME LeasedInv, LeasedTypeOK', NEW keys \in SUBSET Key,
         revision' >= revision,
         data' = [x \in DOMAIN data \ keys |-> data[x]],
         renewedAt' = [x \in DOMAIN data \ keys |-> renewedAt[x]],
         UNCHANGED <<now, expiryIndex, toSchedule>>,
         expired' \subseteq expired,
         \A r \in expired \ expired' :
           r.key \in keys \/ ~TtlExpiredMatches(r.key, r.revision, r.ttlGeneration)
  PROVE  LeasedInv'
<1>1. LeasedTypeOK
  BY DEF LeasedInv
<1>2. /\ DOMAIN data' = DOMAIN data \ keys
      /\ \A x \in DOMAIN data' : /\ x \in DOMAIN data
                                 /\ data'[x] = data[x]
                                 /\ renewedAt'[x] = renewedAt[x]
  OBVIOUS
<1>3. ASSUME NEW x \in Key, NEW rev \in Nat, NEW generation \in Nat,
             NotAhead(x, rev, generation)
      PROVE  NotAhead(x, rev, generation)'
  BY <1>1, <1>2, <1>3 DEF NotAhead, Exists, LeasedTypeOK
<1>4. LeasesInOrder'
  <2>1. ASSUME NEW u \in Thread, NEW l \in toSchedule[u]
        PROVE  NotAhead(l.key, l.revision, l.ttlGeneration)'
    <3>1. l \in Lease
      BY <1>1 DEF LeasedTypeOK
    <3> QED
      BY <1>3, <3>1 DEF LeasedInv, LeasesInOrder, Lease
  <2>2. ASSUME NEW x \in DOMAIN expiryIndex
        PROVE  NotAhead(x, expiryIndex[x].revision, expiryIndex[x].ttlGeneration)'
    BY <1>1, <1>3 DEF LeasedInv, LeasesInOrder, LeasedTypeOK, Record
  <2>3. ASSUME NEW r \in expired'
        PROVE  NotAhead(r.key, r.revision, r.ttlGeneration)'
    BY <1>1, <1>3 DEF LeasedInv, LeasesInOrder, LeasedTypeOK
  <2> QED
    BY <2>1, <2>2, <2>3 DEF LeasesInOrder
<1>5. LeasesAgree'
  BY <1>2 DEF LeasedInv, LeasesAgree, Exists
<1>6. ASSUME NEW x \in Key, HasTtl(x)'
      PROVE  /\ HasTtl(x) /\ x \in DOMAIN data /\ x \notin keys
             /\ data'[x] = data[x] /\ renewedAt'[x] = renewedAt[x]
  BY <1>2, <1>6 DEF HasTtl, Exists
<1>7. ASSUME NEW x \in Key, HasTtl(x)'
      PROVE  Popped(x)' <=> Popped(x)
  <2>1. \A rev, generation : TtlExpiredMatches(x, rev, generation)'
                               <=> TtlExpiredMatches(x, rev, generation)
    BY <1>2, <1>6, <1>7, ZenonT(40) DEF TtlExpiredMatches, Exists
  <2> QED
    BY <1>6, <1>7, <2>1, ZenonT(40) DEF Popped
<1>8. NoLeaseForgotten'
  BY <1>6, <1>7, ZenonT(40) DEF LeasedInv, NoLeaseForgotten, Unscheduled, Scheduled, LeaseOf
<1>9. NoEarlyRecord'
  BY <1>6, <1>7, ZenonT(40) DEF LeasedInv, NoEarlyRecord, Scheduled
<1> QED
  BY <1>4, <1>5, <1>8, <1>9 DEF LeasedInv

\* DeleteRange only removes leases.
LEMMA DeleteRangeInv ==
  ASSUME LeasedInv, NEW t \in Thread, NEW scope \in DeleteScope, NEW m,
         DeleteRange(t, scope, m)
  PROVE  LeasedInv'
<1> DEFINE keys == scope \cap DOMAIN data
<1>1. LeasedTypeOK /\ LeasedTypeOK'
  BY DeleteRangeType DEF LeasedInv
<1>2. keys \in SUBSET Key
  BY <1>1 DEF LeasedTypeOK
<1>3. /\ revision' >= revision
      /\ data' = [x \in DOMAIN data \ keys |-> data[x]]
      /\ renewedAt' = [x \in DOMAIN data \ keys |-> renewedAt[x]]
      /\ UNCHANGED <<now, expiryIndex, toSchedule, expired>>
  BY <1>1 DEF DeleteRange, KvErase, ttlVars, LeasedTypeOK
<1> QED
  BY <1>1, <1>2, <1>3, RemoveInv, ZenonT(40)

\* DeleteIfTtlExpired removes the popped lease with its entry, or leaves both
\* the entry and its current lease alone.
LEMMA ExpireKeyInv ==
  ASSUME LeasedInv, NEW r \in expired, ExpireKey(r)
  PROVE  LeasedInv'
<1>1. LeasedTypeOK /\ LeasedTypeOK'
  BY ExpireKeyType DEF LeasedInv
<1>2. r.key \in Key
  BY <1>1 DEF LeasedTypeOK
<1>3. UNCHANGED <<now, expiryIndex, toSchedule>> /\ expired' = expired \ {r}
  BY DEF ExpireKey, StillExpired
<1>4. CASE TtlExpiredMatches(r.key, r.revision, r.ttlGeneration)
  <2>1. /\ revision' >= revision
        /\ data' = [x \in DOMAIN data \ {r.key} |-> data[x]]
        /\ renewedAt' = [x \in DOMAIN data \ {r.key} |-> renewedAt[x]]
    BY <1>1, <1>4 DEF ExpireKey, KvErase, LeasedTypeOK
  <2> QED
    BY <1>1, <1>2, <1>3, <2>1, RemoveInv, ZenonT(40)
<1>5. CASE ~TtlExpiredMatches(r.key, r.revision, r.ttlGeneration)
  <2>1. /\ revision' >= revision
        /\ data' = [x \in DOMAIN data \ {} |-> data[x]]
        /\ renewedAt' = [x \in DOMAIN data \ {} |-> renewedAt[x]]
    BY <1>1, <1>5 DEF ExpireKey, kvVars, historyVars, LeasedTypeOK
  <2>2. \A q \in expired \ expired' :
          ~TtlExpiredMatches(q.key, q.revision, q.ttlGeneration)
    BY <1>3, <1>5
  <2> QED
    BY <1>1, <1>3, <2>1, <2>2, RemoveInv, {} \in SUBSET Key, ZenonT(40)
<1> QED
  BY <1>4, <1>5

\* The return of a mutation callback concerns no lease.
LEMMA CallbackDoneInv ==
  ASSUME LeasedInv, NEW t \in Threads, CallbackDone(t)
  PROVE  LeasedInv'
<1>1. LeasedTypeOK /\ LeasedTypeOK'
  BY CallbackDoneType DEF LeasedInv
<1>2. /\ revision' >= revision
      /\ data' = [x \in DOMAIN data \ {} |-> data[x]]
      /\ renewedAt' = [x \in DOMAIN data \ {} |-> renewedAt[x]]
      /\ UNCHANGED <<now, expiryIndex, toSchedule, expired>>
  BY <1>1 DEF CallbackDone, kvVars, ttlVars, historyVars, LeasedTypeOK
<1> QED
  BY <1>1, <1>2, RemoveInv, {} \in SUBSET Key, ZenonT(40)

\* A KeepAlive makes every earlier lease of its entry a past one.
LEMMA KeepAliveInv ==
  ASSUME LeasedInv, NEW t \in Thread, NEW k \in Key, NEW m, KeepAlive(t, k, m)
  PROVE  LeasedInv'
<1> DEFINE lease == [LeaseOf(k, data[k]) EXCEPT !.ttlGeneration = @ + 1]
<1>1. LeasedTypeOK /\ LeasedTypeOK'
  BY KeepAliveType DEF LeasedInv
<1>2. k \in DOMAIN data
  BY DEF KeepAlive, KeepAliveStatus, Exists
<1>3. /\ revision' = revision
      /\ DOMAIN data' = DOMAIN data
      /\ data'[k].modRevision = data[k].modRevision
      /\ data'[k].ttlMs = data[k].ttlMs
      /\ data'[k].ttlGeneration = data[k].ttlGeneration + 1
      /\ \A x \in DOMAIN data \ {k} : data'[x] = data[x]
      /\ renewedAt'[k] = now
      /\ \A x \in DOMAIN data \ {k} : renewedAt'[x] = renewedAt[x]
      /\ UNCHANGED <<now, expiryIndex, expired>>
  BY <1>1, <1>2, ZenonT(40) DEF KeepAlive, KvKeepAlive, ttlVars, LeasedTypeOK, Entry
<1>4. /\ toSchedule'[t] = {lease}
      /\ \A u \in Thread \ {t} : toSchedule'[u] = toSchedule[u]
      /\ toSchedule[t] = {}
  BY <1>1 DEF KeepAlive, Free, LeasedTypeOK
<1>5. /\ lease.key = k
      /\ lease.ttlMs = data'[k].ttlMs
      /\ lease.revision = data'[k].modRevision
      /\ lease.ttlGeneration = data'[k].ttlGeneration
      /\ lease = LeaseOf(k, data'[k])
  BY <1>3 DEF LeaseOf
<1> HIDE DEF lease
<1>t. /\ data[k].modRevision \in Nat /\ data[k].ttlGeneration \in Nat
         /\ revision \in Nat /\ now \in Nat
  BY <1>1, <1>2 DEF LeasedTypeOK, Entry
<1>6. ASSUME NEW x \in Key, NEW rev \in Nat, NEW generation \in Nat,
             NotAhead(x, rev, generation)
      PROVE  NotAhead(x, rev, generation)'
  <2>1. CASE x = k
    BY <1>2, <1>3, <1>t, <1>6, <2>1 DEF NotAhead, Exists
  <2>2. CASE x # k
    BY <1>3, <1>6, <2>2 DEF NotAhead, Exists
  <2> QED
    BY <2>1, <2>2
<1>7. LeasesInOrder'
  <2>1. ASSUME NEW u \in Thread, NEW l \in toSchedule'[u]
        PROVE  NotAhead(l.key, l.revision, l.ttlGeneration)'
    <3>1. CASE u = t
      BY <1>1, <1>2, <1>3, <1>4, <1>5, <3>1 DEF NotAhead, LeasedTypeOK, Entry
    <3>2. CASE u # t
      <4>1. l \in toSchedule[u] /\ l \in Lease
        BY <1>1, <1>4, <3>2 DEF LeasedTypeOK
      <4> QED
        BY <1>6, <4>1 DEF LeasedInv, LeasesInOrder, Lease
    <3> QED
      BY <3>1, <3>2
  <2>2. ASSUME NEW x \in DOMAIN expiryIndex
        PROVE  NotAhead(x, expiryIndex[x].revision, expiryIndex[x].ttlGeneration)'
    BY <1>1, <1>3, <1>6, ZenonT(40) DEF LeasedInv, LeasesInOrder, LeasedTypeOK, Record
  <2>3. ASSUME NEW r \in expired
        PROVE  NotAhead(r.key, r.revision, r.ttlGeneration)'
    BY <1>1, <1>3, <1>6, ZenonT(40) DEF LeasedInv, LeasesInOrder, LeasedTypeOK
  <2> QED
    BY <1>3, <2>1, <2>2, <2>3 DEF LeasesInOrder
<1>8. LeasesAgree'
  <2>1. ASSUME NEW u \in Thread, NEW l \in toSchedule'[u], l.key \in DOMAIN data',
               l.revision = data'[l.key].modRevision
        PROVE  l.ttlMs = data'[l.key].ttlMs
    <3>1. CASE u = t
      BY <1>4, <1>5, <3>1
    <3>2. CASE u # t
      BY <1>2, <1>3, <1>4, <2>1, <3>2 DEF LeasedInv, LeasesAgree, Exists
    <3> QED
      BY <3>1, <3>2, ZenonT(40)
  <2>2. \A x \in DOMAIN data' : renewedAt'[x] <= now
    BY <1>3, <1>t DEF LeasedInv, LeasesAgree
  <2>3. \A u \in Thread : \A l1, l2 \in toSchedule'[u] : l1 = l2
    BY <1>4 DEF LeasedInv, LeasesAgree
  <2> QED
    BY <1>3, <2>1, <2>2, <2>3 DEF LeasesAgree, Exists
<1>9. ASSUME NEW x \in Key, x # k, HasTtl(x)'
      PROVE  /\ HasTtl(x) /\ x \in DOMAIN data
             /\ data'[x] = data[x] /\ renewedAt'[x] = renewedAt[x]
             /\ Popped(x)' <=> Popped(x)
             /\ Scheduled(x)' <=> Scheduled(x)
  BY <1>3, <1>9, ZenonT(40) DEF HasTtl, Exists, Popped, Scheduled, TtlExpiredMatches
<1>10. NoLeaseForgotten'
  <2>1. Unscheduled(k)'
    BY <1>4, <1>5, ZenonT(40) DEF Unscheduled
  <2>2. ASSUME NEW x \in Key, x # k, HasTtl(x)', Unscheduled(x)
        PROVE  Unscheduled(x)'
    BY <1>4, <1>9, <2>2, ZenonT(40) DEF Unscheduled
  <2> QED
    BY <1>9, <2>1, <2>2 DEF LeasedInv, NoLeaseForgotten
<1>11. NoEarlyRecord'
  <2>1. ~Scheduled(k)'
    <3>1. ASSUME k \in DOMAIN expiryIndex
          PROVE  /\ NotAhead(k, expiryIndex[k].revision, expiryIndex[k].ttlGeneration)
                 /\ expiryIndex[k].ttlGeneration \in Nat
      BY <1>1, <3>1, ZenonT(40) DEF LeasedInv, LeasesInOrder, LeasedTypeOK, Record
    <3> QED
      BY <1>2, <1>3, <1>t, <3>1 DEF NotAhead, Scheduled, Exists
  <2>2. ~Popped(k)'
    <3>1. ASSUME NEW r \in expired
          PROVE  NotAhead(r.key, r.revision, r.ttlGeneration) /\ r.ttlGeneration \in Nat
      BY <1>1 DEF LeasedInv, LeasesInOrder, LeasedTypeOK
    <3> QED
      BY <1>2, <1>3, <1>t, <3>1 DEF NotAhead, Popped, TtlExpiredMatches, Exists
  <2> QED
    BY <1>3, <1>9, <2>1, <2>2, ZenonT(40) DEF LeasedInv, NoEarlyRecord
<1> QED
  BY <1>1, <1>7, <1>8, <1>10, <1>11 DEF LeasedInv

\* A late schedule never displaces the record of the current lease.
LEMMA ScheduleInv ==
  ASSUME LeasedInv, NEW t \in Thread, Schedule(t)
  PROVE  LeasedInv'
<1>1. LeasedTypeOK /\ LeasedTypeOK'
  BY ScheduleType DEF LeasedInv
<1>2. /\ UNCHANGED <<data, revision, renewedAt, now, expired>>
      /\ toSchedule'[t] = {}
      /\ \A u \in Thread \ {t} : toSchedule'[u] = toSchedule[u]
  BY <1>1 DEF Schedule, TtlSchedule, kvVars, historyVars, LeasedTypeOK
<1>3. PICK l \in toSchedule[t] :
        TtlSchedule(l.key, l.ttlMs, l.revision, l.ttlGeneration)
  BY DEF Schedule
<1>4. /\ l.key \in Key /\ l.ttlMs \in Nat /\ l.revision \in Nat
      /\ l.ttlGeneration \in Nat
      /\ l = [key |-> l.key, ttlMs |-> l.ttlMs, revision |-> l.revision,
              ttlGeneration |-> l.ttlGeneration]
  BY <1>1 DEF LeasedTypeOK, Lease
<1>5. /\ NotAhead(l.key, l.revision, l.ttlGeneration)
      /\ toSchedule[t] = {l}
  BY DEF LeasedInv, LeasesInOrder, LeasesAgree
<1>6. \A x, rev, generation : NotAhead(x, rev, generation)'
                                <=> NotAhead(x, rev, generation)
  BY <1>2 DEF NotAhead, Exists
<1>t. /\ revision \in Nat /\ now \in Nat
      /\ \A x \in DOMAIN data : /\ data[x].modRevision \in Nat
                                /\ data[x].ttlGeneration \in Nat
                                /\ data[x].ttlMs \in Nat
                                /\ renewedAt[x] \in Nat
      /\ \A x \in DOMAIN expiryIndex : /\ expiryIndex[x].revision \in Nat
                                       /\ expiryIndex[x].ttlGeneration \in Nat
  BY <1>1, ZenonT(40) DEF LeasedTypeOK, Entry, Record
\* Either the record of l.key is replaced, or nothing is.
<1>7. CASE l.ttlMs > 0 /\ ~IsStale(l.key, l.revision, l.ttlGeneration)
  <2>1. /\ DOMAIN expiryIndex' = DOMAIN expiryIndex \cup {l.key}
        /\ expiryIndex'[l.key] = [revision |-> l.revision,
                                  ttlGeneration |-> l.ttlGeneration,
                                  expireTime |-> now + l.ttlMs]
        /\ \A x \in DOMAIN expiryIndex \ {l.key} :
             expiryIndex'[x] = expiryIndex[x]
    BY <1>3, <1>4, <1>7 DEF TtlSchedule
  <2>2. LeasesInOrder'
    <3>1. LeasesInOrder
      BY DEF LeasedInv
    <3> QED BY <1>2, <1>5, <1>6, <2>1, <3>1 DEF LeasesInOrder
  <2>3. ASSUME NEW x \in Key, x # l.key
        PROVE  Scheduled(x)' <=> Scheduled(x)
    BY <1>2, <2>1, <2>3 DEF Scheduled
  <2>4. ASSUME HasTtl(l.key), Scheduled(l.key) \/ Unscheduled(l.key)
        PROVE  Scheduled(l.key)' \/ Unscheduled(l.key)'
    <3>1. CASE Scheduled(l.key)
      BY <1>2, <1>4, <1>5, <1>7, <1>t, <2>1, <2>4, <3>1
      DEF Scheduled, IsStale, NotAhead, HasTtl
    <3>2. CASE \E u \in Thread \ {t} : LeaseOf(l.key, data[l.key]) \in toSchedule[u]
      BY <1>2, <3>2 DEF Unscheduled
    <3>3. CASE LeaseOf(l.key, data[l.key]) = l
      BY <1>2, <2>1, <3>3 DEF Scheduled, LeaseOf
    <3> QED
      BY <1>5, <2>4, <3>1, <3>2, <3>3, ZenonT(40) DEF Unscheduled
  <2>5. ASSUME NEW x \in Key, x # l.key, Unscheduled(x)
        PROVE  Unscheduled(x)'
    BY <1>2, <1>5, <2>5 DEF Unscheduled, LeaseOf
  <2>6. NoLeaseForgotten'
    BY <1>2, <1>4, <2>3, <2>4, <2>5
    DEF LeasedInv, NoLeaseForgotten, HasTtl, Exists, Popped, TtlExpiredMatches
  <2>7. ASSUME HasTtl(l.key), Scheduled(l.key)'
        PROVE  expiryIndex'[l.key].expireTime >= renewedAt[l.key] + data[l.key].ttlMs
    <3>1. l.key \in DOMAIN data /\ l.revision = data[l.key].modRevision
      BY <1>2, <2>1, <2>7 DEF HasTtl, Exists, Scheduled
    <3>2. l.ttlMs = data[l.key].ttlMs /\ renewedAt[l.key] <= now
      BY <3>1 DEF LeasedInv, LeasesAgree, Exists
    <3>3. expiryIndex'[l.key].expireTime = now + l.ttlMs
      BY <2>1
    <3> QED
      BY <1>t, <3>1, <3>2, <3>3
  <2>8. NoEarlyRecord'
    <3> SUFFICES ASSUME NEW x \in Key, HasTtl(x)'
                 PROVE  /\ Scheduled(x)' =>
                             expiryIndex'[x].expireTime >= renewedAt[x] + data[x].ttlMs
                        /\ Popped(x)' => now >= renewedAt[x] + data[x].ttlMs
      BY <1>2 DEF NoEarlyRecord
    <3>1. HasTtl(x) /\ (Popped(x)' => Popped(x))
      BY <1>2 DEF HasTtl, Exists, Popped, TtlExpiredMatches
    <3>2. CASE x = l.key
      BY <2>7, <3>1, <3>2 DEF LeasedInv, NoEarlyRecord
    <3>3. CASE x # l.key
      <4>1. Scheduled(x)' => expiryIndex'[x] = expiryIndex[x]
        BY <2>1, <2>3, <3>3 DEF Scheduled
      <4> QED
        BY <2>3, <3>1, <3>3, <4>1, ZenonT(40) DEF LeasedInv, NoEarlyRecord
    <3> QED
      BY <3>2, <3>3
  <2>9. LeasesAgree'
    BY <1>2 DEF LeasedInv, LeasesAgree, Exists
  <2> QED
    BY <1>1, <2>2, <2>6, <2>8, <2>9 DEF LeasedInv
<1>8. CASE l.ttlMs <= 0 \/ IsStale(l.key, l.revision, l.ttlGeneration)
  <2>1. expiryIndex' = expiryIndex
    BY <1>3, <1>8, ZenonT(40) DEF TtlSchedule
  <2>2. LeasesInOrder'
    BY <1>2, <1>6, <2>1, ZenonT(40) DEF LeasedInv, LeasesInOrder
  <2>3. ASSUME NEW x \in Key, HasTtl(x)
        PROVE  LeaseOf(x, data[x]) # l
    <3> SUFFICES ASSUME LeaseOf(x, data[x]) = l PROVE FALSE
      BY ZenonT(40)
    <3>1. /\ x = l.key /\ data[x].ttlMs = l.ttlMs
          /\ data[x].modRevision = l.revision
          /\ data[x].ttlGeneration = l.ttlGeneration
      BY DEF LeaseOf
    <3>2. x \in DOMAIN data /\ l.ttlMs > 0
      BY <2>3, <3>1, ZenonT(40) DEF HasTtl, Exists
    <3>3. /\ x \in DOMAIN expiryIndex
          /\ NotAhead(x, expiryIndex[x].revision, expiryIndex[x].ttlGeneration)
      BY <1>4, <1>8, <3>1, <3>2 DEF IsStale, LeasedInv, LeasesInOrder
    <3> QED
      BY <1>4, <1>8, <1>t, <3>1, <3>2, <3>3 DEF IsStale, NotAhead, Exists
  <2>4. ASSUME NEW x \in Key, HasTtl(x), Unscheduled(x)
        PROVE  Unscheduled(x)'
    BY <1>2, <1>5, <2>3, <2>4, ZenonT(40) DEF Unscheduled
  <2>5. NoLeaseForgotten'
    BY <1>2, <2>1, <2>4, ZenonT(40) DEF LeasedInv, NoLeaseForgotten, HasTtl, Exists, Popped,
                            Scheduled, TtlExpiredMatches
  <2>6. NoEarlyRecord'
    BY <1>2, <2>1 DEF LeasedInv, NoEarlyRecord, HasTtl, Exists, Popped,
                      Scheduled, TtlExpiredMatches
  <2>7. LeasesAgree'
    BY <1>2 DEF LeasedInv, LeasesAgree, Exists
  <2> QED
    BY <1>1, <2>2, <2>5, <2>6, <2>7 DEF LeasedInv
<1> QED
  BY <1>4, <1>7, <1>8

\* The records that CheckExpiration pops are due.
LEMMA CheckExpirationInv ==
  ASSUME LeasedInv, NEW keys \in SUBSET Key, CheckExpiration(keys)
  PROVE  LeasedInv'
<1>1. LeasedTypeOK /\ LeasedTypeOK'
  BY CheckExpirationType, ZenonT(40) DEF LeasedInv
<1>2. /\ UNCHANGED <<data, revision, renewedAt, now, toSchedule>>
      /\ expired = {}
      /\ keys \subseteq Due
      /\ expired' = {[key |-> k, revision |-> expiryIndex[k].revision,
                      ttlGeneration |-> expiryIndex[k].ttlGeneration] : k \in keys}
      /\ expiryIndex' = [k \in DOMAIN expiryIndex \ keys |-> expiryIndex[k]]
  BY ZenonT(40) DEF CheckExpiration, TtlPop, kvVars, callVars, historyVars
<1>3. \A x, rev, generation : NotAhead(x, rev, generation)'
                                <=> NotAhead(x, rev, generation)
  BY <1>2 DEF NotAhead, Exists
<1>4. LeasesInOrder'
  BY <1>2, <1>3 DEF LeasedInv, LeasesInOrder, Due
<1>5. LeasesAgree'
  BY <1>2 DEF LeasedInv, LeasesAgree, Exists
<1>6. ASSUME NEW x \in Key, HasTtl(x)'
      PROVE  /\ HasTtl(x) /\ (Unscheduled(x)' <=> Unscheduled(x))
             /\ Scheduled(x)' <=> Scheduled(x) /\ x \notin keys
             /\ Popped(x)' <=> Scheduled(x) /\ x \in keys
             /\ ~Popped(x)
  <2>1. HasTtl(x) /\ (Unscheduled(x)' <=> Unscheduled(x)) /\ ~Popped(x)
    BY <1>2, <1>6, ZenonT(40) DEF HasTtl, Exists, Unscheduled, Popped
  <2>2. Scheduled(x)' <=> Scheduled(x) /\ x \notin keys
    BY <1>2, ZenonT(40) DEF Scheduled
  <2>3. Popped(x)' <=> Scheduled(x) /\ x \in keys
    <3>1. \A rev, generation : TtlExpiredMatches(x, rev, generation)'
            <=> /\ rev = data[x].modRevision
                /\ generation = data[x].ttlGeneration
      BY <1>2, <2>1 DEF TtlExpiredMatches, HasTtl, Exists
    <3>2. Popped(x)' <=> \E k \in keys :
                           /\ k = x
                           /\ expiryIndex[k].revision = data[x].modRevision
                           /\ expiryIndex[k].ttlGeneration = data[x].ttlGeneration
      <4>1. Popped(x)' <=> \E r \in expired' :
                             /\ r.key = x /\ r.revision = data[x].modRevision
                             /\ r.ttlGeneration = data[x].ttlGeneration
        BY <3>1 DEF Popped
      <4>2. ASSUME NEW r \in expired'
            PROVE  \E k \in keys : /\ r.key = k
                                    /\ r.revision = expiryIndex[k].revision
                                    /\ r.ttlGeneration = expiryIndex[k].ttlGeneration
        BY <1>2
      <4>3. ASSUME NEW k \in keys
            PROVE  \E r \in expired' :
                     /\ r.key = k /\ r.revision = expiryIndex[k].revision
                     /\ r.ttlGeneration = expiryIndex[k].ttlGeneration
        <5> DEFINE r == [key |-> k, revision |-> expiryIndex[k].revision,
                         ttlGeneration |-> expiryIndex[k].ttlGeneration]
        <5>1. r \in expired'
          BY <1>2
        <5> QED
          BY <5>1
      <4> QED
        BY <4>1, <4>2, <4>3
    <3> QED
      BY <1>2, <3>2, ZenonT(40) DEF Scheduled, Due
  <2> QED
    BY <2>1, <2>2, <2>3
<1>7. NoLeaseForgotten'
  BY <1>6, ZenonT(40) DEF LeasedInv, NoLeaseForgotten
<1>8. NoEarlyRecord'
  <2> SUFFICES ASSUME NEW x \in Key, HasTtl(x)'
               PROVE  /\ Scheduled(x)' =>
                           expiryIndex'[x].expireTime >= renewedAt[x] + data[x].ttlMs
                      /\ Popped(x)' => now >= renewedAt[x] + data[x].ttlMs
    BY <1>2, ZenonT(40) DEF NoEarlyRecord
  <2>1. Scheduled(x) => expiryIndex[x].expireTime >= renewedAt[x] + data[x].ttlMs
    BY <1>6 DEF LeasedInv, NoEarlyRecord
  <2>2. Scheduled(x)' => expiryIndex'[x] = expiryIndex[x]
    BY <1>2 DEF Scheduled
  <2>3. Popped(x)' => /\ Scheduled(x) /\ expiryIndex[x].expireTime <= now
                      /\ expiryIndex[x].expireTime \in Nat /\ x \in DOMAIN data
    BY <1>1, <1>2, <1>6 DEF Due, LeasedTypeOK, Record, HasTtl, Exists
  <2>4. x \in DOMAIN data => renewedAt[x] \in Nat /\ data[x].ttlMs \in Nat
    BY <1>1 DEF LeasedTypeOK, Entry
  <2>5. now \in Nat
    BY <1>1 DEF LeasedTypeOK
  <2> QED
    BY <1>6, <2>1, <2>2, <2>3, <2>4, <2>5
<1> QED
  BY <1>1, <1>4, <1>5, <1>7, <1>8 DEF LeasedInv

\* Time passing makes no record early.
LEMMA ClockTickInv ==
  ASSUME LeasedInv, ClockTick
  PROVE  LeasedInv'
<1>1. LeasedTypeOK /\ LeasedTypeOK'
  BY NextType DEF LeasedInv, LeasedNext
<1>2. /\ UNCHANGED <<data, revision, expiryIndex, expired, toSchedule, renewedAt>>
      /\ now' = now + 1
  BY DEF ClockTick, Tick, kvVars, callVars, historyVars
<1>3. \A k \in DOMAIN data : renewedAt[k] \in Nat /\ data[k].ttlMs \in Nat
  BY <1>1 DEF LeasedTypeOK, Entry
<1>4. now \in Nat
  BY <1>1 DEF LeasedTypeOK
<1>5. LeasesInOrder'
  BY <1>2, ZenonT(40) DEF LeasedInv, LeasesInOrder, NotAhead, Exists
<1>6. LeasesAgree'
  BY <1>2, <1>3, <1>4 DEF LeasedInv, LeasesAgree, Exists
<1>7. NoLeaseForgotten'
  BY <1>2 DEF LeasedInv, NoLeaseForgotten, HasTtl, Exists, Unscheduled, Scheduled,
              Popped, TtlExpiredMatches
<1>8. NoEarlyRecord'
  <2>1. ASSUME NEW k \in Key
        PROVE  /\ HasTtl(k)' <=> HasTtl(k)
               /\ Scheduled(k)' <=> Scheduled(k)
               /\ Popped(k)' <=> Popped(k)
    BY <1>2 DEF HasTtl, Exists, Scheduled, Popped, TtlExpiredMatches
  <2>2. ASSUME NEW k \in Key, HasTtl(k), now >= renewedAt[k] + data[k].ttlMs
        PROVE  now' >= renewedAt[k] + data[k].ttlMs
    BY <1>2, <1>3, <1>4, <2>2 DEF HasTtl, Exists
  <2> QED
    BY <1>2, <2>1, <2>2 DEF LeasedInv, NoEarlyRecord
<1> QED
  BY <1>1, <1>5, <1>6, <1>7, <1>8 DEF LeasedInv

\* LeasedInv is inductive.
LEMMA NextInv == LeasedInv /\ [LeasedNext]_leasedVars => LeasedInv'
<1> SUFFICES ASSUME LeasedInv, [LeasedNext]_leasedVars PROVE LeasedInv'
  OBVIOUS
<1>1. ASSUME NEW t \in Thread, Request(t)
      PROVE  LeasedInv'
  BY <1>1, PutInv, DeleteRangeInv, KeepAliveInv DEF Request
<1>2. ASSUME NEW t \in Thread, Schedule(t)
      PROVE  LeasedInv'
  BY <1>2, ScheduleInv
<1>3. ASSUME NEW t \in Threads, CallbackDone(t)
      PROVE  LeasedInv'
  BY <1>3, CallbackDoneInv
<1>4. CASE Expiry
  BY <1>4, CheckExpirationInv, ExpireKeyInv DEF Expiry
<1>5. CASE ClockTick
  BY <1>5, ClockTickInv, ZenonT(40)
<1>6. CASE UNCHANGED leasedVars
  BY <1>6 DEF leasedVars, kvVars, ttlVars, callVars, historyVars, LeasedInv,
              LeasedTypeOK, LeasesInOrder, NotAhead, LeasesAgree, NoLeaseForgotten,
              NoEarlyRecord, HasTtl, Exists, Unscheduled, Scheduled, Popped,
              TtlExpiredMatches
<1> QED
  BY <1>1, <1>2, <1>3, <1>4, <1>5, <1>6 DEF LeasedNext

\* LeasedInv holds in every reachable state.
LEMMA Invariance == LeasedSpec => []LeasedInv
  BY InitInv, NextInv, PTL DEF LeasedSpec

\* Whatever order commits, late schedules, pops and expiry callbacks come in, the
\* current lease of every key with a TTL is on its way to expiry.
THEOREM LeasesNotForgotten == LeasedSpec => []NoLeaseForgotten
<1>1. LeasedInv => NoLeaseForgotten
  BY DEF LeasedInv
<1> QED
  BY <1>1, Invariance, PTL

\* No record that DeleteIfTtlExpired would act on is early.
THEOREM RecordsNotEarly == LeasedSpec => []NoEarlyRecord
<1>1. LeasedInv => NoEarlyRecord
  BY DEF LeasedInv
<1> QED
  BY <1>1, Invariance, PTL
-----------------------------------------------------------------------------
(* LeasedStore implements LeaseStore. *)

\* The empty store is LeaseStore's initial state.
LEMMA PromiseInit == LeasedInit => Promise!Init
  BY DEF LeasedInit, KvInit, TtlInit, Promise!Init

\* Put is LeaseStore's Put.
LEMMA PutKeeps ==
  ASSUME LeasedInv, NEW t \in Thread, NEW k \in Key, NEW ttlMs \in Ttl,
         NEW v, NEW m, Put(t, k, ttlMs, v, m)
  PROVE  Promise!Next
<1>1. Promise!Put(k, ttlMs)
  BY ZenonT(40) DEF Put, KvPut, PutEntry, ttlVars, Promise!Put
<1> QED
  BY <1>1 DEF Promise!Next

\* DeleteRange is LeaseStore's Delete of the keys it found.
LEMMA DeleteRangeKeeps ==
  ASSUME LeasedInv, NEW t \in Thread, NEW scope \in DeleteScope, NEW m,
         DeleteRange(t, scope, m)
  PROVE  Promise!Next
<1>1. PICK keys \in SUBSET Key : keys = scope \cap DOMAIN data
  BY ZenonT(40) DEF LeasedInv, LeasedTypeOK
<1>2. Promise!Delete(keys)
  BY <1>1, ZenonT(40) DEF DeleteRange, KvErase, ttlVars, Promise!Delete, Promise!Without
<1> QED
  BY <1>2 DEF Promise!Next

\* KeepAlive is LeaseStore's KeepAlive.
LEMMA KeepAliveKeeps ==
  ASSUME LeasedInv, NEW t \in Thread, NEW k \in Key, NEW m, KeepAlive(t, k, m)
  PROVE  Promise!Next
<1>1. k \in DOMAIN data /\ data[k].ttlMs > 0
  BY DEF KeepAlive, KeepAliveStatus, Exists, LeasedInv, LeasedTypeOK, Entry
<1>2. /\ DOMAIN data' = DOMAIN data /\ data'[k].ttlMs = data[k].ttlMs
      /\ \A x \in DOMAIN data : x # k => data'[x] = data[x]
      /\ renewedAt'[k] = now
      /\ \A x \in DOMAIN data : x # k => renewedAt'[x] = renewedAt[x]
      /\ UNCHANGED <<lapsed, now>>
  BY <1>1 DEF KeepAlive, KvKeepAlive, ttlVars, LeasedInv, LeasedTypeOK, Entry
<1> DEFINE lease == [x \in DOMAIN data |->
                       [renewed |-> renewedAt[x], ttlMs |-> data[x].ttlMs]]
<1>3. lease' = [lease EXCEPT ![k].renewed = now]
  <2>1. \A x \in DOMAIN data :
          [renewed |-> renewedAt'[x], ttlMs |-> data'[x].ttlMs]
            = IF x = k THEN [lease[x] EXCEPT !.renewed = now] ELSE lease[x]
    BY <1>1, <1>2
  <2>2. lease' = [x \in DOMAIN data |->
                    [renewed |-> renewedAt'[x], ttlMs |-> data'[x].ttlMs]]
    BY <1>2
  <2> QED
    BY <1>1, <2>1, <2>2, ZenonT(40)
<1>4. Promise!KeepAlive(k)
  BY <1>1, <1>2, <1>3 DEF Promise!KeepAlive
<1> QED
  BY <1>4 DEF Promise!Next

\* The expiry thread removes a key only when its lease has run out.
LEMMA ExpireKeyKeeps ==
  ASSUME LeasedInv, NEW r \in expired, ExpireKey(r)
  PROVE  Promise!Next \/ UNCHANGED Promise!vars
<1>1. CASE TtlExpiredMatches(r.key, r.revision, r.ttlGeneration)
  <2>1. /\ r.key \in Key /\ r.key \in DOMAIN data /\ data[r.key].ttlMs > 0
        /\ Popped(r.key)
    BY <1>1 DEF TtlExpiredMatches, Exists, Popped, LeasedInv, LeasedTypeOK
  <2>2. renewedAt[r.key] + data[r.key].ttlMs <= now
    <3>1. now >= renewedAt[r.key] + data[r.key].ttlMs
      BY <2>1 DEF LeasedInv, NoEarlyRecord, HasTtl, Exists
    <3>2. now \in Nat /\ renewedAt[r.key] \in Nat /\ data[r.key].ttlMs \in Nat
      BY <2>1 DEF LeasedInv, LeasedTypeOK, Entry
    <3> QED
      BY <3>1, <3>2
  <2>3. Promise!Expire(r.key)
    BY <1>1, <2>1, <2>2, ZenonT(40) DEF ExpireKey, KvErase, Promise!Expire, Promise!Without
  <2> QED
    BY <2>1, <2>3 DEF Promise!Next
<1>2. CASE ~TtlExpiredMatches(r.key, r.revision, r.ttlGeneration)
  BY <1>2 DEF ExpireKey, kvVars, historyVars, Promise!vars
<1> QED
  BY <1>1, <1>2

\* Every step of the store is a step of LeaseStore or leaves it unchanged.
LEMMA NextKeeps ==
  LeasedInv /\ [LeasedNext]_leasedVars => [Promise!Next]_Promise!vars
<1> SUFFICES ASSUME LeasedInv, [LeasedNext]_leasedVars
             PROVE  Promise!Next \/ UNCHANGED Promise!vars
  OBVIOUS
<1>1. ASSUME NEW t \in Thread, Request(t)
      PROVE  Promise!Next
  BY <1>1, PutKeeps, DeleteRangeKeeps, KeepAliveKeeps DEF Request
<1>2. ASSUME NEW t \in Thread, Schedule(t)
      PROVE  UNCHANGED Promise!vars
  BY <1>2 DEF Schedule, TtlSchedule, kvVars, historyVars, Promise!vars
<1>3. ASSUME NEW t \in Threads, CallbackDone(t)
      PROVE  UNCHANGED Promise!vars
  BY <1>3, ZenonT(40) DEF CallbackDone, kvVars, ttlVars, historyVars, Promise!vars
<1>4. ASSUME NEW keys \in SUBSET Key, CheckExpiration(keys)
      PROVE  UNCHANGED Promise!vars
  BY <1>4 DEF CheckExpiration, TtlPop, kvVars, historyVars, Promise!vars
<1>5. CASE ClockTick
  BY <1>5 DEF ClockTick, Tick, kvVars, historyVars, Promise!Next, Promise!Tick
<1>6. CASE UNCHANGED leasedVars
  BY <1>6 DEF leasedVars, kvVars, ttlVars, historyVars, Promise!vars
<1> QED
  BY <1>1, <1>2, <1>3, <1>4, <1>5, <1>6, ExpireKeyKeeps DEF LeasedNext, Expiry

\* The coordinator's store, with its threads, late schedules and expiry records,
\* implements LeaseStore: a key leaves only by an overwrite, a delete or a lease
\* that has run out since the last Put or KeepAlive.
THEOREM KeepsLeasesHolds == LeasedSpec => KeepsLeases
  BY PromiseInit, NextKeeps, Invariance, PTL DEF LeasedSpec, KeepsLeases, Promise!Spec
=============================================================================
