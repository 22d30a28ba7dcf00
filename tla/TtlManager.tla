------------------------------ MODULE TtlManager ------------------------------
(***************************************************************************)
(* TtlManager: one expiry record per key, replaced by newer schedules, and *)
(* a thread that pops the records that are due under mutex_ and calls the  *)
(* expire callback for them after it has released it.                      *)
(***************************************************************************)
EXTENDS Integers, FiniteSets

CONSTANT MaxExpiredKeysPerCheck  \* MAX_EXPIRED_KEYS_PER_CHECK

VARIABLES now,          \* clock_: the steady clock, in ticks
          expiryIndex,  \* expiryIndex_ and expiryMap_: key -> its record
          expired       \* expiredKeys: the records popped, not yet called back

ttlVars == <<now, expiryIndex, expired>>

Record == [revision : Nat \ {0}, ttlGeneration : Nat \ {0}, expireTime : Nat]

TtlInit == /\ now = 0
           /\ expiryIndex = [k \in {} |-> 0]
           /\ expired = {}

\* Mutant: schedules replace each other in the order they arrive.
IsNeverStale(k, rev, generation) == FALSE

\* A schedule older than the one on record is ignored.
IsStale(k, rev, generation) ==
  /\ k \in DOMAIN expiryIndex
  /\ \/ rev < expiryIndex[k].revision
     \/ /\ rev = expiryIndex[k].revision
        /\ generation < expiryIndex[k].ttlGeneration

TtlSchedule(k, ttlMs, rev, generation) ==
  /\ expiryIndex' =
       IF ttlMs <= 0 \/ IsStale(k, rev, generation)
       THEN expiryIndex
       ELSE [x \in DOMAIN expiryIndex \cup {k} |->
               IF x = k THEN [revision |-> rev, ttlGeneration |-> generation,
                              expireTime |-> now + ttlMs]
               ELSE expiryIndex[x]]
  /\ UNCHANGED <<now, expired>>

Due == {k \in DOMAIN expiryIndex : expiryIndex[k].expireTime <= now}

\* Mutant: a pass that cannot take every due record takes none.
TtlPopAll(keys) ==
  /\ expired = {}
  /\ keys = Due /\ keys # {}
  /\ Cardinality(keys) <= MaxExpiredKeysPerCheck
  /\ expired' = {[key |-> k, revision |-> expiryIndex[k].revision,
                  ttlGeneration |-> expiryIndex[k].ttlGeneration] : k \in keys}
  /\ expiryIndex' = [k \in DOMAIN expiryIndex \ keys |-> expiryIndex[k]]
  /\ UNCHANGED now

\* One pass of CheckExpiration under the mutex: the earliest due records, at
\* most MaxExpiredKeysPerCheck of them, leave the index.
TtlPop(keys) ==
  /\ expired = {}
  /\ keys \subseteq Due
  /\ keys # {}
  /\ \/ keys = Due
     \/ /\ Cardinality(keys) = MaxExpiredKeysPerCheck
        /\ \A k \in keys, l \in Due \ keys :
             expiryIndex[k].expireTime <= expiryIndex[l].expireTime
  /\ Cardinality(keys) <= MaxExpiredKeysPerCheck
  /\ expired' = {[key |-> k, revision |-> expiryIndex[k].revision,
                  ttlGeneration |-> expiryIndex[k].ttlGeneration] : k \in keys}
  /\ expiryIndex' = [k \in DOMAIN expiryIndex \ keys |-> expiryIndex[k]]
  /\ UNCHANGED now

Tick == /\ now' = now + 1
        /\ UNCHANGED <<expiryIndex, expired>>
=============================================================================
