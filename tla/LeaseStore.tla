------------------------------ MODULE LeaseStore ------------------------------
(***************************************************************************)
(* What the coordinator promises the holder of a key: the key stays until  *)
(* it is overwritten, deleted on request, or its lease has run out, counted *)
(* from the last Put or KeepAlive.  No threads, no expiry records, no      *)
(* generations.                                                            *)
(***************************************************************************)
EXTENDS Integers

CONSTANTS Key, Ttl

VARIABLES lease,   \* the live keys: when each was last renewed, and its TTL
          lapsed,  \* the keys that are gone because their lease ran out
          now      \* the clock

vars == <<lease, lapsed, now>>

Init == /\ lease = [k \in {} |-> 0]
        /\ lapsed = {}
        /\ now = 0

Without(keys) == [k \in DOMAIN lease \ keys |-> lease[k]]

Put(k, ttlMs) ==
  /\ lease' = [x \in DOMAIN lease \cup {k} |->
                 IF x = k THEN [renewed |-> now, ttlMs |-> ttlMs]
                 ELSE lease[x]]
  /\ lapsed' = lapsed \ {k}
  /\ UNCHANGED now

KeepAlive(k) ==
  /\ k \in DOMAIN lease
  /\ lease[k].ttlMs > 0
  /\ lease' = [lease EXCEPT ![k].renewed = now]
  /\ UNCHANGED <<lapsed, now>>

Delete(keys) ==
  /\ keys \subseteq DOMAIN lease
  /\ lease' = Without(keys)
  /\ UNCHANGED <<lapsed, now>>

Expire(k) ==
  /\ k \in DOMAIN lease
  /\ lease[k].ttlMs > 0
  /\ lease[k].renewed + lease[k].ttlMs <= now
  /\ lease' = Without({k})
  /\ lapsed' = lapsed \cup {k}
  /\ UNCHANGED now

Tick == /\ now' = now + 1
        /\ UNCHANGED <<lease, lapsed>>

Next == \/ \E k \in Key, ttlMs \in Ttl : Put(k, ttlMs)
        \/ \E k \in Key : KeepAlive(k) \/ Expire(k)
        \/ \E keys \in SUBSET Key : Delete(keys)
        \/ Tick

Spec == Init /\ [][Next]_vars
=============================================================================
