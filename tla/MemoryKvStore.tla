----------------------------- MODULE MemoryKvStore -----------------------------
(***************************************************************************)
(* The coordinator's in-memory key-value store (MemoryKvStore).  Every     *)
(* operation below is one critical section of mutex_; what the code does   *)
(* after it releases the mutex (the mutation callback) is the caller's     *)
(* next step, modelled in CoordinatorStore.                                *)
(*                                                                         *)
(* The value of an entry is identified by the modRevision that wrote it,   *)
(* since revisions are never reused; createRevision is never read.         *)
(***************************************************************************)
EXTENDS Integers

CONSTANT Key

VARIABLES data,      \* data_: the live keys and their entries
          revision   \* revision_: the revision of the last mutation

kvVars == <<data, revision>>

\* The sentinels of key_value_entry.h.
NoVersionCheck == -1
KeyNotExists == 0
NoModRevisionCheck == 0
NoGlobalRevisionCheck == 0

Entry == [version : Nat \ {0}, modRevision : Nat \ {0}, ttlMs : Nat,
          ttlGeneration : Nat \ {0}]

KvInit == /\ data = [k \in {} |-> 0]
          /\ revision = 1

Exists(k) == k \in DOMAIN data

\* The checks of Put, in the order the code makes them.
PutStatus(k, expectedVersion, expectedModRevision, expectedGlobalRevision) ==
  IF /\ expectedGlobalRevision # NoGlobalRevisionCheck
     /\ revision # expectedGlobalRevision
  THEN "K_DATA_INCONSISTENCY"
  ELSE IF expectedModRevision # NoModRevisionCheck /\ ~Exists(k)
  THEN "K_NOT_FOUND"
  ELSE IF /\ expectedModRevision # NoModRevisionCheck
          /\ data[k].modRevision # expectedModRevision
  THEN "K_DATA_INCONSISTENCY"
  ELSE IF expectedVersion = NoVersionCheck
  THEN "K_OK"
  ELSE IF expectedVersion = KeyNotExists
  THEN IF Exists(k) THEN "K_DUPLICATED" ELSE "K_OK"
  ELSE IF ~Exists(k)
  THEN "K_NOT_FOUND"
  ELSE IF data[k].version # expectedVersion
  THEN "K_DATA_INCONSISTENCY"
  ELSE "K_OK"

\* The entry a successful Put leaves under k.
PutEntry(k, ttlMs) ==
  [version       |-> IF Exists(k) THEN data[k].version + 1 ELSE 1,
   modRevision   |-> revision + 1,
   ttlMs         |-> ttlMs,
   ttlGeneration |-> IF Exists(k) THEN data[k].ttlGeneration + 1 ELSE 1]

\* Mutant: a Put that does not advance the revision.
KvPutSameRevision(k, ttlMs) ==
  /\ revision' = revision
  /\ data' = [x \in DOMAIN data \cup {k} |->
                IF x = k THEN PutEntry(k, ttlMs) ELSE data[x]]

KvPut(k, ttlMs) ==
  /\ revision' = revision + 1
  /\ data' = [x \in DOMAIN data \cup {k} |->
                IF x = k THEN PutEntry(k, ttlMs) ELSE data[x]]

\* Range: the entries of the keys of a scope, with the store's revision.
KvRange(scope) == [x \in scope \cap DOMAIN data |-> data[x].modRevision]

\* Delete of every live key of a non-empty set: one revision for them all.
KvErase(keys) ==
  /\ revision' = revision + 1
  /\ data' = [x \in DOMAIN data \ keys |-> data[x]]

\* The fence of an exact-key Delete; a range delete must not carry one.
DeleteStatus(k, expectedModRevision) ==
  IF /\ expectedModRevision # NoModRevisionCheck
     /\ Exists(k)
     /\ data[k].modRevision # expectedModRevision
  THEN "K_TRY_AGAIN" ELSE "K_OK"

\* Mutant: a renewed lease is not told from the one before the renewal.
TtlExpiredAnyGeneration(k, rev, generation) ==
  Exists(k) /\ data[k].modRevision = rev /\ data[k].ttlMs > 0

\* Mutant: an overwritten entry is not told from the one before it.
TtlExpiredAnyRevision(k, rev, generation) ==
  Exists(k) /\ data[k].ttlMs > 0 /\ data[k].ttlGeneration = generation

\* DeleteIfTtlExpired acts only on the very lease the expiry was computed for.
TtlExpiredMatches(k, rev, generation) ==
  /\ Exists(k)
  /\ data[k].modRevision = rev
  /\ data[k].ttlMs > 0
  /\ data[k].ttlGeneration = generation

KeepAliveStatus(k, expectedModRevision) ==
  IF ~Exists(k) \/ data[k].ttlMs <= 0
  THEN "K_NOT_FOUND"
  ELSE IF /\ expectedModRevision # NoModRevisionCheck
          /\ data[k].modRevision # expectedModRevision
  THEN "K_TRY_AGAIN"
  ELSE "K_OK"

\* KeepAlive renews the lease: a new generation, no revision and no event.
KvKeepAlive(k) ==
  /\ data' = [data EXCEPT ![k].ttlGeneration = @ + 1]
  /\ UNCHANGED revision
=============================================================================
