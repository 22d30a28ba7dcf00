----------------------------- MODULE WatchRegistry -----------------------------
(***************************************************************************)
(* WatchRegistry: who watches which keys.  A watch names a scope, the set  *)
(* of keys that its exact key or its half-open range covers; the exact and *)
(* the range index of the code are two ways to find it.  Each operation is *)
(* one critical section of mutex_.                                         *)
(***************************************************************************)
EXTENDS Integers

VARIABLES watchers,    \* watchers_ and its indexes: watch id -> watcher
          nextWatchId  \* nextWatchId_

registryVars == <<watchers, nextWatchId>>

RegistryInit == /\ watchers = [w \in {} |-> 0]
                /\ nextWatchId = 1

\* watchIdsByRegistrationId_: the live watch a registration id stands for.
WatchesOf(registrationId) ==
  {w \in DOMAIN watchers : watchers[w].registrationId = registrationId}

\* A registration id that is in use must come with the same watcher and scope.
RegisterStatus(addr, registrationId, scope) ==
  IF \A w \in WatchesOf(registrationId) :
       watchers[w].addr = addr /\ watchers[w].scope = scope
  THEN "K_OK" ELSE "K_INVALID"

RegisteredId(registrationId) ==
  IF WatchesOf(registrationId) = {}
  THEN nextWatchId
  ELSE CHOOSE w \in WatchesOf(registrationId) : TRUE

\* Register: a retry finds its watch, a new registration gets the next id.
Register(addr, registrationId, scope) ==
  IF WatchesOf(registrationId) # {}
  THEN UNCHANGED registryVars
  ELSE /\ watchers' =
            [w \in DOMAIN watchers \cup {nextWatchId} |->
               IF w = nextWatchId
               THEN [addr |-> addr, registrationId |-> registrationId,
                     scope |-> scope]
               ELSE watchers[w]]
       /\ nextWatchId' = nextWatchId + 1

\* Cancel of the watches in ids; one that is not registered is K_NOT_FOUND,
\* which every caller takes for done.
Unregister(ids) ==
  /\ watchers' = [w \in DOMAIN watchers \ ids |-> watchers[w]]
  /\ UNCHANGED nextWatchId

MatchWatchers(k) == {w \in DOMAIN watchers : k \in watchers[w].scope}
=============================================================================
