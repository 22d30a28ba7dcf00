------------------------------ MODULE WatchClient ------------------------------
(***************************************************************************)
(* The worker's end of a coordinator watch: DsCoordinationBackend, which   *)
(* registers the watch and decides what to do with a delivered event, and  *)
(* MembershipEndpointView, which the events and periodic reads keep up to  *)
(* date.  A worker's watch plan is one scope here, its membership prefix.  *)
(*                                                                         *)
(* An entry of the view holds a value (the modRevision that wrote it, 0    *)
(* when the member is gone) and the revision that the view recorded for    *)
(* it, which later updates must exceed.                                    *)
(***************************************************************************)
EXTENDS Integers, Sequences

CONSTANTS Client,      \* the workers that watch, by address
          ViewKey      \* the keys they watch

VARIABLES watchId,          \* registrations_: the watch a client owns, or 0
          rewatchRequired,  \* clients whose rewatchRequired_ is set
          inProgress,       \* clients whose watchRegistrationInProgress_ is set
          registrationId,   \* pendingWatchRegistrationId_, 0 when empty
          nextRegistration, \* the next fresh registration id
          attempt,          \* WatchRange calls with this registration id
          previous,         \* replaced watches, still to be cancelled
          initial,          \* an initial snapshot still to be applied
          view,             \* memberships_
          viewSnapshot,     \* snapshotRevision_ of the view
          viewWatch,        \* membershipWatchId_: the watch the view follows
          refresh           \* what RefreshMemberships has read

sessionVars == <<watchId, rewatchRequired, inProgress, registrationId,
                 nextRegistration, attempt, previous>>
viewVars == <<initial, view, viewSnapshot, viewWatch, refresh>>
clientVars == <<sessionVars, viewVars>>

Unknown == [value |-> 0, revision |-> 0]
EmptyView == [k \in ViewKey |-> Unknown]

ClientInit ==
  /\ watchId = [a \in Client |-> 0]
  /\ rewatchRequired = Client
  /\ inProgress = {}
  /\ registrationId = [a \in Client |-> 0]
  /\ nextRegistration = 1
  /\ attempt = [a \in Client |-> 0]
  /\ previous = [a \in Client |-> {}]
  /\ initial = [a \in Client |-> {}]
  /\ view = [a \in Client |-> EmptyView]
  /\ viewSnapshot = [a \in Client |-> 0]
  /\ viewWatch = [a \in Client |-> 0]
  /\ refresh = [a \in Client |-> {}]

OwnsWatchIdentity(a, w) == a \notin rewatchRequired /\ watchId[a] = w

\* RegisterWatchPlan, up to the first WatchRange call.  An id that a failed
\* registration left behind is used again.  A worker whose very first plan
\* fails does not start.
RegisterWatchPlan(a) ==
  /\ a \in rewatchRequired
  /\ watchId[a] = 0 => attempt[a] = 0
  /\ a \notin inProgress
  /\ previous[a] = {}
  /\ initial[a] = {}
  /\ inProgress' = inProgress \cup {a}
  /\ IF registrationId[a] = 0
     THEN /\ registrationId' = [registrationId EXCEPT ![a] = nextRegistration]
          /\ nextRegistration' = nextRegistration + 1
          /\ attempt' = [attempt EXCEPT ![a] = 1]
     ELSE /\ attempt' = [attempt EXCEPT ![a] = @ + 1]
          /\ UNCHANGED <<registrationId, nextRegistration>>
  /\ UNCHANGED <<watchId, rewatchRequired, previous, viewVars>>

\* PrepareWatchPlan calls WatchRange again, with the same registration id.
RetryWatchRange(a) ==
  /\ a \in inProgress
  /\ attempt' = [attempt EXCEPT ![a] = @ + 1]
  /\ UNCHANGED <<watchId, rewatchRequired, inProgress, registrationId,
                 nextRegistration, previous, viewVars>>

\* The retry budget is spent, or the reply is an error that is not retried.
AbandonWatchPlan(a) ==
  /\ a \in inProgress
  /\ inProgress' = inProgress \ {a}
  /\ UNCHANGED <<watchId, rewatchRequired, registrationId, nextRegistration,
                 attempt, previous, viewVars>>

\* CommitWatchPlan with the reply to the call the client waits for.
CommitWatchPlan(a, w, snapshot) ==
  /\ a \in inProgress
  /\ watchId' = [watchId EXCEPT ![a] = w]
  /\ previous' = [previous EXCEPT ![a] = {watchId[a]} \ {0}]
  /\ rewatchRequired' = rewatchRequired \ {a}
  /\ inProgress' = inProgress \ {a}
  /\ registrationId' = [registrationId EXCEPT ![a] = 0]
  /\ initial' = [initial EXCEPT ![a] = {snapshot}]
  /\ UNCHANGED <<nextRegistration, attempt, view, viewSnapshot, viewWatch,
                 refresh>>

\* CommitWatchPlan has called CancelWatch for the watches it replaced.
PreviousCancelled(a) ==
  /\ previous[a] # {}
  /\ previous' = [previous EXCEPT ![a] = {}]
  /\ UNCHANGED <<watchId, rewatchRequired, inProgress, registrationId,
                 nextRegistration, attempt, viewVars>>
-----------------------------------------------------------------------------
(* MembershipEndpointView *)

\* UpdateMembership and DeleteMembership: the revision must be new to the view.
ViewEvent(v, snapshot, event) ==
  IF event.modRevision <= snapshot \/ v[event.key].revision >= event.modRevision
  THEN v
  ELSE [v EXCEPT ![event.key] =
          [value |-> IF event.type = "PUT" THEN event.modRevision ELSE 0,
           revision |-> event.modRevision]]

\* Mutant: a complete read replaces the view.
ViewReplace(v, members, rev) ==
  [k \in ViewKey |-> IF k \in DOMAIN members
                     THEN [value |-> members[k], revision |-> rev]
                     ELSE Unknown]

\* Mutant: a complete read only adds to the view.
ViewMerge(v, members, rev) ==
  [k \in ViewKey |-> IF v[k].revision <= rev /\ k \in DOMAIN members
                     THEN [value |-> members[k], revision |-> rev]
                     ELSE v[k]]

\* RefreshMemberships: a complete read at a revision keeps only what is newer.
ViewRefresh(v, members, rev) ==
  [k \in ViewKey |->
     IF v[k].revision > rev THEN v[k]
     ELSE IF k \in DOMAIN members
     THEN [value |-> members[k], revision |-> rev]
     ELSE Unknown]

\* The events of a batch, one after the other.
ViewEvents(v, snapshot, events) ==
  LET after[i \in 0..Len(events)] ==
        IF i = 0 THEN v ELSE ViewEvent(after[i - 1], snapshot, events[i])
  IN after[Len(events)]

\* A watch the view does not follow yet starts from an empty view.
ViewOf(a, w) == IF viewWatch[a] = w THEN view[a] ELSE EmptyView
SnapshotOf(a, w) == IF viewWatch[a] = w THEN viewSnapshot[a] ELSE 0

\* ApplyCoordinatorMembershipSnapshot, after the replaced watches are cancelled;
\* it is refused, and the watches invalidated, when the watch is not owned.
ApplyInitialSnapshot(a) ==
  /\ previous[a] = {}
  /\ \E s \in initial[a] :
       IF OwnsWatchIdentity(a, s.watchId)
       THEN /\ viewWatch' = [viewWatch EXCEPT ![a] = s.watchId]
            /\ IF s.revision < SnapshotOf(a, s.watchId)
               THEN UNCHANGED <<view, viewSnapshot>>
               ELSE /\ view' = [view EXCEPT ![a] =
                         ViewRefresh(ViewOf(a, s.watchId), s.members, s.revision)]
                    /\ viewSnapshot' = [viewSnapshot EXCEPT ![a] = s.revision]
            /\ UNCHANGED rewatchRequired
       ELSE /\ rewatchRequired' = rewatchRequired \cup {a}
            /\ UNCHANGED <<view, viewSnapshot, viewWatch>>
  /\ initial' = [initial EXCEPT ![a] = {}]
  /\ UNCHANGED <<watchId, inProgress, registrationId, nextRegistration, attempt,
                 previous, refresh>>

\* RouteCoordinatorWatchEvent's answer to the events of watch w.
ReceiveStatus(a, w) ==
  IF ~OwnsWatchIdentity(a, w) /\ a \in inProgress THEN "K_NOT_READY" ELSE "K_OK"

\* RouteCoordinatorWatchEvent, HandleWatchEvent and InvalidateWatches: events
\* of the owned watch are applied, a RESET or an event of a watch nobody owns
\* makes the client register again.
HandleWatchEvents(a, w, events, reset) ==
  /\ IF OwnsWatchIdentity(a, w) /\ ~reset
     THEN /\ viewWatch' = [viewWatch EXCEPT ![a] = w]
          /\ view' = [view EXCEPT ![a] =
               ViewEvents(ViewOf(a, w), SnapshotOf(a, w), events)]
          /\ viewSnapshot' = [viewSnapshot EXCEPT ![a] = SnapshotOf(a, w)]
     ELSE UNCHANGED <<view, viewSnapshot, viewWatch>>
  /\ rewatchRequired' =
       IF \/ OwnsWatchIdentity(a, w) /\ reset
          \/ ~OwnsWatchIdentity(a, w) /\ a \notin inProgress
       THEN rewatchRequired \cup {a} ELSE rewatchRequired
  /\ UNCHANGED <<watchId, inProgress, registrationId, nextRegistration, attempt,
                 previous, initial, refresh>>

\* HandleMembershipSuccess for a membership that was created again: the
\* coordinator may have dropped this address's watches.
InvalidateMembershipWatches(a) ==
  /\ rewatchRequired' = rewatchRequired \cup {a}
  /\ UNCHANGED <<watchId, inProgress, registrationId, nextRegistration, attempt,
                 previous, viewVars>>

\* The RESET that follows an invalidation clears a view without an owned watch.
ClearStaleMembershipCandidates(a) ==
  /\ viewWatch[a] # 0
  /\ ~OwnsWatchIdentity(a, viewWatch[a])
  /\ view' = [view EXCEPT ![a] = EmptyView]
  /\ viewSnapshot' = [viewSnapshot EXCEPT ![a] = 0]
  /\ viewWatch' = [viewWatch EXCEPT ![a] = 0]
  /\ UNCHANGED <<sessionVars, initial, refresh>>

\* RefreshMemberships reads the membership table ...
ReadMemberships(a, members, rev) ==
  /\ refresh[a] = {}
  /\ refresh' = [refresh EXCEPT ![a] = {[watchId |-> viewWatch[a],
                                         members |-> members,
                                         revision |-> rev]}]
  /\ UNCHANGED <<sessionVars, initial, view, viewSnapshot, viewWatch>>

\* ... and applies it if the watch that it started under is still owned.
ApplyRefresh(a) ==
  /\ \E r \in refresh[a] :
       IF OwnsWatchIdentity(a, r.watchId) /\ r.revision >= viewSnapshot[a]
       THEN /\ view' = [view EXCEPT ![a] =
                          ViewRefresh(@, r.members, r.revision)]
            /\ viewSnapshot' = [viewSnapshot EXCEPT ![a] = r.revision]
       ELSE UNCHANGED <<view, viewSnapshot>>
  /\ refresh' = [refresh EXCEPT ![a] = {}]
  /\ UNCHANGED <<sessionVars, initial, viewWatch>>
=============================================================================
