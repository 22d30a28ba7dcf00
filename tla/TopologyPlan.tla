----------------------------- MODULE TopologyPlan -----------------------------
(***************************************************************************)
(* The topology record, its validation, the plans of TopologyPlanBuilder   *)
(* and the tasks the materializer derives from an active batch.            *)
(*                                                                         *)
(* A topology is [version, hasInit, members, batch]; a member is [id,      *)
(* state], where the id, a hash of the address and the timestamp of a      *)
(* membership, is that timestamp.  TokensOf stands for the placement: the  *)
(* tokens an address gets when it is selected, disjoint for two addresses. *)
(* A result is [rc, next] or [rc, tasks] with the status codes of the code *)
(***************************************************************************)
EXTENDS TokenRing, FiniteSets

CONSTANT TokensOf

ASSUME TokensAssumption ==
  /\ TokensOf \in [Address -> (SUBSET Token) \ {{}}]
  /\ \A a, b \in Address : a # b => TokensOf[a] \cap TokensOf[b] = {}

MemberState == {"INITIAL", "JOINING", "ACTIVE", "PRE_LEAVING", "LEAVING", "FAILED"}

Committed == {"ACTIVE", "PRE_LEAVING", "LEAVING"}

NoBatch == [type |-> "NONE", epoch |-> 0]

\* The state of the members a batch is about.
Participant(type) ==
  CASE type = "SCALE_OUT" -> "JOINING"
    [] type = "SCALE_IN"  -> "LEAVING"
    [] type = "FAILURE"   -> "FAILED"

In(t, S) == {a \in DOMAIN t.members : t.members[a].state \in S}

Participants(t) == In(t, {Participant(t.batch.type)})

MatchesBatch(state, type) ==
  CASE type = "SCALE_OUT" -> state \notin {"LEAVING", "FAILED"}
    [] type = "SCALE_IN"  -> state \notin {"JOINING", "FAILED"}
    [] type = "FAILURE"   -> TRUE

ValidateBatchStates(t) ==
  IF t.batch = NoBatch
  THEN In(t, {"JOINING", "LEAVING", "FAILED"}) = {}
  ELSE /\ \A a \in DOMAIN t.members : MatchesBatch(t.members[a].state, t.batch.type)
       /\ Participants(t) # {}

\* ValidateAndCanonicalizeTopologyState, run whenever a topology is encoded or decoded.
ValidTopology(t) ==
  /\ t.version > 0
  /\ t.batch # NoBatch => t.batch.epoch \in 1 .. t.version
  /\ ValidateBatchStates(t)

-----------------------------------------------------------------------------
(* Owners and the tasks of a batch. *)

\* BuildOwners, for the eligible addresses A.
OwnerRing(A) ==
  [h \in UNION {TokensOf[a] : a \in A} |-> CHOOSE a \in A : h \in TokensOf[a]]

\* DiffOwners: what moves from an owner in A to another in B.
OwnerChanges(A, B) ==
  LET moved(s, d) == {h \in Token : /\ FindOwner(OwnerRing(A), h) = s
                                    /\ FindOwner(OwnerRing(B), h) = d}
      changes == [source : A, target : B]
  IN  {[source |-> c.source, target |-> c.target, tokens |-> moved(c.source, c.target)] :
        c \in {d \in changes : d.source # d.target /\ moved(d.source, d.target) # {}}}

ValidateOwnerChange(t, c) ==
  LET source == t.members[c.source].state
      target == t.members[c.target].state
  IN  CASE t.batch.type = "SCALE_OUT" -> source \in Committed /\ target = "JOINING"
        [] t.batch.type = "SCALE_IN"  -> source = "LEAVING" /\ target \in {"ACTIVE", "PRE_LEAVING"}
        [] t.batch.type = "FAILURE"   -> source = "FAILED" /\ target = "ACTIVE"

\* PlanScaleOut, PlanScaleIn and PlanFailure: the owners before and after.
PlanOwners(t) ==
  LET selected == Participants(t)
      owners   == In(t, Committed)
  IN  CASE t.batch.type = "SCALE_OUT" -> <<owners, owners \cup selected>>
        [] t.batch.type = "SCALE_IN"  -> <<owners, owners \ selected>>
        [] t.batch.type = "FAILURE"   -> <<owners \cup selected, In(t, {"ACTIVE"})>>

\* RebuildExpected: a failure without a healthy owner moves nothing.
RebuildExpected(t) ==
  LET before  == PlanOwners(t)[1]
      after   == PlanOwners(t)[2]
      changes == {c \in OwnerChanges(before, after) :
                    t.batch.type = "FAILURE" => c.source \in Participants(t)}
      task(c) == [type |-> t.batch.type, epoch |-> t.batch.epoch,
                  source |-> c.source, target |-> c.target, tokens |-> c.tokens]
  IN  IF t.batch = NoBatch \/ (t.batch.type = "FAILURE" /\ In(t, {"ACTIVE"}) = {})
      THEN [rc |-> "K_OK", tasks |-> {}]
      ELSE IF before = {} \/ after = {}
      THEN [rc |-> "K_NOT_READY", tasks |-> {}]
      ELSE IF \E c \in changes : ~ ValidateOwnerChange(t, c)
      THEN [rc |-> "K_INVALID", tasks |-> {}]
      ELSE [rc |-> "K_OK", tasks |-> {task(c) : c \in changes}]

\* The failed member's successor recovers, the owner itself migrates.
Executor(task) == IF task.type = "FAILURE" THEN task.target ELSE task.source

-----------------------------------------------------------------------------
(* TopologyPlanBuilder. *)

Ok(t) == [rc |-> "K_OK", next |-> t]

Refuse(rc, t) == [rc |-> rc, next |-> t]

WithState(members, A, s) ==
  [a \in DOMAIN members |-> IF a \in A THEN [members[a] EXCEPT !.state = s] ELSE members[a]]

Without(members, A) == [a \in DOMAIN members \ A |-> members[a]]

Advance(t, members, batch) ==
  [t EXCEPT !.version = @ + 1, !.members = members, !.batch = batch]

\* AdvanceEpoch
NewEpoch(t, type) == [type |-> type, epoch |-> t.version + 1]

ValidateSelected(t, A, s) == A # {} /\ A \subseteq In(t, {s})

\* HashAlgorithm::Validate
ValidatePlacement(t) == DOMAIN t.members = {} \/ In(t, Committed) # {}

BuildBootstrap(t, ready) ==
  IF In(t, Committed) = {} /\ t.batch = NoBatch /\ ValidateSelected(t, ready, "INITIAL")
  THEN Ok([Advance(t, WithState(t.members, ready, "ACTIVE"), NoBatch) EXCEPT !.hasInit = TRUE])
  ELSE Refuse("K_INVALID", t)

BuildScaleOutStart(t, selected) ==
  LET current == [t EXCEPT !.members = Without(@, selected)]
  IN  IF ~ (/\ t.hasInit /\ t.batch = NoBatch
            /\ ValidateSelected(t, selected, "INITIAL")
            /\ ValidatePlacement(current))
      THEN Refuse("K_INVALID", t)
      ELSE IF In(current, Committed) = {}
      THEN Refuse("K_NOT_READY", t)
      ELSE Ok(Advance(t, WithState(t.members, selected, "JOINING"), NewEpoch(t, "SCALE_OUT")))

\* Mutant: the batch goes on under its old epoch.
BuildScaleOutReplanSameEpoch(t, failedJoining) ==
  LET retained == [t EXCEPT !.members = Without(@, failedJoining)]
  IN  IF t.batch.type = "SCALE_OUT" /\ ValidateSelected(t, failedJoining, "JOINING")
      THEN Ok(Advance(retained, retained.members,
                      IF In(retained, {"JOINING"}) = {} THEN NoBatch ELSE t.batch))
      ELSE Refuse("K_INVALID", t)

BuildScaleOutReplan(t, failedJoining) ==
  LET retained == [t EXCEPT !.members = Without(@, failedJoining)]
  IN  IF ~ (t.batch.type = "SCALE_OUT" /\ ValidateSelected(t, failedJoining, "JOINING"))
      THEN Refuse("K_INVALID", t)
      ELSE IF In(retained, {"JOINING"}) = {}
      THEN Ok(Advance(t, retained.members, NoBatch))
      ELSE IF In(retained, Committed) = {}
      THEN Refuse("K_INVALID", t)
      ELSE Ok(Advance(t, retained.members, NewEpoch(t, "SCALE_OUT")))

BuildScaleInStart(t, selected) ==
  IF ~ (t.hasInit /\ t.batch = NoBatch /\ ValidateSelected(t, selected, "PRE_LEAVING"))
  THEN Refuse("K_INVALID", t)
  ELSE IF In(t, Committed) \ selected = {}
  THEN Refuse("K_NOT_READY", t)
  ELSE Ok(Advance(t, WithState(t.members, selected, "LEAVING"), NewEpoch(t, "SCALE_IN")))

\* A healthy owner makes a plan necessary, which only committed and failed members may enter.
BuildFailureStartOrReplan(t, confirmed) ==
  LET healthy == In(t, {"ACTIVE"}) \ confirmed
  IN  IF \/ ~ t.hasInit
         \/ ~ (In(t, {"FAILED"}) \subseteq confirmed)
         \/ healthy # {} /\ ~ (confirmed # {} /\ confirmed \subseteq In(t, Committed \cup {"FAILED"}))
      THEN Refuse("K_INVALID", t)
      ELSE Ok(Advance(t, WithState(t.members, confirmed, "FAILED"), NewEpoch(t, "FAILURE")))

BuildScaleOutFinal(t) ==
  IF t.batch.type = "SCALE_OUT" /\ In(t, {"JOINING"}) # {}
  THEN Ok(Advance(t, WithState(t.members, In(t, {"JOINING"}), "ACTIVE"), NoBatch))
  ELSE Refuse("K_INVALID", t)

BuildScaleInFinal(t) ==
  IF t.batch.type = "SCALE_IN" /\ In(t, {"LEAVING"}) # {}
  THEN Ok(Advance(t, Without(t.members, In(t, {"LEAVING"})), NoBatch))
  ELSE Refuse("K_INVALID", t)

\* Mutant: the joining and leaving members a failure preempted are forgotten.
BuildFailureFinalForgets(t) ==
  LET built == [t EXCEPT !.members = Without(@, In(t, {"FAILED"}))]
  IN  Ok(Advance(t, built.members, NoBatch))

\* The batch that the failure preempted goes on under a new epoch.
BuildFailureFinal(t) ==
  LET built == [t EXCEPT !.members = Without(@, In(t, {"FAILED"}))]
      none  == In(built, Committed) = {}
  IN  IF t.batch.type # "FAILURE" \/ In(t, {"FAILED"}) = {}
      THEN Refuse("K_INVALID", t)
      ELSE Ok(Advance(t, IF none THEN Without(built.members, DOMAIN built.members)
                                 ELSE built.members,
                      CASE none                                -> NoBatch
                        [] ~ none /\ In(built, {"JOINING"}) # {} -> NewEpoch(t, "SCALE_OUT")
                        [] /\ ~ none /\ In(built, {"JOINING"}) = {}
                           /\ In(built, {"LEAVING"}) # {}        -> NewEpoch(t, "SCALE_IN")
                        [] OTHER                                -> NoBatch))

BuildClusterShutdownFinal(t) ==
  IF DOMAIN t.members # {} /\ DOMAIN t.members = In(t, {"PRE_LEAVING", "LEAVING"})
  THEN Ok(Advance(t, Without(t.members, DOMAIN t.members), NoBatch))
  ELSE Refuse("K_INVALID", t)
=============================================================================
