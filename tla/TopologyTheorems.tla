--------------------------- MODULE TopologyTheorems ---------------------------
(***************************************************************************)
(* Every step of TopologyController preserves the inductive invariant Inv  *)
(* of TopologyProofs, and the theorems that follow from it.                *)
(***************************************************************************)
EXTENDS TopologyProofs

\* A leaf is tried with SMT, then with Zenon, then with SMT for longer.
USE SMTT(30), ZenonT(40), SMTT(60)
-----------------------------------------------------------------------------
(* The steps of a controller. *)

LEMMA EnsureStep ==
  ASSUME Inv, NEW c \in Controller, EnsureTopologyAuthority(c)
  PROVE  Inv' /\ StepSound
<1> DEFINE u == [NoTopology EXCEPT !.version = 1]
<1>1. authority = NoTopology /\ AuthorityInv(authority) /\ authority.version = 0
  BY AuthorityVersion DEF Inv, StoreInv, EnsureTopologyAuthority
<1>2. TopologyType(NoTopology) /\ NoTopology.members = None /\ NoTopology.batch = NoBatch
  BY NothingIs DEF NoTopology
<1> HIDE DEF NoTopology
<1>3. u.version = 1 /\ u.batch = NoBatch /\ u.members = None
  BY <1>2 DEF TopologyType
<1>4. TopologyType(u) /\ \A S : In(u, S) = {}
  BY <1>2, <1>3, NothingIs, ZenonT(40) DEF TopologyType, In
<1> HIDE DEF u
<1>5. AuthorityInv(u)
  <2>1. NoBatch.type = "NONE"
    BY DEF NoBatch
  <2> QED BY <1>3, <1>4, <2>1, MakesConsistent DEF AuthorityInv
<1>6. authority' = u
  BY DEF EnsureTopologyAuthority, u
<1>7. \A d \in Controller : ControllerInv(ctl[d], u, finished)
  BY <1>1, <1>3, <1>5, OthersKept DEF Inv
<1>8. StepSound
  <2>1. KeepsEpoch(authority, u)
    BY <1>3 DEF KeepsEpoch
  <2>2. HandsOver(authority, u)
    BY <1>4 DEF HandsOver
  <2> QED BY <1>6, <2>1, <2>2 DEF StepSound
<1>9. UNCHANGED <<membership, tasks, finished, ctl, changes, alarms, deployment>>
  BY DEF EnsureTopologyAuthority
<1>10. StoreInv' /\ Controller' = Controller
  BY <1>5, <1>6, <1>9 DEF Inv, StoreInv, Controller
<1> QED BY <1>6, <1>7, <1>8, <1>9, <1>10 DEF Inv

\* Reading the authority, from the watch or from the store.
LEMMA ReadInv ==
  ASSUME NEW k, NEW auth, NEW fin, ControllerInv(k, auth, fin), AuthorityInv(auth),
         auth # NoTopology, k.pc = "idle",
         NEW e, MembershipType(e), NEW pc \in {"memberships", "confirm"}
  PROVE  ControllerInv([k EXCEPT !.pc = pc, !.latest = auth, !.seen = e, !.err = "K_OK"], auth, fin)
<1> DEFINE y == [k EXCEPT !.pc = pc, !.latest = auth, !.seen = e, !.err = "K_OK"]
<1>1. ControllerType(k) /\ TopologyType(auth)
  BY AuthorityVersion DEF ControllerInv
<1>2. /\ y.pc = pc /\ y.confirmed = k.confirmed /\ y.err = "K_OK" /\ y.latest = auth
      /\ y.seen = e /\ y.derived = k.derived /\ y.expected = k.expected
      /\ y.progress = k.progress /\ y.done = k.done /\ y.sweep = k.sweep
  BY <1>1 DEF ControllerType
<1>3. ControllerType(y)
  BY <1>1, <1>2, ZenonT(40) DEF ControllerType
<1> HIDE DEF y
<1>4. auth.version \in Nat
  BY AuthorityVersion, ZenonT(40)
<1>5. CacheInv(y, auth) /\ FactsInv(y)
  <2>1. CacheInv(y, auth)
    <3>1. auth.version <= auth.version
      BY <1>4
    <3> QED BY <1>2, <3>1, ZenonT(40) DEF CacheInv, AuthorityInv
  <2>2. FactsInv(y)
    <3>1. k.confirmed = {}
      BY ZenonT(40) DEF ControllerInv, FactsInv
    <3>2. y.pc # "idle" /\ y.pc # "replace"
      BY <1>2
    <3> QED BY <1>2, <3>1, <3>2, ZenonT(40) DEF FactsInv
  <2> QED BY <2>1, <2>2
<1>6. DerivedInv(y, auth) /\ ProgressInv(y, fin)
  BY <1>2, ZenonT(40) DEF ControllerInv, DerivedInv, ProgressInv
<1> QED BY <1>2, <1>3, <1>5, <1>6 DEF ControllerInv, y

LEMMA DeliverEtcdStep ==
  ASSUME Inv, NEW c \in Controller, DeliverEtcd(c)
  PROVE  Inv' /\ StepSound
<1> DEFINE y == [ctl[c] EXCEPT !.pc = "confirm", !.latest = authority, !.seen = membership,
                               !.err = "K_OK"]
<1>1. /\ ControllerInv(ctl[c], authority, finished) /\ ctl[c].pc = "idle"
      /\ AuthorityInv(authority) /\ authority # NoTopology /\ MembershipType(membership)
  BY NothingIs DEF Inv, StoreInv, DeliverEtcd
<1>2. ControllerInv(y, authority, finished)
  BY <1>1, ReadInv, ZenonT(40)
<1>3. Step(c, y)
  BY DEF DeliverEtcd
<1> HIDE DEF y
<1> QED BY <1>2, <1>3, StepInv DEF Inv, StoreInv, DeliverEtcd

LEMMA ReadTopologyStep ==
  ASSUME Inv, NEW c \in Controller, ReadTopology(c)
  PROVE  Inv' /\ StepSound
<1> DEFINE y == [ctl[c] EXCEPT !.pc = "memberships", !.latest = authority, !.err = "K_OK"]
           z == [ctl[c] EXCEPT !.pc = "memberships", !.latest = authority, !.seen = ctl[c].seen,
                               !.err = "K_OK"]
<1>1. /\ ControllerInv(ctl[c], authority, finished) /\ ctl[c].pc = "idle"
      /\ AuthorityInv(authority) /\ authority # NoTopology /\ ControllerType(ctl[c])
  BY NothingIs DEF Inv, StoreInv, ReadTopology, ControllerInv
<1>2. ControllerInv(z, authority, finished)
  <2>1. MembershipType(ctl[c].seen)
    BY <1>1 DEF ControllerType
  <2> QED BY <1>1, <2>1, ReadInv, ZenonT(40)
<1>3. y = z
  BY <1>1, ZenonT(40) DEF ControllerType
<1>4. Step(c, y)
  BY DEF ReadTopology
<1> HIDE DEF y, z
<1> QED BY <1>2, <1>3, <1>4, StepInv DEF Inv, StoreInv, ReadTopology

LEMMA TickStep ==
  ASSUME Inv, NEW c \in Controller, TickOnKnownFacts(c)
  PROVE  Inv' /\ StepSound
<1> DEFINE k == ctl[c]
           y == [k EXCEPT !.pc = "confirm", !.err = "K_OK"]
<1>1. ControllerInv(k, authority, finished) /\ ControllerType(k) /\ k.latest # NoTopology
  BY NothingIs DEF Inv, TickOnKnownFacts, ControllerInv
<1>2. Step(c, y)
  BY DEF TickOnKnownFacts
<1> HIDE DEF k
<1>3. /\ y.pc = "confirm" /\ y.confirmed = k.confirmed /\ y.err = "K_OK" /\ y.latest = k.latest
      /\ y.seen = k.seen /\ y.derived = k.derived /\ y.expected = k.expected
      /\ y.progress = k.progress /\ y.done = k.done /\ y.sweep = k.sweep
  BY <1>1 DEF ControllerType
<1>4. ControllerType(y)
  BY <1>1, <1>3, ZenonT(40) DEF ControllerType
<1> HIDE DEF y
<1>5. CacheInv(y, authority) /\ FactsInv(y)
  BY <1>1, <1>3, ZenonT(40) DEF ControllerInv, CacheInv, FactsInv
<1>6. DerivedInv(y, authority) /\ ProgressInv(y, finished)
  BY <1>1, <1>3, ZenonT(40) DEF ControllerInv, DerivedInv, ProgressInv
<1>7. ControllerInv(y, authority, finished)
  BY <1>3, <1>4, <1>5, <1>6 DEF ControllerInv
<1> QED BY <1>2, <1>7, StepInv DEF Inv, StoreInv, TickOnKnownFacts
LEMMA ReadMembershipsStep ==
  ASSUME Inv, NEW c \in Controller, ReadMemberships(c)
  PROVE  Inv' /\ StepSound
<1> DEFINE k == ctl[c]
           y == [k EXCEPT !.pc = "confirm", !.seen = membership]
<1>1. /\ ControllerInv(k, authority, finished) /\ ControllerType(k) /\ k.latest # NoTopology
      /\ MembershipType(membership)
  BY DEF Inv, StoreInv, ReadMemberships, ControllerInv, CacheInv
<1>2. Step(c, y)
  BY DEF ReadMemberships
<1> HIDE DEF k
<1>3. /\ y.pc = "confirm" /\ y.confirmed = k.confirmed /\ y.err = k.err /\ y.latest = k.latest
      /\ y.seen = membership /\ y.derived = k.derived /\ y.expected = k.expected
      /\ y.progress = k.progress /\ y.done = k.done /\ y.sweep = k.sweep
  BY <1>1 DEF ControllerType
<1>4. ControllerType(y)
  BY <1>1, <1>3, ZenonT(40) DEF ControllerType
<1> HIDE DEF y
<1>5. CacheInv(y, authority) /\ FactsInv(y)
  BY <1>1, <1>3, ZenonT(40) DEF ControllerInv, CacheInv, FactsInv
<1>6. DerivedInv(y, authority) /\ ProgressInv(y, finished)
  BY <1>1, <1>3 DEF ControllerInv, DerivedInv, ProgressInv
<1>7. ControllerInv(y, authority, finished)
  BY <1>1, <1>3, <1>4, <1>5, <1>6 DEF ControllerInv
<1> QED BY <1>2, <1>7, StepInv DEF Inv, StoreInv, ReadMemberships

LEMMA RestoreStep ==
  ASSUME Inv, NEW c \in Controller, RestoreReadyAfterLocalRecovery(c)
  PROVE  Inv' /\ StepSound
<1> DEFINE k == Idle(ctl[c], "K_NOT_READY")
           y == [k EXCEPT !.latest = NoTopology, !.seen = None]
<1>0. Step(c, y)
  BY DEF RestoreReadyAfterLocalRecovery
<1>1. /\ ControllerInv(ctl[c], authority, finished) /\ ControllerType(ctl[c])
      /\ AuthorityInv(authority)
      /\ ctl[c] = [ctl[c] EXCEPT !.latest = ctl[c].latest]
  BY DEF Inv, StoreInv, ControllerInv, ControllerType
<1>2. ControllerInv(k, authority, finished)
  BY <1>1, IdleInv
<1>3. k.pc = "idle"
  BY <1>1 DEF Idle, ControllerType
<1> HIDE DEF k
<1>4. ControllerType(k)
  BY <1>2 DEF ControllerInv
<1>5. /\ y.pc = "idle" /\ y.confirmed = k.confirmed /\ y.err = k.err /\ y.latest = NoTopology
      /\ y.seen = None /\ y.derived = k.derived /\ y.expected = k.expected
      /\ y.progress = k.progress /\ y.done = k.done /\ y.sweep = k.sweep
  BY <1>3, <1>4 DEF ControllerType
<1>6. ControllerType(y)
  BY <1>4, <1>5, NothingIs, ZenonT(40) DEF ControllerType
<1> HIDE DEF y
<1>7. /\ NoTopology.version = 0 /\ authority.version \in Nat /\ k.derived \in Nat
      /\ authority.version = 0 => authority = NoTopology
  BY <1>1, <1>4, NothingIs, AuthorityVersion DEF ControllerType
<1>8. CacheInv(y, authority)
  BY <1>5, <1>7 DEF CacheInv
<1>9. FactsInv(y)
  BY <1>2, <1>3, <1>5, ZenonT(40) DEF ControllerInv, FactsInv
<1>10. DerivedInv(y, authority) /\ ProgressInv(y, finished)
  BY <1>2, <1>5, <1>7 DEF ControllerInv, DerivedInv, ProgressInv
<1>11. ControllerInv(y, authority, finished)
  BY <1>2, <1>5, <1>6, <1>8, <1>9, <1>10 DEF ControllerInv
<1>12. MembershipType(membership)'
  <2>1. MembershipType(membership) /\ membership' = [membership EXCEPT ![c].lifecycle = "READY"]
    BY ZenonT(40) DEF Inv, StoreInv, RestoreReadyAfterLocalRecovery
  <2> QED BY <2>1, ZenonT(40) DEF MembershipType, Record
<1> QED BY <1>0, <1>11, <1>12, StepInv, ZenonT(40) DEF Inv, StoreInv, RestoreReadyAfterLocalRecovery

\* The steps that only move on.
LEMMA GotoStep ==
  ASSUME Inv, NEW c \in Controller, ctl[c].pc # "idle",
         NEW pc \in {"confirm", "facts", "derive", "start"}, Goto(c, ctl[c], pc),
         UNCHANGED <<authority, membership, tasks, finished, changes, alarms, deployment>>
  PROVE  Inv' /\ StepSound
<1> DEFINE y == [ctl[c] EXCEPT !.pc = pc]
<1>1. ControllerInv(ctl[c], authority, finished) /\ ctl[c].latest # NoTopology
  BY ZenonT(40) DEF Inv, ControllerInv, CacheInv
<1>2. ControllerInv(y, authority, finished)
  BY <1>1, GotoInv, ZenonT(40)
<1>3. Step(c, y)
  BY DEF Goto
<1> HIDE DEF y
<1> QED BY <1>2, <1>3, StepInv DEF Inv, StoreInv

\* The steps that commit a plan on the state they are in.
LEMMA PlanStep ==
  ASSUME Inv, NEW c \in Controller, ctl[c].pc # "idle",
         NEW plan, Sound(ctl[c].latest, plan), Commit(c, ctl[c], plan, ctl[c]),
         UNCHANGED <<membership, tasks, finished, changes, alarms, deployment>>
  PROVE  Inv' /\ StepSound
<1>1. ControllerInv(ctl[c], authority, finished) /\ ctl[c].latest # NoTopology /\ alarms' \in Nat
  BY ZenonT(40) DEF Inv, StoreInv, ControllerInv, CacheInv
<1> QED BY <1>1, CommitInv, ZenonT(40)

\* What a controller that is not idle has read.
LEMMA HasRead ==
  ASSUME Inv, NEW c \in Controller, ctl[c].pc # "idle"
  PROVE  /\ ControllerInv(ctl[c], authority, finished) /\ ControllerType(ctl[c])
         /\ Consistent(ctl[c].latest) /\ ctl[c].latest # NoTopology
         /\ TopologyType(ctl[c].latest) /\ MembersType(ctl[c].latest.members)
         /\ MembershipType(ctl[c].seen) /\ ctl[c].confirmed \subseteq In(ctl[c].latest, Committed)
<1>1. /\ ControllerInv(ctl[c], authority, finished) /\ ControllerType(ctl[c])
      /\ Consistent(ctl[c].latest) /\ ctl[c].latest # NoTopology
      /\ ctl[c].confirmed \subseteq In(ctl[c].latest, Committed)
  BY ZenonT(40) DEF Inv, ControllerInv, CacheInv, FactsInv
<1>2. TopologyType(ctl[c].latest) /\ MembersType(ctl[c].latest.members)
  BY <1>1, BatchStates, ZenonT(40)
<1>3. MembershipType(ctl[c].seen)
  BY <1>1, ZenonT(40) DEF ControllerType
<1> QED BY <1>1, <1>2, <1>3, ZenonT(40)
LEMMA ShutdownStep ==
  ASSUME Inv, NEW c \in Controller, CommitClusterShutdown(c)
  PROVE  Inv' /\ StepSound
<1> DEFINE k == ctl[c]
           x == [k.latest EXCEPT !.batch = NoBatch,
                                 !.members = WithState(@, DOMAIN @, "PRE_LEAVING")]
           plan == BuildClusterShutdownFinal(x)
<1>1. /\ k.pc = "confirm" /\ DOMAIN k.latest.members # {}
      /\ UNCHANGED <<membership, tasks, finished, changes, alarms, deployment>>
  BY ZenonT(40) DEF CommitClusterShutdown, AllMembersExiting
<1>2. Consistent(k.latest)
  BY <1>1, HasRead, ZenonT(40)
<1>3. CASE authority' = authority /\ Goto(c, k, "derive")
  BY <1>1, <1>3, GotoStep, ZenonT(40)
<1>4. CASE Commit(c, k, plan, k)
  <2>1. Sound(k.latest, plan)
    <3> HIDE DEF k
    <3> QED BY <1>1, <1>2, ShutdownSound, ZenonT(40)
  <2> HIDE DEF plan
  <2> QED BY <1>1, <1>4, <2>1, PlanStep, ZenonT(40)
<1> QED BY <1>3, <1>4 DEF CommitClusterShutdown

LEMMA PreserveStep ==
  ASSUME Inv, NEW c \in Controller, PreserveTopology(c)
  PROVE  Inv' /\ StepSound
BY GotoStep DEF PreserveTopology

LEMMA AbsenceStep ==
  ASSUME Inv, NEW c \in Controller, HandleCollectiveMembershipAbsence(c)
  PROVE  Inv' /\ StepSound
<1> DEFINE k == ctl[c]
           y == [k EXCEPT !.pc = "replace", !.seen = membership]
<1>1. /\ k.pc = "confirm"
      /\ UNCHANGED <<authority, membership, tasks, finished, changes, alarms, deployment>>
  BY DEF HandleCollectiveMembershipAbsence
<1>2. CASE Goto(c, k, "derive")
  BY <1>1, <1>2, GotoStep
<1>3. CASE /\ In(k.latest, Committed) \cap DOMAIN membership = {}
           /\ OwnsProbe(c, k, membership) /\ Step(c, y)
  <2>1. /\ ControllerInv(k, authority, finished) /\ ControllerType(k) /\ k.latest # NoTopology
        /\ MembershipType(membership)
    BY <1>1, HasRead, ZenonT(40) DEF Inv, StoreInv
  <2> HIDE DEF k
  <2>2. /\ y.pc = "replace" /\ y.confirmed = k.confirmed /\ y.err = k.err /\ y.latest = k.latest
        /\ y.seen = membership /\ y.derived = k.derived /\ y.expected = k.expected
        /\ y.progress = k.progress /\ y.done = k.done /\ y.sweep = k.sweep
        /\ y.quarantine = k.quarantine
    BY <2>1 DEF ControllerType
  <2>3. ControllerType(y)
    BY <2>1, <2>2, ZenonT(40) DEF ControllerType
  <2> HIDE DEF y
  <2>4. ReplacementReady(y, y.seen) # {}
    BY <1>3, <2>2 DEF OwnsProbe, ReplacementReady
  <2>5. CacheInv(y, authority) /\ FactsInv(y)
    BY <1>3, <2>1, <2>2, <2>4, ZenonT(40) DEF ControllerInv, CacheInv, FactsInv
  <2>6. DerivedInv(y, authority) /\ ProgressInv(y, finished)
    BY <2>1, <2>2, ZenonT(40) DEF ControllerInv, DerivedInv, ProgressInv
  <2>7. ControllerInv(y, authority, finished)
    BY <2>1, <2>2, <2>3, <2>5, <2>6 DEF ControllerInv
  <2> QED BY <1>1, <1>3, <2>7, StepInv, ZenonT(40) DEF Inv, StoreInv
<1> QED BY <1>2, <1>3 DEF HandleCollectiveMembershipAbsence

\* The first of some addresses is one of them.
LEMMA FirstIs ==
  ASSUME Ordered, NEW S \in SUBSET Address, NEW n
  PROVE  /\ First(S, n) \subseteq S
         /\ S # {} /\ n = MaxMembers => First(S, n) # {}
<1>1. First(S, n) \subseteq S
  BY DEF First
<1>2. ASSUME S # {}, n = MaxMembers PROVE First(S, n) # {}
  <2>1. S \in SUBSET Nat
    BY ControllerAssumption
  <2>2. PICK a \in S : IsLeast(a, S)
    BY <1>2, <2>1, ZenonT(40) DEF Ordered
  <2>3. {b \in S : b < a} = {}
    <3>1. ASSUME NEW b \in S, b < a PROVE FALSE
      <4>1. a \in Nat /\ b \in Nat /\ a <= b
        BY <2>1, <2>2 DEF IsLeast
      <4> QED BY <3>1, <4>1
    <3> QED BY <3>1
  <2>4. Cardinality({b \in S : b < a}) = 0
    BY <2>3 DEF Ordered
  <2>5. 0 < n
    BY <1>2, ControllerAssumption
  <2> QED BY <2>4, <2>5 DEF First
<1> QED BY <1>1, <1>2

LEMMA ReplacementStep ==
  ASSUME Ordered, Inv, NEW c \in Controller, BootstrapCollectiveReplacement(c)
  PROVE  Inv' /\ StepSound
<1> DEFINE k == ctl[c]
           A == First(Ready(k), MaxMembers)
           m == Admit(None, k.seen, A)
           x == [k.latest EXCEPT !.members = m, !.batch = NoBatch]
           plan == BuildBootstrap(x, A)
<1>1. k.pc = "replace" /\ UNCHANGED <<membership, tasks, finished, changes, alarms, deployment>>
  BY DEF BootstrapCollectiveReplacement
<1>2. Commit(c, k, plan, k)
  BY DEF BootstrapCollectiveReplacement
<1>3. /\ Consistent(k.latest) /\ TopologyType(k.latest) /\ MembershipType(k.seen)
      /\ In(k.latest, Committed) \cap DOMAIN k.seen = {} /\ ReplacementReady(k, k.seen) # {}
  BY <1>1, HasRead, ZenonT(40) DEF Inv, ControllerInv, FactsInv
<1>4. Sound(k.latest, plan)
  <2> HIDE DEF k
  <2>1. Ready(k) # {} /\ Ready(k) \subseteq DOMAIN k.seen /\ Ready(k) \in SUBSET Address
    BY <1>3 DEF Ready, ReplacementReady, Lifecycle, MembershipType
  <2>2. A # {} /\ A \in SUBSET DOMAIN k.seen
    BY <2>1, FirstIs, ZenonT(40)
  <2> HIDE DEF A
  <2>3. /\ MembersType(m) /\ DOMAIN m = A /\ \A a \in A : m[a].state = "INITIAL"
    BY <1>3, <2>2, AdmitAll
  <2> HIDE DEF m
  <2>4. TopologyType(x) /\ x.version = k.latest.version /\ x.batch = NoBatch /\ x.members = m
    BY <1>3, <2>3, ZenonT(40) DEF TopologyType, MembersType, Batch
  <2> HIDE DEF x
  <2>5. /\ In(x, Committed) = {} /\ In(x, {"JOINING", "LEAVING", "FAILED"}) = {}
        /\ A \subseteq In(x, {"INITIAL"})
    BY <2>3, <2>4 DEF In, Committed
  <2>6. A \cap In(k.latest, Committed) = {}
    BY <1>3, <2>2, ZenonT(40)
  <2> QED BY <1>3, <2>2, <2>4, <2>5, <2>6, BootstrapSound, ZenonT(40)
<1> HIDE DEF plan
<1> QED BY <1>1, <1>2, <1>4, PlanStep

LEMMA ConfirmStep ==
  ASSUME Inv, NEW c \in Controller, ConfirmSomeFailures(c)
  PROVE  Inv' /\ StepSound
<1> DEFINE k == ctl[c]
<1>1. PICK M \in SUBSET Missing(k), S \in SummaryCandidates(k.latest) :
        \E F \in SUBSET Confirmable(c, M) : ConfirmFailures(c, M, F, S)
  BY DEF ConfirmSomeFailures
<1>2. PICK F \in SUBSET Confirmable(c, M) : ConfirmFailures(c, M, F, S)
  BY <1>1
<1> DEFINE C == F \cup (S \cap In(k.latest, {"ACTIVE"}))
           y == [k EXCEPT !.pc = "facts", !.retained = M # {}, !.summary = S, !.confirmed = C]
<1>3. /\ k.pc = "confirm" /\ Step(c, y)
      /\ UNCHANGED <<authority, membership, tasks, finished, changes, deployment>>
      /\ alarms' \in {alarms, alarms + 1}
  BY <1>2 DEF ConfirmFailures
<1>4. /\ ControllerInv(k, authority, finished) /\ ControllerType(k) /\ k.latest # NoTopology
      /\ TopologyType(k.latest)
  BY <1>3, HasRead
<1>5. C \subseteq In(k.latest, Committed) /\ C \subseteq Address /\ S \subseteq Address
  <2>1. F \subseteq In(k.latest, Committed)
    BY DEF Confirmable, Missing
  <2>2. S \subseteq In(k.latest, {"ACTIVE", "JOINING"})
    BY DEF SummaryCandidates
  <2> HIDE DEF k
  <2> QED BY <1>4, <2>1, <2>2, ZenonT(40) DEF In, Committed, TopologyType
<1> HIDE DEF k, C
<1>6. /\ y.pc = "facts" /\ y.confirmed = C /\ y.err = k.err /\ y.latest = k.latest
      /\ y.seen = k.seen /\ y.derived = k.derived /\ y.expected = k.expected
      /\ y.progress = k.progress /\ y.done = k.done /\ y.sweep = k.sweep
  BY <1>4 DEF ControllerType
<1>7. ControllerType(y)
  BY <1>4, <1>5, <1>6, ZenonT(40) DEF ControllerType
<1> HIDE DEF y
<1>8. CacheInv(y, authority) /\ FactsInv(y)
  BY <1>4, <1>5, <1>6, ZenonT(40) DEF ControllerInv, CacheInv, FactsInv
<1>9. DerivedInv(y, authority) /\ ProgressInv(y, finished)
  BY <1>4, <1>6, ZenonT(40) DEF ControllerInv, DerivedInv, ProgressInv
<1>10. ControllerInv(y, authority, finished)
  BY <1>4, <1>6, <1>7, <1>8, <1>9 DEF ControllerInv
<1> HIDE DEF y
<1>11. alarms' \in Nat
  <2>1. alarms \in Nat
    BY ZenonT(40) DEF Inv, StoreInv
  <2> QED BY <1>3, <2>1
<1>12. MembershipType(membership)' /\ tasks' \in SUBSET Task /\ finished \subseteq tasks' /\ changes' \in Nat
  BY <1>3, ZenonT(40) DEF Inv, StoreInv
<1> QED BY <1>3, <1>10, <1>11, <1>12, StepInv, ZenonT(40)

LEMMA HoldStep ==
  ASSUME Inv, NEW c \in Controller, HoldFailures(c)
  PROVE  Inv' /\ StepSound
BY GotoStep, ZenonT(40) DEF HoldFailures

\* Those a cleanup removes own nothing, and those it removes from the joining ones join.
LEMMA RemovedOwnNothing ==
  ASSUME NEW k
  PROVE  /\ RemoveInitial(k) \subseteq In(k.latest, {"INITIAL"})
         /\ RemoveJoining(k) \subseteq In(k.latest, {"JOINING"})
BY DEF RemoveInitial, RemoveJoining

\* Removing members that a failure plan leaves uncommitted.
LEMMA TrimFailureSound ==
  ASSUME NEW t, Consistent(t), t.hasInit, NEW N \in SUBSET In(t, Committed),
         In(t, {"FAILED"}) \cup N # {}, NEW R \in SUBSET In(t, {"INITIAL", "JOINING"}),
         NEW plan, plan = BuildFailureStartOrReplan(t, In(t, {"FAILED"}) \cup N)
  PROVE  Sound(t, [plan EXCEPT !.next.members = Without(@, R)])
<1> DEFINE u == plan.next
<1>1. /\ plan = Ok(u) /\ Sound(t, plan) /\ u.batch.type = "FAILURE"
      /\ \A S \in SUBSET {"INITIAL", "JOINING"} : In(u, S) = In(t, S)
  <2> DEFINE q == BuildFailureStartOrReplan(t, In(t, {"FAILED"}) \cup N)
  <2>1. /\ q = Ok(q.next) /\ Sound(t, q) /\ q.next.batch.type = "FAILURE"
        /\ \A S \in SUBSET {"INITIAL", "JOINING"} : In(q.next, S) = In(t, S)
    BY FailureSound, ZenonT(40)
  <2>2. plan = q
    OBVIOUS
  <2> HIDE DEF q
  <2> QED BY <2>1, <2>2, ZenonT(40)
<1> HIDE DEF u
<1>2. R \subseteq In(u, {"INITIAL", "JOINING"})
  BY <1>1
<1>3. R \cap In(u, Committed \cup {"FAILED"}) = {}
  BY <1>2 DEF In, Committed
<1>4. Sound(t, [Ok(u) EXCEPT !.next.members = Without(@, R)])
  BY <1>1, <1>3, TrimSound
<1> QED BY <1>1, <1>4, ZenonT(40)

LEMMA FailuresStep ==
  ASSUME Inv, NEW c \in Controller, CommitConfirmedFailures(c)
  PROVE  Inv' /\ StepSound
<1> DEFINE k == ctl[c]
           t == k.latest
           N == NewlyFailed(k)
           R == RemoveInitial(k) \cup RemoveJoining(k)
           built == BuildFailureStartOrReplan(t, In(t, {"FAILED"}) \cup N)
           plan == [built EXCEPT !.next.members = Without(@, R)]
<1>1. /\ k.pc = "facts" /\ N # {} /\ Commit(c, k, plan, k)
      /\ UNCHANGED <<membership, tasks, finished, changes, alarms, deployment>>
  BY DEF CommitConfirmedFailures
<1>2. Consistent(t) /\ k.confirmed \subseteq In(t, Committed)
  BY <1>1, HasRead
<1> HIDE DEF k
<1>3. N \subseteq In(t, Committed)
  BY <1>2 DEF NewlyFailed, First
<1>4. t.hasInit
  BY <1>1, <1>2, <1>3 DEF Consistent
<1>5. R \subseteq In(t, {"INITIAL", "JOINING"})
  BY RemovedOwnNothing DEF In
<1> HIDE DEF N, R, t
<1>6. Sound(t, plan)
  BY <1>1, <1>2, <1>3, <1>4, <1>5, TrimFailureSound, ZenonT(40)
<1> HIDE DEF plan
<1> QED BY <1>1, <1>6, PlanStep DEF k, t

LEMMA CleanupStep ==
  ASSUME Inv, NEW c \in Controller, CommitUncommittedCleanup(c)
  PROVE  Inv' /\ StepSound
<1> DEFINE k == ctl[c]
           t == k.latest
           J == RemoveJoining(k)
           I == RemoveInitial(k)
           built == CASE t.batch.type = "SCALE_OUT" -> BuildScaleOutReplan(t, J)
                      [] t.batch.type = "FAILURE" -> BuildFailureStartOrReplan(t, In(t, {"FAILED"}))
           plan == [built EXCEPT !.next.members = Without(@, I \cup J)]
           m == Without(t.members, I)
           u == Advance(t, m, t.batch)
<1>1. /\ k.pc = "facts"
      /\ IF J # {} THEN Commit(c, k, plan, k) ELSE Commit(c, k, Ok(u), k)
      /\ UNCHANGED <<membership, tasks, finished, changes, alarms, deployment>>
  BY ZenonT(40) DEF CommitUncommittedCleanup
<1>2. Consistent(t) /\ TopologyType(t) /\ MembersType(t.members)
  BY <1>1, HasRead, ZenonT(40)
<1> HIDE DEF k
<1>3. I \subseteq In(t, {"INITIAL"}) /\ J \subseteq In(t, {"JOINING"})
  BY RemovedOwnNothing
<1> HIDE DEF I, J, t
<1>4. ASSUME J # {} PROVE Sound(t, plan)
  <2>1. In(t, {"JOINING"}) # {}
    BY <1>3, <1>4, ZenonT(40)
  <2>2. In(t, {"JOINING"}) \subseteq In(t, {"JOINING", "LEAVING", "FAILED"})
         /\ In(t, {"JOINING"}) \subseteq In(t, {"JOINING", "FAILED"})
    BY DEF In
  <2>3. t.batch # NoBatch /\ t.batch.type \in {"SCALE_OUT", "FAILURE"}
    <3>1. t.batch # NoBatch
      BY <1>2, <2>1, <2>2, BatchStates, ZenonT(40)
    <3>2. t.batch.type \in {"SCALE_OUT", "SCALE_IN", "FAILURE"}
      BY <1>2, <3>1, BatchStates, ZenonT(40)
    <3>3. t.batch.type # "SCALE_IN"
      BY <1>2, <2>1, <2>2, <3>1, BatchStates
    <3> QED BY <3>1, <3>2, <3>3, ZenonT(40)
  <2>4. CASE t.batch.type = "SCALE_OUT"
    <3> DEFINE v == built.next
    <3>1. built = BuildScaleOutReplan(t, J)
      BY <2>4
    <3>2. built = Ok(v) /\ Sound(t, built) /\ \A S : In(v, S) = In(t, S) \ J
      BY <1>2, <1>3, <1>4, <2>4, <3>1, ReplanSound, ZenonT(40)
    <3> HIDE DEF v, built
    <3>3. In(t, {"INITIAL"}) \cap In(t, Committed \cup {"FAILED"}) = {}
      BY DEF In, Committed
    <3>4. In(t, {"INITIAL"}) \cap In(t, {"JOINING"}) = {}
      BY DEF In
    <3>5. (I \cup J) \cap In(v, Committed \cup {"FAILED"}) = {}
      BY <1>3, <3>2, <3>3
    <3>6. (I \cup J) \cap In(v, {"JOINING"}) = {}
      BY <1>3, <3>2, <3>4
    <3>7. Sound(t, [Ok(v) EXCEPT !.next.members = Without(@, I \cup J)])
      BY <3>2, <3>5, <3>6, TrimSound, ZenonT(40)
    <3> QED BY <3>2, <3>7
  <2>5. CASE t.batch.type = "FAILURE"
    <3>1. built = BuildFailureStartOrReplan(t, In(t, {"FAILED"}) \cup {})
      BY <2>5, ZenonT(40)
    <3>2. t.hasInit
      BY <1>2, <2>3, ZenonT(40) DEF Consistent
    <3>3. In(t, {"FAILED"}) # {}
      BY <1>2, <2>3, <2>5, BatchStates
    <3>4. I \cup J \in SUBSET In(t, {"INITIAL", "JOINING"})
      BY <1>3, ZenonT(40) DEF In
    <3> HIDE DEF built
    <3> QED BY <1>2, <3>1, <3>2, <3>3, <3>4, TrimFailureSound, ZenonT(40)
  <2> QED BY <2>3, <2>4, <2>5
<1>5. Sound(t, Ok(u))
  <2>1. /\ MembersType(m) /\ DOMAIN m = DOMAIN t.members \ I
        /\ \A a \in DOMAIN t.members \ I : m[a] = t.members[a]
    BY <1>2, WithoutIs, ZenonT(40)
  <2> HIDE DEF m
  <2>2. t.batch \in Batch
    BY <1>2 DEF TopologyType
  <2>3. u.members = m
    BY <1>2, <2>1, <2>2, AdvanceIs
  <2>4. ASSUME NEW S, "INITIAL" \notin S PROVE In(u, S) = In(t, S)
    <3>1. In(t, S) \cap I = {}
      BY <1>3, <2>4 DEF In
    <3> HIDE DEF u
    <3> QED BY <2>1, <2>3, <3>1 DEF In
  <2>5. /\ In(u, Committed) = In(t, Committed)
        /\ \A s \in {"JOINING", "LEAVING", "FAILED"} : In(u, {s}) = In(t, {s})
    BY <2>4, ZenonT(40) DEF Committed
  <2> QED BY <1>2, <2>1, <2>5, SameBatchSound
<1> HIDE DEF plan, u
<1> QED BY <1>1, <1>4, <1>5, PlanStep DEF k, t
\* What admissions and intentions to leave make of the members.
LEMMA AdmissionsSound ==
  ASSUME NEW t, Consistent(t), NEW L, L \subseteq In(t, {"ACTIVE"}),
         NEW seen, MembershipType(seen), NEW A, A \subseteq DOMAIN seen, A \cap DOMAIN t.members = {}
  PROVE  Sound(t, Ok(Advance(t, Admit(WithState(t.members, L, "PRE_LEAVING"), seen, A), t.batch)))
<1> DEFINE w == WithState(t.members, L, "PRE_LEAVING")
           m == Admit(w, seen, A)
           u == Advance(t, m, t.batch)
<1>1. MembersType(t.members) /\ TopologyType(t) /\ t.batch \in Batch /\ "PRE_LEAVING" \in MemberState
  BY BatchStates, ZenonT(40) DEF TopologyType, MemberState
<1>2. /\ MembersType(w) /\ DOMAIN w = DOMAIN t.members
      /\ \A a \in DOMAIN t.members :
           w[a].state = IF a \in L THEN "PRE_LEAVING" ELSE t.members[a].state
  BY <1>1, WithStateIs
<1> HIDE DEF w
<1>3. /\ MembersType(m) /\ DOMAIN m = DOMAIN t.members \cup A
      /\ \A a \in DOMAIN t.members : m[a] = w[a]
      /\ \A a \in A : m[a].state = "INITIAL"
  <2>1. MembersType(m) /\ DOMAIN m = DOMAIN w \cup A
    BY <1>2, AdmitIs, ZenonT(40)
  <2>2. /\ \A a \in DOMAIN w : m[a] = w[a]
        /\ \A a \in A \ DOMAIN w : m[a].state = "INITIAL"
    BY AdmitStates
  <2> HIDE DEF m
  <2> QED BY <1>2, <2>1, <2>2
<1> HIDE DEF m
<1>4. u.members = m
  BY <1>1, <1>3, AdvanceIs
<1>5. \A a \in L : a \in DOMAIN t.members /\ t.members[a].state = "ACTIVE"
  BY ZenonT(40) DEF In
<1>6. \A a \in DOMAIN t.members : \/ m[a].state = t.members[a].state
                                  \/ m[a].state = "PRE_LEAVING" /\ t.members[a].state = "ACTIVE"
  BY <1>2, <1>3, <1>5, ZenonT(40)
<1>7. ASSUME NEW S, "INITIAL" \notin S, {"ACTIVE", "PRE_LEAVING"} \subseteq S \/ {"ACTIVE", "PRE_LEAVING"} \cap S = {}
      PROVE  In(u, S) = In(t, S)
  <2> HIDE DEF u
  <2>1. \A a \in DOMAIN t.members : m[a].state \in S <=> t.members[a].state \in S
    BY <1>6, <1>7, ZenonT(40)
  <2>2. \A a \in A : m[a].state \notin S
    BY <1>3, <1>7
  <2> QED BY <1>3, <1>4, <2>1, <2>2, ZenonT(40) DEF In
<1>8. /\ In(u, Committed) = In(t, Committed)
      /\ \A s \in {"JOINING", "LEAVING", "FAILED"} : In(u, {s}) = In(t, {s})
  <2> HIDE DEF u
  <2> QED BY <1>7 DEF Committed
<1>9. Sound(t, Ok(u))
  BY <1>3, <1>8, SameBatchSound, ZenonT(40)
<1> QED BY <1>9, ZenonT(40) DEF m, w

LEMMA FactsStep ==
  ASSUME Inv, NEW c \in Controller, CommitMembershipFacts(c)
  PROVE  Inv' /\ StepSound
<1> DEFINE k == ctl[c]
           t == k.latest
           L == First(In(t, {"ACTIVE"}) \cap Lifecycle(k.seen, {"EXITING"}), MaxMembers)
           unknown == Ready(k) \ DOMAIN t.members
           admitted == First(unknown, MaxMembers - Cardinality(L))
           plan(A) == Ok(Advance(t, Admit(WithState(t.members, L, "PRE_LEAVING"), k.seen, A), t.batch))
<1>1. /\ k.pc = "facts"
      /\ UNCHANGED <<membership, tasks, finished, changes, alarms, deployment>>
      /\ \/ authority' = authority /\ Goto(c, k, "derive")
         \/ \E A \in {admitted, {}} : Commit(c, k, plan(A), k)
  BY ZenonT(40) DEF CommitMembershipFacts
<1>2. CASE authority' = authority /\ Goto(c, k, "derive")
  BY <1>1, <1>2, GotoStep, ZenonT(40)
<1>3. ASSUME NEW A \in {admitted, {}}, Commit(c, k, plan(A), k) PROVE Inv' /\ StepSound
  <2>1. Consistent(t) /\ MembershipType(k.seen)
    BY <1>1, HasRead, ZenonT(40)
  <2>2. Sound(t, plan(A))
    <3> HIDE DEF k
    <3>1. L \subseteq In(t, {"ACTIVE"})
      BY DEF First
    <3>2. A \subseteq unknown
      BY ZenonT(40) DEF First
    <3>3. A \subseteq DOMAIN k.seen /\ A \cap DOMAIN t.members = {}
      BY <3>2 DEF Ready, Lifecycle
    <3> HIDE DEF L, t
    <3> QED BY <2>1, <3>1, <3>3, AdmissionsSound, ZenonT(40)
  <2> HIDE DEF plan
  <2> QED BY <1>1, <1>3, <2>2, PlanStep, ZenonT(40)
<1> QED BY <1>1, <1>2, <1>3, ZenonT(40)

\* A generation is prepared from the topology that was read.
LEMMA PreparedInv ==
  ASSUME Ordered, NEW k, NEW auth, NEW fin, ControllerInv(k, auth, fin), AuthorityInv(auth),
         k.latest # NoTopology,
         k.derived # k.latest.version => RebuildExpected(k.latest).rc = "K_OK"
  PROVE  LET y == PrepareDerivedGeneration(k)
         IN  ControllerInv(y, auth, fin) /\ y.latest = k.latest /\ y.derived = k.latest.version
<1> DEFINE y == [k EXCEPT !.derived = k.latest.version, !.expected = RebuildExpected(k.latest).tasks,
                          !.todo = RebuildExpected(k.latest).tasks]
<1>1. CASE k.derived = k.latest.version
  BY <1>1 DEF PrepareDerivedGeneration
<1>2. CASE k.derived # k.latest.version
  <2> DEFINE t == k.latest
             v == k.latest.version
             e == RebuildExpected(t).tasks
  <2>1. PrepareDerivedGeneration(k) = [k EXCEPT !.derived = v, !.expected = e, !.todo = e]
    BY <1>2, ZenonT(40) DEF PrepareDerivedGeneration
  <2>2. ControllerType(k) /\ TopologyType(k.latest) /\ v \in Nat /\ auth.version \in Nat
    BY AuthorityVersion, ZenonT(40) DEF ControllerInv, ControllerType, TopologyType
  <2>3. e \in SUBSET Task
    BY <2>2, RebuildSucceeds, ZenonT(40)
  <2>10. Derives(t, e)
    BY <1>2, ZenonT(40) DEF Derives
  <2>4. /\ v <= auth.version /\ (v = auth.version => t = auth)
        /\ k.derived <= v /\ k.pc # "finalize" /\ k.progress <= k.derived
        /\ k.derived \in Nat /\ k.progress \in Nat /\ t.version = v
    BY <1>2, <2>2 DEF ControllerInv, CacheInv, DerivedInv, ProgressInv, ControllerType
  <2> HIDE DEF e
  <2> DEFINE z == [k EXCEPT !.derived = v, !.expected = e, !.todo = e]
  <2>5. /\ z.pc = k.pc /\ z.confirmed = k.confirmed /\ z.err = k.err /\ z.latest = k.latest
        /\ z.seen = k.seen /\ z.derived = v /\ z.expected = e /\ z.quarantine = k.quarantine
        /\ z.progress = k.progress /\ z.done = k.done /\ z.sweep = k.sweep
    BY <2>2 DEF ControllerType
  <2>6. ControllerType(z)
    <3> HIDE DEF v
    <3> QED BY <2>2, <2>3, <2>5, ZenonT(40) DEF ControllerType
  <2> HIDE DEF z
  <2>7. CacheInv(z, auth) /\ FactsInv(z) /\ z.err # "K_INVALID"
    <3>1. ReplacementReady(z, z.seen) = ReplacementReady(k, k.seen)
      BY <2>5 DEF ReplacementReady
    <3>2. FactsInv(z) /\ z.err # "K_INVALID"
      BY <2>5, <3>1, ZenonT(40) DEF ControllerInv, FactsInv
    <3> QED BY <2>5, <3>2, ZenonT(40) DEF ControllerInv, CacheInv
  <2>8. DerivedInv(z, auth)
    <3>1. z.latest = t
      BY <2>5, ZenonT(40)
    <3> HIDE DEF t, v
    <3>2. z.derived <= auth.version /\ z.derived <= z.latest.version /\ z.pc # "finalize"
      BY <2>2, <2>4, <2>5, <3>1
    <3>3. Derives(z.latest, z.expected) /\ (z.derived = auth.version => auth = z.latest)
      BY <2>10, <2>4, <2>5, <3>1
    <3> QED BY <3>2, <3>3, ZenonT(40) DEF DerivedInv
  <2>9. ProgressInv(z, fin)
    <3>1. z.progress < z.derived /\ z.progress \in Nat /\ z.derived \in Nat
      BY <1>2, <2>2, <2>4, <2>5
    <3> QED BY <3>1 DEF ProgressInv
  <2> QED BY <2>1, <2>5, <2>6, <2>7, <2>8, <2>9 DEF ControllerInv, z
<1> QED BY <1>1, <1>2, ZenonT(40)
LEMMA TodoInv ==
  ASSUME NEW k, NEW auth, NEW fin, ControllerInv(k, auth, fin), NEW T \in SUBSET Task
  PROVE  LET y == [k EXCEPT !.todo = T]
         IN  ControllerInv(y, auth, fin) /\ y.latest = k.latest /\ y.derived = k.derived
<1> DEFINE y == [k EXCEPT !.todo = T]
<1>1. ControllerType(k)
  BY DEF ControllerInv
<1>2. /\ y.pc = k.pc /\ y.confirmed = k.confirmed /\ y.err = k.err /\ y.latest = k.latest
      /\ y.seen = k.seen /\ y.derived = k.derived /\ y.expected = k.expected
      /\ y.quarantine = k.quarantine
      /\ y.progress = k.progress /\ y.done = k.done /\ y.sweep = k.sweep
  BY <1>1 DEF ControllerType
<1>3. ControllerType(y)
  BY <1>1, <1>2, ZenonT(40) DEF ControllerType
<1> HIDE DEF y
<1>4. ReplacementReady(y, y.seen) = ReplacementReady(k, k.seen)
  BY <1>2 DEF ReplacementReady
<1>5. FactsInv(y) /\ y.err # "K_INVALID"
  BY <1>2, <1>4, ZenonT(40) DEF ControllerInv, FactsInv
<1>6. CacheInv(y, auth)
  BY <1>2, ZenonT(40) DEF ControllerInv, CacheInv
<1>7. DerivedInv(y, auth) /\ ProgressInv(y, fin)
  BY <1>2, ZenonT(40) DEF ControllerInv, DerivedInv, ProgressInv
<1> QED BY <1>2, <1>3, <1>5, <1>6, <1>7 DEF ControllerInv, y

LEMMA DeriveStep ==
  ASSUME Ordered, Inv, NEW c \in Controller, ReconcileDerivedState(c)
  PROVE  Inv' /\ StepSound
<1> DEFINE k == ctl[c]
           rc == RebuildExpected(k.latest).rc
           y == PrepareDerivedGeneration(k)
<1>1. /\ k.pc = "derive"
      /\ UNCHANGED <<authority, membership, finished, changes, alarms, deployment>>
      /\ IF y # k /\ rc # "K_OK"
         THEN tasks' = tasks /\ Step(c, Idle(k, rc))
         ELSE \E slice \in SUBSET y.todo :
                tasks' = tasks \cup slice /\ Goto(c, [y EXCEPT !.todo = @ \ slice], "finalize")
  BY ZenonT(40) DEF ReconcileDerivedState
<1>2. /\ ControllerInv(k, authority, finished) /\ ControllerType(k) /\ k.latest # NoTopology
      /\ TopologyType(k.latest) /\ AuthorityInv(authority)
  BY <1>1, HasRead, ZenonT(40) DEF Inv, StoreInv
<1>3. rc \in {"K_OK", "K_NOT_READY"}
  BY <1>2, RebuildSucceeds
<1>4. CASE y # k /\ rc # "K_OK"
  <2>1. ControllerInv(Idle([k EXCEPT !.latest = k.latest], "K_NOT_READY"), authority, finished)
    BY <1>2, IdleInv
  <2>2. k = [k EXCEPT !.latest = k.latest]
    BY <1>2 DEF ControllerType
  <2>3. ControllerInv(Idle(k, "K_NOT_READY"), authority, finished)
    BY <2>1, <2>2
  <2>4. tasks' = tasks /\ Step(c, Idle(k, "K_NOT_READY"))
    BY <1>1, <1>3, <1>4
  <2> HIDE DEF Idle
  <2> QED BY <1>1, <2>3, <2>4, StepInv DEF Inv, StoreInv
<1>5. CASE ~ (y # k /\ rc # "K_OK")
  <2>1. PICK slice \in SUBSET y.todo :
          tasks' = tasks \cup slice /\ Goto(c, [y EXCEPT !.todo = @ \ slice], "finalize")
    BY <1>1, <1>5, ZenonT(40)
  <2>2. k.derived # k.latest.version => rc = "K_OK"
    <3>1. ASSUME k.derived # k.latest.version PROVE y.derived = k.latest.version
      BY <1>2, <3>1 DEF PrepareDerivedGeneration, ControllerType
    <3> QED BY <1>5, <3>1
  <2>3. ControllerInv(y, authority, finished) /\ y.latest = k.latest /\ y.derived = k.latest.version
    <3> HIDE DEF k
    <3> QED BY <1>2, <2>2, PreparedInv, ZenonT(40)
  <2> DEFINE T == y.todo \ slice
             z == [y EXCEPT !.todo = T]
             f == [z EXCEPT !.pc = "finalize"]
  <2> HIDE DEF y
  <2>4. slice \in SUBSET Task /\ T \in SUBSET Task
    BY <2>3 DEF ControllerInv, ControllerType
  <2> HIDE DEF T
  <2>5. ControllerInv(z, authority, finished) /\ z.latest = k.latest /\ z.derived = z.latest.version
    BY <2>3, <2>4, TodoInv
  <2> HIDE DEF z
  <2>6. ControllerInv(f, authority, finished)
    BY <1>2, <2>5, GotoInv, ZenonT(40)
  <2>7. Step(c, f)
    BY <2>1 DEF Goto, z, T
  <2> HIDE DEF f
  <2> QED BY <1>1, <2>1, <2>4, <2>6, <2>7, StepInv DEF Inv, StoreInv
<1> QED BY <1>4, <1>5

-----------------------------------------------------------------------------
(* The end of a batch. *)

WithProgress(k, p, D, W) == [k EXCEPT !.progress = p, !.done = D, !.sweep = W]

\* What is read of the progress: for a controller whose generation is that of its topology.
LEMMA ProgressChanges ==
  ASSUME NEW k, NEW auth, NEW fin, ControllerInv(k, auth, fin), NEW p \in Nat, p <= k.derived,
         NEW D \in SUBSET Task, NEW W \in SUBSET Task,
         p > 0 => D \subseteq k.expected \cap fin /\ W \subseteq k.expected,
         NEW y, y = WithProgress(k, p, D, W)
  PROVE  /\ ControllerInv(y, auth, fin) /\ y.latest = k.latest /\ y.derived = k.derived
         /\ y.expected = k.expected /\ y.done = D /\ y.sweep = W /\ y.pc = k.pc
<1>1. ControllerType(k)
  BY ZenonT(40) DEF ControllerInv
<1>2. /\ y.pc = k.pc /\ y.confirmed = k.confirmed /\ y.err = k.err /\ y.latest = k.latest
      /\ y.seen = k.seen /\ y.derived = k.derived /\ y.expected = k.expected
      /\ y.quarantine = k.quarantine
      /\ y.progress = p /\ y.done = D /\ y.sweep = W
  BY <1>1 DEF ControllerType, WithProgress
<1>3. ControllerType(y)
  BY <1>1, <1>2, ZenonT(40) DEF ControllerType, WithProgress
<1>4. ReplacementReady(y, y.seen) = ReplacementReady(k, k.seen)
  BY <1>2, ZenonT(40) DEF ReplacementReady
<1>5. FactsInv(y) /\ y.err # "K_INVALID"
  BY <1>2, <1>4, ZenonT(40) DEF ControllerInv, FactsInv
<1>6. CacheInv(y, auth)
  BY <1>2, ZenonT(40) DEF ControllerInv, CacheInv
<1>7. DerivedInv(y, auth)
  BY <1>2, ZenonT(40) DEF ControllerInv, DerivedInv
<1>8. ProgressInv(y, fin)
  BY <1>2, ZenonT(40) DEF ProgressInv
<1> QED BY <1>2, <1>3, <1>5, <1>6, <1>7, <1>8, ZenonT(40) DEF ControllerInv
\* One slice of the sweep: what is done is among the expected tasks and has finished.
LEMMA SweptInv ==
  ASSUME NEW k, NEW auth, ControllerInv(k, auth, finished), k.derived > 0,
         NEW V \in SUBSET RefreshTaskProgressCache(k).sweep
  PROVE  LET y == ReadProgress(RefreshTaskProgressCache(k), V)
         IN  /\ ControllerInv(y, auth, finished) /\ y.latest = k.latest /\ y.derived = k.derived
             /\ y.expected = k.expected /\ y.pc = k.pc /\ y.done \subseteq k.expected \cap finished
<1> DEFINE same == k.progress = k.derived
           d0 == IF same THEN k.done ELSE {}
           s0 == IF same THEN k.sweep ELSE {}
           w0 == IF s0 = {} THEN k.expected ELSE s0
           r == [k EXCEPT !.progress = k.derived, !.done = d0, !.sweep = w0]
           D == d0 \cup (V \cap finished)
           W == w0 \ V
           p == k.derived
           z == WithProgress(k, p, D, W)
<1>1. ControllerType(k)
  BY ZenonT(40) DEF ControllerInv
<1>2. RefreshTaskProgressCache(k) = r /\ r.sweep = w0 /\ r.done = d0
  <2>1. CASE same
    <3>1. RefreshTaskProgressCache(k) = [k EXCEPT !.sweep = w0]
      BY <2>1 DEF RefreshTaskProgressCache
    <3> HIDE DEF w0
    <3> QED BY <1>1, <2>1, <3>1, ZenonT(40) DEF ControllerType
  <2>2. CASE ~ same
    <3> DEFINE now == [k EXCEPT !.progress = k.derived, !.done = {}, !.sweep = {}]
    <3>1. now.sweep = {} /\ s0 = {}
      BY <1>1, <2>2 DEF ControllerType
    <3>2. RefreshTaskProgressCache(k) = [now EXCEPT !.sweep = k.expected]
      BY <1>1, <2>2, <3>1 DEF RefreshTaskProgressCache
    <3>3. w0 = k.expected /\ d0 = {}
      BY <2>2, <3>1, ZenonT(40)
    <3> HIDE DEF w0, d0
    <3> QED BY <1>1, <3>2, <3>3, ZenonT(40) DEF ControllerType
  <2> QED BY <2>1, <2>2
<1>3. /\ k.derived \in Nat /\ k.expected \in SUBSET Task
      /\ d0 \subseteq k.expected \cap finished /\ w0 \subseteq k.expected
  BY <1>1 DEF ControllerInv, ControllerType, ProgressInv
<1> HIDE DEF w0, d0
<1>4. ReadProgress(RefreshTaskProgressCache(k), V) = z
  BY <1>1, <1>2, ZenonT(40) DEF ReadProgress, ControllerType, WithProgress
<1>5. V \subseteq w0
  BY <1>2, ZenonT(40)
<1>6. D \subseteq k.expected \cap finished /\ W \subseteq k.expected
  BY <1>3, <1>5, ZenonT(40)
<1>7. D \in SUBSET Task /\ W \in SUBSET Task
  BY <1>3, <1>6, ZenonT(40)
<1>9. p \in Nat /\ p <= k.derived
  BY <1>3
<1> HIDE DEF D, W, p
<1>8. /\ ControllerInv(z, auth, finished) /\ z.latest = k.latest /\ z.derived = k.derived
      /\ z.expected = k.expected /\ z.done = D /\ z.pc = k.pc
  <2>1. z = WithProgress(k, p, D, W)
    OBVIOUS
  <2> HIDE DEF z
  <2>2. p > 0 => D \subseteq k.expected \cap finished /\ W \subseteq k.expected
    BY <1>6, ZenonT(40)
  <2> QED BY <1>7, <1>9, <2>1, <2>2, ProgressChanges
<1> HIDE DEF z
<1> QED BY <1>4, <1>6, <1>8

LEMMA QuarantineInv ==
  ASSUME NEW k, NEW auth, NEW fin, ControllerInv(k, auth, fin), k.pc # "replace", NEW A
  PROVE  ControllerInv(Quarantine(k, A), auth, fin) /\ Quarantine(k, A).latest = k.latest
<1> DEFINE q == [a \in Address |->
                   IF /\ a \in A \cap Lifecycle(k.seen, {"READY"})
                      /\ k.seen[a].ts = k.latest.members[a].id
                   THEN k.seen[a].ts ELSE k.quarantine[a]]
           y == [k EXCEPT !.quarantine = q]
<1>1. ControllerType(k) /\ MembershipType(k.seen)
  BY DEF ControllerInv, ControllerType
<1>2. Quarantine(k, A) = y
  BY ZenonT(40) DEF Quarantine
<1>3. q \in [Address -> Nat]
  <2>1. \A a \in Lifecycle(k.seen, {"READY"}) : k.seen[a].ts \in Nat
    BY <1>1 DEF MembershipType, Record, Lifecycle
  <2>2. k.quarantine \in [Address -> Nat]
    BY <1>1 DEF ControllerType
  <2> QED BY <2>1, <2>2
<1> HIDE DEF q
<1>4. /\ y.pc = k.pc /\ y.confirmed = k.confirmed /\ y.err = k.err /\ y.latest = k.latest
      /\ y.seen = k.seen /\ y.derived = k.derived /\ y.expected = k.expected
      /\ y.progress = k.progress /\ y.done = k.done /\ y.sweep = k.sweep
  BY <1>1 DEF ControllerType
<1>5. ControllerType(y)
  BY <1>1, <1>3, <1>4 DEF ControllerType
<1> HIDE DEF y
<1>6. CacheInv(y, auth) /\ FactsInv(y)
  BY <1>4, ZenonT(40) DEF ControllerInv, CacheInv, FactsInv
<1>7. DerivedInv(y, auth) /\ ProgressInv(y, fin) /\ y.err # "K_INVALID"
  BY <1>4, ZenonT(40) DEF ControllerInv, DerivedInv, ProgressInv
<1> QED BY <1>2, <1>4, <1>5, <1>6, <1>7, ZenonT(40) DEF ControllerInv

\* The end of a batch whose tasks are all finished, and of a failure in any case.
LEMMA FinalSound ==
  ASSUME Ordered, NEW t, Consistent(t), t.batch # NoBatch, NEW expected, Derives(t, expected),
         t.batch.type # "FAILURE" => expected \subseteq finished
  PROVE  Sound(t, Final(t))
<1>1. t.batch.type \in {"SCALE_OUT", "SCALE_IN", "FAILURE"}
  BY BatchStates, ZenonT(40)
<1>2. CASE t.batch.type = "SCALE_OUT"
  <2>1. Sound(t, BuildScaleOutFinal(t))
    BY <1>2, ScaleOutFinalSound
  <2> QED BY <1>2, <2>1, ZenonT(40) DEF Final
<1>3. CASE t.batch.type = "SCALE_IN"
  <2>1. Sound(t, BuildScaleInFinal(t))
    BY <1>3, ScaleInFinalSound
  <2> QED BY <1>3, <2>1, ZenonT(40) DEF Final
<1>4. CASE t.batch.type = "FAILURE"
  <2>1. Sound(t, BuildFailureFinal(t))
    BY <1>4, FailureFinalSound
  <2> QED BY <1>4, <2>1, ZenonT(40) DEF Final
<1> QED BY <1>1, <1>2, <1>3, <1>4

LEMMA CommitFinal ==
  ASSUME Inv, NEW c \in Controller, NEW k, ControllerInv(k, authority, finished),
         k.latest # NoTopology, k.pc = "finalize", Sound(k.latest, Final(k.latest)),
         CommitBatchFinal(c, k),
         membership' = membership, tasks' = tasks, finished' = finished,
         changes' = changes, alarms' \in Nat, deployment' = deployment
  PROVE  Inv' /\ StepSound
<1> DEFINE plan == Final(k.latest)
           q == Quarantine(k, Participants(k.latest))
           final == IF k.latest.batch.type = "FAILURE" THEN q ELSE k
<1>1. Commit(c, k, plan, final)
  BY DEF CommitBatchFinal
<1>2. ControllerInv(q, authority, finished) /\ q.latest = k.latest
  BY QuarantineInv, ZenonT(40)
<1> HIDE DEF q
<1>3. ControllerInv(final, authority, finished) /\ final.latest = k.latest
  BY <1>2
<1>4. Sound(k.latest, plan)
  OBVIOUS
<1> HIDE DEF plan, final
<1> QED BY <1>1, <1>3, <1>4, CommitInv, ZenonT(40)

LEMMA CommitExhaustion ==
  ASSUME Ordered, Inv, NEW c \in Controller, NEW k, ControllerInv(k, authority, finished),
         k.latest # NoTopology, Consistent(k.latest), k.pc = "finalize",
         k.latest.batch.type = "SCALE_OUT", Derives(k.latest, k.expected),
         k.done \subseteq k.expected, k.done # k.expected,
         CommitScaleOutExhaustion(c, k),
         membership' = membership, tasks' = tasks, finished' = finished,
         changes' = changes, alarms' \in Nat, deployment' = deployment
  PROVE  Inv' /\ StepSound
<1> DEFINE t == k.latest
           J == CollectFailedJoining(k)
           q == Quarantine(k, J)
           plan == BuildScaleOutReplan(t, J)
<1>1. Commit(c, q, plan, q)
  BY ZenonT(40) DEF CommitScaleOutExhaustion
<1>2. ControllerInv(q, authority, finished) /\ q.latest = t
  BY QuarantineInv, ZenonT(40)
<1>3. J \in SUBSET In(t, {"JOINING"}) /\ J # {}
  <2>1. PICK task \in k.expected : task \notin k.done
    BY ZenonT(40)
  <2>2. t.batch # NoBatch /\ t.batch.type # "FAILURE" /\ TopologyType(t)
    <3>1. t.batch # NoBatch /\ t.batch.type # "FAILURE"
      BY ScaleOutIsBatch, ZenonT(40)
    <3>2. TopologyType(t)
      BY BatchStates, ZenonT(40)
    <3> QED BY <3>1, <3>2, ZenonT(40)
  <2>3. task.target \in In(t, {"JOINING"})
    BY <2>1, <2>2, DerivedTasksCover, ZenonT(40)
  <2> QED BY <2>1, <2>3, ZenonT(40) DEF CollectFailedJoining
<1> HIDE DEF J
<1>4. Sound(t, plan)
  BY <1>3, ReplanSound, ZenonT(40)
<1> HIDE DEF q, plan
<1> QED BY <1>1, <1>2, <1>4, CommitInv, ZenonT(40)

LEMMA FinalizeStep ==
  ASSUME Ordered, Inv, NEW c \in Controller, TryFinalizeActiveBatch(c)
  PROVE  Inv' /\ StepSound
<1> DEFINE k == ctl[c]
           pass(next) == authority' = authority /\ alarms' = alarms /\ Goto(c, next, "start")
           swept == RefreshTaskProgressCache(k)
<1>1. /\ k.pc = "finalize" /\ UNCHANGED <<membership, tasks, finished, changes, deployment>>
  BY DEF TryFinalizeActiveBatch
<1>2. /\ ControllerInv(k, authority, finished) /\ k.latest # NoTopology /\ Consistent(k.latest)
      /\ k.latest.version > 0 /\ k.latest.version \in Nat
  <2>1. ControllerInv(k, authority, finished) /\ k.latest # NoTopology /\ Consistent(k.latest)
    BY <1>1, HasRead, ZenonT(40)
  <2>2. k.latest.version \in Nat \ {0}
    BY <2>1, BatchStates, ZenonT(40)
  <2> HIDE DEF k
  <2> QED BY <2>1, <2>2
<1>3. k.derived = k.latest.version /\ Derives(k.latest, k.expected) /\ k.derived > 0
  BY <1>1, <1>2, ZenonT(40) DEF ControllerInv, DerivedInv
<1>4. /\ alarms \in Nat /\ MembershipType(membership)' /\ tasks' \in SUBSET Task
      /\ finished \subseteq tasks' /\ changes' \in Nat
  BY <1>1, ZenonT(40) DEF Inv, StoreInv
<1>5. ASSUME NEW next, ControllerInv(next, authority, finished), next.latest = k.latest, pass(next)
      PROVE  Inv' /\ StepSound
  <2> DEFINE y == [next EXCEPT !.pc = "start"]
  <2>1. ControllerInv(y, authority, finished)
    BY <1>2, <1>5, GotoInv, ZenonT(40)
  <2>2. Step(c, y) /\ authority' = authority /\ alarms' \in Nat
    BY <1>4, <1>5, ZenonT(40) DEF Goto
  <2> HIDE DEF y
  <2> QED BY <1>1, <1>4, <2>1, <2>2, StepInv, ZenonT(40)
<1>6. CASE /\ k.latest.batch = NoBatch
           /\ pass([k EXCEPT !.progress = 0, !.done = {}, !.sweep = {}])
  <2> DEFINE y == WithProgress(k, 0, {}, {})
  <2>1. 0 \in Nat /\ 0 <= k.derived /\ {} \in SUBSET Task
    BY <1>2, <1>3
  <2>2. y = WithProgress(k, 0, {}, {}) /\ pass(y)
    BY <1>6, ZenonT(40) DEF WithProgress
  <2> HIDE DEF y
  <2>3. ControllerInv(y, authority, finished) /\ y.latest = k.latest
    BY <1>2, <2>1, <2>2, ProgressChanges
  <2> HIDE DEF pass
  <2> QED BY <1>5, <2>2, <2>3, ZenonT(40) DEF pass
<1>7. CASE pass(k)
  BY <1>2, <1>5, <1>7, ZenonT(40)
<1>8. ASSUME k.latest.batch # NoBatch, NEW V \in SUBSET swept.sweep, NEW y, y = ReadProgress(swept, V),
             \/ y.done = y.expected /\ alarms' = alarms /\ CommitBatchFinal(c, y)
             \/ y.done # y.expected /\ pass(y)
             \/ /\ y.done # y.expected /\ k.latest.batch.type # "SCALE_IN"
                /\ alarms' = alarms + 1 /\ CommitExpiredBatch(c, y)
      PROVE  Inv' /\ StepSound
  <2>1. /\ ControllerInv(y, authority, finished) /\ y.latest = k.latest
        /\ y.expected = k.expected /\ y.pc = k.pc /\ y.done \subseteq k.expected \cap finished
    BY <1>2, <1>3, <1>8, SweptInv, ZenonT(40)
  <2>2. alarms' \in Nat
    <3>1. alarms' = alarms \/ alarms' = alarms + 1
      BY <1>8, ZenonT(40)
    <3> QED BY <1>4, <3>1
  <2> HIDE DEF k
  <2>3. CASE y.done = y.expected /\ CommitBatchFinal(c, y)
    <3>1. k.expected \subseteq finished
      BY <2>1, <2>3
    <3>2. Sound(y.latest, Final(y.latest))
      BY <1>2, <1>3, <1>8, <2>1, <3>1, FinalSound, ZenonT(40)
    <3> QED BY <1>1, <1>2, <2>1, <2>2, <2>3, <3>2, CommitFinal, ZenonT(40)
  <2>4. CASE pass(y)
    BY <1>5, <2>1, <2>4, ZenonT(40)
  <2>5. CASE /\ y.done # y.expected /\ k.latest.batch.type # "SCALE_IN"
             /\ CommitExpiredBatch(c, y)
    <3>1. k.latest.batch.type \in {"SCALE_OUT", "FAILURE"}
      BY <1>2, <1>8, <2>5, BatchStates, ZenonT(40)
    <3>2. CASE k.latest.batch.type = "SCALE_OUT"
      <4>1. CommitScaleOutExhaustion(c, y)
        BY <2>1, <2>5, <3>2, ZenonT(40) DEF CommitExpiredBatch
      <4>2. /\ y.pc = "finalize" /\ y.latest # NoTopology /\ Consistent(y.latest)
            /\ y.latest.batch.type = "SCALE_OUT" /\ Derives(y.latest, y.expected)
            /\ y.done \subseteq y.expected
        BY <1>1, <1>2, <1>3, <2>1, <3>2, ZenonT(40)
      <4> QED BY <1>1, <2>1, <2>2, <2>5, <4>1, <4>2, CommitExhaustion, ZenonT(40)
    <3>3. CASE k.latest.batch.type = "FAILURE"
      <4>1. CommitBatchFinal(c, y)
        BY <2>1, <2>5, <3>3 DEF CommitExpiredBatch
      <4>2. Sound(y.latest, Final(y.latest))
        BY <1>2, <1>3, <1>8, <2>1, <3>3, FinalSound, ZenonT(40)
      <4> QED BY <1>1, <1>2, <2>1, <2>2, <4>1, <4>2, CommitFinal, ZenonT(40)
    <3> QED BY <3>1, <3>2, <3>3
  <2> QED BY <1>8, <2>3, <2>4, <2>5, ZenonT(40)
<1>9. \/ /\ k.latest.batch = NoBatch
         /\ pass([k EXCEPT !.progress = 0, !.done = {}, !.sweep = {}])
      \/ pass(k)
      \/ /\ k.latest.batch # NoBatch
         /\ \E V \in SUBSET swept.sweep :
              LET y == ReadProgress(swept, V)
              IN  \/ y.done = y.expected /\ alarms' = alarms /\ CommitBatchFinal(c, y)
                  \/ y.done # y.expected /\ pass(y)
                  \/ /\ y.done # y.expected /\ k.latest.batch.type # "SCALE_IN"
                     /\ alarms' = alarms + 1 /\ CommitExpiredBatch(c, y)
  BY ZenonT(40) DEF TryFinalizeActiveBatch
<1> HIDE DEF k, swept, pass
<1> QED BY <1>6, <1>7, <1>8, <1>9
-----------------------------------------------------------------------------
(* The start of a batch. *)

LEMMA CandidatesAre ==
  ASSUME NEW k
  PROVE  /\ Joining(k) \subseteq Ready(k) /\ Ready(k) \subseteq DOMAIN k.seen
         /\ \A a \in Joining(k) :
              a \in In(k.latest, {"INITIAL"}) \/ (Direct(k.latest) /\ a \notin DOMAIN k.latest.members)
         /\ Leaving(k) \subseteq In(k.latest, {"PRE_LEAVING", "ACTIVE"})
         /\ ~ Direct(k.latest) => Leaving(k) \subseteq In(k.latest, {"PRE_LEAVING"})
<1>1. \A S, n : First(S, n) \subseteq S
  BY DEF First
<1>2. Ready(k) \subseteq DOMAIN k.seen
  BY DEF Ready, Lifecycle
<1>3. ASSUME NEW a \in Joining(k)
      PROVE  /\ a \in Ready(k)
             /\ a \in In(k.latest, {"INITIAL"}) \/ (Direct(k.latest) /\ a \notin DOMAIN k.latest.members)
  <2> DEFINE initial == In(k.latest, {"INITIAL"}) \cap Ready(k)
             room == MaxMembers - Cardinality(initial)
             unknown == Ready(k) \ DOMAIN k.latest.members
             more == IF Direct(k.latest) THEN First(unknown, room) ELSE {}
  <2>1. Joining(k) = First(initial \cup more, MaxMembers)
    BY DEF Joining
  <2> HIDE DEF room
  <2>2. a \in initial \cup more
    BY <1>1, <1>3, <2>1, ZenonT(40)
  <2>3. more \subseteq unknown /\ (more # {} => Direct(k.latest))
    BY <1>1, ZenonT(40)
  <2> HIDE DEF more
  <2> QED BY <2>2, <2>3, ZenonT(40)
<1>4. /\ Leaving(k) \subseteq In(k.latest, {"PRE_LEAVING", "ACTIVE"})
      /\ ~ Direct(k.latest) => Leaving(k) \subseteq In(k.latest, {"PRE_LEAVING"})
  <2> DEFINE direct == IF Direct(k.latest)
                       THEN In(k.latest, {"ACTIVE"}) \cap Lifecycle(k.seen, {"EXITING"}) ELSE {}
  <2>1. Leaving(k) = First(In(k.latest, {"PRE_LEAVING"}) \cup direct, MaxMembers)
    BY DEF Leaving
  <2>2. Leaving(k) \subseteq In(k.latest, {"PRE_LEAVING"}) \cup direct
    BY <1>1, <2>1
  <2>3. direct \subseteq In(k.latest, {"ACTIVE"}) /\ (~ Direct(k.latest) => direct = {})
    OBVIOUS
  <2> HIDE DEF direct
  <2> QED BY <2>2, <2>3, ZenonT(40) DEF In
<1> QED BY <1>2, <1>3, <1>4

\* PrepareBatchStartState of a scale-out: the candidates are INITIAL members.
LEMMA JoiningFrom ==
  ASSUME NEW t, Consistent(t), t.batch = NoBatch, NEW seen, MembershipType(seen),
         NEW A, A \subseteq DOMAIN seen,
         \A a \in A : a \in In(t, {"INITIAL"}) \/ a \notin DOMAIN t.members,
         NEW x, x = [t EXCEPT !.members = Admit(@, seen, A)]
  PROVE  StartsFrom(t, x) /\ A \subseteq In(x, {"INITIAL"})
<1> DEFINE m == Admit(t.members, seen, A)
           M == t.members
<1>1. MembersType(M) /\ TopologyType(t) /\ In(t, {"JOINING", "LEAVING", "FAILED"}) = {}
  BY BatchStates
<1>2. MembersType(m) /\ DOMAIN m = DOMAIN M \cup A
  BY <1>1, AdmitIs
<1>3. /\ \A a \in DOMAIN M : m[a] = M[a]
      /\ \A a \in A \ DOMAIN M : m[a].state = "INITIAL"
  BY AdmitStates
<1>4. x = [t EXCEPT !.members = m]
  BY <1>1 DEF TopologyType
<1> HIDE DEF m
<1>5. /\ TopologyType(x) /\ x.version = t.version /\ x.members = m /\ x.batch = t.batch
  BY <1>1, <1>2, <1>4 DEF TopologyType, MembersType
<1>6. x.hasInit = t.hasInit
  BY <1>1, <1>2, <1>4, WithMembersIs
<1>7. ASSUME NEW S, "INITIAL" \notin S PROVE In(x, S) = In(t, S)
  <2>1. \A a \in A \ DOMAIN M : m[a].state \notin S
    BY <1>3, <1>7
  <2> QED BY <1>2, <1>3, <1>5, <2>1 DEF In
<1>8. /\ In(x, Committed) = In(t, Committed)
      /\ In(x, {"JOINING", "LEAVING", "FAILED"}) = In(t, {"JOINING", "LEAVING", "FAILED"})
  BY <1>7 DEF Committed
<1>9. A \subseteq In(x, {"INITIAL"})
  <2>1. ASSUME NEW a \in A PROVE a \in DOMAIN m /\ m[a].state = "INITIAL"
    <3>1. CASE a \in In(t, {"INITIAL"})
      BY <1>2, <1>3, <3>1 DEF In
    <3>2. CASE a \notin DOMAIN M
      BY <1>2, <1>3, <3>2
    <3> QED BY <3>1, <3>2
  <2> QED BY <1>5, <2>1 DEF In
<1> QED BY <1>1, <1>5, <1>6, <1>8, <1>9, ZenonT(40) DEF StartsFrom

\* And of a scale-in: they are PRE_LEAVING.
LEMMA LeavingFrom ==
  ASSUME NEW t, Consistent(t), t.batch = NoBatch,
         NEW A, A \subseteq In(t, {"PRE_LEAVING", "ACTIVE"}),
         NEW x, x = [t EXCEPT !.members = WithState(@, A, "PRE_LEAVING")]
  PROVE  StartsFrom(t, x) /\ A \subseteq In(x, {"PRE_LEAVING"})
<1> DEFINE m == WithState(t.members, A, "PRE_LEAVING")
           M == t.members
<1>1. /\ MembersType(M) /\ TopologyType(t) /\ In(t, {"JOINING", "LEAVING", "FAILED"}) = {}
      /\ "PRE_LEAVING" \in MemberState
  BY BatchStates DEF MemberState
<1>2. /\ MembersType(m) /\ DOMAIN m = DOMAIN M
      /\ \A a \in DOMAIN M : m[a].state = IF a \in A THEN "PRE_LEAVING" ELSE M[a].state
  BY <1>1, WithStateIs
<1>3. x = [t EXCEPT !.members = m]
  BY <1>1 DEF TopologyType
<1> HIDE DEF m
<1>4. /\ TopologyType(x) /\ x.version = t.version /\ x.members = m /\ x.batch = t.batch
  BY <1>1, <1>2, <1>3 DEF TopologyType, MembersType
<1>5. x.hasInit = t.hasInit
  BY <1>1, <1>2, <1>3, WithMembersIs
<1>6. \A a \in A : a \in DOMAIN M /\ M[a].state \in {"PRE_LEAVING", "ACTIVE"}
  BY DEF In
<1>7. In(x, Committed) = In(t, Committed) /\ In(x, {"JOINING", "LEAVING", "FAILED"}) = {}
  <2>1. \A a \in DOMAIN M : m[a].state \in Committed <=> M[a].state \in Committed
    BY <1>2, <1>6 DEF Committed
  <2>2. \A a \in DOMAIN M : m[a].state \notin {"JOINING", "LEAVING", "FAILED"}
    BY <1>1, <1>2 DEF In
  <2> QED BY <1>2, <1>4, <2>1, <2>2 DEF In
<1>8. A \subseteq In(x, {"PRE_LEAVING"})
  BY <1>2, <1>4, <1>6, ZenonT(40) DEF In
<1> QED BY <1>4, <1>5, <1>7, <1>8 DEF StartsFrom
LEMMA StartStep ==
  ASSUME Inv, NEW c \in Controller, TryStartNextBatch(c)
  PROVE  Inv' /\ StepSound
<1> DEFINE k == ctl[c]
           t == k.latest
<1>1. k.pc = "start" /\ UNCHANGED <<membership, tasks, finished, changes, alarms, deployment>>
  BY DEF TryStartNextBatch
<1>2. /\ ControllerInv(k, authority, finished) /\ ControllerType(k) /\ Consistent(t)
      /\ t # NoTopology /\ MembershipType(k.seen) /\ AuthorityInv(authority)
  BY <1>1, HasRead, ZenonT(40) DEF Inv, StoreInv
<1>3. CASE authority' = authority /\ Step(c, Idle(k, "K_OK"))
  <2>1. ControllerInv(Idle([k EXCEPT !.latest = k.latest], "K_OK"), authority, finished)
    BY <1>2, IdleInv
  <2>2. k = [k EXCEPT !.latest = k.latest]
    BY <1>2 DEF ControllerType
  <2>3. ControllerInv(Idle(k, "K_OK"), authority, finished)
    BY <2>1, <2>2
  <2> HIDE DEF Idle
  <2> QED BY <1>1, <1>3, <2>3, StepInv, ZenonT(40) DEF Inv, StoreInv
<1>4. CASE t.batch = NoBatch /\ Joining(k) # {} /\ CommitBatchStart(c, k, Joining(k), "SCALE_OUT")
  <2> DEFINE A == Joining(k)
             x == IF ~ Direct(t) THEN t ELSE [t EXCEPT !.members = Admit(@, k.seen, A)]
             plan == IF In(t, Committed) = {} THEN BuildBootstrap(x, A) ELSE BuildScaleOutStart(x, A)
  <2>1. Commit(c, k, plan, k)
    BY <1>4 DEF CommitBatchStart
  <2>2. StartsFrom(t, x) /\ A \subseteq In(x, {"INITIAL"})
    <3>1. CASE ~ Direct(t)
      <4>1. A \subseteq In(t, {"INITIAL"})
        BY <3>1, CandidatesAre
      <4>2. StartsFrom(t, t)
        BY <1>2, <1>4, BatchStates, ZenonT(40) DEF StartsFrom
      <4> QED BY <3>1, <4>1, <4>2, ZenonT(40)
    <3>2. CASE Direct(t)
      <4>1. A \subseteq DOMAIN k.seen
        BY CandidatesAre, ZenonT(40)
      <4>2. \A a \in A : a \in In(t, {"INITIAL"}) \/ a \notin DOMAIN t.members
        BY CandidatesAre
      <4>3. x = [t EXCEPT !.members = Admit(@, k.seen, A)]
        BY <3>2
      <4> HIDE DEF x, A, t
      <4> QED BY <1>2, <1>4, <4>1, <4>2, <4>3, JoiningFrom
    <3> QED BY <3>1, <3>2
  <2>3. Sound(t, plan)
    <3> HIDE DEF x, A, t
    <3>1. CASE In(t, Committed) = {}
      <4>1. /\ TopologyType(x) /\ x.version = t.version /\ x.batch = NoBatch
            /\ In(x, Committed) = {} /\ In(x, {"JOINING", "LEAVING", "FAILED"}) = {}
        BY <2>2, <3>1 DEF StartsFrom
      <4>2. A # {} /\ A \cap In(t, Committed) = {}
        BY <1>4, <3>1 DEF A
      <4>3. Sound(t, BuildBootstrap(x, A))
        BY <1>2, <2>2, <4>1, <4>2, BootstrapSound
      <4> QED BY <3>1, <4>3
    <3>2. CASE In(t, Committed) # {}
      <4>1. Sound(t, BuildScaleOutStart(x, A))
        BY <1>2, <1>4, <2>2, <3>2, ScaleOutStartSound, ZenonT(40) DEF A
      <4> QED BY <3>2, <4>1
    <3> QED BY <3>1, <3>2
  <2> HIDE DEF plan
  <2> QED BY <1>1, <2>1, <2>3, PlanStep, ZenonT(40)
<1>5. CASE t.batch = NoBatch /\ Leaving(k) # {} /\ CommitBatchStart(c, k, Leaving(k), "SCALE_IN")
  <2> DEFINE A == Leaving(k)
             x == IF ~ Direct(t) THEN t ELSE [t EXCEPT !.members = WithState(@, A, "PRE_LEAVING")]
             plan == BuildScaleInStart(x, A)
  <2>1. Commit(c, k, plan, k)
    BY <1>5 DEF CommitBatchStart
  <2>2. StartsFrom(t, x) /\ A \subseteq In(x, {"PRE_LEAVING"})
    <3>1. CASE ~ Direct(t)
      <4>1. A \subseteq In(t, {"PRE_LEAVING"})
        BY <3>1, CandidatesAre
      <4>2. StartsFrom(t, t)
        BY <1>2, <1>5, BatchStates, ZenonT(40) DEF StartsFrom
      <4> QED BY <3>1, <4>1, <4>2, ZenonT(40)
    <3>2. CASE Direct(t)
      <4>1. A \subseteq In(t, {"PRE_LEAVING", "ACTIVE"})
        BY CandidatesAre
      <4>2. x = [t EXCEPT !.members = WithState(@, A, "PRE_LEAVING")]
        BY <3>2
      <4> HIDE DEF x, A, t
      <4> QED BY <1>2, <1>5, <4>1, <4>2, LeavingFrom
    <3> QED BY <3>1, <3>2
  <2>3. In(t, Committed) # {}
    <3>1. A \subseteq In(t, {"PRE_LEAVING", "ACTIVE"}) /\ A # {}
      BY <1>5, CandidatesAre, ZenonT(40)
    <3> HIDE DEF A, t
    <3> QED BY <3>1, ZenonT(40) DEF In, Committed
  <2>4. Sound(t, plan)
    <3> HIDE DEF x, t
    <3> QED BY <1>2, <1>5, <2>2, <2>3, ScaleInStartSound
  <2> HIDE DEF plan
  <2> QED BY <1>1, <2>1, <2>4, PlanStep, ZenonT(40)
<1>6. \/ authority' = authority /\ Step(c, Idle(k, "K_OK"))
      \/ t.batch = NoBatch /\ Joining(k) # {} /\ CommitBatchStart(c, k, Joining(k), "SCALE_OUT")
      \/ t.batch = NoBatch /\ Leaving(k) # {} /\ CommitBatchStart(c, k, Leaving(k), "SCALE_IN")
  <2> HIDE DEF Idle
  <2> QED BY DEF TryStartNextBatch
<1> HIDE DEF k, t, Idle
<1> QED BY <1>3, <1>4, <1>5, <1>6

LEMMA TickInv ==
  ASSUME Ordered, Inv, NEW c \in Controller, Tick(c)
  PROVE  Inv' /\ StepSound
BY EnsureStep, DeliverEtcdStep, TickStep, ReadTopologyStep, ReadMembershipsStep, RestoreStep,
   ShutdownStep, PreserveStep, AbsenceStep, ReplacementStep, ConfirmStep, HoldStep, FailuresStep,
   CleanupStep, FactsStep, DeriveStep, FinalizeStep, StartStep, ZenonT(40)
   DEF Tick

-----------------------------------------------------------------------------
(* The executors and the members. *)

LEMMA ExecuteStep ==
  ASSUME Inv, NEW task \in tasks, Execute(task)
  PROVE  Inv' /\ StepSound
<1>1. /\ finished' = finished \cup {task}
      /\ UNCHANGED <<authority, membership, tasks, ctl, changes, alarms, deployment>>
  BY ZenonT(40) DEF Execute
<1>2. Controller' = Controller /\ StoreInv'
  BY <1>1 DEF Inv, StoreInv, Controller
<1>3. ASSUME NEW d \in Controller PROVE ControllerInv(ctl[d], authority, finished')
  <2>1. ControllerInv(ctl[d], authority, finished) /\ AuthorityInv(authority)
    BY DEF Inv, StoreInv
  <2>2. finished \subseteq finished'
    BY <1>1
  <2> QED BY <2>1, <2>2, OthersKept
<1> QED BY <1>1, <1>2, <1>3, ZenonT(40) DEF Inv, StepSound

LEMMA EnvironmentStep ==
  ASSUME Inv, Environment
  PROVE  Inv' /\ StepSound
<1>1. /\ UNCHANGED <<authority, tasks, finished, ctl, alarms, deployment>>
      /\ changes' = changes + 1
  BY ZenonT(40) DEF Environment, Register, Publish, Depart, Change
<1>2. MembershipType(membership) /\ changes \in Nat /\ Deployment(deployment)
  BY ControllerAssumption DEF Inv, StoreInv
<1>3. MembershipType(membership')
  <2>1. ASSUME NEW a \in Address, NEW lifecycle \in deployment.fresh, Register(a, lifecycle)
        PROVE  MembershipType(membership')
    <3> DEFINE r == [lifecycle |-> lifecycle, ts |-> changes + 2]
               m == [b \in DOMAIN membership \cup {a} |-> IF b = a THEN r ELSE membership[b]]
    <3>1. membership' = m
      BY <2>1, ZenonT(40) DEF Register
    <3>2. r \in Record
      BY <1>2 DEF Deployment, Record
    <3> HIDE DEF r
    <3> QED BY <1>2, <3>1, <3>2, ZenonT(40) DEF MembershipType
  <2>2. ASSUME NEW a, NEW from, NEW to \in {"READY", "EXITING"}, Publish(a, from, to)
        PROVE  MembershipType(membership')
    BY <1>2, <2>2 DEF Publish, Lifecycle, MembershipType, Record
  <2>3. ASSUME NEW a, Depart(a) PROVE MembershipType(membership')
    BY <1>2, <2>3, ZenonT(40) DEF Depart, Without, MembershipType
  <2> QED BY <2>1, <2>2, <2>3 DEF Environment
<1>4. Controller' = Controller /\ StoreInv'
  <2>1. Controller' = Controller
    BY <1>1, ZenonT(40) DEF Controller
  <2>2. changes' \in Nat
    BY <1>1, <1>2
  <2>3. AuthorityInv(authority)' /\ DOMAIN ctl' = Controller'
    BY <1>1, <2>1, ZenonT(40) DEF Inv, StoreInv, AuthorityInv
  <2> QED BY <1>1, <1>3, <2>1, <2>2, <2>3, ZenonT(40) DEF Inv, StoreInv
<1> QED BY <1>1, <1>4 DEF Inv, StepSound
-----------------------------------------------------------------------------
(* Every step. *)

LEMMA InitInv == Init => Inv
<1> SUFFICES ASSUME Init PROVE Inv
  OBVIOUS
<1>1. Deployment(deployment) /\ deployment \in Deployments
  BY ControllerAssumption DEF Init
<1>2. AuthorityInv(authority) /\ MembershipType(membership)
  BY <1>1 DEF Init, Deployment, AuthorityInv
<1>3. StoreInv
  BY <1>1, <1>2 DEF Init, StoreInv
<1>4. ControllerInv(ControllerInit, authority, finished)
  <2> DEFINE k == ControllerInit
  <2>1. /\ k.pc = "idle" /\ k.latest = NoTopology /\ k.seen = None /\ k.confirmed = {}
        /\ k.derived = 0 /\ k.progress = 0 /\ k.err = "K_OK"
    BY ZenonT(40) DEF ControllerInit
  <2>2. ControllerType(k)
    BY <2>1, NothingIs, ZenonT(40) DEF ControllerInit, ControllerType
  <2> HIDE DEF k
  <2>3. /\ authority.version \in Nat /\ NoTopology.version = 0
        /\ (authority.version = 0 => authority = NoTopology)
    BY <1>2, AuthorityVersion, NothingIs, ZenonT(40)
  <2>4. CacheInv(k, authority) /\ FactsInv(k)
    BY <2>1, <2>3 DEF CacheInv, FactsInv
  <2>5. DerivedInv(k, authority) /\ ProgressInv(k, finished)
    BY <2>1, <2>3 DEF DerivedInv, ProgressInv
  <2>6. ControllerInv(k, authority, finished)
    BY <2>1, <2>2, <2>4, <2>5 DEF ControllerInv
  <2> QED BY <2>6, ZenonT(40) DEF k
<1> HIDE DEF ControllerInit
<1> QED BY <1>3, <1>4 DEF Init, Inv

LEMMA NextInv ==
  ASSUME Ordered, Inv, [Next]_vars
  PROVE  Inv' /\ StepSound
<1>1. ASSUME NEW c \in Controller, Tick(c) PROVE Inv' /\ StepSound
  BY <1>1, TickInv
<1>2. ASSUME NEW task \in tasks, Execute(task) PROVE Inv' /\ StepSound
  BY <1>2, ExecuteStep
<1>3. CASE Environment
  BY <1>3, EnvironmentStep
<1>4. CASE UNCHANGED vars
  <2>1. Controller' = Controller /\ StoreInv'
    BY <1>4 DEF vars, Inv, StoreInv, Controller
  <2> QED BY <1>4, <2>1, ZenonT(40) DEF vars, Inv, StepSound
<1> QED BY <1>1, <1>2, <1>3, <1>4, ZenonT(40) DEF Next
-----------------------------------------------------------------------------
(* The theorems. *)

LEMMA TypesFollow ==
  ASSUME Inv PROVE ControllerTypeOK
<1>1. TopologyType(authority)
  BY AuthorityVersion, ZenonT(40) DEF Inv, StoreInv
<1>2. \A c \in Controller : ControllerType(ctl[c])
  BY ZenonT(40) DEF Inv, ControllerInv
<1> QED BY <1>1, <1>2, ZenonT(40) DEF Inv, StoreInv, ControllerTypeOK

LEMMA PlansFollow ==
  ASSUME Inv PROVE PlansAreValid
<1>1. authority.version > 0 => ValidTopology(authority)
  BY NothingIs, AuthorityVersion DEF Inv, StoreInv, Consistent
<1>2. \A c \in Controller : ctl[c].err # "K_INVALID"
  BY DEF Inv, ControllerInv
<1> QED BY <1>1, <1>2, ZenonT(40) DEF PlansAreValid

\* The library's facts are needed from here on.
INSTANCE FiniteSetTheorems
INSTANCE WellFoundedInduction

LEMMA OrderedHolds == Ordered
<1>1. ASSUME NEW S \in (SUBSET Nat) \ {{}} PROVE \E t \in S : IsLeast(t, S)
  <2>1. PICK x \in S : \A y \in S : ~ (<<y, x>> \in OpToRel(<, Nat))
    BY NatLessThanWellFounded, WFMin, ZenonT(40)
  <2>2. \A y \in S : ~ (y < x)
    BY <2>1, ZenonT(40) DEF OpToRel
  <2> QED BY <2>2 DEF IsLeast
<1> QED BY <1>1, FS_EmptySet, ZenonT(40) DEF Ordered

LEMMA Invariance == Spec => []Inv
<1>1. Inv /\ [Next]_vars => Inv'
  BY OrderedHolds, NextInv, ZenonT(40)
<1> QED BY <1>1, InitInv, PTL DEF Spec

\* Whatever the controllers read and commit, the store and their caches keep their types:
\* every topology is a record of known members, every task is one between two addresses,
\* and what is finished was once written.
THEOREM ControllerTypes == Spec => []ControllerTypeOK
<1>1. Inv => ControllerTypeOK
  BY TypesFollow, ZenonT(40)
<1> QED BY <1>1, Invariance, PTL

\* No interleaving of the controllers makes one of them build a plan that TopologyPlanBuilder
\* refuses or that ValidateAndCanonicalizeTopologyState rejects, so the control loop never
\* freezes on its own plan.
THEOREM PlansAccepted == Spec => []PlansAreValid
<1>1. Inv => PlansAreValid
  BY PlansFollow, ZenonT(40)
<1> QED BY <1>1, Invariance, PTL

\* Commits of cooperating controllers never change the participants of a batch without
\* giving it a new epoch: the fence of the executors, which compares epochs, is enough.
THEOREM EpochsKeepParticipants == Spec => EpochsFixParticipants
<1>1. Inv /\ [Next]_vars
        => [(authority'.batch = authority.batch /\ authority.batch # NoBatch)
              => Participants(authority') = Participants(authority)]_vars
  BY OrderedHolds, NextInv DEF StepSound, KeepsEpoch
<1> QED BY <1>1, Invariance, PTL DEF Spec, EpochsFixParticipants

\* A token leaves an owner that has not failed only when a task of the committed epoch has
\* moved it to the new owner, however many controllers finish, replan and preempt batches.
THEOREM HandoverIsLossless == Spec => Lossless
<1> DEFINE A == authority' # authority /\ In(authority, Committed) \cap In(authority', Committed) # {}
                  => \A h \in Token :
                       LET from == FindOwner(OwnerRing(Owners(authority)), h)
                           to   == FindOwner(OwnerRing(Owners(authority')), h)
                       IN  (from # to /\ from \notin In(authority, {"FAILED"}))
                             => \E task \in finished :
                                  /\ task.epoch = authority.batch.epoch
                                  /\ task.source = from /\ task.target = to /\ h \in task.tokens
<1>1. Inv /\ [Next]_vars => [A]_vars
  BY OrderedHolds, NextInv, ZenonT(40) DEF StepSound, HandsOver
<1> QED BY <1>1, Invariance, PTL DEF Spec, Lossless
=============================================================================
