---------------------------- MODULE TopologyProofs ----------------------------
(***************************************************************************)
(* Proofs about TopologyController, for every set of addresses, placement, *)
(* batch size and deployment: any number of controllers, in both modes.    *)
(* What they need to know of numbers is the hypothesis Ordered, which the  *)
(* module TopologyTheorems discharges.                                     *)
(***************************************************************************)
EXTENDS TopologyController, TLAPS

\* A leaf is tried with SMT, then with Zenon, then with SMT for longer.
USE SMTT(30), ZenonT(40), SMTT(60)

\* What RebuildExpected makes of t, when it makes something.
Derives(t, expected) == RebuildExpected(t).rc = "K_OK" /\ expected = RebuildExpected(t).tasks

\* A controller has read some version of the authority, and never two of the same number.
CacheInv(k, auth) ==
  /\ k.latest = NoTopology \/ Consistent(k.latest)
  /\ k.latest.version <= auth.version
  /\ k.latest.version = auth.version => k.latest = auth
  /\ k.pc # "idle" => k.latest # NoTopology

\* Who is failed over owns something; who is replaced is away, and somebody is ready.
FactsInv(k) ==
  /\ k.confirmed \subseteq In(k.latest, Committed)
  /\ k.pc = "idle" => k.confirmed = {}
  /\ k.pc = "replace" => /\ In(k.latest, Committed) \cap DOMAIN k.seen = {}
                         /\ ReplacementReady(k, k.seen) # {}

\* The derived generation is that of the version it is labelled with.
DerivedInv(k, auth) ==
  /\ k.derived <= auth.version
  /\ k.latest # NoTopology => k.derived <= k.latest.version
  /\ (k.derived > 0 /\ k.derived = auth.version) => Derives(auth, k.expected)
  /\ (k.derived > 0 /\ k.derived = k.latest.version) => Derives(k.latest, k.expected)
  /\ k.pc = "finalize" => k.derived = k.latest.version

\* What was read of the progress is progress of that generation.
ProgressInv(k, fin) ==
  /\ k.progress <= k.derived
  /\ (k.progress > 0 /\ k.progress = k.derived) =>
       k.done \subseteq k.expected \cap fin /\ k.sweep \subseteq k.expected

ControllerInv(k, auth, fin) ==
  /\ ControllerType(k) /\ k.err # "K_INVALID"
  /\ CacheInv(k, auth) /\ FactsInv(k) /\ DerivedInv(k, auth) /\ ProgressInv(k, fin)

AuthorityInv(auth) == auth = NoTopology \/ Consistent(auth)

StoreInv ==
  /\ AuthorityInv(authority) /\ MembershipType(membership)
  /\ tasks \in SUBSET Task /\ finished \in SUBSET tasks
  /\ DOMAIN ctl = Controller
  /\ changes \in Nat /\ alarms \in Nat
  /\ deployment \in Deployments

Inv == StoreInv /\ \A c \in Controller : ControllerInv(ctl[c], authority, finished)

-----------------------------------------------------------------------------
(* Rings of owners. *)

\* A set of numbers has a least one, and the empty set no element.
Ordered ==
  /\ \A S \in (SUBSET Nat) \ {{}} : \E t \in S : IsLeast(t, S)
  /\ Cardinality({}) = 0

\* The ring of A has the tokens of A, each with the owner it was placed for.
LEMMA OwnerRingTokens ==
  ASSUME NEW A \in SUBSET Address
  PROVE  /\ \A h : h \in DOMAIN OwnerRing(A) <=> \E a \in A : h \in TokensOf[a]
         /\ DOMAIN OwnerRing(A) \subseteq Token
         /\ \A a \in A : \A h \in TokensOf[a] : OwnerRing(A)[h] = a
<1>1. DOMAIN OwnerRing(A) = UNION {TokensOf[a] : a \in A}
  BY DEF OwnerRing
<1>2. DOMAIN OwnerRing(A) \subseteq Token
  BY <1>1, TokensAssumption
<1>3. ASSUME NEW a \in A, NEW h \in TokensOf[a] PROVE OwnerRing(A)[h] = a
  <2>1. \A b \in A : h \in TokensOf[b] <=> b = a
    BY TokensAssumption
  <2>2. (CHOOSE b \in A : h \in TokensOf[b]) = a
    BY <2>1
  <2> QED BY <2>2 DEF OwnerRing
<1>4. \A h : h \in DOMAIN OwnerRing(A) <=> \E a \in A : h \in TokensOf[a]
  BY <1>1
<1> QED BY <1>2, <1>3, <1>4

\* Where a search ends: at the first token from h on, or else at the first of all.
Ends(A, h, t) ==
  /\ t \in DOMAIN OwnerRing(A)
  /\ t >= h => \A u \in DOMAIN OwnerRing(A) : u >= h => t <= u
  /\ ~ (t >= h) => \A u \in DOMAIN OwnerRing(A) : ~ (u >= h) /\ t <= u

LEMMA SearchEnds ==
  ASSUME Ordered, NEW A \in SUBSET Address, A # {}, NEW h \in Token
  PROVE  /\ \E t : Ends(A, h, t)
         /\ \A t : Ends(A, h, t) => FindOwner(OwnerRing(A), h) = OwnerRing(A)[t]
<1> DEFINE R == OwnerRing(A)
           found == IF AtOrAfter(R, h) = {} THEN DOMAIN R ELSE AtOrAfter(R, h)
           least == CHOOSE t \in found : IsLeast(t, found)
<1>1. DOMAIN R \subseteq Token /\ DOMAIN R # {}
  <2>1. PICK a \in A : TRUE
    OBVIOUS
  <2>2. \E t : t \in TokensOf[a]
    BY TokensAssumption
  <2> QED BY <2>2, OwnerRingTokens
<1>2. DOMAIN R \subseteq Nat /\ h \in Nat
  BY <1>1, MaxTokenAssumption DEF Token
<1>3. found \subseteq DOMAIN R /\ found # {}
  BY <1>1 DEF AtOrAfter
<1>4. least \in found /\ IsLeast(least, found)
  <2> HIDE DEF found, R
  <2>1. found \in SUBSET Nat
    BY <1>2, <1>3
  <2> QED BY <1>3, <2>1 DEF Ordered
<1>5. FindOwner(R, h) = R[least]
  BY DEF FindOwner
<1>6. Ends(A, h, least)
  <2>1. least \in DOMAIN R
    BY <1>3, <1>4
  <2>2. CASE AtOrAfter(R, h) = {}
    <3>1. \A u \in DOMAIN R : ~ (u >= h) /\ least <= u
      BY <1>4, <2>2 DEF IsLeast, AtOrAfter
    <3> HIDE DEF least, R
    <3> QED BY <2>1, <3>1 DEF Ends, R
  <2>3. CASE AtOrAfter(R, h) # {}
    <3>1. least >= h /\ \A u \in DOMAIN R : u >= h => least <= u
      BY <1>4, <2>3 DEF IsLeast, AtOrAfter
    <3> HIDE DEF least, R
    <3> QED BY <2>1, <3>1 DEF Ends, R
  <2> QED BY <2>2, <2>3
<1>7. ASSUME NEW t, Ends(A, h, t)
      PROVE  FindOwner(R, h) = R[t]
  <2>1. least = t
    <3>1. R = OwnerRing(A)
      OBVIOUS
    <3> HIDE DEF least, R
    <3> QED BY <1>2, <1>6, <1>7, <3>1 DEF Ends
  <2> QED BY <1>5, <2>1, ZenonT(40)
<1> HIDE DEF least
<1> QED BY <1>6, <1>7

LEMMA OwnerIsMember ==
  ASSUME Ordered, NEW A \in SUBSET Address, A # {}, NEW h \in Token
  PROVE  FindOwner(OwnerRing(A), h) \in A
<1>1. PICK t : Ends(A, h, t) /\ FindOwner(OwnerRing(A), h) = OwnerRing(A)[t]
  BY SearchEnds
<1>2. t \in DOMAIN OwnerRing(A)
  BY <1>1 DEF Ends
<1>3. PICK a \in A : t \in TokensOf[a]
  BY <1>2, OwnerRingTokens
<1> QED BY <1>1, <1>3, OwnerRingTokens

\* An owner that stays keeps its tokens whoever else leaves; equally, a token
\* that changes hands when members are added goes to one of them.
LEMMA OwnerStays ==
  ASSUME Ordered, NEW A \in SUBSET Address, NEW B \in SUBSET A, NEW h \in Token,
         FindOwner(OwnerRing(A), h) \in B
  PROVE  FindOwner(OwnerRing(B), h) = FindOwner(OwnerRing(A), h)
<1>0. A # {} /\ B # {} /\ B \in SUBSET Address
  OBVIOUS
<1>1. PICK t : Ends(A, h, t) /\ FindOwner(OwnerRing(A), h) = OwnerRing(A)[t]
  BY <1>0, SearchEnds
<1>2. t \in DOMAIN OwnerRing(A)
  BY <1>1 DEF Ends
<1>3. PICK a \in A : t \in TokensOf[a]
  BY <1>2, OwnerRingTokens
<1>4. FindOwner(OwnerRing(A), h) = a /\ a \in B
  BY <1>1, <1>3, OwnerRingTokens
<1>5. DOMAIN OwnerRing(B) \subseteq DOMAIN OwnerRing(A)
  <2>1. \A u \in DOMAIN OwnerRing(B) : \E b \in B : u \in TokensOf[b]
    BY <1>0, OwnerRingTokens
  <2> QED BY <2>1, OwnerRingTokens
<1>6. t \in DOMAIN OwnerRing(B) /\ OwnerRing(B)[t] = a
  BY <1>0, <1>3, <1>4, OwnerRingTokens
<1>7. Ends(B, h, t)
  BY <1>1, <1>5, <1>6 DEF Ends
<1>8. FindOwner(OwnerRing(B), h) = OwnerRing(B)[t]
  BY <1>0, <1>7, SearchEnds
<1> QED BY <1>4, <1>6, <1>8
-----------------------------------------------------------------------------
(* The tasks of a batch. *)

\* The changes are the moves of tokens, one for every pair.
LEMMA ChangesAreMoves ==
  ASSUME NEW A \in SUBSET Address, NEW B \in SUBSET Address
  PROVE  /\ \A c \in OwnerChanges(A, B) :
              /\ c.source \in A /\ c.target \in B /\ c.source # c.target
              /\ c.tokens \in SUBSET Token
              /\ \E h \in Token : /\ FindOwner(OwnerRing(A), h) = c.source
                                  /\ FindOwner(OwnerRing(B), h) = c.target
         /\ \A h \in Token :
              LET s == FindOwner(OwnerRing(A), h)
                  d == FindOwner(OwnerRing(B), h)
              IN  s \in A /\ d \in B /\ s # d =>
                    \E c \in OwnerChanges(A, B) : c.source = s /\ c.target = d /\ h \in c.tokens
<1> DEFINE from(h) == FindOwner(OwnerRing(A), h)
           to(h) == FindOwner(OwnerRing(B), h)
           moved(s, d) == {h \in Token : from(h) = s /\ to(h) = d}
           pairs == {d \in [source : A, target : B] :
                       d.source # d.target /\ moved(d.source, d.target) # {}}
           change(c) == [source |-> c.source, target |-> c.target,
                         tokens |-> moved(c.source, c.target)]
<1>1. OwnerChanges(A, B) = {change(c) : c \in pairs}
  BY DEF OwnerChanges
<1> HIDE DEF from, to
<1>2. ASSUME NEW c \in OwnerChanges(A, B)
      PROVE  /\ c.source \in A /\ c.target \in B /\ c.source # c.target
             /\ c.tokens \in SUBSET Token
             /\ \E h \in Token : from(h) = c.source /\ to(h) = c.target
  <2>1. PICK d \in pairs : c = change(d)
    BY <1>1
  <2>2. c.source = d.source /\ c.target = d.target /\ c.tokens = moved(d.source, d.target)
    BY <2>1
  <2>3. d.source \in A /\ d.target \in B /\ d.source # d.target /\ moved(d.source, d.target) # {}
    OBVIOUS
  <2> QED BY <2>2, <2>3
<1>3. ASSUME NEW h \in Token, from(h) \in A, to(h) \in B, from(h) # to(h)
      PROVE  \E c \in OwnerChanges(A, B) :
               c.source = from(h) /\ c.target = to(h) /\ h \in c.tokens
  <2> DEFINE d == [source |-> from(h), target |-> to(h)]
  <2>1. d \in pairs
    <3>1. h \in moved(from(h), to(h))
      OBVIOUS
    <3> QED BY <1>3, <3>1
  <2>2. change(d) \in OwnerChanges(A, B)
    BY <1>1, <2>1, ZenonT(40)
  <2>3. /\ change(d).source = from(h) /\ change(d).target = to(h)
        /\ h \in change(d).tokens
    OBVIOUS
  <2> HIDE DEF change, d
  <2> QED BY <2>2, <2>3
<1> QED BY <1>2, <1>3 DEF from, to

\* No two owners of which neither joins, leaves or fails exchange tokens, so
\* ValidateOwnerChange accepts every change of a plan.
LEMMA ChangesAreValid ==
  ASSUME Ordered, NEW t, TopologyType(t), t.batch # NoBatch,
         NEW c \in OwnerChanges(PlanOwners(t)[1], PlanOwners(t)[2]),
         t.batch.type = "FAILURE" => c.source \in Participants(t)
  PROVE  ValidateOwnerChange(t, c) /\ c.source \in Address /\ c.target \in Address
<1> DEFINE owners == In(t, Committed)
           selected == Participants(t)
           before == PlanOwners(t)[1]
           after == PlanOwners(t)[2]
<1>0. c \in OwnerChanges(before, after)
  OBVIOUS
<1>1. t.batch.type \in {"SCALE_OUT", "SCALE_IN", "FAILURE"}
  BY DEF TopologyType, Batch
<1>2. \A S : In(t, S) \subseteq Address /\ \A a \in In(t, S) : t.members[a].state \in S
  BY DEF TopologyType, In
<1>3. CASE t.batch.type = "SCALE_OUT"
  <2>1. before = owners /\ after = owners \cup selected /\ selected = In(t, {"JOINING"})
    BY <1>3 DEF PlanOwners, Participants, Participant
  <2>2. before \in SUBSET Address /\ after \in SUBSET Address /\ before \in SUBSET after
    BY <1>2, <2>1
  <2> HIDE DEF before, after
  <2>0. /\ c.source \in before /\ c.target \in after /\ c.source # c.target
        /\ \E h \in Token : /\ FindOwner(OwnerRing(before), h) = c.source
                            /\ FindOwner(OwnerRing(after), h) = c.target
    BY <1>0, <2>2, ChangesAreMoves
  <2>3. PICK h \in Token : /\ FindOwner(OwnerRing(before), h) = c.source
                           /\ FindOwner(OwnerRing(after), h) = c.target
    BY <2>0
  <2>4. c.source \in before /\ c.target \in after /\ c.source # c.target
    BY <2>0
  <2>5. ASSUME c.target \in before PROVE FALSE
    <3>1. FindOwner(OwnerRing(after), h) \in before
      BY <2>3, <2>5
    <3>2. FindOwner(OwnerRing(before), h) = FindOwner(OwnerRing(after), h)
      BY <2>2, <3>1, OwnerStays
    <3> QED BY <2>3, <2>4, <3>2
  <2>6. c.source \in In(t, Committed) /\ c.target \in In(t, {"JOINING"})
    BY <2>1, <2>4, <2>5
  <2> QED BY <1>2, <1>3, <2>6 DEF ValidateOwnerChange
<1>4. CASE t.batch.type = "SCALE_IN"
  <2>1. before = owners /\ after = owners \ selected /\ selected = In(t, {"LEAVING"})
    BY <1>4 DEF PlanOwners, Participants, Participant
  <2>2. before \in SUBSET Address /\ after \in SUBSET Address /\ after \in SUBSET before
    BY <1>2, <2>1
  <2> HIDE DEF before, after
  <2>0. /\ c.source \in before /\ c.target \in after /\ c.source # c.target
        /\ \E h \in Token : /\ FindOwner(OwnerRing(before), h) = c.source
                            /\ FindOwner(OwnerRing(after), h) = c.target
    BY <1>0, <2>2, ChangesAreMoves
  <2>3. PICK h \in Token : /\ FindOwner(OwnerRing(before), h) = c.source
                           /\ FindOwner(OwnerRing(after), h) = c.target
    BY <2>0
  <2>4. c.source \in before /\ c.target \in after /\ c.source # c.target
    BY <2>0
  <2>5. ASSUME c.source \in after PROVE FALSE
    <3>1. FindOwner(OwnerRing(before), h) \in after
      BY <2>3, <2>5
    <3>2. FindOwner(OwnerRing(after), h) = FindOwner(OwnerRing(before), h)
      BY <2>2, <3>1, OwnerStays
    <3> QED BY <2>3, <2>4, <3>2
  <2>6. c.source \in In(t, {"LEAVING"}) /\ c.target \in In(t, Committed) \ In(t, {"LEAVING"})
    BY <2>1, <2>4, <2>5
  <2>7. t.members[c.source].state = "LEAVING" /\ t.members[c.target].state \in {"ACTIVE", "PRE_LEAVING"}
    BY <2>6 DEF In, Committed
  <2> QED BY <1>2, <1>4, <2>6, <2>7 DEF ValidateOwnerChange
<1>5. CASE t.batch.type = "FAILURE"
  <2>1. before = owners \cup selected /\ after = In(t, {"ACTIVE"}) /\ selected = In(t, {"FAILED"})
    BY <1>5 DEF PlanOwners, Participants, Participant
  <2>2. before \in SUBSET Address /\ after \in SUBSET Address
    BY <1>2, <2>1
  <2> HIDE DEF before, after
  <2>3. c.target \in after
    BY <1>0, <2>2, ChangesAreMoves
  <2>4. c.source \in In(t, {"FAILED"}) /\ c.target \in In(t, {"ACTIVE"})
    BY <1>5, <2>1, <2>3
  <2> QED BY <1>2, <1>5, <2>4 DEF ValidateOwnerChange
<1> QED BY <1>1, <1>3, <1>4, <1>5
\* RebuildExpected fails only for want of an owner.
LEMMA RebuildSucceeds ==
  ASSUME Ordered, NEW t, TopologyType(t)
  PROVE  /\ RebuildExpected(t).rc \in {"K_OK", "K_NOT_READY"}
         /\ RebuildExpected(t).tasks \in SUBSET Task
<1> DEFINE before == PlanOwners(t)[1]
           after == PlanOwners(t)[2]
           moves == {c \in OwnerChanges(before, after) :
                       t.batch.type = "FAILURE" => c.source \in Participants(t)}
           task(c) == [type |-> t.batch.type, epoch |-> t.batch.epoch,
                       source |-> c.source, target |-> c.target, tokens |-> c.tokens]
<1>1. CASE t.batch = NoBatch \/ (t.batch.type = "FAILURE" /\ In(t, {"ACTIVE"}) = {})
  BY <1>1 DEF RebuildExpected
<1>2. CASE /\ ~ (t.batch = NoBatch \/ (t.batch.type = "FAILURE" /\ In(t, {"ACTIVE"}) = {}))
           /\ before = {} \/ after = {}
  BY <1>2 DEF RebuildExpected
<1>3. CASE /\ ~ (t.batch = NoBatch \/ (t.batch.type = "FAILURE" /\ In(t, {"ACTIVE"}) = {}))
           /\ ~ (before = {} \/ after = {})
  <2>1. \A c \in moves : ValidateOwnerChange(t, c) /\ c.source \in Address /\ c.target \in Address
    BY <1>3, ChangesAreValid
  <2>2. RebuildExpected(t) = [rc |-> "K_OK", tasks |-> {task(c) : c \in moves}]
    BY <1>3, <2>1 DEF RebuildExpected
  <2>3. t.batch.type \in {"SCALE_OUT", "SCALE_IN", "FAILURE"} /\ t.batch.epoch \in Nat
    BY <1>3 DEF TopologyType, Batch
  <2>4. before \in SUBSET Address /\ after \in SUBSET Address
    BY <2>3 DEF PlanOwners, Participants, In, TopologyType
  <2>5. \A c \in moves : c.tokens \in SUBSET Token
    <3> HIDE DEF before, after
    <3> QED BY <2>4, ChangesAreMoves, ZenonT(40)
  <2>6. \A c \in moves : task(c) \in Task
    <3> HIDE DEF moves
    <3> QED BY <2>1, <2>3, <2>5 DEF Task
  <2> HIDE DEF moves, task
  <2> QED BY <2>2, <2>6
<1> QED BY <1>1, <1>2, <1>3

\* The tasks of a scale-out or a scale-in cover every token that its end will
\* move, and those of a scale-out go to the joining members.
LEMMA DerivedTasksCover ==
  ASSUME Ordered, NEW t, TopologyType(t), NEW expected, Derives(t, expected),
         t.batch # NoBatch, t.batch.type # "FAILURE"
  PROVE  /\ \A h \in Token :
              LET s == FindOwner(OwnerRing(PlanOwners(t)[1]), h)
                  d == FindOwner(OwnerRing(PlanOwners(t)[2]), h)
              IN  s # d => \E task \in expected : /\ task.epoch = t.batch.epoch
                                                 /\ task.source = s /\ task.target = d
                                                 /\ h \in task.tokens
         /\ t.batch.type = "SCALE_OUT" =>
              \A task \in expected : task.target \in In(t, {"JOINING"})
<1> DEFINE before == PlanOwners(t)[1]
           after == PlanOwners(t)[2]
           moves == {c \in OwnerChanges(before, after) :
                       t.batch.type = "FAILURE" => c.source \in Participants(t)}
           task(c) == [type |-> t.batch.type, epoch |-> t.batch.epoch,
                       source |-> c.source, target |-> c.target, tokens |-> c.tokens]
<1>1. before # {} /\ after # {}
  BY DEF Derives, RebuildExpected
<1>2. \A c \in moves : ValidateOwnerChange(t, c)
  BY ChangesAreValid
<1>3. expected = {task(c) : c \in moves}
  BY <1>1, <1>2 DEF Derives, RebuildExpected
<1>4. t.batch.type \in {"SCALE_OUT", "SCALE_IN"}
  BY DEF TopologyType, Batch
<1>5. before \in SUBSET Address /\ after \in SUBSET Address
  BY <1>4 DEF PlanOwners, Participants, In, TopologyType
<1>6. moves = OwnerChanges(before, after)
  OBVIOUS
<1>7. ASSUME NEW h \in Token,
             FindOwner(OwnerRing(before), h) # FindOwner(OwnerRing(after), h)
      PROVE  \E x \in expected : /\ x.epoch = t.batch.epoch
                                 /\ x.source = FindOwner(OwnerRing(before), h)
                                 /\ x.target = FindOwner(OwnerRing(after), h)
                                 /\ h \in x.tokens
  <2> HIDE DEF before, after
  <2>1. FindOwner(OwnerRing(before), h) \in before /\ FindOwner(OwnerRing(after), h) \in after
    BY <1>1, <1>5, OwnerIsMember
  <2>2. PICK c \in OwnerChanges(before, after) :
               /\ c.source = FindOwner(OwnerRing(before), h)
               /\ c.target = FindOwner(OwnerRing(after), h) /\ h \in c.tokens
    BY <1>5, <1>7, <2>1, ChangesAreMoves
  <2>3. task(c) \in expected
    BY <1>3, <1>6
  <2>4. /\ task(c).epoch = t.batch.epoch /\ task(c).source = c.source
        /\ task(c).target = c.target /\ task(c).tokens = c.tokens
    OBVIOUS
  <2> HIDE DEF task
  <2> QED BY <2>2, <2>3, <2>4
<1>8. ASSUME t.batch.type = "SCALE_OUT", NEW x \in expected PROVE x.target \in In(t, {"JOINING"})
  <2>1. PICK c \in moves : x = task(c)
    BY <1>3
  <2>2. t.members[c.target].state = "JOINING"
    BY <1>2, <1>8 DEF ValidateOwnerChange
  <2>3. c.target \in after
    <3> HIDE DEF before, after
    <3> QED BY <1>5, <1>6, ChangesAreMoves, ZenonT(40)
  <2>4. after \subseteq DOMAIN t.members
    BY <1>8 DEF PlanOwners, Participants, In
  <2>5. x.target = c.target
    BY <2>1
  <2> QED BY <2>2, <2>3, <2>4, <2>5 DEF In
<1> QED BY <1>7, <1>8
-----------------------------------------------------------------------------
(* The members of a new topology. *)

MembersType(m) == m \in [DOMAIN m -> Member] /\ DOMAIN m \subseteq Address

LEMMA WithStateIs ==
  ASSUME NEW m, MembersType(m), NEW A, NEW s \in MemberState
  PROVE  /\ MembersType(WithState(m, A, s)) /\ DOMAIN WithState(m, A, s) = DOMAIN m
         /\ \A a \in DOMAIN m : WithState(m, A, s)[a].state = IF a \in A THEN s ELSE m[a].state
<1>1. \A a \in DOMAIN m : /\ [m[a] EXCEPT !.state = s] \in Member
                           /\ [m[a] EXCEPT !.state = s].state = s
  BY DEF MembersType, Member
<1> QED BY <1>1 DEF MembersType, WithState

LEMMA WithoutIs ==
  ASSUME NEW m, MembersType(m), NEW A
  PROVE  /\ MembersType(Without(m, A)) /\ DOMAIN Without(m, A) = DOMAIN m \ A
         /\ \A a \in DOMAIN m \ A : Without(m, A)[a] = m[a]
<1> DEFINE w == Without(m, A)
<1>1. DOMAIN w = DOMAIN m \ A /\ \A a \in DOMAIN m \ A : w[a] = m[a]
  BY DEF Without
<1>2. w \in [DOMAIN m \ A -> Member]
  BY DEF MembersType, Without
<1>3. DOMAIN w \subseteq Address
  BY <1>1 DEF MembersType
<1> HIDE DEF w
<1>4. w \in [DOMAIN w -> Member]
  BY <1>1, <1>2
<1> QED BY <1>1, <1>3, <1>4 DEF w, MembersType

LEMMA AdmitIs ==
  ASSUME NEW m, MembersType(m), NEW seen, MembershipType(seen), NEW A, A \subseteq DOMAIN seen
  PROVE  MembersType(Admit(m, seen, A)) /\ DOMAIN Admit(m, seen, A) = DOMAIN m \cup A
<1>1. \A a \in A : [id |-> seen[a].ts, state |-> "INITIAL"] \in Member
  BY DEF MembershipType, Record, Member, MemberState
<1>2. A \subseteq Address
  BY DEF MembershipType
<1> QED BY <1>1, <1>2 DEF MembersType, Admit

LEMMA AdmitStates ==
  ASSUME NEW m, NEW seen, NEW A
  PROVE  /\ \A a \in DOMAIN m : Admit(m, seen, A)[a] = m[a]
         /\ \A a \in A \ DOMAIN m : Admit(m, seen, A)[a].state = "INITIAL"
BY DEF Admit

LEMMA NothingIs ==
  /\ MembersType(None) /\ MembershipType(None) /\ DOMAIN None = {}
  /\ TopologyType(NoTopology) /\ NoTopology.version = 0
  /\ \A S : In(NoTopology, S) = {}
<1>1. MembersType(None) /\ MembershipType(None) /\ DOMAIN None = {}
  BY DEF MembersType, MembershipType, None
<1>2. TopologyType(NoTopology) /\ NoTopology.version = 0 /\ NoTopology.members = None
  BY <1>1 DEF TopologyType, NoTopology, Batch, MembersType
<1> QED BY <1>1, <1>2 DEF In

LEMMA AdmitAll ==
  ASSUME NEW seen, MembershipType(seen), NEW A \in SUBSET DOMAIN seen
  PROVE  /\ MembersType(Admit(None, seen, A)) /\ DOMAIN Admit(None, seen, A) = A
         /\ \A a \in A : Admit(None, seen, A)[a].state = "INITIAL"
<1>1. \A a \in A : /\ [id |-> seen[a].ts, state |-> "INITIAL"] \in Member
                    /\ [id |-> seen[a].ts, state |-> "INITIAL"].state = "INITIAL"
  BY DEF MembershipType, Record, Member, MemberState
<1>2. A \subseteq Address
  BY DEF MembershipType
<1>3. Admit(None, seen, A) = [a \in A |-> [id |-> seen[a].ts, state |-> "INITIAL"]]
  <2>1. DOMAIN None = {} /\ DOMAIN None \cup A = A
    BY NothingIs
  <2> QED BY <2>1 DEF Admit
<1> QED BY <1>1, <1>2, <1>3 DEF MembersType

LEMMA AdvanceIs ==
  ASSUME NEW t, TopologyType(t), NEW m, MembersType(m), NEW b \in Batch
  PROVE  /\ TopologyType(Advance(t, m, b)) /\ Advance(t, m, b).version = t.version + 1
         /\ Advance(t, m, b).hasInit = t.hasInit /\ Advance(t, m, b).members = m
         /\ Advance(t, m, b).batch = b
<1> DEFINE v == t.version + 1
           u == [t EXCEPT !.version = v, !.members = m, !.batch = b]
           Shape(n) == [version : Nat, hasInit : BOOLEAN, batch : Batch, members : n]
<1>1. t \in Shape([DOMAIN t.members -> Member]) /\ v \in Nat
  BY DEF TopologyType
<1>2. Advance(t, m, b) = u
  BY DEF Advance
<1> HIDE DEF v
<1>3. u.version = v /\ u.hasInit = t.hasInit /\ u.members = m /\ u.batch = b
  BY <1>1
<1>4. u \in Shape([DOMAIN m -> Member])
  BY <1>1, ZenonT(40) DEF MembersType
<1> HIDE DEF u
<1>5. TopologyType(u)
  BY <1>3, <1>4 DEF TopologyType, MembersType
<1> QED BY <1>2, <1>3, <1>5 DEF v

LEMMA WithMembersIs ==
  ASSUME NEW t, TopologyType(t), NEW m, MembersType(m)
  PROVE  LET u == [t EXCEPT !.members = m]
         IN  /\ TopologyType(u) /\ u.version = t.version /\ u.hasInit = t.hasInit
             /\ u.members = m /\ u.batch = t.batch
BY DEF TopologyType, MembersType

LEMMA NewEpochIs ==
  ASSUME NEW t, TopologyType(t), NEW type \in {"SCALE_OUT", "SCALE_IN", "FAILURE"}
  PROVE  /\ NewEpoch(t, type) \in Batch /\ NewEpoch(t, type) # NoBatch
         /\ NewEpoch(t, type).type = type /\ NewEpoch(t, type).epoch = t.version + 1
BY DEF TopologyType, NewEpoch, Batch, NoBatch

-----------------------------------------------------------------------------
(* What makes a plan sound. *)

KeepsEpoch(t, u) == (u.batch = t.batch /\ t.batch # NoBatch) => Participants(u) = Participants(t)

HandsOver(t, u) ==
  In(t, Committed) \cap In(u, Committed) # {}
    => \A h \in Token :
         LET from == FindOwner(OwnerRing(Owners(t)), h)
             to   == FindOwner(OwnerRing(Owners(u)), h)
         IN  (from # to /\ from \notin In(t, {"FAILED"}))
               => \E task \in finished :
                    /\ task.epoch = t.batch.epoch
                    /\ task.source = from /\ task.target = to /\ h \in task.tokens

\* The plan made of t is accepted, or there is nobody to plan for.
Sound(t, plan) ==
  /\ plan.rc \in {"K_OK", "K_NOT_READY"}
  /\ plan.rc = "K_OK" => /\ Consistent(plan.next) /\ plan.next.version = t.version + 1
                         /\ KeepsEpoch(t, plan.next) /\ HandsOver(t, plan.next)

\* A batch of scale-out is one, and is no failure.
LEMMA ScaleOutIsBatch ==
  ASSUME NEW b, b.type = "SCALE_OUT"
  PROVE  b # NoBatch /\ b.type # "FAILURE"
BY DEF NoBatch

\* The states of a consistent topology, by its batch.
LEMMA BatchStates ==
  ASSUME NEW t, Consistent(t)
  PROVE  /\ t.version \in Nat \ {0} /\ MembersType(t.members) /\ TopologyType(t)
         /\ t.batch = NoBatch => In(t, {"JOINING", "LEAVING", "FAILED"}) = {}
         /\ t.batch # NoBatch =>
              /\ t.batch.type \in {"SCALE_OUT", "SCALE_IN", "FAILURE"}
              /\ t.batch.epoch \in 1 .. t.version /\ t.hasInit
              /\ t.batch.type = "SCALE_OUT" =>
                   /\ In(t, {"LEAVING", "FAILED"}) = {} /\ In(t, {"JOINING"}) # {}
                   /\ Participants(t) = In(t, {"JOINING"}) /\ In(t, Committed) # {}
              /\ t.batch.type = "SCALE_IN" =>
                   /\ In(t, {"JOINING", "FAILED"}) = {} /\ In(t, {"LEAVING"}) # {}
                   /\ Participants(t) = In(t, {"LEAVING"})
              /\ t.batch.type = "FAILURE" =>
                   /\ In(t, {"FAILED"}) # {} /\ Participants(t) = In(t, {"FAILED"})
<1>1. t.version \in Nat \ {0} /\ MembersType(t.members) /\ TopologyType(t)
  BY DEF Consistent, TopologyType, ValidTopology, MembersType
<1>2. t.batch = NoBatch => In(t, {"JOINING", "LEAVING", "FAILED"}) = {}
  BY DEF Consistent, ValidTopology, ValidateBatchStates
<1>3. ASSUME t.batch # NoBatch
      PROVE  /\ t.batch.type \in {"SCALE_OUT", "SCALE_IN", "FAILURE"}
             /\ t.batch.epoch \in 1 .. t.version /\ t.hasInit
             /\ \A a \in DOMAIN t.members : MatchesBatch(t.members[a].state, t.batch.type)
             /\ Participants(t) # {}
  BY <1>3 DEF Consistent, ValidTopology, ValidateBatchStates, TopologyType, Batch
<1>4. ASSUME t.batch # NoBatch, t.batch.type = "SCALE_OUT"
      PROVE  /\ In(t, {"LEAVING", "FAILED"}) = {} /\ In(t, {"JOINING"}) # {}
             /\ Participants(t) = In(t, {"JOINING"}) /\ In(t, Committed) # {}
  <2>1. Participants(t) = In(t, {"JOINING"})
    BY <1>4 DEF Participants, Participant
  <2>2. \A a \in DOMAIN t.members : t.members[a].state \notin {"LEAVING", "FAILED"}
    BY <1>3, <1>4 DEF MatchesBatch
  <2> QED BY <1>3, <1>4, <2>1, <2>2 DEF In, Consistent
<1>5. ASSUME t.batch # NoBatch, t.batch.type = "SCALE_IN"
      PROVE  /\ In(t, {"JOINING", "FAILED"}) = {} /\ In(t, {"LEAVING"}) # {}
             /\ Participants(t) = In(t, {"LEAVING"})
  <2>1. Participants(t) = In(t, {"LEAVING"})
    BY <1>5 DEF Participants, Participant
  <2>2. \A a \in DOMAIN t.members : t.members[a].state \notin {"JOINING", "FAILED"}
    BY <1>3, <1>5 DEF MatchesBatch
  <2> QED BY <1>3, <1>5, <2>1, <2>2 DEF In
<1>6. ASSUME t.batch # NoBatch, t.batch.type = "FAILURE"
      PROVE  In(t, {"FAILED"}) # {} /\ Participants(t) = In(t, {"FAILED"})
  BY <1>3, <1>6 DEF Participants, Participant
<1> QED BY <1>1, <1>2, <1>3, <1>4, <1>5, <1>6
\* Conversely, what is to be shown of a new topology.
LEMMA MakesConsistent ==
  ASSUME NEW u, TopologyType(u), u.version > 0,
         (In(u, Committed) # {} \/ u.batch # NoBatch) => u.hasInit,
         u.batch = NoBatch => In(u, {"JOINING", "LEAVING", "FAILED"}) = {},
         u.batch # NoBatch => u.batch.epoch \in 1 .. u.version,
         u.batch.type = "SCALE_OUT" => /\ In(u, {"LEAVING", "FAILED"}) = {}
                                       /\ In(u, {"JOINING"}) # {} /\ In(u, Committed) # {},
         u.batch.type = "SCALE_IN" => In(u, {"JOINING", "FAILED"}) = {} /\ In(u, {"LEAVING"}) # {},
         u.batch.type = "FAILURE" => /\ In(u, {"FAILED"}) # {}
                                     /\ In(u, {"JOINING"}) = {} \/ In(u, {"LEAVING"}) = {}
  PROVE  Consistent(u)
<1>1. u.batch = NoBatch \/ u.batch.type \in {"SCALE_OUT", "SCALE_IN", "FAILURE"}
  BY DEF TopologyType, Batch
<1>2. CASE u.batch = NoBatch
  <2>1. In(u, {"JOINING"}) = {}
    BY <1>2 DEF In
  <2>2. u.batch.type = "NONE"
    BY <1>2 DEF NoBatch
  <2> QED BY <1>2, <2>1, <2>2 DEF Consistent, ValidTopology, ValidateBatchStates
<1>3. CASE u.batch # NoBatch /\ u.batch.type = "SCALE_OUT"
  <2>1. \A a \in DOMAIN u.members : MatchesBatch(u.members[a].state, u.batch.type)
    BY <1>3 DEF In, MatchesBatch
  <2>2. Participants(u) # {} /\ In(u, {"LEAVING"}) = {}
    BY <1>3 DEF Participants, Participant, In
  <2> QED BY <1>3, <2>1, <2>2 DEF Consistent, ValidTopology, ValidateBatchStates
<1>4. CASE u.batch # NoBatch /\ u.batch.type = "SCALE_IN"
  <2>1. \A a \in DOMAIN u.members : MatchesBatch(u.members[a].state, u.batch.type)
    BY <1>4 DEF In, MatchesBatch
  <2>2. Participants(u) # {} /\ In(u, {"JOINING"}) = {}
    BY <1>4 DEF Participants, Participant, In
  <2> QED BY <1>4, <2>1, <2>2 DEF Consistent, ValidTopology, ValidateBatchStates
<1>5. CASE u.batch # NoBatch /\ u.batch.type = "FAILURE"
  <2>1. \A a \in DOMAIN u.members : MatchesBatch(u.members[a].state, u.batch.type)
    BY <1>5 DEF MatchesBatch
  <2>2. Participants(u) # {}
    BY <1>5 DEF Participants, Participant
  <2> QED BY <1>5, <2>1, <2>2 DEF Consistent, ValidTopology, ValidateBatchStates
<1> QED BY <1>1, <1>2, <1>3, <1>4, <1>5

LEMMA SameOwners ==
  ASSUME NEW t, NEW u, Owners(u) = Owners(t)
  PROVE  HandsOver(t, u)
BY DEF HandsOver

LEMMA OtherEpoch ==
  ASSUME NEW t, Consistent(t), NEW u, u.batch = NoBatch \/ u.batch.epoch = t.version + 1
  PROVE  KeepsEpoch(t, u)
<1>1. t.batch # NoBatch => t.batch.epoch \in 1 .. t.version
  BY BatchStates
<1>2. t.version \in Nat
  BY BatchStates
<1> QED BY <1>1, <1>2 DEF KeepsEpoch

LEMMA OkIsSound ==
  ASSUME NEW t, NEW u, Consistent(u), u.version = t.version + 1, KeepsEpoch(t, u), HandsOver(t, u)
  PROVE  Sound(t, Ok(u))
BY DEF Sound, Ok

\* Members that own nothing and take no part in the batch may be dropped from a plan.
LEMMA TrimSound ==
  ASSUME NEW t, NEW u, Sound(t, Ok(u)), NEW R,
         R \cap In(u, Committed \cup {"FAILED"}) = {},
         u.batch.type = "SCALE_OUT" => R \cap In(u, {"JOINING"}) = {}
  PROVE  Sound(t, [Ok(u) EXCEPT !.next.members = Without(@, R)])
<1> DEFINE w == [u EXCEPT !.members = Without(u.members, R)]
<1>1. [Ok(u) EXCEPT !.next.members = Without(@, R)] = Ok(w)
  BY DEF Ok
<1>2. /\ Consistent(u) /\ u.version = t.version + 1
      /\ KeepsEpoch(t, u) /\ HandsOver(t, u)
  BY DEF Sound, Ok
<1>3. TopologyType(u) /\ MembersType(u.members)
  BY <1>2, BatchStates
<1>4. /\ DOMAIN Without(u.members, R) = DOMAIN u.members \ R /\ MembersType(Without(u.members, R))
      /\ \A a \in DOMAIN u.members \ R : Without(u.members, R)[a] = u.members[a]
  BY <1>3, WithoutIs, ZenonT(40)
<1>5. /\ TopologyType(w) /\ w.version = u.version /\ w.hasInit = u.hasInit
      /\ w.members = Without(u.members, R) /\ w.batch = u.batch
  BY <1>3, <1>4, WithMembersIs
<1> HIDE DEF w
<1>6. \A S : In(w, S) = In(u, S) \ R
  BY <1>4, <1>5 DEF In
<1>7. In(w, Committed) = In(u, Committed) /\ In(w, {"FAILED"}) = In(u, {"FAILED"})
  <2>1. In(u, Committed) \cap R = {} /\ In(u, {"FAILED"}) \cap R = {}
    BY DEF In
  <2> QED BY <1>6, <2>1
<1>8. Owners(w) = Owners(u) /\ In(w, {"LEAVING"}) = In(u, {"LEAVING"})
  <2>1. R \cap In(u, {"LEAVING"}) = {}
    BY DEF In, Committed
  <2> QED BY <1>6, <2>1 DEF Owners
<1>9. u.batch.type = "SCALE_OUT" => In(w, {"JOINING"}) = In(u, {"JOINING"})
  BY <1>6
<1>10. u.batch # NoBatch => Participants(w) = Participants(u)
  <2>1. u.batch # NoBatch => u.batch.type \in {"SCALE_OUT", "SCALE_IN", "FAILURE"}
    BY <1>2, BatchStates
  <2> QED BY <1>5, <1>7, <1>8, <1>9, <2>1 DEF Participants, Participant
<1>11. KeepsEpoch(t, w)
  BY <1>2, <1>5, <1>10 DEF KeepsEpoch
<1>12. HandsOver(t, w)
  BY <1>2, <1>7, <1>8, ZenonT(40) DEF HandsOver
<1>13. Consistent(w)
  <2>1. \A S : In(u, S) = {} => In(w, S) = {}
    BY <1>6, ZenonT(40)
  <2>2. /\ u.batch = NoBatch => In(u, {"JOINING", "LEAVING", "FAILED"}) = {}
        /\ u.batch # NoBatch => u.batch.epoch \in 1 .. u.version
        /\ u.version \in Nat \ {0}
        /\ (In(u, Committed) # {} \/ u.batch # NoBatch) => u.hasInit
        /\ In(u, {"JOINING"}) = {} \/ In(u, {"LEAVING"}) = {}
    BY <1>2, BatchStates DEF Consistent
  <2>3. NoBatch.type = "NONE"
    BY DEF NoBatch
  <2>4. u.batch.type = "SCALE_OUT" => /\ In(u, {"LEAVING", "FAILED"}) = {}
                                      /\ In(u, {"JOINING"}) # {} /\ In(u, Committed) # {}
    BY <1>2, <2>3, BatchStates
  <2>5. u.batch.type = "SCALE_IN" => In(u, {"JOINING", "FAILED"}) = {} /\ In(u, {"LEAVING"}) # {}
    BY <1>2, <2>3, BatchStates
  <2>6. u.batch.type = "FAILURE" => In(u, {"FAILED"}) # {}
    BY <1>2, <2>3, BatchStates
  <2> QED BY <1>5, <1>7, <1>8, <1>9, <2>1, <2>2, <2>4, <2>5, <2>6, MakesConsistent
<1> QED BY <1>1, <1>2, <1>5, <1>11, <1>12, <1>13, OkIsSound
-----------------------------------------------------------------------------
(* The plans, one by one; in all of them t is what the controller has read. *)

LEMMA BootstrapSound ==
  ASSUME NEW t, Consistent(t),
         NEW x, TopologyType(x), x.version = t.version, x.batch = NoBatch,
         In(x, Committed) = {}, In(x, {"JOINING", "LEAVING", "FAILED"}) = {},
         NEW A, A # {}, A \subseteq In(x, {"INITIAL"}), A \cap In(t, Committed) = {}
  PROVE  Sound(t, BuildBootstrap(x, A))
<1> DEFINE m == WithState(x.members, A, "ACTIVE")
           y == Advance(x, m, NoBatch)
           u == [y EXCEPT !.hasInit = TRUE]
<1>1. MembersType(x.members) /\ A \subseteq DOMAIN x.members
  BY DEF TopologyType, MembersType, In
<1>2. /\ MembersType(m) /\ DOMAIN m = DOMAIN x.members
      /\ \A a \in DOMAIN m : m[a].state = IF a \in A THEN "ACTIVE" ELSE x.members[a].state
  BY <1>1, WithStateIs DEF MemberState
<1> HIDE DEF m
<1>3. TopologyType(y) /\ y.version = t.version + 1 /\ y.members = m /\ y.batch = NoBatch
  BY <1>2, AdvanceIs DEF Batch
<1>4. BuildBootstrap(x, A) = Ok(u)
  BY DEF BuildBootstrap, ValidateSelected, m
<1> HIDE DEF y
<1>5. /\ TopologyType(u) /\ u.version = t.version + 1 /\ u.members = m /\ u.batch = NoBatch
      /\ u.hasInit
  BY <1>3, ZenonT(40) DEF TopologyType
<1> HIDE DEF u
<1>6. In(u, Committed) = A
  BY <1>1, <1>2, <1>5 DEF In, Committed
<1>7. In(u, {"JOINING", "LEAVING", "FAILED"}) = {}
  BY <1>2, <1>5 DEF In
<1>8. t.version \in Nat /\ NoBatch.type = "NONE"
  BY BatchStates DEF NoBatch
<1>9. Consistent(u)
  BY <1>5, <1>7, <1>8, MakesConsistent
<1>10. KeepsEpoch(t, u) /\ HandsOver(t, u)
  BY <1>5, <1>6 DEF KeepsEpoch, HandsOver
<1> QED BY <1>4, <1>5, <1>9, <1>10, OkIsSound

LEMMA ShutdownSound ==
  ASSUME NEW t, Consistent(t), DOMAIN t.members # {}
  PROVE  Sound(t, BuildClusterShutdownFinal(
                    [t EXCEPT !.batch = NoBatch,
                              !.members = WithState(@, DOMAIN @, "PRE_LEAVING")]))
<1> DEFINE m == WithState(t.members, DOMAIN t.members, "PRE_LEAVING")
           x == [t EXCEPT !.batch = NoBatch, !.members = m]
           e == Without(m, DOMAIN m)
           u == Advance(x, e, NoBatch)
<1>1. MembersType(t.members) /\ TopologyType(t) /\ t.version \in Nat
  BY BatchStates
<1>2. /\ MembersType(m) /\ DOMAIN m = DOMAIN t.members
      /\ \A a \in DOMAIN m : m[a].state = "PRE_LEAVING"
  BY <1>1, WithStateIs DEF MemberState
<1> HIDE DEF m
<1>3. /\ TopologyType(x) /\ x.version = t.version /\ x.hasInit = t.hasInit
      /\ x.members = m /\ x.batch = NoBatch
  BY <1>1, <1>2, ZenonT(40) DEF TopologyType, MembersType, Batch
<1>4. MembersType(e) /\ DOMAIN e = {}
  <2>1. MembersType(e) /\ DOMAIN e = DOMAIN m \ DOMAIN m
    BY <1>2, WithoutIs, ZenonT(40)
  <2> QED BY <2>1, ZenonT(40)
<1> HIDE DEF x
<1>5. DOMAIN x.members = In(x, {"PRE_LEAVING", "LEAVING"})
  BY <1>2, <1>3 DEF In
<1>6. BuildClusterShutdownFinal(x) = Ok(u)
  BY <1>2, <1>3, <1>5 DEF BuildClusterShutdownFinal
<1> HIDE DEF e
<1>7. TopologyType(u) /\ u.version = t.version + 1 /\ u.members = e /\ u.batch = NoBatch
  BY <1>3, <1>4, AdvanceIs DEF Batch
<1> HIDE DEF u
<1>8. \A S : In(u, S) = {}
  BY <1>4, <1>7 DEF In
<1>9. NoBatch.type = "NONE"
  BY DEF NoBatch
<1>10. Consistent(u)
  BY <1>1, <1>7, <1>8, <1>9, MakesConsistent
<1>11. KeepsEpoch(t, u) /\ HandsOver(t, u)
  BY <1>7, <1>8 DEF KeepsEpoch, HandsOver
<1>12. Sound(t, BuildClusterShutdownFinal(x))
  BY <1>6, <1>7, <1>10, <1>11, OkIsSound
<1> QED BY <1>12 DEF x, m

\* The confirmed members are owners, and stay so until the failure is over.
LEMMA FailureSound ==
  ASSUME NEW t, Consistent(t), t.hasInit, NEW N \in SUBSET In(t, Committed),
         In(t, {"FAILED"}) \cup N # {}
  PROVE  LET plan == BuildFailureStartOrReplan(t, In(t, {"FAILED"}) \cup N)
         IN  /\ plan = Ok(plan.next) /\ Sound(t, plan)
             /\ \A S \in SUBSET {"INITIAL", "JOINING"} : In(plan.next, S) = In(t, S)
             /\ plan.next.batch.type = "FAILURE"
<1> DEFINE F == In(t, {"FAILED"}) \cup N
           m == WithState(t.members, F, "FAILED")
           b == NewEpoch(t, "FAILURE")
           u == Advance(t, m, b)
<1>1. MembersType(t.members) /\ TopologyType(t) /\ t.version \in Nat
  BY BatchStates
<1>2. /\ MembersType(m) /\ DOMAIN m = DOMAIN t.members
      /\ \A a \in DOMAIN m : m[a].state = IF a \in F THEN "FAILED" ELSE t.members[a].state
  <2> HIDE DEF F
  <2> QED BY <1>1, WithStateIs DEF MemberState
<1>3. F \subseteq In(t, Committed \cup {"FAILED"}) /\ F # {} /\ F \subseteq DOMAIN t.members
  BY DEF In
<1>4. BuildFailureStartOrReplan(t, F) = Ok(u)
  <2>1. In(t, {"FAILED"}) \subseteq F
    OBVIOUS
  <2> HIDE DEF F, m
  <2> QED BY <1>3, <2>1 DEF BuildFailureStartOrReplan, m
<1> HIDE DEF m
<1>5. b \in Batch /\ b # NoBatch /\ b.type = "FAILURE" /\ b.epoch = t.version + 1
  BY <1>1, NewEpochIs
<1> HIDE DEF b
<1>6. TopologyType(u) /\ u.version = t.version + 1 /\ u.members = m /\ u.batch = b
  BY <1>1, <1>2, <1>5, AdvanceIs
<1>0. u.hasInit
  <2>1. u.hasInit = t.hasInit
    BY <1>1, <1>2, <1>5, AdvanceIs, ZenonT(40)
  <2> QED BY <2>1
<1> HIDE DEF u
<1>7. In(u, {"FAILED"}) # {}
  BY <1>2, <1>3, <1>6 DEF In
<1>8. \A S \in SUBSET {"INITIAL", "JOINING"} : In(u, S) = In(t, S)
  <2> SUFFICES ASSUME NEW S \in SUBSET {"INITIAL", "JOINING"}, NEW a \in DOMAIN t.members
               PROVE  m[a].state \in S <=> t.members[a].state \in S
    BY <1>2, <1>6 DEF In
  <2>1. a \in F => t.members[a].state \in {"ACTIVE", "PRE_LEAVING", "LEAVING", "FAILED"}
    BY <1>3 DEF In, Committed
  <2> HIDE DEF F
  <2> QED BY <1>2, <2>1
<1>9. In(u, {"LEAVING"}) \subseteq In(t, {"LEAVING"})
  BY <1>2, <1>6 DEF In
<1>10. Owners(u) = Owners(t)
  <2> SUFFICES ASSUME NEW a \in DOMAIN t.members
               PROVE  m[a].state \in Committed \cup {"FAILED"}
                        <=> t.members[a].state \in Committed \cup {"FAILED"}
    BY <1>2, <1>6 DEF In, Owners
  <2>1. a \in F => t.members[a].state \in Committed \cup {"FAILED"}
    BY <1>3 DEF In
  <2> HIDE DEF F
  <2> QED BY <1>2, <2>1
<1>11. In(u, {"JOINING"}) = {} \/ In(u, {"LEAVING"}) = {}
  BY <1>8, <1>9 DEF Consistent
<1>12. Consistent(u)
  <2>1. u.hasInit /\ u.version > 0 /\ u.batch.epoch \in 1 .. u.version
    BY <1>0, <1>1, <1>5, <1>6
  <2>2. u.batch # NoBatch /\ u.batch.type = "FAILURE"
    BY <1>5, <1>6
  <2> QED BY <1>6, <1>7, <1>11, <2>1, <2>2, MakesConsistent
<1>13. KeepsEpoch(t, u) /\ HandsOver(t, u)
  BY <1>5, <1>6, <1>10, OtherEpoch, SameOwners
<1>14. Sound(t, Ok(u))
  BY <1>6, <1>12, <1>13, OkIsSound
<1>15. Ok(u).next = u
  BY DEF Ok
<1> HIDE DEF F
<1>16. u.batch.type = "FAILURE"
  BY <1>5, <1>6
<1> QED BY <1>4, <1>8, <1>14, <1>15, <1>16 DEF F
\* The joining members that remain, if any, go on under a new epoch.
LEMMA ReplanSound ==
  ASSUME NEW t, Consistent(t), t.batch.type = "SCALE_OUT",
         NEW J \in SUBSET In(t, {"JOINING"}), J # {}
  PROVE  LET plan == BuildScaleOutReplan(t, J)
         IN  /\ plan = Ok(plan.next) /\ Sound(t, plan)
             /\ \A S : In(plan.next, S) = In(t, S) \ J
<1> DEFINE m == Without(t.members, J)
           r == [t EXCEPT !.members = m]
           more == In(r, {"JOINING"}) # {}
           b == IF more THEN NewEpoch(t, "SCALE_OUT") ELSE NoBatch
           u == Advance(t, m, b)
<1>1. MembersType(t.members) /\ TopologyType(t) /\ t.version \in Nat /\ NoBatch.type = "NONE"
  BY BatchStates DEF NoBatch
<1>2. /\ t.hasInit /\ In(t, {"LEAVING", "FAILED"}) = {} /\ In(t, Committed) # {}
      /\ t.batch # NoBatch
  BY <1>1, BatchStates
<1>3. /\ MembersType(m) /\ DOMAIN m = DOMAIN t.members \ J
      /\ \A a \in DOMAIN m : m[a] = t.members[a]
  <2>1. /\ MembersType(m) /\ DOMAIN m = DOMAIN t.members \ J
        /\ \A a \in DOMAIN t.members \ J : m[a] = t.members[a]
    BY <1>1, WithoutIs, ZenonT(40)
  <2> HIDE DEF m
  <2> QED BY <2>1
<1>4. r.members = m
  BY <1>1 DEF TopologyType
<1>5. In(r, Committed) # {}
  <2>1. In(t, Committed) \cap J = {}
    BY DEF In, Committed
  <2> QED BY <1>2, <1>3, <1>4, <2>1 DEF In
<1>6. BuildScaleOutReplan(t, J) = Ok(u)
  <2>1. ValidateSelected(t, J, "JOINING")
    BY DEF ValidateSelected
  <2>2. r = [t EXCEPT !.members = Without(@, J)]
    OBVIOUS
  <2> HIDE DEF r
  <2> QED BY <1>4, <1>5, <2>1, <2>2 DEF BuildScaleOutReplan
<1> HIDE DEF m
<1>7. /\ b \in Batch
      /\ more => b # NoBatch /\ b.type = "SCALE_OUT" /\ b.epoch = t.version + 1
      /\ ~ more => b = NoBatch
  <2> HIDE DEF more
  <2> QED BY <1>1, NewEpochIs DEF Batch
<1> HIDE DEF b
<1>8. TopologyType(u) /\ u.version = t.version + 1 /\ u.members = m /\ u.batch = b
  BY <1>1, <1>3, <1>7, AdvanceIs
<1>9. u.hasInit
  <2>1. u.hasInit = t.hasInit
    BY <1>1, <1>3, <1>7, AdvanceIs
  <2> QED BY <1>2, <2>1
<1> HIDE DEF u
<1>10. \A S : In(u, S) = In(t, S) \ J
  BY <1>3, <1>8 DEF In
<1>11. In(u, Committed) # {} /\ In(u, {"LEAVING", "FAILED"}) = {} /\ (more <=> In(u, {"JOINING"}) # {})
  <2>1. In(u, Committed) = In(r, Committed) /\ In(u, {"JOINING"}) = In(r, {"JOINING"})
    <3> HIDE DEF r
    <3> QED BY <1>4, <1>8 DEF In
  <2> QED BY <1>2, <1>5, <1>10, <2>1
<1>12. Owners(u) = Owners(t)
  <2>1. In(t, Committed \cup {"FAILED"}) \cap J = {}
    BY DEF In, Committed
  <2> QED BY <1>10, <2>1 DEF Owners
<1> HIDE DEF more, r
<1>13. Consistent(u)
  <2>1. u.version > 0 /\ (u.batch # NoBatch => u.batch.epoch \in 1 .. u.version)
    BY <1>1, <1>7, <1>8
  <2>2. u.batch = NoBatch => In(u, {"JOINING", "LEAVING", "FAILED"}) = {}
    BY <1>7, <1>8, <1>11 DEF In
  <2>3. u.batch = NoBatch \/ u.batch.type = "SCALE_OUT"
    BY <1>7, <1>8
  <2>4. u.batch.type = "SCALE_OUT" => In(u, {"JOINING"}) # {}
    BY <1>1, <1>7, <1>8, <1>11
  <2>5. u.batch.type \notin {"SCALE_IN", "FAILURE"}
    BY <1>1, <2>3
  <2> QED BY <1>8, <1>9, <1>11, <2>1, <2>2, <2>4, <2>5, MakesConsistent
<1>14. KeepsEpoch(t, u) /\ HandsOver(t, u)
  BY <1>7, <1>8, <1>12, OtherEpoch, SameOwners
<1>15. Sound(t, Ok(u)) /\ Ok(u).next = u
  BY <1>8, <1>13, <1>14, OkIsSound DEF Ok
<1> QED BY <1>6, <1>10, <1>15

\* Admissions, withdrawals and intentions to leave while a batch goes on.
LEMMA SameBatchSound ==
  ASSUME NEW t, Consistent(t), NEW m, MembersType(m),
         NEW u, u = Advance(t, m, t.batch),
         \A s \in {"JOINING", "LEAVING", "FAILED"} : In(u, {s}) = In(t, {s}),
         In(u, Committed) = In(t, Committed)
  PROVE  Sound(t, Ok(u))
<1>1. /\ MembersType(t.members) /\ TopologyType(t) /\ t.version \in Nat /\ NoBatch.type = "NONE"
      /\ t.batch \in Batch
  BY BatchStates DEF NoBatch, TopologyType
<1>2. TopologyType(u) /\ u.version = t.version + 1 /\ u.batch = t.batch
  BY <1>1, AdvanceIs
<1>3. u.hasInit = t.hasInit
  BY <1>1, AdvanceIs
<1>4. \A x : /\ In(x, {"JOINING", "LEAVING", "FAILED"})
                   = In(x, {"JOINING"}) \cup In(x, {"LEAVING"}) \cup In(x, {"FAILED"})
            /\ In(x, {"LEAVING", "FAILED"}) = In(x, {"LEAVING"}) \cup In(x, {"FAILED"})
            /\ In(x, {"JOINING", "FAILED"}) = In(x, {"JOINING"}) \cup In(x, {"FAILED"})
            /\ Owners(x) = In(x, Committed) \cup In(x, {"FAILED"})
  BY DEF In, Owners
<1>5. /\ t.batch = NoBatch => In(t, {"JOINING", "LEAVING", "FAILED"}) = {}
      /\ t.batch # NoBatch => t.batch.epoch \in 1 .. t.version
      /\ In(t, {"JOINING"}) = {} \/ In(t, {"LEAVING"}) = {}
  BY BatchStates, ZenonT(40) DEF Consistent
<1>6. (In(t, Committed) # {} \/ t.batch # NoBatch) => t.hasInit
  BY ZenonT(40) DEF Consistent
<1>7. t.batch.type = "SCALE_OUT" => /\ In(t, {"LEAVING", "FAILED"}) = {}
                                    /\ In(t, {"JOINING"}) # {} /\ In(t, Committed) # {}
  BY <1>1, BatchStates, ZenonT(40)
<1>8. t.batch.type = "SCALE_IN" => In(t, {"JOINING", "FAILED"}) = {} /\ In(t, {"LEAVING"}) # {}
  BY <1>1, BatchStates
<1>9. t.batch.type = "FAILURE" => In(t, {"FAILED"}) # {}
  BY <1>1, BatchStates
<1>10. /\ In(u, {"JOINING", "LEAVING", "FAILED"}) = In(t, {"JOINING", "LEAVING", "FAILED"})
       /\ In(u, {"LEAVING", "FAILED"}) = In(t, {"LEAVING", "FAILED"})
       /\ In(u, {"JOINING", "FAILED"}) = In(t, {"JOINING", "FAILED"})
       /\ In(u, {"JOINING"}) = In(t, {"JOINING"}) /\ In(u, {"LEAVING"}) = In(t, {"LEAVING"})
       /\ In(u, {"FAILED"}) = In(t, {"FAILED"}) /\ Owners(u) = Owners(t)
  BY <1>4
<1>11. Consistent(u)
  <2>1. u.version > 0 /\ (u.batch # NoBatch => u.batch.epoch \in 1 .. u.version)
    BY <1>1, <1>2, <1>5
  <2>2. (In(u, Committed) # {} \/ u.batch # NoBatch) => u.hasInit
    BY <1>2, <1>3, <1>6
  <2> QED BY <1>2, <1>5, <1>7, <1>8, <1>9, <1>10, <2>1, <2>2, MakesConsistent, ZenonT(40)
<1>12. KeepsEpoch(t, u)
  <2>1. t.batch # NoBatch => t.batch.type \in {"SCALE_OUT", "SCALE_IN", "FAILURE"}
    BY BatchStates, ZenonT(40)
  <2> QED BY <1>2, <1>10, <2>1, ZenonT(40) DEF KeepsEpoch, Participants, Participant
<1> QED BY <1>2, <1>10, <1>11, <1>12, SameOwners, OkIsSound
\* The joining members become owners of what their tasks have moved.
LEMMA ScaleOutFinalSound ==
  ASSUME Ordered, NEW t, Consistent(t), t.batch.type = "SCALE_OUT",
         NEW expected, Derives(t, expected), expected \subseteq finished
  PROVE  Sound(t, BuildScaleOutFinal(t))
<1> DEFINE J == In(t, {"JOINING"})
           m == WithState(t.members, J, "ACTIVE")
           u == Advance(t, m, NoBatch)
<1>1. MembersType(t.members) /\ TopologyType(t) /\ t.version \in Nat /\ NoBatch.type = "NONE"
  BY BatchStates, ZenonT(40) DEF NoBatch
<1>2. /\ t.hasInit /\ t.batch # NoBatch /\ In(t, {"LEAVING", "FAILED"}) = {} /\ J # {}
      /\ Participants(t) = J
  BY <1>1, BatchStates, ZenonT(40)
<1>3. /\ MembersType(m) /\ DOMAIN m = DOMAIN t.members
      /\ \A a \in DOMAIN t.members : m[a].state = IF a \in J THEN "ACTIVE" ELSE t.members[a].state
  <2> HIDE DEF J
  <2> QED BY <1>1, WithStateIs DEF MemberState
<1>4. BuildScaleOutFinal(t) = Ok(u)
  BY <1>2 DEF BuildScaleOutFinal
<1> HIDE DEF m
<1>5. TopologyType(u) /\ u.version = t.version + 1 /\ u.members = m /\ u.batch = NoBatch
  BY <1>1, <1>3, AdvanceIs DEF Batch
<1>6. u.hasInit
  <2>1. u.hasInit = t.hasInit
    BY <1>1, <1>3, AdvanceIs DEF Batch
  <2> QED BY <1>2, <2>1
<1> HIDE DEF u
<1>7. \A a \in DOMAIN t.members :
        m[a].state \in {"INITIAL", "ACTIVE", "PRE_LEAVING"} /\
        (m[a].state \in Committed \cup {"FAILED"}
           <=> t.members[a].state \in Committed \cup {"JOINING"})
  <2> TAKE a \in DOMAIN t.members
  <2>1. t.members[a].state \in MemberState \ {"LEAVING", "FAILED"}
    BY <1>1, <1>2 DEF MembersType, Member, In
  <2>2. a \in J <=> t.members[a].state = "JOINING"
    BY DEF In
  <2> HIDE DEF J
  <2> QED BY <1>3, <2>1, <2>2 DEF MemberState, Committed
<1>8. In(u, {"JOINING", "LEAVING", "FAILED"}) = {}
  BY <1>3, <1>5, <1>7, ZenonT(40) DEF In
<1>9. Consistent(u)
  BY <1>1, <1>5, <1>6, <1>8, MakesConsistent
<1>10. PlanOwners(t)[1] = Owners(t) /\ PlanOwners(t)[2] = Owners(u)
  <2>1. PlanOwners(t)[1] = In(t, Committed) /\ PlanOwners(t)[2] = In(t, Committed) \cup J
    BY <1>2 DEF PlanOwners
  <2>2. Owners(t) = In(t, Committed)
    BY <1>2 DEF Owners, In
  <2>3. Owners(u) = In(t, Committed \cup {"JOINING"})
    BY <1>3, <1>5, <1>7 DEF Owners, In
  <2>4. In(t, Committed \cup {"JOINING"}) = In(t, Committed) \cup J
    BY DEF In
  <2> QED BY <2>1, <2>2, <2>3, <2>4
<1>11. HandsOver(t, u)
  <2>1. \A h \in Token :
          LET s == FindOwner(OwnerRing(Owners(t)), h)
              d == FindOwner(OwnerRing(Owners(u)), h)
          IN  s # d => \E task \in expected : /\ task.epoch = t.batch.epoch
                                             /\ task.source = s /\ task.target = d
                                             /\ h \in task.tokens
    BY <1>1, <1>2, <1>10, DerivedTasksCover
  <2> QED BY <2>1, ZenonT(40) DEF HandsOver
<1>12. KeepsEpoch(t, u)
  BY <1>5, OtherEpoch
<1> QED BY <1>4, <1>5, <1>9, <1>11, <1>12, OkIsSound, ZenonT(40)

\* The leaving members have handed over everything they owned.
LEMMA ScaleInFinalSound ==
  ASSUME Ordered, NEW t, Consistent(t), t.batch.type = "SCALE_IN",
         NEW expected, Derives(t, expected), expected \subseteq finished
  PROVE  Sound(t, BuildScaleInFinal(t))
<1> DEFINE L == In(t, {"LEAVING"})
           m == Without(t.members, L)
           u == Advance(t, m, NoBatch)
<1>1. MembersType(t.members) /\ TopologyType(t) /\ t.version \in Nat /\ NoBatch.type = "NONE"
  BY BatchStates, ZenonT(40) DEF NoBatch
<1>2. /\ t.hasInit /\ t.batch # NoBatch /\ In(t, {"JOINING", "FAILED"}) = {} /\ L # {}
      /\ Participants(t) = L
  BY <1>1, BatchStates
<1>3. /\ MembersType(m) /\ DOMAIN m = DOMAIN t.members \ L
      /\ \A a \in DOMAIN t.members \ L : m[a] = t.members[a]
  <2> HIDE DEF L
  <2> QED BY <1>1, WithoutIs, ZenonT(40)
<1>4. BuildScaleInFinal(t) = Ok(u)
  BY <1>2 DEF BuildScaleInFinal
<1> HIDE DEF m
<1>5. TopologyType(u) /\ u.version = t.version + 1 /\ u.members = m /\ u.batch = NoBatch
  BY <1>1, <1>3, AdvanceIs DEF Batch
<1>6. u.hasInit
  <2>1. u.hasInit = t.hasInit
    BY <1>1, <1>3, AdvanceIs DEF Batch
  <2> QED BY <1>2, <2>1
<1> HIDE DEF u
<1>7. \A S : In(u, S) = In(t, S) \ L
  <2> HIDE DEF L
  <2> QED BY <1>3, <1>5 DEF In
<1>8. In(u, {"JOINING", "LEAVING", "FAILED"}) = {}
  BY <1>2, <1>7, ZenonT(40) DEF In
<1>9. Consistent(u)
  BY <1>1, <1>5, <1>6, <1>8, MakesConsistent
<1>10. PlanOwners(t)[1] = Owners(t) /\ PlanOwners(t)[2] = Owners(u)
  <2>1. PlanOwners(t)[1] = In(t, Committed) /\ PlanOwners(t)[2] = In(t, Committed) \ L
    BY <1>2 DEF PlanOwners
  <2>2. Owners(t) = In(t, Committed)
    BY <1>2 DEF Owners, In
  <2>3. Owners(u) = In(t, Committed) \ L
    BY <1>7, <2>2 DEF Owners
  <2> QED BY <2>1, <2>2, <2>3
<1>11. HandsOver(t, u)
  <2>1. \A h \in Token :
          LET s == FindOwner(OwnerRing(Owners(t)), h)
              d == FindOwner(OwnerRing(Owners(u)), h)
          IN  s # d => \E task \in expected : /\ task.epoch = t.batch.epoch
                                             /\ task.source = s /\ task.target = d
                                             /\ h \in task.tokens
    BY <1>1, <1>2, <1>10, DerivedTasksCover
  <2> QED BY <2>1, ZenonT(40) DEF HandsOver
<1>12. KeepsEpoch(t, u)
  BY <1>5, OtherEpoch, ZenonT(40)
<1> QED BY <1>4, <1>5, <1>9, <1>11, <1>12, OkIsSound, ZenonT(40)
\* The failed members go; the others keep what they own, and the preempted
\* batch goes on.
LEMMA FailureFinalSound ==
  ASSUME Ordered, NEW t, Consistent(t), t.batch.type = "FAILURE"
  PROVE  Sound(t, BuildFailureFinal(t))
<1> DEFINE F == In(t, {"FAILED"})
           w == Without(t.members, F)
           r == [t EXCEPT !.members = w]
           none == In(r, Committed) = {}
           m == IF none THEN Without(w, DOMAIN w) ELSE w
           b == CASE none                                  -> NoBatch
                  [] ~ none /\ In(r, {"JOINING"}) # {}     -> NewEpoch(t, "SCALE_OUT")
                  [] /\ ~ none /\ In(r, {"JOINING"}) = {}
                     /\ In(r, {"LEAVING"}) # {}            -> NewEpoch(t, "SCALE_IN")
                  [] OTHER                                 -> NoBatch
           u == Advance(t, m, b)
<1>1. MembersType(t.members) /\ TopologyType(t) /\ t.version \in Nat /\ NoBatch.type = "NONE"
  BY BatchStates DEF NoBatch
<1>2. t.hasInit /\ t.batch # NoBatch /\ F # {}
  BY <1>1, BatchStates
<1>3. /\ MembersType(w) /\ DOMAIN w = DOMAIN t.members \ F
      /\ \A a \in DOMAIN t.members \ F : w[a] = t.members[a]
  <2> HIDE DEF F
  <2> QED BY <1>1, WithoutIs, ZenonT(40)
<1>4. r.members = w
  BY <1>1 DEF TopologyType
<1>5. BuildFailureFinal(t) = Ok(u)
  <2>1. r = [t EXCEPT !.members = Without(@, F)] /\ r.members = w
    BY <1>4
  <2> HIDE DEF r
  <2> QED BY <1>2, <2>1 DEF BuildFailureFinal
<1>6. \A S : In(r, S) = In(t, S) \ F
  <2> HIDE DEF F, r
  <2> QED BY <1>3, <1>4 DEF In
<1>7. In(r, {"FAILED"}) = {} /\ (In(r, {"JOINING"}) = {} \/ In(r, {"LEAVING"}) = {})
  BY <1>6 DEF Consistent
<1>8. MembersType(m) /\ (none => DOMAIN m = {}) /\ (~ none => m = w)
  <2>1. MembersType(Without(w, DOMAIN w)) /\ DOMAIN Without(w, DOMAIN w) = DOMAIN w \ DOMAIN w
    <3> HIDE DEF w
    <3> QED BY <1>3, WithoutIs, ZenonT(40)
  <2> HIDE DEF w, none
  <2> QED BY <1>3, <2>1
<1>9. /\ b \in Batch
      /\ none => b = NoBatch
      /\ ~ none /\ In(r, {"JOINING"}) # {} =>
           b # NoBatch /\ b.type = "SCALE_OUT" /\ b.epoch = t.version + 1
      /\ ~ none /\ In(r, {"JOINING"}) = {} /\ In(r, {"LEAVING"}) # {} =>
           b # NoBatch /\ b.type = "SCALE_IN" /\ b.epoch = t.version + 1
      /\ ~ none /\ In(r, {"JOINING"}) = {} /\ In(r, {"LEAVING"}) = {} => b = NoBatch
  <2>1. \A type \in {"SCALE_OUT", "SCALE_IN"} :
          /\ NewEpoch(t, type) \in Batch /\ NewEpoch(t, type) # NoBatch
          /\ NewEpoch(t, type).type = type /\ NewEpoch(t, type).epoch = t.version + 1
    BY <1>1, NewEpochIs
  <2>2. NoBatch \in Batch
    BY DEF Batch
  <2> HIDE DEF none, r
  <2> QED BY <2>1, <2>2
<1> HIDE DEF w, m, b
<1>10. TopologyType(u) /\ u.version = t.version + 1 /\ u.members = m /\ u.batch = b
  BY <1>1, <1>8, <1>9, AdvanceIs
<1>11. u.hasInit
  <2>1. u.hasInit = t.hasInit
    BY <1>1, <1>8, <1>9, AdvanceIs
  <2> QED BY <1>2, <2>1
<1> HIDE DEF u, r
<1>12. KeepsEpoch(t, u)
  BY <1>9, <1>10, OtherEpoch
<1>13. CASE none
  <2>1. \A S : In(u, S) = {}
    BY <1>8, <1>10, <1>13 DEF In
  <2>2. u.batch = NoBatch /\ u.version > 0
    BY <1>1, <1>9, <1>10, <1>13
  <2>3. Consistent(u)
    BY <1>1, <1>10, <1>11, <2>1, <2>2, MakesConsistent
  <2>4. HandsOver(t, u)
    BY <2>1 DEF HandsOver
  <2> QED BY <1>5, <1>10, <1>12, <2>3, <2>4, OkIsSound
<1>14. CASE ~ none
  <2>1. \A S : In(u, S) = In(r, S)
    BY <1>4, <1>8, <1>10, <1>14 DEF In
  <2>2. u.batch # NoBatch => u.batch.epoch \in 1 .. u.version
    BY <1>1, <1>7, <1>9, <1>10, <1>14
  <2>3. u.batch = NoBatch => In(u, {"JOINING", "LEAVING", "FAILED"}) = {}
    <3>1. u.batch = NoBatch => In(r, {"JOINING"}) = {} /\ In(r, {"LEAVING"}) = {}
      BY <1>9, <1>10, <1>14
    <3> QED BY <1>7, <2>1, <3>1, ZenonT(40) DEF In
  <2>4. u.batch.type = "SCALE_OUT" => /\ In(u, {"LEAVING", "FAILED"}) = {}
                                      /\ In(u, {"JOINING"}) # {} /\ In(u, Committed) # {}
    <3>1. u.batch.type = "SCALE_OUT" => In(r, {"JOINING"}) # {}
      BY <1>1, <1>9, <1>10, <1>14
    <3>2. In(r, {"LEAVING", "FAILED"}) = In(r, {"LEAVING"}) \cup In(r, {"FAILED"})
      BY DEF In
    <3> QED BY <1>7, <1>14, <2>1, <3>1, <3>2
  <2>5. u.batch.type = "SCALE_IN" => In(u, {"JOINING", "FAILED"}) = {} /\ In(u, {"LEAVING"}) # {}
    <3>1. u.batch.type = "SCALE_IN" => In(r, {"LEAVING"}) # {}
      BY <1>1, <1>9, <1>10, <1>14
    <3>2. In(r, {"JOINING", "FAILED"}) = In(r, {"JOINING"}) \cup In(r, {"FAILED"})
      BY DEF In
    <3> QED BY <1>7, <2>1, <3>1, <3>2
  <2>6. u.batch.type # "FAILURE" /\ u.version > 0
    BY <1>1, <1>9, <1>10, <1>14
  <2>7. Consistent(u)
    BY <1>10, <1>11, <2>2, <2>3, <2>4, <2>5, <2>6, MakesConsistent, ZenonT(40)
  <2>8. Owners(u) = In(t, Committed) /\ Owners(u) \subseteq Owners(t)
    <3>1. In(t, Committed \cup {"FAILED"}) \ F = In(t, Committed)
      BY DEF In, Committed
    <3>2. In(t, Committed) \subseteq In(t, Committed \cup {"FAILED"})
      BY DEF In
    <3> QED BY <1>6, <2>1, <3>1, <3>2 DEF Owners
  <2>9. Owners(t) \in SUBSET Address /\ Owners(t) # {} /\ Owners(t) = In(t, Committed) \cup F
    BY <1>1, <1>2 DEF Owners, In, TopologyType
  <2>10. ASSUME NEW h \in Token, FindOwner(OwnerRing(Owners(t)), h) \notin F
         PROVE  FindOwner(OwnerRing(Owners(u)), h) = FindOwner(OwnerRing(Owners(t)), h)
    <3>1. FindOwner(OwnerRing(Owners(t)), h) \in Owners(t)
      BY <2>9, OwnerIsMember
    <3>2. FindOwner(OwnerRing(Owners(t)), h) \in Owners(u)
      BY <2>8, <2>9, <2>10, <3>1, ZenonT(40)
    <3> QED BY <2>8, <2>9, <3>2, OwnerStays
  <2>11. HandsOver(t, u)
    BY <2>10, ZenonT(40) DEF HandsOver
  <2> QED BY <1>5, <1>10, <1>12, <2>7, <2>11, OkIsSound
<1> QED BY <1>13, <1>14, ZenonT(40)
\* The topology a batch starts from: what was read, or in direct mode that
\* with the candidates admitted or marked as leaving.
StartsFrom(t, x) ==
  /\ TopologyType(x) /\ x.version = t.version /\ x.hasInit = t.hasInit /\ x.batch = NoBatch
  /\ In(x, Committed) = In(t, Committed)
  /\ In(x, {"JOINING", "LEAVING", "FAILED"}) = {}

\* The members of A, in a state of which none is an owner's or all are, enter the batch.
LEMMA StartSound ==
  ASSUME NEW t, Consistent(t), t.batch = NoBatch, t.hasInit, NEW x, StartsFrom(t, x),
         In(t, Committed) # {}, NEW A, A # {},
         NEW type \in {"SCALE_OUT", "SCALE_IN"}, NEW s, NEW s0, s0 # s,
         type = "SCALE_OUT" => s = "JOINING" /\ s0 = "INITIAL",
         type = "SCALE_IN" => s = "LEAVING" /\ s0 = "PRE_LEAVING",
         A \subseteq In(x, {s0})
  PROVE  Sound(t, Ok(Advance(x, WithState(x.members, A, s), NewEpoch(x, type))))
<1> DEFINE m == WithState(x.members, A, s)
           b == NewEpoch(x, type)
           u == Advance(x, m, b)
<1>1. MembersType(x.members) /\ TopologyType(x) /\ x.version \in Nat /\ s \in MemberState
  BY ZenonT(40) DEF StartsFrom, TopologyType, MembersType, MemberState
<1>2. /\ MembersType(m) /\ DOMAIN m = DOMAIN x.members
      /\ \A a \in DOMAIN x.members : m[a].state = IF a \in A THEN s ELSE x.members[a].state
  BY <1>1, WithStateIs
<1> HIDE DEF m
<1>3. b \in Batch /\ b # NoBatch /\ b.type = type /\ b.epoch = t.version + 1
  BY <1>1, NewEpochIs, ZenonT(40) DEF StartsFrom
<1> HIDE DEF b
<1>4. TopologyType(u) /\ u.version = t.version + 1 /\ u.members = m /\ u.batch = b
  BY <1>1, <1>2, <1>3, AdvanceIs DEF StartsFrom
<1>5. u.hasInit
  <2>1. u.hasInit = x.hasInit
    BY <1>1, <1>2, <1>3, AdvanceIs
  <2> QED BY <2>1, ZenonT(40) DEF StartsFrom
<1> HIDE DEF u
<1>6. \A a \in DOMAIN x.members :
        /\ a \in A => x.members[a].state = s0 /\ m[a].state = s
        /\ a \notin A => m[a].state = x.members[a].state
        /\ x.members[a].state \notin {"JOINING", "LEAVING", "FAILED"}
  BY <1>2 DEF In, StartsFrom
<1>7. A \subseteq DOMAIN x.members
  BY DEF In
<1>8. In(u, Committed) = In(t, Committed)
  <2>1. In(u, Committed) = In(x, Committed)
    BY <1>2, <1>4, <1>6, ZenonT(40) DEF In, Committed
  <2> QED BY <2>1 DEF StartsFrom
<1>9. In(u, {s}) # {} /\ In(u, {"JOINING", "LEAVING", "FAILED"} \ {s}) = {}
  BY <1>2, <1>4, <1>6, <1>7 DEF In
<1>10. Owners(u) = Owners(t)
  <2>1. In(u, {"FAILED"}) = {} /\ In(t, {"FAILED"}) = {}
    BY <1>2, <1>4, <1>6, BatchStates DEF In
  <2>2. \A y : Owners(y) = In(y, Committed) \cup In(y, {"FAILED"})
    BY ZenonT(40) DEF Owners, In
  <2> QED BY <1>8, <2>1, <2>2, ZenonT(40)
<1>11. Consistent(u)
  <2>1. u.version > 0 /\ u.batch # NoBatch /\ u.batch.epoch \in 1 .. u.version
    BY <1>1, <1>3, <1>4 DEF StartsFrom
  <2>2. u.batch.type = "SCALE_OUT" => /\ In(u, {"LEAVING", "FAILED"}) = {}
                                      /\ In(u, {"JOINING"}) # {} /\ In(u, Committed) # {}
    BY <1>3, <1>4, <1>8, <1>9, ZenonT(40) DEF In
  <2>3. u.batch.type = "SCALE_IN" => In(u, {"JOINING", "FAILED"}) = {} /\ In(u, {"LEAVING"}) # {}
    BY <1>3, <1>4, <1>9, ZenonT(40) DEF In
  <2>4. u.batch.type # "FAILURE"
    BY <1>3, <1>4, ZenonT(40)
  <2> QED BY <1>4, <1>5, <2>1, <2>2, <2>3, <2>4, MakesConsistent, ZenonT(40)
<1>12. KeepsEpoch(t, u) /\ HandsOver(t, u)
  BY <1>3, <1>4, <1>10, OtherEpoch, SameOwners
<1> QED BY <1>4, <1>11, <1>12, OkIsSound DEF u, b, m

LEMMA ScaleOutStartSound ==
  ASSUME NEW t, Consistent(t), t.batch = NoBatch, NEW x, StartsFrom(t, x),
         In(t, Committed) # {}, NEW A, A # {}, A \subseteq In(x, {"INITIAL"})
  PROVE  Sound(t, BuildScaleOutStart(x, A))
<1> DEFINE m == Without(x.members, A)
           current == [x EXCEPT !.members = m]
<1>1. MembersType(x.members) /\ TopologyType(x) /\ t.hasInit
  BY DEF StartsFrom, TopologyType, MembersType, Consistent
<1>2. x.hasInit
  BY <1>1 DEF StartsFrom
<1>3. /\ DOMAIN m = DOMAIN x.members \ A
      /\ \A a \in DOMAIN x.members \ A : m[a] = x.members[a]
  BY <1>1, WithoutIs, ZenonT(40)
<1> HIDE DEF m
<1>4. current.members = m
  BY <1>1 DEF TopologyType
<1> HIDE DEF current
<1>5. In(current, Committed) # {}
  <2>1. In(x, Committed) \cap A = {}
    BY DEF In, Committed
  <2>2. In(current, Committed) = In(x, Committed) \ A
    BY <1>3, <1>4 DEF In
  <2> QED BY <2>1, <2>2 DEF StartsFrom
<1>6. ValidatePlacement(current) /\ ValidateSelected(x, A, "INITIAL")
  BY <1>5 DEF ValidatePlacement, ValidateSelected
<1>7. current = [x EXCEPT !.members = Without(@, A)]
  BY DEF current, m
<1>8. x.batch = NoBatch
  BY DEF StartsFrom
<1>9. BuildScaleOutStart(x, A)
        = Ok(Advance(x, WithState(x.members, A, "JOINING"), NewEpoch(x, "SCALE_OUT")))
  BY <1>2, <1>5, <1>6, <1>7, <1>8 DEF BuildScaleOutStart
<1> QED BY <1>1, <1>9, StartSound

LEMMA ScaleInStartSound ==
  ASSUME NEW t, Consistent(t), t.batch = NoBatch, NEW x, StartsFrom(t, x),
         In(t, Committed) # {}, NEW A, A # {}, A \subseteq In(x, {"PRE_LEAVING"})
  PROVE  Sound(t, BuildScaleInStart(x, A))
<1>1. t.hasInit
  BY DEF Consistent
<1>2. x.hasInit /\ x.batch = NoBatch /\ ValidateSelected(x, A, "PRE_LEAVING")
  BY <1>1 DEF StartsFrom, ValidateSelected
<1>3. CASE In(x, Committed) \ A = {}
  <2>1. BuildScaleInStart(x, A) = Refuse("K_NOT_READY", x)
    BY <1>2, <1>3 DEF BuildScaleInStart
  <2> QED BY <2>1 DEF Sound, Refuse
<1>4. CASE In(x, Committed) \ A # {}
  <2>1. BuildScaleInStart(x, A)
          = Ok(Advance(x, WithState(x.members, A, "LEAVING"), NewEpoch(x, "SCALE_IN")))
    BY <1>2, <1>4 DEF BuildScaleInStart
  <2> QED BY <1>1, <2>1, StartSound
<1> QED BY <1>3, <1>4
-----------------------------------------------------------------------------
(* Controllers in general. *)

LEMMA AuthorityVersion ==
  ASSUME NEW auth, AuthorityInv(auth)
  PROVE  /\ TopologyType(auth) /\ auth.version \in Nat
         /\ auth.version = 0 <=> auth = NoTopology
         /\ auth # NoTopology => Consistent(auth) /\ auth.version > 0
<1>1. CASE auth = NoTopology
  BY <1>1, NothingIs
<1>2. CASE Consistent(auth) /\ auth # NoTopology
  BY <1>2, BatchStates
<1> QED BY <1>1, <1>2 DEF AuthorityInv

\* A newer authority, or more finished tasks, invalidate nothing a controller knows.
LEMMA OthersKept ==
  ASSUME NEW k, NEW auth, NEW fin, ControllerInv(k, auth, fin), AuthorityInv(auth),
         NEW auth2, AuthorityInv(auth2), auth2 = auth \/ auth2.version > auth.version,
         NEW fin2, fin \subseteq fin2
  PROVE  ControllerInv(k, auth2, fin2)
<1>1. auth.version \in Nat /\ auth2.version \in Nat
  BY AuthorityVersion
<1>2. k.latest.version \in Nat /\ k.derived \in Nat
  BY DEF ControllerInv, ControllerType, TopologyType
<1>3. CacheInv(k, auth2)
  BY <1>1, <1>2 DEF ControllerInv, CacheInv
<1>4. DerivedInv(k, auth2)
  BY <1>1, <1>2 DEF ControllerInv, DerivedInv
<1>5. ProgressInv(k, fin2)
  BY DEF ControllerInv, ProgressInv
<1> QED BY <1>3, <1>4, <1>5 DEF ControllerInv

\* The end of a tick, with or without a commit that has succeeded.
LEMMA IdleInv ==
  ASSUME NEW k, NEW auth, NEW fin, ControllerInv(k, auth, fin), AuthorityInv(auth),
         NEW u, NEW err \in {"K_OK", "K_NOT_READY", "K_TRY_AGAIN", "DIFFERENT_BYTES"},
         u = k.latest \/ (u = auth /\ u # NoTopology)
  PROVE  ControllerInv(Idle([k EXCEPT !.latest = u], err), auth, fin)
<1> DEFINE l == IF Mode = "EXTERNAL" THEN NoTopology ELSE u
           e == IF Mode = "EXTERNAL" THEN None ELSE k.seen
           y == [k EXCEPT !.pc = "idle", !.confirmed = {}, !.retained = FALSE, !.summary = {},
                          !.err = err, !.latest = l, !.seen = e]
<1>1. ControllerType(k)
  BY DEF ControllerInv
<1>2. Idle([k EXCEPT !.latest = u], err) = y
  BY <1>1, ZenonT(40) DEF Idle, ControllerType
<1>3. /\ TopologyType(l) /\ MembershipType(e)
      /\ l = NoTopology \/ l = k.latest \/ (l = auth /\ l # NoTopology)
  BY <1>1, NothingIs, AuthorityVersion DEF ControllerType
<1> HIDE DEF l, e
<1>4. /\ y.pc = "idle" /\ y.confirmed = {} /\ y.err = err /\ y.latest = l /\ y.seen = e
      /\ y.derived = k.derived /\ y.expected = k.expected /\ y.progress = k.progress
      /\ y.done = k.done /\ y.sweep = k.sweep
  BY <1>1 DEF ControllerType
<1>5. ControllerType(y)
  BY <1>1, <1>3, <1>4, ZenonT(40) DEF ControllerType
<1> HIDE DEF y
<1>6. /\ auth.version \in Nat /\ k.derived \in Nat /\ NoTopology.version = 0
      /\ k.latest.version \in Nat /\ (auth.version = 0 => auth = NoTopology)
  BY <1>1, AuthorityVersion, NothingIs DEF ControllerType, TopologyType
<1>7. CacheInv(y, auth)
  <2>1. l = NoTopology \/ Consistent(l)
    BY <1>3 DEF ControllerInv, CacheInv, AuthorityInv
  <2>2. l.version <= auth.version /\ (l.version = auth.version => l = auth)
    BY <1>3, <1>6 DEF ControllerInv, CacheInv
  <2> QED BY <1>4, <2>1, <2>2 DEF CacheInv
<1>8. FactsInv(y)
  BY <1>4, ZenonT(40) DEF FactsInv
<1>9. DerivedInv(y, auth)
  BY <1>3, <1>4, <1>6 DEF ControllerInv, DerivedInv
<1>10. ProgressInv(y, fin)
  BY <1>4, ZenonT(40) DEF ControllerInv, ProgressInv
<1> QED BY <1>2, <1>4, <1>5, <1>7, <1>8, <1>9, <1>10 DEF ControllerInv
\* Whoever moves on within a tick has read a topology.
LEMMA GotoInv ==
  ASSUME NEW k, NEW auth, NEW fin, ControllerInv(k, auth, fin), k.latest # NoTopology,
         NEW pc \in {"confirm", "facts", "derive", "finalize", "start"},
         pc = "finalize" => k.derived = k.latest.version
  PROVE  ControllerInv([k EXCEPT !.pc = pc], auth, fin)
<1> DEFINE y == [k EXCEPT !.pc = pc]
<1>1. ControllerType(k)
  BY DEF ControllerInv
<1>2. /\ y.pc = pc /\ y.confirmed = k.confirmed /\ y.err = k.err /\ y.latest = k.latest
      /\ y.seen = k.seen /\ y.derived = k.derived /\ y.expected = k.expected
      /\ y.progress = k.progress /\ y.done = k.done /\ y.sweep = k.sweep
  BY <1>1 DEF ControllerType
<1>3. ControllerType(y)
  BY <1>1, <1>2 DEF ControllerType
<1> HIDE DEF y
<1>4. CacheInv(y, auth) /\ FactsInv(y)
  BY <1>2, ZenonT(40) DEF ControllerInv, CacheInv, FactsInv
<1>5. DerivedInv(y, auth) /\ ProgressInv(y, fin)
  BY <1>2, ZenonT(40) DEF ControllerInv, DerivedInv, ProgressInv
<1>6. y.err # "K_INVALID"
  BY <1>2 DEF ControllerInv
<1> QED BY <1>3, <1>4, <1>5, <1>6, ZenonT(40) DEF ControllerInv, y

\* What no step may do to the authority.
StepSound ==
  authority' = authority \/ (KeepsEpoch(authority, authority') /\ HandsOver(authority, authority'))

\* A step of one controller that leaves the authority alone.
LEMMA StepInv ==
  ASSUME Inv, NEW c \in Controller, NEW k, ControllerInv(k, authority, finished), Step(c, k),
         authority' = authority, MembershipType(membership)', tasks' \in SUBSET Task,
         finished' = finished, finished \subseteq tasks',
         changes' \in Nat, alarms' \in Nat, deployment' = deployment
  PROVE  Inv' /\ StepSound
<1>1. Controller' = Controller /\ DOMAIN ctl' = Controller
  BY DEF Controller, Inv, StoreInv, Step
<1>2. StoreInv'
  BY <1>1 DEF Inv, StoreInv
<1>3. ASSUME NEW d \in Controller PROVE ControllerInv(ctl'[d], authority', finished')
  <2>1. ctl'[d] = IF d = c THEN k ELSE ctl[d]
    BY DEF Inv, StoreInv, Step
  <2>2. ControllerInv(ctl[d], authority, finished)
    BY DEF Inv
  <2> QED BY <2>1, <2>2
<1> QED BY <1>1, <1>2, <1>3 DEF Inv, StepSound

\* CommitAndReadBack of a sound plan.
LEMMA CommitInv ==
  ASSUME Inv, NEW c \in Controller, NEW k, ControllerInv(k, authority, finished),
         k.latest # NoTopology, NEW plan, Sound(k.latest, plan),
         NEW final, ControllerInv(final, authority, finished), final.latest = k.latest,
         Commit(c, k, plan, final),
         membership' = membership, tasks' = tasks, finished' = finished,
         changes' = changes, alarms' \in Nat, deployment' = deployment
  PROVE  Inv' /\ StepSound
<1>0. /\ AuthorityInv(authority) /\ ControllerType(k) /\ ControllerType(final)
      /\ k = [k EXCEPT !.latest = k.latest]
  BY DEF Inv, StoreInv, ControllerInv, ControllerType
<1>1. ASSUME NEW err \in {"K_NOT_READY", "K_TRY_AGAIN", "DIFFERENT_BYTES"},
             authority' = authority, Step(c, Idle(k, err))
      PROVE  Inv' /\ StepSound
  <2>1. ControllerInv(Idle(k, err), authority, finished)
    BY <1>0, IdleInv
  <2> HIDE DEF Idle
  <2> QED BY <1>1, <2>1, StepInv, ZenonT(40) DEF Inv, StoreInv
<1>2. CASE Refused(plan)
  <2>1. plan.rc = "K_NOT_READY"
    BY <1>2, ZenonT(40) DEF Refused, Sound, Consistent
  <2>2. authority' = authority /\ Step(c, Idle(k, "K_NOT_READY"))
    BY <1>2, <2>1 DEF Commit
  <2> QED BY <1>1, <2>2
<1>3. CASE ~ Refused(plan) /\ (authority' = authority /\ \E err \in {"K_TRY_AGAIN", "DIFFERENT_BYTES"} : Step(c, Idle(k, err)))
  BY <1>1, <1>3, ZenonT(40)
<1>4. CASE /\ ~ Refused(plan) /\ authority' = plan.next
           /\ authority.version = k.latest.version \/ authority = plan.next
           /\ Step(c, Idle([final EXCEPT !.latest = plan.next], "K_OK"))
  <2> DEFINE u == plan.next
             y == Idle([final EXCEPT !.latest = u], "K_OK")
  <2>1. /\ Consistent(u) /\ u.version = k.latest.version + 1 /\ KeepsEpoch(k.latest, u)
        /\ HandsOver(k.latest, u)
    BY <1>4 DEF Refused, Sound
  <2>2. k.latest.version \in Nat /\ u.version \in Nat \ {0} /\ NoTopology.version = 0
    BY <1>0, <2>1, BatchStates, NothingIs, ZenonT(40) DEF ControllerType, TopologyType
  <2>3. authority.version = k.latest.version => authority = k.latest
    BY ZenonT(40) DEF ControllerInv, CacheInv
  <2>4. AuthorityInv(u) /\ u # NoTopology
    BY <2>1, <2>2 DEF AuthorityInv
  <2>5. u = authority \/ u.version > authority.version
    BY <1>4, <2>1, <2>2
  <2> HIDE DEF u
  <2>6. \A d \in Controller : ControllerInv(ctl[d], u, finished)
    BY <1>0, <2>4, <2>5, OthersKept DEF Inv
  <2>7. ControllerInv(final, u, finished)
    BY <1>0, <2>4, <2>5, OthersKept
  <2>8. ControllerInv(y, u, finished)
    BY <2>4, <2>7, IdleInv
  <2>9. Step(c, y) /\ authority' = u
    BY <1>4 DEF u
  <2> HIDE DEF y
  <2>10. Controller' = Controller /\ DOMAIN ctl' = Controller
    BY <2>9, ZenonT(40) DEF Controller, Inv, StoreInv, Step
  <2>11. StoreInv'
    BY <2>4, <2>9, <2>10, ZenonT(40) DEF Inv, StoreInv
  <2>12. ASSUME NEW d \in Controller PROVE ControllerInv(ctl'[d], authority', finished')
    <3>1. ctl'[d] = IF d = c THEN y ELSE ctl[d]
      BY <2>9, ZenonT(40) DEF Inv, StoreInv, Step
    <3> QED BY <2>6, <2>8, <2>9, <3>1
  <2>13. StepSound
    BY <1>4, <2>1, <2>3, <2>9 DEF StepSound, u
  <2> QED BY <2>10, <2>11, <2>12, <2>13 DEF Inv
<1> QED BY <1>2, <1>3, <1>4 DEF Commit
=============================================================================
