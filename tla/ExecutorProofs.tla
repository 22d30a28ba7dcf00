---------------------------- MODULE ExecutorProofs ----------------------------
(***************************************************************************)
(* Proofs about the task executor of a worker, for any tasks, batches,     *)
(* slots, attempts and faults.  What they need to know of counting is the  *)
(* hypothesis Counting, which ExecutorTheorems discharges.                 *)
(***************************************************************************)
EXTENDS TopologyTaskExecutor, TLAPS

\* A leaf is tried with SMT, then with Zenon, then with SMT for longer.
USE SMTT(30), ZenonT(40), SMTT(60)

Op == [inFlight : BOOLEAN, scheduled : BOOLEAN, attempts : Nat,
       progressReady : BOOLEAN, metadataDone : BOOLEAN]
Ops == UNION {[D -> Op] : D \in SUBSET Key}
Executors == [running : BOOLEAN, epoch : Nat, ops : Ops, gate : SUBSET Key, window : BOOLEAN]
Stages == {"body", "invoke", "completion", "authorize", "metadata", "progress", "apply"}
Job == [stage : Stages, status : {"OK", "RETRY", "FATAL"}, cleanup : BOOLEAN, cancelled : BOOLEAN]
Jobs == UNION {[D -> Job] : D \in SUBSET Key}
Loops == [pc : {"idle", "submit", "tick"}, todo : SUBSET Key]

ExecutorTypes ==
  /\ batches \in Histories /\ authority \in Nat /\ snapshot \in Nat
  /\ loop \in Loops /\ ex \in Executors /\ jobs \in Jobs

\* What business code has done before the task k is finished.
Done(k) ==
  /\ TypeOf(k) = "SCALE_IN" =>
       k \in marker /\ {<<k, e>> : e \in {"migrate", "drain", "apply"}} \subseteq effects
  /\ TypeOf(k) = "SCALE_OUT" => <<k, "scale-out">> \in effects

MetadataMoved(k) == TypeOf(k) = "SCALE_IN" /\ k \in marker /\ <<k, "migrate">> \in effects

\* The source is drained; its operation knows of the marker.
Drained(k) ==
  /\ k \in marker /\ <<k, "drain">> \in effects /\ TypeOf(k) = "SCALE_IN"
  /\ ex.running => ex.ops[k].metadataDone

\* An operation: of the executor's epoch, in flight while it has a job, with
\* flags that tell what was done, and in the gate while its marker is missing.
OpInv(k) ==
  /\ k \in DOMAIN ex.ops =>
       /\ EpochOf(k) = ex.epoch
       /\ ex.ops[k].inFlight => k \in DOMAIN jobs
       /\ ex.ops[k].metadataDone => MetadataMoved(k)
       /\ ex.ops[k].progressReady => Done(k)
       /\ ex.window /\ ex.ops[k].attempts > 0 /\ TypeOf(k) = "SCALE_IN"
            => ex.ops[k].metadataDone \/ k \in ex.gate
  /\ k \in ex.gate => k \in DOMAIN ex.ops

\* A job: what its stage says has been done.
JobInv(k) ==
  k \in DOMAIN jobs =>
    /\ ex.running => k \in DOMAIN ex.ops /\ ex.ops[k].inFlight
    /\ jobs[k].stage = "completion" /\ jobs[k].status = "OK" /\ ex.running =>
         /\ TypeOf(k) = "SCALE_OUT" => <<k, "scale-out">> \in effects
         /\ jobs[k].cleanup => Drained(k)
         /\ ~ jobs[k].cleanup /\ TypeOf(k) = "SCALE_IN" =>
              IF ex.ops[k].metadataDone THEN <<k, "apply">> \in effects ELSE <<k, "migrate">> \in effects
    /\ jobs[k].stage \in {"authorize", "apply"} => Drained(k)
    /\ jobs[k].stage = "metadata" => TypeOf(k) = "SCALE_IN" /\ <<k, "migrate">> \in effects
    /\ jobs[k].stage = "progress" => Done(k)

\* What the Run loop still has to handle.
TodoInv(k) ==
  k \in loop.todo =>
    /\ loop.pc = "submit" => EpochOf(k) = ex.epoch
    /\ loop.pc = "tick" /\ k \in DOMAIN ex.ops => ~ ex.ops[k].inFlight

StoreInv(k) ==
  /\ k \in finished => Done(k)
  /\ <<k, "apply">> \in effects => <<k, "drain">> \in effects /\ k \in marker

KeyInv(k) == OpInv(k) /\ JobInv(k) /\ TodoInv(k) /\ StoreInv(k)

\* Finite sets: the empty one, a subset, one more element.
Counting ==
  /\ IsFiniteSet({}) /\ Cardinality({}) = 0
  /\ \A S : IsFiniteSet(S) => Cardinality(S) \in Nat
  /\ \A S, T : IsFiniteSet(S) /\ T \subseteq S => IsFiniteSet(T) /\ Cardinality(T) <= Cardinality(S)
  /\ \A S, x : IsFiniteSet(S) =>
       IsFiniteSet(S \cup {x}) /\ Cardinality(S \cup {x}) <= Cardinality(S) + 1

Bounded(S) == IsFiniteSet(S) /\ Cardinality(S) <= Capacity

SlotInv == Counting => Bounded(InFlight(ex))

ExecutorInv ==
  /\ ExecutorTypes
  /\ finished \subseteq Key /\ handoff \subseteq Key
  /\ SlotInv
  /\ HandoffOfThisBatch
  /\ \A k \in Key : KeyInv(k)

(***************************************************************************)
(* The bookkeeping operators: which operation they touch, and how.         *)
(***************************************************************************)
\* y is x with at most the operation k changed, but for what is due when.
Touches(x, y, k) ==
  /\ y \in Executors
  /\ y.running = x.running /\ y.epoch = x.epoch /\ y.window = x.window
  /\ \A j \in Key \ {k} :
       /\ j \in DOMAIN y.ops <=> j \in DOMAIN x.ops
       /\ j \in DOMAIN x.ops =>
            /\ y.ops[j].inFlight = x.ops[j].inFlight
            /\ y.ops[j].attempts = x.ops[j].attempts
            /\ y.ops[j].progressReady = x.ops[j].progressReady
            /\ y.ops[j].metadataDone = x.ops[j].metadataDone
       /\ j \in y.gate <=> j \in x.gate

\* The operation k is gone.
Erased(y, k) == k \notin DOMAIN y.ops /\ k \notin y.gate

\* The operation k is kept with the slot free.
Kept(x, y, k) ==
  /\ k \in DOMAIN x.ops /\ k \in DOMAIN y.ops
  /\ ~ y.ops[k].inFlight
  /\ y.ops[k].attempts = x.ops[k].attempts
  /\ y.ops[k].metadataDone = x.ops[k].metadataDone
  /\ y.ops[k].progressReady => x.ops[k].progressReady \/ Done(k)
  /\ k \in y.gate <=> k \in x.gate

Settled(x, y, k) == Touches(x, y, k) /\ (Erased(y, k) \/ Kept(x, y, k))

LEMMA OpsShape == \A f : f \in Ops => DOMAIN f \subseteq Key /\ \A k \in DOMAIN f : f[k] \in Op
  BY DEF Ops

LEMMA DropOps == \A f \in Ops : \A k : Drop(f, k) \in Ops /\ DOMAIN Drop(f, k) = DOMAIN f \ {k}
                                   /\ \A j \in DOMAIN f \ {k} : Drop(f, k)[j] = f[j]
  <1> SUFFICES ASSUME NEW f \in Ops, NEW k
               PROVE Drop(f, k) \in Ops /\ DOMAIN Drop(f, k) = DOMAIN f \ {k}
                     /\ \A j \in DOMAIN f \ {k} : Drop(f, k)[j] = f[j]
      BY ZenonT(40)
  <1>1. Drop(f, k) \in [DOMAIN f \ {k} -> Op] BY OpsShape DEF Drop
  <1>2. DOMAIN f \ {k} \in SUBSET Key BY OpsShape
  <1>3. Drop(f, k) \in Ops BY <1>1, <1>2 DEF Ops
  <1> QED BY <1>3 DEF Drop

LEMMA SetOps ==
  ASSUME NEW f \in Ops, NEW k \in Key, NEW o \in Op
  PROVE  /\ Set(f, k, o) \in Ops /\ DOMAIN Set(f, k, o) = DOMAIN f \cup {k}
         /\ Set(f, k, o)[k] = o
         /\ \A j \in DOMAIN f \ {k} : Set(f, k, o)[j] = f[j]
  <1>1. Set(f, k, o) \in [DOMAIN f \cup {k} -> Op] BY OpsShape DEF Set
  <1>2. DOMAIN f \cup {k} \in SUBSET Key BY OpsShape
  <1>3. Set(f, k, o) \in Ops BY <1>1, <1>2 DEF Ops
  <1> QED BY <1>3 DEF Set

LEMMA ExceptOps ==
  ASSUME NEW f \in Ops, NEW k \in DOMAIN f, NEW o \in Op
  PROVE  /\ [f EXCEPT ![k] = o] \in Ops /\ DOMAIN [f EXCEPT ![k] = o] = DOMAIN f
         /\ [f EXCEPT ![k] = o][k] = o
         /\ \A j \in DOMAIN f \ {k} : [f EXCEPT ![k] = o][j] = f[j]
  <1>1. [f EXCEPT ![k] = o] \in [DOMAIN f -> Op] BY OpsShape, ZenonT(40)
  <1>2. DOMAIN f \in SUBSET Key BY OpsShape
  <1>3. [f EXCEPT ![k] = o] \in Ops BY <1>1, <1>2 DEF Ops
  <1> QED BY <1>3

\* An executor with another operation k.
LEMMA ChangeOp ==
  ASSUME NEW x \in Executors, NEW k \in DOMAIN x.ops, NEW o \in Op
  PROVE  /\ Touches(x, [x EXCEPT !.ops[k] = o], k)
         /\ k \in DOMAIN [x EXCEPT !.ops[k] = o].ops
         /\ [x EXCEPT !.ops[k] = o].ops[k] = o
         /\ [x EXCEPT !.ops[k] = o].gate = x.gate
  <1> DEFINE f == [x.ops EXCEPT ![k] = o]
  <1>0. x.ops \in Ops BY DEF Executors
  <1>1. /\ f \in Ops /\ DOMAIN f = DOMAIN x.ops /\ f[k] = o
        /\ \A j \in DOMAIN x.ops \ {k} : f[j] = x.ops[j]
      BY <1>0, ExceptOps
  <1> HIDE DEF f
  <1>2. [x EXCEPT !.ops = f] \in Executors BY <1>1 DEF Executors
  <1>3. Touches(x, [x EXCEPT !.ops = f], k) BY <1>1, <1>2 DEF Touches, Executors
  <1>4. [x EXCEPT !.ops[k] = o] = [x EXCEPT !.ops = f] BY DEF f
  <1> QED BY <1>1, <1>3, <1>4 DEF Executors

LEMMA TouchesTrans ==
  ASSUME NEW x, NEW y, NEW z, NEW k, Touches(x, y, k), Touches(y, z, k)
  PROVE  Touches(x, z, k)
  BY DEF Touches

LEMMA TouchesSelf == \A x \in Executors : \A k : Touches(x, x, k)
  BY DEF Touches

LEMMA ReleaseFacts ==
  ASSUME NEW x \in Executors, NEW k \in Key
  PROVE  /\ Touches(x, Release(x, k), k)
         /\ k \in DOMAIN x.ops => Kept(x, Release(x, k), k)
         /\ k \notin DOMAIN x.ops => Release(x, k) = x
  <1>1. CASE k \notin DOMAIN x.ops BY <1>1, TouchesSelf DEF Release, Known
  <1>2. CASE k \in DOMAIN x.ops
    <2> DEFINE o == [x.ops[k] EXCEPT !.inFlight = FALSE]
    <2>1. x.ops[k] \in Op BY <1>2, OpsShape DEF Executors
    <2>2. o \in Op /\ ~ o.inFlight /\ o.attempts = x.ops[k].attempts
          /\ o.metadataDone = x.ops[k].metadataDone /\ o.progressReady = x.ops[k].progressReady
        BY <2>1, ZenonT(40) DEF Op
    <2>3. Release(x, k) = [x EXCEPT !.ops[k] = o] BY <1>2 DEF Release, Known
    <2> HIDE DEF o
    <2> QED BY <1>2, <2>2, <2>3, ChangeOp DEF Kept
  <1> QED BY <1>1, <1>2

LEMMA ScheduleFacts ==
  ASSUME NEW x \in Executors, NEW k \in DOMAIN x.ops
  PROVE  /\ Touches(x, Schedule(x, k), k)
         /\ k \in DOMAIN Schedule(x, k).ops
         /\ Schedule(x, k).gate = x.gate
         /\ Schedule(x, k).ops[k].inFlight = x.ops[k].inFlight
         /\ Schedule(x, k).ops[k].attempts = x.ops[k].attempts
         /\ Schedule(x, k).ops[k].metadataDone = x.ops[k].metadataDone
         /\ Schedule(x, k).ops[k].progressReady = x.ops[k].progressReady
  <1> DEFINE o == [x.ops[k] EXCEPT !.scheduled = TRUE]
  <1>1. x.ops[k] \in Op BY OpsShape DEF Executors
  <1>2. o \in Op /\ o.inFlight = x.ops[k].inFlight /\ o.attempts = x.ops[k].attempts
        /\ o.metadataDone = x.ops[k].metadataDone /\ o.progressReady = x.ops[k].progressReady
      BY <1>1, ZenonT(40) DEF Op
  <1>3. Schedule(x, k) = [x EXCEPT !.ops[k] = o] BY DEF Schedule
  <1> HIDE DEF o
  <1> QED BY <1>2, <1>3, ChangeOp

LEMMA ReadyFacts ==
  ASSUME NEW x \in Executors, NEW k \in DOMAIN x.ops
  PROVE  LET y == [x EXCEPT !.ops[k].progressReady = TRUE] IN
         /\ Touches(x, y, k)
         /\ k \in DOMAIN y.ops
         /\ y.gate = x.gate
         /\ y.ops[k].inFlight = x.ops[k].inFlight
         /\ y.ops[k].attempts = x.ops[k].attempts
         /\ y.ops[k].metadataDone = x.ops[k].metadataDone
  <1> DEFINE o == [x.ops[k] EXCEPT !.progressReady = TRUE]
             y == [x EXCEPT !.ops[k].progressReady = TRUE]
  <1>1. x.ops[k] \in Op BY OpsShape DEF Executors
  <1>2. o \in Op /\ o.inFlight = x.ops[k].inFlight /\ o.attempts = x.ops[k].attempts
        /\ o.metadataDone = x.ops[k].metadataDone
      BY <1>1, ZenonT(40) DEF Op
  <1>3. y = [x EXCEPT !.ops[k] = o] OBVIOUS
  <1> HIDE DEF o, y
  <1>4. /\ Touches(x, y, k) /\ k \in DOMAIN y.ops /\ y.gate = x.gate
        /\ y.ops[k].inFlight = x.ops[k].inFlight
        /\ y.ops[k].attempts = x.ops[k].attempts
        /\ y.ops[k].metadataDone = x.ops[k].metadataDone
      BY <1>2, <1>3, ChangeOp
  <1> QED BY <1>4 DEF y

LEMMA EraseFacts ==
  ASSUME NEW x \in Executors, NEW k \in Key
  PROVE  Touches(x, Erase(x, k), k) /\ Erased(Erase(x, k), k)
  <1> DEFINE f == Drop(x.ops, k)  g == x.gate \ {k}
  <1>1. f \in Ops /\ DOMAIN f = DOMAIN x.ops \ {k} /\ \A j \in DOMAIN x.ops \ {k} : f[j] = x.ops[j]
      BY DropOps, ZenonT(40) DEF Executors
  <1>2. g \in SUBSET Key /\ k \notin g /\ \A j \in Key \ {k} : j \in g <=> j \in x.gate BY DEF Executors
  <1>3. Erase(x, k) = [x EXCEPT !.ops = f, !.gate = g] BY DEF Erase, Executors
  <1> HIDE DEF f, g
  <1>4. Erase(x, k) \in Executors BY <1>1, <1>2, <1>3, ZenonT(40) DEF Executors
  <1> QED BY <1>1, <1>2, <1>3, <1>4 DEF Touches, Erased, Executors

LEMMA RetryFacts ==
  ASSUME NEW x \in Executors, NEW k \in Key, NEW w \in BOOLEAN, ~ (k \in DOMAIN x.ops /\ x.ops[k].inFlight)
  PROVE  Settled(x, ScheduleRetryOrErase(x, k, w), k)
  <1>1. CASE w /\ CanRetry(x, k)
    <2>1. k \in DOMAIN x.ops BY <1>1 DEF CanRetry, Known
    <2>2. ScheduleRetryOrErase(x, k, w) = Schedule(x, k) BY <1>1 DEF ScheduleRetryOrErase
    <2> QED BY <2>1, <2>2, ScheduleFacts DEF Settled, Kept
  <1>2. CASE ~ (w /\ CanRetry(x, k))
    <2>1. ScheduleRetryOrErase(x, k, w) = Erase(x, k) BY <1>2 DEF ScheduleRetryOrErase
    <2> QED BY <2>1, EraseFacts DEF Settled
  <1> QED BY <1>1, <1>2

LEMMA CompleteFailureFacts ==
  ASSUME NEW x \in Executors, NEW k \in Key, NEW status, NEW pf \in BOOLEAN
  PROVE  Settled(x, CompleteFailure(x, k, status, pf), k)
  <1> DEFINE y == Release(x, k)
             w == pf \/ (TypeOf(k) # "FAILURE" /\ status = "RETRY")
             z == ScheduleRetryOrErase(y, k, w)
  <1>1. /\ Touches(x, y, k)
        /\ k \in DOMAIN x.ops => Kept(x, y, k)
        /\ k \notin DOMAIN x.ops => y = x
      BY ReleaseFacts
  <1>2. y \in Executors /\ ~ (k \in DOMAIN y.ops /\ y.ops[k].inFlight) BY <1>1 DEF Touches, Kept
  <1>3. w \in BOOLEAN OBVIOUS
  <1>4. CompleteFailure(x, k, status, pf) = z BY DEF CompleteFailure
  <1> HIDE DEF y, w
  <1>5. Settled(y, z, k) BY <1>2, <1>3, RetryFacts
  <1> HIDE DEF z
  <1>6. Touches(x, z, k) BY <1>1, <1>5, TouchesTrans DEF Settled
  <1>7. CASE Erased(z, k) BY <1>4, <1>6, <1>7 DEF Settled
  <1>8. CASE Kept(y, z, k)
    <2>1. k \in DOMAIN x.ops BY <1>1, <1>8 DEF Kept
    <2>2. Kept(x, z, k) BY <1>1, <1>8, <2>1 DEF Kept
    <2> QED BY <1>4, <1>6, <2>2 DEF Settled
  <1> QED BY <1>5, <1>7, <1>8 DEF Settled

LEMMA CompletionRefusedFacts ==
  ASSUME NEW x \in Executors, NEW k \in Key, NEW status
  PROVE  Settled(x, CompletionRefused(x, k, status), k)
  <1> DEFINE y == Release(x, k)
             z == IF Known(y, k) /\ TypeOf(k) = "FAILURE" THEN [y EXCEPT !.ops[k].progressReady = TRUE] ELSE y
             w == x.running /\ (TypeOf(k) = "FAILURE" \/ status # "FATAL")
             r == ScheduleRetryOrErase(z, k, w)
  <1>1. /\ Touches(x, y, k)
        /\ k \in DOMAIN x.ops => Kept(x, y, k)
        /\ k \notin DOMAIN x.ops => y = x
      BY ReleaseFacts
  <1>2. y \in Executors /\ ~ (k \in DOMAIN y.ops /\ y.ops[k].inFlight) BY <1>1 DEF Touches, Kept
  <1>3. w \in BOOLEAN BY DEF Executors
  <1>4. CompletionRefused(x, k, status) = r BY DEF CompletionRefused
  <1> HIDE DEF y, w
  <1>5. /\ Touches(x, z, k)
        /\ k \in DOMAIN x.ops => Kept(x, z, k)
        /\ k \notin DOMAIN x.ops => k \notin DOMAIN z.ops
    <2>1. CASE Known(y, k) /\ TypeOf(k) = "FAILURE"
      <3>1. k \in DOMAIN y.ops /\ z = [y EXCEPT !.ops[k].progressReady = TRUE] BY <2>1 DEF Known
      <3>2. /\ Touches(y, z, k) /\ k \in DOMAIN z.ops /\ z.gate = y.gate
            /\ z.ops[k].inFlight = y.ops[k].inFlight
            /\ z.ops[k].attempts = y.ops[k].attempts
            /\ z.ops[k].metadataDone = y.ops[k].metadataDone
          BY <1>2, <3>1, ReadyFacts
      <3> HIDE DEF z
      <3>3. k \in DOMAIN x.ops BY <1>1, <3>1
      <3>4. Touches(x, z, k) BY <1>1, <3>2, TouchesTrans
      <3>5. Done(k) BY <2>1 DEF Done
      <3> QED BY <1>1, <3>2, <3>3, <3>4, <3>5 DEF Kept
    <2>2. CASE ~ (Known(y, k) /\ TypeOf(k) = "FAILURE") BY <1>1, <2>2
    <2> QED BY <2>1, <2>2
  <1> HIDE DEF z
  <1>6. z \in Executors /\ ~ (k \in DOMAIN z.ops /\ z.ops[k].inFlight) BY <1>5 DEF Touches, Kept
  <1>7. Settled(z, r, k) BY <1>3, <1>6, RetryFacts
  <1> HIDE DEF r
  <1>8. Touches(x, r, k) BY <1>5, <1>7, TouchesTrans DEF Settled
  <1>9. Kept(z, r, k) => Kept(x, r, k) BY <1>5 DEF Kept
  <1> QED BY <1>4, <1>7, <1>8, <1>9 DEF Settled

\* What holds of the operation k in x, an operation not yet known being new.
Flying(x, k) == k \in DOMAIN x.ops /\ x.ops[k].inFlight
Moved(x, k) == k \in DOMAIN x.ops /\ x.ops[k].metadataDone
Ready(x, k) == k \in DOMAIN x.ops /\ x.ops[k].progressReady
Tried(x, k) == k \in DOMAIN x.ops /\ x.ops[k].attempts > 0

\* The operation k waits as it did, an operation not yet known as a new one.
Stays(x, y, k) ==
  /\ Touches(x, y, k)
  /\ \/ y = x
     \/ /\ k \in DOMAIN y.ops
        /\ Flying(y, k) <=> Flying(x, k)
        /\ Moved(y, k) <=> Moved(x, k)
        /\ Ready(y, k) <=> Ready(x, k)
        /\ y.window /\ Tried(y, k) => Tried(x, k)
        /\ k \in y.gate <=> k \in x.gate

\* No body of k is started: the operation waits as it did, or is gone.
Waits(x, y, k) == Stays(x, y, k) \/ (Touches(x, y, k) /\ Erased(y, k) /\ ~ Flying(x, k))

\* A body of k may be started: the operation is admitted, and enters the gate
\* unless it is to drain.
Admits(x, y, k, drain) ==
  /\ Touches(x, y, k)
  /\ x.running /\ x.window /\ ~ Flying(x, k) /\ Cardinality(InFlight(x)) < Capacity
  /\ \/ Erased(y, k)
     \/ /\ k \in DOMAIN y.ops
        /\ Moved(y, k) <=> Moved(x, k)
        /\ Ready(y, k) => Ready(x, k) \/ Done(k)
        /\ Moved(x, k) => drain
        /\ TypeOf(k) = "SCALE_IN" /\ ~ drain => k \in y.gate

\* x with an operation for k.
Entered(x, k) == IF Known(x, k) THEN x ELSE [x EXCEPT !.ops = Set(@, k, NewOp)]

LEMMA KnownFacts ==
  ASSUME NEW x \in Executors, NEW k \in Key
  PROVE  LET y == Entered(x, k) IN
         /\ Touches(x, y, k) /\ k \in DOMAIN y.ops /\ y.gate = x.gate
         /\ y.ops[k] \in Op
         /\ y.ops[k].inFlight <=> Flying(x, k)
         /\ y.ops[k].metadataDone <=> Moved(x, k)
         /\ y.ops[k].progressReady <=> Ready(x, k)
         /\ y.ops[k].attempts > 0 <=> Tried(x, k)
  <1> DEFINE y == Entered(x, k)
  <1>0. x.ops \in Ops BY DEF Executors
  <1>1. CASE Known(x, k)
    <2>1. y = x /\ k \in DOMAIN x.ops BY <1>1 DEF Known, Entered
    <2>2. x.ops[k] \in Op BY <1>0, <2>1, OpsShape
    <2> QED BY <2>1, <2>2, TouchesSelf DEF Flying, Moved, Ready, Tried
  <1>2. CASE ~ Known(x, k)
    <2> DEFINE f == Set(x.ops, k, NewOp)
    <2>1. NewOp \in Op BY DEF NewOp, Op
    <2>2. /\ f \in Ops /\ DOMAIN f = DOMAIN x.ops \cup {k} /\ f[k] = NewOp
          /\ \A j \in DOMAIN x.ops \ {k} : f[j] = x.ops[j]
        BY <1>0, <2>1, SetOps, ZenonT(40)
    <2>3. y = [x EXCEPT !.ops = f] BY <1>2 DEF Executors, Entered
    <2> HIDE DEF f
    <2>4. y \in Executors /\ y.ops = f /\ y.gate = x.gate /\ y.running = x.running
          /\ y.epoch = x.epoch /\ y.window = x.window
        BY <2>2, <2>3 DEF Executors
    <2>5. Touches(x, y, k) BY <2>2, <2>4 DEF Touches
    <2>6. ~ Flying(x, k) /\ ~ Moved(x, k) /\ ~ Ready(x, k) /\ ~ Tried(x, k)
        BY <1>2 DEF Known, Flying, Moved, Ready, Tried
    <2>7. /\ ~ NewOp.inFlight /\ ~ NewOp.metadataDone /\ ~ NewOp.progressReady
          /\ NewOp.attempts = 0
        BY DEF NewOp
    <2> QED BY <2>1, <2>2, <2>4, <2>5, <2>6, <2>7
  <1> QED BY <1>1, <1>2

LEMMA TriedFacts ==
  ASSUME NEW x \in Executors, NEW k \in DOMAIN x.ops, NEW m \in Nat,
         NEW y, y = [x EXCEPT !.ops[k].attempts = m, !.ops[k].scheduled = FALSE]
  PROVE  /\ Touches(x, y, k) /\ k \in DOMAIN y.ops /\ y.gate = x.gate
         /\ y.ops[k].inFlight = x.ops[k].inFlight
         /\ y.ops[k].metadataDone = x.ops[k].metadataDone
         /\ y.ops[k].progressReady = x.ops[k].progressReady
  <1> DEFINE o == [x.ops[k] EXCEPT !.attempts = m]
             z == [x EXCEPT !.ops[k].attempts = m]
             q == [z.ops[k] EXCEPT !.scheduled = FALSE]
  <1>1. x.ops[k] \in Op BY OpsShape DEF Executors
  <1>2. o \in Op /\ o.inFlight = x.ops[k].inFlight
        /\ o.metadataDone = x.ops[k].metadataDone /\ o.progressReady = x.ops[k].progressReady
      BY <1>1 DEF Op
  <1>3. z = [x EXCEPT !.ops[k] = o] OBVIOUS
  <1>4. y = [z EXCEPT !.ops[k] = q] OBVIOUS
  <1> HIDE DEF o, z
  <1>5. Touches(x, z, k) /\ k \in DOMAIN z.ops /\ z.ops[k] = o /\ z.gate = x.gate
      BY <1>2, <1>3, ChangeOp
  <1> DEFINE v == [z EXCEPT !.ops[k] = q]
  <1>6. q \in Op /\ q.inFlight = o.inFlight
        /\ q.metadataDone = o.metadataDone /\ q.progressReady = o.progressReady
      BY <1>2, <1>5, ZenonT(40) DEF Op
  <1> HIDE DEF q
  <1>7. z \in Executors BY <1>5 DEF Touches
  <1>8. Touches(z, v, k) /\ k \in DOMAIN v.ops /\ v.ops[k] = q /\ v.gate = z.gate
      BY <1>5, <1>6, <1>7, ChangeOp
  <1> HIDE DEF v
  <1>9. Touches(x, v, k) BY <1>5, <1>8, TouchesTrans
  <1>10. y = v BY <1>4, ZenonT(40) DEF v
  <1> QED BY <1>2, <1>5, <1>6, <1>8, <1>9, <1>10

\* The operation k is admitted: its slot is taken, and it may enter the gate.
SlotTaken(x, k, g) == [x EXCEPT !.ops[k].inFlight = TRUE, !.gate = g]

LEMMA TakeSlot ==
  ASSUME NEW x \in Executors, NEW k \in DOMAIN x.ops, NEW g \in SUBSET Key, \A j \in Key \ {k} : j \in g <=> j \in x.gate
  PROVE  LET y == SlotTaken(x, k, g) IN
         /\ Touches(x, y, k) /\ k \in DOMAIN y.ops /\ y.gate = g
         /\ y.ops[k].inFlight
         /\ y.ops[k].metadataDone = x.ops[k].metadataDone
         /\ y.ops[k].progressReady = x.ops[k].progressReady
  <1> DEFINE o == [x.ops[k] EXCEPT !.inFlight = TRUE]
             z == [x EXCEPT !.ops[k] = o]
             y == SlotTaken(x, k, g)
  <1>1. x.ops[k] \in Op BY OpsShape DEF Executors
  <1>2. o \in Op /\ o.inFlight
        /\ o.metadataDone = x.ops[k].metadataDone /\ o.progressReady = x.ops[k].progressReady
      BY <1>1, ZenonT(40) DEF Op
  <1>4. y = [z EXCEPT !.gate = g] BY DEF SlotTaken
  <1> HIDE DEF o
  <1>5. Touches(x, z, k) /\ k \in DOMAIN z.ops /\ z.ops[k] = o /\ z.gate = x.gate
      BY <1>2, ChangeOp
  <1> HIDE DEF z
  <1>6. z \in Executors BY <1>5 DEF Touches
  <1> DEFINE v == [z EXCEPT !.gate = g]
  <1>7. v \in Executors /\ v.gate = g /\ v.ops = z.ops /\ v.running = z.running
        /\ v.epoch = z.epoch /\ v.window = z.window
      BY <1>6 DEF Executors
  <1>8. y = v BY <1>4
  <1> HIDE DEF v
  <1> HIDE DEF y
  <1>9. Touches(x, v, k) BY <1>5, <1>7 DEF Touches
  <1>10. /\ Touches(x, y, k) /\ k \in DOMAIN y.ops /\ y.gate = g
         /\ y.ops[k].inFlight
         /\ y.ops[k].metadataDone = x.ops[k].metadataDone
         /\ y.ops[k].progressReady = x.ops[k].progressReady
      BY <1>2, <1>5, <1>7, <1>8, <1>9
  <1> QED BY <1>10 DEF y

LEMMA AdmitFacts ==
  ASSUME NEW x \in Executors, NEW k \in Key, NEW drain \in BOOLEAN
  PROVE  LET a == AdmitCallback(x, k, drain) IN
         /\ a.start \in BOOLEAN /\ a.rc # "K_INVALID"
         /\ a.start => Admits(x, a.ex, k, drain) /\ Flying(a.ex, k) /\ a.rc = "OK"
         /\ ~ a.start => Stays(x, a.ex, k)
  <1> DEFINE known == Entered(x, k)
             op == known.ops[k]
             more == IF op.attempts < MaxAttempts THEN op.attempts + 1 ELSE MaxAttempts
             tried == [known EXCEPT !.ops[k].attempts = more, !.ops[k].scheduled = FALSE]
             late == IF CanRetry(tried, k) THEN Schedule(tried, k) ELSE tried
             g == IF TypeOf(k) = "SCALE_IN" /\ ~ drain THEN tried.gate \cup {k} ELSE tried.gate
             started == SlotTaken(tried, k, g)
             a == AdmitCallback(x, k, drain)
             result(rc, y, start) == [rc |-> rc, ex |-> y, start |-> start]
  <1>a. a = CASE ~ x.running -> result("K_NOT_READY", x, FALSE)
              [] x.running /\ op.inFlight -> result("OK", x, FALSE)
              [] x.running /\ ~ op.inFlight /\ ~ x.window -> result("OK", late, FALSE)
              [] x.running /\ ~ op.inFlight /\ x.window /\ (op.progressReady \/ (~ drain /\ op.metadataDone)) ->
                   result("OK", Schedule(known, k), FALSE)
              [] OTHER -> IF Cardinality(InFlight(x)) < Capacity
                          THEN result("OK", started, TRUE)
                          ELSE result("K_TRY_AGAIN", known, FALSE)
      BY ZenonT(40) DEF AdmitCallback, Entered, SlotTaken
  <1>k. /\ Touches(x, known, k) /\ k \in DOMAIN known.ops /\ known.gate = x.gate
        /\ op \in Op
        /\ op.inFlight <=> Flying(x, k)
        /\ op.metadataDone <=> Moved(x, k)
        /\ op.progressReady <=> Ready(x, k)
        /\ op.attempts > 0 <=> Tried(x, k)
      BY KnownFacts
  <1>b. op.inFlight \in BOOLEAN /\ op.progressReady \in BOOLEAN /\ op.metadataDone \in BOOLEAN
        /\ x.running \in BOOLEAN /\ x.window \in BOOLEAN
      BY <1>k DEF Op, Executors
  <1>m. more \in Nat BY <1>k, ExecutorAssumption DEF Op
  <1>e. known \in Executors BY <1>k DEF Touches
  <1> HIDE DEF known, more, a
  <1>t. /\ Touches(known, tried, k) /\ k \in DOMAIN tried.ops /\ tried.gate = known.gate
        /\ tried.ops[k].inFlight = op.inFlight
        /\ tried.ops[k].metadataDone = op.metadataDone
        /\ tried.ops[k].progressReady = op.progressReady
      BY <1>k, <1>m, <1>e, TriedFacts, ZenonT(40)
  <1> HIDE DEF tried
  <1>x. tried \in Executors /\ Touches(x, tried, k) BY <1>k, <1>t, TouchesTrans, ZenonT(40) DEF Touches
  <1>w. Stays(x, x, k) BY TouchesSelf DEF Stays
  <1>1. CASE ~ x.running BY <1>1, <1>a, <1>w DEF a
  <1>2. CASE x.running /\ op.inFlight
    <2>1. a = result("OK", x, FALSE) BY <1>2, <1>a, <1>b
    <2> QED BY <2>1, <1>w DEF a
  <1>3. CASE x.running /\ ~ op.inFlight /\ ~ x.window
    <2>1. a = result("OK", late, FALSE) BY <1>3, <1>a
    <2>2. /\ Touches(tried, late, k) /\ k \in DOMAIN late.ops /\ late.gate = tried.gate
          /\ late.ops[k].inFlight = tried.ops[k].inFlight
          /\ late.ops[k].metadataDone = tried.ops[k].metadataDone
          /\ late.ops[k].progressReady = tried.ops[k].progressReady
        BY <1>t, <1>x, ScheduleFacts, TouchesSelf
    <2> HIDE DEF late
    <2>3. Touches(x, late, k) BY <1>x, <2>2, TouchesTrans
    <2>4. late.window = x.window BY <2>3 DEF Touches
    <2>5. Stays(x, late, k) BY <1>3, <1>k, <1>t, <2>2, <2>3, <2>4, ZenonT(40) DEF Stays, Flying, Moved, Ready
    <2> QED BY <2>1, <2>5 DEF a
  <1>4. CASE x.running /\ ~ op.inFlight /\ x.window /\ (op.progressReady \/ (~ drain /\ op.metadataDone))
    <2>1. a = result("OK", Schedule(known, k), FALSE) BY <1>4, <1>a
    <2> DEFINE y == Schedule(known, k)
    <2>2. /\ Touches(known, y, k) /\ k \in DOMAIN y.ops /\ y.gate = known.gate
          /\ y.ops[k].inFlight = op.inFlight
          /\ y.ops[k].attempts = op.attempts
          /\ y.ops[k].metadataDone = op.metadataDone
          /\ y.ops[k].progressReady = op.progressReady
        BY <1>k, <1>e, ScheduleFacts
    <2> HIDE DEF y, a
    <2>3. Touches(x, y, k) BY <1>k, <2>2, TouchesTrans
    <2>5. Stays(x, y, k) BY <1>k, <2>2, <2>3 DEF Stays, Flying, Moved, Ready, Tried
    <2> QED BY <2>1, <2>5 DEF y, a
  <1>5. CASE x.running /\ ~ op.inFlight /\ x.window /\ ~ (op.progressReady \/ (~ drain /\ op.metadataDone))
    <2>1. a = IF Cardinality(InFlight(x)) < Capacity THEN result("OK", started, TRUE)
              ELSE result("K_TRY_AGAIN", known, FALSE)
        BY <1>5, <1>a
    <2>2. CASE Cardinality(InFlight(x)) < Capacity
      <3>1. g \in SUBSET Key /\ \A j \in Key \ {k} : j \in g <=> j \in tried.gate
          BY <1>x DEF Executors
      <3>g. TypeOf(k) = "SCALE_IN" /\ ~ drain => k \in g OBVIOUS
      <3> HIDE DEF g
      <3>2. /\ Touches(tried, started, k) /\ k \in DOMAIN started.ops /\ started.gate = g
            /\ started.ops[k].inFlight
            /\ started.ops[k].metadataDone = tried.ops[k].metadataDone
            /\ started.ops[k].progressReady = tried.ops[k].progressReady
          BY <1>t, <1>x, <3>1, TakeSlot
      <3> HIDE DEF started
      <3>3. Touches(x, started, k) BY <1>x, <3>2, TouchesTrans
      <3>4. Admits(x, started, k, drain)
          BY <1>5, <1>k, <1>t, <2>2, <3>2, <3>3, <3>g DEF Admits, Flying, Moved, Ready
      <3>5. Flying(started, k) BY <3>2 DEF Flying
      <3> QED BY <2>1, <2>2, <3>4, <3>5 DEF a
    <2>3. CASE ~ (Cardinality(InFlight(x)) < Capacity)
      <3>1. Stays(x, known, k) BY <1>k DEF Stays, Flying, Moved, Ready, Tried
      <3> QED BY <2>1, <2>3, <3>1 DEF a
    <2> QED BY <2>2, <2>3
  <1> QED BY <1>1, <1>2, <1>3, <1>4, <1>5, <1>b, ZenonT(40) DEF a

LEMMA PreserveFacts ==
  ASSUME NEW x \in Executors, NEW k \in Key, NEW rc
  PROVE  /\ rc = "OK" => Preserve(x, k, rc) = x
         /\ rc # "K_INVALID" => Stays(x, Preserve(x, k, rc), k)
         /\ ~ Flying(x, k) => Waits(x, Preserve(x, k, rc), k)
  <1> DEFINE y == Preserve(x, k, rc)
  <1>1. CASE ~ x.running \/ ~ Known(x, k) \/ rc = "OK"
    <2>1. y = x BY <1>1 DEF Preserve
    <2> QED BY <2>1, TouchesSelf DEF Stays, Waits
  <1>2. CASE x.running /\ Known(x, k) /\ rc = "K_INVALID"
    <2>1. y = Erase(x, k) BY <1>2 DEF Preserve
    <2> QED BY <1>2, <2>1, EraseFacts DEF Waits
  <1>3. CASE x.running /\ Known(x, k) /\ rc # "OK" /\ rc # "K_INVALID"
    <2>1. y = Schedule(x, k) BY <1>3 DEF Preserve
    <2>2. k \in DOMAIN x.ops BY <1>3 DEF Known
    <2> DEFINE z == Schedule(x, k)
    <2>3. /\ Touches(x, z, k) /\ k \in DOMAIN z.ops /\ z.gate = x.gate
          /\ z.ops[k].inFlight = x.ops[k].inFlight
          /\ z.ops[k].attempts = x.ops[k].attempts
          /\ z.ops[k].metadataDone = x.ops[k].metadataDone
          /\ z.ops[k].progressReady = x.ops[k].progressReady
        BY <2>2, ScheduleFacts
    <2> HIDE DEF z
    <2>4. Stays(x, z, k) BY <2>2, <2>3 DEF Stays, Flying, Moved, Ready, Tried
    <2> QED BY <1>3, <2>1, <2>4 DEF z, Waits
  <1>4. x.running \in BOOLEAN BY DEF Executors
  <1> QED BY <1>1, <1>2, <1>3, <1>4

LEMMA StaysTrans ==
  ASSUME NEW x, NEW y, NEW z, NEW k, Stays(x, y, k), Stays(y, z, k)
  PROVE  Stays(x, z, k)
  <1>1. Touches(x, z, k) BY TouchesTrans DEF Stays
  <1>2. y.window = z.window BY DEF Stays, Touches
  <1>3. CASE y = x BY <1>3
  <1>4. CASE z = y BY <1>4
  <1>5. CASE y # x /\ z # y BY <1>1, <1>2, <1>5 DEF Stays
  <1> QED BY <1>3, <1>4, <1>5

\* SubmitCallback leaves the operation waiting, starts a body, or fails to.
LEMMA SubmitFacts ==
  ASSUME ex \in Executors, NEW k \in Key, NEW drain \in BOOLEAN, NEW due \in BOOLEAN,
         SubmitCallback(k, drain, due)
  PROVE  \/ Stays(ex, ex', k) /\ jobs' = jobs
         \/ Admits(ex, ex', k, drain) /\ Flying(ex', k) /\ jobs' = Set(jobs, k, NewJob)
         \/ Admits(ex, ex', k, drain) /\ ~ Flying(ex', k) /\ jobs' = jobs
  <1> DEFINE a == AdmitCallback(ex, k, drain)
             keep(x, rc) == IF due THEN Preserve(x, k, rc) ELSE x
             z == ScheduleRetryOrErase(Release(a.ex, k), k, TRUE)
  <1>1. \/ ex' = keep(a.ex, a.rc) /\ jobs' = IF a.start THEN Set(jobs, k, NewJob) ELSE jobs
        \/ a.start /\ ex' = keep(z, "K_RUNTIME_ERROR") /\ jobs' = jobs
      BY ZenonT(40) DEF SubmitCallback
  <1>2. /\ a.start \in BOOLEAN /\ a.rc # "K_INVALID"
        /\ a.start => Admits(ex, a.ex, k, drain) /\ Flying(a.ex, k) /\ a.rc = "OK"
        /\ ~ a.start => Stays(ex, a.ex, k)
      BY AdmitFacts
  <1> HIDE DEF a
  <1>3. a.ex \in Executors BY <1>2 DEF Admits, Stays, Touches
  <1>4. Settled(a.ex, z, k)
    <2>1. CompleteFailure(a.ex, k, "RETRY", TRUE) = z BY ZenonT(40) DEF CompleteFailure
    <2>2. TRUE \in BOOLEAN OBVIOUS
    <2> QED BY <1>3, <2>1, <2>2, CompleteFailureFacts, ZenonT(40)
  <1> HIDE DEF z
  <1>5. z \in Executors BY <1>4 DEF Settled, Touches
  <1>6. CASE ~ a.start /\ ex' = keep(a.ex, a.rc) /\ jobs' = jobs
    <2>1. due => Stays(a.ex, Preserve(a.ex, k, a.rc), k) BY <1>2, <1>3, PreserveFacts
    <2>2. Stays(ex, ex', k) BY <1>2, <1>6, <2>1, StaysTrans
    <2> QED BY <1>6, <2>2
  <1>7. CASE a.start /\ ex' = keep(a.ex, a.rc) /\ jobs' = Set(jobs, k, NewJob)
    <2>1. ex' = a.ex BY <1>2, <1>3, <1>7, PreserveFacts
    <2> QED BY <1>2, <1>7, <2>1
  <1>8. CASE a.start /\ ex' = keep(z, "K_RUNTIME_ERROR") /\ jobs' = jobs
    <2>1. due => Stays(z, Preserve(z, k, "K_RUNTIME_ERROR"), k) BY <1>5, PreserveFacts
    <2>2. Stays(z, ex', k)
      <3>1. Stays(z, z, k) BY <1>5, TouchesSelf DEF Stays
      <3> QED BY <1>8, <2>1, <3>1
    <2>3. Admits(ex, z, k, drain) /\ ~ Flying(z, k)
      <3>1. Touches(ex, z, k) BY <1>2, <1>4, <1>8, TouchesTrans DEF Settled, Admits
      <3>2. CASE Erased(z, k) BY <1>2, <1>8, <3>1, <3>2, ZenonT(40) DEF Admits, Erased, Flying
      <3>3. CASE Kept(a.ex, z, k)
        <4>1. k \in DOMAIN a.ex.ops /\ k \in DOMAIN z.ops BY <3>3 DEF Kept
        <4>2. ~ Erased(a.ex, k) BY <4>1 DEF Erased
        <4> QED BY <1>2, <1>8, <3>1, <3>3, <4>1, <4>2 DEF Admits, Kept, Flying, Moved, Ready
      <3> QED BY <1>4, <3>2, <3>3 DEF Settled
    <2>4. Touches(ex, ex', k) BY <2>2, <2>3, TouchesTrans DEF Stays, Admits
    <2>5. CASE ex' = z BY <1>8, <2>3, <2>5
    <2>6. CASE ex' # z
      <3>1. ~ Flying(ex', k) BY <2>2, <2>3, <2>6 DEF Stays
      <3>2. k \in DOMAIN (ex').ops BY <2>2, <2>6 DEF Stays
      <3>3. CASE Erased(z, k)
        <4>1. ~ due \/ ex' = z BY <1>8, <3>3 DEF Preserve, Known, Erased
        <4> QED BY <1>8, <2>6, <4>1
      <3>4. CASE ~ Erased(z, k)
        <4>1. Admits(ex, ex', k, drain) BY <2>2, <2>3, <2>4, <2>6, <3>2, <3>4 DEF Stays, Admits
        <4> QED BY <1>8, <3>1, <4>1, ZenonT(40)
      <3> QED BY <3>3, <3>4
    <2> QED BY <2>5, <2>6
  <1> QED BY <1>1, <1>2, <1>6, <1>7, <1>8

(***************************************************************************)
(* The jobs.                                                               *)
(***************************************************************************)
LEMMA JobsShape == \A f : f \in Jobs => DOMAIN f \subseteq Key /\ \A k \in DOMAIN f : f[k] \in Job
  BY DEF Jobs

\* g is f with at most the job of k changed.
OneJob(f, g, k) ==
  /\ g \in Jobs
  /\ \A j \in Key \ {k} : /\ j \in DOMAIN g <=> j \in DOMAIN f
                          /\ j \in DOMAIN f => g[j] = f[j]

LEMMA DropJob ==
  ASSUME NEW f \in Jobs, NEW k
  PROVE  OneJob(f, Drop(f, k), k) /\ k \notin DOMAIN Drop(f, k)
  <1>1. Drop(f, k) \in [DOMAIN f \ {k} -> Job] BY JobsShape DEF Drop
  <1>2. DOMAIN f \ {k} \in SUBSET Key BY JobsShape
  <1>3. Drop(f, k) \in Jobs BY <1>1, <1>2 DEF Jobs
  <1> QED BY <1>3 DEF Drop, OneJob

LEMMA SetJob ==
  ASSUME NEW f \in Jobs, NEW k \in Key, NEW v \in Job
  PROVE  OneJob(f, Set(f, k, v), k) /\ k \in DOMAIN Set(f, k, v) /\ Set(f, k, v)[k] = v
  <1>1. Set(f, k, v) \in [DOMAIN f \cup {k} -> Job] BY JobsShape DEF Set
  <1>2. DOMAIN f \cup {k} \in SUBSET Key BY JobsShape
  <1>3. Set(f, k, v) \in Jobs BY <1>1, <1>2 DEF Jobs
  <1> QED BY <1>3 DEF Set, OneJob

LEMMA ExceptJob ==
  ASSUME NEW f \in Jobs, NEW k \in DOMAIN f, NEW v \in Job
  PROVE  LET g == [f EXCEPT ![k] = v] IN OneJob(f, g, k) /\ k \in DOMAIN g /\ g[k] = v
  <1> DEFINE g == [f EXCEPT ![k] = v]
  <1>1. g \in [DOMAIN f -> Job] BY JobsShape, ZenonT(40)
  <1>2. DOMAIN f \in SUBSET Key BY JobsShape
  <1>3. g \in Jobs BY <1>1, <1>2 DEF Jobs
  <1> QED BY <1>3 DEF OneJob

\* A job that moves on to another stage, as Goto, Accepted and the
\* authorization write it.
MovedJob(f, k, stage, status) == [f EXCEPT ![k].stage = stage, ![k].status = status]
CompletedJob(f, k, status, cleanup) ==
  [f EXCEPT ![k].stage = "completion", ![k].status = status, ![k].cleanup = cleanup]
ApplyingJob(f, k) == [f EXCEPT ![k].stage = "apply", ![k].cleanup = FALSE]

LEMMA MovedJobFacts ==
  ASSUME NEW f \in Jobs, NEW k \in DOMAIN f, NEW stage \in Stages, NEW status \in {"OK", "RETRY", "FATAL"}
  PROVE  LET g == MovedJob(f, k, stage, status) IN
         OneJob(f, g, k) /\ k \in DOMAIN g /\ g[k].stage = stage /\ g[k].status = status
  <1> DEFINE v == [f[k] EXCEPT !.stage = stage, !.status = status]
  <1>1. f[k] \in Job BY JobsShape
  <1>2. v \in Job /\ v.stage = stage /\ v.status = status BY <1>1, ZenonT(40) DEF Job
  <1> DEFINE h == [f EXCEPT ![k] = v]
  <1>3. MovedJob(f, k, stage, status) = h BY ZenonT(40) DEF MovedJob
  <1> HIDE DEF v
  <1>4. OneJob(f, h, k) /\ k \in DOMAIN h /\ h[k] = v BY <1>2, ExceptJob
  <1> HIDE DEF h
  <1> QED BY <1>2, <1>3, <1>4

LEMMA CompletedJobFacts ==
  ASSUME NEW f \in Jobs, NEW k \in DOMAIN f, NEW status \in {"OK", "RETRY", "FATAL"}, NEW cleanup \in BOOLEAN
  PROVE  LET g == CompletedJob(f, k, status, cleanup) IN
         /\ OneJob(f, g, k) /\ k \in DOMAIN g
         /\ g[k].stage = "completion" /\ g[k].status = status /\ g[k].cleanup = cleanup
  <1> DEFINE v == [f[k] EXCEPT !.stage = "completion", !.status = status, !.cleanup = cleanup]
  <1>1. f[k] \in Job BY JobsShape
  <1>2. v \in Job /\ v.stage = "completion" /\ v.status = status /\ v.cleanup = cleanup
      BY <1>1, ZenonT(40) DEF Job, Stages
  <1> DEFINE h == [f EXCEPT ![k] = v]
  <1>3. CompletedJob(f, k, status, cleanup) = h BY ZenonT(40) DEF CompletedJob
  <1> HIDE DEF v
  <1>4. OneJob(f, h, k) /\ k \in DOMAIN h /\ h[k] = v BY <1>2, ExceptJob
  <1> HIDE DEF h
  <1> QED BY <1>2, <1>3, <1>4

LEMMA ApplyingJobFacts ==
  ASSUME NEW f \in Jobs, NEW k \in DOMAIN f
  PROVE  LET g == ApplyingJob(f, k) IN OneJob(f, g, k) /\ k \in DOMAIN g /\ g[k].stage = "apply"
  <1> DEFINE v == [f[k] EXCEPT !.stage = "apply", !.cleanup = FALSE]
  <1>1. f[k] \in Job BY JobsShape
  <1>2. v \in Job /\ v.stage = "apply" BY <1>1, ZenonT(40) DEF Job, Stages
  <1> DEFINE h == [f EXCEPT ![k] = v]
  <1>3. ApplyingJob(f, k) = h BY ZenonT(40) DEF ApplyingJob
  <1> HIDE DEF v
  <1>4. OneJob(f, h, k) /\ k \in DOMAIN h /\ h[k] = v BY <1>2, ExceptJob
  <1> HIDE DEF h
  <1> QED BY <1>2, <1>3, <1>4

\* Cancelling bodies changes no stage.
LEMMA CancelledFacts ==
  ASSUME NEW f \in Jobs, NEW x
  PROVE  LET g == Cancelled(f, x) IN
         /\ g \in Jobs /\ DOMAIN g = DOMAIN f
         /\ \A k \in DOMAIN f : g[k].stage = f[k].stage /\ g[k].status = f[k].status
                                /\ g[k].cleanup = f[k].cleanup
  <1> DEFINE g == Cancelled(f, x)
  <1>1. \A k \in DOMAIN f : f[k] \in Job BY JobsShape
  <1>2. \A k \in DOMAIN f : /\ g[k] \in Job /\ g[k].stage = f[k].stage /\ g[k].status = f[k].status
                            /\ g[k].cleanup = f[k].cleanup
      BY <1>1, ZenonT(40) DEF Job, Cancelled
  <1>3. g \in [DOMAIN f -> Job] BY <1>2 DEF Cancelled
  <1>4. DOMAIN f \in SUBSET Key BY JobsShape
  <1>5. g \in Jobs BY <1>3, <1>4 DEF Jobs
  <1>6. DOMAIN g = DOMAIN f BY DEF Cancelled
  <1> QED BY <1>2, <1>5, <1>6

(***************************************************************************)
(* A step on one operation leaves the others as they are.                  *)
(***************************************************************************)
Grows == batches' = batches /\ marker \subseteq marker' /\ effects \subseteq effects'

OnlyKey(k) ==
  /\ Grows /\ authority' \in Nat /\ snapshot' \in Nat /\ loop' \in Loops
  /\ OneJob(jobs, jobs', k) /\ Touches(ex, ex', k)
  /\ \A j \in Key \ {k} :
       /\ j \in finished' <=> j \in finished
       /\ <<j, "apply">> \in effects' => <<j, "apply">> \in effects
       /\ j \in (loop').todo => j \in loop.todo /\ (loop').pc = loop.pc

LEMMA TypeKept == batches' = batches => \A k : TypeOf(k)' = TypeOf(k)
  BY DEF TypeOf, Type, EpochOf

LEMMA DoneKept == Grows => \A k : (Done(k) => Done(k)') /\ (MetadataMoved(k) => MetadataMoved(k)')
  BY TypeKept DEF Grows, Done, MetadataMoved

LEMMA OthersKept ==
  ASSUME ExecutorTypes, NEW k \in Key, OnlyKey(k), NEW j \in Key \ {k}, KeyInv(j)
  PROVE  KeyInv(j)'
  <1>0. /\ Grows /\ TypeOf(j)' = TypeOf(j) /\ EpochOf(j)' = EpochOf(j)
        /\ Done(j) => Done(j)'
        /\ MetadataMoved(j) => MetadataMoved(j)'
      BY DoneKept, TypeKept DEF OnlyKey, Grows, EpochOf
  <1>1. /\ (ex').running = ex.running /\ (ex').epoch = ex.epoch /\ (ex').window = ex.window
        /\ j \in DOMAIN (ex').ops <=> j \in DOMAIN ex.ops
        /\ j \in DOMAIN ex.ops =>
             /\ (ex').ops[j].inFlight = ex.ops[j].inFlight
             /\ (ex').ops[j].attempts = ex.ops[j].attempts
             /\ (ex').ops[j].progressReady = ex.ops[j].progressReady
             /\ (ex').ops[j].metadataDone = ex.ops[j].metadataDone
        /\ j \in (ex').gate <=> j \in ex.gate
      BY DEF OnlyKey, Touches
  <1>2. /\ j \in DOMAIN jobs' <=> j \in DOMAIN jobs
        /\ j \in DOMAIN jobs => jobs'[j] = jobs[j]
      BY ZenonT(40) DEF OnlyKey, OneJob
  <1>3. OpInv(j)' BY <1>0, <1>1, <1>2, ZenonT(40) DEF KeyInv, OpInv
  <1>4. j \in DOMAIN jobs /\ (ex.running => j \in DOMAIN ex.ops) /\ Drained(j) => Drained(j)'
      BY <1>0, <1>1, ZenonT(40) DEF Drained, Grows
  <1>5. JobInv(j)' BY <1>0, <1>1, <1>2, <1>4 DEF KeyInv, JobInv, Grows
  <1>6. TodoInv(j)' BY <1>0, <1>1, ZenonT(40) DEF KeyInv, TodoInv, OnlyKey
  <1>7. StoreInv(j)' BY <1>0, ZenonT(40) DEF KeyInv, StoreInv, OnlyKey, Grows
  <1> QED BY <1>3, <1>5, <1>6, <1>7 DEF KeyInv

\* A slot is only freed.
LEMMA BoundedSubset ==
  ASSUME Counting, NEW S, Bounded(S), NEW T, T \subseteq S
  PROVE  Bounded(T)
  <1>1. IsFiniteSet(T) /\ Cardinality(T) <= Cardinality(S) BY DEF Counting, Bounded
  <1>2. Cardinality(T) \in Nat /\ Cardinality(S) \in Nat BY <1>1 DEF Counting, Bounded
  <1> QED BY <1>1, <1>2, ExecutorAssumption DEF Bounded

LEMMA SlotsFreed ==
  ASSUME ExecutorTypes, SlotInv, NEW k \in Key, Touches(ex, ex', k), Flying(ex', k) => Flying(ex, k)
  PROVE  SlotInv'
  <1>1. DOMAIN ex.ops \subseteq Key /\ DOMAIN (ex').ops \subseteq Key
      BY OpsShape DEF ExecutorTypes, Executors, Touches
  <1>2. InFlight(ex)' \subseteq InFlight(ex) BY <1>1 DEF InFlight, Touches, Flying
  <1>3. Counting => Bounded(InFlight(ex)') BY <1>2, BoundedSubset DEF SlotInv
  <1> QED BY <1>3, ZenonT(40) DEF SlotInv, Counting, Bounded

\* A slot is taken only while one is free.
LEMMA SlotTakenOnce ==
  ASSUME ExecutorTypes, SlotInv, NEW k \in Key, NEW drain, Admits(ex, ex', k, drain)
  PROVE  SlotInv'
  <1> DEFINE F == InFlight(ex)  G == InFlight(ex)'
  <1>1. DOMAIN ex.ops \subseteq Key /\ DOMAIN (ex').ops \subseteq Key
      BY OpsShape DEF ExecutorTypes, Executors, Touches, Admits
  <1>2. G \subseteq F \cup {k} BY <1>1 DEF InFlight, Touches, Admits
  <1>3. Cardinality(F) < Capacity BY DEF Admits
  <1>4. Counting => IsFiniteSet(F) BY DEF SlotInv, Bounded
  <1> HIDE DEF F, G
  <1>5. ASSUME Counting PROVE Bounded(G)
    <2>1. /\ IsFiniteSet(F) /\ IsFiniteSet(F \cup {k})
          /\ Cardinality(F \cup {k}) <= Cardinality(F) + 1
        BY <1>4, <1>5, ZenonT(40) DEF Counting
    <2>2. Cardinality(F) \in Nat /\ Cardinality(F \cup {k}) \in Nat BY <1>5, <2>1 DEF Counting
    <2>3. Bounded(F \cup {k}) BY <1>3, <2>1, <2>2, ExecutorAssumption DEF Bounded
    <2> QED BY <1>2, <1>5, <2>3, BoundedSubset
  <1> QED BY <1>5, ZenonT(40) DEF SlotInv, Counting, Bounded, G

\* The hand-over keeps to finished tasks of the snapshot's batch.
HandoffKept ==
  /\ finished \subseteq finished' /\ finished' \subseteq Key
  /\ snapshot' = snapshot
  /\ \A k \in handoff' : k \in handoff \/ (k \in finished' /\ EpochOf(k) = snapshot)

\* What is left to show of a step on the operation k.
LEMMA OneKeyStep ==
  ASSUME ExecutorInv, NEW k \in Key, OnlyKey(k), HandoffKept, SlotInv', KeyInv(k)'
  PROVE  ExecutorInv'
  <1>1. ExecutorTypes' BY DEF ExecutorInv, ExecutorTypes, OnlyKey, Grows, OneJob, Touches
  <1>2. (finished \subseteq Key)' /\ (handoff \subseteq Key)' /\ HandoffOfThisBatch'
      BY DEF ExecutorInv, HandoffKept, HandoffOfThisBatch, EpochOf
  <1>3. \A j \in Key : KeyInv(j)'
    <2>1. \A j \in Key \ {k} : KeyInv(j)' BY OthersKept DEF ExecutorInv
    <2> QED BY <2>1
  <1>4. (\A j \in Key : KeyInv(j))' BY <1>3 DEF Key, Epoch
  <1> QED BY <1>1, <1>2, <1>4 DEF ExecutorInv

(***************************************************************************)
(* The kinds of steps on one operation.                                    *)
(***************************************************************************)
\* The operation k ends or is kept for a retry, and its job is over.
LEMMA SettledStep ==
  ASSUME ExecutorInv, NEW k \in Key,
         Settled(ex, ex', k), jobs' = Drop(jobs, k), loop' = loop,
         Grows, authority' = authority, HandoffKept,
         \A j \in Key \ {k} : /\ j \in finished' <=> j \in finished
                              /\ <<j, "apply">> \in effects' => <<j, "apply">> \in effects,
         StoreInv(k)'
  PROVE  ExecutorInv'
  <1>0. ExecutorTypes /\ SlotInv /\ finished \subseteq Key /\ handoff \subseteq Key /\ KeyInv(k)
      BY DEF ExecutorInv
  <1>1. OneJob(jobs, jobs', k) /\ k \notin DOMAIN jobs' BY <1>0, DropJob, ZenonT(40) DEF ExecutorTypes
  <1>2. OnlyKey(k) BY <1>0, <1>1 DEF OnlyKey, ExecutorTypes, HandoffKept, Settled
  <1>3. /\ TypeOf(k)' = TypeOf(k) /\ EpochOf(k)' = EpochOf(k)
        /\ Done(k) => Done(k)'
        /\ MetadataMoved(k) => MetadataMoved(k)'
      BY DoneKept, TypeKept DEF Grows, EpochOf
  <1>4. KeyInv(k) BY <1>0
  <1>5. /\ (ex').running = ex.running /\ (ex').epoch = ex.epoch /\ (ex').window = ex.window
      BY DEF Settled, Touches
  <1>6. OpInv(k)'
    <2>1. CASE Erased(ex', k) BY <2>1 DEF OpInv, Erased
    <2>2. CASE Kept(ex, ex', k) BY <1>3, <1>4, <1>5, <2>2, ZenonT(40) DEF OpInv, Kept, KeyInv
    <2> QED BY <2>1, <2>2 DEF Settled
  <1>7. ~ Flying(ex', k) BY DEF Settled, Erased, Kept, Flying
  <1>8. JobInv(k)' BY <1>1 DEF JobInv
  <1>9. TodoInv(k)' BY <1>3, <1>4, <1>5, <1>7, ZenonT(40) DEF TodoInv, KeyInv, Flying
  <1>10. KeyInv(k)' BY <1>6, <1>8, <1>9 DEF KeyInv
  <1>11. SlotInv' BY <1>0, <1>7, SlotsFreed DEF Settled
  <1> QED BY <1>2, <1>10, <1>11, OneKeyStep

\* The job of k moves on and the executor stays as it is.
LEMMA JobStep ==
  ASSUME ExecutorInv, NEW k \in Key,
         ex' = ex, OneJob(jobs, jobs', k), k \in DOMAIN jobs, k \in DOMAIN jobs', loop' = loop,
         Grows, authority' = authority, snapshot' = snapshot, finished' = finished, handoff' = handoff,
         \A j \in Key \ {k} : <<j, "apply">> \in effects' => <<j, "apply">> \in effects,
         StoreInv(k)', JobInv(k)'
  PROVE  ExecutorInv'
  <1>0. ExecutorTypes /\ SlotInv /\ finished \subseteq Key /\ handoff \subseteq Key /\ KeyInv(k)
      BY DEF ExecutorInv
  <1>1. Touches(ex, ex', k) BY <1>0, TouchesSelf DEF ExecutorTypes
  <1>2. OnlyKey(k) BY <1>0, <1>1 DEF OnlyKey, ExecutorTypes
  <1>3. /\ TypeOf(k)' = TypeOf(k) /\ EpochOf(k)' = EpochOf(k)
        /\ Done(k) => Done(k)'
        /\ MetadataMoved(k) => MetadataMoved(k)'
      BY DoneKept, TypeKept DEF Grows, EpochOf
  <1>4. KeyInv(k) BY <1>0
  <1>5. OpInv(k)' BY <1>3, <1>4, ZenonT(40) DEF OpInv, KeyInv
  <1>6. TodoInv(k)' BY <1>3, <1>4 DEF TodoInv, KeyInv
  <1>7. KeyInv(k)' BY <1>5, <1>6 DEF KeyInv
  <1>8. SlotInv' BY <1>0, ZenonT(40) DEF SlotInv, Counting, Bounded, InFlight
  <1>9. HandoffKept BY <1>0 DEF HandoffKept
  <1> QED BY <1>2, <1>7, <1>8, <1>9, OneKeyStep

\* The Run loop handles k and starts nothing.
LEMMA WaitsStep ==
  ASSUME ExecutorInv, NEW k \in Key,
         Waits(ex, ex', k), jobs' = jobs, loop' \in Loops, k \notin (loop').todo,
         (loop').todo \subseteq loop.todo, (loop').todo # {} => (loop').pc = loop.pc,
         batches' = batches, authority' = authority, marker' = marker, effects' = effects,
         HandoffKept, finished' = finished,
         k \in DOMAIN (ex').ops => EpochOf(k) = ex.epoch
  PROVE  ExecutorInv'
  <1>0. ExecutorTypes /\ SlotInv /\ finished \subseteq Key /\ handoff \subseteq Key /\ KeyInv(k)
      BY DEF ExecutorInv
  <1>1. Touches(ex, ex', k) BY DEF Waits, Stays
  <1>2. OneJob(jobs, jobs', k) BY <1>0, ZenonT(40) DEF OneJob, ExecutorTypes
  <1>3. OnlyKey(k) BY <1>0, <1>1, <1>2, ZenonT(40) DEF OnlyKey, Grows, ExecutorTypes, HandoffKept
  <1>4. /\ TypeOf(k)' = TypeOf(k) /\ EpochOf(k)' = EpochOf(k)
        /\ Done(k) => Done(k)'
        /\ MetadataMoved(k) => MetadataMoved(k)'
      BY DoneKept, TypeKept DEF Grows, EpochOf
  <1>5. KeyInv(k) BY <1>0
  <1>6. /\ (ex').running = ex.running /\ (ex').epoch = ex.epoch /\ (ex').window = ex.window
      BY <1>1, ZenonT(40) DEF Touches
  <1>7. StoreInv(k)' BY <1>4, <1>5 DEF StoreInv, KeyInv
  <1>8. TodoInv(k)' BY DEF TodoInv
  <1>9. OpInv(k)' /\ JobInv(k)' /\ (Flying(ex', k) => Flying(ex, k))
    <2>1. CASE ex' = ex
      <3>1. Drained(k) => Drained(k)' BY <2>1, <1>4, ZenonT(40) DEF Drained
      <3> QED BY <1>4, <1>5, <2>1, <3>1, ZenonT(40) DEF OpInv, JobInv, KeyInv
    <2>2. CASE Erased(ex', k) /\ ~ Flying(ex, k)
      <3>1. OpInv(k)' BY <2>2, ZenonT(40) DEF OpInv, Erased
      <3>2. ~ Flying(ex', k) BY <2>2, ZenonT(40) DEF Erased, Flying
      <3>3. ex.running => k \notin DOMAIN jobs BY <1>5, <2>2, ZenonT(40) DEF KeyInv, JobInv, Flying
      <3>4. Drained(k) /\ ~ ex.running => Drained(k)' BY <1>4, <1>6 DEF Drained
      <3>5. JobInv(k)' BY <1>4, <1>5, <1>6, <3>3, <3>4, ZenonT(40) DEF KeyInv, JobInv
      <3> QED BY <3>1, <3>2, <3>5, ZenonT(40)
    <2>3. CASE /\ k \in DOMAIN (ex').ops
               /\ Flying(ex', k) <=> Flying(ex, k)
               /\ Moved(ex', k) <=> Moved(ex, k)
               /\ Ready(ex', k) <=> Ready(ex, k)
               /\ (ex').window /\ Tried(ex', k) => Tried(ex, k)
               /\ k \in (ex').gate <=> k \in ex.gate
      <3>0. k \notin (loop').todo /\ k \in DOMAIN (ex').ops BY <2>3
      <3>1. OpInv(k)'
          BY <1>4, <1>5, <1>6, <2>3, ZenonT(40) DEF OpInv, KeyInv, Flying, Moved, Ready, Tried
      <3>2. k \in DOMAIN jobs /\ (ex.running => Flying(ex, k)) /\ Drained(k) => Drained(k)'
          BY <1>4, <1>6, <2>3, ZenonT(40) DEF Drained, Moved, Flying
      <3>3. ex.running /\ Flying(ex, k) => /\ Flying(ex', k)
                                           /\ (ex').ops[k].metadataDone <=> ex.ops[k].metadataDone
          BY <2>3 DEF Moved, Flying
      <3>4. JobInv(k)' BY <1>4, <1>5, <1>6, <3>2, <3>3, ZenonT(40) DEF KeyInv, JobInv, Flying
      <3> QED BY <2>3, <3>1, <3>4
    <2> QED BY <2>1, <2>2, <2>3, ZenonT(40) DEF Waits, Stays
  <1>10. KeyInv(k)' BY <1>7, <1>8, <1>9, ZenonT(40) DEF KeyInv
  <1>11. SlotInv' BY <1>0, <1>1, <1>9, SlotsFreed, ZenonT(40)
  <1> QED BY <1>3, <1>10, <1>11, OneKeyStep

\* The Run loop starts a body of k, or fails to.
LEMMA AdmitsStep ==
  ASSUME ExecutorInv, NEW k \in Key, NEW drain \in BOOLEAN, Admits(ex, ex', k, drain),
         \/ Flying(ex', k) /\ jobs' = Set(jobs, k, NewJob)
         \/ ~ Flying(ex', k) /\ jobs' = jobs,
         drain => Moved(ex, k), EpochOf(k) = ex.epoch,
         loop' \in Loops, k \notin (loop').todo,
         (loop').todo \subseteq loop.todo, (loop').todo # {} => (loop').pc = loop.pc,
         batches' = batches, authority' = authority, marker' = marker, effects' = effects,
         HandoffKept, finished' = finished
  PROVE  ExecutorInv'
  <1>0. ExecutorTypes /\ SlotInv /\ finished \subseteq Key /\ handoff \subseteq Key /\ KeyInv(k)
      BY DEF ExecutorInv
  <1>1. Touches(ex, ex', k) BY ZenonT(40) DEF Admits
  <1>2. /\ OneJob(jobs, jobs', k)
        /\ Flying(ex', k) => k \in DOMAIN jobs' /\ jobs'[k] = NewJob
    <2>1. NewJob \in Job BY ZenonT(40) DEF NewJob, Job, Stages
    <2>2. OneJob(jobs, jobs, k) BY <1>0 DEF OneJob, ExecutorTypes
    <2> QED BY <1>0, <2>1, <2>2, SetJob DEF ExecutorTypes
  <1>3. OnlyKey(k) BY <1>0, <1>1, <1>2, ZenonT(40) DEF OnlyKey, Grows, ExecutorTypes, HandoffKept
  <1>4. /\ TypeOf(k)' = TypeOf(k) /\ EpochOf(k)' = EpochOf(k)
        /\ Done(k) => Done(k)'
        /\ MetadataMoved(k) => MetadataMoved(k)'
      BY DoneKept, TypeKept, ZenonT(40) DEF Grows, EpochOf
  <1>5. KeyInv(k) BY <1>0, ZenonT(40)
  <1>6. /\ (ex').running = ex.running /\ (ex').epoch = ex.epoch /\ (ex').window = ex.window
      BY <1>1, ZenonT(40) DEF Touches
  <1>7. StoreInv(k)' BY <1>4, <1>5 DEF StoreInv, KeyInv
  <1>8. TodoInv(k)' BY ZenonT(40) DEF TodoInv
  <1>9. ex.running /\ ~ Flying(ex, k) BY ZenonT(40) DEF Admits
  <1>10. k \notin DOMAIN jobs BY <1>5, <1>9, ZenonT(40) DEF KeyInv, JobInv, Flying
  <1>11. JobInv(k)'
    <2>1. CASE Flying(ex', k)
      <3>1. jobs'[k].stage = "body" BY <1>2, <2>1 DEF NewJob
      <3> QED BY <2>1, <3>1, ZenonT(40) DEF JobInv, Flying
    <2>2. CASE ~ Flying(ex', k) BY <1>10, <2>2, ZenonT(40) DEF JobInv
    <2> QED BY <2>1, <2>2, ZenonT(40)
  <1>12. OpInv(k)'
    <2>1. CASE Erased(ex', k) BY <2>1 DEF OpInv, Erased
    <2>2. CASE ~ Erased(ex', k)
      <3>1. /\ k \in DOMAIN (ex').ops
            /\ Moved(ex', k) <=> Moved(ex, k)
            /\ Ready(ex', k) => Ready(ex, k) \/ Done(k)
            /\ TypeOf(k) = "SCALE_IN" /\ ~ drain => k \in (ex').gate
          BY <2>2, ZenonT(40) DEF Admits
      <3>2. Ready(ex', k) => Done(k)' BY <1>4, <1>5, <3>1, ZenonT(40) DEF KeyInv, OpInv, Ready
      <3>3. Moved(ex', k) => MetadataMoved(k)' BY <1>4, <1>5, <3>1, ZenonT(40) DEF KeyInv, OpInv, Moved
      <3>4. TypeOf(k) = "SCALE_IN" => Moved(ex', k) \/ k \in (ex').gate BY <3>1, ZenonT(40)
      <3>5. Flying(ex', k) => k \in DOMAIN jobs' BY <1>2, ZenonT(40)
      <3> QED BY <1>4, <1>6, <3>1, <3>2, <3>3, <3>4, <3>5, ZenonT(40) DEF OpInv, Moved, Ready, Flying
    <2> QED BY <2>1, <2>2, ZenonT(40)
  <1>13. KeyInv(k)' BY <1>7, <1>8, <1>11, <1>12, ZenonT(40) DEF KeyInv
  <1>14. SlotInv' BY <1>0, SlotTakenOnce
  <1> QED BY <1>3, <1>13, <1>14, OneKeyStep, ZenonT(40)

\* The Run loop writes the progress of k, or the completion of k does.
LEMMA ProgressFacts ==
  ASSUME ExecutorInv, NEW k \in Key, NEW ok \in BOOLEAN, CompleteProgress(k, ok), Done(k),
         snapshot' = snapshot
  PROVE  /\ HandoffKept
         /\ \A j \in Key \ {k} : j \in finished' <=> j \in finished
         /\ \/ ex' = ex /\ k \notin DOMAIN ex.ops /\ finished' = finished
            \/ Settled(ex, ex', k)
  <1>0. ExecutorTypes /\ SlotInv /\ finished \subseteq Key /\ handoff \subseteq Key /\ KeyInv(k)
      BY DEF ExecutorInv
  <1>1. CASE ~ Known(ex, k)
      BY <1>0, <1>1 DEF CompleteProgress, HandoffKept, Known
  <1>2. CASE Known(ex, k)
    <2> DEFINE x == [ex EXCEPT !.ops[k].progressReady = TRUE]
    <2>1. ex \in Executors /\ k \in DOMAIN ex.ops BY <1>0, <1>2 DEF Known, ExecutorTypes
    <2>2. /\ Touches(ex, x, k) /\ k \in DOMAIN x.ops /\ x.gate = ex.gate
          /\ x.ops[k].inFlight = ex.ops[k].inFlight
          /\ x.ops[k].attempts = ex.ops[k].attempts
          /\ x.ops[k].metadataDone = ex.ops[k].metadataDone
        BY <2>1, ReadyFacts
    <2>3. \/ /\ finished' = finished \cup {k}
             /\ handoff' = RecordScaleOutHandoffCompletion(k, ok)
             /\ ex' = Erase(x, k)
          \/ /\ finished' \in {finished, finished \cup {k}}
             /\ ex' = CompleteFailure(x, k, "RETRY", TRUE)
             /\ handoff' = handoff
        BY <1>2, ZenonT(40) DEF CompleteProgress
    <2> HIDE DEF x
    <2>4. x \in Executors BY <1>0, <2>2 DEF Touches
    <2>5. HandoffKept
        BY <1>0, <2>3, ZenonT(40) DEF HandoffKept, RecordScaleOutHandoffCompletion
    <2>6. \A j \in Key \ {k} : j \in finished' <=> j \in finished BY <2>3, ZenonT(40)
    <2>7. CASE ex' = Erase(x, k)
      <3>1. Touches(x, ex', k) /\ Erased(ex', k) BY <2>4, <2>7, EraseFacts, ZenonT(40)
      <3>2. Touches(ex, ex', k) BY <2>2, <3>1, TouchesTrans, ZenonT(40)
      <3> QED BY <2>5, <2>6, <3>1, <3>2 DEF Settled
    <2>8. CASE ex' = CompleteFailure(x, k, "RETRY", TRUE)
      <3>1. TRUE \in BOOLEAN OBVIOUS
      <3>2. Settled(x, ex', k) BY <2>4, <2>8, <3>1, CompleteFailureFacts, ZenonT(40)
      <3>3. Touches(ex, ex', k) BY <2>2, <3>2, TouchesTrans, ZenonT(40) DEF Settled
      <3>4. Kept(x, ex', k) => Kept(ex, ex', k) BY <2>1, <2>2, ZenonT(40) DEF Kept
      <3> QED BY <2>5, <2>6, <3>2, <3>3, <3>4 DEF Settled
    <2> QED BY <2>3, <2>7, <2>8, ZenonT(40)
  <1> QED BY <1>1, <1>2
=============================================================================
