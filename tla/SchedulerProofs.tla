---------------------------- MODULE SchedulerProofs ----------------------------
(***************************************************************************)
(* Theorems about Scheduler for pools of any size, any depths and any      *)
(* sequence of samples.                                                    *)
(***************************************************************************)
EXTENDS Scheduler, SequenceTheorems, TLAPS

-------------------------------------------------------------------------------
(* The bounds. *)

LEMMA LimitsType ==
    ASSUME NEW l \in Limits
    PROVE  /\ l.workers \in Nat /\ l.workers >= 2
           /\ l.maxReaders \in Nat /\ l.maxReaders <= l.workers
           /\ l.maxWriters \in Nat /\ l.maxWriters <= l.workers
           /\ l.sameSpindle \in BOOLEAN
           /\ 0 \notin Depths => l.maxReaders > 0 /\ l.maxWriters > 0
<1>1. PICK w \in WorkerCounts, r \in Depths, d \in Depths, s \in Spindles :
          l = [workers |-> w, maxReaders |-> AtMost(r, w), maxWriters |-> AtMost(d, w),
               sameSpindle |-> s]
    BY DEF Limits
<1>2. w \in Nat /\ w >= 2 /\ r \in Nat /\ d \in Nat /\ s \in BOOLEAN
    BY LimitsAssumption
<1> QED
    BY <1>1, <1>2 DEF AtMost

LEMMA BoundsOrdered ==
    ASSUME NEW l \in Limits
    PROVE  /\ LowBound(l) \in Nat /\ HighBound(l) \in Nat
           /\ LowBound(l) <= HighBound(l) /\ HighBound(l) <= l.workers
BY LimitsType DEF LowBound, HighBound, AtMost, AtLeast, Minus

\* With two devices of a usable depth the bounds leave a worker to each side.
LEMMA BoundsInside ==
    ASSUME NEW l \in Limits, ~l.sameSpindle, 0 \notin Depths
    PROVE  LowBound(l) > 0 /\ HighBound(l) < l.workers
BY LimitsType DEF LowBound, HighBound, AtMost, AtLeast, Minus

LEMMA BoundedInBounds ==
    ASSUME NEW l \in Limits, NEW t \in Nat
    PROVE  /\ Bounded(l, t) \in Nat
           /\ LowBound(l) <= Bounded(l, t) /\ Bounded(l, t) <= HighBound(l)
BY BoundsOrdered DEF Bounded, Clamp, AtMost, AtLeast

\* Clamping keeps close what was close to a target within the bounds.
LEMMA BoundedNear ==
    ASSUME NEW l \in Limits, NEW t \in Nat, NEW r \in Nat,
           LowBound(l) <= r, r <= HighBound(l), r - 1 <= t, t <= r + 1
    PROVE  r - 1 <= Bounded(l, t) /\ Bounded(l, t) <= r + 1
BY BoundsOrdered DEF Bounded, Clamp, AtMost, AtLeast

LEMMA StartInside ==
    ASSUME NEW l \in Limits
    PROVE  /\ StartTarget(l) \in Nat
           /\ StartTarget(l) > 0 /\ StartTarget(l) < l.workers
<1>1. /\ l.workers \in Nat /\ l.workers >= 2
      /\ l.workers \div 2 \in Nat
    BY LimitsType
<1> QED
    BY <1>1 DEF StartTarget, Clamp, AtMost, AtLeast, Minus

LEMMA BaseSplitType ==
    ASSUME NEW l \in Limits
    PROVE  BaseSplit(l) \in Nat
<1> DEFINE a == l.workers * l.maxReaders
           d == AtLeast(l.maxReaders + l.maxWriters, 1)
<1>1. l.workers \in Nat /\ l.maxReaders \in Nat /\ l.maxWriters \in Nat
    BY LimitsType
<1>2. a \in Nat
    BY <1>1
<1>3. d \in Nat /\ d > 0
    BY <1>1 DEF AtLeast
<1>4. a \div d \in Nat
    <2> HIDE DEF a, d
    <2> QED
        BY <1>2, <1>3
<1> QED
    BY <1>4 DEF BaseSplit

LEMMA TargetType ==
    ASSUME limits \in Limits, readersTarget \in Nat, NEW c \in States,
           NEW free, NEW filled
    PROVE  /\ Target(c, free, filled) \in Nat
           /\ c # "THRASH" =>
                /\ readersTarget - 1 <= Target(c, free, filled)
                /\ Target(c, free, filled) <= readersTarget + 1
<1>1. limits.workers \in Nat /\ BaseSplit(limits) \in Nat
    BY LimitsType, BaseSplitType
<1>2. /\ Minus(readersTarget, 1) \in Nat
      /\ readersTarget - 1 <= Minus(readersTarget, 1)
      /\ Minus(readersTarget, 1) <= readersTarget
    BY DEF Minus
<1>3. CASE c = "THRASH"
    BY <1>1, <1>3 DEF Target
<1>4. CASE c \in {"FILL", "CLIFF"}
    BY <1>4 DEF Target
<1>5. CASE c = "DRAIN"
    BY <1>2, <1>5 DEF Target
<1>6. CASE c = "BALANCED"
    BY <1>1, <1>2, <1>6 DEF Target
<1> QED
    BY <1>3, <1>4, <1>5, <1>6 DEF States

LEMMA IndicatedType ==
    ASSUME NEW free, NEW filled, NEW slump
    PROVE  /\ Indicated(free, filled, slump) \in States
           /\ ~limits.sameSpindle => Indicated(free, filled, slump) # "THRASH"
BY DEF Indicated, States
-------------------------------------------------------------------------------
(* The invariant.  `seen` is what the hysteresis has been shown: the        *)
(* candidate is the last indication, once there has been one.  Two devices  *)
(* never commit the burst state, and after the first turn the target lies   *)
(* within its bounds.                                                       *)

HysteresisInv ==
    /\ streak > 0 => Len(seen) > 0 /\ seen[1] = candidate
    /\ Len(seen) <= 2
    /\ ~limits.sameSpindle => state # "THRASH" /\ candidate # "THRASH"

TargetInv ==
    /\ ticked => LowBound(limits) <= readersTarget /\ readersTarget <= HighBound(limits)
    /\ ~ticked => readersTarget > 0 /\ readersTarget < limits.workers

SchedulerInv == TypeOK /\ HysteresisInv /\ TargetInv

LEMMA SchedulerInit == Init => SchedulerInv
<1> SUFFICES ASSUME Init
             PROVE  SchedulerInv
    OBVIOUS
<1>1. TypeOK
    <2>1. limits \in Limits /\ readersTarget = StartTarget(limits) /\ streak = 0 /\ seen = <<>>
        BY DEF Init
    <2>2. readersTarget \in 0..limits.workers
        BY <2>1, StartInside, LimitsType
    <2>3. streak \in 0..MaxStreak
        BY <2>1, LimitsAssumption
    <2> QED
        <3>1. seen \in Seq(States)
            BY <2>1, EmptySeq
        <3>2. state \in States /\ candidate \in States
            BY DEF Init, States
        <3>3. ticked \in BOOLEAN /\ beat \in BOOLEAN /\ stop \in BOOLEAN /\ running \in BOOLEAN
            BY DEF Init
        <3> QED
            BY <2>1, <2>2, <2>3, <3>1, <3>2, <3>3 DEF TypeOK
<1>2. HysteresisInv /\ TargetInv
    BY StartInside DEF Init, HysteresisInv, TargetInv
<1> QED
    BY <1>1, <1>2 DEF SchedulerInv

\* What a turn does to the record of indications.
LEMMA SeenStep ==
    ASSUME TypeOK, NEW i \in States,
           seen' = <<i>> \o SubSeq(seen, 1, AtMost(Len(seen), 1))
    PROVE  /\ seen' \in Seq(States)
           /\ seen'[1] = i
           /\ Len(seen') = IF Len(seen) > 0 THEN 2 ELSE 1
           /\ Len(seen) > 0 => seen'[2] = seen[1]
<1> DEFINE n == AtMost(Len(seen), 1)
           t == SubSeq(seen, 1, n)
<1>1. seen \in Seq(States) /\ Len(seen) \in Nat
    BY DEF TypeOK
<1>2. /\ n \in Nat /\ n <= Len(seen)
      /\ n = IF Len(seen) > 0 THEN 1 ELSE 0
    BY <1>1 DEF AtMost
<1>3. \A k \in 1..n : seen[k] \in States
    <2> HIDE DEF n
    <2> QED
        BY <1>1, <1>2, ElementOfSeq
<1>4. /\ t \in Seq(States) /\ Len(t) = n
      /\ n > 0 => t[1] = seen[1]
    <2> HIDE DEF n
    <2> QED
        BY <1>2, <1>3, SubSeqProperties
<1>5. <<i>> \in Seq(States) /\ Len(<<i>>) = 1 /\ <<i>>[1] = i
    OBVIOUS
<1>6. seen' = <<i>> \o t
    OBVIOUS
<1> HIDE DEF n, t
<1>7. /\ <<i>> \o t \in Seq(States)
      /\ Len(<<i>> \o t) = 1 + n
      /\ \A k \in 1..(1 + n) : (<<i>> \o t)[k] = IF k <= 1 THEN <<i>>[k] ELSE t[k - 1]
    BY <1>4, <1>5, ConcatProperties
<1>8. (<<i>> \o t)[1] = i /\ (n = 1 => (<<i>> \o t)[2] = t[1])
    <2>1. 1 \in 1..(1 + n) /\ (n = 1 => 2 \in 1..(1 + n) /\ 2 - 1 = 1)
        BY <1>2
    <2> QED
        BY <1>5, <1>7, <2>1
<1>9. seen' \in Seq(States) /\ Len(seen') = 1 + n
    BY <1>6, <1>7
<1>10. seen'[1] = i /\ (n = 1 => seen'[2] = t[1])
    BY <1>6, <1>8
<1>11. Len(seen) > 0 <=> n = 1
    BY <1>1, <1>2
<1>12. Len(seen') = IF Len(seen) > 0 THEN 2 ELSE 1
    BY <1>2, <1>9
<1>13. Len(seen) > 0 => seen'[2] = seen[1]
    <2>1. n = 1 => n > 0
        OBVIOUS
    <2>2. n = 1 => t[1] = seen[1]
        BY <1>4, <2>1
    <2>3. n = 1 => seen'[2] = t[1]
        BY <1>10
    <2> QED
        BY <1>11, <2>2, <2>3
<1> QED
    BY <1>9, <1>10, <1>12, <1>13

\* One turn, seen from outside: the new state is the old one, or was indicated
\* by this turn and by the one before it.
LEMMA HysteresisStep ==
    ASSUME SchedulerInv, NEW free, NEW filled, NEW slump, Tick(free, filled, slump)
    PROVE  /\ state' \in States /\ candidate' \in States
           /\ streak' \in 0..MaxStreak
           /\ seen' \in Seq(States)
           /\ HysteresisInv'
           /\ state' # state => Len(seen') = 2 /\ seen'[1] = state' /\ seen'[2] = state'
<1> DEFINE i == Indicated(free, filled, slump)
<1>1. i \in States /\ (~limits.sameSpindle => i # "THRASH")
    BY IndicatedType
<1>2. /\ candidate' = i
      /\ streak' = IF i = candidate THEN AtMost(streak + 1, MaxStreak) ELSE 1
      /\ state' = IF streak' >= 2 THEN i ELSE state
      /\ seen' = <<i>> \o SubSeq(seen, 1, AtMost(Len(seen), 1))
      /\ UNCHANGED limits
    BY DEF Tick, Hysteresis
<1> HIDE DEF i
<1>3. /\ seen' \in Seq(States)
      /\ seen'[1] = i
      /\ Len(seen') = IF Len(seen) > 0 THEN 2 ELSE 1
      /\ Len(seen) > 0 => seen'[2] = seen[1]
    BY <1>1, <1>2, SeenStep DEF SchedulerInv
<1>4. MaxStreak \in Nat /\ MaxStreak >= 2 /\ streak \in 0..MaxStreak
    BY LimitsAssumption DEF SchedulerInv, TypeOK
<1>5. streak' \in 0..MaxStreak /\ (streak' >= 2 => streak > 0 /\ i = candidate)
    BY <1>2, <1>4 DEF AtMost
<1>6. streak' >= 2 => Len(seen') = 2 /\ seen'[1] = i /\ seen'[2] = i
    BY <1>3, <1>5 DEF SchedulerInv, HysteresisInv
<1> QED
    <2>1. state \in States /\ (~limits.sameSpindle => state # "THRASH")
        BY DEF SchedulerInv, TypeOK, HysteresisInv
    <2>2. HysteresisInv'
        <3>1. streak' > 0 => Len(seen') > 0 /\ seen'[1] = candidate'
            BY <1>2, <1>3
        <3>2. Len(seen') <= 2
            BY <1>3
        <3>3. ~limits'.sameSpindle => state' # "THRASH" /\ candidate' # "THRASH"
            BY <1>1, <1>2, <2>1
        <3> QED
            BY <3>1, <3>2, <3>3 DEF HysteresisInv
    <2>3. state' \in States /\ candidate' \in States
        BY <1>1, <1>2, <2>1
    <2>4. state' # state => Len(seen') = 2 /\ seen'[1] = state' /\ seen'[2] = state'
        BY <1>2, <1>6
    <2> QED
        BY <1>3, <1>5, <2>2, <2>3, <2>4

LEMMA TargetStep ==
    ASSUME SchedulerInv, NEW free, NEW filled, NEW slump, Tick(free, filled, slump)
    PROVE  /\ readersTarget' \in 0..limits.workers
           /\ TargetInv'
           /\ ~limits.sameSpindle /\ ticked =>
                readersTarget' \in (readersTarget - 1)..(readersTarget + 1)
<1> DEFINE t == Target(state', free, filled)
<1>1. limits \in Limits /\ limits.workers \in Nat /\ readersTarget \in Nat
    BY LimitsType DEF SchedulerInv, TypeOK
<1>2. state' \in States /\ (~limits.sameSpindle => state' # "THRASH")
    BY HysteresisStep DEF HysteresisInv, Tick
<1>3. /\ t \in Nat
      /\ state' # "THRASH" => readersTarget - 1 <= t /\ t <= readersTarget + 1
    BY <1>1, <1>2, TargetType
<1>4. readersTarget' = Bounded(limits, t) /\ ticked' /\ UNCHANGED limits
    BY DEF Tick
<1> HIDE DEF t
<1>5. /\ LowBound(limits) <= readersTarget' /\ readersTarget' <= HighBound(limits)
      /\ readersTarget' \in Nat
    BY <1>1, <1>3, <1>4, BoundedInBounds
<1>6. HighBound(limits) \in Nat /\ HighBound(limits) <= limits.workers
    BY <1>1, BoundsOrdered
<1>7. ~limits.sameSpindle /\ ticked =>
          readersTarget - 1 <= readersTarget' /\ readersTarget' <= readersTarget + 1
    BY <1>1, <1>2, <1>3, <1>4, BoundedNear DEF SchedulerInv, TargetInv
<1> QED
    BY <1>1, <1>4, <1>5, <1>6, <1>7 DEF TargetInv

LEMMA SchedulerStep == SchedulerInv /\ [Next]_vars => SchedulerInv'
<1> SUFFICES ASSUME SchedulerInv, [Next]_vars
             PROVE  SchedulerInv'
    OBVIOUS
<1>1. ASSUME NEW free, NEW filled, NEW slump, Tick(free, filled, slump)
      PROVE  SchedulerInv'
    <2>1. UNCHANGED <<limits, stop, running>> /\ ticked' = TRUE /\ beat' \in BOOLEAN
        BY <1>1 DEF Tick
    <2> QED
        BY <1>1, <2>1, HysteresisStep, TargetStep DEF SchedulerInv, TypeOK
<1>2. CASE Stop
    BY <1>2 DEF Stop, SchedulerInv, TypeOK, HysteresisInv, TargetInv
<1>3. CASE Exit
    BY <1>3 DEF Exit, SchedulerInv, TypeOK, HysteresisInv, TargetInv
<1>4. CASE UNCHANGED vars
    BY <1>4 DEF vars, SchedulerInv, TypeOK, HysteresisInv, TargetInv
<1> QED
    BY <1>1, <1>2, <1>3, <1>4 DEF Next, Controller, Stopped

LEMMA SchedulerInvariant == Spec => []SchedulerInv
BY SchedulerInit, SchedulerStep, PTL DEF Spec

\* The target is a number of workers of the pool and the controller is in one of
\* its states, whatever it samples.
THEOREM SchedulerTyped == Spec => []TypeOK
<1>1. SchedulerInv => TypeOK
    BY DEF SchedulerInv
<1> QED
    BY <1>1, SchedulerInvariant, PTL

\* When DepthRespected fails: the writers never exceed the destination's depth,
\* and the readers exceed the source's only in a pool larger than both depths
\* together, whose bounds cross.
THEOREM DepthsUnlessPoolTooLarge ==
    ASSUME 0 \notin Depths
    PROVE  Spec => [](~limits.sameSpindle /\ ticked =>
                        /\ limits.workers - readersTarget <= limits.maxWriters
                        /\ limits.workers <= limits.maxReaders + limits.maxWriters
                              => DepthRespected)
<1>1. SchedulerInv =>
        (~limits.sameSpindle /\ ticked =>
            /\ limits.workers - readersTarget <= limits.maxWriters
            /\ limits.workers <= limits.maxReaders + limits.maxWriters => DepthRespected)
    <2> SUFFICES ASSUME SchedulerInv, ~limits.sameSpindle, ticked
                 PROVE  /\ limits.workers - readersTarget <= limits.maxWriters
                        /\ limits.workers <= limits.maxReaders + limits.maxWriters
                              => readersTarget <= limits.maxReaders
        BY DEF DepthRespected
    <2>1. /\ limits.workers \in Nat /\ limits.workers >= 2
          /\ limits.maxReaders \in Nat /\ limits.maxReaders > 0
          /\ limits.maxWriters \in Nat /\ readersTarget \in Nat
        BY LimitsType DEF SchedulerInv, TypeOK
    <2>2. LowBound(limits) <= readersTarget /\ readersTarget <= HighBound(limits)
        BY DEF SchedulerInv, TargetInv
    <2> QED
        BY <2>1, <2>2 DEF LowBound, HighBound, AtMost, AtLeast, Minus
<1> QED
    BY <1>1, SchedulerInvariant, PTL

\* For any two devices with a usable depth and any pool of two workers or more:
\* somebody is told to read and somebody to write.
THEOREM SidesStayAlive ==
    ASSUME 0 \notin Depths
    PROVE  Spec => []BothSidesAlive
<1>1. SchedulerInv => BothSidesAlive
    BY BoundsInside, BoundsOrdered, LimitsType DEF SchedulerInv, TypeOK, TargetInv, BothSidesAlive
<1> QED
    BY <1>1, SchedulerInvariant, PTL

\* One noisy sample never commits a state.
THEOREM NoiseIsFiltered == Spec => TwoIndications
<1>1. SchedulerInv /\ [Next]_vars =>
          [state' # state => Len(seen') = 2 /\ seen'[1] = state' /\ seen'[2] = state']_vars
    BY HysteresisStep DEF Next, Controller, Exit, Stop, Stopped, vars
<1> QED
    BY <1>1, SchedulerInvariant, PTL DEF Spec, TwoIndications

\* After the first turn no turn moves two workers, whatever the bounds.
THEOREM SplitMovesByOne == Spec => OneWorkerPerSample
<1>1. SchedulerInv /\ [Next]_vars =>
          [~limits.sameSpindle /\ ticked =>
              readersTarget' \in (readersTarget - 1)..(readersTarget + 1)]_vars
    <2> SUFFICES ASSUME SchedulerInv, Next, ~limits.sameSpindle, ticked
                 PROVE  \/ readersTarget' \in (readersTarget - 1)..(readersTarget + 1)
                        \/ UNCHANGED vars
        OBVIOUS
    <2>1. readersTarget \in Nat
        BY LimitsType DEF SchedulerInv, TypeOK
    <2>2. CASE Stop \/ Exit
        <3>1. readersTarget' = readersTarget
            BY <2>2 DEF Stop, Exit
        <3> QED
            BY <2>1, <3>1
    <2>3. ASSUME NEW free, NEW filled, NEW slump, Tick(free, filled, slump)
          PROVE  readersTarget' \in (readersTarget - 1)..(readersTarget + 1)
        BY <2>3, TargetStep
    <2> QED
        BY <2>2, <2>3 DEF Next, Controller, Stopped
<1> QED
    BY <1>1, SchedulerInvariant, PTL DEF Spec, OneWorkerPerSample
===============================================================================
