------------------------------ MODULE Scheduler ------------------------------
(***************************************************************************)
(* The adaptive controller of scheduler.rs.  Its thread samples the rings  *)
(* every 100 ms and moves `readers_target`; worker i reads when i is below *)
(* the target and writes otherwise.                                        *)
(*                                                                         *)
(* One Tick is one turn of the loop in `run`.  What it samples (the two    *)
(* occupancies, read one after the other while the workers go on, and the  *)
(* two averages the cliff test compares) is left open: any values the      *)
(* rings can have.  The telemetry it publishes is left out.                *)
(***************************************************************************)
EXTENDS Integers, Sequences, FiniteSets

CONSTANTS
    WorkerCounts,   \* pool sizes considered
    Depths,         \* queue depths a device profile or --qd may give
    Spindles,       \* subset of BOOLEAN: may source and destination share one
    Capacity,       \* buffers of the arena
    MaxStreak       \* bound on candidate_count, which grows for ever

ASSUME LimitsAssumption ==
    /\ WorkerCounts \subseteq Nat \ {0, 1}
    /\ Depths \subseteq Nat
    /\ Spindles \subseteq BOOLEAN
    /\ Capacity \in Nat \ {0}
    /\ MaxStreak \in Nat \ {0, 1}

VARIABLES
    limits,          \* fixed by Copier::new
    readersTarget, state,
    candidate, streak,   \* the hysteresis: candidate, candidate_count
    ticked,          \* the controller has run at least once
    beat,            \* flips at every turn: one that changes nothing else is
                     \* a step too
    stop,            \* set by run_bulk when the workers have exited
    running,
    seen             \* the last two states indicated

vars == <<limits, readersTarget, state, candidate, streak, ticked, beat, stop, running, seen>>

States == {"BALANCED", "FILL", "DRAIN", "CLIFF", "THRASH"}

AtMost(a, b) == IF a < b THEN a ELSE b
AtLeast(a, b) == IF a > b THEN a ELSE b
Minus(a, b) == IF a < b THEN 0 ELSE a - b      \* saturating_sub
Clamp(v, lo, hi) == AtLeast(AtMost(v, hi), lo)

\* Copier::new caps both depths by the pool size.
Limits ==
    {[workers |-> w, maxReaders |-> AtMost(r, w), maxWriters |-> AtMost(d, w),
      sameSpindle |-> s] : w \in WorkerCounts, r \in Depths, d \in Depths, s \in Spindles}

\* Scheduler::new starts from an even split.
StartTarget(l) == Clamp(l.workers \div 2, 1, AtLeast(Minus(l.workers, 1), 1))

LowBound(l) == IF l.sameSpindle THEN 0 ELSE AtLeast(Minus(l.workers, l.maxWriters), 1)
\* Mutant: the last writer may be taken away.
HighBound_AllWorkers(l) == IF l.sameSpindle THEN l.workers ELSE AtLeast(l.maxReaders, LowBound(l))

HighBound(l) ==
    IF l.sameSpindle THEN l.workers
    ELSE AtLeast(AtMost(l.maxReaders, Minus(l.workers, 1)), LowBound(l))
\* Mutant: the target is clamped from below only.
Bounded_FloorOnly(l, target) == AtLeast(target, LowBound(l))

Bounded(l, target) == Clamp(target, LowBound(l), HighBound(l))

\* The split BALANCED settles on: weighted by the two queue depths.
BaseSplit(l) == (l.workers * l.maxReaders) \div AtLeast(l.maxReaders + l.maxWriters, 1)

Init ==
    /\ limits \in Limits
    /\ readersTarget = StartTarget(limits)
    /\ state = "BALANCED"
    /\ candidate = "BALANCED" /\ streak = 0
    /\ ticked = FALSE /\ beat = FALSE
    /\ stop = FALSE /\ running = TRUE
    /\ seen = <<>>

\* Starvation is a count: fewer filled chunks than writers, fewer free buffers
\* than readers.  A slump of the write rate counts as a cliff only when the
\* destination already has as many writers as it can use.
Indicated(free, filled, slump) ==
    LET writers == Minus(limits.workers, readersTarget)
    IN  IF limits.sameSpindle THEN "THRASH"
        ELSE IF slump /\ writers >= limits.maxWriters THEN "CLIFF"
        ELSE IF free < AtLeast(readersTarget, 1) THEN "DRAIN"
        ELSE IF filled < AtLeast(writers, 1) THEN "FILL"
        ELSE "BALANCED"

\* Mutant: a new candidate does not restart the count.
Hysteresis_NoReset(next) ==
    /\ candidate' = next
    /\ streak' = AtMost(streak + 1, MaxStreak)
    /\ state' = IF streak' >= 2 THEN next ELSE state

\* A state must be indicated twice running before it takes effect.
Hysteresis(next) ==
    /\ candidate' = next
    /\ streak' = IF next = candidate THEN AtMost(streak + 1, MaxStreak) ELSE 1
    /\ state' = IF streak' >= 2 THEN next ELSE state

\* Below 12% of the arena a ring counts as empty for the burst mode.
NearlyEmpty(n) == 100 * n < 12 * Capacity

\* Mutants: BALANCED goes to its split at once, ...
Target_Jumps(committed, free, filled) ==
    CASE committed = "BALANCED" -> BaseSplit(limits)
      [] committed \in {"FILL", "CLIFF"} -> readersTarget + 1
      [] OTHER -> Minus(readersTarget, 1)

\* ... or never takes a reader away, ...
Target_OnlyUp(committed, free, filled) ==
    CASE committed = "BALANCED" ->
            IF readersTarget < BaseSplit(limits) THEN readersTarget + 1 ELSE readersTarget
      [] committed \in {"FILL", "CLIFF"} -> readersTarget + 1
      [] OTHER -> Minus(readersTarget, 1)

\* ... and DRAIN leaves the split alone.
Target_DrainHolds(committed, free, filled) ==
    IF committed \in {"FILL", "CLIFF"} THEN readersTarget + 1 ELSE readersTarget

Target(committed, free, filled) ==
    CASE committed = "THRASH" ->
            IF NearlyEmpty(free) THEN 0
            ELSE IF NearlyEmpty(filled) THEN limits.workers
            ELSE readersTarget
      [] committed \in {"FILL", "CLIFF"} -> readersTarget + 1
      [] committed = "DRAIN" -> Minus(readersTarget, 1)
      [] committed = "BALANCED" ->
            IF readersTarget < BaseSplit(limits) THEN readersTarget + 1
            ELSE IF readersTarget > BaseSplit(limits) THEN Minus(readersTarget, 1)
            ELSE readersTarget

Tick(free, filled, slump) ==
    /\ running /\ ~stop
    /\ Hysteresis(Indicated(free, filled, slump))
    /\ readersTarget' = Bounded(limits, Target(state', free, filled))
    /\ ticked' = TRUE /\ beat' = ~beat
    /\ seen' = <<Indicated(free, filled, slump)>> \o SubSeq(seen, 1, AtMost(Len(seen), 1))
    /\ UNCHANGED <<limits, stop, running>>

\* run_bulk, once its workers are joined.
Stop ==
    /\ ~stop
    /\ stop' = TRUE
    /\ UNCHANGED <<limits, readersTarget, state, candidate, streak, ticked, beat, running, seen>>

Exit ==
    /\ running /\ stop
    /\ running' = FALSE
    /\ UNCHANGED <<limits, readersTarget, state, candidate, streak, ticked, beat, stop, seen>>

\* The scheduler of a Copier that has run stays stopped.
Stopped == ~running /\ UNCHANGED vars

Sample == [free : 0..Capacity, filled : 0..Capacity, slump : BOOLEAN]
Controller == Exit \/ \E s \in Sample : Tick(s.free, s.filled, s.slump)
Next == Controller \/ Stop \/ Stopped

Spec == Init /\ [][Next]_vars
\* The thread sleeps 100 ms between turns and nothing else holds it up.
FairSpec == Spec /\ WF_vars(Controller)

-------------------------------------------------------------------------------
TypeOK ==
    /\ limits \in Limits
    /\ readersTarget \in 0..limits.workers
    /\ state \in States /\ candidate \in States
    /\ streak \in 0..MaxStreak
    /\ ticked \in BOOLEAN /\ beat \in BOOLEAN /\ stop \in BOOLEAN /\ running \in BOOLEAN
    /\ seen \in Seq(States)

\* "Bounds on the reader count that keep both sides alive": with two devices
\* and any usable depth, whatever has been sampled, somebody reads and somebody
\* writes.
BothSidesAlive ==
    ~limits.sameSpindle => readersTarget > 0 /\ readersTarget < limits.workers

\* README: "transitions require two consecutive indications, so one noisy
\* sample cannot flip the pipeline".
TwoIndications ==
    [][state' # state => Len(seen') = 2 /\ seen'[1] = state' /\ seen'[2] = state']_vars

\* "It moves one worker per sample toward the indicated side rather than
\* jumping to a computed split": once the first turn has brought the starting
\* split within its bounds, clamping never makes a turn move two workers.
OneWorkerPerSample ==
    [][~limits.sameSpindle /\ ticked =>
        readersTarget' \in (readersTarget - 1)..(readersTarget + 1)]_vars

\* "respect each device's useful queue depth": never more workers on a side
\* than its device can use.
DepthRespected ==
    ~limits.sameSpindle /\ ticked =>
        /\ readersTarget <= limits.maxReaders
        /\ limits.workers - readersTarget <= limits.maxWriters

\* Left alone with neither side starved the controller reaches the split the
\* two devices want, within its bounds, and stays there.
SettlesOnSplit ==
    <>[](~stop /\ candidate = "BALANCED") =>
        <>[](readersTarget = Bounded(limits, BaseSplit(limits)))

\* A destination that stays starved gets readers until no more may be added,
\* and an arena that stays full gets writers: the controller does not stop part
\* of the way.
StarvationAnswered ==
    /\ <>[](~stop /\ candidate = "FILL") => <>(readersTarget = HighBound(limits))
    /\ <>[](~stop /\ candidate = "DRAIN") => <>(readersTarget = LowBound(limits))
===============================================================================
