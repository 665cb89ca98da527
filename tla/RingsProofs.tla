------------------------------ MODULE RingsProofs ------------------------------
(***************************************************************************)
(* For any number of workers and buffers, no wake-up of a ring is lost, no *)
(* buffer either, and the types hold.                                      *)
(* NoLostWakeup is inductive over what Typed says: each step that puts a   *)
(* buffer into a ring puts a thread on the way, and each that takes a      *)
(* thread off the way takes a buffer out or wakes another.                 *)
(***************************************************************************)
EXTENDS Rings, FiniteSetTheorems, SequenceTheorems, TLAPS

\* The part of the type that the argument needs: a sleeper is where its pc says.
Typed ==
    /\ ring \in [Sides -> Seq(Nat)]
    /\ asleep \in [Sides -> SUBSET Workers]
    /\ \A r \in Sides, w \in Workers : w \in asleep[r] <=> pc[w] = "asleep" /\ side[w] = r
    /\ pc \in [Workers -> Labels]
    /\ side \in [Workers -> Sides]
    /\ holds \in [Workers -> Nat]

\* The initial state is typed and nobody sleeps.
LEMMA InitTyped == Init => Typed /\ NoLostWakeup
<1>1. [i \in 1..Buffers |-> i] \in Seq(Nat)
  BY RingsAssumption
<1>2. <<>> \in Seq(Nat)
  OBVIOUS
<1> QED
  BY <1>1, <1>2 DEF Init, Typed, NoLostWakeup, Sides, Labels, Then

\* Who is on the way is a finite number of threads.
LEMMA OnTheWayFinite ==
    ASSUME NEW r
    PROVE  /\ IsFiniteSet(OnTheWay(r)) /\ Cardinality(OnTheWay(r)) \in Nat
           /\ IsFiniteSet(OnTheWay(r)') /\ Cardinality(OnTheWay(r)') \in Nat
<1>1. OnTheWay(r) \subseteq Workers /\ OnTheWay(r)' \subseteq Workers
  BY DEF OnTheWay
<1> QED
  BY <1>1, RingsAssumption, FS_Subset, FS_CardinalityType

-------------------------------------------------------------------------------
(* What the steps do to a ring, its sleepers and those on the way. *)

\* A buffer is taken out of the caller's ring, and the caller leaves the way.
LEMMA TakeKeeps ==
    ASSUME NEW w \in Workers, Typed, NoLostWakeup, Take(w)
    PROVE  Typed' /\ NoLostWakeup'
<1> DEFINE q == ring[side[w]]
<1>1. side[w] \in Sides /\ q \in Seq(Nat) /\ q # <<>>
  BY DEF Take, Typed
<1>2. /\ Tail(q) \in Seq(Nat) /\ Len(Tail(q)) = Len(q) - 1
      /\ SubSeq(q, 1, Len(q) - 1) \in Seq(Nat) /\ Len(SubSeq(q, 1, Len(q) - 1)) = Len(q) - 1
      /\ q[1] \in Nat /\ q[Len(q)] \in Nat
      /\ Len(q) \in Nat
  BY <1>1
<1>3. /\ ring' \in [Sides -> Seq(Nat)]
      /\ Len(ring'[side[w]]) = Len(q) - 1
      /\ \A r \in Sides : r # side[w] => ring'[r] = ring[r]
  BY <1>1, <1>2 DEF Take, Typed
<1>4. holds' \in [Workers -> Nat]
  BY <1>1, <1>2 DEF Take, Typed
<1>5. Typed'
  BY <1>3, <1>4 DEF Take, Typed, Goto, Labels, Then
<1>6. ASSUME NEW r \in Sides, asleep'[r] # {}
      PROVE  Len(ring'[r]) <= Cardinality(OnTheWay(r)')
  <2>1. Len(ring[r]) <= Cardinality(OnTheWay(r)) /\ Len(ring[r]) \in Nat
    BY <1>6 DEF Take, NoLostWakeup, Typed
  <2>2. CASE r = side[w]
    <3>1. OnTheWay(r)' = OnTheWay(r) \ {w}
      BY DEF OnTheWay, Take, Typed, Goto, Then
    <3> QED
      <4>1. Cardinality(OnTheWay(r) \ {w}) \in {Cardinality(OnTheWay(r)), Cardinality(OnTheWay(r)) - 1}
        BY OnTheWayFinite, FS_RemoveElement
      <4>2. Cardinality(OnTheWay(r)) \in Nat
        BY OnTheWayFinite
      <4> QED
        BY <2>1, <2>2, <3>1, <1>3, <4>1, <4>2
  <2>3. CASE r # side[w]
    <3>1. OnTheWay(r)' = OnTheWay(r)
      BY <2>3 DEF OnTheWay, Take, Typed, Goto, Then
    <3> QED
      BY <2>1, <2>3, <3>1, <1>3
  <2> QED
    BY <2>2, <2>3
<1> QED
  BY <1>5, <1>6 DEF NoLostWakeup

\* Who begins to wait found the ring empty.
LEMMA SleepKeeps ==
    ASSUME NEW w \in Workers, Typed, NoLostWakeup, Sleep(w)
    PROVE  Typed' /\ NoLostWakeup'
<1>1. Typed'
  BY DEF Typed, Sleep, Goto, Labels, Then, Sides
<1>2. ASSUME NEW r \in Sides, asleep'[r] # {}
      PROVE  Len(ring'[r]) <= Cardinality(OnTheWay(r)')
  <2>1. CASE r = side[w]
    <3>1. Len(ring'[r]) = 0
      BY <2>1 DEF Sleep, Typed
    <3> QED
      BY <3>1, OnTheWayFinite
  <2>2. CASE r # side[w]
    <3>1. asleep[r] # {} /\ ring'[r] = ring[r]
      BY <1>2, <2>2 DEF Sleep, Typed
    <3>2. OnTheWay(r)' = OnTheWay(r)
      BY <2>2 DEF OnTheWay, Sleep, Typed, Goto, Then
    <3> QED
      BY <3>1, <3>2 DEF NoLostWakeup
  <2> QED
    BY <2>1, <2>2
<1> QED
  BY <1>1, <1>2 DEF NoLostWakeup

\* A push puts one buffer into the ring and the worker on the way.
LEMMA PushKeeps ==
    ASSUME NEW w \in Workers, NEW r \in Sides, NEW l \in DOMAIN Then,
           Typed, NoLostWakeup, pc[w] \in {"claim", "write"}, Push(w, r, l),
           UNCHANGED asleep
    PROVE  Typed' /\ NoLostWakeup'
<1>1. /\ ring[r] \in Seq(Nat) /\ holds[w] \in Nat
      /\ Append(ring[r], holds[w]) \in Seq(Nat)
      /\ Len(ring[r]) \in Nat /\ Len(Append(ring[r], holds[w])) = Len(ring[r]) + 1
  BY DEF Typed
<1>2. Typed'
  BY <1>1 DEF Typed, Push, Into, Goto, Labels, Then, Sides
<1>3. ASSUME NEW s \in Sides, asleep'[s] # {}
      PROVE  Len(ring'[s]) <= Cardinality(OnTheWay(s)')
  <2>1. Len(ring[s]) <= Cardinality(OnTheWay(s)) /\ Len(ring[s]) \in Nat
    BY <1>3 DEF NoLostWakeup, Typed
  <2>2. CASE s = r
    <3>1. OnTheWay(s)' = OnTheWay(s) \cup {w} /\ w \notin OnTheWay(s)
      BY <2>2 DEF OnTheWay, Push, Into, Typed, Goto, Then
    <3>2. Len(ring'[s]) = Len(ring[s]) + 1
      BY <1>1, <2>2 DEF Push, Into, Typed
    <3> QED
      <4>1. Cardinality(OnTheWay(s) \cup {w}) = Cardinality(OnTheWay(s)) + 1
        BY <3>1, OnTheWayFinite, FS_AddElement
      <4>2. Cardinality(OnTheWay(s)) \in Nat
        BY OnTheWayFinite
      <4> QED
        BY <2>1, <3>1, <3>2, <4>1, <4>2
  <2>3. CASE s # r
    <3>1. OnTheWay(s)' = OnTheWay(s) /\ ring'[s] = ring[s]
      BY <2>3 DEF OnTheWay, Push, Into, Typed, Goto, Then
    <3> QED
      BY <2>1, <3>1
  <2> QED
    BY <2>2, <2>3
<1> QED
  BY <1>2, <1>3 DEF NoLostWakeup

\* The notifier leaves the way, and a sleeper, if there is one, enters it.
LEMMA NotifyKeeps ==
    ASSUME NEW w \in Workers, Typed, NoLostWakeup, Notify(w)
    PROVE  Typed' /\ NoLostWakeup'
<1>1. PICK woken \in SUBSET asleep[side[w]] :
          /\ asleep[side[w]] # {} => woken # {}
          /\ asleep' = [asleep EXCEPT ![side[w]] = @ \ woken]
          /\ pc' = [v \in Workers |-> IF v = w THEN Then[pc[w]]
                                      ELSE IF v \in woken THEN "woken" ELSE pc[v]]
  BY DEF Notify
<1>2. /\ side[w] \in Sides /\ pc[w] \in DOMAIN Then /\ Then[pc[w]] \in {"loop", "turn", "retire"}
      /\ UNCHANGED <<ring, side, holds>>
      /\ woken \subseteq Workers /\ w \notin woken
      /\ \A v \in woken : pc[v] = "asleep" /\ side[v] = side[w]
  BY <1>1 DEF Notify, Typed, Then
<1>3. Typed'
  <2>1. Then[pc[w]] \in Labels \ {"asleep"} /\ pc[w] # "asleep" /\ "woken" \in Labels
    BY <1>2 DEF Labels, Then
  <2>2. pc' \in [Workers -> Labels]
    BY <1>1, <2>1 DEF Typed
  <2>3. asleep' \in [Sides -> SUBSET Workers]
    BY <1>1, <1>2 DEF Typed
  <2>4. \A r \in Sides, v \in Workers : v \in asleep'[r] <=> pc'[v] = "asleep" /\ side[v] = r
    BY <1>1, <1>2, <2>1 DEF Typed
  <2> QED
    BY <1>2, <2>2, <2>3, <2>4 DEF Typed
<1>4. ASSUME NEW r \in Sides, asleep'[r] # {}
      PROVE  Len(ring'[r]) <= Cardinality(OnTheWay(r)')
  <2>1. asleep[r] # {}
    BY <1>1, <1>2, <1>4 DEF Typed
  <2>2. Len(ring[r]) <= Cardinality(OnTheWay(r)) /\ Len(ring[r]) \in Nat
    BY <2>1 DEF NoLostWakeup, Typed
  <2>3. CASE r = side[w]
    <3>1. PICK v \in woken : TRUE
      BY <1>1, <2>1, <2>3
    <3>2. w \in OnTheWay(r) /\ v \notin OnTheWay(r) /\ v # w
      BY <1>2, <2>3 DEF OnTheWay, Then
    <3>3. (OnTheWay(r) \ {w}) \cup {v} \subseteq OnTheWay(r)'
      BY <1>1, <1>2, <2>3 DEF OnTheWay, Then
    <3>4. Cardinality((OnTheWay(r) \ {w}) \cup {v}) = Cardinality(OnTheWay(r))
      <4> DEFINE rest == OnTheWay(r) \ {w}
      <4>1. IsFiniteSet(rest) /\ Cardinality(rest) = Cardinality(OnTheWay(r)) - 1
        BY <3>2, OnTheWayFinite, FS_RemoveElement
      <4>2. v \notin rest
        BY <3>2
      <4>3. Cardinality(rest \cup {v}) = Cardinality(rest) + 1
        <5> HIDE DEF rest
        <5> QED
          BY <4>1, <4>2, FS_AddElement
      <4>4. Cardinality(OnTheWay(r)) \in Nat
        BY OnTheWayFinite
      <4> QED
        BY <4>1, <4>3, <4>4
    <3>5. IsFiniteSet(OnTheWay(r)')
      BY RingsAssumption, FS_Subset DEF OnTheWay
    <3>6. Cardinality(OnTheWay(r)) <= Cardinality(OnTheWay(r)')
      BY <3>3, <3>4, <3>5, FS_Subset
    <3>7. Cardinality(OnTheWay(r)) \in Nat /\ Cardinality(OnTheWay(r)') \in Nat
      BY <3>5, OnTheWayFinite, FS_CardinalityType
    <3> QED
      BY <1>2, <2>2, <3>6, <3>7
  <2>4. CASE r # side[w]
    <3>1. OnTheWay(r)' = OnTheWay(r)
      BY <1>1, <1>2, <2>4 DEF OnTheWay, Then
    <3> QED
      BY <1>2, <2>2, <3>1
  <2> QED
    BY <2>3, <2>4
<1> QED
  BY <1>3, <1>4 DEF NoLostWakeup

\* The other steps touch no ring, wake nobody and begin no wait.
LEMMA ElsewhereKeeps ==
    ASSUME NEW w \in Workers, Typed, NoLostWakeup,
           Turn(w) \/ Leave(w) \/ TimeOut(w) \/ FallThrough(w) \/ Retire(w)
    PROVE  Typed' /\ NoLostWakeup'
<1>1. Typed'
  <2> USE DEF Typed, Goto, Labels, Then
  <2>1. CASE Turn(w) \/ Leave(w) \/ Retire(w)
    <3>1. CASE Turn(w)
      BY <3>1 DEF Turn
    <3>2. CASE Leave(w)
      BY <3>2 DEF Leave
    <3>3. CASE Retire(w)
      BY <3>3 DEF Retire
    <3> QED
      BY <2>1, <3>1, <3>2, <3>3
  <2>2. CASE FallThrough(w)
    BY <2>2 DEF FallThrough, NoneReturned, Other, Sides
  <2>3. CASE TimeOut(w)
    <3>1. pc'[w] \in {"call", "loop"} /\ pc' \in [Workers -> Labels]
      BY <2>3 DEF TimeOut, NoneReturned
    <3>2. \A v \in Workers : v # w => pc'[v] = pc[v] /\ side'[v] = side[v]
      BY <2>3 DEF TimeOut, NoneReturned
    <3>3. side' \in [Workers -> Sides]
      BY <2>3 DEF TimeOut, NoneReturned, Other, Sides
    <3> QED
      BY <2>3, <3>1, <3>2, <3>3 DEF TimeOut
  <2> QED
    BY <2>1, <2>2, <2>3
<1>2. \A r \in Sides :
        /\ ring'[r] = ring[r] /\ asleep'[r] \subseteq asleep[r]
        /\ OnTheWay(r)' = OnTheWay(r)
  <2> SUFFICES ASSUME NEW r \in Sides
               PROVE  /\ ring'[r] = ring[r] /\ asleep'[r] \subseteq asleep[r]
                      /\ OnTheWay(r)' = OnTheWay(r)
    OBVIOUS
  <2>1. CASE Turn(w)
    BY <2>1 DEF Turn, Typed, OnTheWay, Goto, Then
  <2>2. CASE Leave(w)
    BY <2>2 DEF Leave, Typed, OnTheWay, Goto, Then
  <2>3. CASE TimeOut(w)
    BY <2>3 DEF TimeOut, NoneReturned, Typed, OnTheWay, Goto, Then
  <2>4. CASE FallThrough(w)
    BY <2>4 DEF FallThrough, NoneReturned, Typed, OnTheWay, Goto, Then
  <2>5. CASE Retire(w)
    BY <2>5 DEF Retire, Typed, OnTheWay, Goto, Then
  <2> QED
    BY <2>1, <2>2, <2>3, <2>4, <2>5
<1> QED
  BY <1>1, <1>2 DEF NoLostWakeup

-------------------------------------------------------------------------------
(* One step of any worker, and the theorem. *)

LEMMA StepKeeps ==
    ASSUME Typed, NoLostWakeup, [Next]_vars
    PROVE  Typed' /\ NoLostWakeup'
<1>1. CASE UNCHANGED vars
  BY <1>1 DEF vars, Typed, NoLostWakeup, OnTheWay
<1>2. ASSUME NEW w \in Workers, Worker(w)
      PROVE  Typed' /\ NoLostWakeup'
  <2>1. CASE Take(w)
    BY <2>1, TakeKeeps
  <2>2. CASE Sleep(w)
    BY <2>2, SleepKeeps
  <2>3. CASE Notify(w)
    BY <2>3, NotifyKeeps
  <2>4. CASE Turn(w) \/ Leave(w) \/ TimeOut(w) \/ FallThrough(w) \/ Retire(w)
    BY <2>4, ElsewhereKeeps
  <2>5. CASE HandOver(w)
    <3>1. "filled" \in Sides /\ "notify" \in DOMAIN Then
      BY DEF Sides, Then
    <3> QED
      BY <2>5, <3>1, PushKeeps DEF HandOver
  <2>6. CASE ReadFails(w) \/ Written(w)
    <3>1. "free" \in Sides /\ "notifyRetire" \in DOMAIN Then
      BY DEF Sides, Then
    <3> QED
      BY <2>6, <3>1, PushKeeps DEF ReadFails, Written
  <2>7. CASE GiveBack(w)
    <3>1. "free" \in Sides /\ "notifyTurn" \in DOMAIN Then
      BY DEF Sides, Then
    <3> QED
      BY <2>7, <3>1, PushKeeps DEF GiveBack
  <2> QED
    BY <1>2, <2>1, <2>2, <2>3, <2>4, <2>5, <2>6, <2>7 DEF Worker, Call
<1> QED
  BY <1>1, <1>2 DEF Next, AllLeft

\* Condition variables and timeouts of rings.rs: while a caller sleeps on a
\* ring, no buffer lies in it that nobody was woken for or is about to be.
THEOREM NoWakeupLost == Spec => []NoLostWakeup
<1>1. Init => Typed /\ NoLostWakeup
  BY InitTyped
<1>2. Typed /\ NoLostWakeup /\ [Next]_vars => (Typed /\ NoLostWakeup)'
  BY StepKeeps
<1> QED
  BY <1>1, <1>2, PTL DEF Spec

-------------------------------------------------------------------------------
(* The types, which need to know where the jobs are: a job that was claimed  *)
(* and not settled is a chunk in the filled ring, or a worker on its way     *)
(* to settle it.                                                             *)

Settling == {w \in Workers : pc[w] \in {"write", "notifyRetire", "retire"}}

Fit ==
    /\ ring \in [Sides -> Seq(1..Buffers)]
    /\ holds \in [Workers -> 0..Buffers]
    /\ \A w \in Workers : pc[w] \in {"claim", "write"} => holds[w] # 0
    /\ fellThrough \in [Workers -> BOOLEAN]
    /\ left \in Nat /\ remaining \in 0..JobCount
    /\ remaining = left + Len(ring["filled"]) + Cardinality(Settling)

LEMMA SettlingFinite == IsFiniteSet(Settling) /\ Cardinality(Settling) \in Nat
<1>1. Settling \in SUBSET Workers /\ IsFiniteSet(Workers)
  BY RingsAssumption DEF Settling
<1>2. IsFiniteSet(Settling)
  BY <1>1, FS_Subset
<1> QED
  BY <1>2, FS_CardinalityType

\* One worker more that has a job to settle, or one less.
LEMMA SettlingMoves ==
    ASSUME NEW w \in Workers, \A v \in Workers : v # w => (v \in Settling' <=> v \in Settling)
    PROVE  Cardinality(Settling') =
             IF w \in Settling /\ w \notin Settling' THEN Cardinality(Settling) - 1
             ELSE IF w \notin Settling /\ w \in Settling' THEN Cardinality(Settling) + 1
             ELSE Cardinality(Settling)
<1>1. Settling \subseteq Workers /\ Settling' \subseteq Workers
  BY DEF Settling
<1>2. CASE w \in Settling /\ w \notin Settling'
  <2>1. Settling' = Settling \ {w}
    BY <1>1, <1>2
  <2>2. Cardinality(Settling \ {w}) = Cardinality(Settling) - 1
    BY <1>2, SettlingFinite, FS_RemoveElement
  <2> QED
    BY <1>2, <2>1, <2>2
<1>3. CASE w \notin Settling /\ w \in Settling'
  <2>1. Settling' = Settling \cup {w}
    BY <1>1, <1>3
  <2>2. Cardinality(Settling \cup {w}) = Cardinality(Settling) + 1
    BY <1>3, SettlingFinite, FS_AddElement
  <2> QED
    BY <1>3, <2>1, <2>2
<1>4. CASE w \in Settling <=> w \in Settling'
  <2>1. Settling' = Settling
    BY <1>1, <1>4
  <2> QED
    BY <1>4, <2>1
<1> QED
  BY <1>2, <1>3, <1>4

\* Both ends of a ring give it up in the same way.
LEMMA Shorter ==
    ASSUME NEW S, NEW q \in Seq(S), q # <<>>
    PROVE  /\ Tail(q) \in Seq(S) /\ Len(Tail(q)) = Len(q) - 1
           /\ SubSeq(q, 1, Len(q) - 1) \in Seq(S)
           /\ q[1] \in S /\ q[Len(q)] \in S
OBVIOUS

\* A chunk leaves the filled ring for the worker that will settle it.
LEMMA TakeFits ==
    ASSUME NEW w \in Workers, Typed, Fit, Take(w)
    PROVE  Fit'
<1> DEFINE q == ring[side[w]]
<1>1. side[w] \in Sides /\ q \in Seq(1..Buffers) /\ q # <<>> /\ pc[w] \in {"call", "woken"}
  BY DEF Take, Typed, Fit
<1>2. /\ Tail(q) \in Seq(1..Buffers) /\ Len(Tail(q)) = Len(q) - 1
      /\ SubSeq(q, 1, Len(q) - 1) \in Seq(1..Buffers)
      /\ q[1] \in 1..Buffers /\ q[Len(q)] \in 1..Buffers
  <2> HIDE DEF q
  <2> QED
    BY <1>1, Shorter
<1>3. ring' \in [Sides -> Seq(1..Buffers)] /\ holds' \in [Workers -> 0..Buffers] /\ holds'[w] # 0
  <2>1. PICK b \in {q[1], q[Len(q)]} : holds' = [holds EXCEPT ![w] = b]
    BY DEF Take
  <2>2. b \in 1..Buffers /\ b \in 0..Buffers /\ b # 0
    BY <1>2, <2>1, RingsAssumption
  <2>3. PICK t \in {Tail(q), SubSeq(q, 1, Len(q) - 1)} : ring' = [ring EXCEPT ![side[w]] = t]
    BY DEF Take
  <2> HIDE DEF q
  <2> QED
    BY <1>1, <1>2, <2>1, <2>2, <2>3 DEF Fit
<1>4. \A v \in Workers : v # w => pc'[v] = pc[v] /\ holds'[v] = holds[v]
  BY DEF Take, Goto, Typed, Fit
<1>5. /\ \A v \in Workers : v # w => (v \in Settling' <=> v \in Settling)
      /\ w \notin Settling /\ (w \in Settling' <=> side[w] = "filled")
  BY <1>1, <1>4 DEF Settling, Take, Goto, Typed, Sides
<1>6. Cardinality(Settling') = IF side[w] = "filled" THEN Cardinality(Settling) + 1
                               ELSE Cardinality(Settling)
  BY <1>5, SettlingMoves
<1>7. Len(ring'["filled"]) = IF side[w] = "filled" THEN Len(ring["filled"]) - 1
                             ELSE Len(ring["filled"])
  BY <1>1, <1>2 DEF Take, Fit, Sides
<1>8. UNCHANGED <<left, remaining, fellThrough>>
  BY DEF Take
<1>9. Cardinality(Settling) \in Int /\ Len(ring["filled"]) \in Int /\ left \in Int
  BY SettlingFinite DEF Fit, Sides
<1>10. remaining' = left' + Len(ring'["filled"]) + Cardinality(Settling')
  <2>1. remaining = left + Len(ring["filled"]) + Cardinality(Settling)
    BY DEF Fit
  <2>2. left' = left /\ remaining' = remaining
    BY <1>8
  <2>3. \/ Len(ring'["filled"]) = Len(ring["filled"]) /\ Cardinality(Settling') = Cardinality(Settling)
        \/ /\ Len(ring'["filled"]) = Len(ring["filled"]) - 1
           /\ Cardinality(Settling') = Cardinality(Settling) + 1
    BY <1>6, <1>7
  <2>4. left + Len(ring["filled"]) + Cardinality(Settling)
          = left' + Len(ring'["filled"]) + Cardinality(Settling')
    BY <1>9, <2>2, <2>3
  <2> QED
    BY <2>1, <2>2, <2>4, Zenon
<1>11. \A v \in Workers : pc'[v] \in {"claim", "write"} => holds'[v] # 0
  BY <1>3, <1>4 DEF Fit
<1> QED
  BY <1>3, <1>8, <1>10, <1>11 DEF Fit

\* What a worker pushes into the filled ring it has just claimed; what it gives
\* back to the free ring it has settled, or will when it has notified.
LEMMA PushFits ==
    ASSUME NEW w \in Workers, Typed, Fit,
           HandOver(w) \/ ReadFails(w) \/ GiveBack(w) \/ Written(w)
    PROVE  Fit'
<1>0. PICK s \in Sides, l \in DOMAIN Then :
        /\ Push(w, s, l) /\ pc[w] \in {"claim", "write"}
        /\ UNCHANGED <<fellThrough, remaining>>
        /\ \/ pc[w] = "claim" /\ s = "filled" /\ l = "notify" /\ left > 0 /\ left' = left - 1
           \/ pc[w] = "claim" /\ s = "free" /\ l = "notifyRetire" /\ left > 0 /\ left' = left - 1
           \/ pc[w] = "claim" /\ s = "free" /\ l = "notifyTurn" /\ left' = left
           \/ pc[w] = "write" /\ s = "free" /\ l = "notifyRetire" /\ left' = left
  <2>1. "free" \in Sides /\ "filled" \in Sides
        /\ {"notify", "notifyTurn", "notifyRetire"} \subseteq DOMAIN Then
    BY DEF Sides, Then
  <2>2. CASE HandOver(w)
    BY <2>1, <2>2 DEF HandOver
  <2>3. CASE ReadFails(w)
    BY <2>1, <2>3 DEF ReadFails
  <2>4. CASE GiveBack(w)
    BY <2>1, <2>4 DEF GiveBack
  <2>5. CASE Written(w)
    BY <2>1, <2>5 DEF Written
  <2> QED
    BY <2>2, <2>3, <2>4, <2>5
<1>1. /\ holds[w] \in 1..Buffers
      /\ ring[s] \in Seq(1..Buffers) /\ Len(ring[s]) \in Nat
  BY <1>0, RingsAssumption DEF Fit
<1>2. /\ Append(ring[s], holds[w]) \in Seq(1..Buffers)
      /\ Len(Append(ring[s], holds[w])) = Len(ring[s]) + 1
  BY <1>1
<1>3. ring' \in [Sides -> Seq(1..Buffers)] /\ holds' \in [Workers -> 0..Buffers]
  BY <1>0, <1>2, RingsAssumption DEF Push, Into, Fit
<1>4. /\ \A v \in Workers : v # w => pc'[v] = pc[v] /\ holds'[v] = holds[v]
      /\ pc'[w] = l
  BY <1>0 DEF Push, Into, Goto, Typed, Fit
<1>5. /\ \A v \in Workers : v # w => (v \in Settling' <=> v \in Settling)
      /\ w \in Settling <=> pc[w] = "write"
      /\ w \in Settling' <=> l = "notifyRetire"
  BY <1>0, <1>4 DEF Settling
<1>6. Cardinality(Settling') =
        IF w \in Settling /\ w \notin Settling' THEN Cardinality(Settling) - 1
        ELSE IF w \notin Settling /\ w \in Settling' THEN Cardinality(Settling) + 1
        ELSE Cardinality(Settling)
  BY <1>5, SettlingMoves
<1>7. Len(ring'["filled"]) = IF s = "filled" THEN Len(ring["filled"]) + 1 ELSE Len(ring["filled"])
  BY <1>0, <1>2 DEF Push, Into, Fit, Sides
<1>8. Cardinality(Settling) \in Nat /\ Len(ring["filled"]) \in Nat /\ left \in Nat
  BY SettlingFinite DEF Fit, Sides
<1>9. left' \in Nat /\ remaining' = left' + Len(ring'["filled"]) + Cardinality(Settling')
  <2>1. remaining' = left + Len(ring["filled"]) + Cardinality(Settling)
    BY <1>0 DEF Fit
  <2>2. left' \in Nat
    BY <1>0, <1>8
  <2>3. Cardinality(Settling) \in Int /\ Len(ring["filled"]) \in Int /\ left \in Int
    BY <1>8
  <2>4. \/ /\ left' = left - 1 /\ Len(ring'["filled"]) = Len(ring["filled"]) + 1
           /\ Cardinality(Settling') = Cardinality(Settling)
        \/ /\ left' = left - 1 /\ Len(ring'["filled"]) = Len(ring["filled"])
           /\ Cardinality(Settling') = Cardinality(Settling) + 1
        \/ /\ left' = left /\ Len(ring'["filled"]) = Len(ring["filled"])
           /\ Cardinality(Settling') = Cardinality(Settling)
    BY <1>0, <1>5, <1>6, <1>7
  <2>5. left + Len(ring["filled"]) + Cardinality(Settling)
          = left' + Len(ring'["filled"]) + Cardinality(Settling')
    BY <2>3, <2>4
  <2> QED
    BY <2>1, <2>2, <2>5, Zenon
<1>10. \A v \in Workers : pc'[v] \in {"claim", "write"} => holds'[v] # 0
  BY <1>0, <1>4 DEF Fit, Then
<1>11. UNCHANGED <<fellThrough, remaining>>
  BY <1>0
<1> QED
  BY <1>3, <1>9, <1>10, <1>11 DEF Fit

LEMMA NotifyFits ==
    ASSUME NEW w \in Workers, Typed, Fit, Notify(w)
    PROVE  Fit'
<1>1. PICK woken \in SUBSET asleep[side[w]] :
          pc' = [v \in Workers |-> IF v = w THEN Then[pc[w]]
                                   ELSE IF v \in woken THEN "woken" ELSE pc[v]]
  BY DEF Notify
<1>2. /\ side[w] \in Sides /\ pc[w] \in DOMAIN Then
      /\ UNCHANGED <<ring, side, holds, fellThrough, left, remaining>>
      /\ \A v \in woken : pc[v] = "asleep"
  BY <1>1 DEF Notify, Typed
<1>3. Settling' = Settling
  BY <1>1, <1>2 DEF Settling, Then
<1>4. \A v \in Workers : pc'[v] \in {"claim", "write"} => holds'[v] # 0
  BY <1>1, <1>2 DEF Fit, Then
<1> QED
  BY <1>2, <1>3, <1>4 DEF Fit

\* The last step of a job, which counts it off.
LEMMA RetireFits ==
    ASSUME NEW w \in Workers, Typed, Fit, Retire(w)
    PROVE  Fit'
<1>1. /\ pc[w] = "retire" /\ remaining' = remaining - 1
      /\ UNCHANGED <<ring, asleep, side, holds, fellThrough, left>>
      /\ \A v \in Workers : v # w => pc'[v] = pc[v]
      /\ pc'[w] = "loop"
  BY DEF Retire, Goto, Typed
<1>2. Cardinality(Settling') = Cardinality(Settling) - 1
  BY <1>1, SettlingMoves DEF Settling
<1>3. Cardinality(Settling) \in Nat /\ Cardinality(Settling') \in Nat
      /\ Len(ring["filled"]) \in Nat /\ left \in Nat
  <2>1. Cardinality(Settling') \in Nat
    <3>1. Settling' \in SUBSET Workers /\ IsFiniteSet(Workers)
      BY RingsAssumption DEF Settling
    <3>2. IsFiniteSet(Settling')
      BY <3>1, FS_Subset
    <3> QED
      BY <3>2, FS_CardinalityType
  <2> QED
    BY <2>1, SettlingFinite DEF Fit, Sides
<1>4. remaining' \in 0..JobCount /\ remaining' = left + Len(ring["filled"]) + Cardinality(Settling')
  <2>1. \A l, f, s \in Nat : (l + f + s) - 1 = l + f + (s - 1)
    OBVIOUS
  <2>2. remaining = left + Len(ring["filled"]) + Cardinality(Settling) /\ Cardinality(Settling) \in Nat
    BY SettlingFinite DEF Fit
  <2>3. remaining' = left + Len(ring["filled"]) + Cardinality(Settling')
    <3>1. remaining' = (left + Len(ring["filled"]) + Cardinality(Settling)) - 1
      BY <1>1, <2>2
    <3>2. (left + Len(ring["filled"]) + Cardinality(Settling)) - 1
            = left + Len(ring["filled"]) + (Cardinality(Settling) - 1)
      BY <1>3, <2>1, <2>2, Zenon
    <3> QED
      BY <1>2, <3>1, <3>2, Zenon
  <2>4. left + Len(ring["filled"]) + Cardinality(Settling') \in Nat
    BY <1>3
  <2>5. remaining \in 0..JobCount /\ remaining' = remaining - 1 /\ JobCount \in Nat
    BY <1>1, RingsAssumption DEF Fit
  <2>6. remaining' \in Nat
    BY <2>3, <2>4
  <2> QED
    BY <2>3, <2>5, <2>6
<1>5. \A v \in Workers : pc'[v] \in {"claim", "write"} => holds'[v] # 0
  BY <1>1 DEF Fit
<1> QED
  BY <1>1, <1>4, <1>5 DEF Fit

\* Calls that begin, sleep or come back empty-handed.
LEMMA WaitFits ==
    ASSUME NEW w \in Workers, Typed, Fit,
           Turn(w) \/ Leave(w) \/ Sleep(w) \/ TimeOut(w) \/ FallThrough(w)
    PROVE  Fit'
<1>1. UNCHANGED <<ring, holds, left, remaining>> /\ fellThrough' \in [Workers -> BOOLEAN]
  BY Zenon DEF Turn, Leave, Sleep, TimeOut, FallThrough, NoneReturned, Fit
<1>2. /\ pc[w] \in {"loop", "call", "woken", "asleep", "turn"}
      /\ pc'[w] \in {"call", "exited", "asleep", "loop"}
      /\ \A v \in Workers : v # w => pc'[v] = pc[v]
  BY DEF Turn, Leave, Sleep, TimeOut, FallThrough, NoneReturned, Goto, Typed
<1>3. Settling' = Settling
  BY <1>2 DEF Settling
<1>4. \A v \in Workers : pc'[v] \in {"claim", "write"} => holds'[v] # 0
  BY <1>1, <1>2 DEF Fit
<1> QED
  BY <1>1, <1>3, <1>4 DEF Fit

LEMMA FitInit == Init => Fit
<1> SUFFICES ASSUME Init
             PROVE  Fit
  OBVIOUS
<1>1. [i \in 1..Buffers |-> i] \in Seq(1..Buffers) /\ <<>> \in Seq(1..Buffers) /\ Len(<<>>) = 0
  BY RingsAssumption
<1>2. ring \in [Sides -> Seq(1..Buffers)] /\ Len(ring["filled"]) = 0
  BY <1>1 DEF Init, Sides
<1>3. Cardinality(Settling) = 0
  <2>1. Settling = {}
    BY DEF Init, Settling
  <2> QED
    BY <2>1, FS_EmptySet
<1> QED
  BY <1>2, <1>3, RingsAssumption DEF Init, Fit

LEMMA FitStep ==
    ASSUME Typed, Fit, [Next]_vars
    PROVE  Fit'
<1>1. CASE UNCHANGED vars
  BY <1>1 DEF vars, Fit, Settling
<1>2. ASSUME NEW w \in Workers, Worker(w)
      PROVE  Fit'
  BY <1>2, TakeFits, PushFits, NotifyFits, RetireFits, WaitFits DEF Worker, Call
<1> QED
  BY <1>1, <1>2 DEF Next, AllLeft

\* The rings hold buffers only, the waiters of a condition variable are the
\* callers asleep on its ring, and no more jobs are left than are not settled.
THEOREM RingsTyped == Spec => []TypeOK
<1>1. Typed /\ NoLostWakeup /\ Fit /\ [Next]_vars => Fit'
  BY FitStep
<1>2. Typed /\ Fit => TypeOK
  <2> SUFFICES ASSUME Typed, Fit
               PROVE  TypeOK
    OBVIOUS
  <2>1. asleep = [r \in Sides |-> {w \in Workers : pc[w] = "asleep" /\ side[w] = r}]
    BY DEF Typed
  <2>2. left \in 0..remaining
    BY SettlingFinite DEF Fit, Sides
  <2> QED
    BY <2>1, <2>2 DEF TypeOK, Typed, Fit
<1>3. Typed /\ NoLostWakeup /\ [Next]_vars => (Typed /\ NoLostWakeup)'
  BY StepKeeps
<1> QED
  BY InitTyped, FitInit, <1>1, <1>2, <1>3, PTL DEF Spec
-------------------------------------------------------------------------------
(* The buffers.  What BulkPipeline takes a ring for, a set or a queue that    *)
(* changes in one step, is only right if the waiting, the timeouts and the    *)
(* notifications lose no buffer and hand none out twice.                     *)

Slots(q) == 1..Len(q)

\* Every buffer lies in a ring or in somebody's hands, and in one place only.
BuffersInPlace ==
    /\ \A b \in 1..Buffers : \/ \E w \in Workers : holds[w] = b
                             \/ \E r \in Sides : \E i \in Slots(ring[r]) : ring[r][i] = b
    /\ \A v, w \in Workers : v # w /\ holds[v] # 0 => holds[v] # holds[w]
    /\ \A r \in Sides : \A i \in Slots(ring[r]) : \A w \in Workers : ring[r][i] # holds[w]
    /\ \A r, s \in Sides : \A i \in Slots(ring[r]), k \in Slots(ring[s]) :
            r # s \/ i # k => ring[r][i] # ring[s][k]

\* Hands are empty between the calls.
HandsFit == \A w \in Workers : holds[w] # 0 => pc[w] \in {"claim", "write"}

LEMMA SlotHolds ==
    ASSUME NEW S, NEW q \in Seq(S), NEW i \in Slots(q)
    PROVE  q[i] \in S
BY DEF Slots

\* What is left when a ring gives its last buffer up, or its first.
LEMMA WithoutEnd ==
    ASSUME NEW S, NEW q \in Seq(S), q # <<>>
    PROVE  LET n == Len(q)
               e == SubSeq(q, 1, n - 1)
               t == Tail(q)
           IN  /\ n \in Nat \ {0}
               /\ Slots(e) = 1..(n - 1) /\ \A k \in Slots(e) : e[k] = q[k]
               /\ Slots(t) = 1..(n - 1) /\ \A k \in Slots(t) : t[k] = q[k + 1]
<1> DEFINE n == Len(q)
           e == SubSeq(q, 1, n - 1)
           t == Tail(q)
<1>1. n \in Nat \ {0} /\ \A k \in 1..n : q[k] \in S
  OBVIOUS
<1>2. Slots(e) = 1..(n - 1) /\ \A k \in Slots(e) : e[k] = q[k]
  <2> HIDE DEF n
  <2>1. /\ Len(e) = IF 1 <= n - 1 THEN n - 1 - 1 + 1 ELSE 0
        /\ \A k \in 1..(n - 1 - 1 + 1) : e[k] = q[1 + k - 1]
    BY <1>1, SubSeqProperties
  <2> HIDE DEF e
  <2>2. Len(e) = n - 1 /\ n - 1 - 1 + 1 = n - 1
    BY <1>1, <2>1
  <2>3. \A k \in 1..(n - 1) : 1 + k - 1 = k
    OBVIOUS
  <2> QED
    BY <2>1, <2>2, <2>3 DEF Slots
<1>3. Slots(t) = 1..(n - 1) /\ \A k \in Slots(t) : t[k] = q[k + 1]
  BY HeadTailProperties DEF Slots
<1> QED
  BY <1>1, <1>2, <1>3

\* One end of the caller's ring gives its buffer up, and the rest moves up by d.
LEMMA TakeMoves ==
    ASSUME NEW w \in Workers, Typed, Fit, HandsFit, Take(w)
    PROVE  /\ side[w] \in Sides /\ holds[w] = 0
           /\ \A r \in Sides : r # side[w] => ring'[r] = ring[r]
           /\ \E d \in {0, 1}, i \in Slots(ring[side[w]]) :
                /\ holds' = [holds EXCEPT ![w] = ring[side[w]][i]]
                /\ \A k \in Slots(ring'[side[w]]) :
                     /\ k + d \in Slots(ring[side[w]]) /\ k + d # i
                     /\ ring'[side[w]][k] = ring[side[w]][k + d]
                /\ \A k \in Slots(ring[side[w]]) : k = i \/ k - d \in Slots(ring'[side[w]])
<1> DEFINE s == side[w]
           q == ring[s]
           n == Len(q)
<1>1. s \in Sides /\ q \in Seq(1..Buffers) /\ q # <<>>
  BY DEF Take, Typed, Fit
<1>2. holds[w] = 0
  BY DEF HandsFit, Take
<1>3. \A r \in Sides : r # s => ring'[r] = ring[r]
  BY DEF Take, Typed
<1>4. CASE s = "free"
  <2>1. ring'[s] = SubSeq(q, 1, n - 1) /\ holds' = [holds EXCEPT ![w] = q[n]]
    BY <1>1, <1>4 DEF Take, Typed
  <2> HIDE DEF q
  <2>2. n \in Nat \ {0} /\ Slots(ring'[s]) = 1..(n - 1) /\ \A k \in Slots(ring'[s]) : ring'[s][k] = q[k]
    BY <1>1, <2>1, WithoutEnd
  <2>3. Slots(q) = 1..n
    BY DEF Slots
  <2> HIDE DEF n
  <2>4. /\ n \in Slots(q)
        /\ \A k \in Slots(ring'[s]) : k + 0 \in Slots(q) /\ k + 0 # n /\ ring'[s][k] = q[k + 0]
        /\ \A k \in Slots(q) : k = n \/ k - 0 \in Slots(ring'[s])
    BY <2>2, <2>3
  <2> QED
    BY <1>1, <1>2, <1>3, <2>1, <2>4 DEF q
<1>5. CASE s # "free"
  <2>1. ring'[s] = Tail(q) /\ holds' = [holds EXCEPT ![w] = q[1]]
    BY <1>1, <1>5 DEF Take, Typed
  <2> HIDE DEF q
  <2>2. n \in Nat \ {0} /\ Slots(ring'[s]) = 1..(n - 1) /\ \A k \in Slots(ring'[s]) : ring'[s][k] = q[k + 1]
    BY <1>1, <2>1, WithoutEnd
  <2>3. Slots(q) = 1..n
    BY DEF Slots
  <2> HIDE DEF n
  <2>4. /\ 1 \in Slots(q)
        /\ \A k \in Slots(ring'[s]) : k + 1 \in Slots(q) /\ k + 1 # 1 /\ ring'[s][k] = q[k + 1]
        /\ \A k \in Slots(q) : k = 1 \/ k - 1 \in Slots(ring'[s])
    BY <2>2, <2>3
  <2> QED
    BY <1>1, <1>2, <1>3, <2>1, <2>4 DEF q
<1> QED
  BY <1>4, <1>5

\* The buffer goes from the ring into the caller's hands.
LEMMA TakePlaces ==
    ASSUME NEW w \in Workers, Typed, Fit, HandsFit, BuffersInPlace, Take(w)
    PROVE  BuffersInPlace'
<1> DEFINE s == side[w]
<1>1. s \in Sides /\ holds[w] = 0 /\ \A r \in Sides : r # s => ring'[r] = ring[r]
  BY TakeMoves
<1>2. PICK d \in {0, 1}, i \in Slots(ring[s]) :
        /\ holds' = [holds EXCEPT ![w] = ring[s][i]]
        /\ \A k \in Slots(ring'[s]) : k + d \in Slots(ring[s]) /\ k + d # i /\ ring'[s][k] = ring[s][k + d]
        /\ \A k \in Slots(ring[s]) : k = i \/ k - d \in Slots(ring'[s])
  BY TakeMoves
<1>3. \A r \in Sides : r # s => Slots(ring'[r]) = Slots(ring[r])
  BY <1>1 DEF Slots
<1>4. holds'[w] = ring[s][i] /\ \A v \in Workers : v # w => holds'[v] = holds[v]
  BY <1>2 DEF Typed
<1>5. ASSUME NEW r \in Sides, NEW k \in Slots(ring'[r])
      PROVE  \E m \in Slots(ring[r]) : /\ ring'[r][k] = ring[r][m] /\ (r = s => m # i)
                                       /\ m = IF r = s THEN k + d ELSE k
  <2>1. CASE r = s
    BY <1>2, <2>1
  <2>2. CASE r # s
    BY <1>1, <1>3, <2>2
  <2> QED
    BY <2>1, <2>2
<1>6. ASSUME NEW b \in 1..Buffers
      PROVE  \/ \E v \in Workers : holds'[v] = b
             \/ \E r \in Sides : \E k \in Slots(ring'[r]) : ring'[r][k] = b
  <2>1. CASE \E v \in Workers : holds[v] = b
    BY <1>1, <1>4, <2>1
  <2>2. ASSUME NEW r \in Sides, NEW m \in Slots(ring[r]), ring[r][m] = b
        PROVE  \/ holds'[w] = b
               \/ \E k \in Slots(ring'[r]) : ring'[r][k] = b
    <3>1. CASE r # s
      BY <1>1, <1>3, <2>2, <3>1
    <3>2. CASE r = s /\ m = i
      BY <1>4, <2>2, <3>2
    <3>3. CASE r = s /\ m # i
      <4>1. m - d \in Slots(ring'[s]) /\ m \in Int
        BY <1>2, <3>3 DEF Slots
      <4>2. (m - d) + d = m
        BY <4>1
      <4>3. ring'[s][m - d] = ring[s][(m - d) + d]
        BY <1>2, <4>1, Zenon
      <4> QED
        BY <2>2, <3>3, <4>1, <4>2, <4>3, Zenon
    <3> QED
      BY <3>1, <3>2, <3>3
  <2> QED
    BY <2>1, <2>2 DEF BuffersInPlace
<1>7. ASSUME NEW u \in Workers, NEW v \in Workers, u # v, holds'[u] # 0
      PROVE  holds'[u] # holds'[v]
  BY <1>1, <1>4, <1>7 DEF BuffersInPlace
<1>8. ASSUME NEW r \in Sides, NEW k \in Slots(ring'[r]), NEW v \in Workers
      PROVE  ring'[r][k] # holds'[v]
  <2>1. PICK m \in Slots(ring[r]) : ring'[r][k] = ring[r][m] /\ (r = s => m # i)
    BY <1>5
  <2> QED
    BY <1>1, <1>2, <1>4, <2>1 DEF BuffersInPlace
<1>9. ASSUME NEW r \in Sides, NEW t \in Sides, NEW k \in Slots(ring'[r]), NEW l \in Slots(ring'[t]),
             r # t \/ k # l
      PROVE  ring'[r][k] # ring'[t][l]
  <2>1. PICK m \in Slots(ring[r]) : ring'[r][k] = ring[r][m] /\ m = IF r = s THEN k + d ELSE k
    BY <1>5
  <2>2. PICK o \in Slots(ring[t]) : ring'[t][l] = ring[t][o] /\ o = IF t = s THEN l + d ELSE l
    BY <1>5
  <2>3. k \in Int /\ l \in Int
    BY DEF Slots
  <2>4. r # t \/ m # o
    BY <1>9, <2>1, <2>2, <2>3
  <2> QED
    BY <2>1, <2>2, <2>4 DEF BuffersInPlace
<1> QED
  BY <1>6, <1>7, <1>8, <1>9 DEF BuffersInPlace

\* The buffer goes from the caller's hands to the end of a ring.
LEMMA PushPlaces ==
    ASSUME NEW w \in Workers, NEW s \in Sides, Typed, Fit, BuffersInPlace,
           Into(w, s), holds[w] # 0
    PROVE  BuffersInPlace'
<1> DEFINE n == Len(ring[s]) + 1
<1>1. /\ ring'[s] = Append(ring[s], holds[w])
      /\ \A r \in Sides : r # s => ring'[r] = ring[r]
      /\ holds'[w] = 0 /\ \A v \in Workers : v # w => holds'[v] = holds[v]
  BY DEF Into, Typed
<1>2. /\ Slots(ring'[s]) = Slots(ring[s]) \cup {n} /\ n \notin Slots(ring[s])
      /\ ring'[s][n] = holds[w] /\ \A k \in Slots(ring[s]) : ring'[s][k] = ring[s][k]
  <2>1. ring[s] \in Seq(Nat) /\ Len(ring[s]) \in Nat /\ holds[w] \in Nat
    BY DEF Typed
  <2>2. /\ Len(Append(ring[s], holds[w])) = Len(ring[s]) + 1
        /\ Append(ring[s], holds[w])[Len(ring[s]) + 1] = holds[w]
        /\ \A k \in 1..Len(ring[s]) : Append(ring[s], holds[w])[k] = ring[s][k]
    BY <2>1
  <2> QED
    BY <1>1, <2>1, <2>2 DEF Slots
<1>3. \A r \in Sides : r # s => Slots(ring'[r]) = Slots(ring[r])
  BY <1>1 DEF Slots
<1>4. \A r \in Sides : \A k \in Slots(ring'[r]) :
        \/ r = s /\ k = n /\ ring'[r][k] = holds[w]
        \/ k \in Slots(ring[r]) /\ ring'[r][k] = ring[r][k]
  BY <1>1, <1>2, <1>3
<1>5. \A r \in Sides : \A i \in Slots(ring[r]) : i \in Slots(ring'[r]) /\ ring'[r][i] = ring[r][i]
  BY <1>1, <1>2, <1>3
<1>6. n \in Slots(ring'[s]) /\ ring'[s][n] = holds[w]
  BY <1>2
<1> HIDE DEF n
<1>7. ASSUME NEW b \in 1..Buffers
      PROVE  \/ \E v \in Workers : holds'[v] = b
             \/ \E r \in Sides : \E k \in Slots(ring'[r]) : ring'[r][k] = b
  <2>1. CASE holds[w] = b
    BY <1>6, <2>1
  <2>2. CASE \E v \in Workers : v # w /\ holds[v] = b
    BY <1>1, <2>2
  <2>3. CASE \E r \in Sides : \E i \in Slots(ring[r]) : ring[r][i] = b
    BY <1>5, <2>3
  <2> QED
    BY <2>1, <2>2, <2>3 DEF BuffersInPlace
<1>8. ASSUME NEW u \in Workers, NEW v \in Workers, u # v, holds'[u] # 0
      PROVE  holds'[u] # holds'[v]
  BY <1>1, <1>8 DEF BuffersInPlace
<1>9. ASSUME NEW r \in Sides, NEW k \in Slots(ring'[r]), NEW v \in Workers
      PROVE  ring'[r][k] # holds'[v]
  <2>1. ring'[r][k] \in 1..Buffers
    <3>1. holds[w] \in 1..Buffers
      BY DEF Fit
    <3>2. \A i \in Slots(ring[r]) : ring[r][i] \in 1..Buffers
      BY SlotHolds DEF Fit
    <3> QED
      BY <1>4, <3>1, <3>2
  <2>2. CASE v = w
    BY <1>1, <2>1, <2>2
  <2>3. CASE v # w
    BY <1>1, <1>4, <2>3 DEF BuffersInPlace
  <2> QED
    BY <2>2, <2>3
<1>10. ASSUME NEW r \in Sides, NEW t \in Sides, NEW k \in Slots(ring'[r]), NEW l \in Slots(ring'[t]),
              r # t \/ k # l
       PROVE  ring'[r][k] # ring'[t][l]
  BY <1>4, <1>10 DEF BuffersInPlace
<1> QED
  BY <1>7, <1>8, <1>9, <1>10 DEF BuffersInPlace

\* A worker leaves with nothing left to settle.
ExitsSettled == \A w \in Workers : pc[w] = "exited" => remaining = 0

KeptInv == Typed /\ NoLostWakeup /\ Fit /\ HandsFit /\ BuffersInPlace /\ ExitsSettled

LEMMA KeptInit == Init => KeptInv
<1> SUFFICES ASSUME Init
             PROVE  KeptInv
  OBVIOUS
<1>1. HandsFit /\ ExitsSettled
  BY DEF Init, HandsFit, ExitsSettled
<1>2. /\ Slots(ring["free"]) = 1..Buffers /\ \A i \in 1..Buffers : ring["free"][i] = i
      /\ Slots(ring["filled"]) = {}
  BY RingsAssumption DEF Init, Slots, Sides
<1>3. BuffersInPlace
  <2>1. /\ \A w \in Workers : holds[w] = 0
        /\ \A r \in Sides : \A i \in Slots(ring[r]) : r = "free" /\ i \in 1..Buffers /\ ring[r][i] = i
    BY <1>2 DEF Init, Sides
  <2>2. \A i \in 1..Buffers : i # 0
    OBVIOUS
  <2>3. \A b \in 1..Buffers : \E i \in Slots(ring["free"]) : ring["free"][i] = b
    BY <1>2
  <2> QED
    BY <2>1, <2>2, <2>3 DEF BuffersInPlace, Sides
<1> QED
  BY <1>1, <1>3, InitTyped, FitInit DEF KeptInv

\* The other steps move no buffer.
LEMMA StillPlaces ==
    ASSUME BuffersInPlace, UNCHANGED <<ring, holds>>
    PROVE  BuffersInPlace'
BY DEF BuffersInPlace, Slots

LEMMA KeptStep ==
    ASSUME NEW w \in Workers, KeptInv, Worker(w)
    PROVE  HandsFit' /\ BuffersInPlace' /\ ExitsSettled'
<1> USE DEF KeptInv
<1>0. pc \in [Workers -> Labels] /\ holds \in [Workers -> Nat] /\ remaining \in Nat
  BY DEF Typed, Fit
<1>1. CASE Take(w)
  <2>1. HandsFit' /\ ExitsSettled'
    BY <1>0, <1>1 DEF HandsFit, ExitsSettled, Take, Goto
  <2> QED
    BY <1>1, <2>1, TakePlaces
<1>2. CASE HandOver(w) \/ ReadFails(w) \/ GiveBack(w) \/ Written(w)
  <2>1. PICK r \in Sides, l \in DOMAIN Then :
          Push(w, r, l) /\ pc[w] \in {"claim", "write"} /\ remaining' = remaining
    BY <1>2 DEF HandOver, ReadFails, GiveBack, Written, Sides, Then
  <2>2. HandsFit' /\ ExitsSettled'
    BY <1>0, <2>1 DEF HandsFit, ExitsSettled, Push, Into, Goto, Then
  <2>3. holds[w] # 0
    BY <2>1 DEF Fit
  <2> QED
    BY <2>1, <2>2, <2>3, PushPlaces DEF Push
<1>3. CASE Turn(w) \/ Leave(w) \/ Sleep(w) \/ TimeOut(w) \/ FallThrough(w)
  <2>1. UNCHANGED <<ring, holds, remaining>>
    BY <1>3 DEF Turn, Leave, Sleep, TimeOut, FallThrough
  <2>2. ASSUME NEW v \in Workers
        PROVE  /\ holds[v] # 0 => pc'[v] = pc[v]
               /\ pc'[v] = "exited" => pc[v] = "exited" \/ remaining = 0
    <3>1. /\ pc[w] \notin {"claim", "write"}
          /\ \A u \in Workers : u # w => pc'[u] = pc[u]
          /\ pc'[w] = "exited" => remaining = 0
      <4>1. CASE Turn(w) \/ Leave(w)
        BY <1>0, <4>1 DEF Turn, Leave, Goto
      <4>2. CASE Sleep(w)
        BY <1>0, <4>2 DEF Sleep, Goto
      <4>3. CASE TimeOut(w)
        BY <1>0, <4>3 DEF TimeOut, NoneReturned, Goto, Typed
      <4>4. CASE FallThrough(w)
        BY <1>0, <4>4 DEF FallThrough, NoneReturned, Goto
      <4> QED
        BY <1>3, <4>1, <4>2, <4>3, <4>4
    <3> QED
      BY <3>1 DEF HandsFit
  <2> QED
    BY <2>1, <2>2, StillPlaces DEF HandsFit, ExitsSettled
<1>4. CASE Notify(w)
  <2>1. UNCHANGED <<ring, holds, remaining>>
    BY <1>4 DEF Notify
  <2>2. ASSUME NEW v \in Workers
        PROVE  /\ holds[v] # 0 => pc'[v] = pc[v]
               /\ pc'[v] = "exited" => pc[v] = "exited"
    <3>1. side[w] \in Sides /\ pc[w] \in DOMAIN Then
      BY <1>4 DEF Notify, Typed
    <3>2. PICK woken \in SUBSET asleep[side[w]] :
            pc' = [u \in Workers |-> IF u = w THEN Then[pc[w]]
                                     ELSE IF u \in woken THEN "woken" ELSE pc[u]]
      BY <1>4 DEF Notify
    <3>3. v \in woken => pc[v] = "asleep"
      BY <3>1, <3>2 DEF Typed
    <3>4. Then[pc[w]] # "exited" /\ pc[w] \notin {"claim", "write"}
      BY <3>1 DEF Then
    <3> QED
      BY <3>2, <3>3, <3>4 DEF HandsFit
  <2> QED
    BY <2>1, <2>2, StillPlaces DEF HandsFit, ExitsSettled
<1>5. CASE Retire(w)
  <2>1. UNCHANGED <<ring, holds>> /\ remaining' = remaining - 1
    BY <1>5 DEF Retire
  <2>2. remaining # 0
    <3>1. w \in Settling
      BY <1>5 DEF Retire, Settling
    <3>2. Cardinality(Settling) # 0
      BY <3>1, SettlingFinite, FS_EmptySet
    <3> QED
      BY <3>2, SettlingFinite DEF Fit, Sides
  <2>3. \A v \in Workers : pc'[v] # "exited"
    BY <1>0, <1>5, <2>2 DEF Retire, Goto, ExitsSettled
  <2>4. HandsFit'
    BY <1>0, <1>5, <2>1 DEF Retire, Goto, HandsFit
  <2> QED
    BY <2>1, <2>3, <2>4, StillPlaces DEF ExitsSettled
<1> QED
  BY <1>1, <1>2, <1>3, <1>4, <1>5 DEF Worker, Call

LEMMA KeptAlways == Spec => []KeptInv
<1>1. KeptInv /\ [Next]_vars => KeptInv'
  <2> SUFFICES ASSUME KeptInv, [Next]_vars
               PROVE  KeptInv'
    OBVIOUS
  <2>1. Typed' /\ NoLostWakeup' /\ Fit'
    BY StepKeeps, FitStep DEF KeptInv
  <2>2. CASE UNCHANGED vars
    BY <2>1, <2>2, StillPlaces DEF vars, KeptInv, HandsFit, ExitsSettled
  <2>3. ASSUME NEW w \in Workers, Worker(w)
        PROVE  KeptInv'
    BY <2>1, <2>3, KeptStep DEF KeptInv
  <2> QED
    BY <2>2, <2>3 DEF Next, AllLeft
<1> QED
  BY KeptInit, <1>1, PTL DEF Spec

\* Sleepers that time out, callers woken for nothing and callers that take the
\* buffer another was woken for: none of them loses a buffer or takes one that
\* somebody else has.  It is what the atomic rings of BulkPipeline stand for.
THEOREM RingsKeepBuffers == Spec => []BuffersInPlace
BY KeptAlways, PTL DEF KeptInv

\* When the last worker has left, every buffer is in the free ring again.
BuffersAllBack ==
    (\A w \in Workers : pc[w] = "exited") =>
        \A b \in 1..Buffers : \E i \in Slots(ring["free"]) : ring["free"][i] = b

THEOREM BuffersComeBack == Spec => []BuffersAllBack
<1>1. KeptInv => BuffersAllBack
  <2> SUFFICES ASSUME KeptInv, \A w \in Workers : pc[w] = "exited"
               PROVE  \A b \in 1..Buffers : \E i \in Slots(ring["free"]) : ring["free"][i] = b
    BY DEF BuffersAllBack
  <2>1. remaining = 0
    BY RingsAssumption DEF KeptInv, ExitsSettled
  <2>2. Slots(ring["filled"]) = {}
    <3>1. Len(ring["filled"]) \in Nat
      BY DEF KeptInv, Fit, Sides
    <3>2. Len(ring["filled"]) = 0
      BY <2>1, <3>1, SettlingFinite DEF KeptInv, Fit
    <3> QED
      BY <3>2 DEF Slots
  <2>3. \A w \in Workers : holds[w] = 0
    BY DEF KeptInv, HandsFit
  <2> QED
    BY <2>2, <2>3 DEF KeptInv, BuffersInPlace, Sides
<1> QED
  BY <1>1, KeptAlways, PTL
=============================================================================
