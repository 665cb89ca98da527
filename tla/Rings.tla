-------------------------------- MODULE Rings --------------------------------
(***************************************************************************)
(* The free and the filled ring with what BulkPipeline leaves out of them: *)
(* the condition variables.  A caller that finds its ring empty sleeps     *)
(* until a notification or its timeout; a push notifies after it gave the  *)
(* mutex back, so that others may come between.  The callers are the       *)
(* workers, reduced to what they do with a buffer; a critical section is   *)
(* one step, because std's mutex makes it so.                              *)
(***************************************************************************)
EXTENDS Naturals, Sequences, FiniteSets

CONSTANTS
    Workers,
    Buffers,     \* number of buffers
    JobCount     \* chunks of the plan, which bounds the pushes

ASSUME RingsAssumption ==
    /\ Workers # {} /\ IsFiniteSet(Workers)
    /\ Buffers \in Nat \ {0} /\ JobCount \in Nat

VARIABLES
    ring,        \* ring["free"], a stack, and ring["filled"], a queue
    asleep,      \* asleep[r]: the waiters of r's condition variable
    pc,          \* what each worker does next
    side,        \* the ring it is calling, or is about to notify
    holds,       \* the buffer in its hands, 0 for none
    fellThrough, \* it already tried the other ring
    left,        \* jobs not claimed
    remaining    \* jobs not settled

vars == <<ring, asleep, pc, side, holds, fellThrough, left, remaining>>

Sides == {"free", "filled"}
Other(r) == IF r = "free" THEN "filled" ELSE "free"

Init ==
    /\ ring = [r \in Sides |-> IF r = "free" THEN [i \in 1..Buffers |-> i] ELSE <<>>]
    /\ asleep = [r \in Sides |-> {}]
    /\ pc = [w \in Workers |-> "loop"]
    /\ side = [w \in Workers |-> "free"]
    /\ holds = [w \in Workers |-> 0]
    /\ fellThrough = [w \in Workers |-> FALSE]
    /\ left = JobCount /\ remaining = JobCount

Goto(w, l) == pc' = [pc EXCEPT ![w] = l]

\* The worker's turn: it asks the scheduler for a side, or leaves.
Turn(w) ==
    /\ pc[w] = "loop" /\ remaining > 0
    /\ \E r \in Sides : side' = [side EXCEPT ![w] = r]
    /\ fellThrough' = [fellThrough EXCEPT ![w] = FALSE]
    /\ Goto(w, "call")
    /\ UNCHANGED <<ring, asleep, holds, left, remaining>>

Leave(w) ==
    /\ pc[w] = "loop" /\ remaining = 0
    /\ Goto(w, "exited")
    /\ UNCHANGED <<ring, asleep, side, holds, fellThrough, left, remaining>>

-------------------------------------------------------------------------------
(* acquire_free and pop_filled: the code under the mutex.  Its looks at the  *)
(* shutdown flag are left out: the workers are joined before it is set.      *)

Take(w) ==
    LET r == side[w]
        n == Len(ring[r])
        i == IF r = "free" THEN n ELSE 1
    IN  /\ pc[w] \in {"call", "woken"} /\ ring[r] # <<>>
        /\ holds' = [holds EXCEPT ![w] = ring[r][i]]
        /\ ring' = [ring EXCEPT ![r] = IF r = "free" THEN SubSeq(@, 1, n - 1) ELSE Tail(@)]
        /\ Goto(w, IF r = "free" THEN "claim" ELSE "write")
        /\ UNCHANGED <<asleep, side, fellThrough, left, remaining>>

\* wait_timeout gives the mutex back and begins to wait in one step; a woken
\* caller that finds the ring empty again waits for the whole time again.
Sleep(w) ==
    LET r == side[w]
    IN  /\ pc[w] \in {"call", "woken"} /\ ring[r] = <<>>
        /\ asleep' = [asleep EXCEPT ![r] = @ \cup {w}]
        /\ Goto(w, "asleep")
        /\ UNCHANGED <<ring, side, holds, fellThrough, left, remaining>>

\* The call returned None: fall through to the other ring once.
NoneReturned(w) ==
    /\ side' = [side EXCEPT ![w] = Other(@)]
    /\ fellThrough' = [fellThrough EXCEPT ![w] = TRUE]
    /\ Goto(w, IF fellThrough[w] THEN "loop" ELSE "call")

\* Mutant: a caller whose wait timed out waits again.
TimeOut_Again(w) ==
    /\ w \in asleep[side[w]]
    /\ asleep' = [asleep EXCEPT ![side[w]] = @ \ {w}]
    /\ Goto(w, "woken")
    /\ UNCHANGED <<ring, side, holds, fellThrough, left, remaining>>

\* It returns None without a further look at the ring.
TimeOut(w) ==
    /\ w \in asleep[side[w]]
    /\ asleep' = [asleep EXCEPT ![side[w]] = @ \ {w}]
    /\ NoneReturned(w)
    /\ UNCHANGED <<ring, holds, left, remaining>>

Call(w) == Take(w) \/ Sleep(w) \/ TimeOut(w)

-------------------------------------------------------------------------------
(* release_free and push_filled, and the worker between the calls. *)

Into(w, r) ==
    /\ ring' = [ring EXCEPT ![r] = Append(@, holds[w])]
    /\ holds' = [holds EXCEPT ![w] = 0]
    /\ side' = [side EXCEPT ![w] = r]

\* What the worker does when it has notified the ring.
Then == [notify |-> "loop", notifyTurn |-> "turn", notifyRetire |-> "retire"]

\* Mutant: a push without its notification.
Push_Silent(w, r, l) == Into(w, r) /\ Goto(w, Then[l])

\* The push and the notification are two steps.
Push(w, r, l) == Into(w, r) /\ Goto(w, l)

\* try_read with a buffer: a chunk is claimed, read and pushed, ...
HandOver(w) ==
    /\ pc[w] = "claim" /\ left > 0
    /\ left' = left - 1
    /\ Push(w, "filled", "notify")
    /\ UNCHANGED <<asleep, fellThrough, remaining>>

\* ... or its read fails, ...
ReadFails(w) ==
    /\ pc[w] = "claim" /\ left > 0
    /\ left' = left - 1
    /\ Push(w, "free", "notifyRetire")
    /\ UNCHANGED <<asleep, fellThrough, remaining>>

\* Mutant: a worker that found no job left settles one all the same.
GiveBack_Retires(w) ==
    /\ pc[w] = "claim" /\ left = 0
    /\ Push(w, "free", "notifyRetire")
    /\ UNCHANGED <<asleep, fellThrough, left, remaining>>

\* ... or there is no job left, and the other side is tried.
GiveBack(w) ==
    /\ pc[w] = "claim" /\ left = 0
    /\ Push(w, "free", "notifyTurn")
    /\ UNCHANGED <<asleep, fellThrough, left, remaining>>

\* try_write with a chunk: whatever becomes of it, its buffer is released.
Written(w) ==
    /\ pc[w] = "write"
    /\ Push(w, "free", "notifyRetire")
    /\ UNCHANGED <<asleep, fellThrough, left, remaining>>

\* notify_one wakes a sleeper, if there is one, and may wake more.
Notify(w) ==
    LET r == side[w]
    IN  /\ pc[w] \in DOMAIN Then
        /\ \E woken \in SUBSET asleep[r] :
            /\ asleep[r] # {} => woken # {}
            /\ asleep' = [asleep EXCEPT ![r] = @ \ woken]
            /\ pc' = [v \in Workers |-> IF v = w THEN Then[pc[w]]
                                        ELSE IF v \in woken THEN "woken" ELSE pc[v]]
        /\ UNCHANGED <<ring, side, holds, fellThrough, left, remaining>>

FallThrough(w) ==
    /\ pc[w] = "turn"
    /\ NoneReturned(w)
    /\ UNCHANGED <<ring, asleep, holds, left, remaining>>

Retire(w) ==
    /\ pc[w] = "retire"
    /\ remaining' = remaining - 1
    /\ Goto(w, "loop")
    /\ UNCHANGED <<ring, asleep, side, holds, fellThrough, left>>

Worker(w) ==
    \/ Turn(w) \/ Leave(w) \/ Call(w)
    \/ HandOver(w) \/ ReadFails(w) \/ GiveBack(w) \/ Written(w)
    \/ Notify(w) \/ FallThrough(w) \/ Retire(w)

AllLeft == (\A w \in Workers : pc[w] = "exited") /\ UNCHANGED vars
Next == (\E w \in Workers : Worker(w)) \/ AllLeft

Spec == Init /\ [][Next]_vars
FairSpec == Spec /\ \A w \in Workers : WF_vars(Worker(w))

-------------------------------------------------------------------------------
Labels == {"loop", "call", "asleep", "woken", "claim", "write", "turn", "retire", "exited"}
              \cup DOMAIN Then
TypeOK ==
    /\ ring \in [Sides -> Seq(1..Buffers)]
    /\ asleep = [r \in Sides |-> {w \in Workers : pc[w] = "asleep" /\ side[w] = r}]
    /\ pc \in [Workers -> Labels]
    /\ side \in [Workers -> Sides]
    /\ holds \in [Workers -> 0..Buffers]
    /\ fellThrough \in [Workers -> BOOLEAN]
    /\ remaining \in 0..JobCount /\ left \in 0..remaining

OnTheWay(r) == {w \in Workers : side[w] = r /\ pc[w] \in {"woken"} \cup DOMAIN Then}

\* No wake-up is lost to a timeout, to a caller that comes in between and takes
\* the buffer, or to a notification that meets nobody: while somebody sleeps on
\* a ring, each buffer in it has a thread on the way that was woken for it, or
\* is about to wake one.
NoLostWakeup ==
    \A r \in Sides : asleep[r] # {} => Len(ring[r]) <= Cardinality(OnTheWay(r))

InCall(w, r) == side[w] = r /\ pc[w] \in {"call", "asleep", "woken"}

\* "Returns None on timeout so the caller can re-ask the scheduler [...] instead
\* of blocking forever": although every wake-up that finds the ring empty starts
\* the wait again, every call on a ring returns.
CallsReturn == \A w \in Workers, r \in Sides : InCall(w, r) ~> ~InCall(w, r)
===============================================================================
