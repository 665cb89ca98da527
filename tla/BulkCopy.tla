------------------------------- MODULE BulkCopy -------------------------------
(***************************************************************************)
(* What `Copier::run_bulk` promises, without buffers, rings or threads:    *)
(* every chunk of the plan is settled once, by landing at the destination  *)
(* or by an error that is reported; a file counts as copied only after all *)
(* its chunks landed; and the call returns when nothing is left to settle, *)
(* with every file that lost no chunk counted.                             *)
(***************************************************************************)
EXTENDS Naturals

CONSTANTS Files,       \* the bulk files
          ChunksOf     \* ChunksOf[f]: the chunks of f

Chunk == UNION {ChunksOf[f] : f \in Files}

VARIABLES
    outcome,    \* of each chunk: "open", "whole", "zeroed" or "lost"
    copied,     \* the files counted as copied
    reported,   \* an error was counted
    returned    \* the call has returned

vars == <<outcome, copied, reported, returned>>

LandedOutcomes == {"whole", "zeroed"}
Outcomes == LandedOutcomes \cup {"open", "lost"}
AllLanded(f) == \A c \in ChunksOf[f] : outcome[c] \in LandedOutcomes

Init ==
    /\ outcome = [c \in Chunk |-> "open"]
    /\ copied = {}
    /\ reported = FALSE
    /\ returned = FALSE

\* A chunk lands.  One whose source shrank after the scan lands with its tail
\* zeroed, which nothing reports.
Land(c) ==
    /\ outcome[c] = "open"
    /\ \E k \in LandedOutcomes : outcome' = [outcome EXCEPT ![c] = k]
    /\ UNCHANGED <<copied, reported, returned>>

Lose(c) ==
    /\ outcome[c] = "open"
    /\ outcome' = [outcome EXCEPT ![c] = "lost"]
    /\ reported' = TRUE
    /\ UNCHANGED <<copied, returned>>

\* The last chunk has landed; trimming the file may still fail and be reported.
Copy(f) ==
    /\ f \notin copied /\ AllLanded(f)
    /\ copied' = copied \cup {f}
    /\ reported' \in {reported, TRUE}
    /\ UNCHANGED <<outcome, returned>>

Return ==
    /\ ~returned
    /\ \A c \in Chunk : outcome[c] # "open"
    /\ \A f \in Files : AllLanded(f) => f \in copied
    /\ returned' = TRUE
    /\ UNCHANGED <<outcome, copied, reported>>

Done == returned /\ UNCHANGED vars

Next ==
    \/ \E c \in Chunk : Land(c) \/ Lose(c)
    \/ \E f \in Files : Copy(f)
    \/ Return
    \/ Done

Spec == Init /\ [][Next]_vars

TypeOK ==
    /\ outcome \in [Chunk -> Outcomes]
    /\ copied \subseteq Files
    /\ reported \in BOOLEAN
    /\ returned \in BOOLEAN

\* The promise the report builds on: a call that returns without an error has
\* landed every chunk and counted every file.
Promise ==
    returned /\ ~reported =>
        /\ copied = Files
        /\ \A c \in Chunk : outcome[c] \in LandedOutcomes

\* What has landed, or been lost, stays so: no chunk is settled twice.
SettledOnce ==
    [][\A c \in Chunk : outcome[c] # "open" => outcome'[c] = outcome[c]]_vars
===============================================================================
