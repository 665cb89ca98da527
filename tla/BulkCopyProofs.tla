---------------------------- MODULE BulkCopyProofs ----------------------------
(***************************************************************************)
(* What BulkCopy promises the caller of run_bulk, for every plan.          *)
(***************************************************************************)
EXTENDS BulkCopy, TLAPS

\* A loss was reported, what is counted has landed, and a call that returned has
\* settled and counted all.
SettledInv ==
    /\ ~reported => \A c \in Chunk : outcome[c] # "lost"
    /\ \A f \in copied : AllLanded(f)
    /\ returned =>
        /\ \A c \in Chunk : outcome[c] # "open"
        /\ \A f \in Files : AllLanded(f) => f \in copied

CopyInv == TypeOK /\ SettledInv

LEMMA CopyInit == Init => CopyInv
BY DEF Init, CopyInv, TypeOK, SettledInv, Outcomes

LEMMA CopyStep == CopyInv /\ [Next]_vars => CopyInv'
<1> SUFFICES ASSUME CopyInv, [Next]_vars
             PROVE  CopyInv'
    OBVIOUS
<1> USE DEF CopyInv, TypeOK, Outcomes, LandedOutcomes
<1>1. ASSUME NEW c \in Chunk, Land(c)
      PROVE  CopyInv'
    <2>1. \A f \in Files : AllLanded(f) => AllLanded(f)'
        BY <1>1 DEF Land, AllLanded, Chunk
    <2>2. ~returned' /\ copied' = copied /\ TypeOK'
        BY <1>1 DEF Land, SettledInv
    <2>3. ~reported' => \A d \in Chunk : outcome'[d] # "lost"
        BY <1>1 DEF Land, SettledInv
    <2> QED
        BY <2>1, <2>2, <2>3 DEF SettledInv
<1>2. ASSUME NEW c \in Chunk, Lose(c)
      PROVE  CopyInv'
    <2>1. \A f \in Files : AllLanded(f) => AllLanded(f)'
        BY <1>2 DEF Lose, AllLanded, Chunk
    <2>2. ~returned' /\ copied' = copied /\ TypeOK'
        BY <1>2 DEF Lose, SettledInv
    <2>3. ~reported' => \A d \in Chunk : outcome'[d] # "lost"
        BY <1>2 DEF Lose, SettledInv
    <2> QED
        BY <2>1, <2>2, <2>3 DEF SettledInv
<1>3. ASSUME NEW f \in Files, Copy(f)
      PROVE  CopyInv'
    <2>1. copied' \subseteq Files /\ copied \subseteq copied' /\ UNCHANGED <<outcome, returned>>
        BY <1>3 DEF Copy
    <2>2. reported' = reported \/ reported' = TRUE
        BY <1>3, Zenon DEF Copy
    <2>3. \A g \in Files : AllLanded(g)' = AllLanded(g)
        BY <2>1 DEF AllLanded
    <2>4. \A g \in copied' : AllLanded(g)'
        BY <1>3, <2>3 DEF Copy, SettledInv
    <2> HIDE DEF TypeOK
    <2>5. TypeOK'
        BY <2>1, <2>2 DEF TypeOK
    <2> QED
        BY <2>1, <2>2, <2>3, <2>4, <2>5 DEF SettledInv
<1>4. CASE Return
    BY <1>4 DEF Return, SettledInv, AllLanded
<1>5. CASE UNCHANGED vars
    BY <1>5 DEF vars, SettledInv, AllLanded
<1> QED
    BY <1>1, <1>2, <1>3, <1>4, <1>5 DEF Next, Done

\* run_bulk without an error has landed every chunk and counted every file:
\* what the report and the exit code are built on.
THEOREM PromiseKept == Spec => []Promise
<1>1. CopyInv => Promise
    <2> SUFFICES ASSUME CopyInv, returned, ~reported
                 PROVE  /\ copied = Files
                        /\ \A c \in Chunk : outcome[c] \in LandedOutcomes
        BY DEF Promise
    <2>1. \A c \in Chunk : outcome[c] \in LandedOutcomes
        BY DEF CopyInv, TypeOK, SettledInv, Outcomes, LandedOutcomes
    <2>2. \A f \in Files : AllLanded(f)
        BY <2>1 DEF AllLanded, Chunk
    <2> QED
        BY <2>1, <2>2 DEF CopyInv, TypeOK, SettledInv
<1> QED
    BY <1>1, CopyInit, CopyStep, PTL DEF Spec

\* A chunk is settled once: what landed stays, what was lost is not retried.
THEOREM SettledForGood == Spec => SettledOnce
<1>1. CopyInv /\ [Next]_vars =>
          [\A c \in Chunk : outcome[c] # "open" => outcome'[c] = outcome[c]]_vars
    <2> SUFFICES ASSUME CopyInv, Next, NEW c \in Chunk, outcome[c] # "open"
                 PROVE  outcome'[c] = outcome[c] \/ UNCHANGED vars
        OBVIOUS
    <2>1. ASSUME NEW d \in Chunk, Land(d) \/ Lose(d)
          PROVE  outcome'[c] = outcome[c]
        BY <2>1 DEF Land, Lose, CopyInv, TypeOK
    <2> QED
        BY <2>1 DEF Next, Copy, Return, Done
<1> QED
    BY <1>1, CopyInit, CopyStep, PTL DEF Spec, SettledOnce
===============================================================================
