---------------------------- MODULE CopyRunProofs ----------------------------
(***************************************************************************)
(* For any plan and any number of threads: the exit code of b2fc tells     *)
(* what arrived, the summary names every file that did not, and one voice  *)
(* at a time writes to the terminal.                                       *)
(***************************************************************************)
EXTENDS CopyRun, SequenceTheorems, FiniteSetTheorems, TLAPS

Promised == INSTANCE BulkCopyProofs WITH Files <- Bulk

(* What the pools work through. *)

\* A sequence without repetition is as long as what it lists.
LEMMA LengthOfList ==
    ASSUME NEW S, NEW s \in Seq(S), IsInjective(s), \A x \in S : \E i \in 1..Len(s) : s[i] = x
    PROVE  IsFiniteSet(S) /\ Cardinality(S) = Len(s)
<1>1. s \in [1..Len(s) -> S] /\ Len(s) \in Nat
    OBVIOUS
<1>2. s \in Surjection(1..Len(s), S) /\ s \in Injection(1..Len(s), S)
    BY <1>1 DEF Surjection, Injection, IsInjective
<1>3. \A n \in Nat : IsFiniteSet(1..n) /\ Cardinality(1..n) = n
    BY FS_Interval
<1> QED
    BY <1>1, <1>2, <1>3, FS_Surjection

LEMMA SmallList ==
    /\ Small \in Seq(SmallSet) /\ IsInjective(Small)
    /\ IsFiniteSet(SmallSet) /\ Cardinality(SmallSet) = Len(Small)
    /\ \A f \in SmallSet : \E i \in 1..Len(Small) : Small[i] = f
<1>1. Small \in Seq(SmallSet) /\ IsInjective(Small)
    BY PlanAssumption
<1>2. DOMAIN Small = 1..Len(Small)
    BY <1>1
<1>3. \A f \in SmallSet : \E i \in 1..Len(Small) : Small[i] = f
    BY <1>2 DEF SmallSet, ToSet
<1> QED
    BY <1>1, <1>3, LengthOfList

\* The plan's order of the bulk files is some order: each comes once.
LEMMA BulkList ==
    /\ SetToSeq(Bulk) \in Seq(Bulk) /\ IsInjective(SetToSeq(Bulk))
    /\ Len(SetToSeq(Bulk)) = Cardinality(Bulk)
    /\ \A f \in Bulk : \E i \in 1..Cardinality(Bulk) : SetToSeq(Bulk)[i] = f
<1> DEFINE N == Cardinality(Bulk)
           list == SetToSeq(Bulk)
<1>1. IsFiniteSet(Bulk) /\ N \in Nat /\ ExistsBijection(1..N, Bulk)
    BY PlanAssumption, FS_CardinalityType
<1>2. \E g \in [1..N -> Bulk] : IsInjective(g)
    BY <1>1 DEF ExistsBijection, Bijection, Injection, IsInjective
<1>3. list \in [1..N -> Bulk] /\ IsInjective(list)
    BY <1>2 DEF SetToSeq
<1>4. list \in Seq(Bulk) /\ Len(list) = N
    BY <1>1, <1>3
<1>5. IsFiniteSet(1..N) /\ Cardinality(1..N) = N
    BY <1>1, FS_Interval
<1>6. list \in Injection(1..N, Bulk)
    BY <1>3 DEF Injection, IsInjective
<1> HIDE DEF list
<1>7. list \in Surjection(1..N, Bulk)
    BY <1>1, <1>5, <1>6, FS_Injection
<1>8. \A f \in Bulk : \E i \in 1..N : list[i] = f
    BY <1>7 DEF Surjection
<1> QED
    BY <1>3, <1>4, <1>8 DEF list

LEMMA FilesOfPlan ==
    /\ IsFiniteSet(Files) /\ IsFiniteSet(Bulk) /\ IsFiniteSet(SmallSet)
    /\ Cardinality(Files) = Cardinality(Bulk) + Cardinality(SmallSet)
    /\ Cardinality(Bulk) \in Nat /\ Cardinality(SmallSet) \in Nat
    /\ Bulk \subseteq Files /\ SmallSet \subseteq Files
    /\ \A f \in SmallSet : f \notin Bulk
    /\ NoFile \notin Files
<1>1. IsFiniteSet(Bulk) /\ IsFiniteSet(SmallSet) /\ Bulk \cap SmallSet = {}
    BY PlanAssumption, SmallList
<1>2. Cardinality(Bulk) \in Nat /\ Cardinality(SmallSet) \in Nat
    BY <1>1, FS_CardinalityType
<1>3. IsFiniteSet({}) /\ Cardinality({}) = 0
    BY FS_EmptySet
<1>4. IsFiniteSet(Files) /\ Cardinality(Files) = Cardinality(Bulk) + Cardinality(SmallSet)
    BY <1>1, <1>2, <1>3, FS_Union DEF Files
<1> QED
    BY <1>1, <1>2, <1>4, PlanAssumption DEF Files

\* run_verify goes through every planned file once.
LEMMA VerifyList ==
    /\ ToVerify \in Seq(Files) /\ IsInjective(ToVerify)
    /\ Len(ToVerify) = Cardinality(Files)
    /\ \A f \in Files : \E i \in 1..Len(ToVerify) : ToVerify[i] = f
<1> DEFINE list == SetToSeq(Bulk)
           B == Len(list)
<1>1. list \in Seq(Bulk) /\ IsInjective(list) /\ B = Cardinality(Bulk)
      /\ \A f \in Bulk : \E i \in 1..B : list[i] = f
    BY BulkList
<1>2. list \in Seq(Files) /\ Small \in Seq(Files) /\ ToVerify = list \o Small
    BY <1>1, SmallList, FilesOfPlan DEF ToVerify
<1> HIDE DEF list
<1>3. /\ ToVerify \in Seq(Files) /\ Len(ToVerify) = B + Len(Small)
      /\ \A i \in 1..(B + Len(Small)) :
             ToVerify[i] = IF i <= B THEN list[i] ELSE Small[i - B]
    BY <1>2, ConcatProperties
<1>4. B \in Nat /\ Len(Small) \in Nat
    BY <1>1, SmallList
<1>5. \A i \in 1..B : list[i] \in Bulk
    BY <1>1
<1>6. \A i \in 1..Len(Small) : Small[i] \in SmallSet
    BY SmallList
<1>7. DOMAIN list = 1..B /\ DOMAIN Small = 1..Len(Small) /\ DOMAIN ToVerify = 1..Len(ToVerify)
    BY <1>1, <1>3, SmallList
<1>8. ASSUME NEW i \in 1..Len(ToVerify), NEW j \in 1..Len(ToVerify), ToVerify[i] = ToVerify[j]
      PROVE  i = j
    <2>1. CASE i <= B /\ j <= B
        <3>1. i \in 1..B /\ j \in 1..B /\ list[i] = list[j]
            BY <1>3, <1>4, <1>8, <2>1
        <3> QED
            BY <3>1, <1>1, <1>7 DEF IsInjective
    <2>2. CASE i > B /\ j > B
        <3>1. i - B \in 1..Len(Small) /\ j - B \in 1..Len(Small) /\ Small[i - B] = Small[j - B]
            BY <1>3, <1>4, <1>8, <2>2
        <3>2. i - B = j - B
            BY <3>1, <1>7, SmallList DEF IsInjective
        <3> QED
            BY <3>2, <1>4
    <2>3. ASSUME NEW a \in 1..Len(ToVerify), NEW b \in 1..Len(ToVerify), a <= B, b > B
          PROVE  ToVerify[a] # ToVerify[b]
        <3>1. ToVerify[a] \in Bulk
            BY <1>3, <1>4, <1>5, <2>3
        <3>2. b - B \in 1..Len(Small) /\ ToVerify[b] = Small[b - B]
            BY <1>3, <1>4, <2>3
        <3> QED
            BY <3>1, <3>2, <1>6, FilesOfPlan
    <2> QED
        BY <2>1, <2>2, <2>3, <1>4, <1>8
<1>9. \A f \in Bulk : \E i \in 1..Len(ToVerify) : ToVerify[i] = f
    BY <1>1, <1>3, <1>4
<1>10. ASSUME NEW f \in SmallSet
       PROVE  \E i \in 1..Len(ToVerify) : ToVerify[i] = f
    <2>1. PICK i \in 1..Len(Small) : Small[i] = f
        BY SmallList
    <2>2. B + i \in 1..Len(ToVerify) /\ ToVerify[B + i] = f
        BY <2>1, <1>3, <1>4
    <2> QED
        BY <2>2
<1>11. Len(ToVerify) = Cardinality(Files)
    BY <1>1, <1>3, SmallList, FilesOfPlan
<1> QED
    BY <1>3, <1>7, <1>8, <1>9, <1>10, <1>11 DEF IsInjective, Files

-----------------------------------------------------------------------------
(* The inductive invariant. *)

Start == {"options", "show", "scan", "space", "mkdirs", "preflight", "bulk", "pipeline"}
Moving == {"mkdirs", "preflight", "bulk", "pipeline", "small", "count", "verify"}
Ending == {"finish", "join", "report", "exited"}

Untouched == \A f \in Files : dst[f] = "untouched"
Same(f) == dst[f] = "same"

\* The bulk phase keeps what BulkCopy promises.
PipelineInv == Promised!CopyInv

\* Nothing is done before its phase, and no pool outlives its own.
OrderInv ==
    /\ phase \in Start => Untouched /\ errors = 0 /\ smallDone = 0 /\ verified = 0
    /\ ~InPool => next = 1 /\ task = Idle /\ poolErrors = 0
    /\ phase # "exited" => exit = -1 /\ missing = 0
    /\ phase \notin Ending => ~refused

\* A dry run and a refused one move nothing.
QuietInv ==
    /\ dryRun => phase \notin Moving /\ Untouched
    /\ refused => Untouched
    /\ dryRun /\ ~refused /\ phase \in Ending => files = Cardinality(Files) \/ exit = 1

\* The run got past the pipeline.
Copied ==
    \/ phase \in {"small", "count", "verify"}
    \/ phase \in Ending /\ ~dryRun /\ ~refused /\ exit # 1

\* What the pipeline counted is what arrived, and all of it if no error was kept.
BulkInv ==
    Copied => \A f \in Bulk : /\ f \in copied <=> Complete(f)
                              /\ errors = 0 => Complete(f)

\* What was handed out has a thread, or went well, or left an error.
PoolInv ==
    InPool =>
        /\ next \in 1..(Len(Work) + 1)
        /\ \A t \in Threads : task[t] # NoFile => \E i \in 1..(next - 1) : task[t] = Work[i]
        /\ \A t, u \in Threads : t # u /\ task[t] # NoFile => task[t] # task[u]
        /\ poolErrors = 0 =>
               \A i \in 1..(next - 1) : Same(Work[i]) \/ \E t \in Threads : task[t] = Work[i]

\* A small file is touched once, by the thread that holds it.
SmallInv ==
    /\ phase = "small" =>
        /\ \A i \in next..Len(Small) : dst[Small[i]] = "untouched"
        /\ \A t \in Threads : task[t] # NoFile => dst[task[t]] = "untouched"
    /\ Copied => smallDone = Cardinality({f \in SmallSet : Complete(f)})
    /\ Copied /\ phase # "small" /\ errors = 0 => \A f \in SmallSet : Same(f)

CountInv ==
    Copied /\ phase \notin {"small", "count"} => files = Cardinality({f \in Files : Complete(f)})

\* Every index handed out is in work, verified or an error.
Busy == {t \in Threads : task[t] # NoFile}
VerifyInv ==
    /\ phase \in {"small", "count"} => verified = 0
    /\ phase = "verify" => verify /\ poolErrors + verified + Cardinality(Busy) = next - 1
    /\ Copied /\ phase \in Ending /\ verify /\ errors = 0 =>
           verified = Cardinality(Files) /\ \A f \in Files : Same(f)

\* Nothing changes on the way out.
ExitInv ==
    phase = "exited" =>
        /\ exit \in {0, 1, 2}
        /\ exit = 1 => Untouched /\ missing = 0
        /\ exit # 1 =>
            /\ ~refused /\ (exit = 0 <=> errors = 0)
            /\ missing = IF json \/ dryRun \/ files > Cardinality(Files) THEN 0
                         ELSE Cardinality(Files) - files

TerminalInv == OneVoice /\ (phase \in {"options", "show"} => dash = "none")

RunInv ==
    /\ TypeOK /\ PipelineInv /\ OrderInv /\ QuietInv /\ BulkInv /\ PoolInv
    /\ SmallInv /\ CountInv /\ VerifyInv /\ ExitInv /\ TerminalInv

-----------------------------------------------------------------------------
(* The bulk phase. *)

\* Only the pipeline moves what the pipeline keeps.
LEMMA OnlyPipelineMoves ==
    ASSUME Next \/ UNCHANGED vars
    PROVE  UNCHANGED bulk \/ (RunPipeline /\ Pipeline!Next)
<1>1. CASE Main
    BY <1>1 DEF Main, Reject, Accept, ShowProgress, Refuse, Refused, Pass, DryRun, EnterBulk,
        CollectBulk, EndSmall, Count, EndVerify, EndPool, StopProgress, JoinProgress, Report
<1>2. CASE \E t \in Threads : PoolThread(t)
    BY <1>2 DEF PoolThread, Claim, SmallCopied, SmallFails, Hashed, Mismatch
<1>3. CASE RunPipeline
    BY <1>3 DEF RunPipeline
<1> QED
    BY <1>1, <1>2, <1>3 DEF Next, Ticker, Dashboard, Ends, Exited, vars

LEMMA SameTerms ==
    /\ Pipeline!Init = Promised!Init
    /\ Pipeline!Next = Promised!Next
    /\ Pipeline!TypeOK = Promised!TypeOK
    /\ Pipeline!Chunk = Promised!Chunk
    /\ \A f : Pipeline!AllLanded(f) = Promised!AllLanded(f)
BY DEF Pipeline!Init, Promised!Init, Pipeline!Next, Promised!Next, Pipeline!TypeOK, Promised!TypeOK,
       Pipeline!Chunk, Promised!Chunk, Pipeline!AllLanded, Promised!AllLanded,
       Pipeline!LandedOutcomes, Promised!LandedOutcomes, Pipeline!Outcomes, Promised!Outcomes,
       Pipeline!Land, Promised!Land, Pipeline!Lose, Promised!Lose, Pipeline!Copy, Promised!Copy,
       Pipeline!Return, Promised!Return, Pipeline!Done, Promised!Done, Pipeline!vars, Promised!vars

LEMMA PipelineKept ==
    ASSUME PipelineInv, Next \/ UNCHANGED vars
    PROVE  PipelineInv'
<1>1. CASE UNCHANGED bulk
    BY <1>1 DEF bulk, PipelineInv, Promised!CopyInv, Promised!TypeOK, Promised!SettledInv,
        Promised!AllLanded, Pipeline!AllLanded
<1>2. CASE RunPipeline /\ Pipeline!Next
    BY <1>2, SameTerms, Promised!CopyStep DEF PipelineInv
<1> QED
    BY <1>1, <1>2, OnlyPipelineMoves

-----------------------------------------------------------------------------
(* What the pools hand out. *)

LEMMA WorkList ==
    /\ phase = "small" => Work = Small
    /\ phase = "verify" => Work = ToVerify
    /\ InPool => /\ Work \in Seq(Files) /\ IsInjective(Work)
                 /\ Len(Work) \in Nat /\ Len(Work) <= Cardinality(Files)
<1>1. phase = "small" => Work = Small
    BY DEF Work
<1>2. phase = "verify" => Work = ToVerify
    BY DEF Work
<1>3. Small \in Seq(Files) /\ IsInjective(Small) /\ Len(Small) <= Cardinality(Files)
    BY SmallList, FilesOfPlan
<1>4. ToVerify \in Seq(Files) /\ IsInjective(ToVerify) /\ Len(ToVerify) <= Cardinality(Files)
    BY VerifyList, FilesOfPlan
<1> QED
    BY <1>1, <1>2, <1>3, <1>4 DEF InPool

\* The types but for the pipeline's.
OwnTypes ==
    /\ verify \in BOOLEAN /\ dryRun \in BOOLEAN /\ json \in BOOLEAN
    /\ phase \in Phases
    /\ next \in 1..(Cardinality(Files) + 1)
    /\ task \in [Threads -> Files \cup {NoFile}]
    /\ poolErrors \in Nat
    /\ dst \in [Files -> {"untouched", "partial", "differs", "same"}]
    /\ smallDone \in Nat /\ verified \in Nat /\ errors \in Nat /\ files \in Nat
    /\ refused \in BOOLEAN /\ lines \in BOOLEAN /\ dashStop \in BOOLEAN
    /\ dash \in {"none", "failed", "drawing", "ticking", "ended"}
    /\ missing \in Nat
    /\ exit \in {-1, 0, 1, 2}

LEMMA TypesInit == Init => OwnTypes
<1>1. Cardinality(Files) \in Nat
    BY FilesOfPlan
<1>2. Init => lines \in BOOLEAN /\ refused \in BOOLEAN /\ dashStop \in BOOLEAN
    BY Zenon DEF Init
<1>3. Init => /\ verify \in BOOLEAN /\ dryRun \in BOOLEAN /\ json \in BOOLEAN
              /\ next \in 1..(Cardinality(Files) + 1)
    BY <1>1 DEF Init
<1>4. Init => /\ phase \in Phases /\ task \in [Threads -> Files \cup {NoFile}]
              /\ poolErrors \in Nat /\ smallDone \in Nat /\ verified \in Nat /\ errors \in Nat
              /\ files \in Nat /\ missing \in Nat /\ exit \in {-1, 0, 1, 2}
              /\ dst \in [Files -> {"untouched", "partial", "differs", "same"}]
              /\ dash \in {"none", "failed", "drawing", "ticking", "ended"}
    BY DEF Init, Phases, Idle
<1> QED
    BY <1>2, <1>3, <1>4 DEF OwnTypes

LEMMA TypesKept ==
    ASSUME OwnTypes, PipelineInv, Next \/ UNCHANGED vars
    PROVE  OwnTypes'
<1> USE DEF OwnTypes, Phases
<1> DEFINE N == Cardinality(Files)
<1>n. N \in Nat
    BY FilesOfPlan
<1> HIDE DEF N
<1>1. CASE Reject \/ Accept
    BY <1>1 DEF Reject, Accept, Leave, options, bulk, pool, counts, terminal
<1>2. CASE ShowProgress
    BY <1>2, Zenon DEF ShowProgress, options, bulk, pool, counts, terminal
<1>3. CASE Refuse
    BY <1>3 DEF Refuse, Refused, options, bulk, pool, counts, terminal
<1>4. CASE Pass
    BY <1>4 DEF Pass, After, options, bulk, pool, counts, terminal
<1>5. CASE DryRun
    BY <1>5, <1>n DEF N, DryRun, options, bulk, pool, counts, terminal
<1>6. CASE EnterBulk
    BY <1>6 DEF EnterBulk, options, bulk, pool, counts, terminal
<1>7. CASE RunPipeline
    BY <1>7 DEF RunPipeline, options, bulk, pool, counts, terminal
<1>8. CASE CollectBulk
    BY <1>8 DEF CollectBulk, options, bulk, pool, counts, terminal
<1>9. ASSUME NEW t \in Threads, Claim(t)
      PROVE  OwnTypes'
    <2>1. Work \in Seq(Files) /\ Len(Work) \in Nat /\ Len(Work) <= N
        BY <1>9, WorkList DEF Claim, N
    <2>2. Work[next] \in Files /\ next + 1 \in 1..(N + 1)
        BY <1>9, <1>n, <2>1 DEF Claim, N
    <2> QED
        BY <1>9, <2>2 DEF Claim, N, options, bulk, pool, counts, terminal
<1>10. ASSUME NEW t \in Threads, SmallCopied(t)
       PROVE  OwnTypes'
    BY <1>10 DEF SmallCopied, Free, options, bulk, pool, counts, terminal
<1>11. ASSUME NEW t \in Threads, SmallFails(t)
       PROVE  OwnTypes'
    BY <1>11 DEF SmallFails, Free, options, bulk, pool, counts, terminal
<1>12. ASSUME NEW t \in Threads, Hashed(t)
       PROVE  OwnTypes'
    BY <1>12 DEF Hashed, Free, options, bulk, pool, counts, terminal
<1>13. ASSUME NEW t \in Threads, Mismatch(t)
       PROVE  OwnTypes'
    BY <1>13 DEF Mismatch, Free, options, bulk, pool, counts, terminal
<1>14. CASE EndSmall \/ EndVerify
    BY <1>14, <1>n DEF N, EndSmall, EndVerify, EndPool, options, bulk, pool, counts, terminal
<1>15. CASE Count
    <2>1. copied \subseteq Bulk
        BY DEF PipelineInv, Promised!CopyInv, Promised!TypeOK
    <2>2. Cardinality(copied) \in Nat
        BY <2>1, FilesOfPlan, FS_Subset, FS_CardinalityType
    <2> QED
        BY <1>15, <2>2 DEF Count, options, bulk, pool, counts, terminal
<1>16. CASE StopProgress \/ JoinProgress
    <2>1. lines' \in BOOLEAN /\ dashStop' \in BOOLEAN
        BY <1>16, Zenon DEF StopProgress, JoinProgress
    <2> QED
        BY <1>16, <2>1 DEF StopProgress, JoinProgress, options, bulk, pool, counts, terminal
<1>17. CASE Report
    BY <1>17, <1>n DEF N, Report, Leave, options, bulk, pool, counts, terminal
<1>18. CASE Ticker \/ Dashboard \/ UNCHANGED vars
    BY <1>18 DEF Ticker, Dashboard, Ends, vars, options, bulk, pool, counts, terminal
<1> QED
    BY <1>1, <1>2, <1>3, <1>4, <1>5, <1>6, <1>7, <1>8, <1>9, <1>10, <1>11, <1>12, <1>13, <1>14,
       <1>15, <1>16, <1>17, <1>18, Zenon DEF Next, Main, PoolThread, Exited

-----------------------------------------------------------------------------
(* The order of the run, and the terminal. *)

LEMMA OrderKept ==
    ASSUME OwnTypes, OrderInv, Next \/ UNCHANGED vars
    PROVE  OrderInv'
<1> USE DEF OrderInv, Start, Ending, InPool, Untouched, options, bulk, pool, counts, terminal
<1>1. CASE Reject \/ Accept \/ ShowProgress
    BY <1>1 DEF Reject, Accept, ShowProgress, Leave
<1>2. CASE Refuse \/ Pass \/ DryRun
    BY <1>2 DEF Refuse, Refused, Pass, After, DryRun
<1>3. CASE EnterBulk \/ RunPipeline
    BY <1>3 DEF EnterBulk, RunPipeline
<1>4. CASE CollectBulk
    BY <1>4 DEF CollectBulk
<1>5. ASSUME NEW t \in Threads, PoolThread(t)
      PROVE  OrderInv'
    BY <1>5 DEF PoolThread, Claim, SmallCopied, SmallFails, Hashed, Mismatch
<1>6. CASE EndSmall \/ EndVerify
    BY <1>6 DEF EndSmall, EndVerify, EndPool, PoolDone
<1>7. CASE Count
    BY <1>7 DEF Count
<1>8. CASE StopProgress \/ JoinProgress
    BY <1>8 DEF StopProgress, JoinProgress
<1>9. CASE Report
    BY <1>9 DEF Report, Leave
<1>10. CASE Ticker \/ Dashboard \/ UNCHANGED vars
    BY <1>10 DEF Ticker, Dashboard, Ends, vars
<1> QED
    BY <1>1, <1>2, <1>3, <1>4, <1>5, <1>6, <1>7, <1>8, <1>9, <1>10, Zenon DEF Next, Main, Exited

LEMMA TerminalKept ==
    ASSUME OwnTypes, TerminalInv, Next \/ UNCHANGED vars
    PROVE  TerminalInv'
<1> USE DEF TerminalInv, OneVoice, Showing, options, terminal
<1>1. CASE Reject \/ Accept
    BY <1>1 DEF Reject, Accept, Leave
<1>2. CASE ShowProgress
    BY <1>2 DEF ShowProgress
<1>3. CASE Refuse \/ Pass \/ DryRun \/ EnterBulk \/ CollectBulk \/ RunPipeline
    BY <1>3 DEF Refuse, Refused, Pass, After, DryRun, EnterBulk, CollectBulk, RunPipeline
<1>4. ASSUME NEW t \in Threads, PoolThread(t)
      PROVE  TerminalInv'
    BY <1>4 DEF PoolThread, Claim, SmallCopied, SmallFails, Hashed, Mismatch
<1>5. CASE EndSmall \/ EndVerify \/ Count
    BY <1>5 DEF EndSmall, EndVerify, EndPool, Count
<1>6. CASE StopProgress
    BY <1>6 DEF StopProgress
<1>7. CASE JoinProgress
    BY <1>7 DEF JoinProgress
<1>8. CASE Report
    BY <1>8 DEF Report, Leave
<1>9. CASE Ticker \/ Dashboard \/ UNCHANGED vars
    BY <1>9 DEF Ticker, Dashboard, Ends, vars
<1> QED
    BY <1>1, <1>2, <1>3, <1>4, <1>5, <1>6, <1>7, <1>8, <1>9, Zenon DEF Next, Main, Exited

LEMMA QuietKept ==
    ASSUME OwnTypes, OrderInv, QuietInv, ExitInv, Next \/ UNCHANGED vars
    PROVE  QuietInv'
<1> USE DEF QuietInv, Moving, Ending, Untouched, options, counts
<1>1. CASE Reject \/ Accept \/ ShowProgress
    BY <1>1 DEF Reject, Accept, ShowProgress, Leave, OrderInv, Start
<1>2. CASE Refuse
    BY <1>2 DEF Refuse, Refused, OrderInv, Start
<1>3. CASE Pass \/ EnterBulk \/ RunPipeline
    BY <1>3 DEF Pass, After, EnterBulk, RunPipeline
<1>4. CASE DryRun
    BY <1>4 DEF DryRun, OrderInv, Start
<1>5. CASE CollectBulk
    BY <1>5 DEF CollectBulk, OrderInv
<1>6. ASSUME NEW t \in Threads, PoolThread(t)
      PROVE  QuietInv'
    BY <1>6 DEF PoolThread, Claim, SmallCopied, SmallFails, Hashed, Mismatch, InPool, OrderInv
<1>7. CASE EndSmall \/ EndVerify \/ Count
    BY <1>7 DEF EndSmall, EndVerify, EndPool, Count
<1>8. CASE StopProgress \/ JoinProgress
    BY <1>8 DEF StopProgress, JoinProgress, OrderInv
<1>9. CASE Report
    BY <1>9 DEF Report, Leave, OrderInv
<1>10. CASE Ticker \/ Dashboard \/ UNCHANGED vars
    BY <1>10 DEF Ticker, Dashboard, Ends, vars
<1> QED
    BY <1>1, <1>2, <1>3, <1>4, <1>5, <1>6, <1>7, <1>8, <1>9, <1>10, Zenon DEF Next, Main, Exited

-----------------------------------------------------------------------------
(* What arrived, counted and told. *)

\* run_bulk returned: a file arrived whole when all its chunks landed, and these
\* are the files counted; without an error they are all of them.
LEMMA PipelineReturns ==
    ASSUME OwnTypes, PipelineInv, OrderInv, CollectBulk
    PROVE  /\ \A f \in Bulk : /\ f \in copied' <=> Complete(f)'
                              /\ errors' = 0 => Complete(f)'
           /\ \A f \in SmallSet : dst'[f] = "untouched"
<1>1. PICK result \in [Bulk -> {"partial", "differs", "same"}] :
          /\ \A f \in Bulk : result[f] \in BulkResults(f)
          /\ dst' = [f \in Files |-> IF f \in Bulk THEN result[f] ELSE dst[f]]
    BY DEF CollectBulk
<1>2. errors' = (IF reported THEN 1 ELSE 0) /\ copied' = copied
    BY DEF CollectBulk, OrderInv, Start, OwnTypes, bulk
<1>3. /\ outcome \in [Pipeline!Chunk -> {"whole", "zeroed", "open", "lost"}]
      /\ \A c \in Pipeline!Chunk : outcome[c] # "open"
      /\ ~reported => \A c \in Pipeline!Chunk : outcome[c] # "lost"
      /\ \A f \in Bulk : Pipeline!AllLanded(f) <=> f \in copied
    BY SameTerms DEF CollectBulk, PipelineInv, Promised!CopyInv, Promised!TypeOK, Promised!SettledInv,
        Promised!Outcomes, Promised!LandedOutcomes
<1>4. ASSUME NEW f \in Bulk
      PROVE  /\ f \in copied <=> Complete(f)'
             /\ errors' = 0 => Complete(f)'
    <2> DEFINE got == {outcome[c] : c \in ChunksOf[f]}
    <2>1. \A c \in ChunksOf[f] : c \in Pipeline!Chunk
        BY DEF Pipeline!Chunk
    <2>2. dst'[f] \in BulkResults(f)
        BY <1>1, FilesOfPlan
    <2>3. f \in copied <=> "lost" \notin got
        BY <1>3, <2>1 DEF Pipeline!AllLanded, Pipeline!LandedOutcomes
    <2>4. ~reported => "lost" \notin got
        BY <1>3, <2>1
    <2>5. "lost" \in got => dst'[f] = "partial"
        BY <2>2 DEF BulkResults
    <2>6. "lost" \notin got => dst'[f] \in {"same", "differs"}
        BY <2>2 DEF BulkResults
    <2> HIDE DEF got
    <2> QED
        BY <1>2, <2>3, <2>4, <2>5, <2>6 DEF Complete
<1>5. ASSUME NEW f \in SmallSet
      PROVE  dst'[f] = "untouched"
    BY <1>1, FilesOfPlan DEF CollectBulk, OrderInv, Start, Untouched
<1> QED
    BY <1>2, <1>4, <1>5

\* A thread of a pool works on a file of that pool.
LEMMA TaskOfPool ==
    ASSUME OwnTypes, PoolInv, InPool, NEW t \in Threads, task[t] # NoFile
    PROVE  task[t] \in Files /\ (phase = "small" => task[t] \in SmallSet)
<1>1. PICK i \in 1..(next - 1) : task[t] = Work[i]
    BY DEF PoolInv
<1>2. i \in 1..Len(Work)
    BY WorkList DEF PoolInv, OwnTypes
<1>3. phase = "small" => Work[i] \in SmallSet
    BY <1>2, WorkList, SmallList
<1>4. Work[i] \in Files
    BY <1>2, WorkList
<1> QED
    BY <1>1, <1>3, <1>4

LEMMA BulkKept ==
    ASSUME OwnTypes, PipelineInv, OrderInv, PoolInv, BulkInv, Next \/ UNCHANGED vars
    PROVE  BulkInv'
<1> USE DEF BulkInv, Copied, Ending, Complete, options, bulk, counts
<1>1. CASE Reject \/ Accept \/ ShowProgress
    BY <1>1 DEF Reject, Accept, ShowProgress, Leave
<1>2. CASE Refuse
    BY <1>2 DEF Refuse, Refused, OrderInv
<1>3. CASE Pass \/ RunPipeline
    BY <1>3 DEF Pass, After, RunPipeline
<1>4. CASE DryRun
    BY <1>4 DEF DryRun
<1>5. CASE EnterBulk
    BY <1>5 DEF EnterBulk
<1>6. CASE CollectBulk
    BY <1>6, PipelineReturns
<1>7. ASSUME NEW t \in Threads, PoolThread(t)
      PROVE  BulkInv'
    <2>1. CASE Claim(t) \/ Hashed(t) \/ Mismatch(t)
        BY <2>1 DEF Claim, Hashed, Mismatch
    <2>2. CASE SmallCopied(t) \/ SmallFails(t)
        <3>1. task[t] \in SmallSet /\ phase = "small"
            BY <2>2, TaskOfPool DEF SmallCopied, SmallFails, InPool
        <3>2. \A f \in Bulk : dst'[f] = dst[f]
            BY <2>2, <3>1, FilesOfPlan DEF SmallCopied, SmallFails, OwnTypes
        <3>3. UNCHANGED <<phase, copied, errors>>
            BY <2>2 DEF SmallCopied, SmallFails
        <3> QED
            BY <3>1, <3>2, <3>3
    <2> QED
        BY <1>7, <2>1, <2>2 DEF PoolThread
<1>8. CASE EndSmall \/ EndVerify
    BY <1>8 DEF EndSmall, EndVerify, EndPool, OwnTypes
<1>9. CASE Count
    BY <1>9 DEF Count
<1>10. CASE StopProgress \/ JoinProgress
    BY <1>10 DEF StopProgress, JoinProgress, OrderInv
<1>11. CASE Report
    BY <1>11 DEF Report, Leave, OrderInv
<1>12. CASE Ticker \/ Dashboard \/ UNCHANGED vars
    BY <1>12 DEF Ticker, Dashboard, Ends, vars
<1> QED
    BY <1>1, <1>2, <1>3, <1>4, <1>5, <1>6, <1>7, <1>8, <1>9, <1>10, <1>11, <1>12, Zenon
    DEF Next, Main, Exited

-----------------------------------------------------------------------------
(* The pools. *)

\* A pool that starts has handed out nothing.
LEMMA PoolStarts ==
    ASSUME OrderInv, ~InPool, UNCHANGED pool
    PROVE  PoolInv'
<1>1. next' = 1 /\ task' = Idle
    BY DEF OrderInv, pool
<1>2. InPool' => Len(Work)' \in Nat
    BY SmallList, VerifyList DEF Work, InPool
<1> QED
    BY <1>1, <1>2 DEF PoolInv, Idle

\* The next index goes to one thread.
LEMMA ClaimKeepsPool ==
    ASSUME OwnTypes, PoolInv, NEW t \in Threads, Claim(t)
    PROVE  PoolInv'
<1>1. /\ Work' = Work /\ InPool /\ InPool' /\ poolErrors' = poolErrors /\ dst' = dst
      /\ task[t] = NoFile /\ next <= Len(Work) /\ next' = next + 1
      /\ task' = [task EXCEPT ![t] = Work[next]]
    BY DEF Claim, Work, InPool
<1>2. /\ Work \in Seq(Files) /\ DOMAIN Work = 1..Len(Work) /\ Len(Work) \in Nat
      /\ \A i, j \in 1..Len(Work) : Work[i] = Work[j] => i = j
    BY <1>1, WorkList DEF IsInjective
<1> DEFINE W == Work
<1> HIDE DEF W
<1>3. /\ next \in 1..(Len(W) + 1)
      /\ \A u \in Threads : task[u] # NoFile => \E i \in 1..(next - 1) : task[u] = W[i]
      /\ \A u, v \in Threads : u # v /\ task[u] # NoFile => task[u] # task[v]
      /\ poolErrors = 0 =>
             \A i \in 1..(next - 1) : Same(W[i]) \/ \E u \in Threads : task[u] = W[i]
    BY <1>1 DEF PoolInv, W
<1>4. W[next] \in Files /\ next \in 1..Len(W)
    BY <1>1, <1>2, <1>3 DEF W
<1>5. \A u \in Threads : task'[u] = IF u = t THEN W[next] ELSE task[u]
    BY <1>1 DEF W, OwnTypes
<1>6. \A u \in Threads : task[u] # NoFile => task[u] # W[next]
    BY <1>1, <1>2, <1>3, <1>4 DEF W
<1>7. next' \in 1..(Len(W) + 1) /\ next' - 1 = next
    BY <1>1, <1>2, <1>4 DEF W
<1>8. \A u \in Threads : task'[u] # NoFile => \E i \in 1..next : task'[u] = W[i]
    BY <1>3, <1>4, <1>5
<1>9. \A u, v \in Threads : u # v /\ task'[u] # NoFile => task'[u] # task'[v]
    BY <1>3, <1>4, <1>5, <1>6, FilesOfPlan
<1>10. ASSUME poolErrors = 0, NEW i \in 1..next
       PROVE  Same(W[i]) \/ \E u \in Threads : task'[u] = W[i]
    <2>1. CASE i = next
        BY <2>1, <1>5
    <2>2. CASE i # next
        <3>1. i \in 1..(next - 1) /\ i \in 1..Len(W)
            BY <2>2, <1>4
        <3>2. CASE Same(W[i])
            BY <3>2
        <3>3. ASSUME NEW u \in Threads, task[u] = W[i]
              PROVE  task'[u] = W[i]
            <4>1. W[i] # NoFile
                BY <3>1, <1>2, FilesOfPlan DEF W
            <4> QED
                BY <3>3, <4>1, <1>1, <1>5
        <3> QED
            BY <3>1, <3>2, <3>3, <1>3, <1>10
    <2> QED
        BY <2>1, <2>2
<1> QED
    BY <1>1, <1>7, <1>8, <1>9, <1>10 DEF PoolInv, Same, W

\* A thread that is done with its file lets go of it, whatever came of it.
LEMMA DoneKeepsPool ==
    ASSUME OwnTypes, PoolInv, InPool, NEW t \in Threads, task[t] # NoFile, Free(t),
           UNCHANGED <<phase, next>>, poolErrors' \in Nat,
           poolErrors' = 0 => poolErrors = 0 /\ dst'[task[t]] = "same",
           \A f \in Files \ {task[t]} : dst'[f] = dst[f]
    PROVE  PoolInv'
<1>1. Work' = Work /\ InPool' /\ next' = next
    BY DEF Work, InPool
<1>2. Work \in Seq(Files) /\ Len(Work) \in Nat
    BY WorkList
<1> DEFINE W == Work
<1> HIDE DEF W
<1>3. /\ next \in 1..(Len(W) + 1)
      /\ \A u \in Threads : task[u] # NoFile => \E i \in 1..(next - 1) : task[u] = W[i]
      /\ \A u, v \in Threads : u # v /\ task[u] # NoFile => task[u] # task[v]
      /\ poolErrors = 0 =>
             \A i \in 1..(next - 1) : Same(W[i]) \/ \E u \in Threads : task[u] = W[i]
    BY DEF PoolInv, W
<1>4. \A u \in Threads : task'[u] = IF u = t THEN NoFile ELSE task[u]
    BY DEF Free, OwnTypes
<1>5. \A i \in 1..(next - 1) : W[i] \in Files
    BY <1>2, <1>3 DEF W
<1>6. ASSUME poolErrors' = 0, NEW i \in 1..(next - 1)
      PROVE  dst'[W[i]] = "same" \/ \E u \in Threads : task'[u] = W[i]
    <2>1. CASE W[i] = task[t]
        BY <2>1, <1>6
    <2>2. CASE W[i] # task[t]
        <3>1. Same(W[i]) \/ \E u \in Threads : task[u] = W[i]
            BY <1>3, <1>6
        <3>2. CASE Same(W[i])
            BY <3>2, <2>2, <1>5 DEF Same
        <3>3. ASSUME NEW u \in Threads, task[u] = W[i]
              PROVE  task'[u] = W[i]
            BY <3>3, <2>2, <1>4
        <3> QED
            BY <3>1, <3>2, <3>3
    <2> QED
        BY <2>1, <2>2
<1> QED
    BY <1>1, <1>3, <1>4, <1>6 DEF PoolInv, Same, W

LEMMA PoolKept ==
    ASSUME OwnTypes, OrderInv, PoolInv, Next \/ UNCHANGED vars
    PROVE  PoolInv'
<1> USE DEF options, bulk, counts, terminal
<1>1. CASE Reject \/ Accept \/ ShowProgress \/ Refuse \/ Pass \/ DryRun
    BY <1>1, PoolStarts DEF Reject, Accept, ShowProgress, Refuse, Refused, Pass, After, DryRun, InPool
<1>2. CASE EnterBulk \/ CollectBulk \/ Count \/ RunPipeline
    BY <1>2, PoolStarts DEF EnterBulk, CollectBulk, Count, RunPipeline, InPool
<1>3. CASE StopProgress \/ JoinProgress \/ Report
    BY <1>3, PoolStarts DEF StopProgress, JoinProgress, Report, Leave, InPool
<1>4. CASE EndSmall \/ EndVerify
    BY <1>4 DEF EndSmall, EndVerify, EndPool, PoolInv, InPool
<1>5. ASSUME NEW t \in Threads, SmallCopied(t)
      PROVE  PoolInv'
    <2>1. InPool /\ poolErrors' \in Nat /\ \A f \in Files \ {task[t]} : dst'[f] = dst[f]
        BY <1>5 DEF SmallCopied, InPool, OwnTypes
    <2>2. dst'[task[t]] = "same"
        BY <1>5, <2>1, TaskOfPool DEF SmallCopied, OwnTypes
    <2> QED
        BY <1>5, <2>1, <2>2, DoneKeepsPool DEF SmallCopied
<1>6. ASSUME NEW t \in Threads, SmallFails(t)
      PROVE  PoolInv'
    <2>1. InPool /\ \A f \in Files \ {task[t]} : dst'[f] = dst[f]
        BY <1>6 DEF SmallFails, InPool, OwnTypes
    <2>2. poolErrors' \in Nat /\ poolErrors' # 0
        BY <1>6, PoolAssumption DEF SmallFails, OwnTypes
    <2> QED
        BY <1>6, <2>1, <2>2, DoneKeepsPool DEF SmallFails
<1>7. ASSUME NEW t \in Threads, Hashed(t)
      PROVE  PoolInv'
    BY <1>7, DoneKeepsPool DEF Hashed, InPool, OwnTypes
<1>8. ASSUME NEW t \in Threads, Mismatch(t)
      PROVE  PoolInv'
    <2>1. InPool /\ poolErrors' \in Nat /\ poolErrors' # 0
        BY <1>8 DEF Mismatch, InPool, OwnTypes
    <2> QED
        BY <1>8, <2>1, DoneKeepsPool DEF Mismatch
<1>9. CASE Ticker \/ Dashboard \/ UNCHANGED vars
    BY <1>9 DEF Ticker, Dashboard, Ends, vars, pool, PoolInv, InPool, Work, Same
<1> QED
    BY <1>1, <1>2, <1>3, <1>4, <1>5, <1>6, <1>7, <1>8, <1>9, ClaimKeepsPool
    DEF Next, Main, PoolThread, Exited

-----------------------------------------------------------------------------
(* The small files. *)

Arrived(S) == {f \in S : Complete(f)}

LEMMA ArrivedFinite ==
    ASSUME NEW S \in SUBSET Files
    PROVE  IsFiniteSet(Arrived(S)) /\ Cardinality(Arrived(S)) \in Nat
<1>1. Arrived(S) \in SUBSET Files /\ IsFiniteSet(Files)
    BY FilesOfPlan DEF Arrived
<1>2. IsFiniteSet(Arrived(S))
    BY <1>1, FS_Subset
<1> QED
    BY <1>2, FS_CardinalityType

\* The phase of the small files starts with none of them touched.
LEMMA SmallStarts ==
    ASSUME OwnTypes, PipelineInv, OrderInv, QuietInv, EnterBulk \/ CollectBulk
    PROVE  SmallInv'
<1>1. phase' \in {"small", "pipeline"} /\ next' = 1 /\ task' = Idle /\ smallDone' = 0
    BY DEF EnterBulk, CollectBulk, OrderInv, InPool, Start, pool, counts
<1>2. \A f \in SmallSet : dst'[f] = "untouched"
    BY PipelineReturns, FilesOfPlan DEF EnterBulk, OrderInv, Start, Untouched
<1>3. {f \in SmallSet : Complete(f)'} = {}
    BY <1>2 DEF Complete
<1>4. Cardinality({}) = 0
    BY FS_EmptySet
<1>5. \A i \in 1..Len(Small) : Small[i] \in SmallSet
    BY SmallList
<1>6. Copied' => phase' = "small"
    BY <1>1 DEF Copied, Ending
<1>7. smallDone' = Cardinality({f \in SmallSet : Complete(f)'})
    BY <1>1, <1>3, <1>4
<1>8. phase' = "small" =>
        /\ \A i \in next'..Len(Small) : dst'[Small[i]] = "untouched"
        /\ \A t \in Threads : task'[t] # NoFile => dst'[task'[t]] = "untouched"
    BY <1>1, <1>2, <1>5 DEF Idle
<1> QED
    BY <1>6, <1>7, <1>8 DEF SmallInv

LEMMA ClaimKeepsSmall ==
    ASSUME OwnTypes, PoolInv, SmallInv, NEW t \in Threads, Claim(t)
    PROVE  SmallInv'
<1>1. UNCHANGED <<phase, dst, smallDone, errors, dryRun, refused, exit>>
    BY DEF Claim, counts, options
<1>2. ASSUME phase = "small"
      PROVE  /\ \A i \in next'..Len(Small) : dst'[Small[i]] = "untouched"
             /\ \A u \in Threads : task'[u] # NoFile => dst'[task'[u]] = "untouched"
    <2>1. next \in 1..Len(Small) /\ next' = next + 1 /\ task' = [task EXCEPT ![t] = Small[next]]
        BY <1>2, SmallList DEF Claim, Work, OwnTypes
    <2>2. \A u \in Threads : task'[u] = IF u = t THEN Small[next] ELSE task[u]
        BY <2>1 DEF OwnTypes
    <2> QED
        BY <1>1, <1>2, <2>1, <2>2, SmallList DEF SmallInv
<1>3. (Copied' <=> Copied) /\ \A f : (Complete(f)' <=> Complete(f)) /\ (Same(f)' <=> Same(f))
    BY <1>1 DEF Copied, Complete, Same
<1>4. {f \in SmallSet : Complete(f)'} = {f \in SmallSet : Complete(f)}
    BY <1>3
<1> QED
    BY <1>1, <1>2, <1>3, <1>4 DEF SmallInv

\* A thread touches no file but its own, which no other will look at.
LEMMA DoneKeepsApart ==
    ASSUME OwnTypes, PoolInv, SmallInv, phase = "small", NEW t \in Threads, task[t] # NoFile,
           Free(t), UNCHANGED next,
           \A f \in Files \ {task[t]} : dst'[f] = dst[f]
    PROVE  /\ \A i \in next'..Len(Small) : dst'[Small[i]] = "untouched"
           /\ \A u \in Threads : task'[u] # NoFile => dst'[task'[u]] = "untouched"
<1>1. Work = Small /\ InPool
    BY DEF Work, InPool
<1>2. PICK j \in 1..(next - 1) : task[t] = Small[j]
    BY <1>1 DEF PoolInv
<1>3. next \in 1..(Len(Small) + 1) /\ Len(Small) \in Nat
    BY <1>1, SmallList DEF PoolInv
<1>4. ASSUME NEW i \in next..Len(Small)
      PROVE  dst'[Small[i]] = "untouched"
    <2>1. Small[i] # Small[j]
        BY <1>2, <1>3, SmallList DEF IsInjective
    <2>2. Small[i] \in Files
        BY <1>3, SmallList, FilesOfPlan
    <2> QED
        BY <1>2, <2>1, <2>2 DEF SmallInv
<1>5. ASSUME NEW u \in Threads, task'[u] # NoFile
      PROVE  dst'[task'[u]] = "untouched"
    <2>1. u # t /\ task'[u] = task[u]
        BY <1>5 DEF Free, OwnTypes
    <2>2. task[u] # task[t] /\ task[u] \in Files
        BY <1>1, <1>5, <2>1 DEF PoolInv, OwnTypes
    <2> QED
        BY <1>5, <2>1, <2>2 DEF SmallInv
<1> QED
    BY <1>4, <1>5

LEMMA SmallCopiedKeepsSmall ==
    ASSUME OwnTypes, PoolInv, SmallInv, NEW t \in Threads, SmallCopied(t)
    PROVE  SmallInv'
<1> DEFINE f == task[t]
<1>1. phase = "small" /\ phase' = "small" /\ InPool /\ f # NoFile /\ smallDone' = smallDone + 1
      /\ dst' = [dst EXCEPT ![f] = "same"]
    BY DEF SmallCopied, InPool
<1>2. f \in SmallSet /\ f \in Files
    BY <1>1, TaskOfPool
<1>3. \A g \in Files : dst'[g] = IF g = f THEN "same" ELSE dst[g]
    BY <1>1 DEF OwnTypes
<1>4. f \notin Arrived(SmallSet)
    BY <1>1 DEF SmallInv, Arrived, Complete
<1>5. Arrived(SmallSet)' = Arrived(SmallSet) \cup {f}
    BY <1>2, <1>3, FilesOfPlan DEF Arrived, Complete
<1>6. smallDone = Cardinality(Arrived(SmallSet))
    BY <1>1 DEF SmallInv, Arrived, Copied
<1>7. Cardinality(Arrived(SmallSet) \cup {f}) = Cardinality(Arrived(SmallSet)) + 1
    BY <1>4, ArrivedFinite, FilesOfPlan, FS_AddElement
<1>8. smallDone' = Cardinality(Arrived(SmallSet)')
    BY <1>1, <1>5, <1>6, <1>7
<1>9. /\ \A i \in next'..Len(Small) : dst'[Small[i]] = "untouched"
      /\ \A u \in Threads : task'[u] # NoFile => dst'[task'[u]] = "untouched"
    BY <1>1, <1>3, DoneKeepsApart DEF SmallCopied
<1> QED
    BY <1>1, <1>8, <1>9 DEF SmallInv, Arrived

LEMMA SmallFailsKeepsSmall ==
    ASSUME OwnTypes, PoolInv, SmallInv, NEW t \in Threads, SmallFails(t)
    PROVE  SmallInv'
<1> DEFINE f == task[t]
<1>1. /\ phase = "small" /\ phase' = "small" /\ InPool /\ f # NoFile /\ smallDone' = smallDone
      /\ \E r \in {"untouched", "partial"} : dst' = [dst EXCEPT ![f] = r]
    BY DEF SmallFails, InPool, counts
<1>2. f \in SmallSet /\ f \in Files
    BY <1>1, TaskOfPool
<1>3. dst'[f] \in {"untouched", "partial"} /\ \A g \in Files \ {f} : dst'[g] = dst[g]
    BY <1>1, <1>2 DEF OwnTypes
<1>4. dst[f] = "untouched"
    BY <1>1 DEF SmallInv
<1>5. Arrived(SmallSet)' = Arrived(SmallSet)
    BY <1>3, <1>4, FilesOfPlan DEF Arrived, Complete
<1>6. smallDone' = Cardinality(Arrived(SmallSet)')
    BY <1>1, <1>5 DEF SmallInv, Arrived, Copied
<1>7. /\ \A i \in next'..Len(Small) : dst'[Small[i]] = "untouched"
      /\ \A u \in Threads : task'[u] # NoFile => dst'[task'[u]] = "untouched"
    BY <1>1, <1>3, DoneKeepsApart DEF SmallFails
<1> QED
    BY <1>1, <1>6, <1>7 DEF SmallInv, Arrived

\* The phase ends without an error only if every small file was copied.
LEMMA EndSmallKeepsSmall ==
    ASSUME OwnTypes, PoolInv, SmallInv, EndSmall
    PROVE  SmallInv'
<1>1. /\ phase = "small" /\ phase' = "count" /\ PoolDone /\ InPool
      /\ errors' = errors + poolErrors /\ dst' = dst /\ smallDone' = smallDone
    BY DEF EndSmall, EndPool, InPool
<1>2. Work = Small
    BY <1>1, WorkList
<1>3. ASSUME errors' = 0, NEW f \in SmallSet
      PROVE  dst'[f] = "same"
    <2>1. poolErrors = 0
        BY <1>1, <1>3 DEF OwnTypes
    <2>2. PICK i \in 1..Len(Small) : Small[i] = f
        BY SmallList
    <2>3. i \in 1..(next - 1)
        BY <1>1, <1>2, <2>2, SmallList DEF PoolDone, OwnTypes
    <2>4. Same(f) \/ \E t \in Threads : task[t] = f
        BY <1>1, <1>2, <2>1, <2>2, <2>3 DEF PoolInv
    <2>5. \A t \in Threads : task[t] # f
        BY <1>1, FilesOfPlan DEF PoolDone, Idle
    <2> QED
        BY <1>1, <2>4, <2>5 DEF Same
<1>4. smallDone' = Cardinality({f \in SmallSet : Complete(f)'})
    BY <1>1 DEF SmallInv, Copied, Complete
<1> QED
    BY <1>1, <1>3, <1>4 DEF SmallInv, Same

\* Whatever leaves the destination and the count alone, before or after.
LEMMA SettledKeepsSmall ==
    ASSUME OwnTypes, SmallInv, UNCHANGED <<dst, smallDone>>,
           errors' = 0 => errors = 0,
           Copied' => Copied /\ phase # "small" /\ phase' # "small",
           phase' = "small" => Copied'
    PROVE  SmallInv'
<1>1. {f \in SmallSet : Complete(f)'} = {f \in SmallSet : Complete(f)}
    BY DEF Complete
<1> QED
    BY <1>1 DEF SmallInv, Same

LEMMA SmallKept ==
    ASSUME OwnTypes, PipelineInv, OrderInv, QuietInv, PoolInv, SmallInv, Next \/ UNCHANGED vars
    PROVE  SmallInv'
<1> USE DEF Copied, Ending, counts, options, bulk, pool, terminal
<1>1. CASE Reject \/ Accept \/ ShowProgress
    BY <1>1, SettledKeepsSmall DEF Reject, Accept, ShowProgress, Leave
<1>2. CASE Refuse \/ Pass \/ DryRun \/ RunPipeline
    BY <1>2, SettledKeepsSmall DEF Refuse, Refused, Pass, After, DryRun, RunPipeline
<1>3. CASE EnterBulk \/ CollectBulk
    BY <1>3, SmallStarts
<1>4. ASSUME NEW t \in Threads, Claim(t) \/ SmallCopied(t) \/ SmallFails(t)
      PROVE  SmallInv'
    BY <1>4, ClaimKeepsSmall, SmallCopiedKeepsSmall, SmallFailsKeepsSmall
<1>5. ASSUME NEW t \in Threads, Hashed(t) \/ Mismatch(t)
      PROVE  SmallInv'
    BY <1>5, SettledKeepsSmall DEF Hashed, Mismatch
<1>6. CASE EndSmall
    BY <1>6, EndSmallKeepsSmall
<1>7. CASE Count \/ EndVerify
    BY <1>7, SettledKeepsSmall DEF Count, EndVerify, EndPool, OrderInv, OwnTypes, InPool
<1>8. CASE StopProgress \/ JoinProgress \/ Report
    BY <1>8, SettledKeepsSmall DEF StopProgress, JoinProgress, Report, Leave, OrderInv
<1>9. CASE Ticker \/ Dashboard \/ UNCHANGED vars
    BY <1>9 DEF Ticker, Dashboard, Ends, vars, SmallInv, Complete, Same
<1> QED
    BY <1>1, <1>2, <1>3, <1>4, <1>5, <1>6, <1>7, <1>8, <1>9 DEF Next, Main, PoolThread, Exited

-----------------------------------------------------------------------------
(* The count of files, and the verification. *)

\* The bulk files counted and the small files done are the files that arrived.
LEMMA CountIsExact ==
    ASSUME OwnTypes, PipelineInv, BulkInv, SmallInv, Copied
    PROVE  Cardinality(copied) + smallDone = Cardinality(Arrived(Files))
<1>1. copied = Arrived(Bulk)
    BY DEF BulkInv, Arrived, PipelineInv, Promised!CopyInv, Promised!TypeOK
<1>2. smallDone = Cardinality(Arrived(SmallSet))
    BY DEF SmallInv, Arrived
<1> DEFINE A == Arrived(Bulk)
           B == Arrived(SmallSet)
<1>3. Arrived(Files) = A \cup B /\ A \cap B = {}
    BY FilesOfPlan DEF Arrived, Files
<1>4. IsFiniteSet(A) /\ IsFiniteSet(B) /\ Cardinality(A) \in Nat /\ Cardinality(B) \in Nat
    BY ArrivedFinite, FilesOfPlan
<1> HIDE DEF A, B
<1>5. Cardinality(A \cup B) = Cardinality(A) + Cardinality(B) - Cardinality({})
    BY <1>3, <1>4, FS_Union
<1>6. Cardinality({}) = 0
    BY FS_EmptySet
<1> QED
    BY <1>1, <1>2, <1>3, <1>4, <1>5, <1>6 DEF A, B

LEMMA CountKept ==
    ASSUME OwnTypes, PipelineInv, OrderInv, BulkInv, SmallInv, CountInv, Next \/ UNCHANGED vars
    PROVE  CountInv'
<1> USE DEF Copied, Ending, counts, options
<1>1. CASE UNCHANGED <<dst, files>> /\ (Copied' /\ phase' \notin {"small", "count"}
                                           => Copied /\ phase \notin {"small", "count"})
    <2>1. {f \in Files : Complete(f)'} = {f \in Files : Complete(f)}
        BY <1>1 DEF Complete
    <2> QED
        BY <1>1, <2>1 DEF CountInv
<1>2. CASE Reject \/ Accept \/ ShowProgress
    BY <1>2, <1>1 DEF Reject, Accept, ShowProgress, Leave
<1>3. CASE Refuse \/ Pass \/ RunPipeline
    BY <1>3, <1>1 DEF Refuse, Refused, Pass, After, RunPipeline
<1>4. CASE DryRun \/ EnterBulk \/ CollectBulk
    BY <1>4 DEF DryRun, EnterBulk, CollectBulk, CountInv
<1>5. ASSUME NEW t \in Threads, Claim(t) \/ Hashed(t) \/ Mismatch(t)
      PROVE  CountInv'
    BY <1>5, <1>1 DEF Claim, Hashed, Mismatch
<1>6. ASSUME NEW t \in Threads, SmallCopied(t) \/ SmallFails(t)
      PROVE  CountInv'
    BY <1>6 DEF SmallCopied, SmallFails, CountInv
<1>7. CASE EndSmall
    BY <1>7 DEF EndSmall, EndPool, CountInv
<1>8. CASE Count
    <2>1. files' = Cardinality(Arrived(Files)) /\ dst' = dst
        BY <1>8, CountIsExact DEF Count
    <2>2. {f \in Files : Complete(f)'} = Arrived(Files)
        BY <2>1 DEF Complete, Arrived
    <2> QED
        BY <2>1, <2>2 DEF CountInv
<1>9. CASE EndVerify
    BY <1>9, <1>1 DEF EndVerify, EndPool
<1>10. CASE StopProgress \/ JoinProgress \/ Report
    BY <1>10, <1>1 DEF StopProgress, JoinProgress, Report, Leave, OrderInv
<1>11. CASE Ticker \/ Dashboard \/ UNCHANGED vars
    BY <1>11, <1>1 DEF Ticker, Dashboard, Ends, vars
<1> QED
    BY <1>2, <1>3, <1>4, <1>5, <1>6, <1>7, <1>8, <1>9, <1>10, <1>11
    DEF Next, Main, PoolThread, Exited

\* A thread that takes a file is one more in work, ...
LEMMA BusyMoves ==
    ASSUME OwnTypes
    PROVE  /\ Cardinality(Busy) \in Nat
           /\ task = Idle => Cardinality(Busy) = 0
           /\ \A t \in Threads, f \in Files :
                  task[t] = NoFile /\ task' = [task EXCEPT ![t] = f]
                      => Cardinality(Busy)' = Cardinality(Busy) + 1
           /\ \A t \in Threads :
                  task[t] # NoFile /\ Free(t) => Cardinality(Busy)' = Cardinality(Busy) - 1
<1>1. IsFiniteSet(Busy) /\ Cardinality(Busy) \in Nat
    <2>1. Busy \in SUBSET Threads /\ IsFiniteSet(Threads)
        BY PoolAssumption DEF Busy
    <2>2. IsFiniteSet(Busy)
        BY <2>1, FS_Subset
    <2> QED
        BY <2>2, FS_CardinalityType
<1>2. task = Idle => Cardinality(Busy) = 0
    <2>1. task = Idle => Busy = {}
        BY DEF Busy, Idle
    <2> QED
        BY <2>1, FS_EmptySet
<1>3. ASSUME NEW t \in Threads, NEW f \in Files,
             task[t] = NoFile, task' = [task EXCEPT ![t] = f]
      PROVE  Cardinality(Busy)' = Cardinality(Busy) + 1
    <2>1. Busy' = Busy \cup {t} /\ t \notin Busy
        BY <1>3, FilesOfPlan DEF Busy, OwnTypes
    <2>2. Cardinality(Busy \cup {t}) = Cardinality(Busy) + 1
        BY <1>1, <2>1, FS_AddElement
    <2> QED
        BY <2>1, <2>2
<1>4. ASSUME NEW t \in Threads, task[t] # NoFile, Free(t)
      PROVE  Cardinality(Busy)' = Cardinality(Busy) - 1
    <2>1. Busy' = Busy \ {t} /\ t \in Busy
        BY <1>4 DEF Busy, OwnTypes, Free
    <2>2. Cardinality(Busy \ {t}) = Cardinality(Busy) - 1
        BY <1>1, <2>1, FS_RemoveElement
    <2> QED
        BY <2>1, <2>2
<1> QED
    BY <1>1, <1>2, <1>3, <1>4

\* ... and when the last is done, each file was verified or left an error.
LEMMA VerifyEnds ==
    ASSUME OwnTypes, PoolInv, VerifyInv, EndVerify, errors' = 0
    PROVE  verified = Cardinality(Files) /\ \A f \in Files : Same(f)
<1>1. phase = "verify" /\ PoolDone /\ InPool /\ errors' = errors + poolErrors
    BY DEF EndVerify, EndPool, InPool
<1>2. Work = ToVerify /\ poolErrors = 0
    BY <1>1, WorkList DEF OwnTypes
<1>3. next - 1 = Cardinality(Files) /\ Cardinality(Files) \in Nat
    <2>1. next \in 1..(Len(Work) + 1) /\ next > Len(Work)
        BY <1>1 DEF PoolInv, PoolDone
    <2>2. Len(Work) = Cardinality(Files) /\ Cardinality(Files) \in Nat
        BY <1>2, VerifyList, FilesOfPlan
    <2> QED
        BY <2>1, <2>2
<1>4. verified = Cardinality(Files)
    BY <1>1, <1>2, <1>3, BusyMoves DEF VerifyInv, PoolDone, OwnTypes
<1>5. ASSUME NEW f \in Files
      PROVE  Same(f)
    <2>1. PICK i \in 1..Len(ToVerify) : ToVerify[i] = f
        BY VerifyList
    <2>2. i \in 1..(next - 1)
        BY <2>1, <1>3, VerifyList
    <2>3. Same(f) \/ \E t \in Threads : task[t] = f
        BY <1>1, <1>2, <2>1, <2>2 DEF PoolInv
    <2>4. \A t \in Threads : task[t] # f
        BY <1>1, FilesOfPlan DEF PoolDone, Idle
    <2> QED
        BY <2>3, <2>4
<1> QED
    BY <1>4, <1>5

LEMMA VerifyKept ==
    ASSUME OwnTypes, OrderInv, PoolInv, VerifyInv, ExitInv, Next \/ UNCHANGED vars
    PROVE  VerifyInv'
<1> USE DEF Copied, Ending, counts, options, pool, terminal, bulk
<1>1. CASE /\ UNCHANGED <<dst, verified, verify>> /\ phase' \notin {"verify"}
           /\ phase' \in {"small", "count"} => phase \in {"small", "count"}
           /\ Copied' /\ phase' \in Ending /\ verify /\ errors' = 0
                 => Copied /\ phase \in Ending /\ errors = 0
    BY <1>1 DEF VerifyInv, Same
<1>2. CASE Reject \/ Accept \/ ShowProgress
    BY <1>2, <1>1 DEF Reject, Accept, ShowProgress, Leave
<1>3. CASE Refuse \/ Pass \/ DryRun \/ RunPipeline
    BY <1>3, <1>1 DEF Refuse, Refused, Pass, After, DryRun, RunPipeline
<1>4. CASE EnterBulk \/ CollectBulk
    BY <1>4 DEF EnterBulk, CollectBulk, VerifyInv, OrderInv, Start
<1>5. ASSUME NEW t \in Threads, Claim(t)
      PROVE  VerifyInv'
    <2>1. UNCHANGED <<phase, poolErrors, verified, verify>> /\ next' = next + 1 /\ InPool
        BY <1>5 DEF Claim
    <2>2. Cardinality(Busy)' = Cardinality(Busy) + 1
        <3>1. Work[next] \in Files
            BY <1>5, <2>1, WorkList DEF Claim, OwnTypes
        <3> QED
            BY <1>5, <3>1, BusyMoves DEF Claim
    <2> QED
        BY <2>1, <2>2, BusyMoves DEF VerifyInv, InPool, OwnTypes
<1>6. ASSUME NEW t \in Threads, SmallCopied(t) \/ SmallFails(t)
      PROVE  VerifyInv'
    BY <1>6 DEF SmallCopied, SmallFails, VerifyInv
<1>7. ASSUME NEW t \in Threads, Hashed(t) \/ Mismatch(t)
      PROVE  VerifyInv'
    <2>1. /\ phase = "verify" /\ phase' = "verify" /\ UNCHANGED <<next, verify>>
          /\ poolErrors' + verified' = poolErrors + verified + 1
        BY <1>7 DEF Hashed, Mismatch, OwnTypes
    <2>2. Cardinality(Busy)' = Cardinality(Busy) - 1 /\ Cardinality(Busy) \in Nat
        BY <1>7, BusyMoves DEF Hashed, Mismatch
    <2>3. poolErrors' \in Nat /\ verified' \in Nat
        BY <1>7 DEF Hashed, Mismatch, OwnTypes
    <2>4. verify /\ poolErrors + verified + Cardinality(Busy) = next - 1
        BY <2>1 DEF VerifyInv
    <2>5. poolErrors \in Nat /\ verified \in Nat
        BY DEF OwnTypes
    <2>6. poolErrors' + verified' + Cardinality(Busy)' = next' - 1
        <3>1. next' = next
            BY <2>1
        <3>2. poolErrors' + verified' = poolErrors + verified + 1
            BY <2>1
        <3>3. \A sum, busy \in Nat : (sum + 1) + (busy - 1) = sum + busy
            OBVIOUS
        <3>4. poolErrors + verified \in Nat
            BY <2>5
        <3>5. poolErrors' + verified' + Cardinality(Busy)' = poolErrors + verified + Cardinality(Busy)
            BY <3>2, <3>3, <3>4, <2>2, Zenon
        <3> QED
            BY <3>1, <3>5, <2>4
    <2> QED
        BY <2>1, <2>4, <2>6 DEF VerifyInv
<1>8. CASE EndSmall
    BY <1>8, <1>1 DEF EndSmall, EndPool
<1>9. CASE Count
    <2>1. task = Idle /\ next = 1 /\ poolErrors = 0 /\ verified = 0
        BY <1>9 DEF Count, OrderInv, InPool, VerifyInv
    <2>2. /\ UNCHANGED <<verified, verify, next, task, poolErrors, errors>>
          /\ IF verify THEN phase' = "verify" ELSE phase' = "finish"
        BY <1>9 DEF Count
    <2>3. Cardinality(Busy)' = 0
        BY <2>1, <2>2, BusyMoves DEF Busy
    <2> QED
        BY <2>1, <2>2, <2>3 DEF VerifyInv
<1>10. CASE EndVerify
    <2>1. phase' = "finish" /\ UNCHANGED <<dst, verified, verify>>
        BY <1>10 DEF EndVerify, EndPool
    <2> QED
        BY <1>10, <2>1, VerifyEnds DEF VerifyInv, Same
<1>11. CASE StopProgress \/ JoinProgress \/ Report
    BY <1>11, <1>1 DEF StopProgress, JoinProgress, Report, Leave, OrderInv
<1>12. CASE Ticker \/ Dashboard \/ UNCHANGED vars
    BY <1>12 DEF Ticker, Dashboard, Ends, vars, VerifyInv, Same, Busy
<1> QED
    BY <1>2, <1>3, <1>4, <1>5, <1>6, <1>7, <1>8, <1>9, <1>10, <1>11, <1>12
    DEF Next, Main, PoolThread, Exited

LEMMA ExitKept ==
    ASSUME OwnTypes, OrderInv, QuietInv, ExitInv, Next \/ UNCHANGED vars
    PROVE  ExitInv'
<1> USE DEF counts, options, pool, terminal, bulk
<1>1. CASE Reject
    BY <1>1 DEF Reject, Leave, ExitInv, OrderInv, Start, Untouched
<1>2. CASE Report
    BY <1>2 DEF Report, Leave, ExitInv, QuietInv, Untouched, OwnTypes
<1>3. CASE Accept \/ ShowProgress \/ Refuse \/ Pass \/ DryRun \/ EnterBulk \/ RunPipeline
    BY <1>3 DEF Accept, ShowProgress, Refuse, Refused, Pass, After, DryRun, EnterBulk, RunPipeline,
        ExitInv
<1>4. CASE CollectBulk \/ EndSmall \/ Count \/ EndVerify \/ StopProgress \/ JoinProgress
    BY <1>4 DEF CollectBulk, EndSmall, EndVerify, EndPool, Count, StopProgress, JoinProgress, ExitInv
<1>5. ASSUME NEW t \in Threads, PoolThread(t)
      PROVE  ExitInv'
    BY <1>5 DEF PoolThread, Claim, SmallCopied, SmallFails, Hashed, Mismatch, InPool, ExitInv
<1>6. CASE Ticker \/ Dashboard \/ UNCHANGED vars
    BY <1>6 DEF Ticker, Dashboard, Ends, vars, ExitInv, Untouched
<1> QED
    BY <1>1, <1>2, <1>3, <1>4, <1>5, <1>6 DEF Next, Main, Exited

-----------------------------------------------------------------------------
(* The theorems. *)

LEMMA TypesAreTypeOK == TypeOK <=> OwnTypes /\ Pipeline!TypeOK
BY Zenon DEF TypeOK, OwnTypes

LEMMA RunInit == Init => RunInv
<1> SUFFICES ASSUME Init
             PROVE  RunInv
    OBVIOUS
<1>1. OwnTypes
    BY TypesInit
<1>2. PipelineInv
    BY SameTerms, Promised!CopyInit DEF Init, PipelineInv
<1>3. phase = "options" /\ exit = -1
    BY DEF Init
<1>4. OrderInv
    BY DEF Init, OrderInv, Untouched, InPool
<1>5. QuietInv
    BY DEF Init, QuietInv, Moving, Ending, Untouched
<1>6. ~Copied
    BY <1>3 DEF Copied, Ending
<1>7. BulkInv /\ PoolInv /\ SmallInv /\ CountInv /\ VerifyInv /\ ExitInv
    BY <1>3, <1>6 DEF BulkInv, PoolInv, InPool, SmallInv, CountInv, VerifyInv, ExitInv
<1>8. TerminalInv
    BY DEF Init, TerminalInv, OneVoice, Showing
<1>9. Pipeline!TypeOK
    BY <1>2, SameTerms DEF PipelineInv, Promised!CopyInv
<1> QED
    BY <1>1, <1>2, <1>4, <1>5, <1>7, <1>8, <1>9, TypesAreTypeOK DEF RunInv

LEMMA RunStep == RunInv /\ [Next]_vars => RunInv'
<1> SUFFICES ASSUME RunInv, Next \/ UNCHANGED vars
             PROVE  RunInv'
    OBVIOUS
<1>1. /\ OwnTypes /\ PipelineInv /\ OrderInv /\ QuietInv /\ BulkInv /\ PoolInv
      /\ SmallInv /\ CountInv /\ VerifyInv /\ ExitInv /\ TerminalInv
    BY TypesAreTypeOK DEF RunInv
<1>2. OwnTypes' /\ PipelineInv'
    BY <1>1, TypesKept, PipelineKept
<1>3. OrderInv' /\ QuietInv' /\ BulkInv'
    BY <1>1, OrderKept, QuietKept, BulkKept
<1>4. PoolInv' /\ SmallInv' /\ CountInv'
    BY <1>1, PoolKept, SmallKept, CountKept
<1>5. VerifyInv' /\ ExitInv' /\ TerminalInv'
    BY <1>1, VerifyKept, ExitKept, TerminalKept
<1>6. TypeOK'
    <2>1. Pipeline!TypeOK'
        BY <1>2 DEF PipelineInv, Promised!CopyInv, Pipeline!TypeOK, Promised!TypeOK,
            Pipeline!Chunk, Promised!Chunk, Pipeline!Outcomes, Promised!Outcomes,
            Pipeline!LandedOutcomes, Promised!LandedOutcomes
    <2> QED
        BY <1>2, <2>1, Zenon DEF TypeOK, OwnTypes
<1> QED
    BY <1>2, <1>3, <1>4, <1>5, <1>6 DEF RunInv

LEMMA RunAlways == Spec => []RunInv
BY RunInit, RunStep, PTL DEF Spec

\* The variables of a run have their types throughout.
THEOREM RunTyped == Spec => []TypeOK
<1>1. RunInv => TypeOK
    BY DEF RunInv
<1> QED
    BY <1>1, RunAlways, PTL

\* No line is printed while the dashboard draws, and the summary comes after it.
THEOREM VoiceApart == Spec => []OneVoice
<1>1. RunInv => OneVoice
    BY DEF RunInv, TerminalInv
<1> QED
    BY <1>1, RunAlways, PTL

\* A run that ended without an error got to the copy, and all arrived.
LEMMA CleanExit ==
    ASSUME RunInv, exit = 0, ~dryRun
    PROVE  /\ Copied /\ phase = "exited" /\ errors = 0
           /\ \A f \in Files : Complete(f)
           /\ files = Cardinality(Files)
<1>1. phase = "exited" /\ ~refused /\ errors = 0
    BY DEF RunInv, OrderInv, ExitInv
<1>2. Copied
    BY <1>1 DEF Copied, Ending
<1>3. \A f \in Bulk : Complete(f)
    BY <1>1, <1>2 DEF RunInv, BulkInv
<1>4. \A f \in SmallSet : Complete(f)
    BY <1>1, <1>2 DEF RunInv, SmallInv, Same, Complete
<1>5. \A f \in Files : Complete(f)
    BY <1>3, <1>4 DEF Files
<1>6. {f \in Files : Complete(f)} = Files
    BY <1>5
<1> QED
    BY <1>1, <1>2, <1>5, <1>6 DEF RunInv, CountInv

\* An exit code of 0 means that every file of the plan was copied, counted and,
\* if asked for, verified, through both pools and the pipeline; a run that exits
\* with 1, or was dry, touched nothing.
THEOREM ExitCodeTrue == Spec => []ExitCodeTellsTruth
<1>1. RunInv => ExitCodeTellsTruth
    <2> SUFFICES ASSUME RunInv
                 PROVE  ExitCodeTellsTruth
        OBVIOUS
    <2>1. ASSUME exit = 0, ~dryRun, verify
          PROVE  verified = Cardinality(Files) /\ \A f \in Files : dst[f] = "same"
        BY <2>1, CleanExit DEF RunInv, VerifyInv, Ending, Same
    <2>2. exit = 1 \/ dryRun => Untouched
        BY DEF RunInv, OrderInv, ExitInv, QuietInv
    <2> QED
        BY <2>1, <2>2, CleanExit DEF ExitCodeTellsTruth, Untouched
<1> QED
    BY <1>1, RunAlways, PTL

\* The summary names exactly the files that did not arrive, and none beside a 0.
THEOREM ShortfallTold == Spec => []ShortfallIsNamed
<1>1. ASSUME RunInv, exit \in {0, 2}, ~dryRun, ~json
      PROVE  missing = Cardinality({f \in Files : ~Complete(f)})
    <2> DEFINE A == Arrived(Files)
    <2>1. /\ phase = "exited" /\ ~refused
          /\ missing = IF files > Cardinality(Files) THEN 0 ELSE Cardinality(Files) - files
        BY <1>1 DEF RunInv, OrderInv, ExitInv
    <2>2. files = Cardinality(A)
        BY <1>1, <2>1 DEF RunInv, CountInv, Copied, Ending, Arrived
    <2>3. A \in SUBSET Files /\ Files \cap A = A
        BY DEF Arrived
    <2>4. IsFiniteSet(Files) /\ Cardinality(Files) \in Nat
        BY FilesOfPlan, FS_CardinalityType
    <2>5. {f \in Files : ~Complete(f)} = Files \ A
        BY DEF Arrived
    <2>6. Cardinality(A) \in Nat
        BY ArrivedFinite
    <2> HIDE DEF A
    <2>7. Cardinality(A) <= Cardinality(Files)
        BY <2>3, <2>4, FS_Subset
    <2>8. Cardinality(Files \ A) = Cardinality(Files) - Cardinality(A)
        BY <2>3, <2>4, FS_Difference
    <2> QED
        BY <2>1, <2>2, <2>4, <2>5, <2>6, <2>7, <2>8
<1>2. ASSUME RunInv, exit = 0
      PROVE  missing = 0
    <2>1. /\ phase = "exited"
          /\ missing = IF json \/ dryRun \/ files > Cardinality(Files) THEN 0
                       ELSE Cardinality(Files) - files
        BY <1>2 DEF RunInv, OrderInv, ExitInv
    <2>2. ~dryRun => files = Cardinality(Files)
        BY <1>2, CleanExit
    <2>3. Cardinality(Files) \in Nat
        BY FilesOfPlan
    <2> QED
        BY <2>1, <2>2, <2>3
<1>3. RunInv => ShortfallIsNamed
    BY <1>1, <1>2 DEF ShortfallIsNamed
<1> QED
    BY <1>3, RunAlways, PTL
=============================================================================
