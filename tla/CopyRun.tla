------------------------------- MODULE CopyRun -------------------------------
(***************************************************************************)
(* A whole run of b2fc: `main` from its options to its exit code, the      *)
(* thread that shows progress, `Copier::new` and `Copier::run`, the        *)
(* small-file pool of `run_small` and the verification pool of             *)
(* `run_verify`.  The bulk phase is BulkCopy, which BulkPipeline           *)
(* implements.                                                             *)
(***************************************************************************)
EXTENDS Integers, FiniteSets, SequencesExt

CONSTANTS
    Bulk,        \* the set of bulk files of the plan
    ChunksOf,    \* their chunks
    Small,       \* the sequence of small files
    Threads,     \* the threads of the small-file and the verification pool
    ErrorCap,    \* messages kept by each phase
    NoFile

SmallSet == ToSet(Small)
Files == Bulk \cup SmallSet
\* run_verify takes the bulk files first; their order is the plan's.
ToVerify == SetToSeq(Bulk) \o Small

ASSUME PlanAssumption ==
    /\ IsFiniteSet(Bulk)
    /\ Small \in Seq(SmallSet) /\ IsInjective(Small)
    /\ Bulk \cap SmallSet = {}
    /\ NoFile \notin Files
ASSUME PoolAssumption == Threads # {} /\ IsFiniteSet(Threads) /\ ErrorCap \in Nat \ {0}

VARIABLES
    verify, dryRun, json,                  \* options
    phase,                                 \* where run stands
    outcome, copied, reported, returned,   \* the bulk phase
    next,                                  \* the pool's shared index
    task,                                  \* task[t]: the file thread t works on
    poolErrors,                            \* the pool's error list
    dst,                                   \* dst[f], compared with the source
    smallDone, verified, errors,           \* stats and Outcome
    files,                                 \* Outcome::files
    refused,                               \* run returned Err
    lines,                                 \* progress: whether line output is on
    dash, dashStop,                        \* the thread that shows progress, its flag
    missing,                               \* what the summary says is INCOMPLETE
    exit                                   \* exit code, -1 before the end

options == <<verify, dryRun, json>>
terminal == <<lines, dash, dashStop, missing>>
bulk == <<outcome, copied, reported, returned>>
pool == <<next, task, poolErrors>>
counts == <<smallDone, verified, errors, files, refused>>
vars == <<options, phase, bulk, pool, dst, counts, terminal, exit>>

Pipeline == INSTANCE BulkCopy WITH Files <- Bulk

Phases == {"options", "show", "scan", "space", "mkdirs", "preflight", "bulk", "pipeline",
           "small", "count", "verify",
           "finish", "join", "report", "exited"}
Idle == [t \in Threads |-> NoFile]

Init ==
    /\ verify \in BOOLEAN /\ dryRun \in BOOLEAN /\ json \in BOOLEAN
    /\ phase = "options"
    /\ Pipeline!Init
    /\ next = 1 /\ task = Idle /\ poolErrors = 0
    /\ dst = [f \in Files |-> "untouched"]
    /\ smallDone = 0 /\ verified = 0 /\ errors = 0 /\ files = 0 /\ refused = FALSE
    /\ lines = ~json /\ dash = "none" /\ dashStop = FALSE /\ missing = 0
    /\ exit = -1

Leave(code) == phase' = "exited" /\ exit' = code

\* A size that cannot be parsed, or an error of Copier::new, which resolves the
\* paths and asks the volumes.
Reject ==
    /\ phase = "options"
    /\ Leave(1)
    /\ UNCHANGED <<options, bulk, pool, dst, counts, terminal>>

Accept ==
    /\ phase = "options"
    /\ phase' = "show"
    /\ UNCHANGED <<options, bulk, pool, dst, counts, terminal, exit>>

\* A dashboard for a terminal, for which line output steps aside, or a ticker
\* among the lines; a thread that cannot be spawned is done without.
ShowProgress ==
    /\ phase = "show"
    /\ \/ (json \/ dryRun) /\ UNCHANGED <<lines, dash>>
       \/ ~json /\ ~dryRun /\ lines' = FALSE /\ dash' \in {"drawing", "failed"}
       \/ ~json /\ ~dryRun /\ dash' \in {"ticking", "failed"} /\ UNCHANGED lines
    /\ phase' = "scan"
    /\ UNCHANGED <<options, bulk, pool, dst, counts, dashStop, missing, exit>>

Showing == dash \in {"drawing", "ticking"}

\* The loops of the two threads look at the flag before every sleep; what they
\* draw and print is left out.
Ends ==
    /\ dashStop /\ dash' = "ended"
    /\ UNCHANGED <<options, phase, bulk, pool, dst, counts, lines, dashStop, missing, exit>>
Ticker == dash = "ticking" /\ Ends
Dashboard == dash = "drawing" /\ Ends

Refused ==
    /\ refused' = TRUE /\ phase' = "finish"
    /\ UNCHANGED <<options, bulk, pool, dst, smallDone, verified, errors, files, terminal, exit>>

\* Mutant: run may still return Err after the bulk phase.
Refuse_Late ==
    /\ phase \in {"scan", "space", "mkdirs", "preflight", "bulk", "small"}
    /\ Refused

\* The errors that `run` returns: one of the checks failed, or the arena, which
\* is allocated for bulk files only.
Refuse ==
    /\ phase \in {"scan", "space", "mkdirs", "preflight", "bulk"}
    /\ dryRun => phase \in {"scan", "space"}
    /\ phase = "bulk" => Bulk # {}
    /\ Refused

\* The checks before any data moves: scan, free space, directories, probe.
After == [scan |-> "space", space |-> "mkdirs", mkdirs |-> "preflight", preflight |-> "bulk"]
Pass ==
    /\ phase \in DOMAIN After
    /\ phase = "space" => ~dryRun
    /\ phase' = After[phase]
    /\ UNCHANGED <<options, bulk, pool, dst, counts, terminal, exit>>

\* A dry run reports the plan as if it had been copied.
DryRun ==
    /\ phase = "space" /\ dryRun
    /\ files' = Cardinality(Files)
    /\ phase' = "finish"
    /\ UNCHANGED <<options, bulk, pool, dst, smallDone, verified, errors, refused, terminal, exit>>

\* A plan without bulk files skips the pipeline.
EnterBulk ==
    /\ phase = "bulk"
    /\ phase' = IF Bulk = {} THEN "small" ELSE "pipeline"
    /\ UNCHANGED <<options, bulk, pool, dst, counts, terminal, exit>>

RunPipeline ==
    /\ phase = "pipeline" /\ Pipeline!Next
    /\ UNCHANGED <<options, phase, pool, dst, counts, terminal, exit>>

\* What run_bulk leaves at the destination: an incomplete file, a file some
\* chunk of which had to be completed with zeros, or the file, which has its
\* padded length if its trim failed and was reported.
BulkResults(f) ==
    LET got == {outcome[c] : c \in ChunksOf[f]}
    IN  IF "lost" \in got THEN {"partial"}
        ELSE IF "zeroed" \in got THEN {"differs"}
        ELSE IF reported THEN {"same", "differs"} ELSE {"same"}

\* Mutant: the errors run_bulk returns are dropped.
CollectBulk_DropsErrors ==
    /\ phase = "pipeline" /\ returned
    /\ \E result \in [Bulk -> {"partial", "differs", "same"}] :
        /\ \A f \in Bulk : result[f] \in BulkResults(f)
        /\ dst' = [f \in Files |-> IF f \in Bulk THEN result[f] ELSE dst[f]]
    /\ phase' = "small"
    /\ UNCHANGED <<options, bulk, pool, counts, terminal, exit>>

CollectBulk ==
    /\ phase = "pipeline" /\ returned
    /\ \E result \in [Bulk -> {"partial", "differs", "same"}] :
        /\ \A f \in Bulk : result[f] \in BulkResults(f)
        /\ dst' = [f \in Files |-> IF f \in Bulk THEN result[f] ELSE dst[f]]
    /\ errors' = errors + (IF reported THEN 1 ELSE 0)
    /\ phase' = "small"
    /\ UNCHANGED <<options, bulk, pool, smallDone, verified, files, refused, terminal, exit>>

-------------------------------------------------------------------------------
(* The pools.  Both hand out indices with fetch_add on a shared counter. *)

Work == IF phase = "small" THEN Small ELSE ToVerify
InPool == phase \in {"small", "verify"}

\* Mutant: the index is loaded and stored, and another thread may come between.
Claim_TwoSteps(t) ==
    /\ InPool /\ task[t] = NoFile /\ next <= Len(Work)
    /\ \E i \in {next - 1, next} \ {0} :
        task' = [task EXCEPT ![t] = Work[i]] /\ next' = i + 1
    /\ UNCHANGED <<options, phase, bulk, poolErrors, dst, counts, terminal, exit>>

Claim(t) ==
    /\ InPool /\ task[t] = NoFile /\ next <= Len(Work)
    /\ task' = [task EXCEPT ![t] = Work[next]]
    /\ next' = next + 1
    /\ UNCHANGED <<options, phase, bulk, poolErrors, dst, counts, terminal, exit>>

Free(t) == task' = [task EXCEPT ![t] = NoFile]

SmallCopied(t) ==
    /\ phase = "small" /\ task[t] # NoFile
    /\ dst' = [dst EXCEPT ![task[t]] = "same"]
    /\ smallDone' = smallDone + 1
    /\ Free(t)
    /\ UNCHANGED <<options, phase, bulk, next, poolErrors, verified, errors, files, refused, terminal, exit>>

\* Mutants: a failed small file counts as done, ...
SmallFails_Counted(t) ==
    /\ phase = "small" /\ task[t] # NoFile
    /\ \E r \in {"untouched", "partial"} : dst' = [dst EXCEPT ![task[t]] = r]
    /\ poolErrors' = IF poolErrors < ErrorCap THEN poolErrors + 1 ELSE poolErrors
    /\ smallDone' = smallDone + 1
    /\ Free(t)
    /\ UNCHANGED <<options, phase, bulk, next, verified, errors, files, refused, terminal, exit>>

\* ... or is tried again until it succeeds.
SmallFails_Retried(t) ==
    /\ phase = "small" /\ task[t] # NoFile
    /\ \E r \in {"untouched", "partial"} : dst' = [dst EXCEPT ![task[t]] = r]
    /\ UNCHANGED <<options, phase, bulk, pool, counts, terminal, exit>>

\* The platform copy may fail before or after it created the destination.
SmallFails(t) ==
    /\ phase = "small" /\ task[t] # NoFile
    /\ \E r \in {"untouched", "partial"} : dst' = [dst EXCEPT ![task[t]] = r]
    /\ poolErrors' = IF poolErrors < ErrorCap THEN poolErrors + 1 ELSE poolErrors
    /\ Free(t)
    /\ UNCHANGED <<options, phase, bulk, next, counts, terminal, exit>>

Hashed(t) ==
    /\ phase = "verify" /\ task[t] # NoFile
    /\ dst[task[t]] = "same"
    /\ verified' = verified + 1
    /\ Free(t)
    /\ UNCHANGED <<options, phase, bulk, next, poolErrors, dst, smallDone, errors, files, refused, terminal, exit>>

\* Mutant: a mismatch is noted and not kept as an error.
Mismatch_NotKept(t) ==
    /\ phase = "verify" /\ task[t] # NoFile
    /\ Free(t)
    /\ UNCHANGED <<options, phase, bulk, next, poolErrors, dst, counts, terminal, exit>>

\* Different hashes, or a side that cannot be read, which any file may be.
Mismatch(t) ==
    /\ phase = "verify" /\ task[t] # NoFile
    /\ poolErrors' = poolErrors + 1
    /\ Free(t)
    /\ UNCHANGED <<options, phase, bulk, next, dst, counts, terminal, exit>>

\* The scope of a pool ends when every thread found the index past the end.
PoolDone == next > Len(Work) /\ task = Idle

EndPool(to) ==
    /\ PoolDone
    /\ errors' = errors + poolErrors
    /\ next' = 1 /\ poolErrors' = 0
    /\ phase' = to
    /\ UNCHANGED <<options, bulk, task, dst, smallDone, verified, files, refused, terminal, exit>>

EndSmall == phase = "small" /\ EndPool("count")
EndVerify == phase = "verify" /\ EndPool("finish")

\* stats.files_done holds the bulk files counted by finalize and the small ones.
Count ==
    /\ phase = "count"
    /\ files' = Cardinality(copied) + smallDone
    /\ phase' = IF verify THEN "verify" ELSE "finish"
    /\ UNCHANGED <<options, bulk, pool, dst, smallDone, verified, errors, refused, terminal, exit>>

StopProgress ==
    /\ phase = "finish"
    /\ dashStop' = TRUE /\ phase' = "join"
    /\ UNCHANGED <<options, bulk, pool, dst, counts, lines, dash, missing, exit>>

\* Mutant: the thread is told to stop and not waited for.
JoinProgress_Detached ==
    /\ phase = "join"
    /\ lines' = (lines \/ dash # "none")
    /\ phase' = "report"
    /\ UNCHANGED <<options, bulk, pool, dst, counts, dash, dashStop, missing, exit>>

\* Handle::finish and what main does after it.
JoinProgress ==
    /\ phase = "join" /\ ~Showing
    /\ lines' = (lines \/ dash # "none")
    /\ phase' = "report"
    /\ UNCHANGED <<options, bulk, pool, dst, counts, dash, dashStop, missing, exit>>

\* Mutant: the number of errors is the exit code.
Report_ErrorCount ==
    /\ phase = "report"
    /\ Leave(IF refused THEN 1 ELSE errors)
    /\ UNCHANGED <<options, bulk, pool, dst, counts, terminal>>

\* main: 1 for an error of run, else 0 exactly when the outcome holds none.  The
\* summary for a reader leads with the shortfall.
Report ==
    /\ phase = "report"
    /\ Leave(IF refused THEN 1 ELSE IF errors = 0 THEN 0 ELSE 2)
    /\ missing' = IF refused \/ json \/ dryRun \/ files > Cardinality(Files) THEN 0
                  ELSE Cardinality(Files) - files
    /\ UNCHANGED <<options, bulk, pool, dst, counts, lines, dash, dashStop>>

Exited == phase = "exited" /\ UNCHANGED vars

PoolThread(t) == Claim(t) \/ SmallCopied(t) \/ SmallFails(t) \/ Hashed(t) \/ Mismatch(t)
Main ==
    \/ Reject \/ Accept \/ ShowProgress
    \/ Refuse \/ Pass \/ DryRun \/ EnterBulk \/ CollectBulk
    \/ EndSmall \/ Count \/ EndVerify
    \/ StopProgress \/ JoinProgress \/ Report

Next == Main \/ RunPipeline \/ (\E t \in Threads : PoolThread(t)) \/ Ticker \/ Dashboard \/ Exited

Spec == Init /\ [][Next]_vars
Fairness ==
    /\ WF_vars(Main) /\ WF_vars(RunPipeline)
    /\ \A t \in Threads : WF_vars(PoolThread(t))
    /\ WF_vars(Ticker) /\ WF_vars(Dashboard)
FairSpec == Spec /\ Fairness

-------------------------------------------------------------------------------
TypeOK ==
    /\ verify \in BOOLEAN /\ dryRun \in BOOLEAN /\ json \in BOOLEAN
    /\ phase \in Phases
    /\ Pipeline!TypeOK
    /\ next \in 1..(Cardinality(Files) + 1)
    /\ task \in [Threads -> Files \cup {NoFile}]
    /\ poolErrors \in Nat
    /\ dst \in [Files -> {"untouched", "partial", "differs", "same"}]
    /\ smallDone \in Nat /\ verified \in Nat /\ errors \in Nat /\ files \in Nat
    /\ refused \in BOOLEAN /\ lines \in BOOLEAN /\ dashStop \in BOOLEAN
    /\ dash \in {"none", "failed", "drawing", "ticking", "ended"}
    /\ missing \in Nat
    /\ exit \in {-1, 0, 1, 2}

Complete(f) == dst[f] \in {"same", "differs"}

\* README: "a shortfall is never reported as success".  An exit code of 0 means
\* that every planned file was copied and counted, whichever phase it went
\* through, and with --verify that the contents agree, even of files that changed
\* under the copy; and a run that exits with 1, or was dry, touched nothing.
ExitCodeTellsTruth ==
    /\ exit = 0 /\ ~dryRun =>
        /\ files = Cardinality(Files)
        /\ \A f \in Files : Complete(f)
        /\ verify => verified = Cardinality(Files) /\ \A f \in Files : dst[f] = "same"
    /\ exit = 1 \/ dryRun => \A f \in Files : dst[f] = "untouched"

\* "A run that does not copy everything says so on the first line of its
\* summary": the number it names is that of the files that did not arrive,
\* counted by two pools and a pipeline, and it is never named beside a 0.
ShortfallIsNamed ==
    /\ exit \in {0, 2} /\ ~dryRun /\ ~json =>
        missing = Cardinality({f \in Files : ~Complete(f)})
    /\ exit = 0 => missing = 0

\* "The dashboard owns the terminal while it runs, so line output steps aside",
\* and the summary follows its last frame.
OneVoice ==
    /\ dash = "drawing" => ~lines
    /\ phase \in {"report", "exited"} => ~Showing

\* Every run ends with an exit code.
RunEnds == <>(exit # -1)
===============================================================================
