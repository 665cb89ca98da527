----------------------------- MODULE BulkPipeline -----------------------------
(***************************************************************************)
(* The bulk pipeline of b2fc: `run_bulk` starts a pool of workers and the  *)
(* scheduler thread, each worker claims a buffer from the free ring, fills *)
(* it with one chunk of a source file, and hands it over the filled ring   *)
(* to whichever worker writes it to the destination.  The last chunk of a  *)
(* file to be written finalizes the file.                                  *)
(*                                                                         *)
(* A worker's step is one access to shared state: a ring, the job cursor,  *)
(* a file's `prepared` flag, the files on disk, or a counter.  The two     *)
(* rings are atomic queues here: their mutex makes them so.  Which side a  *)
(* worker tries first is left open, so what holds here holds under every   *)
(* split the scheduler may choose.                                         *)
(***************************************************************************)
EXTENDS ChunkPlan, FiniteSets

CONSTANTS
    Workers,       \* the worker threads
    Buffers,       \* buffer indices of the arena
    NoBuffer,      \* a worker that holds no buffer
    Files,         \* the bulk files of the plan
    Jobs,          \* the sequence of chunks [file, offset, len]
    Size,          \* Size[f]: the size the scan recorded for f
    Align,         \* sector alignment of the I/O, 1 when buffered
    UseValidData,  \* whether SetFileValidData is tried
    Faults,        \* which external calls may fail
    ErrorCap       \* errors kept for the report (64 in the code)

JobIds == 1..Len(Jobs)
FaultKinds == {"read", "short_read", "open_dst", "set_len", "write", "trim"}

ASSUME PoolAssumption ==
    /\ Workers # {} /\ IsFiniteSet(Workers)
    /\ Buffers # {} /\ IsFiniteSet(Buffers)
    /\ NoBuffer \notin Buffers
ASSUME PlanAssumption ==
    /\ Jobs \in Seq([file : Files, offset : Nat, len : Nat])
    /\ Size \in [Files -> Nat]
    /\ Align \in Nat \ {0}
    /\ \A f \in Files : \E j \in JobIds : Jobs[j].file = f
ASSUME OptionAssumption ==
    /\ UseValidData \in BOOLEAN
    /\ Faults \subseteq FaultKinds
    /\ ErrorCap \in Nat \ {0}

VARIABLES
    pc,            \* pc[w]: what worker w does next
    fellThrough,   \* fellThrough[w]: the other side was already tried
    buf, job,      \* the buffer and the job worker w holds (0: none)
    free, filled,  \* the rings
    arena,         \* arena[b]: what buffer b contains
    cursor,        \* jobs claimed so far
    remaining,     \* jobs not yet retired
    done,          \* done[f]: chunks whose write was attempted
    prepared, failed,
    disk,          \* disk[j]: what the range of chunk j contains at the destination
    eof,           \* eof[f]: length of the destination of f
    bytesWritten, filesDone, statErrors,
    errors,        \* number of messages kept
    main, sched,   \* the thread in run_bulk and the scheduler thread
    stop, shutdown

worker == <<pc, fellThrough, buf, job>>
rings  == <<free, filled, arena>>
claims == <<cursor, remaining>>
entry  == <<done, prepared, failed>>
dest   == <<disk, eof>>
report == <<statErrors, errors>>
stats  == <<bytesWritten, filesDone>>
control == <<main, sched, stop, shutdown>>
vars == <<worker, rings, claims, entry, dest, report, stats, control>>

FileOf(j) == Jobs[j].file
JobsOf(f) == {j \in JobIds : FileOf(j) = f}
Chunks(f) == Cardinality(JobsOf(f))
PaddedSize(f) == RoundUp(Size[f], Align)

\* What a buffer, or a chunk-sized range of a destination, contains.
\*   "junk"    a buffer nothing was read into yet
\*   "old"     the range as it was before the copy created the file
\*   "hole"    a range never written: zeros, or beyond the end of the file
\*   "stale"   sectors of earlier files, exposed by SetFileValidData
\*   "whole"   the chunk of job j
\*   "zeroed"  the chunk of job j, cut short and completed with zeros
\*   "dirty"   the chunk of job j, cut short and completed with what the
\*             buffer held before
DataKinds == {"whole", "zeroed", "dirty"}
Data(j, k) == [job |-> j, kind |-> k]
NoData(k) == [job |-> 0, kind |-> k]
Cells == [job : {0} \cup JobIds,
          kind : DataKinds \cup {"junk", "old", "hole", "stale"}]

Labels == {"loop", "tryRead", "waitFree", "claim", "read", "push",
           "tryWrite", "waitFilled", "check", "lock", "write", "recycle",
           "retire", "count", "finalize", "discard", "forfeit", "exited"}
-------------------------------------------------------------------------------
Init ==
    /\ pc = [w \in Workers |-> "loop"]
    /\ fellThrough = [w \in Workers |-> FALSE]
    /\ buf = [w \in Workers |-> NoBuffer]
    /\ job = [w \in Workers |-> 0]
    /\ free = Buffers
    /\ filled = <<>>
    /\ arena = [b \in Buffers |-> NoData("junk")]
    /\ cursor = 0
    /\ remaining = Len(Jobs)
    /\ done = [f \in Files |-> 0]
    /\ prepared = [f \in Files |-> FALSE]
    /\ failed = [f \in Files |-> FALSE]
    /\ disk = [j \in JobIds |-> NoData("old")]
    /\ eof = [f \in Files |-> 0]
    /\ bytesWritten = 0 /\ filesDone = 0 /\ statErrors = 0 /\ errors = 0
    /\ main = "joining" /\ sched = "running"
    /\ stop = FALSE /\ shutdown = FALSE

At(w, l) == pc[w] = l
Goto(w, l) == pc' = [pc EXCEPT ![w] = l]

\* Mutant: the list of messages is not capped.
Fail_Uncapped ==
    /\ statErrors' = statErrors + 1
    /\ errors' = errors + 1

\* `Shared::fail`: every failure is counted, the first ErrorCap are kept.
Fail ==
    /\ statErrors' = statErrors + 1
    /\ errors' = IF errors < ErrorCap THEN errors + 1 ELSE errors

\* Mutant: a worker that finds its side empty does not try the other one.
GiveUp_Stays(w, other) ==
    /\ Goto(w, "loop")
    /\ fellThrough' = [fellThrough EXCEPT ![w] = TRUE]

\* try_read or try_write returned false: fall through to the other side once,
\* then sleep and ask the scheduler again.
GiveUp(w, other) ==
    /\ Goto(w, IF fellThrough[w] THEN "loop" ELSE other)
    /\ fellThrough' = [fellThrough EXCEPT ![w] = TRUE]

-------------------------------------------------------------------------------
(* The worker loop. *)

PickSide(w) ==
    /\ At(w, "loop") /\ remaining > 0
    /\ \E side \in {"tryRead", "tryWrite"} : Goto(w, side)
    /\ fellThrough' = [fellThrough EXCEPT ![w] = FALSE]
    /\ UNCHANGED <<buf, job, rings, claims, entry, dest, report, stats, control>>

Exit(w) ==
    /\ At(w, "loop") /\ remaining = 0
    /\ Goto(w, "exited")
    /\ UNCHANGED <<fellThrough, buf, job, rings, claims, entry, dest, report, stats, control>>

(* try_read *)

AcquireFree(w) ==
    /\ pc[w] \in {"tryRead", "waitFree"}
    /\ \E b \in free :
        /\ free' = free \ {b}
        /\ buf' = [buf EXCEPT ![w] = b]
    /\ Goto(w, "claim")
    /\ UNCHANGED <<fellThrough, job, filled, arena, claims, entry, dest, report, stats, control>>

WaitFree(w) ==
    /\ At(w, "tryRead") /\ free = {}
    /\ Goto(w, "waitFree")
    /\ UNCHANGED <<fellThrough, buf, job, rings, claims, entry, dest, report, stats, control>>

\* A timed-out wait returns None without looking at the ring again.
AcquireTimeout(w) ==
    /\ At(w, "waitFree")
    /\ GiveUp(w, "tryWrite")
    /\ UNCHANGED <<buf, job, rings, claims, entry, dest, report, stats, control>>

ClaimJob(w) ==
    /\ At(w, "claim") /\ cursor < Len(Jobs)
    /\ cursor' = cursor + 1
    /\ job' = [job EXCEPT ![w] = cursor + 1]
    /\ Goto(w, "read")
    /\ fellThrough' = [fellThrough EXCEPT ![w] = FALSE]
    /\ UNCHANGED <<buf, rings, remaining, entry, dest, report, stats, control>>

\* Mutant: the early return forgets the buffer.
ClaimNothing_Leaks(w) ==
    /\ At(w, "claim") /\ cursor = Len(Jobs)
    /\ buf' = [buf EXCEPT ![w] = NoBuffer]
    /\ GiveUp(w, "tryWrite")
    /\ UNCHANGED <<job, rings, claims, entry, dest, report, stats, control>>

\* The cursor is past the last job (where it stands no longer matters): the
\* buffer goes back.
ClaimNothing(w) ==
    /\ At(w, "claim") /\ cursor = Len(Jobs)
    /\ free' = free \cup {buf[w]}
    /\ buf' = [buf EXCEPT ![w] = NoBuffer]
    /\ GiveUp(w, "tryWrite")
    /\ UNCHANGED <<job, filled, arena, claims, entry, dest, report, stats, control>>

\* Mutant: the failure is flagged but not reported.
ReadFails_Silent(w) ==
    /\ At(w, "read") /\ "read" \in Faults
    /\ failed' = [failed EXCEPT ![FileOf(job[w])] = TRUE]
    /\ Goto(w, "discard")
    /\ UNCHANGED <<fellThrough, buf, job, rings, claims, done, prepared, dest, report, stats, control>>

\* A failing open of the source and a failing read share one handler.
ReadFails(w) ==
    /\ At(w, "read") /\ "read" \in Faults
    /\ Fail
    /\ failed' = [failed EXCEPT ![FileOf(job[w])] = TRUE]
    /\ Goto(w, "discard")
    /\ UNCHANGED <<fellThrough, buf, job, rings, claims, done, prepared, dest, stats, control>>

\* A read fills what it was asked for or, when the source has shrunk since the
\* scan, less of it; no bytes at the end of the file are no failure.
ReadAt == {"all"} \cup (IF "short_read" \in Faults THEN {"short"} ELSE {})

\* Mutant: the slack after a short read is not zeroed.
ReadResults_Dirty(j) == {Data(j, IF got = "all" THEN "whole" ELSE "dirty") : got \in ReadAt}

\* What a read of job j leaves in a buffer: the part that was got, then zeros.
ReadResults(j) == {Data(j, IF got = "all" THEN "whole" ELSE "zeroed") : got \in ReadAt}

Read(w) ==
    /\ At(w, "read")
    /\ \E d \in ReadResults(job[w]) : arena' = [arena EXCEPT ![buf[w]] = d]
    /\ Goto(w, "push")
    /\ UNCHANGED <<fellThrough, buf, job, free, filled, claims, entry, dest, report, stats, control>>

\* Mutant: the reader also hands its buffer back.
PushFilled_Releases(w) ==
    /\ At(w, "push")
    /\ filled' = Append(filled, [buf |-> buf[w], job |-> job[w]])
    /\ free' = free \cup {buf[w]}
    /\ buf' = [buf EXCEPT ![w] = NoBuffer]
    /\ job' = [job EXCEPT ![w] = 0]
    /\ Goto(w, "loop")
    /\ UNCHANGED <<fellThrough, arena, claims, entry, dest, report, stats, control>>

PushFilled(w) ==
    /\ At(w, "push")
    /\ filled' = Append(filled, [buf |-> buf[w], job |-> job[w]])
    /\ buf' = [buf EXCEPT ![w] = NoBuffer]
    /\ job' = [job EXCEPT ![w] = 0]
    /\ Goto(w, "loop")
    /\ UNCHANGED <<fellThrough, free, arena, claims, entry, dest, report, stats, control>>

(* try_write *)

PopFilled(w) ==
    /\ pc[w] \in {"tryWrite", "waitFilled"} /\ filled # <<>>
    /\ filled' = Tail(filled)
    /\ buf' = [buf EXCEPT ![w] = Head(filled).buf]
    /\ job' = [job EXCEPT ![w] = Head(filled).job]
    /\ Goto(w, "check")
    /\ fellThrough' = [fellThrough EXCEPT ![w] = FALSE]
    /\ UNCHANGED <<free, arena, claims, entry, dest, report, stats, control>>

WaitFilled(w) ==
    /\ At(w, "tryWrite") /\ filled = <<>>
    /\ Goto(w, "waitFilled")
    /\ UNCHANGED <<fellThrough, buf, job, rings, claims, entry, dest, report, stats, control>>

PopTimeout(w) ==
    /\ At(w, "waitFilled")
    /\ GiveUp(w, "tryRead")
    /\ UNCHANGED <<buf, job, rings, claims, entry, dest, report, stats, control>>

\* prepare_destination, its unlocked look at `prepared`.
CheckPrepared(w) ==
    /\ At(w, "check")
    /\ Goto(w, IF prepared[FileOf(job[w])] THEN "write" ELSE "lock")
    /\ UNCHANGED <<fellThrough, buf, job, rings, claims, entry, dest, report, stats, control>>

\* CREATE_ALWAYS empties the file: its ranges become k.
Recreated(f, k) ==
    [j \in JobIds |-> IF FileOf(j) = f THEN NoData(k) ELSE disk[j]]

SetLen(f, bytes) == eof' = [eof EXCEPT ![f] = bytes]

\* What the ranges of a new file hold: SetFileValidData, which may fail and is
\* tried where the privilege allows it, takes the zeros away.
Unwritten == {"hole"} \cup (IF UseValidData THEN {"stale"} ELSE {})

\* prepare_destination under the `master` lock, where nobody else creates or
\* finalizes the file: the second look at `prepared`, ...
AlreadyPrepared(w) ==
    /\ At(w, "lock") /\ prepared[FileOf(job[w])]
    /\ Goto(w, "write")
    /\ UNCHANGED <<fellThrough, buf, job, rings, claims, entry, dest, report, stats, control>>

\* Mutant: the creation does not depend on the second look.
PrepareDestination_NoRecheck(w) ==
    LET f == FileOf(job[w])
    IN  /\ At(w, "lock")
        /\ disk' = Recreated(f, "hole")
        /\ SetLen(f, PaddedSize(f))
        /\ prepared' = [prepared EXCEPT ![f] = TRUE]
        /\ Goto(w, "write")
        /\ UNCHANGED <<fellThrough, buf, job, rings, claims, done, failed, report, stats, control>>

\* ... the creation, with or without SetFileValidData's help, ...
PrepareDestination(w) ==
    LET f == FileOf(job[w])
    IN  /\ At(w, "lock") /\ ~prepared[f]
        /\ \E k \in Unwritten : disk' = Recreated(f, k)
        /\ SetLen(f, PaddedSize(f))
        /\ prepared' = [prepared EXCEPT ![f] = TRUE]
        /\ Goto(w, "write")
        /\ UNCHANGED <<fellThrough, buf, job, rings, claims, done, failed, report, stats, control>>

\* ... and its two failures: no file is created, or it stays empty.
PrepareFails(w) ==
    LET f == FileOf(job[w])
    IN  /\ At(w, "lock") /\ ~prepared[f]
        /\ \/ "open_dst" \in Faults /\ UNCHANGED dest
           \/ "set_len" \in Faults /\ disk' = Recreated(f, "hole") /\ SetLen(f, 0)
        /\ Fail
        /\ failed' = [failed EXCEPT ![f] = TRUE]
        /\ Goto(w, "discard")
        /\ UNCHANGED <<fellThrough, buf, job, rings, claims, done, prepared, stats, control>>

\* This worker cannot open the destination: same handler as above.
OpenDstFails(w) ==
    /\ At(w, "write") /\ "open_dst" \in Faults
    /\ Fail
    /\ failed' = [failed EXCEPT ![FileOf(job[w])] = TRUE]
    /\ Goto(w, "discard")
    /\ UNCHANGED <<fellThrough, buf, job, rings, claims, done, prepared, dest, stats, control>>

\* Mutants: the failed write leaves the file unflagged, ...
WriteFails_Unflagged(w) ==
    /\ At(w, "write") /\ "write" \in Faults
    /\ Fail
    /\ Goto(w, "recycle")
    /\ UNCHANGED <<fellThrough, buf, job, rings, claims, entry, dest, stats, control>>

\* ... or is not reported.
WriteFails_Silent(w) ==
    /\ At(w, "write") /\ "write" \in Faults
    /\ failed' = [failed EXCEPT ![FileOf(job[w])] = TRUE]
    /\ Goto(w, "recycle")
    /\ UNCHANGED <<fellThrough, buf, job, rings, claims, done, prepared, dest, report, stats, control>>

\* A failed write does not return: the chunk is still counted in `done`.
WriteFails(w) ==
    /\ At(w, "write") /\ "write" \in Faults
    /\ Fail
    /\ failed' = [failed EXCEPT ![FileOf(job[w])] = TRUE]
    /\ Goto(w, "recycle")
    /\ UNCHANGED <<fellThrough, buf, job, rings, claims, done, prepared, dest, stats, control>>

\* The chunk's range gets what the buffer holds.
WriteAt(j, b) == disk' = [disk EXCEPT ![j] = arena[b]]

Write(w) ==
    /\ At(w, "write")
    /\ WriteAt(job[w], buf[w])
    /\ bytesWritten' = bytesWritten + Jobs[job[w]].len
    /\ Goto(w, "recycle")
    /\ UNCHANGED <<fellThrough, buf, job, rings, claims, entry, eof, report, filesDone, control>>

\* release_free, on the error paths ("discard") and after a write ("recycle").
ReleaseBuffer(w) ==
    /\ pc[w] \in {"discard", "recycle"}
    /\ free' = free \cup {buf[w]}
    /\ buf' = [buf EXCEPT ![w] = NoBuffer]
    /\ Goto(w, IF At(w, "discard") THEN "forfeit" ELSE "retire")
    /\ UNCHANGED <<fellThrough, job, filled, arena, claims, entry, dest, report, stats, control>>

\* Mutant: an error path leaves the job in `remaining`.
ForfeitJob_Uncounted(w) ==
    /\ At(w, "forfeit")
    /\ job' = [job EXCEPT ![w] = 0]
    /\ Goto(w, "loop")
    /\ UNCHANGED <<fellThrough, buf, rings, claims, entry, dest, report, stats, control>>

\* An error path ends here: the chunk will never be counted in `done`.
ForfeitJob(w) ==
    /\ At(w, "forfeit")
    /\ remaining' = remaining - 1
    /\ job' = [job EXCEPT ![w] = 0]
    /\ Goto(w, "loop")
    /\ UNCHANGED <<fellThrough, buf, rings, cursor, entry, dest, report, stats, control>>

RetireJob(w) ==
    /\ At(w, "retire")
    /\ remaining' = remaining - 1
    /\ Goto(w, "count")
    /\ UNCHANGED <<fellThrough, buf, job, rings, cursor, entry, dest, report, stats, control>>

\* Mutant: the value fetch_add returns, the old one, is compared.
CountDone_OldValue(w) ==
    LET f == FileOf(job[w])
    IN  /\ At(w, "count")
        /\ done' = [done EXCEPT ![f] = @ + 1]
        /\ IF done[f] = Chunks(f)
             THEN Goto(w, "finalize") /\ UNCHANGED job
             ELSE Goto(w, "loop") /\ job' = [job EXCEPT ![w] = 0]
        /\ UNCHANGED <<fellThrough, buf, rings, claims, prepared, failed, dest, report, stats, control>>

CountDone(w) ==
    LET f == FileOf(job[w])
    IN  /\ At(w, "count")
        /\ done' = [done EXCEPT ![f] = @ + 1]
        /\ IF done[f] + 1 = Chunks(f)
             THEN Goto(w, "finalize") /\ UNCHANGED job
             ELSE Goto(w, "loop") /\ job' = [job EXCEPT ![w] = 0]
        /\ UNCHANGED <<fellThrough, buf, rings, claims, prepared, failed, dest, report, stats, control>>

\* The failed trim is reported; the file counts as done all the same.
Finalize(w) ==
    LET f == FileOf(job[w])
    IN  /\ At(w, "finalize")
        /\ \/ SetLen(f, Size[f]) /\ UNCHANGED report
           \/ "trim" \in Faults /\ Fail /\ UNCHANGED eof
        /\ filesDone' = IF failed[f] THEN filesDone ELSE filesDone + 1
        /\ job' = [job EXCEPT ![w] = 0]
        /\ Goto(w, "loop")
        /\ UNCHANGED <<fellThrough, buf, rings, claims, entry, disk, bytesWritten, control>>

-------------------------------------------------------------------------------
(* The thread in run_bulk, and the scheduler thread's exit. *)

StopScheduler ==
    /\ main = "joining" /\ \A w \in Workers : At(w, "exited")
    /\ stop' = TRUE
    /\ main' = "stopping"
    /\ UNCHANGED <<worker, rings, claims, entry, dest, report, stats, sched, shutdown>>

ShutdownRings ==
    /\ main = "stopping"
    /\ shutdown' = TRUE
    /\ main' = "draining"
    /\ UNCHANGED <<worker, rings, claims, entry, dest, report, stats, sched, stop>>

SchedulerExit ==
    /\ sched = "running" /\ (stop \/ shutdown)
    /\ sched' = "exited"
    /\ UNCHANGED <<worker, rings, claims, entry, dest, report, stats, main, stop, shutdown>>

Return ==
    /\ main = "draining" /\ sched = "exited"
    /\ main' = "returned"
    /\ UNCHANGED <<worker, rings, claims, entry, dest, report, stats, sched, stop, shutdown>>

TryRead(w) ==
    \/ AcquireFree(w) \/ WaitFree(w) \/ AcquireTimeout(w)
    \/ ClaimJob(w) \/ ClaimNothing(w)
    \/ ReadFails(w) \/ Read(w) \/ PushFilled(w)

TryWrite(w) ==
    \/ PopFilled(w) \/ WaitFilled(w) \/ PopTimeout(w)
    \/ CheckPrepared(w) \/ AlreadyPrepared(w) \/ PrepareDestination(w) \/ PrepareFails(w)
    \/ OpenDstFails(w) \/ WriteFails(w) \/ Write(w)

Settle(w) ==
    ReleaseBuffer(w) \/ ForfeitJob(w) \/ RetireJob(w) \/ CountDone(w) \/ Finalize(w)

Worker(w) == PickSide(w) \/ Exit(w) \/ TryRead(w) \/ TryWrite(w) \/ Settle(w)
RunBulk == StopScheduler \/ ShutdownRings \/ Return

\* run_bulk has returned: nothing is left to do.
Finished == main = "returned" /\ UNCHANGED vars

Next == (\E w \in Workers : Worker(w)) \/ RunBulk \/ SchedulerExit \/ Finished

Spec == Init /\ [][Next]_vars

\* The operating system runs every thread again and again, and every wait in
\* the code has a timeout.
Fairness ==
    /\ \A w \in Workers : WF_vars(Worker(w))
    /\ WF_vars(RunBulk)
    /\ WF_vars(SchedulerExit)
FairSpec == Spec /\ Fairness
-------------------------------------------------------------------------------
(* Properties. *)

WorkersOK ==
    /\ pc \in [Workers -> Labels]
    /\ fellThrough \in [Workers -> BOOLEAN]
    /\ buf \in [Workers -> Buffers \cup {NoBuffer}]
    /\ job \in [Workers -> {0} \cup JobIds]
RingsOK ==
    /\ free \subseteq Buffers
    /\ filled \in Seq([buf : Buffers, job : JobIds])
    /\ arena \in [Buffers -> Cells]
ClaimsOK == cursor \in 0..Len(Jobs) /\ remaining \in Int
EntriesOK ==
    /\ done \in [Files -> Nat]
    /\ prepared \in [Files -> BOOLEAN]
    /\ failed \in [Files -> BOOLEAN]
DestOK == disk \in [JobIds -> Cells] /\ eof \in [Files -> Nat]
ReportOK ==
    /\ bytesWritten \in Nat /\ filesDone \in Nat /\ statErrors \in Nat
    /\ errors \in 0..ErrorCap
ControlOK ==
    /\ main \in {"joining", "stopping", "draining", "returned"}
    /\ sched \in {"running", "exited"}
    /\ stop \in BOOLEAN /\ shutdown \in BOOLEAN

TypeOK ==
    WorkersOK /\ RingsOK /\ ClaimsOK /\ EntriesOK /\ DestOK /\ ReportOK /\ ControlOK

\* Where a worker holds a buffer, and where a job.
HoldsBuffer == {"claim", "read", "push", "check", "lock", "write", "recycle", "discard"}
HoldsJob == {"read", "push", "check", "lock", "write", "recycle", "retire",
             "count", "finalize", "discard", "forfeit"}

\* What a worker holds follows from where it is.
Shape ==
    \A w \in Workers :
        /\ (buf[w] # NoBuffer) <=> (pc[w] \in HoldsBuffer)
        /\ (job[w] # 0) <=> (pc[w] \in HoldsJob)

InFlight == 1..Len(filled)
Holds(w) == buf[w] # NoBuffer

\* `Arena::ptr` is unsafe: its caller "must hold exclusive claim" to the
\* buffer.  A buffer is free, or held by one worker, or in one filled chunk,
\* on the error paths and on the path that finds no job left too.
BufferOwnership ==
    /\ \A w \in Workers : Holds(w) => buf[w] \notin free
    /\ \A v, w \in Workers : v # w /\ Holds(v) => buf[v] # buf[w]
    /\ \A i \in InFlight : filled[i].buf \notin free
    /\ \A i \in InFlight, w \in Workers : filled[i].buf # buf[w]
    /\ \A i, k \in InFlight : i # k => filled[i].buf # filled[k].buf

\* None is lost either: a leaked buffer would shrink the arena for the rest of
\* the run, and the last one would stop it.
NoBufferLeaked ==
    Buffers = free \cup {buf[w] : w \in {v \in Workers : Holds(v)}}
                   \cup {filled[i].buf : i \in InFlight}

\* The jobs that still count in `remaining`: unclaimed, held before their
\* retirement, or in the filled ring.
Retired == {"count", "finalize"}
Unretired ==
    {j \in JobIds : j > cursor}
    \cup {job[w] : w \in {v \in Workers : job[v] # 0 /\ pc[v] \notin Retired}}
    \cup {filled[i].job : i \in InFlight}

\* `remaining` is what the workers' loop stops on.  It counts exactly the jobs
\* left, whichever of the five exits of try_read and try_write each one took:
\* one decrement too few and no worker ever exits, one too many and they exit
\* with chunks still in the ring.
RemainingIsExact == remaining = Cardinality(Unretired)

Landed(j) == disk[j].kind \in DataKinds
FileLanded(f) == \A j \in JobsOf(f) : Landed(j)

\* Workers race to create a destination with CREATE_ALWAYS; the second look at
\* `prepared` under the lock is what keeps a late creation from emptying a
\* file into which a chunk was already written.
NeverUnwritten == [][\A j \in JobIds : Landed(j) => disk'[j] = disk[j]]_vars

\* What lies in a chunk's range came from that chunk's own read, into a buffer
\* nobody else refilled before the write, with no leftovers of an earlier
\* chunk in it.
OwnBytes ==
    \A j \in JobIds : Landed(j) => disk[j] \in {Data(j, "whole"), Data(j, "zeroed")}

\* files_done, which the report and the exit line compare with the plan,
\* never counts a file with a chunk missing, and in the end counts every
\* other one, although chunks are written in any order by any worker.
FilesCounted ==
    LET written == Cardinality({f \in Files : FileLanded(f)})
    IN  /\ filesDone <= written
        /\ main = "returned" => filesDone = written

\* The error of one chunk stays with its file: any file none of whose calls
\* failed is complete and has its exact length when run_bulk returns.
FailureIsolated ==
    main = "returned" =>
        \A f \in Files : failed[f] \/ (FileLanded(f) /\ eof[f] = Size[f])

\* README, Status: "a shortfall is never reported as success".  main.rs exits
\* with 0 exactly when no error was kept.
ShortfallReported ==
    main = "returned" /\ errors = 0 =>
        /\ \A j \in JobIds : disk[j] = Data(j, "whole")
        /\ \A f \in Files : eof[f] = Size[f]

\* README and file.rs on SetFileValidData: used only when "the range will be
\* fully overwritten".
ValidDataOverwritten ==
    main = "returned" => \A j \in JobIds : disk[j].kind # "stale"

\* The copy ends, whatever fails: no split of the workers, no empty or full
\* ring and no error path makes the threads wait for each other for ever.
Termination == <>(main = "returned")
-------------------------------------------------------------------------------
(* Refinement: the pipeline is an implementation of BulkCopy. *)

Working == {"read", "push", "check", "lock", "write"}
Open ==
    {j \in JobIds : j > cursor}
    \cup {job[w] : w \in {v \in Workers : pc[v] \in Working}}
    \cup {filled[i].job : i \in InFlight}

Counted(f) ==
    /\ done[f] = Chunks(f) /\ ~failed[f]
    /\ \A w \in Workers : ~(At(w, "finalize") /\ FileOf(job[w]) = f)

outcomeBar ==
    LET open == Open
    IN  [j \in JobIds |-> IF Landed(j) THEN disk[j].kind
                          ELSE IF j \in open THEN "open" ELSE "lost"]

Abstract == INSTANCE BulkCopy WITH
    ChunksOf <- [f \in Files |-> JobsOf(f)],
    outcome  <- outcomeBar,
    copied   <- {f \in Files : Counted(f)},
    reported <- statErrors > 0,
    returned <- main = "returned"

\* Every behaviour of the pipeline, seen through this mapping, is one that
\* BulkCopy allows.
RefinesBulkCopy == Abstract!Spec
===============================================================================
