# b2fc in TLA+

A verification project for b2fc, a bulk copier for Windows: a library
(`src/crates/b2c-engine`) and a thin command line (`src/crates/b2c-cli`).
Line numbers are those of the sources under `src/`; `PROJECT.json` maps every
definition that models code to its lines.

## 1. The system

A run scans the source, checks that the copy can work, moves the large ("bulk")
files through a pipeline of worker threads and one arena of buffers, copies the
small files with a pool of threads, optionally hashes both sides, and turns what
happened into an exit code.

| Component | State | Operations | Talks to |
|---|---|---|---|
| Planning (`Copier::new`, `device.rs`, head of `run_bulk`, `round_up`) | block size, alignment, the jobs and entries | choose the block, cut files into chunks | arena, pipeline |
| Rings (`rings.rs`) | free ring, filled ring, a condition variable each, `shutdown` | `acquire_free`, `release_free`, `push_filled`, `pop_filled`, `shutdown` | workers, scheduler (lengths) |
| Arena (`arena.rs`) | one allocation cut into buffers | `new`, with large pages or without; `ptr(i)`, unsafe: the caller must own buffer i | workers |
| Bulk pipeline (`worker`, `try_read`, `try_write`, `prepare_destination`, `finalize`, `run_bulk`) | job cursor, `remaining`, per file `done`, `prepared`, `failed`, the errors | claim, read, hand over, write, retire, count, finalize | rings, arena, files, scheduler |
| Adaptive scheduler (`scheduler.rs`) | `readers_target`, state, candidate and its count, `stop` | one turn per 100 ms | samples the rings; its target decides which side a worker tries first |
| Run and pools (`Copier::run`, `run_small`, `run_verify`, `main`) | phase, shared index, counters, `Outcome`, exit code | the phases in order | all of the above |
| Scanner (`scanner.rs`) | the stack of directories left; the plan: two lists, directories, total | walk, exclude, sort by size | run |
| Volumes, file layer (`win/volume.rs`, `win/file.rs`) | handles | queries and the latency probe, positioned I/O, `set_len`, valid data | everything that opens a file |
| Path forms (`win/mod.rs`) | none | `full_path` for the roots, `wide_path` for every open | everything that opens a file |
| Dashboard and ticker (`dashboard.rs`) | a thread and its `stop` flag | `spawn`, `finish` | `main`, which gives it the terminal and takes it back |
| Counters, progress | `Stats`, whether lines are on | atomic additions, notes | read only, except `files_done` |

What makes it hard:

- **Concurrency.** Every worker may read or write; buffers and chunks pass between
  workers through two rings; `remaining` decides when they all leave, `done`
  decides who finalizes a file, and a double-checked flag decides who creates it.
- **Failure.** Seven calls can fail, at any chunk, and each of five exits must give
  back the buffer, settle the job and leave the other files alone.
- **Ordering.** Chunks of a file are written in any order; the trim to the exact
  length must come after all of them.
- **Time.** Waits on the rings time out and the worker tries the other side, so a
  worker can give up on a ring that is refilled at the same moment; a push notifies
  after it gave the mutex back, and whoever comes between may take the buffer.
- **Boundaries.** Empty files, files of exactly one block, the last ragged chunk
  padded to a sector, a 32-bit chunk length.

What correctness means, component by component: nobody shares a buffer and none is
lost, the buffers lie apart within the allocation, no wake-up is lost and every call
returns (arena, rings); every job is settled once and `remaining` counts the rest
(pipeline); what lands is the chunk's own and stays (pipeline, destination);
counts, errors and exit code tell the truth (pipeline, run); the bulk copy and the
run end (pipeline, run); the chunks tile the files and their padding harms nobody
(planning); a seeking disk is recognised (devices); the plan is what the walk can
get to, once, and each directory comes after its parent (scanner); a file is opened
where the root above it was meant (path forms); the terminal has one voice and the
summary names the shortfall (dashboard, `main`); both sides keep a worker, one noisy
sample does nothing, and the controller gets where it is going (scheduler).

## 2. The modules

| Module | Models | Remarks |
|---|---|---|
| `ChunkPlan` | `round_up` and the arithmetic of one file's chunks | operators only |
| `DeviceProfile` | alignment, class, block size and depth of a volume | operators only |
| `JobPlanner` | block size, arena and the planning loop, over all small plans | uses `ChunkPlan` and `DeviceProfile` |
| `PathForm` | the two forms of a path and what Win32 makes of each | operators only |
| `GlobMatch` | the loop of `glob_match`, and what a pattern means | operators only |
| `Scan` | the walk of the source tree and the plan | uses `GlobMatch` and `PathForm` |
| `BulkPipeline` | the pool of workers, rings, destination, `run_bulk`'s thread, the scheduler thread's exit | the core |
| `Rings` | the rings' condition variables, timeouts and notifications | the workers reduced to what they do with a buffer |
| `BulkCopy` | what `run_bulk` promises its caller | abstract; `BulkPipeline` implements it |
| `Scheduler` | one turn of the controller, `stop`, bounds | with the scheduler's inputs open |
| `CopyRun` | `main` from its options to its exit code, the progress thread, phases of `run`, both pools | has `BulkCopy` for its bulk phase |
| `BulkPipelineProofs`, `BulkOutcomeProofs` | theorems about `BulkPipeline`, the second building on the first | |
| `BulkCopyProofs`, `SchedulerProofs`, `RingsProofs`, `CopyRunProofs`, `JobPlannerProofs` | theorems about those five modules | `CopyRunProofs` has `BulkCopyProofs` for the promise of its bulk phase |
| `ScanProofs` | theorems about `Scan`, `GlobMatch` and `PathForm` | |
| `MCBulkPipeline`, `MCJobPlanner`, `MCScan`, `MCCopyRun` | instances for TLC | `Scheduler` and `Rings` are run directly |

Operators named `X_Something`, placed before `X` under the word "Mutant", are wrong
versions of `X` that a plausible bug would produce. No specification uses them; each
shows that some property depends on `X` being as it is.

### BulkPipeline

`pc[w]` is where worker w stands in `worker`/`try_read`/`try_write`; `buf[w]` and
`job[w]` are the buffer and chunk it holds in local variables. `free`, `filled`,
`cursor`, `remaining`, `done`, `prepared`, `failed`, `statErrors`, `errors`,
`bytesWritten`, `filesDone`, `stop` and `shutdown` are the fields of the same
meaning in `Rings`, `Shared`, `Entry` and `Stats`. `arena[b]` says which chunk's
bytes buffer b contains, `disk[j]` what chunk j's range of the destination contains,
and `eof[f]` is the length of f's destination.

A step is one access to shared state, in the order of the code:

- `PickSide`/`Exit`: the head of the loop, which ends when `remaining` is 0.
- `AcquireFree`, `WaitFree`, `AcquireTimeout`, `ClaimJob`, `ClaimNothing`,
  `ReadFails`, `Read`, `PushFilled`: `try_read`.
- `PopFilled`, `WaitFilled`, `PopTimeout`, `CheckPrepared`, `AlreadyPrepared`,
  `PrepareDestination`, `PrepareFails`, `OpenDstFails`, `WriteFails`, `Write`:
  `try_write` and `prepare_destination`, with the unlocked look at `prepared` and
  the one under the lock as separate steps.
- `ReleaseBuffer`, then `ForfeitJob` on an error path or `RetireJob`, `CountDone`,
  `Finalize` after a write: the ends of both functions.
- `StopScheduler`, `ShutdownRings`, `Return`, `SchedulerExit`: the end of `run_bulk`.

Abstractions, and why they lose nothing the properties tell apart:

- *Which side first.* `readers_target` is replaced by a free choice at every turn of
  the loop. Every split the scheduler may choose is among the choices, so what is
  checked holds under any scheduler.
- *Rings as atomic queues.* Each operation runs under the ring's mutex. The free
  ring is a stack in the code and a set here, which allows more behaviours. What the
  mutex does not cover, the waits and notifications, is the subject of `Rings`, where
  `RingsKeepBuffers` proves that they lose no buffer and hand none out twice.
- *Creation under the lock* is one step: only holders of the same lock create or
  finalize, and nobody writes a file before it is `prepared`.
- *Handles.* A worker's cached handle only decides whether an open that may fail
  happens; a failing open of the source shares its handler with a failing read, one
  of the destination with a failing creation.
- *The file layer* is four operators, `ReadAt`, `WriteAt`, `SetLen` and `Unwritten`
  (`win/file.rs`): what a read delivers at and beyond the end of the source, what a write
  leaves, what a new length cuts off or exposes, and what `SetFileValidData` exposes.
- *Data* is what a chunk's range holds: the chunk, the chunk completed with zeros,
  the chunk with leftovers, a hole, exposed old sectors, or what was there before.
- Left out: stall counters, `bytes_read`, timestamps and attributes, worker panics.
- Memory order: steps are sequentially consistent. The `Relaxed` operations on
  `failed` and the counters are weaker than that in the code.

### BulkCopy

Each chunk is open, then whole, zeroed or lost, once; a loss is reported; a file is
counted after all its chunks landed; the call returns when nothing is open and
every file that lost no chunk is counted. The refinement mapping at the end of
`BulkPipeline` reads `outcome` off `disk` and the chunks still in somebody's hands,
`copied` off `done`, `failed` and the finalizing workers, `reported` off
`statErrors`.

### Rings

A worker's turn on the rings, with a step for each thing that happens outside the
mutex: `Sleep` enters the wait set, `TimeOut` leaves it with nothing and falls through
to the other ring, `Push` and `Notify` are apart, and a woken caller competes for the
mutex with everybody else (`Take` or, if the ring is empty again, `Sleep` for the whole
time again). A notification wakes at least one sleeper and may wake more, as `notify_one`
of the platform may. What a claimed chunk holds is left out: a worker with a buffer hands
it over, gives it back, or releases it. `shutdown` is left out, because `run_bulk` calls it
when the workers are joined. Wake-ups that nobody caused are left out too; the code asks
again after one, and it would show as a caller that sleeps again.

### DeviceProfile and JobPlanner

A volume is what the operating system says of it: sector, sectors per cluster, the
disk of each extent; a disk is its answers about seek penalty and bus and the times of
the probe's reads. `Class` is `classify`; the first disk speaks for the volume.
`Ascending` is `sort_by`: some order in which the times ascend, of which the proofs show that
there is one.

`JobPlanner` starts from two volumes. The two nested loops, one push per step, with the block size as `Copier::new`
rounds it and the `as u32` cast of a chunk's length as `% 2^LenBits`. A block size
of 0 is a division by it, first in `run_bulk`'s message about the arena (`Panic`). `IoAlignment` is
the alignment that `run_bulk` shares, 1 without unbuffered I/O. `Init` also sizes the arena from `--ram` or
the free memory; `Allocate` is `Arena::new` with whichever pages it gets, `AllocateFails`
its error, `BufferAt` is `ptr`. `PageAssumption` is the comment at the head of `arena.rs`:
pages are aligned to the sectors of every volume. `UnitAssumption` is what `alignment` and
`Copier::new` take for granted when they use the larger of two units for both: it is a multiple
of the smaller, as powers of two are.

### PathForm

A path is its root (drive, share, none) and its parts as they stand between
separators, with doubled and trailing ones as empty parts. A part is a sequence of character
codes, an unpaired surrogate one of them. `After`, `Resolved`, `Trailing` and
`FullPath` are what `GetFullPathNameW` does, `EntryPath` joins the names on the way to an entry,
`WidePath` is the prefix and the test in front of it, `CreateFile` what `CreateFileW` makes of the
result, and `Lossy` what `to_string_lossy` makes of a name. `Meant` is what Win32 makes of a root
by itself; `OpensWhatWasMeant(root, names)` says that all of this together opens what lies at `names`
below it, with the prefix. `PathAssumption` gives the roots and the working directory their types.
Paths given with a `\\?\` or `\\.\` prefix of their own are left out.

### Scan

`stack` and `entries` are the two loops of `scan`; `OpenDir` pops a directory, and each
of `EntryFails`, `Exclude`, `SkipLink`, `PushDir`, `PushFile` is what becomes of one
entry. Patterns are tried on the lossy copy of a name (`Excluded`). The order of entries is free, as it is for `read_dir`. `Listing` follows a link
that it is given, as `read_dir` does, so that only `SkipLink` keeps the walk out of one.
`Loop` is the loop of `glob_match`, a recursive function of its four local variables (a `Place`),
and `Matches` says without it what a pattern means. `lost` and `unsized` remember what a
failure hid, for the properties. An entry of the source volume is its path, a destination is
a path too, so the two can be compared. `TreeAssumption` says what a tree is: every entry but
a root lies in a directory, a link leads to an entry, and no name holds a star, which Windows
forbids. `NameAssumption` says that `read_dir` hands out neither `.` nor `..`. `source` and `dst` are
where the roots lead, however they were typed; `Ways` are the ways from one entry of the tree down
to another, and `PathsOpenRight` asks of every bulk file planned that its way below the source, and its
target's below `dst`, is one of `RightWays`: those that lead to what was meant from every root in
`TypedRoots`.

### Scheduler

`Tick(free, filled, slump)` is one turn of the loop: what is indicated, the
hysteresis, the new target, the clamp. The occupancies and the outcome of the
rate comparison are inputs, any of their values at every turn: the two rings are
read one after the other while workers run, so no relation between the readings
may be assumed. `seen` remembers the last two indications for the properties, and `beat` makes every
turn a step, so that fairness is about turns and not about changes.

### CopyRun

`phase` walks through `main` and `Copier::run`: options (`Reject`, `Accept`), the thread that
shows progress (`ShowProgress`), the checks, any of which may refuse the run before data
moves, the phases, and `StopProgress`, `JoinProgress`, `Report`. The bulk phase is an
instance of `BulkCopy`; `CollectBulk` turns its outcome into what lies at the
destinations. Both pools are the threads of `run_small` and `run_verify` taking indices
from a shared counter. `Dashboard` and `Ticker` are the two forms of the progress thread,
of which only the end matters here; `lines` is `progress::set_enabled`, `missing` the
number behind INCOMPLETE.

## 3. The runs

| Run | Instance | What it shows |
|---|---|---|
| `bulk_safety` | 3 workers, 2 buffers, files of 2 and 1 chunks; reads, short reads, writes fail | types; `BufferOwnership`, `NoBufferLeaked`, `RemainingIsExact`; `OwnBytes`, `NeverUnwritten`; `FilesCounted`, `FailureIsolated` |
| `bulk_ends` | 2 workers; every call fails but the short read, which is `bulk_short_read`'s; fair threads | `Termination`; `ShortfallReported`; `RefinesBulkCopy` |
| `bulk_short_read` | a source that shrinks | `ShortfallReported` fails |
| `bulk_stale` | valid data set, a read fails | `ValidDataOverwritten` fails |
| `rings` | 3 workers, 2 buffers, 3 chunks; fair workers | `NoLostWakeup`, `CallsReturn` |
| `planner` | one or two files of 0 to 17 MiB between any two of nine volumes on seven disks, clusters of 1 to 16 MiB, blocks as profiled or given, memory given or found, large pages or not | `ChunksTileFiles`, `PaddingIsHarmless`, `BuffersFit`, `SpindleRecognised` |
| `planner_wide_block` | a block as wide as the length field | `ChunksTileFiles` fails |
| `scan` | a tree of eight entries with a link to its root, or one file; patterns of up to three characters, and longer ones; every failure; roots of up to three parts typed in every form | `PlanIsExact`, `WalkedOnce`, `DirectoriesReady`, `GlobIsRight`, `PathsOpenRight` |
| `scan_onto_itself` | a file copied into its own directory | `SourceKept` fails |
| `scheduler` | pools of 2, 3, 5, 8; depths 1, 2, 4, 12; shared spindle or not; fair | `BothSidesAlive`, `TwoIndications`, `OneWorkerPerSample`, `SettlesOnSplit`, `StarvationAnswered` |
| `sched_depth` | 16 workers, two devices of depth 2 | `DepthRespected` fails |
| `copy_run` | 2 bulk and 2 small files, 2 pool threads, with and without `--verify`, `--dry-run` and `--json`, a dashboard, a ticker or neither; fair | `ExitCodeTellsTruth`, `ShortfallIsNamed`, `OneVoice`, `RunEnds` |

`RefinesBulkCopy` is checked without short reads, so the `zeroed` outcome of `BulkCopy` is
reached in no refinement run; `bulk_safety` has it under `OwnBytes`.
`FailureIsolated` is checked without failing trims: the code keeps the error of a trim and
does not set the file's `failed`, so that only `ShortfallReported` speaks of it.
`ExitCodeTellsTruth` asks for destinations equal to their sources only under
`--verify`; without it a file completed with zeros counts as complete, the shortfall
that `bulk_short_read` shows.

### Bounds, and why they are enough

- *Workers, buffers.* Three workers allow two to race for a creation, a buffer or the
  last `done` while a third holds what they need. Two buffers (the code has at
  least 4) are fewer than the workers, so both rings run empty and full. Where two
  workers suffice for a race of two, two are used.
- *Files and chunks.* A file of two chunks has a first and a last one, in either
  order; a second file of a single ragged chunk is the one that must not be hurt.
- *`ErrorCap`* is 1 (64 in the code), so that the list is full after one error and a
  second is counted but not kept.
- *`FileSizes`, `Volumes`, `BlockOptions`, `LenBits`*: every relation of a size to the
  block (empty, below, equal, one above, several blocks and a rest), and of the block
  to the two alignments (one of them coarser than every class's block). `LenBits` is 5
  (32 in the code), wide enough for every block of `planner`, and as wide as the block
  in `planner_wide_block`. A unit is a mebibyte, so `MinAlign` is below it and 1.
  `ProbeReads` is 4 (16): all slow, mixed, one slow, too few. Sectors are 1 or 2, a page 2
  and a large page 4, so that an arena may need rounding.
- *The arena's memory.* `ArenaFloor` 12 and `ArenaCap` 30 stand for 256 MiB and 8 GiB:
  of `Available` 40 and 400 a quarter is below the one and above the other, and `RamOptions`
  has a value that holds fewer than four blocks. Most blocks do not divide them.
- *`Buffers` and `JobCount`* of `rings`: fewer buffers than workers and more chunks than
  buffers, so that both rings have sleepers, up to two at once, and are refilled while one
  of them times out.
- *Typed roots* of `PathsOpenRight` have up to three parts out of a name, one with an unpaired
  surrogate, `.`, `..` and the empty one; the working directory has two parts. The ways below them
  are those of the tree, of up to two names, one of them with a surrogate.
- *The tree* of `scan` has an empty directory, directories at two depths and two beside
  each other, files above, at and below the threshold, and a link back to the root. Its
  names and the texts of `GlobIsRight` (up to four characters) are matched by stars that
  take nothing, that must go back, and that end a pattern.
- *`Capacity`* of 9 buffers puts one buffer below the 12% mark and two above it.
- *`MaxStreak`* of 3 bounds `candidate_count`: only whether it reaches 2 matters.
- *Symmetry* permutes workers and buffers, in runs without liveness only.

### Fairness, and why the code justifies it

- Each worker, `WF(Worker(w))`: the operating system runs every thread, every wait
  on a ring has a timeout (`rings.rs:71`, `:97`), and a worker that found nothing
  sleeps for a bounded time and asks again. No single action is fair: a free choice
  of side may go wrong for ever, and the fall-through is what makes progress.
- `WF(RunBulk)`, `WF(SchedulerExit)`, `WF(Controller)`: threads that only join, set a
  flag, or sleep 100 ms between turns.
- `Rings`: each worker as a whole, its timeouts included, since `wait_timeout` gives up by
  itself. A timed-out waiter leaves the wait set at once. The mutex needs no fairness of
  its own: `CallsReturn` holds although others may always come first, because a caller
  that is passed over sleeps and times out, and one that is woken for nothing each time
  is so only while others still have chunks to move, which are finitely many.
- `CopyRun`: the main thread, the bulk phase, each pool thread and the progress thread,
  whose loop looks at its flag between bounded sleeps. That the bulk phase makes progress
  is `Termination` of the pipeline.
- External calls are assumed to return, with success or failure.

### Findings

Each is a run that TLC must find violated:

1. `bulk_short_read`: a source that shrank after the scan is completed with zeros,
   counted as copied and reported as success (`engine.rs:639`). The README says a
   shortfall is never reported as success. Only `--verify` notices.
2. `bulk_stale`: `SetFileValidData` covers the whole file before any chunk was read;
   a chunk that then fails leaves its range valid and unwritten (`engine.rs:731`),
   and the file is not removed or cut. `file.rs` requires the range to be overwritten.
3. `planner_wide_block`: a block of 2^32 bytes makes every full chunk's `len` 0.
4. `sched_depth`: with more workers than both depths together, which 16 default
   workers between two hard disks are, the clamp gives up the depth it is meant to
   respect.
5. `scan_onto_itself`: source and destination are never compared (`engine.rs:140`). A file of
   several chunks copied into its own directory is created anew while it is the source: it is
   emptied, its later reads come short and are completed with zeros, and the run exits with 0.
   A file of one chunk is in memory before it is emptied, and is lost only if its write fails.

Seen while modelling, without a run of their own: a file whose chunk failed is never
finalized and keeps its padded length (`engine.rs:701`); a file whose trim failed
counts as copied, and only the error tells (`engine.rs:748`); `--qd 0` makes the lower
bound of the readers the whole pool (`scheduler.rs:153`), which the fall-through in
`worker` survives; the burst mode keeps a mixed split while both rings are mid-range
(`scheduler.rs:255`); the scheduler's first turn may move several workers
(`scheduler.rs:277`); an unreadable directory is noted and the run may still exit
with 0 (`scanner.rs:81`); a single file's size is not added to the total the
free-space check uses (`scanner.rs:59`); a name on a share that is not Unicode is opened
under another name (`win/mod.rs:106`); a volume spanned over several disks is classed
by the first (`device.rs:91`).

## 4. The theorems

TLC checks the instances above. The theorems hold for every pool, arena, plan,
alignment, file and set of faults that satisfies the assumptions of the module, which say
no more than that pools, arenas and plans are finite, the first two not empty, that jobs name
files of the plan and every file has one, that the limits are natural numbers, what
`PageAssumption` and `UnitAssumption` say of the hardware, and what `TreeAssumption`,
`NameAssumption` and `PathAssumption` say of a tree, its names and the typed roots. Those of
`BulkPipeline` about plan, alignment and buffers are not taken on trust: `PlanFitsPipeline` proves that
what `JobPlanner` hands over meets them.

| Theorem | States | Argument |
|---|---|---|
| `TypeCorrect` | `[]TypeOK` of `BulkPipeline` | with `Shape`: a worker holds a buffer, or a job, exactly at the places where the code has one in a local variable |
| `BuffersOwned`, `BuffersKept` | `[]BufferOwnership`, `[]NoBufferLeaked` | both inductive once `Shape` is known; `BufferMoves` names the five actions that move a buffer, all others are one case |
| `RemainingCounts` | `[]RemainingIsExact` | `JobsApart`: a job is in one place only; `RetirementOnly`: only a retirement changes the set counted, and takes out one element |
| `BytesAreOwn` | `[]OwnBytes` | `BytesInv`: from its read to its write a chunk's buffer contains the chunk; a read can break that for another chunk only by sharing a buffer, which `BuffersOwned` excludes |
| `LandedForGood` | `NeverUnwritten` | `LandingInv`: whoever is about to write found the file prepared, what landed lies in a prepared file, and no chunk in anybody's hands has landed |
| `FilesCountedRight`, `FailuresStayApart`, `UnflaggedLanded` | `[]FilesCounted`, `[]FailureIsolated`, and that a returned pipeline flagged every file it did not copy | `OutcomeInv`, below |
| `NoErrorNoShortfall` | `[]ShortfallReported` | `OutcomeInv`: each flag was reported, and what carries no flag landed whole |
| `WorkStaysInReach` | that while jobs remain nobody has left, and a job is in a worker's hands, in the filled ring, or unclaimed with a buffer to read it into | `OutcomeInv`: what `remaining` counts is in one of three places, and a buffer that is neither free nor filled is in the hands of somebody who moves on |
| `ImplementsBulkCopy` | `RefinesBulkCopy` | `AbstractStep`: under `OutcomeInv` each action settles or counts as `BulkCopy` allows, or changes nothing it can see |
| `PromiseKept`, `SettledForGood` | `BulkCopy`'s `[]Promise` and `SettledOnce` | `SettledInv`: unreported means nothing is lost, returned means nothing is open or uncounted |
| `RunTyped`, `VoiceApart`, `ExitCodeTrue`, `ShortfallTold` | `[]TypeOK`, `[]OneVoice`, `[]ExitCodeTellsTruth`, `[]ShortfallIsNamed` of `CopyRun` | `RunInv`, below |
| `RingsTyped`, `NoWakeupLost` | `[]TypeOK`, `[]NoLostWakeup` of `Rings` | inductive together: a push puts one thread on the way, a take removes the buffer with the thread, a notifier is replaced by the sleeper it wakes, and who begins to wait found the ring empty. `Fit`: the chunks left are those to be read, filled, or in somebody's hands |
| `RingsKeepBuffers`, `BuffersComeBack` | that a buffer lies in a ring or in one worker's hands, in one place only, and that all are in the free ring when the last worker has left | `KeptInv`: hands are empty outside `claim` and `write` (`HandsFit`); `TakeMoves`: either end of a ring gives up one buffer and moves the rest by a constant |
| `SchedulerTyped`, `SidesStayAlive` | `[]TypeOK`; `[]BothSidesAlive`, if no depth is 0 | `TargetInv`: from the first turn on the target is within its bounds (`BoundsInside` puts those strictly inside the pool), before it the even split is |
| `NoiseIsFiltered` | `TwoIndications` | `HysteresisInv`: the candidate is the last indication |
| `SplitMovesByOne` | `OneWorkerPerSample` | `BoundedNear`: clamping a target one away from a value within the bounds stays one away; two devices never commit the burst state |
| `DepthsUnlessPoolTooLarge` | when `DepthRespected`, which `sched_depth` refutes, does hold | in a pool no larger than both depths the bounds do not cross |
| `ChunksTile` | `[]ChunksTileFiles`, if the block is below 2^`LenBits` | `RunsInv`: the jobs of each file are consecutive, as many as were pushed, and each the chunk of its place; `ChunksMeet`: one ends where the next starts |
| `PaddingHarmless`, `BuffersInside` | `[]PaddingIsHarmless`, `[]BuffersFit` | `RoundUpRounds` and `RoundUpLeast`: `round_up` yields the least multiple, and a block is one of every alignment in play |
| `PlanFitsPipeline` | the assumptions of `BulkPipeline` on `Jobs`, `Size`, `Align` and `Buffers`, of a planner that is ready | `RunsInv`: every file of the plan has jobs and every job a file of the plan; `ArenaInv`: the arena has four buffers at least |
| `SpindlesRecognised` | `[]SpindleRecognised` | `SomeOrder`: times can be put in ascending order; `MedianCounts`: the slow ones are those from some place on, and the median is among them if they are half |
| `PatternsMean`, `GlobRight` | that `Globs` is `Matches` for every pattern and name; `[]GlobIsRight` of `Scan` | `LoopsAreDefined`: the loop's function exists, since each turn lowers what is left to do; `LoopRuns`: so it obeys its equations; `LaterStart`, `HopeStays`, `LoopIsFits`: a text that a pattern fits from the place left at an earlier star, it fits from the last one too |
| `ScanTyped`, `PlanExact`, `WalksEachOnce`, `DirsReady` | `[]TypeOK`, `[]PlanIsExact`, `[]WalkedOnce`, `[]DirectoriesReady` of `Scan` | `ScanInv`, below |
| `FilesOpenRight`, `OpensRight` | that `OpensWhatWasMeant` holds for every root and all names; `[]PathsOpenRight` of `Scan` | below, *Paths* |
| `SourceSpared` | when `SourceKept`, which `scan_onto_itself` refutes, does hold | with `ScanInv`: whatever is planned goes to the destination or below it, and what is read lies at the source or below it; of two paths on one way the longer passes through the shorter (`OnOneWay`) |

### The three large invariants

`OutcomeInv` of `BulkOutcomeProofs` ties the counters of the pipeline to what lies on the
disk. A file's `failed` is set exactly when a chunk of it was lost (`FailedIffLost`). `done[f]`
never exceeds the number of f's chunks that are past `CountDone` or an error path, and is that
number while f is not flagged (`DoneCounts`). So `done` is full only if every chunk landed, one
worker finds it full, and it alone finalizes the file (`FinalizedOnce`); `files_done` counts
those files (`FilesDoneCounts`). Each flag was reported (`ErrorsReported`), and
workers leave only when nothing remains (`EndsSettled`), which is why every file is flagged
or counted at the return. It contains the invariants of the other two modules, because what
is counted must hold its own bytes in a buffer of its own.
Hypotheses stand where the code has an exception:

- `FailuresStayApart` assumes that no trim fails, because a failed trim flags no file;
- `NoErrorNoShortfall` assumes that no source comes short, because a short read is completed
  with zeros (finding 1);
- `SidesStayAlive` and `DepthsUnlessPoolTooLarge` assume depths above 0, as the runs' are, which
  `--qd 0` is not: its split puts every worker on one side;
- `SourceSpared` assumes that a source directory and its destination lie beside each other, and
  that a source file goes neither onto itself nor into its own directory (finding 5).

`RunInv` of `CopyRunProofs` is the account of a whole run: what each phase may assume of the
phases before it (`OrderInv`, `QuietInv`), that the bulk phase keeps the invariant of `BulkCopy`
until its outcome is collected (`PipelineInv`, `BulkInv`), that whatever a pool handed out is
with one thread, went well or left an error (`PoolInv`, `SmallInv`, `VerifyInv`), that `files`
is the number of files that arrived (`CountInv`), and that the exit code and the
number the summary names follow from these (`ExitInv`). Together with `ImplementsBulkCopy`, which puts the pipeline in the place of
`BulkCopy`, it ties the exit code to the chunks on the disk.

`ScanInv` of `ScanProofs` is nothing planned before the walk, `WalkInv` during it, and what the plan
promises after it. `WalkInv` is the loop invariant of `scan`: the planned directories mirror
directories below the source, each once (`DirsMirror`), those on the stack are among them with
the right target (`StackMirrors`), what is left of the open directory belongs to it
(`HereIsOpen`), and the tasks mirror files, each once, in the list for their size and with the
total of their sizes (`TasksMirror`). The last two parts say that the walk forgets nothing:
what was found was in a directory that was opened and was neither lost nor excluded
(`FoundIsOpen`), and in a directory that was opened every other entry is a link, excluded, lost
or still to come (`OpenIsFound`). When stack and entries are empty, an induction over the length of
a path (`FoundIsSeen`) turns these into "found exactly when it can be got to". Nobody's mirror
collides, since `MirrorTellsApart` recovers the source path from the target. `PrefixComesFirst`
is why a sorted list has parents before their children. The proofs were preceded by a run of TLC with
`ScanInv` as an invariant of the instance of `scan`.

Names are lists of natural numbers in these theorems, and `Lower` folds the 26 letters of
ASCII; what `to_lowercase` makes of others, which may be more than one letter, is left out.

### Paths

`FilesOpenRight` follows a root through the code. `GetFullPathNameW` keeps what is meant and leaves
names, with one trailing separator at most (`ResolvedIsNames`, `FullPathIs`). `join` takes that
separator off before the first name and finds none afterwards (`WithoutTrail`, `EntryPathIs`), so the
path of an entry is canonical (`CleanPath`) and gets the prefix, behind which its parts are taken as
they stand. `to_string_lossy`, which a UNC path goes through, changes no Unicode name
(`LossyKeeps`); other names on a share are the exception that `OpensWhatWasMeant` makes. `OpensRight`
takes this to the plan: by `ScanInv` a target mirrors its source, so both have the same way below
their roots (`MirrorWay`), and it is made of names, by `NameAssumption`. A source that is a file has
no way below itself, and its target has none or its own name (`FileOpensRight`).

### Induction

The library's induction theorems take an operator, which the provers cannot instantiate. The
proofs about `JobPlanner` and `Scan` therefore start from the well-foundedness of `<` on the natural
numbers, which is stated of a set of pairs: `LeastMember` finds the least member of a set,
`Induction` follows with a set in the place of a predicate. In `ScanProofs` it gives that the
functions defined by recursion exist: the loop of `glob_match` over what is left to do
(`LoopsAreDefined`), and the library's fold behind `MapThenSumSet` over the size of the set, where
the order of the summands does not matter (`SumsDefined`, `SumsExchange`); and the walks over the parts of a path
behind `Resolved` and `EntryPath` (`WalksAreDefined`, `AlikeToTheEnd`).

### What stays with TLC

Liveness under fairness and everything about ENABLED: `Termination`, `CallsReturn`, `RunEnds`,
`SettlesOnSplit`, `StarvationAnswered`. Every other property of a passing run is stated by a theorem.
Of `Termination` the theorems have the part that is safety: `WorkStaysInReach`, nobody waits for
what nobody can give, and `RemainingCounts`, the loop ends neither early nor late. That a worker
in whose reach work is gets to it is fairness.

`RemainingCounts` leaves `remaining` an integer in `TypeOK`: that it is never negative
is a consequence of the theorem, not of its type.

## 5. What is not modelled

- The `Relaxed` orderings. Every step is sequentially consistent. Planned.
- A second `run` of one `Copier`, whose stop flag and counters survive. Planned; the command
  line runs one.
- Panics of workers; `shutdown` while a caller waits, which `run_bulk` never does.
- The queries of `volume.rs`, `privileges.rs`, `mem.rs`: one-shot calls of the operating
  system, whose results are constants here. The product of block and buffer count, which the
  code does not check against the machine's width.
- Rates and averages (`stats.rs`): floating-point arithmetic, open in `Scheduler`.
- `progress.rs`, `fmt.rs`, `error.rs` and what `dashboard.rs` draws: wording and drawing.

## 6. The plan

Done, in this order: `BulkPipeline` with its runs; `BulkCopy` and the refinement;
`JobPlanner`; `Scheduler` and `CopyRun`; `Scan`, `GlobMatch` and `DeviceProfile`; `Rings`,
`PathForm`, the arena of `JobPlanner`, the progress thread and summary of `CopyRun`. Left:

1. Composition of `Scheduler` and `BulkPipeline` through `readers_target` and the ring
   lengths; a second `run` of one `Copier`.
2. `failed` under relaxed ordering: which of the code's orderings `FilesCounted` needs.
3. That the pool of `CopyRun` is handed what `PlanExact` says of the plan.
