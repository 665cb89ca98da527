------------------------------ MODULE JobPlanner ------------------------------
(***************************************************************************)
(* How `Copier::new` chooses the block size from the two devices and the   *)
(* arena's from the memory there is, how `Arena::new` allocates it, and    *)
(* how the loop of `run_bulk` turns the bulk list into entries and jobs.   *)
(* LenBits is the width of Job::len.                                       *)
(***************************************************************************)
EXTENDS DeviceProfile

CONSTANTS
    FileSizes,     \* sizes the scan may find
    MaxFiles,      \* bound on the bulk files of a plan
    Volumes,       \* volumes the two paths may be on
    BlockOptions,  \* values of --block; no value is the empty set
    RamOptions,    \* values of --ram
    Available,     \* what memory_status may find free
    ArenaFloor, ArenaCap,   \* 256 MiB and 8 GiB in the code
    PageSize,      \* what VirtualAlloc aligns to
    LargePages,    \* what GetLargePageMinimum may say; 0 for no support
    LenBits        \* 32 in the code

ASSUME InputAssumption ==
    /\ FileSizes \subseteq Nat /\ MaxFiles \in Nat
    /\ \A v \in Volumes : {v.sector, v.perCluster} \subseteq Nat /\ v.extents \in Seq(Disks)
    /\ \A o \in BlockOptions \cup RamOptions : o \subseteq Nat /\ Cardinality(o) <= 1
    /\ Available \cup LargePages \cup {ArenaFloor, ArenaCap, LenBits} \subseteq Nat
    /\ PageSize \in Nat \ {0} /\ ArenaFloor <= ArenaCap

\* "Page-aligned memory [...] satisfies the sector-alignment requirement of
\* unbuffered I/O on every volume this tool will meet."
ASSUME PageAssumption ==
    /\ \A v \in Volumes : PageSize % SectorSize(v) = 0
    /\ \A g \in LargePages : g % PageSize = 0

\* The coarser unit is "always itself a sector multiple", and one block size
\* satisfies both devices: sectors and clusters are powers of two.
ASSUME UnitAssumption ==
    /\ \A v \in Volumes : Alignment(v) % SectorSize(v) = 0
    /\ \A v, w \in Volumes : Larger(Alignment(v), Alignment(w)) % Alignment(v) = 0

VARIABLES
    src, dst,    \* the volumes of source and destination
    plan,        \* the sizes of the bulk files
    block,       \* Copier::block_size
    ram,         \* Copier::arena_bytes
    lockMemory,  \* the privilege that large pages need
    arena,       \* Arena: where it lies, what was asked for, its buffers
    align,       \* Shared::align
    file, chunk, \* where the two loops stand
    jobs, entries,
    phase        \* "allocating", "planning", "ready", "panicked" or "refused"

setup == <<src, dst, plan, block, ram, lockMemory, align>>
vars == <<setup, arena, file, chunk, jobs, entries, phase>>

Plans == BoundedSeq(FileSizes, MaxFiles) \ {<<>>}

\* Mutant: the block is used as it was given.
BlockSize_AsGiven(chosen, sector) == chosen

\* Copier::new: one block size satisfies both devices' alignment.
BlockSize(chosen, sector) == RoundUp(chosen, sector)

\* --ram, or a quarter of what is free, within bounds.
ArenaBytes(option, free) ==
    IF option # {} THEN CHOOSE r \in option : TRUE
    ELSE Larger(ArenaFloor, Min({free \div 4, ArenaCap}))

NoArena == [base |-> 0, bytes |-> 0, count |-> 0]

CommonAlignment == Larger(Alignment(src), Alignment(dst))

\* Sector alignment is a constraint of unbuffered I/O only.
IoAlignment(unbuffered) == IF unbuffered THEN CommonAlignment ELSE 1

\* --block, or the larger of the two profiles' blocks.
Init ==
    /\ plan \in Plans
    /\ src \in Volumes /\ dst \in Volumes
    /\ \E option \in BlockOptions :
        block = BlockSize(IF option = {} THEN Larger(ProfileBlock(src), ProfileBlock(dst))
                          ELSE CHOOSE b \in option : TRUE,
                          CommonAlignment)
    /\ \E option \in RamOptions, free \in Available :
        ram = ArenaBytes(option, free)
    /\ lockMemory \in BOOLEAN
    /\ \E unbuffered \in BOOLEAN : align = IoAlignment(unbuffered)
    /\ arena = NoArena
    /\ file = 1 /\ chunk = 1
    /\ jobs = <<>> /\ entries = <<>>
    /\ phase = "allocating"

\* A division by the block size: run_bulk's message about the arena comes to it
\* before Arena::new does.
Panic ==
    /\ phase = "allocating" /\ block = 0
    /\ phase' = "panicked"
    /\ UNCHANGED <<setup, arena, file, chunk, jobs, entries>>

\* Mutant: the four buffers are promised after the bytes were counted.
Carve_FourLater(total) == [count |-> Larger(total \div block, 4), bytes |-> (total \div block) * block]

\* At least four buffers, whatever the memory.
Carve(total) ==
    LET count == Larger(total \div block, 4)
    IN  [count |-> count, bytes |-> count * block]

\* VirtualAlloc: somewhere, a multiple of the page.
Allocated(page, carved) ==
    \E k \in {1, 3} :
        arena' = [base |-> k * page, bytes |-> RoundUp(carved.bytes, page), count |-> carved.count]

\* Large pages first, if the privilege is held; normal pages if they fail.
Allocate ==
    /\ phase = "allocating" /\ block > 0
    /\ \/ \E page \in LargePages \ {0} : lockMemory /\ Allocated(page, Carve(ram))
       \/ Allocated(PageSize, Carve(ram))
    /\ phase' = "planning"
    /\ UNCHANGED <<setup, file, chunk, jobs, entries>>

AllocateFails ==
    /\ phase = "allocating" /\ block > 0
    /\ phase' = "refused"
    /\ UNCHANGED <<setup, arena, file, chunk, jobs, entries>>

\* Arena::ptr.
BufferAt(i) == arena.base + i * block

PushJob ==
    /\ phase = "planning"
    /\ file <= Len(plan) /\ chunk <= ChunkCount(plan[file], block)
    /\ LET offset == (chunk - 1) * block
       IN  jobs' = Append(jobs, [file |-> file, offset |-> offset,
                                 len |-> ChunkLen(plan[file], block, offset, LenBits)])
    /\ chunk' = chunk + 1
    /\ UNCHANGED <<setup, arena, file, entries, phase>>

PushEntry ==
    /\ phase = "planning"
    /\ file <= Len(plan) /\ chunk > ChunkCount(plan[file], block)
    /\ entries' = Append(entries, [size |-> plan[file], chunks |-> ChunkCount(plan[file], block)])
    /\ file' = file + 1 /\ chunk' = 1
    /\ UNCHANGED <<setup, arena, jobs, phase>>

Start ==
    /\ phase = "planning" /\ file > Len(plan)
    /\ phase' = "ready"
    /\ UNCHANGED <<setup, arena, file, chunk, jobs, entries>>

Planned == phase \in {"ready", "panicked", "refused"} /\ UNCHANGED vars
Next == Panic \/ Allocate \/ AllocateFails \/ PushJob \/ PushEntry \/ Start \/ Planned
Spec == Init /\ [][Next]_vars

-------------------------------------------------------------------------------
ChunksOf(f) == {i \in DOMAIN jobs : jobs[i].file = f}
EndOf(i) == jobs[i].offset + jobs[i].len
Padded(j) == RoundUp(j.len, align)

\* The chunks of a file are its bytes, each once and in order, and an entry's
\* count is their number: it is what `done` is compared with before the file
\* is finalized, so one too many leaves the file padded and uncounted, and one
\* too few trims it while a chunk is still to be written.
ChunksTileFiles ==
    phase = "ready" =>
        /\ Len(entries) = Len(plan)
        /\ \A f \in DOMAIN plan :
            /\ ChunksOf(f) # {} /\ entries[f].chunks = Cardinality(ChunksOf(f))
            /\ \A i, k \in ChunksOf(f) : i..k \subseteq ChunksOf(f)
            /\ \A i \in ChunksOf(f) :
                /\ jobs[i].offset = IF i - 1 \in ChunksOf(f) THEN EndOf(i - 1) ELSE 0
                /\ i + 1 \in ChunksOf(f) \/ EndOf(i) = plan[f]

\* The padding of unbuffered I/O stays harmless: the padded transfer of a chunk
\* fits its arena buffer, suits the sectors of both devices, ends within the
\* length the destination is extended to, and never reaches into the next
\* chunk, which another worker may have written already.
PaddingIsHarmless ==
    \A i \in 1..Len(jobs) :
        LET j == jobs[i]
        IN  /\ Padded(j) <= block
            /\ align # 1 => \A v \in {src, dst} :
                j.offset % Alignment(v) = 0 /\ Padded(j) % Alignment(v) = 0
            /\ j.offset + Padded(j) <= RoundUp(plan[j.file], align)
            /\ \A k \in 1..Len(jobs) :
                jobs[k].file = j.file /\ jobs[k].offset > j.offset =>
                    j.offset + Padded(j) <= jobs[k].offset

\* "The arena hands out disjoint buffer slices to workers".  However little memory was asked for and
\* whichever pages were got, every chunk's padded transfer stays inside the
\* allocation and short of the next buffer, and starts at an address that
\* unbuffered I/O on either device accepts.
BuffersFit ==
    phase = "ready" =>
        \A i \in 0..(arena.count - 1) :
            /\ \A k \in DOMAIN jobs :
                /\ BufferAt(i) + Padded(jobs[k]) <= arena.base + arena.bytes
                /\ Padded(jobs[k]) <= block
            /\ align # 1 => \A v \in {src, dst} : BufferAt(i) % SectorSize(v) = 0

\* "Latency separates them unambiguously": a disk that will not say whether it
\* seeks is given the two requests of a spinning one exactly when at least half
\* of the reads timed on it were slow, so that a few answered from a cache do
\* not give it the depth of a solid-state one.
SpindleRecognised ==
    \A v \in {src, dst} :
        v.extents # <<>> =>
            LET disk == FirstDisk(v)
                slow == {i \in DOMAIN Latencies[disk] : Latencies[disk][i] > SeekLatency}
            IN  Penalty[disk] = "silent" /\ ProbeAnswers(disk) =>
                    (ProfileDepth(v) = 2 <=> 2 * Cardinality(slow) >= Len(Latencies[disk]))
===============================================================================
