----------------------------- MODULE DeviceProfile -----------------------------
(***************************************************************************)
(* What device.rs and volume.rs conclude about a volume: its alignment,    *)
(* the class of the disk behind it, and the block size and queue depth     *)
(* that follow.  A volume is what the operating system reports of it: a    *)
(* sector size, sectors per cluster, and the disk number of each extent.   *)
(* Sizes are in units of which MiB make a mebibyte.                        *)
(***************************************************************************)
EXTENDS ChunkPlan, SequencesExt, FiniteSetsExt

CONSTANTS
    Disks,         \* disk numbers
    Penalty,       \* Penalty[d]: "seeks", "none" or "silent"
    Bus,           \* Bus[d]: "nvme", or another
    Latencies,     \* Latencies[d]: the times of the probe's reads that succeed
    ProbeReads,    \* 16 in the code
    SeekLatency,   \* 3 ms in the code
    MinSector,     \* 512 bytes
    MinAlign,      \* 4096 bytes
    MiB

ASSUME DiskAssumption ==
    /\ Disks \subseteq Nat
    /\ Penalty \in [Disks -> {"seeks", "none", "silent"}]
    /\ \A d \in Disks : Latencies[d] \in Seq(Nat) /\ Len(Latencies[d]) <= ProbeReads
    /\ ProbeReads \in Nat \ {0} /\ SeekLatency \in Nat
    /\ {MinSector, MinAlign, MiB} \subseteq Nat \ {0}

Larger(a, b) == IF a > b THEN a ELSE b

\* for_path and VolumeInfo::alignment.
SectorSize(v) == Larger(v.sector, MinSector)
ClusterSize(v) == Larger(v.perCluster * v.sector, SectorSize(v))
Alignment(v) == Larger(Larger(ClusterSize(v), SectorSize(v)), MinAlign)

\* disks_for_volume sorts the disks of the first 16 extents; classify asks the
\* first of them.
FirstDisk(v) == Min({v.extents[i] : i \in {k \in DOMAIN v.extents : k <= 16}})

\* Mutant: the fastest read decides.
ProbedToSeek_Fastest(d) == Min(ToSet(Latencies[d])) > SeekLatency

\* samples.sort_by: taken in this order, the times ascend.
Sorts(order, times) == \A i, k \in DOMAIN times : i <= k => times[order[i]] <= times[order[k]]

Ascending ==
    [d \in Disks |->
        LET times == Latencies[d]
            order == CHOOSE p \in Bijection(DOMAIN times, DOMAIN times) : Sorts(p, times)
        IN  [i \in DOMAIN times |-> times[order[i]]]]

\* The median of the reads that succeeded, the upper one of an even number.
ProbedToSeek(d) == Ascending[d][Len(Latencies[d]) \div 2 + 1] > SeekLatency

\* Too few reads, or none for want of access to the raw device, say nothing.
ProbeAnswers(d) == Latencies[d] # <<>> /\ Len(Latencies[d]) >= ProbeReads \div 2

\* The first disk speaks for the volume, and its seek penalty, if it reports
\* one, is believed before the probe.
Class(v) ==
    IF v.extents = <<>> THEN "unknown"
    ELSE LET disk == FirstDisk(v)
             solid == IF Bus[disk] = "nvme" THEN "nvme" ELSE "ssd"
         IN  CASE Penalty[disk] = "seeks" -> "hdd"
               [] Penalty[disk] = "none" -> solid
               [] Penalty[disk] = "silent" ->
                    IF ~ProbeAnswers(disk) THEN "unknown"
                    ELSE IF ProbedToSeek(disk) THEN "hdd" ELSE solid

ClassBlock == [nvme |-> 4 * MiB, ssd |-> 2 * MiB, hdd |-> 8 * MiB, unknown |-> 2 * MiB]
ClassDepth == [nvme |-> 32, ssd |-> 12, hdd |-> 2, unknown |-> 8]

ProfileBlock(v) == RoundUp(ClassBlock[Class(v)], Alignment(v))
ProfileDepth(v) == ClassDepth[Class(v)]
===============================================================================
