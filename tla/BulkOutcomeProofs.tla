--------------------------- MODULE BulkOutcomeProofs ---------------------------
(***************************************************************************)
(* Theorems about what becomes of each chunk and each file of BulkPipeline:*)
(* `done`, `failed`, files_done and the errors kept agree with what lies   *)
(* at the destination, and the pipeline implements BulkCopy.               *)
(***************************************************************************)
EXTENDS BulkPipelineProofs

-------------------------------------------------------------------------------
(* Jobs on their way: unclaimed, in the filled ring, or held by a worker at *)
(* one of the places P.                                                    *)

Left(P) ==
    {j \in JobIds : j > cursor}
    \cup {job[w] : w \in {v \in Workers : pc[v] \in P}}
    \cup {filled[i].job : i \in InFlight}

\* A chunk is counted in `done` on the step that may lead to "finalize".
Uncounted == HoldsJob \ {"finalize"}

LEMMA LeftIsJobs ==
    ASSUME TypeInv, NEW P \in SUBSET HoldsJob
    PROVE  Left(P) \subseteq JobIds
BY RingEntry DEF Left, TypeInv, TypeOK, WorkersOK, Shape

\* Going through the cursor and the ring takes no job off its way, ...
LEMMA LeftOnRing ==
    ASSUME TypeInv, NEW P \in SUBSET HoldsJob, {"read", "push", "check"} \subseteq P,
           NEW w \in Workers, ClaimJob(w) \/ PushFilled(w) \/ PopFilled(w)
    PROVE  Left(P)' = Left(P)
<1> USE DEF At, Goto, rings, claims
<1>0. /\ pc \in [Workers -> Labels]
      /\ job \in [Workers -> {0} \cup JobIds]
    BY DEF TypeInv, TypeOK, WorkersOK
<1>1. CASE ClaimJob(w)
    <2>1. /\ cursor' = cursor + 1 /\ cursor + 1 \in JobIds
          /\ UNCHANGED filled
        BY <1>1, JobCount DEF ClaimJob, JobIds, TypeInv, TypeOK, ClaimsOK
    <2>2. /\ pc[w] \notin P /\ job'[w] = cursor + 1 /\ pc'[w] \in P
          /\ \A v \in Workers : v # w => pc'[v] = pc[v] /\ job'[v] = job[v]
        BY <1>0, <1>1 DEF ClaimJob, HoldsJob
    <2>3. cursor \in Nat /\ \A j \in JobIds : j \in Nat
        BY JobCount DEF TypeInv, TypeOK, ClaimsOK
    <2> QED
        BY <2>1, <2>2, <2>3 DEF Left, InFlight
<1>2. CASE PushFilled(w)
    <2> DEFINE last == Len(filled) + 1
    <2>1. /\ InFlight' = InFlight \cup {last}
          /\ filled'[last].job = job[w]
        BY <1>2, PushedRing
    <2>2. \A i \in InFlight : filled'[i] = filled[i]
        BY <1>2, PushedRing
    <2>3. /\ UNCHANGED cursor
          /\ pc[w] \in P /\ pc'[w] \notin P
          /\ \A v \in Workers : v # w => pc'[v] = pc[v] /\ job'[v] = job[v]
        BY <1>0, <1>2 DEF PushFilled, HoldsJob
    <2> HIDE DEF last
    <2> QED
        BY <2>1, <2>2, <2>3 DEF Left
<1>3. CASE PopFilled(w)
    <2>1. /\ 1 \in InFlight
          /\ \A i \in InFlight' : i + 1 \in InFlight /\ filled'[i] = filled[i + 1]
        BY <1>3, PoppedRing
    <2>2. \A k \in InFlight : k = 1 \/ \E i \in InFlight' : filled'[i] = filled[k]
        <3>1. ASSUME NEW k \in InFlight, k # 1
              PROVE  filled'[k - 1] = filled[k] /\ k - 1 \in InFlight'
            BY <1>3, <3>1, PoppedRing DEF InFlight
        <3> QED
            BY <3>1
    <2>3. /\ UNCHANGED cursor
          /\ pc[w] \notin P /\ pc'[w] \in P /\ job'[w] = filled[1].job
          /\ \A v \in Workers : v # w => pc'[v] = pc[v] /\ job'[v] = job[v]
        BY <1>0, <1>3, PoppedRing DEF PopFilled, HoldsJob
    <2> QED
        BY <2>1, <2>2, <2>3 DEF Left
<1> QED
    BY <1>1, <1>2, <1>3

\* ... and any other step of w takes off at most w's own, by leaving P.
LEMMA LeftAside ==
    ASSUME TypeInv, JobsApart, NEW P \in SUBSET HoldsJob, NEW w \in Workers,
           UNCHANGED <<cursor, filled>>,
           \A v \in Workers : v # w => pc'[v] = pc[v] /\ job'[v] = job[v],
           pc'[w] \in P => pc[w] \in P /\ job'[w] = job[w]
    PROVE  /\ pc[w] \in P /\ pc'[w] \notin P => Left(P)' = Left(P) \ {job[w]}
           /\ (pc[w] \in P <=> pc'[w] \in P) => Left(P)' = Left(P)
<1>1. CASE pc[w] \in P /\ pc'[w] \notin P
    <2>1. job[w] # 0 /\ job[w] \in JobIds
        BY <1>1 DEF TypeInv, TypeOK, WorkersOK, Shape
    <2>2. /\ \A v \in Workers : v # w => job[v] # job[w]
          /\ \A i \in InFlight : filled[i].job # job[w]
          /\ ~(job[w] > cursor)
        BY <2>1, JobCount DEF JobsApart, TypeInv, TypeOK, ClaimsOK
    <2> QED
        BY <1>1, <2>2 DEF Left, InFlight
<1>2. CASE pc[w] \in P <=> pc'[w] \in P
    BY <1>2 DEF Left, InFlight
<1> QED
    BY <1>1, <1>2

-------------------------------------------------------------------------------
(* Chunks.  A chunk is open until it lands or is lost; `failed` marks the   *)
(* files that lost one.                                                    *)

Lost(j) == j \notin Open /\ ~Landed(j)
Loses(w) == ReadFails(w) \/ PrepareFails(w) \/ OpenDstFails(w) \/ WriteFails(w)

LEMMA OpenIsLeft == Open = Left(Working) /\ Open' = Left(Working)'
BY DEF Open, Left

\* Only Write lands a chunk, and it lands its own.
LEMMA LandedMoves ==
    ASSUME TypeInv, LandingInv, BytesInv, [Next]_vars
    PROVE  \/ \A j \in JobIds : Landed(j)' <=> Landed(j)
           \/ \E w \in Workers : Write(w)
<1> USE DEF At, dest
<1>1. ASSUME NEW w \in Workers, PrepareDestination(w) \/ PrepareFails(w)
      PROVE  \A j \in JobIds : Landed(j)' <=> Landed(j)
    <2>1. UNCHANGED disk \/ \E k \in {"hole", "stale"} : disk' = Recreated(FileOf(job[w]), k)
        BY <1>1 DEF PrepareDestination, PrepareFails, Unwritten
    <2>2. \A j \in JobIds : disk'[j] = disk[j] \/ ~Landed(j)'
        BY <2>1, NoDataIsNotData DEF Recreated, Landed
    <2> QED
        BY <2>2, LandedStays DEF Landed
<1>2. ASSUME NEW w \in Workers, TryRead(w)
      PROVE  UNCHANGED disk
    BY <1>2 DEF TryRead, AcquireFree, WaitFree, AcquireTimeout, ClaimJob, ClaimNothing, ReadFails, Read, PushFilled
<1>3. ASSUME NEW w \in Workers, TryWrite(w)
      PROVE  UNCHANGED disk \/ Write(w) \/ PrepareDestination(w) \/ PrepareFails(w)
    BY <1>3 DEF TryWrite, PopFilled, WaitFilled, PopTimeout, CheckPrepared, AlreadyPrepared, OpenDstFails, WriteFails
<1>4. ASSUME NEW w \in Workers, PickSide(w) \/ Exit(w) \/ Settle(w)
      PROVE  UNCHANGED disk
    BY <1>4 DEF PickSide, Exit, Settle, ReleaseBuffer, ForfeitJob, RetireJob, CountDone, Finalize
<1>5. ASSUME RunBulk \/ SchedulerExit \/ UNCHANGED vars
      PROVE  UNCHANGED disk
    BY <1>5 DEF RunBulk, StopScheduler, ShutdownRings, Return, SchedulerExit, vars
<1>6. UNCHANGED disk => \A j \in JobIds : Landed(j)' <=> Landed(j)
    BY DEF Landed
<1> QED
    BY <1>1, <1>2, <1>3, <1>4, <1>5, <1>6 DEF Next, Worker, Finished

\* A failing call loses the chunk in the worker's hands, and no other.
LEMMA LosesOne ==
    ASSUME TypeInv, JobsApart, LandingInv, BytesInv, [Next]_vars, NEW w \in Workers, Loses(w)
    PROVE  /\ job[w] \in JobIds /\ job[w] \in Open /\ ~Landed(job[w])
           /\ Open' = Open \ {job[w]}
           /\ \A j \in JobIds : Landed(j)' <=> Landed(j)
           /\ failed' = [failed EXCEPT ![FileOf(job[w])] = TRUE]
           /\ Fail
<1> USE DEF At, Goto, rings, claims
<1>0. pc \in [Workers -> Labels] /\ job \in [Workers -> {0} \cup JobIds]
    BY DEF TypeInv, TypeOK, WorkersOK
<1>1. /\ pc[w] \in Working /\ pc'[w] \notin Working
      /\ UNCHANGED <<cursor, filled>>
      /\ \A v \in Workers : v # w => pc'[v] = pc[v] /\ job'[v] = job[v]
    BY <1>0 DEF Loses, ReadFails, PrepareFails, OpenDstFails, WriteFails, Working
<1>2. Open' = Open \ {job[w]}
    <2>1. Working \in SUBSET HoldsJob
        BY DEF Working, HoldsJob
    <2> QED
        BY <1>1, <2>1, LeftAside, OpenIsLeft
<1>3. job[w] \in JobIds /\ job[w] \in Open
    BY <1>0, <1>1 DEF TypeInv, Shape, Open, Working, HoldsJob
<1>4. ~Landed(job[w])
    BY <1>1 DEF LandingInv
<1>5. \A j \in JobIds : Landed(j)' <=> Landed(j)
    <2>1. ASSUME NEW v \in Workers, Write(v)
          PROVE  FALSE
        <3>1. statErrors' = statErrors
            BY <2>1 DEF Write, report
        <3>2. statErrors' = statErrors + 1
            BY DEF Loses, ReadFails, PrepareFails, OpenDstFails, WriteFails, Fail
        <3> QED
            BY <3>1, <3>2 DEF TypeInv, TypeOK, ReportOK
    <2> QED
        BY <2>1, LandedMoves
<1>6. failed' = [failed EXCEPT ![FileOf(job[w])] = TRUE] /\ Fail
    BY DEF Loses, ReadFails, PrepareFails, OpenDstFails, WriteFails
<1> QED
    BY <1>2, <1>3, <1>4, <1>5, <1>6

\* A write lands the chunk in the worker's hands.
LEMMA LandsOne ==
    ASSUME TypeInv, JobsApart, LandingInv, BytesInv, NEW w \in Workers, Write(w)
    PROVE  /\ job[w] \in JobIds /\ job[w] \in Open /\ ~Landed(job[w])
           /\ Open' = Open \ {job[w]}
           /\ \A j \in JobIds : Landed(j)' <=> Landed(j) \/ j = job[w]
           /\ disk'[job[w]].kind \in {"whole", "zeroed"}
           /\ \A j \in JobIds : j # job[w] => disk'[j] = disk[j]
           /\ UNCHANGED <<failed, statErrors>>
<1> USE DEF At, Goto, rings, claims, entry, report
<1>0. /\ pc \in [Workers -> Labels]
      /\ job \in [Workers -> {0} \cup JobIds]
      /\ disk \in [JobIds -> Cells]
    BY DEF TypeInv, TypeOK, WorkersOK, DestOK
<1>1. /\ pc[w] \in Working /\ pc'[w] \notin Working
      /\ UNCHANGED <<cursor, filled, failed, statErrors>>
      /\ \A v \in Workers : v # w => pc'[v] = pc[v] /\ job'[v] = job[v]
    BY <1>0 DEF Write, Working
<1>2. Open' = Open \ {job[w]}
    <2>1. Working \in SUBSET HoldsJob
        BY DEF Working, HoldsJob
    <2> QED
        BY <1>1, <2>1, LeftAside, OpenIsLeft
<1>3. job[w] \in JobIds /\ job[w] \in Open
    BY <1>0, <1>1 DEF TypeInv, Shape, Open, Working, HoldsJob
<1>4. ~Landed(job[w])
    BY <1>1 DEF LandingInv
<1>5. disk' = [disk EXCEPT ![job[w]] = arena[buf[w]]]
    BY DEF Write, WriteAt
<1>6. disk'[job[w]].kind \in {"whole", "zeroed"}
    <2>1. arena[buf[w]] \in OwnData(job[w])
        BY DEF Write, BytesInv, Loaded
    <2> QED
        BY <1>0, <1>3, <1>5, <2>1 DEF OwnData, Data
<1>7. \A j \in JobIds : j # job[w] => disk'[j] = disk[j]
    BY <1>0, <1>5
<1>8. \A j \in JobIds : Landed(j)' <=> Landed(j) \/ j = job[w]
    BY <1>3, <1>4, <1>6, <1>7 DEF Landed, DataKinds
<1> QED
    BY <1>1, <1>2, <1>3, <1>4, <1>6, <1>7, <1>8

\* Every other step leaves all three sets as they are.
LEMMA OutcomeKept ==
    ASSUME TypeInv, JobsApart, LandingInv, BytesInv, [Next]_vars,
           \A w \in Workers : ~Loses(w) /\ ~Write(w)
    PROVE  /\ Open' = Open
           /\ \A j \in JobIds : Landed(j)' <=> Landed(j)
           /\ UNCHANGED failed
<1> USE DEF At, Goto, rings, claims, entry, worker
<1>0. pc \in [Workers -> Labels] /\ job \in [Workers -> {0} \cup JobIds]
    BY DEF TypeInv, TypeOK, WorkersOK
<1>1. \A j \in JobIds : Landed(j)' <=> Landed(j)
    BY LandedMoves
<1>2. Working \in SUBSET HoldsJob /\ {"read", "push", "check"} \subseteq Working
    BY DEF Working, HoldsJob
<1>3. ASSUME NEW w \in Workers, UNCHANGED <<cursor, filled, failed>>,
             \A v \in Workers : v # w => pc'[v] = pc[v] /\ job'[v] = job[v],
             pc'[w] \in Working => job'[w] = job[w],
             pc[w] \in Working <=> pc'[w] \in Working
      PROVE  Open' = Open /\ UNCHANGED failed
    <2>1. Left(Working)' = Left(Working)
        BY <1>2, <1>3, LeftAside
    <2> QED
        BY <1>3, <2>1, OpenIsLeft
<1>4. ASSUME NEW w \in Workers, ClaimJob(w) \/ PushFilled(w) \/ PopFilled(w)
      PROVE  Open' = Open /\ UNCHANGED failed
    <2>1. Left(Working)' = Left(Working)
        BY <1>2, <1>4, LeftOnRing
    <2>2. UNCHANGED failed
        BY <1>4 DEF ClaimJob, PushFilled, PopFilled
    <2> QED
        BY <2>1, <2>2, OpenIsLeft
<1>5. ASSUME NEW w \in Workers, PickSide(w) \/ Exit(w)
      PROVE  Open' = Open /\ UNCHANGED failed
    BY <1>0, <1>3, <1>5 DEF PickSide, Exit, Working
<1>6. ASSUME NEW w \in Workers, AcquireFree(w) \/ WaitFree(w) \/ AcquireTimeout(w) \/ ClaimNothing(w) \/ Read(w)
      PROVE  Open' = Open /\ UNCHANGED failed
    BY <1>0, <1>3, <1>6 DEF AcquireFree, WaitFree, AcquireTimeout, GiveUp, ClaimNothing, Read, Working
<1>7. ASSUME NEW w \in Workers, WaitFilled(w) \/ PopTimeout(w) \/ CheckPrepared(w) \/ AlreadyPrepared(w) \/ PrepareDestination(w)
      PROVE  Open' = Open /\ UNCHANGED failed
    BY <1>0, <1>3, <1>7 DEF WaitFilled, PopTimeout, GiveUp, CheckPrepared, AlreadyPrepared, PrepareDestination, Working
<1>8. ASSUME NEW w \in Workers, Settle(w)
      PROVE  Open' = Open /\ UNCHANGED failed
    BY <1>0, <1>3, <1>8 DEF Settle, ReleaseBuffer, ForfeitJob, RetireJob, CountDone, Finalize, Working
<1>9. ASSUME RunBulk \/ SchedulerExit \/ UNCHANGED vars
      PROVE  Open' = Open /\ UNCHANGED failed
    <2>1. UNCHANGED <<worker, rings, claims, entry>>
        BY <1>9 DEF RunBulk, StopScheduler, ShutdownRings, Return, SchedulerExit, vars
    <2> QED
        BY <2>1 DEF Open, InFlight
<1> QED
    BY <1>1, <1>4, <1>5, <1>6, <1>7, <1>8, <1>9 DEF Next, Worker, TryRead, TryWrite, Loses, Finished

\* A file is flagged exactly when it lost a chunk.
FailedIffLost == \A f \in Files : failed[f] <=> \E j \in JobsOf(f) : Lost(j)

LEMMA LossesInit == Init => FailedIffLost
<1> SUFFICES ASSUME Init
             PROVE  FailedIffLost
    OBVIOUS
<1>1. \A j \in JobIds : j \in Open
    BY JobCount DEF Init, Open
<1> QED
    BY <1>1 DEF Init, FailedIffLost, JobsOf, Lost

LEMMA LossesStep ==
    ASSUME TypeInv, JobsApart, LandingInv, BytesInv, FailedIffLost, [Next]_vars
    PROVE  FailedIffLost'
<1>0. failed \in [Files -> BOOLEAN]
    BY DEF TypeInv, TypeOK, EntriesOK
<1>1. ASSUME NEW w \in Workers, Loses(w)
      PROVE  FailedIffLost'
    <2>1. /\ job[w] \in JobIds /\ ~Landed(job[w])
          /\ Open' = Open \ {job[w]}
          /\ \A j \in JobIds : Landed(j)' <=> Landed(j)
          /\ failed' = [failed EXCEPT ![FileOf(job[w])] = TRUE]
        BY <1>1, LosesOne
    <2>2. \A j \in JobIds : Lost(j)' <=> Lost(j) \/ j = job[w]
        BY <2>1 DEF Lost
    <2>3. \A f \in Files : failed'[f] <=> failed[f] \/ f = FileOf(job[w])
        BY <1>0, <2>1
    <2> QED
        BY <2>1, <2>2, <2>3 DEF FailedIffLost, JobsOf
<1>2. ASSUME NEW w \in Workers, Write(w)
      PROVE  FailedIffLost'
    <2>1. /\ job[w] \in Open /\ Open' = Open \ {job[w]}
          /\ \A j \in JobIds : Landed(j)' <=> Landed(j) \/ j = job[w]
          /\ UNCHANGED failed
        BY <1>2, LandsOne
    <2>2. \A j \in JobIds : Lost(j)' <=> Lost(j)
        BY <2>1 DEF Lost
    <2> QED
        BY <2>1, <2>2 DEF FailedIffLost, JobsOf
<1>3. CASE \A w \in Workers : ~Loses(w) /\ ~Write(w)
    <2>1. /\ Open' = Open /\ UNCHANGED failed
          /\ \A j \in JobIds : Landed(j)' <=> Landed(j)
        BY <1>3, OutcomeKept
    <2> QED
        BY <2>1 DEF FailedIffLost, JobsOf, Lost
<1> QED
    BY <1>1, <1>2, <1>3

-------------------------------------------------------------------------------
(* Counting.  `done` of a file is the number of its chunks that passed the  *)
(* counter, unless an error path took one past it.                         *)

Passed(f) == JobsOf(f) \ Left(Uncounted)

DoneCounts ==
    \A f \in Files :
        /\ done[f] <= Cardinality(Passed(f))
        /\ ~failed[f] => done[f] = Cardinality(Passed(f))

\* One worker finalizes a file, when every chunk of it was counted.
FinalizedOnce ==
    /\ \A w \in Workers : pc[w] \in {"discard", "forfeit"} => failed[FileOf(job[w])]
    /\ \A w \in Workers : pc[w] = "finalize" => done[FileOf(job[w])] = Chunks(FileOf(job[w]))
    /\ \A v, w \in Workers :
           v # w /\ pc[v] = "finalize" /\ pc[w] = "finalize" => FileOf(job[v]) # FileOf(job[w])

FilesDoneCounts == filesDone = Cardinality({f \in Files : Counted(f)})

LEMMA JobsFinite ==
    /\ IsFiniteSet(JobIds)
    /\ \A f \in Files : IsFiniteSet(JobsOf(f)) /\ Chunks(f) \in Nat
<1>1. IsFiniteSet(JobIds)
    BY JobCount, FS_Interval DEF JobIds
<1>2. \A f \in Files : IsFiniteSet(JobsOf(f)) /\ Chunks(f) \in Nat
    <2> SUFFICES ASSUME NEW f \in Files
                 PROVE  IsFiniteSet(JobsOf(f)) /\ Chunks(f) \in Nat
        OBVIOUS
    <2>1. JobsOf(f) \in SUBSET JobIds
        BY DEF JobsOf
    <2>2. IsFiniteSet(JobsOf(f))
        BY <1>1, <2>1, FS_Subset
    <2> QED
        BY <2>2, FS_CardinalityType DEF Chunks
<1> QED
    BY <1>1, <1>2

\* Every file has a chunk, so there are finitely many files.
LEMMA FilesFinite == IsFiniteSet(Files)
<1> DEFINE fileOf == [j \in JobIds |-> FileOf(j)]
<1>1. fileOf \in Surjection(JobIds, Files)
    <2>1. fileOf \in [JobIds -> Files]
        BY JobType
    <2>2. \A f \in Files : \E j \in JobIds : fileOf[j] = f
        BY PlanAssumption DEF FileOf
    <2> HIDE DEF fileOf
    <2> QED
        BY <2>1, <2>2 DEF Surjection
<1> HIDE DEF fileOf
<1> QED
    BY <1>1, JobsFinite, FS_Surjection

LEMMA PassedFinite ==
    ASSUME NEW f \in Files, NEW S
    PROVE  /\ IsFiniteSet(JobsOf(f) \ S) /\ Cardinality(JobsOf(f) \ S) \in Nat
           /\ Cardinality(JobsOf(f) \ S) <= Chunks(f)
           /\ Cardinality(JobsOf(f) \ S) = Chunks(f) => JobsOf(f) \ S = JobsOf(f)
<1>1. JobsOf(f) \ S \in SUBSET JobsOf(f)
    OBVIOUS
<1>2. /\ IsFiniteSet(JobsOf(f) \ S)
      /\ Cardinality(JobsOf(f) \ S) <= Cardinality(JobsOf(f))
      /\ Cardinality(JobsOf(f)) = Cardinality(JobsOf(f) \ S) => JobsOf(f) = JobsOf(f) \ S
    BY <1>1, JobsFinite, FS_Subset
<1> QED
    BY <1>2, FS_CardinalityType DEF Chunks

\* While a chunk is on its way its file's counter is short of its total.
LEMMA ShortOfTotal ==
    ASSUME TypeInv, DoneCounts, NEW j \in Left(Uncounted)
    PROVE  j \in JobIds /\ FileOf(j) \in Files /\ done[FileOf(j)] < Chunks(FileOf(j))
<1>1. j \in JobIds /\ FileOf(j) \in Files
    <2>1. Uncounted \in SUBSET HoldsJob
        BY DEF Uncounted
    <2> QED
        BY <2>1, LeftIsJobs, JobType
<1>2. j \in JobsOf(FileOf(j)) /\ j \notin Passed(FileOf(j))
    BY <1>1 DEF JobsOf, Passed
<1>3. /\ Cardinality(Passed(FileOf(j))) \in Nat
      /\ Cardinality(Passed(FileOf(j))) <= Chunks(FileOf(j))
      /\ Cardinality(Passed(FileOf(j))) # Chunks(FileOf(j))
    BY <1>1, <1>2, PassedFinite DEF Passed
<1>4. done[FileOf(j)] \in Nat /\ done[FileOf(j)] <= Cardinality(Passed(FileOf(j)))
    BY <1>1 DEF DoneCounts, TypeInv, TypeOK, EntriesOK
<1> QED
    BY <1>1, <1>3, <1>4, JobsFinite

\* A chunk that leaves its way passes the counter of its own file.
LEMMA PassesOne ==
    ASSUME NEW j \in Left(Uncounted), j \in JobIds, NEW f \in Files,
           Left(Uncounted)' = Left(Uncounted) \ {j}
    PROVE  Cardinality(Passed(f))' =
               IF f = FileOf(j) THEN Cardinality(Passed(f)) + 1 ELSE Cardinality(Passed(f))
<1>1. CASE f = FileOf(j)
    <2>1. Passed(f)' = Passed(f) \cup {j} /\ j \notin Passed(f)
        BY <1>1 DEF Passed, JobsOf
    <2>2. IsFiniteSet(Passed(f))
        BY PassedFinite DEF Passed
    <2>3. Cardinality(Passed(f) \cup {j}) = Cardinality(Passed(f)) + 1
        BY <2>1, <2>2, FS_AddElement
    <2> QED
        BY <1>1, <2>1, <2>3
<1>2. CASE f # FileOf(j)
    <2>1. Passed(f)' = Passed(f)
        BY <1>2 DEF Passed, JobsOf
    <2> QED
        BY <1>2, <2>1
<1> QED
    BY <1>1, <1>2

\* A forfeited chunk goes past the counter of a file that is flagged.
LEMMA ForfeitsOne ==
    ASSUME TypeInv, JobsApart, FinalizedOnce, NEW w \in Workers, ForfeitJob(w)
    PROVE  /\ job[w] \in Left(Uncounted) /\ Left(Uncounted)' = Left(Uncounted) \ {job[w]}
           /\ failed[FileOf(job[w])]
           /\ UNCHANGED <<done, failed, filesDone>>
           /\ \A v \in Workers : pc'[v] = "finalize" <=> pc[v] = "finalize"
           /\ \A v \in Workers : pc[v] = "finalize" => job'[v] = job[v]
           /\ \A v \in Workers : pc'[v] \in {"discard", "forfeit"} => pc'[v] = pc[v] /\ job'[v] = job[v]
<1> USE DEF At, Goto, rings, entry, stats
<1>0. pc \in [Workers -> Labels] /\ job \in [Workers -> {0} \cup JobIds]
    BY DEF TypeInv, TypeOK, WorkersOK
<1>1. /\ pc[w] = "forfeit" /\ pc'[w] = "loop"
      /\ UNCHANGED <<cursor, filled, done, failed, filesDone>>
      /\ \A v \in Workers : v # w => pc'[v] = pc[v] /\ job'[v] = job[v]
    BY <1>0 DEF ForfeitJob
<1>2. Left(Uncounted)' = Left(Uncounted) \ {job[w]}
    <2>1. Uncounted \in SUBSET HoldsJob /\ pc[w] \in Uncounted /\ pc'[w] \notin Uncounted
        BY <1>1 DEF Uncounted, HoldsJob
    <2> QED
        BY <1>1, <2>1, LeftAside
<1>3. job[w] \in Left(Uncounted)
    BY <1>1 DEF Left, Uncounted, HoldsJob
<1>4. failed[FileOf(job[w])]
    BY <1>1 DEF FinalizedOnce
<1> QED
    BY <1>1, <1>2, <1>3, <1>4

LEMMA CountsOne ==
    ASSUME TypeInv, JobsApart, NEW w \in Workers, CountDone(w)
    PROVE  /\ job[w] \in Left(Uncounted) /\ Left(Uncounted)' = Left(Uncounted) \ {job[w]}
           /\ pc[w] = "count"
           /\ done' = [done EXCEPT ![FileOf(job[w])] = @ + 1]
           /\ pc'[w] = "finalize" <=> done[FileOf(job[w])] + 1 = Chunks(FileOf(job[w]))
           /\ pc'[w] = "finalize" => job'[w] = job[w]
           /\ pc'[w] \notin {"discard", "forfeit"}
           /\ UNCHANGED <<failed, filesDone>>
           /\ \A v \in Workers : v # w => pc'[v] = pc[v] /\ job'[v] = job[v]
<1> USE DEF At, Goto, rings, claims, entry, stats
<1>0. pc \in [Workers -> Labels] /\ job \in [Workers -> {0} \cup JobIds]
    BY DEF TypeInv, TypeOK, WorkersOK
<1>1. /\ pc[w] = "count" /\ pc'[w] \in {"finalize", "loop"}
      /\ pc'[w] = "finalize" <=> done[FileOf(job[w])] + 1 = Chunks(FileOf(job[w]))
      /\ pc'[w] = "finalize" => job'[w] = job[w]
      /\ UNCHANGED <<cursor, filled, failed, filesDone>>
      /\ \A v \in Workers : v # w => pc'[v] = pc[v] /\ job'[v] = job[v]
    BY <1>0 DEF CountDone
<1>2. Left(Uncounted)' = Left(Uncounted) \ {job[w]}
    <2>1. Uncounted \in SUBSET HoldsJob /\ pc[w] \in Uncounted /\ pc'[w] \notin Uncounted
        BY <1>1 DEF Uncounted, HoldsJob
    <2> QED
        BY <1>1, <2>1, LeftAside
<1>3. job[w] \in Left(Uncounted)
    BY <1>1 DEF Left, Uncounted, HoldsJob
<1>4. done' = [done EXCEPT ![FileOf(job[w])] = @ + 1]
    BY DEF CountDone
<1> QED
    BY <1>1, <1>2, <1>3, <1>4

\* No other step passes a counter or makes a worker the finalizer of a file.
LEMMA PassingKept ==
    ASSUME TypeInv, JobsApart, [Next]_vars,
           \A w \in Workers : ~ForfeitJob(w) /\ ~CountDone(w)
    PROVE  /\ Left(Uncounted)' = Left(Uncounted)
           /\ UNCHANGED done
           /\ \A v \in Workers : pc'[v] = "finalize" => pc[v] = "finalize" /\ job'[v] = job[v]
<1> USE DEF At, Goto, rings, claims, entry, worker
<1>0. pc \in [Workers -> Labels] /\ job \in [Workers -> {0} \cup JobIds]
    BY DEF TypeInv, TypeOK, WorkersOK
<1> DEFINE Kept ==
        /\ Left(Uncounted)' = Left(Uncounted)
        /\ UNCHANGED done
        /\ \A v \in Workers : pc'[v] = "finalize" => pc[v] = "finalize" /\ job'[v] = job[v]
<1>2. Uncounted \in SUBSET HoldsJob /\ {"read", "push", "check"} \subseteq Uncounted
    BY DEF Uncounted, HoldsJob
<1>3. ASSUME NEW w \in Workers, UNCHANGED <<cursor, filled, done>>,
             \A v \in Workers : v # w => pc'[v] = pc[v] /\ job'[v] = job[v],
             pc'[w] \in Uncounted => job'[w] = job[w],
             pc[w] \in Uncounted <=> pc'[w] \in Uncounted,
             pc'[w] # "finalize"
      PROVE  Kept
    BY <1>2, <1>3, LeftAside
<1>4. ASSUME NEW w \in Workers, ClaimJob(w) \/ PushFilled(w) \/ PopFilled(w)
      PROVE  Kept
    <2>1. Left(Uncounted)' = Left(Uncounted)
        BY <1>2, <1>4, LeftOnRing
    <2>2. UNCHANGED done /\ pc'[w] # "finalize"
          /\ \A v \in Workers : v # w => pc'[v] = pc[v] /\ job'[v] = job[v]
        BY <1>0, <1>4 DEF ClaimJob, PushFilled, PopFilled
    <2> QED
        BY <2>1, <2>2
<1> HIDE DEF Kept
<1>5. ASSUME NEW w \in Workers, PickSide(w) \/ Exit(w)
      PROVE  Kept
    BY <1>0, <1>3, <1>5 DEF PickSide, Exit, Uncounted, HoldsJob
<1>6. ASSUME NEW w \in Workers, AcquireFree(w) \/ WaitFree(w) \/ AcquireTimeout(w)
                                \/ ClaimNothing(w) \/ ReadFails(w) \/ Read(w)
      PROVE  Kept
    BY <1>0, <1>3, <1>6 DEF AcquireFree, WaitFree, AcquireTimeout, GiveUp, ClaimNothing, ReadFails, Read, Uncounted, HoldsJob
<1>7. ASSUME NEW w \in Workers, WaitFilled(w) \/ PopTimeout(w) \/ CheckPrepared(w)
                                \/ AlreadyPrepared(w) \/ PrepareDestination(w)
      PROVE  Kept
    BY <1>0, <1>3, <1>7 DEF WaitFilled, PopTimeout, GiveUp, CheckPrepared, AlreadyPrepared, PrepareDestination, Uncounted, HoldsJob
<1>8. ASSUME NEW w \in Workers, PrepareFails(w) \/ OpenDstFails(w) \/ WriteFails(w) \/ Write(w)
      PROVE  Kept
    BY <1>0, <1>3, <1>8 DEF PrepareFails, OpenDstFails, WriteFails, Write, Uncounted, HoldsJob
<1>9. ASSUME NEW w \in Workers, ReleaseBuffer(w) \/ RetireJob(w) \/ Finalize(w)
      PROVE  Kept
    BY <1>0, <1>3, <1>9 DEF ReleaseBuffer, RetireJob, Finalize, Uncounted, HoldsJob
<1>10. ASSUME RunBulk \/ SchedulerExit \/ UNCHANGED vars
       PROVE  Kept
    <2>1. UNCHANGED <<worker, rings, claims, entry>>
        BY <1>10 DEF RunBulk, StopScheduler, ShutdownRings, Return, SchedulerExit, vars
    <2> QED
        BY <2>1 DEF Left, InFlight, Kept
<1>11. Kept
    BY <1>4, <1>5, <1>6, <1>7, <1>8, <1>9, <1>10 DEF Next, Worker, TryRead, TryWrite, Settle, Finished
<1> QED
    BY <1>11 DEF Kept

\* Nothing takes a flag back.
LEMMA FailedStays ==
    ASSUME TypeInv, JobsApart, LandingInv, BytesInv, [Next]_vars, NEW f \in Files, failed[f]
    PROVE  failed'[f]
<1>1. CASE \E w \in Workers : Loses(w)
    BY <1>1, LosesOne DEF TypeInv, TypeOK, EntriesOK
<1>2. CASE \E w \in Workers : Write(w)
    BY <1>2, LandsOne
<1>3. CASE \A w \in Workers : ~Loses(w) /\ ~Write(w)
    BY <1>3, OutcomeKept
<1> QED
    BY <1>1, <1>2, <1>3

LEMMA CountsInit == Init => DoneCounts /\ FinalizedOnce
<1> SUFFICES ASSUME Init
             PROVE  DoneCounts /\ FinalizedOnce
    OBVIOUS
<1>1. FinalizedOnce
    BY DEF Init, FinalizedOnce
<1>2. ASSUME NEW f \in Files
      PROVE  done[f] = 0 /\ Cardinality(Passed(f)) = 0
    <2>1. \A j \in JobIds : j \in Left(Uncounted)
        BY JobCount DEF Init, Left
    <2>2. Passed(f) = {}
        BY <2>1 DEF Passed, JobsOf
    <2> QED
        BY <2>2, FS_EmptySet DEF Init
<1> QED
    BY <1>1, <1>2 DEF DoneCounts

LEMMA DoneStep ==
    ASSUME TypeInv, JobsApart, LandingInv, BytesInv, DoneCounts, FinalizedOnce, [Next]_vars
    PROVE  DoneCounts'
<1> SUFFICES ASSUME NEW f \in Files
             PROVE  /\ done'[f] <= Cardinality(Passed(f))'
                    /\ ~failed'[f] => done'[f] = Cardinality(Passed(f))'
    BY DEF DoneCounts
<1>0. /\ done \in [Files -> Nat]
      /\ Cardinality(Passed(f)) \in Nat
      /\ done[f] <= Cardinality(Passed(f))
      /\ ~failed[f] => done[f] = Cardinality(Passed(f))
      /\ ~failed'[f] => ~failed[f]
    BY PassedFinite, FailedStays DEF DoneCounts, Passed, TypeInv, TypeOK, EntriesOK
<1>1. ASSUME NEW w \in Workers, ForfeitJob(w)
      PROVE  /\ done'[f] <= Cardinality(Passed(f))'
             /\ ~failed'[f] => done'[f] = Cardinality(Passed(f))'
    <2>1. /\ job[w] \in Left(Uncounted) /\ Left(Uncounted)' = Left(Uncounted) \ {job[w]}
          /\ failed[FileOf(job[w])] /\ UNCHANGED <<done, failed>>
        BY <1>1, ForfeitsOne
    <2>2. job[w] \in JobIds
        BY <2>1, ShortOfTotal
    <2>3. Cardinality(Passed(f))' =
              IF f = FileOf(job[w]) THEN Cardinality(Passed(f)) + 1 ELSE Cardinality(Passed(f))
        BY <2>1, <2>2, PassesOne
    <2> QED
        BY <1>0, <2>1, <2>3
<1>2. ASSUME NEW w \in Workers, CountDone(w)
      PROVE  /\ done'[f] <= Cardinality(Passed(f))'
             /\ ~failed'[f] => done'[f] = Cardinality(Passed(f))'
    <2>1. /\ job[w] \in Left(Uncounted) /\ Left(Uncounted)' = Left(Uncounted) \ {job[w]}
          /\ done' = [done EXCEPT ![FileOf(job[w])] = @ + 1]
        BY <1>2, CountsOne
    <2>2. job[w] \in JobIds
        BY <2>1, ShortOfTotal
    <2>3. Cardinality(Passed(f))' =
              IF f = FileOf(job[w]) THEN Cardinality(Passed(f)) + 1 ELSE Cardinality(Passed(f))
        BY <2>1, <2>2, PassesOne
    <2> QED
        BY <1>0, <2>1, <2>3
<1>3. CASE \A w \in Workers : ~ForfeitJob(w) /\ ~CountDone(w)
    <2>1. Left(Uncounted)' = Left(Uncounted) /\ UNCHANGED done
        BY <1>3, PassingKept
    <2>2. Passed(f)' = Passed(f)
        BY <2>1 DEF Passed
    <2> QED
        BY <1>0, <2>1, <2>2
<1> QED
    BY <1>1, <1>2, <1>3

\* A worker on an error path got there through a failing call.
LEMMA ErrorPaths ==
    ASSUME TypeInv, [Next]_vars, NEW v \in Workers, pc'[v] \in {"discard", "forfeit"}
    PROVE  \/ Loses(v) /\ job'[v] = job[v]
           \/ pc[v] \in {"discard", "forfeit"} /\ job'[v] = job[v]
<1> USE DEF At, Goto
<1>0. pc \in [Workers -> Labels] /\ job \in [Workers -> {0} \cup JobIds]
    BY DEF TypeInv, TypeOK, WorkersOK
<1>1. ASSUME NEW w \in Workers, PickSide(w) \/ Exit(w)
      PROVE  pc[v] \in {"discard", "forfeit"} /\ job'[v] = job[v]
    BY <1>0, <1>1 DEF PickSide, Exit
<1>2. ASSUME NEW w \in Workers, TryRead(w)
      PROVE  \/ Loses(v) /\ job'[v] = job[v]
             \/ pc[v] \in {"discard", "forfeit"} /\ job'[v] = job[v]
    <2>1. CASE ReadFails(w)
        BY <1>0, <2>1 DEF ReadFails, Loses
    <2>2. CASE ~ReadFails(w)
        BY <1>0, <1>2, <2>2 DEF TryRead, AcquireFree, WaitFree, AcquireTimeout, GiveUp, ClaimJob, ClaimNothing, Read, PushFilled
    <2> QED
        BY <2>1, <2>2
<1>3. ASSUME NEW w \in Workers, TryWrite(w)
      PROVE  \/ Loses(v) /\ job'[v] = job[v]
             \/ pc[v] \in {"discard", "forfeit"} /\ job'[v] = job[v]
    <2>1. CASE PrepareFails(w)
        BY <1>0, <2>1 DEF PrepareFails, Loses
    <2>2. CASE OpenDstFails(w)
        BY <1>0, <2>2 DEF OpenDstFails, Loses
    <2>3. CASE ~PrepareFails(w) /\ ~OpenDstFails(w)
        BY <1>0, <1>3, <2>3 DEF TryWrite, PopFilled, WaitFilled, PopTimeout, GiveUp, CheckPrepared, AlreadyPrepared,
               PrepareDestination, WriteFails, Write
    <2> QED
        BY <2>1, <2>2, <2>3
<1>4. ASSUME NEW w \in Workers, Settle(w)
      PROVE  pc[v] \in {"discard", "forfeit"} /\ job'[v] = job[v]
    BY <1>0, <1>4 DEF Settle, ReleaseBuffer, ForfeitJob, RetireJob, CountDone, Finalize
<1>5. ASSUME RunBulk \/ SchedulerExit \/ UNCHANGED vars
      PROVE  pc[v] \in {"discard", "forfeit"} /\ job'[v] = job[v]
    BY <1>5 DEF RunBulk, StopScheduler, ShutdownRings, Return, SchedulerExit, vars, worker
<1> QED
    BY <1>1, <1>2, <1>3, <1>4, <1>5 DEF Next, Worker, Finished

LEMMA FinalizedStep ==
    ASSUME TypeInv, JobsApart, LandingInv, BytesInv, DoneCounts, FinalizedOnce, [Next]_vars
    PROVE  FinalizedOnce'
<1>1. ASSUME NEW v \in Workers, pc'[v] \in {"discard", "forfeit"}
      PROVE  failed'[FileOf(job'[v])]
    <2>1. CASE Loses(v) /\ job'[v] = job[v]
        BY <2>1, LosesOne, JobType DEF TypeInv, TypeOK, EntriesOK
    <2>2. CASE pc[v] \in {"discard", "forfeit"} /\ job'[v] = job[v]
        <3>1. failed[FileOf(job[v])] /\ job[v] \in JobIds
            BY <2>2 DEF FinalizedOnce, TypeInv, TypeOK, WorkersOK, Shape, HoldsJob
        <3> QED
            BY <2>2, <3>1, JobType, FailedStays
    <2> QED
        BY <1>1, <2>1, <2>2, ErrorPaths
<1>2. ASSUME NEW w \in Workers, CountDone(w)
      PROVE  /\ \A v \in Workers : pc'[v] = "finalize" => done'[FileOf(job'[v])] = Chunks(FileOf(job'[v]))
             /\ \A u, v \in Workers : u # v /\ pc'[u] = "finalize" /\ pc'[v] = "finalize"
                                         => FileOf(job'[u]) # FileOf(job'[v])
    <2> DEFINE f == FileOf(job[w])
    <2>1. /\ job[w] \in Left(Uncounted)
          /\ done' = [done EXCEPT ![f] = @ + 1]
          /\ pc'[w] = "finalize" => done[f] + 1 = Chunks(f) /\ job'[w] = job[w]
          /\ \A v \in Workers : v # w => pc'[v] = pc[v] /\ job'[v] = job[v]
        BY <1>2, CountsOne
    <2>2. f \in Files /\ done[f] < Chunks(f) /\ Chunks(f) \in Nat /\ done \in [Files -> Nat]
        BY <2>1, ShortOfTotal, JobsFinite DEF TypeInv, TypeOK, EntriesOK
    <2>3. \A v \in Workers : pc[v] = "finalize" =>
              done[FileOf(job[v])] = Chunks(FileOf(job[v])) /\ FileOf(job[v]) # f
        BY <2>2 DEF FinalizedOnce
    <2>4. \A g : g # f => done'[g] = done[g]
        BY <2>1, <2>2
    <2>5. done'[f] = done[f] + 1
        BY <2>1, <2>2
    <2> HIDE DEF f
    <2>6. pc'[w] = "finalize" => FileOf(job'[w]) = f
        BY <2>1 DEF f
    <2>7. ASSUME NEW v \in Workers, pc'[v] = "finalize"
          PROVE  done'[FileOf(job'[v])] = Chunks(FileOf(job'[v]))
        BY <2>1, <2>3, <2>4, <2>5, <2>6, <2>7
    <2>8. ASSUME NEW u \in Workers, NEW v \in Workers, u # v,
                 pc'[u] = "finalize", pc'[v] = "finalize"
          PROVE  FileOf(job'[u]) # FileOf(job'[v])
        BY <2>1, <2>3, <2>6, <2>8 DEF FinalizedOnce
    <2> QED
        BY <2>7, <2>8
<1>3. CASE \A w \in Workers : ~CountDone(w)
    <2>1. /\ UNCHANGED done
          /\ \A v \in Workers : pc'[v] = "finalize" => pc[v] = "finalize" /\ job'[v] = job[v]
        BY <1>3, ForfeitsOne, PassingKept
    <2> QED
        BY <1>1, <2>1 DEF FinalizedOnce
<1> QED
    BY <1>1, <1>2, <1>3 DEF FinalizedOnce

-------------------------------------------------------------------------------
(* files_done.  A file is counted once its finalizer is through with it.    *)

\* A counted file has landed whole.
LEMMA CountedLanded ==
    ASSUME TypeInv, FailedIffLost, DoneCounts, NEW f \in Files,
           done[f] = Chunks(f), ~failed[f]
    PROVE  FileLanded(f)
<1>1. Cardinality(Passed(f)) = Chunks(f)
    BY DEF DoneCounts
<1>2. \A j \in JobsOf(f) : j \notin Left(Uncounted)
    BY <1>1, PassedFinite DEF Passed
<1>3. Open \subseteq Left(Uncounted)
    BY DEF Open, Left, Working, Uncounted, HoldsJob
<1> QED
    BY <1>2, <1>3 DEF FailedIffLost, Lost, FileLanded

\* A chunk on its way keeps its file from being counted, whatever the flag.
LEMMA OnItsWay ==
    ASSUME TypeInv, DoneCounts, NEW j \in Left(Uncounted)
    PROVE  ~Counted(FileOf(j))
<1>1. /\ done[FileOf(j)] < Chunks(FileOf(j)) /\ FileOf(j) \in Files
    BY ShortOfTotal
<1>2. done[FileOf(j)] \in Nat /\ Chunks(FileOf(j)) \in Nat
    BY <1>1, JobsFinite DEF TypeInv, TypeOK, EntriesOK
<1> QED
    BY <1>1, <1>2 DEF Counted

\* Only CountDone makes a finalizer, and only Finalize lets one go.
LEMMA FinalizersKept ==
    ASSUME TypeInv, [Next]_vars,
           \A w \in Workers : ~CountDone(w) /\ ~Finalize(w)
    PROVE  /\ UNCHANGED <<done, filesDone>>
           /\ \A v \in Workers : pc'[v] = "finalize" <=> pc[v] = "finalize"
           /\ \A v \in Workers : pc[v] = "finalize" => job'[v] = job[v]
<1> USE DEF At, Goto, entry, stats, worker
<1>0. pc \in [Workers -> Labels] /\ job \in [Workers -> {0} \cup JobIds]
    BY DEF TypeInv, TypeOK, WorkersOK
<1> DEFINE Kept ==
        /\ UNCHANGED <<done, filesDone>>
        /\ \A v \in Workers : pc'[v] = "finalize" <=> pc[v] = "finalize"
        /\ \A v \in Workers : pc[v] = "finalize" => job'[v] = job[v]
<1>1. ASSUME NEW w \in Workers, PickSide(w) \/ Exit(w)
      PROVE  Kept
    BY <1>0, <1>1 DEF PickSide, Exit
<1>2. ASSUME NEW w \in Workers, AcquireFree(w) \/ WaitFree(w) \/ AcquireTimeout(w) \/ ClaimNothing(w)
      PROVE  Kept
    BY <1>0, <1>2 DEF AcquireFree, WaitFree, AcquireTimeout, GiveUp, ClaimNothing
<1>3. ASSUME NEW w \in Workers, ClaimJob(w) \/ ReadFails(w) \/ Read(w) \/ PushFilled(w)
      PROVE  Kept
    BY <1>0, <1>3 DEF ClaimJob, ReadFails, Read, PushFilled
<1>4. ASSUME NEW w \in Workers, PopFilled(w) \/ WaitFilled(w) \/ PopTimeout(w) \/ CheckPrepared(w)
      PROVE  Kept
    BY <1>0, <1>4 DEF PopFilled, WaitFilled, PopTimeout, GiveUp, CheckPrepared
<1>5. ASSUME NEW w \in Workers, AlreadyPrepared(w) \/ PrepareDestination(w) \/ PrepareFails(w)
      PROVE  Kept
    BY <1>0, <1>5 DEF AlreadyPrepared, PrepareDestination, PrepareFails
<1>6. ASSUME NEW w \in Workers, OpenDstFails(w) \/ WriteFails(w) \/ Write(w)
      PROVE  Kept
    BY <1>0, <1>6 DEF OpenDstFails, WriteFails, Write
<1>7. ASSUME NEW w \in Workers, ReleaseBuffer(w) \/ ForfeitJob(w) \/ RetireJob(w)
      PROVE  Kept
    BY <1>0, <1>7 DEF ReleaseBuffer, ForfeitJob, RetireJob
<1>8. ASSUME RunBulk \/ SchedulerExit \/ UNCHANGED vars
      PROVE  Kept
    BY <1>8 DEF RunBulk, StopScheduler, ShutdownRings, Return, SchedulerExit, vars
<1> HIDE DEF Kept
<1>9. Kept
    BY <1>1, <1>2, <1>3, <1>4, <1>5, <1>6, <1>7, <1>8
       DEF Next, Worker, TryRead, TryWrite, Settle, Finished
<1> QED
    BY <1>9 DEF Kept

LEMMA CountedNext ==
    ASSUME NEW f \in Files
    PROVE  Counted(f)' <=> /\ done'[f] = Chunks(f) /\ ~failed'[f]
                           /\ \A w \in Workers : ~(pc'[w] = "finalize" /\ FileOf(job'[w]) = f)
BY DEF Counted, At, Chunks, JobsOf, JobIds, FileOf

\* Only a finalizer that finds its file unflagged counts it.
LEMMA CountedMoves ==
    ASSUME TypeInv, JobsApart, LandingInv, BytesInv, DoneCounts, FinalizedOnce, [Next]_vars
    PROVE  \/ /\ \A f \in Files : Counted(f)' <=> Counted(f)
              /\ UNCHANGED filesDone
           \/ \E w \in Workers :
                /\ Finalize(w) /\ ~failed[FileOf(job[w])]
                /\ FileOf(job[w]) \in Files /\ ~Counted(FileOf(job[w]))
                /\ \A f \in Files : Counted(f)' <=> Counted(f) \/ f = FileOf(job[w])
                /\ filesDone' = filesDone + 1
<1> USE DEF At
<1>0. /\ pc \in [Workers -> Labels]
      /\ job \in [Workers -> {0} \cup JobIds]
      /\ done \in [Files -> Nat]
      /\ failed \in [Files -> BOOLEAN]
      /\ \A f \in Files : Chunks(f) \in Nat
    BY JobsFinite DEF TypeInv, TypeOK, WorkersOK, EntriesOK
<1>1. ASSUME NEW w \in Workers, CountDone(w)
      PROVE  /\ \A f \in Files : Counted(f)' <=> Counted(f)
             /\ UNCHANGED filesDone
    <2>0. PICK g \in Files : g = FileOf(job[w])
        BY <1>1, CountsOne, ShortOfTotal
    <2>1. /\ job[w] \in Left(Uncounted)
          /\ pc[w] = "count" /\ UNCHANGED <<failed, filesDone>>
          /\ done' = [done EXCEPT ![g] = @ + 1]
          /\ pc'[w] = "finalize" <=> done[g] + 1 = Chunks(g)
          /\ pc'[w] = "finalize" => job'[w] = job[w]
          /\ \A v \in Workers : v # w => pc'[v] = pc[v] /\ job'[v] = job[v]
        BY <1>1, <2>0, CountsOne
    <2>2. ~Counted(g)
        BY <2>0, <2>1, OnItsWay
    <2>3. ~Counted(g)'
        <3>1. done'[g] = done[g] + 1
            BY <1>0, <2>1, <2>2
        <3>2. CASE pc'[w] = "finalize"
            BY <2>0, <2>1, <3>2, CountedNext
        <3>3. CASE pc'[w] # "finalize"
            BY <2>1, <3>1, <3>3, CountedNext
        <3> QED
            BY <3>2, <3>3
    <2>4. ASSUME NEW f \in Files, f # g
          PROVE  Counted(f)' <=> Counted(f)
        <3>1. done'[f] = done[f] /\ failed'[f] = failed[f]
            BY <2>1, <2>4
        <3>2. \A v \in Workers : pc'[v] = "finalize" /\ FileOf(job'[v]) = f
                                    <=> pc[v] = "finalize" /\ FileOf(job[v]) = f
            BY <2>0, <2>1, <2>4
        <3> QED
            BY <3>1, <3>2, CountedNext DEF Counted
    <2> QED
        BY <2>1, <2>2, <2>3, <2>4
<1>2. ASSUME NEW w \in Workers, Finalize(w)
      PROVE  \/ /\ \A f \in Files : Counted(f)' <=> Counted(f)
                /\ UNCHANGED filesDone
             \/ /\ ~failed[FileOf(job[w])]
                /\ FileOf(job[w]) \in Files /\ ~Counted(FileOf(job[w]))
                /\ \A f \in Files : Counted(f)' <=> Counted(f) \/ f = FileOf(job[w])
                /\ filesDone' = filesDone + 1
    <2>0. PICK g \in Files : g = FileOf(job[w])
        BY <1>0, <1>2, JobType DEF Finalize, TypeInv, Shape, HoldsJob
    <2>1. /\ pc[w] = "finalize" /\ pc'[w] = "loop"
          /\ UNCHANGED <<done, failed>>
          /\ \A v \in Workers : v # w => pc'[v] = pc[v] /\ job'[v] = job[v]
          /\ filesDone' = IF failed[g] THEN filesDone ELSE filesDone + 1
        BY <1>0, <1>2, <2>0 DEF Finalize, Goto, entry
    <2>2. ~Counted(g) /\ done[g] = Chunks(g)
        BY <2>0, <2>1 DEF Counted, FinalizedOnce
    <2>3. \A v \in Workers : v # w /\ pc[v] = "finalize" => FileOf(job[v]) # g
        BY <2>0, <2>1 DEF FinalizedOnce
    <2>4. Counted(g)' <=> ~failed[g]
        BY <2>1, <2>2, <2>3, CountedNext
    <2>5. ASSUME NEW f \in Files, f # g
          PROVE  Counted(f)' <=> Counted(f)
        <3>1. \A v \in Workers : pc'[v] = "finalize" /\ FileOf(job'[v]) = f
                                    <=> pc[v] = "finalize" /\ FileOf(job[v]) = f
            BY <2>0, <2>1, <2>5
        <3> QED
            BY <2>1, <3>1, CountedNext DEF Counted
    <2>6. CASE failed[g]
        BY <2>1, <2>2, <2>4, <2>5, <2>6
    <2>7. CASE ~failed[g]
        BY <2>0, <2>1, <2>2, <2>4, <2>5, <2>7
    <2> QED
        BY <2>6, <2>7
<1>3. CASE \A w \in Workers : ~CountDone(w) /\ ~Finalize(w)
    <2>1. /\ UNCHANGED <<done, filesDone>>
          /\ \A v \in Workers : pc'[v] = "finalize" <=> pc[v] = "finalize"
          /\ \A v \in Workers : pc[v] = "finalize" => job'[v] = job[v]
        BY <1>3, FinalizersKept
    <2>2. ASSUME NEW f \in Files
          PROVE  Counted(f)' <=> Counted(f) /\ ~failed'[f]
        BY <2>1, <2>2, FailedStays, CountedNext DEF Counted
    <2>3. ASSUME NEW f \in Files, Counted(f)
          PROVE  ~failed'[f]
        <3>1. ASSUME NEW w \in Workers, Loses(w)
              PROVE  ~failed'[f]
            <4>1. /\ job[w] \in Open /\ failed' = [failed EXCEPT ![FileOf(job[w])] = TRUE]
                BY <3>1, LosesOne
            <4>2. Open \subseteq Left(Uncounted)
                BY DEF Open, Left, Working, Uncounted, HoldsJob
            <4>3. ~Counted(FileOf(job[w]))
                BY <4>1, <4>2, OnItsWay
            <4> QED
                BY <1>0, <2>3, <4>1, <4>3 DEF Counted
        <3>2. ASSUME NEW w \in Workers, Write(w)
              PROVE  ~failed'[f]
            BY <2>3, <3>2, LandsOne DEF Counted
        <3>3. CASE \A w \in Workers : ~Loses(w) /\ ~Write(w)
            BY <2>3, <3>3, OutcomeKept DEF Counted
        <3> QED
            BY <3>1, <3>2, <3>3
    <2> QED
        BY <2>1, <2>2, <2>3
<1> QED
    BY <1>1, <1>2, <1>3

LEMMA FilesDoneInit == Init => FilesDoneCounts
<1> SUFFICES ASSUME Init
             PROVE  FilesDoneCounts
    OBVIOUS
<1>1. ASSUME NEW f \in Files
      PROVE  ~Counted(f)
    <2>1. \E j \in Left(Uncounted) : FileOf(j) = f
        BY PlanAssumption, JobCount DEF Init, Left, FileOf
    <2> QED
        BY <2>1, OnItsWay, TypeInit, CountsInit
<1>2. {f \in Files : Counted(f)} = {}
    BY <1>1
<1> QED
    BY <1>2, FS_EmptySet DEF Init, FilesDoneCounts

LEMMA FilesDoneStep ==
    ASSUME TypeInv, JobsApart, LandingInv, BytesInv, DoneCounts, FinalizedOnce,
           FilesDoneCounts, [Next]_vars
    PROVE  FilesDoneCounts'
<1> DEFINE counted == {f \in Files : Counted(f)}
<1>1. CASE /\ \A f \in Files : Counted(f)' <=> Counted(f)
           /\ UNCHANGED filesDone
    <2>1. counted' = counted
        BY <1>1
    <2> QED
        BY <1>1, <2>1 DEF FilesDoneCounts
<1>2. ASSUME NEW g \in Files, ~Counted(g),
             \A f \in Files : Counted(f)' <=> Counted(f) \/ f = g,
             filesDone' = filesDone + 1
      PROVE  FilesDoneCounts'
    <2>1. counted' = counted \cup {g} /\ g \notin counted
        BY <1>2
    <2>2. IsFiniteSet(counted)
        BY FilesFinite, FS_Subset
    <2>3. Cardinality(counted \cup {g}) = Cardinality(counted) + 1
        <3> HIDE DEF counted
        <3> QED
            BY <2>1, <2>2, FS_AddElement
    <2> QED
        BY <1>2, <2>1, <2>3 DEF FilesDoneCounts
<1> QED
    BY <1>1, <1>2, CountedMoves

-------------------------------------------------------------------------------
(* Errors.  Each flag was reported, and so was each trim that failed.      *)

ErrorsReported ==
    /\ errors = 0 <=> statErrors = 0
    /\ \A f \in Files : failed[f] => statErrors > 0
    /\ \A f \in Files : Counted(f) =>
           eof[f] = Size[f] \/ ("trim" \in Faults /\ statErrors > 0)

LEMMA ErrorsInit == Init => ErrorsReported
<1> SUFFICES ASSUME Init
             PROVE  ErrorsReported
    OBVIOUS
<1>1. ASSUME NEW f \in Files
      PROVE  ~Counted(f)
    <2>1. \E j \in Left(Uncounted) : FileOf(j) = f
        BY PlanAssumption, JobCount DEF Init, Left, FileOf
    <2> QED
        BY <2>1, OnItsWay, TypeInit, CountsInit
<1> QED
    BY <1>1 DEF Init, ErrorsReported

\* The counters of errors grow together, where a call fails or a file is finalized.
LEMMA ReportMoves ==
    ASSUME [Next]_vars
    PROVE  \/ UNCHANGED report
           \/ Fail /\ \E w \in Workers : Loses(w) \/ Finalize(w)
<1> USE DEF report, Loses
<1>1. ASSUME NEW w \in Workers, TryRead(w)
      PROVE  UNCHANGED report \/ (Fail /\ (Loses(w) \/ Finalize(w)))
    BY <1>1 DEF TryRead, AcquireFree, WaitFree, AcquireTimeout, ClaimJob, ClaimNothing, ReadFails, Read, PushFilled
<1>2. ASSUME NEW w \in Workers, TryWrite(w)
      PROVE  UNCHANGED report \/ (Fail /\ (Loses(w) \/ Finalize(w)))
    BY <1>2 DEF TryWrite, PopFilled, WaitFilled, PopTimeout, CheckPrepared, AlreadyPrepared,
                PrepareDestination, PrepareFails, OpenDstFails, WriteFails, Write
<1>3. ASSUME NEW w \in Workers, PickSide(w) \/ Exit(w) \/ Settle(w)
      PROVE  UNCHANGED report \/ (Fail /\ (Loses(w) \/ Finalize(w)))
    BY <1>3 DEF PickSide, Exit, Settle, ReleaseBuffer, ForfeitJob, RetireJob, CountDone, Finalize
<1>4. ASSUME RunBulk \/ SchedulerExit \/ UNCHANGED vars
      PROVE  UNCHANGED report
    BY <1>4 DEF RunBulk, StopScheduler, ShutdownRings, Return, SchedulerExit, vars
<1> QED
    BY <1>1, <1>2, <1>3, <1>4 DEF Next, Worker, Finished

\* The length of a file changes when it is created and when it is trimmed.
LEMMA LengthMoves ==
    ASSUME [Next]_vars
    PROVE  \/ UNCHANGED eof
           \/ \E w \in Workers :
                 /\ PrepareDestination(w) \/ PrepareFails(w)
                 /\ ~prepared[FileOf(job[w])]
                 /\ \E n : eof' = [eof EXCEPT ![FileOf(job[w])] = n]
           \/ \E w \in Workers : Finalize(w) /\ eof' = [eof EXCEPT ![FileOf(job[w])] = Size[FileOf(job[w])]]
<1> USE DEF dest
<1>1. ASSUME NEW w \in Workers, TryRead(w)
      PROVE  UNCHANGED eof
    BY <1>1 DEF TryRead, AcquireFree, WaitFree, AcquireTimeout, ClaimJob, ClaimNothing, ReadFails, Read, PushFilled
<1>2. ASSUME NEW w \in Workers, PrepareDestination(w) \/ PrepareFails(w)
      PROVE  \/ UNCHANGED eof
             \/ /\ ~prepared[FileOf(job[w])]
                /\ \E n : eof' = [eof EXCEPT ![FileOf(job[w])] = n]
    BY <1>2 DEF PrepareDestination, PrepareFails, SetLen
<1>3. ASSUME NEW w \in Workers, TryWrite(w)
      PROVE  UNCHANGED eof \/ PrepareDestination(w) \/ PrepareFails(w)
    BY <1>3 DEF TryWrite, PopFilled, WaitFilled, PopTimeout, CheckPrepared, AlreadyPrepared,
                OpenDstFails, WriteFails, Write
<1>4. ASSUME NEW w \in Workers, PickSide(w) \/ Exit(w) \/ Settle(w)
      PROVE  \/ UNCHANGED eof
             \/ Finalize(w) /\ eof' = [eof EXCEPT ![FileOf(job[w])] = Size[FileOf(job[w])]]
    BY <1>4 DEF PickSide, Exit, Settle, ReleaseBuffer, ForfeitJob, RetireJob, CountDone, Finalize, SetLen
<1>5. ASSUME RunBulk \/ SchedulerExit \/ UNCHANGED vars
      PROVE  UNCHANGED eof
    BY <1>5 DEF RunBulk, StopScheduler, ShutdownRings, Return, SchedulerExit, vars
<1> QED
    BY <1>1, <1>2, <1>3, <1>4, <1>5 DEF Next, Worker, Finished

LEMMA ErrorsStep ==
    ASSUME TypeInv, JobsApart, LandingInv, BytesInv, FailedIffLost, DoneCounts, FinalizedOnce,
           ErrorsReported, [Next]_vars
    PROVE  ErrorsReported'
<1>0. /\ statErrors \in Nat /\ errors \in 0..ErrorCap /\ ErrorCap \in Nat \ {0}
      /\ eof \in [Files -> Nat] /\ failed \in [Files -> BOOLEAN]
    BY OptionAssumption DEF TypeInv, TypeOK, ReportOK, DestOK, EntriesOK
<1>1. /\ errors' = 0 <=> statErrors' = 0
      /\ statErrors > 0 => statErrors' > 0
      /\ Fail => statErrors' > 0
    BY <1>0, ReportMoves DEF ErrorsReported, Fail, report
<1>2. ASSUME NEW f \in Files, failed'[f]
      PROVE  statErrors' > 0
    <2>1. CASE \E w \in Workers : Loses(w)
        BY <1>1, <2>1, LosesOne
    <2>2. CASE \A w \in Workers : ~Loses(w)
        <3>1. UNCHANGED failed
            BY <2>2, LandsOne, OutcomeKept
        <3> QED
            BY <1>1, <1>2, <3>1 DEF ErrorsReported
    <2> QED
        BY <2>1, <2>2
<1>3. ASSUME NEW f \in Files, Counted(f)'
      PROVE  eof'[f] = Size[f] \/ ("trim" \in Faults /\ statErrors' > 0)
    <2>1. CASE Counted(f)
        <3>1. prepared[f]
            <4>1. \E j \in JobIds : FileOf(j) = f
                BY PlanAssumption DEF FileOf
            <4>2. FileLanded(f)
                BY <2>1, CountedLanded DEF Counted
            <4> QED
                BY <4>1, <4>2 DEF FileLanded, JobsOf, LandingInv
        <3>2. eof'[f] = eof[f] \/ eof'[f] = Size[f]
            BY <1>0, <3>1, LengthMoves
        <3> QED
            BY <1>1, <2>1, <3>2 DEF ErrorsReported
    <2>2. CASE ~Counted(f)
        <3>1. PICK w \in Workers : Finalize(w) /\ f = FileOf(job[w])
            BY <1>3, <2>2, CountedMoves
        <3> QED
            BY <1>0, <1>1, <3>1 DEF Finalize, SetLen
    <2> QED
        BY <2>1, <2>2
<1> QED
    BY <1>1, <1>2, <1>3 DEF ErrorsReported

-------------------------------------------------------------------------------
(* The end.  Workers leave when nothing remains, and run_bulk goes on when   *)
(* they have all left.                                                     *)

EndsSettled ==
    /\ main # "joining" => \A w \in Workers : pc[w] = "exited"
    /\ \A w \in Workers : pc[w] = "exited" => remaining = 0

LEMMA EndInit == Init => EndsSettled
BY DEF Init, EndsSettled

\* A worker that has left takes no step, and one leaves only from its loop.
LEMMA ExitMoves ==
    ASSUME TypeInv, [Next]_vars
    PROVE  /\ \A w \in Workers : pc[w] = "exited" => pc'[w] = "exited"
           /\ \A w \in Workers : pc'[w] = "exited" => pc[w] = "exited" \/ remaining = 0
           /\ main' # main => main # "joining" \/ \A w \in Workers : pc[w] = "exited"
<1> USE DEF At, Goto
<1>0. pc \in [Workers -> Labels]
    BY DEF TypeInv, TypeOK, WorkersOK
<1> DEFINE Goal ==
        /\ \A w \in Workers : pc[w] = "exited" => pc'[w] = "exited"
        /\ \A w \in Workers : pc'[w] = "exited" => pc[w] = "exited" \/ remaining = 0
        /\ main' # main => main # "joining" \/ \A w \in Workers : pc[w] = "exited"
<1>1. ASSUME NEW w \in Workers, PickSide(w) \/ Exit(w)
      PROVE  Goal
    BY <1>0, <1>1 DEF PickSide, Exit, control
<1>2. ASSUME NEW w \in Workers, AcquireFree(w) \/ WaitFree(w) \/ AcquireTimeout(w) \/ ClaimNothing(w)
      PROVE  Goal
    BY <1>0, <1>2 DEF AcquireFree, WaitFree, AcquireTimeout, GiveUp, ClaimNothing, control
<1>3. ASSUME NEW w \in Workers, ClaimJob(w) \/ ReadFails(w) \/ Read(w) \/ PushFilled(w)
      PROVE  Goal
    BY <1>0, <1>3 DEF ClaimJob, ReadFails, Read, PushFilled, control
<1>4. ASSUME NEW w \in Workers, PopFilled(w) \/ WaitFilled(w) \/ PopTimeout(w) \/ CheckPrepared(w)
      PROVE  Goal
    BY <1>0, <1>4 DEF PopFilled, WaitFilled, PopTimeout, GiveUp, CheckPrepared, control
<1>5. ASSUME NEW w \in Workers, AlreadyPrepared(w) \/ PrepareDestination(w) \/ PrepareFails(w)
      PROVE  Goal
    BY <1>0, <1>5 DEF AlreadyPrepared, PrepareDestination, PrepareFails, control
<1>6. ASSUME NEW w \in Workers, OpenDstFails(w) \/ WriteFails(w) \/ Write(w)
      PROVE  Goal
    BY <1>0, <1>6 DEF OpenDstFails, WriteFails, Write, control
<1>7. ASSUME NEW w \in Workers, Settle(w)
      PROVE  Goal
    BY <1>0, <1>7 DEF Settle, ReleaseBuffer, ForfeitJob, RetireJob, CountDone, Finalize, control
<1>8. ASSUME RunBulk \/ SchedulerExit \/ UNCHANGED vars
      PROVE  Goal
    BY <1>8 DEF RunBulk, StopScheduler, ShutdownRings, Return, SchedulerExit, vars, worker, control
<1> HIDE DEF Goal
<1>9. Goal
    BY <1>1, <1>2, <1>3, <1>4, <1>5, <1>6, <1>7, <1>8 DEF Next, Worker, TryRead, TryWrite, Finished
<1> QED
    BY <1>9 DEF Goal

LEMMA EndStep ==
    ASSUME TypeInv, TypeInv', JobsApart, RemainingIsExact, EndsSettled, [Next]_vars
    PROVE  EndsSettled'
<1>1. remaining = 0 => remaining' = 0
    <2>1. remaining = 0 => Unretired = {}
        BY UnretiredFinite, FS_EmptySet DEF RemainingIsExact
    <2> QED
        BY <2>1, RetirementOnly
<1>2. \A w \in Workers : pc'[w] = "exited" => remaining' = 0
    BY <1>1, ExitMoves DEF EndsSettled
<1>3. main' # "joining" => \A w \in Workers : pc'[w] = "exited"
    BY ExitMoves DEF EndsSettled
<1> QED
    BY <1>2, <1>3 DEF EndsSettled

-------------------------------------------------------------------------------
OutcomeInv ==
    /\ TypeInv /\ BufferOwnership /\ NoBufferLeaked
    /\ JobsApart /\ RemainingIsExact /\ BytesInv /\ LandingInv
    /\ FailedIffLost /\ DoneCounts /\ FinalizedOnce /\ FilesDoneCounts
    /\ ErrorsReported /\ EndsSettled

LEMMA OutcomeInit == Init => OutcomeInv
BY TypeInit, OwnershipInit, JobsApartInit, RemainingInit, BytesInit, LandingInit,
   LossesInit, CountsInit, FilesDoneInit, ErrorsInit, EndInit DEF OutcomeInv

LEMMA OutcomeStep == OutcomeInv /\ [Next]_vars => OutcomeInv'
<1> SUFFICES ASSUME OutcomeInv, [Next]_vars
             PROVE  OutcomeInv'
    OBVIOUS
<1> USE DEF OutcomeInv
<1>1. TypeInv'
    BY TypeStep
<1>2. BufferOwnership' /\ NoBufferLeaked'
    BY <1>1, OwnershipStep, NoLeakStep
<1>3. JobsApart' /\ RemainingIsExact' /\ EndsSettled'
    BY <1>1, JobsApartStep, RemainingStep, EndStep
<1>4. BytesInv' /\ LandingInv'
    BY BytesStep, LandingStep
<1>5. FailedIffLost' /\ DoneCounts' /\ FinalizedOnce' /\ FilesDoneCounts'
    BY LossesStep, DoneStep, FinalizedStep, FilesDoneStep
<1>6. ErrorsReported'
    BY ErrorsStep
<1> QED
    BY <1>1, <1>2, <1>3, <1>4, <1>5, <1>6

LEMMA OutcomeAlways == Spec => []OutcomeInv
BY OutcomeInit, OutcomeStep, PTL DEF Spec

\* Once the workers have left nothing is on its way, so a file is counted if it
\* has landed, and has landed if it is not flagged.
LEMMA AllSettled ==
    ASSUME OutcomeInv, main # "joining"
    PROVE  /\ Open = {}
           /\ \A f \in Files : /\ Counted(f) <=> ~failed[f]
                               /\ Counted(f) <=> FileLanded(f)
<1> USE DEF OutcomeInv
<1>1. \A w \in Workers : pc[w] = "exited"
    BY DEF EndsSettled
<1>2. Unretired = {}
    <2>1. remaining = 0
        BY <1>1, PoolAssumption DEF EndsSettled
    <2> QED
        BY <2>1, UnretiredFinite, FS_EmptySet DEF RemainingIsExact
<1>3. Left(Uncounted) = {} /\ Open = {}
    BY <1>1, <1>2 DEF Left, Open, Unretired, Uncounted, HoldsJob, Working
<1>4. ASSUME NEW f \in Files
      PROVE  /\ Counted(f) <=> ~failed[f]
             /\ Counted(f) <=> FileLanded(f)
    <2>1. Counted(f) <=> ~failed[f]
        <3>1. ~failed[f] => done[f] = Chunks(f)
            BY <1>3 DEF DoneCounts, Passed, Chunks
        <3> QED
            BY <1>1, <3>1 DEF Counted, At
    <2>2. failed[f] <=> ~FileLanded(f)
        BY <1>3 DEF FailedIffLost, Lost, FileLanded
    <2> QED
        BY <2>1, <2>2
<1> QED
    BY <1>3, <1>4

\* files_done is never ahead of the files that have landed whole, and has
\* caught up with them when run_bulk returns, in whatever order the chunks of
\* the files were written, dropped and counted.
THEOREM FilesCountedRight == Spec => []FilesCounted
<1>1. OutcomeInv => FilesCounted
    <2> SUFFICES ASSUME OutcomeInv
                 PROVE  FilesCounted
        OBVIOUS
    <2> DEFINE counted == {f \in Files : Counted(f)}
               landed  == {f \in Files : FileLanded(f)}
    <2>1. counted \in SUBSET landed
        BY CountedLanded DEF OutcomeInv, Counted
    <2>2. IsFiniteSet(landed)
        BY FilesFinite, FS_Subset
    <2>3. filesDone = Cardinality(counted)
        BY DEF OutcomeInv, FilesDoneCounts
    <2>4. main = "returned" => counted = landed
        BY AllSettled
    <2> HIDE DEF counted, landed
    <2>5. Cardinality(counted) <= Cardinality(landed)
        BY <2>1, <2>2, FS_Subset
    <2> QED
        BY <2>3, <2>4, <2>5 DEF FilesCounted, counted, landed
<1> QED
    BY <1>1, OutcomeAlways, PTL

\* The error of one chunk stays with its file.  A failed trim is the one error
\* that flags no file, so the files' lengths need trims to succeed.
THEOREM FailuresStayApart ==
    ASSUME "trim" \notin Faults
    PROVE  Spec => []FailureIsolated
<1>1. OutcomeInv => FailureIsolated
    BY AllSettled DEF FailureIsolated, OutcomeInv, ErrorsReported
<1> QED
    BY <1>1, OutcomeAlways, PTL

\* Whatever fails, trims included: every file none of whose calls failed has
\* landed whole when run_bulk returns, and is counted.
THEOREM UnflaggedLanded ==
    Spec => [](main = "returned" =>
                   \A f \in Files : failed[f] \/ (FileLanded(f) /\ Counted(f)))
<1>1. OutcomeInv => (main = "returned" =>
                        \A f \in Files : failed[f] \/ (FileLanded(f) /\ Counted(f)))
    BY AllSettled
<1> QED
    BY <1>1, OutcomeAlways, PTL

-------------------------------------------------------------------------------
(* Nobody waits on everybody.                                              *)

\* While jobs remain every worker is still in its loop, and there is something
\* for one of them to do: a job in a worker's hands, one in the filled ring, or
\* an unclaimed one with a buffer, free or at the cursor already, to read it into.
WorkInReach ==
    remaining # 0 =>
        /\ \A w \in Workers : ~At(w, "exited")
        /\ \/ \E w \in Workers : pc[w] \in HoldsJob \ Retired
           \/ filled # <<>>
           \/ cursor < Len(Jobs) /\ (free # {} \/ \E w \in Workers : At(w, "claim"))

\* Readers out of buffers and writers out of chunks are never all there is: the
\* buffers are too few for the jobs, each side waits for the other, and still no
\* order of the exits of try_read and try_write leaves the workers waiting for
\* what none of them has.  It is what the timed waits of `worker` count on.
THEOREM WorkStaysInReach == Spec => []WorkInReach
<1>1. OutcomeInv => WorkInReach
    <2> SUFFICES ASSUME OutcomeInv, remaining # 0
                 PROVE  WorkInReach
        BY DEF WorkInReach
    <2> DEFINE Holding == \E w \in Workers : pc[w] \in HoldsJob \ Retired
               Claiming == \E w \in Workers : At(w, "claim")
    <2>1. \A w \in Workers : ~At(w, "exited")
        BY DEF OutcomeInv, EndsSettled, At
    <2>2. PICK j \in Unretired : TRUE
        BY UnretiredFinite, FS_EmptySet DEF OutcomeInv, RemainingIsExact
    <2>3. Holding \/ filled # <<>> \/ cursor < Len(Jobs)
        <3>1. CASE j \in JobIds /\ j > cursor
            BY <3>1, JobCount DEF JobIds, OutcomeInv, TypeInv, TypeOK, ClaimsOK
        <3>2. CASE \E w \in Workers : job[w] # 0 /\ pc[w] \notin Retired
            BY <3>2 DEF OutcomeInv, TypeInv, Shape
        <3>3. CASE \E i \in InFlight : TRUE
            BY <3>3 DEF InFlight
        <3> QED
            BY <2>2, <3>1, <3>2, <3>3 DEF Unretired
    <2>4. Holding \/ filled # <<>> \/ free # {} \/ Claiming
        <3>1. PICK b \in Buffers : TRUE
            BY PoolAssumption
        <3>2. CASE b \in free
            BY <3>2
        <3>3. CASE \E w \in Workers : Holds(w)
            BY <3>3 DEF OutcomeInv, TypeInv, Shape, Holds, HoldsBuffer, HoldsJob, Retired, At
        <3>4. CASE \E i \in InFlight : TRUE
            BY <3>4 DEF InFlight
        <3> QED
            BY <3>1, <3>2, <3>3, <3>4 DEF OutcomeInv, NoBufferLeaked
    <2> QED
        BY <2>1, <2>3, <2>4 DEF WorkInReach
<1> QED
    BY <1>1, OutcomeAlways, PTL

-------------------------------------------------------------------------------
(* Sources that keep the size the scan recorded.                           *)

Unzeroed ==
    /\ \A b \in Buffers : arena[b].kind # "zeroed"
    /\ \A j \in JobIds : disk[j].kind # "zeroed"

LEMMA UnzeroedInit == Init => Unzeroed
BY DEF Init, Unzeroed, NoData

LEMMA UnzeroedStep ==
    ASSUME "short_read" \notin Faults, TypeInv, Unzeroed, [Next]_vars
    PROVE  Unzeroed'
<1> USE DEF At, dest, rings
<1>0. /\ arena \in [Buffers -> Cells] /\ disk \in [JobIds -> Cells]
      /\ job \in [Workers -> {0} \cup JobIds]
      /\ buf \in [Workers -> Buffers \cup {NoBuffer}]
    BY DEF TypeInv, TypeOK, WorkersOK, RingsOK, DestOK
<1>1. ASSUME NEW w \in Workers, Read(w)
      PROVE  Unzeroed'
    <2>1. \A d \in ReadResults(job[w]) : d.kind = "whole"
        BY DEF ReadResults, ReadAt, Data
    <2> QED
        BY <1>0, <1>1, <2>1 DEF Read, Unzeroed
<1>2. ASSUME NEW w \in Workers, Write(w)
      PROVE  Unzeroed'
    <2>1. buf[w] \in Buffers
        BY <1>0, <1>2 DEF Write, TypeInv, Shape, HoldsBuffer
    <2> QED
        BY <1>0, <1>2, <2>1 DEF Write, WriteAt, Unzeroed
<1>3. ASSUME NEW w \in Workers, PrepareDestination(w) \/ PrepareFails(w)
      PROVE  Unzeroed'
    <2>1. UNCHANGED arena
        BY <1>3 DEF PrepareDestination, PrepareFails
    <2>2. UNCHANGED disk \/ \E k \in {"hole", "stale"} : disk' = Recreated(FileOf(job[w]), k)
        BY <1>3 DEF PrepareDestination, PrepareFails, Unwritten
    <2> QED
        BY <2>1, <2>2 DEF Recreated, NoData, Unzeroed
<1>4. ASSUME UNCHANGED <<arena, disk>>
      PROVE  Unzeroed'
    BY <1>4 DEF Unzeroed
<1>5. ASSUME NEW w \in Workers, TryRead(w)
      PROVE  UNCHANGED <<arena, disk>> \/ Read(w)
    BY <1>5 DEF TryRead, AcquireFree, WaitFree, AcquireTimeout, ClaimJob, ClaimNothing, ReadFails, PushFilled
<1>6. ASSUME NEW w \in Workers, TryWrite(w)
      PROVE  UNCHANGED <<arena, disk>> \/ Write(w) \/ PrepareDestination(w) \/ PrepareFails(w)
    BY <1>6 DEF TryWrite, PopFilled, WaitFilled, PopTimeout, CheckPrepared, AlreadyPrepared, OpenDstFails, WriteFails
<1>7. ASSUME NEW w \in Workers, PickSide(w) \/ Exit(w) \/ Settle(w)
      PROVE  UNCHANGED <<arena, disk>>
    BY <1>7 DEF PickSide, Exit, Settle, ReleaseBuffer, ForfeitJob, RetireJob, CountDone, Finalize
<1>8. ASSUME RunBulk \/ SchedulerExit \/ UNCHANGED vars
      PROVE  UNCHANGED <<arena, disk>>
    BY <1>8 DEF RunBulk, StopScheduler, ShutdownRings, Return, SchedulerExit, vars
<1> QED
    BY <1>1, <1>2, <1>3, <1>4, <1>5, <1>6, <1>7, <1>8 DEF Next, Worker, Finished

\* README, Status: a bulk copy that kept no error has copied every chunk and
\* given every file its exact length, whichever calls could have failed.  A
\* source that shrinks during the copy is the one exception (run
\* bulk_short_read), so every read is assumed to return what was asked for.
THEOREM NoErrorNoShortfall ==
    ASSUME "short_read" \notin Faults
    PROVE  Spec => []ShortfallReported
<1>1. Unzeroed /\ OutcomeInv => ShortfallReported
    <2> SUFFICES ASSUME Unzeroed, OutcomeInv, main = "returned", errors = 0
                 PROVE  /\ \A j \in JobIds : disk[j] = Data(j, "whole")
                        /\ \A f \in Files : eof[f] = Size[f]
        BY DEF ShortfallReported
    <2>1. statErrors = 0 /\ \A f \in Files : ~failed[f] /\ Counted(f) /\ FileLanded(f)
        <3>1. statErrors = 0 /\ \A f \in Files : failed[f] => statErrors > 0
            BY DEF OutcomeInv, ErrorsReported
        <3>2. \A f \in Files : failed[f] \in BOOLEAN
            BY DEF OutcomeInv, TypeInv, TypeOK, EntriesOK
        <3> QED
            BY <3>1, <3>2, AllSettled
    <2>2. ASSUME NEW j \in JobIds
          PROVE  disk[j] = Data(j, "whole")
        <3>1. Landed(j)
            BY <2>1, JobType DEF FileLanded, JobsOf
        <3>2. disk[j] \in OwnData(j)
            BY <3>1 DEF OutcomeInv, BytesInv, OwnBytes, OwnData
        <3> QED
            BY <3>2 DEF OwnData, Data, Unzeroed
    <2>3. ASSUME NEW f \in Files
          PROVE  eof[f] = Size[f]
        BY <2>1 DEF OutcomeInv, ErrorsReported
    <2> QED
        BY <2>2, <2>3
<1>2. OutcomeInv /\ Unzeroed /\ [Next]_vars => Unzeroed'
    BY UnzeroedStep DEF OutcomeInv
<1> QED
    BY <1>1, <1>2, UnzeroedInit, OutcomeAlways, PTL DEF Spec

-------------------------------------------------------------------------------
(* Refinement.  A failing call is Lose, a write Land, the finalization of an *)
(* unflagged file Copy, the return of run_bulk Return; every other step      *)
(* stutters.                                                               *)

LEMMA ChunkIsJob == Abstract!Chunk = JobIds
BY JobType DEF Abstract!Chunk, JobsOf

LEMMA LandedOutcome ==
    ASSUME TypeInv, BytesInv, NEW j \in JobIds
    PROVE  /\ outcomeBar[j] \in {"whole", "zeroed"} <=> Landed(j)
           /\ outcomeBar[j] = "open" <=> ~Landed(j) /\ j \in Open
           /\ outcomeBar[j] = "lost" <=> Lost(j)
<1>1. Landed(j) => disk[j].kind \in {"whole", "zeroed"}
    BY DEF BytesInv, OwnBytes, Data
<1> QED
    BY <1>1 DEF outcomeBar, Lost

LEMMA OutcomeBarNext ==
    outcomeBar' = [j \in JobIds |-> IF Landed(j)' THEN disk'[j].kind
                                    ELSE IF j \in Open' THEN "open" ELSE "lost"]
BY DEF outcomeBar

\* The call returns in a step of its own.
LEMMA MainMoves ==
    ASSUME [Next]_vars
    PROVE  \/ (main' = "returned") <=> (main = "returned")
           \/ Return
<1>1. ASSUME NEW w \in Workers, Worker(w)
      PROVE  UNCHANGED main
    <2>1. CASE PickSide(w) \/ Exit(w)
        BY <2>1 DEF PickSide, Exit, control
    <2>2. CASE TryRead(w)
        BY <2>2 DEF TryRead, AcquireFree, WaitFree, AcquireTimeout, ClaimJob, ClaimNothing, ReadFails, Read, PushFilled, control
    <2>3. CASE TryWrite(w)
        BY <2>3 DEF TryWrite, PopFilled, WaitFilled, PopTimeout, CheckPrepared, AlreadyPrepared,
                    PrepareDestination, PrepareFails, OpenDstFails, WriteFails, Write, control
    <2>4. CASE Settle(w)
        BY <2>4 DEF Settle, ReleaseBuffer, ForfeitJob, RetireJob, CountDone, Finalize, control
    <2> QED
        BY <1>1, <2>1, <2>2, <2>3, <2>4 DEF Worker
<1>2. ASSUME RunBulk \/ SchedulerExit \/ UNCHANGED vars
      PROVE  \/ (main' = "returned") <=> (main = "returned")
             \/ Return
    BY <1>2 DEF RunBulk, StopScheduler, ShutdownRings, SchedulerExit, vars, control
<1> QED
    BY <1>1, <1>2 DEF Next, Finished

\* A step is one worker's.
LEMMA StepsApart ==
    ASSUME TypeInv, NEW w \in Workers, NEW v \in Workers, Loses(w) \/ Write(w)
    PROVE  ~Finalize(v) /\ ~Return
<1> USE DEF At, Goto
<1>0. pc \in [Workers -> Labels]
    BY DEF TypeInv, TypeOK, WorkersOK
<1>1. pc[w] \in {"read", "lock", "write"} /\ pc'[w] # pc[w]
    BY <1>0 DEF Loses, ReadFails, PrepareFails, OpenDstFails, WriteFails, Write
<1>2. Finalize(v) => pc[w] = "finalize" \/ pc'[w] = pc[w]
    BY <1>0 DEF Finalize
<1>3. Return => pc'[w] = pc[w]
    BY DEF Return, worker
<1> QED
    BY <1>1, <1>2, <1>3

copiedBar == {f \in Files : Counted(f)}

LEMMA AbstractInit == Init => Abstract!Init
<1> SUFFICES ASSUME Init
             PROVE  Abstract!Init
    OBVIOUS
<1>1. outcomeBar = [c \in Abstract!Chunk |-> "open"]
    <2>1. \A j \in JobIds : j \in Open
        BY JobCount DEF Init, Open
    <2>2. \A j \in JobIds : ~Landed(j)
        BY NoDataIsNotData DEF Init, Landed
    <2> QED
        BY <2>1, <2>2, ChunkIsJob DEF outcomeBar
<1>2. copiedBar = {}
    <2>1. ASSUME NEW f \in Files
          PROVE  ~Counted(f)
        <3>1. \E j \in Left(Uncounted) : FileOf(j) = f
            BY PlanAssumption, JobCount DEF Init, Left, FileOf
        <3> QED
            BY <3>1, OnItsWay, TypeInit, CountsInit
    <2> QED
        BY <2>1 DEF copiedBar
<1>3. ~(statErrors > 0) /\ main # "returned"
    BY DEF Init
<1> QED
    BY <1>1, <1>2, <1>3 DEF Abstract!Init, copiedBar

\* A failing call is Lose.
LEMMA LosesRefines ==
    ASSUME OutcomeInv, [Next]_vars, NEW w \in Workers, Loses(w)
    PROVE  Abstract!Lose(job[w])
<1> USE DEF OutcomeInv
<1>1. /\ job[w] \in JobIds /\ job[w] \in Open /\ ~Landed(job[w])
      /\ Open' = Open \ {job[w]}
      /\ \A j \in JobIds : Landed(j)' <=> Landed(j)
      /\ Fail
    BY LosesOne
<1>2. outcomeBar[job[w]] = "open"
    BY <1>1, LandedOutcome
<1>3. outcomeBar' = [outcomeBar EXCEPT ![job[w]] = "lost"]
    <2>1. \A j \in JobIds : Landed(j) => disk'[j] = disk[j]
        BY LandedStays
    <2> QED
        BY <1>1, <2>1, OutcomeBarNext DEF outcomeBar
<1>4. copiedBar' = copiedBar
    BY StepsApart, CountedMoves DEF copiedBar
<1>5. statErrors' > 0
    BY <1>1 DEF Fail, TypeInv, TypeOK, ReportOK
<1>6. (main' = "returned") <=> (main = "returned")
    BY StepsApart, MainMoves
<1> QED
    BY <1>2, <1>3, <1>4, <1>5, <1>6 DEF Abstract!Lose, copiedBar

\* A write is Land.
LEMMA WriteRefines ==
    ASSUME OutcomeInv, [Next]_vars, NEW w \in Workers, Write(w)
    PROVE  Abstract!Land(job[w])
<1> USE DEF OutcomeInv
<1>1. /\ job[w] \in JobIds /\ job[w] \in Open /\ ~Landed(job[w])
      /\ Open' = Open \ {job[w]}
      /\ \A j \in JobIds : Landed(j)' <=> Landed(j) \/ j = job[w]
      /\ disk'[job[w]].kind \in {"whole", "zeroed"}
      /\ \A j \in JobIds : j # job[w] => disk'[j] = disk[j]
      /\ UNCHANGED statErrors
    BY LandsOne
<1>2. outcomeBar[job[w]] = "open"
    BY <1>1, LandedOutcome
<1>3. outcomeBar' = [outcomeBar EXCEPT ![job[w]] = disk'[job[w]].kind]
    BY <1>1, OutcomeBarNext DEF outcomeBar
<1>4. copiedBar' = copiedBar
    BY StepsApart, CountedMoves DEF copiedBar
<1>5. (main' = "returned") <=> (main = "returned")
    BY StepsApart, MainMoves
<1> QED
    BY <1>1, <1>2, <1>3, <1>4, <1>5 DEF Abstract!Land, Abstract!LandedOutcomes, copiedBar

\* Every other step leaves the outcomes as they are.
LEMMA OutcomeBarKept ==
    ASSUME OutcomeInv, [Next]_vars, \A w \in Workers : ~Loses(w) /\ ~Write(w)
    PROVE  outcomeBar' = outcomeBar
<1>1. Open' = Open /\ \A j \in JobIds : Landed(j)' <=> Landed(j)
    BY OutcomeKept DEF OutcomeInv
<1>2. \A j \in JobIds : Landed(j) => disk'[j] = disk[j]
    BY LandedStays DEF OutcomeInv
<1> QED
    BY <1>1, <1>2, OutcomeBarNext DEF outcomeBar

\* The finalization of an unflagged file is Copy.
LEMMA FinalizeRefines ==
    ASSUME OutcomeInv, [Next]_vars, \A w \in Workers : ~Loses(w) /\ ~Write(w),
           (main' = "returned") <=> (main = "returned"),
           NEW w \in Workers, Finalize(w), ~failed[FileOf(job[w])],
           FileOf(job[w]) \in Files, ~Counted(FileOf(job[w])),
           \A f \in Files : Counted(f)' <=> Counted(f) \/ f = FileOf(job[w])
    PROVE  Abstract!Copy(FileOf(job[w]))
<1> USE DEF OutcomeInv
<1>1. FileLanded(FileOf(job[w]))
    <2>1. done[FileOf(job[w])] = Chunks(FileOf(job[w]))
        BY DEF Finalize, FinalizedOnce, At
    <2> QED
        BY <2>1, CountedLanded
<1>2. \A c \in JobsOf(FileOf(job[w])) : outcomeBar[c] \in {"whole", "zeroed"}
    BY <1>1, LandedOutcome DEF FileLanded, JobsOf
<1>3. copiedBar' = copiedBar \cup {FileOf(job[w])}
    BY DEF copiedBar
<1>4. statErrors' = statErrors \/ statErrors' > 0
    BY DEF Finalize, Fail, report, TypeInv, TypeOK, ReportOK
<1>5. (statErrors > 0)' \in {statErrors > 0, TRUE}
    <2>1. CASE statErrors' = statErrors
        BY <2>1
    <2>2. CASE statErrors' > 0
        BY <2>2, Zenon
    <2> QED
        BY <1>4, <2>1, <2>2
<1>6. outcomeBar' = outcomeBar
    BY OutcomeBarKept
<1>7. Abstract!AllLanded(FileOf(job[w])) /\ FileOf(job[w]) \notin copiedBar
    BY <1>2 DEF Abstract!AllLanded, Abstract!LandedOutcomes, copiedBar
<1> QED
    BY <1>3, <1>5, <1>6, <1>7, Zenon DEF Abstract!Copy, copiedBar

\* The return of run_bulk is Return.
LEMMA ReturnRefines ==
    ASSUME OutcomeInv, [Next]_vars, Return
    PROVE  Abstract!Return
<1> USE DEF OutcomeInv
<1>1. /\ main = "draining" /\ main' = "returned" /\ UNCHANGED <<statErrors, done, failed, pc, job>>
    BY DEF Return, report, entry, worker
<1>2. outcomeBar' = outcomeBar /\ copiedBar' = copiedBar
    <2>1. UNCHANGED <<pc, job, filled, cursor, disk>>
        BY DEF Return, worker, rings, claims, dest
    <2> QED
        BY <1>1, <2>1 DEF outcomeBar, Open, InFlight, Landed, copiedBar, Counted, Chunks, At
<1>3. /\ Open = {}
      /\ \A f \in Files : Counted(f) <=> FileLanded(f)
    BY <1>1, AllSettled
<1>4. \A c \in JobIds : outcomeBar[c] # "open"
    BY <1>3, LandedOutcome
<1>5. \A f \in Files : (\A c \in JobsOf(f) : outcomeBar[c] \in {"whole", "zeroed"}) => f \in copiedBar
    BY <1>3, LandedOutcome DEF FileLanded, JobsOf, copiedBar
<1> QED
    BY <1>1, <1>2, <1>4, <1>5, ChunkIsJob
       DEF Abstract!Return, Abstract!AllLanded, Abstract!LandedOutcomes, copiedBar

LEMMA AbstractStep ==
    ASSUME OutcomeInv, [Next]_vars
    PROVE  [Abstract!Next]_(Abstract!vars)
<1> USE DEF OutcomeInv
<1>1. ASSUME NEW w \in Workers, Loses(w) \/ Write(w)
      PROVE  Abstract!Next
    <2>1. job[w] \in Abstract!Chunk
        BY <1>1, LosesOne, LandsOne, ChunkIsJob
    <2> QED
        BY <1>1, <2>1, LosesRefines, WriteRefines DEF Abstract!Next
<1>2. CASE Return
    BY <1>2, ReturnRefines DEF Abstract!Next
<1>3. CASE /\ ~Return
           /\ \A w \in Workers : ~Loses(w) /\ ~Write(w)
    <2>1. (main' = "returned") <=> (main = "returned")
        BY <1>3, MainMoves
    <2>2. ASSUME NEW w \in Workers, Finalize(w), ~failed[FileOf(job[w])],
                 FileOf(job[w]) \in Files, ~Counted(FileOf(job[w])),
                 \A f \in Files : Counted(f)' <=> Counted(f) \/ f = FileOf(job[w])
          PROVE  Abstract!Next
        BY <1>3, <2>1, <2>2, FinalizeRefines DEF Abstract!Next
    <2>3. ASSUME \A f \in Files : Counted(f)' <=> Counted(f), UNCHANGED filesDone
          PROVE  UNCHANGED Abstract!vars
        <3>1. copiedBar' = copiedBar
            BY <2>3 DEF copiedBar
        <3>2. outcomeBar' = outcomeBar
            BY <1>3, OutcomeBarKept
        <3>3. (statErrors' > 0) <=> (statErrors > 0)
            <4>1. ASSUME NEW w \in Workers, Finalize(w)
                  PROVE  statErrors > 0
                <5>1. failed[FileOf(job[w])] /\ FileOf(job[w]) \in Files
                    BY <2>3, <4>1, JobType DEF Finalize, At, TypeInv, TypeOK, WorkersOK, ReportOK, Shape, HoldsJob
                <5> QED
                    BY <5>1 DEF ErrorsReported
            <4>2. statErrors \in Nat
                BY DEF TypeInv, TypeOK, ReportOK
            <4>3. UNCHANGED statErrors \/ (statErrors' = statErrors + 1 /\ \E w \in Workers : Finalize(w))
                BY <1>3, ReportMoves DEF report, Fail
            <4> QED
                BY <4>1, <4>2, <4>3
        <3> QED
            BY <2>1, <3>1, <3>2, <3>3 DEF Abstract!vars, copiedBar
    <2> QED
        BY <2>2, <2>3, CountedMoves
<1> QED
    BY <1>1, <1>2, <1>3

\* The pipeline, with its buffers, rings, threads and error paths, does nothing
\* that BulkCopy does not allow: its chunks are settled once, its errors are
\* reported, and it returns with every file that lost no chunk counted.
THEOREM ImplementsBulkCopy == Spec => RefinesBulkCopy
BY AbstractInit, AbstractStep, OutcomeAlways, PTL DEF Spec, RefinesBulkCopy, Abstract!Spec

===============================================================================
