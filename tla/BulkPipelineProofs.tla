-------------------------- MODULE BulkPipelineProofs --------------------------
(***************************************************************************)
(* Theorems about BulkPipeline for every pool, plan and set of faults: who *)
(* owns which buffer and, resting on that, what becomes of jobs and of the *)
(* destination: which bytes end up where, and what `remaining` counts.     *)
(***************************************************************************)
EXTENDS BulkPipeline, SequenceTheorems, FiniteSetTheorems, TLAPS

-------------------------------------------------------------------------------
(* Operators the model is built from. *)

LEMMA RoundUpNat ==
    ASSUME NEW v \in Nat, NEW to \in Nat \ {0}
    PROVE  RoundUp(v, to) \in Nat
<1> DEFINE q == (v + to - 1) \div to
<1>1. q \in Nat
    OBVIOUS
<1>2. q * to \in Nat
    <2> HIDE DEF q
    <2> QED
        BY <1>1
<1> QED
    BY <1>2 DEF RoundUp

LEMMA JobType ==
    ASSUME NEW j \in JobIds
    PROVE  FileOf(j) \in Files /\ Jobs[j].len \in Nat
<1>1. Jobs \in Seq([file : Files, offset : Nat, len : Nat])
    BY PlanAssumption
<1>2. Jobs[j] \in [file : Files, offset : Nat, len : Nat]
    BY <1>1, ElementOfSeq DEF JobIds
<1> QED
    BY <1>2 DEF FileOf

LEMMA JobCount ==
    Len(Jobs) \in Nat /\ \A j \in JobIds : j \in Nat /\ j # 0
BY PlanAssumption, LenProperties DEF JobIds

LEMMA FailType ==
    ASSUME ReportOK, Fail
    PROVE  statErrors' \in Nat /\ errors' \in 0..ErrorCap
BY OptionAssumption DEF ReportOK, Fail

LEMMA SizeType ==
    ASSUME NEW f \in Files
    PROVE  Size[f] \in Nat
BY PlanAssumption

LEMMA PaddedSizeType ==
    ASSUME NEW f \in Files
    PROVE  PaddedSize(f) \in Nat
BY PlanAssumption, SizeType, RoundUpNat DEF PaddedSize

LEMMA DataIsCell ==
    ASSUME NEW j \in JobIds, NEW k \in DataKinds
    PROVE  Data(j, k) \in Cells
BY DEF Data, Cells

LEMMA NoDataIsCell ==
    ASSUME NEW k \in {"junk", "old", "hole", "stale"}
    PROVE  NoData(k) \in Cells
BY DEF NoData, Cells

LEMMA RecreatedType ==
    ASSUME NEW f, NEW k \in {"hole", "stale"}, disk \in [JobIds -> Cells]
    PROVE  Recreated(f, k) \in [JobIds -> Cells]
BY NoDataIsCell DEF Recreated

-------------------------------------------------------------------------------
(* Type correctness.  What a worker holds follows from where it is (Shape), *)
(* so whatever it uses as an index is one.                                 *)

TypeInv == TypeOK /\ Shape

LEMMA TypeInit == Init => TypeInv
<1> SUFFICES ASSUME Init
             PROVE  TypeInv
    OBVIOUS
<1> USE DEF Init
<1>1. WorkersOK /\ Shape
    BY JobCount DEF WorkersOK, Shape, Labels, HoldsBuffer, HoldsJob
<1>2. RingsOK /\ DestOK
    BY NoDataIsCell DEF RingsOK, DestOK
<1>3. ClaimsOK
    BY JobCount DEF ClaimsOK
<1>4. EntriesOK /\ ControlOK
    BY DEF EntriesOK, ControlOK
<1>5. ReportOK
    BY OptionAssumption DEF ReportOK
<1> QED
    BY <1>1, <1>2, <1>3, <1>4, <1>5 DEF TypeInv, TypeOK

LEMMA TypeStep == TypeInv /\ [Next]_vars => TypeInv'
<1> SUFFICES ASSUME TypeInv, [Next]_vars
             PROVE  TypeInv'
    OBVIOUS
<1> USE DEF TypeInv, TypeOK, WorkersOK, RingsOK, ClaimsOK, EntriesOK, DestOK, ReportOK, ControlOK,
            Shape, Labels, HoldsBuffer, HoldsJob, At, Goto,
            worker, rings, claims, entry, dest, report, stats, control
<1>1. ASSUME NEW w \in Workers, PickSide(w) PROVE TypeInv'
    BY <1>1 DEF PickSide
<1>2. ASSUME NEW w \in Workers, Exit(w) PROVE TypeInv'
    BY <1>2 DEF Exit
<1>3. ASSUME NEW w \in Workers, TryRead(w) PROVE TypeInv'
    <2>1. CASE AcquireFree(w)
        BY <2>1, PoolAssumption DEF AcquireFree
    <2>2. CASE WaitFree(w)
        BY <2>2 DEF WaitFree
    <2>3. CASE AcquireTimeout(w)
        BY <2>3 DEF AcquireTimeout, GiveUp
    <2>4. CASE ClaimJob(w)
        <3>1. cursor + 1 \in JobIds /\ cursor' \in 0..Len(Jobs)
            BY <2>4, JobCount DEF ClaimJob, JobIds
        <3>2. job' \in [Workers -> {0} \cup JobIds]
            BY <2>4, <3>1 DEF ClaimJob
        <3> QED
            BY <2>4, <3>1, <3>2, JobCount DEF ClaimJob
    <2>5. CASE ClaimNothing(w)
        BY <2>5 DEF ClaimNothing, GiveUp
    <2>6. CASE ReadFails(w)
        BY <2>6, JobType, FailType DEF ReadFails
    <2>7. CASE Read(w)
        <3>1. /\ job[w] \in JobIds /\ buf[w] \in Buffers
            BY <2>7 DEF Read
        <3>2. ReadResults(job[w]) \subseteq Cells
            BY <3>1, DataIsCell DEF ReadResults, DataKinds, ReadAt
        <3>3. arena' \in [Buffers -> Cells]
            BY <2>7, <3>2 DEF Read
        <3> QED
            BY <2>7, <3>3 DEF Read
    <2>8. CASE PushFilled(w)
        BY <2>8 DEF PushFilled
    <2> QED
        BY <1>3, <2>1, <2>2, <2>3, <2>4, <2>5, <2>6, <2>7, <2>8 DEF TryRead
<1>4. ASSUME NEW w \in Workers, TryWrite(w) PROVE TypeInv'
    <2>1. CASE PopFilled(w)
        <3>1. /\ Head(filled) \in [buf : Buffers, job : JobIds]
              /\ Tail(filled) \in Seq([buf : Buffers, job : JobIds])
            BY <2>1, HeadTailProperties DEF PopFilled
        <3> QED
            BY <2>1, <3>1, PoolAssumption, JobCount DEF PopFilled
    <2>2. CASE WaitFilled(w)
        BY <2>2 DEF WaitFilled
    <2>3. CASE PopTimeout(w)
        BY <2>3 DEF PopTimeout, GiveUp
    <2>4. CASE CheckPrepared(w)
        BY <2>4 DEF CheckPrepared
    <2>5. CASE AlreadyPrepared(w)
        BY <2>5 DEF AlreadyPrepared
    <2>6. CASE PrepareDestination(w)
        <3>1. FileOf(job[w]) \in Files
            BY <2>6, JobType DEF PrepareDestination
        <3>2. eof' \in [Files -> Nat]
            BY <2>6, <3>1, PaddedSizeType DEF PrepareDestination, SetLen
        <3>3. disk' \in [JobIds -> Cells]
            BY <2>6, RecreatedType DEF PrepareDestination, Unwritten, SetLen
        <3> QED
            BY <2>6, <3>1, <3>2, <3>3 DEF PrepareDestination
    <2>7. CASE PrepareFails(w)
        <3>1. disk' \in [JobIds -> Cells] /\ eof' \in [Files -> Nat]
            <4>1. FileOf(job[w]) \in Files
                BY <2>7, JobType DEF PrepareFails
            <4>2. CASE UNCHANGED dest
                BY <4>2
            <4>3. CASE /\ disk' = Recreated(FileOf(job[w]), "hole")
                       /\ eof' = [eof EXCEPT ![FileOf(job[w])] = 0]
                BY <4>1, <4>3, RecreatedType
            <4> QED
                BY <2>7, <4>2, <4>3 DEF PrepareFails, SetLen
        <3> QED
            BY <2>7, <3>1, FailType DEF PrepareFails
    <2>8. CASE OpenDstFails(w)
        BY <2>8, FailType DEF OpenDstFails
    <2>9. CASE WriteFails(w)
        BY <2>9, FailType DEF WriteFails
    <2>10. CASE Write(w)
        <3>1. job[w] \in JobIds /\ buf[w] \in Buffers
            BY <2>10 DEF Write
        <3>2. disk' \in [JobIds -> Cells]
            BY <2>10, <3>1 DEF Write, WriteAt
        <3>3. bytesWritten' \in Nat
            BY <2>10, <3>1, JobType DEF Write
        <3> QED
            BY SMTT(30), <2>10, <3>2, <3>3 DEF Write
    <2> QED
        BY <1>4, <2>1, <2>2, <2>3, <2>4, <2>5, <2>6, <2>7, <2>8, <2>9, <2>10 DEF TryWrite
<1>5. ASSUME NEW w \in Workers, Settle(w) PROVE TypeInv'
    <2>1. CASE ReleaseBuffer(w)
        BY <2>1 DEF ReleaseBuffer
    <2>2. CASE ForfeitJob(w)
        BY <2>2 DEF ForfeitJob
    <2>3. CASE RetireJob(w)
        BY <2>3 DEF RetireJob
    <2>4. CASE CountDone(w)
        <3>1. FileOf(job[w]) \in Files /\ job[w] # 0
            BY <2>4, JobType DEF CountDone
        <3>2. done' \in [Files -> Nat]
            BY <2>4, <3>1 DEF CountDone
        <3>3. pc[w] = "count" /\ UNCHANGED <<fellThrough, buf, rings, claims, prepared, failed, dest, report, stats, control>>
            BY Zenon, <2>4 DEF CountDone
        <3>4. RingsOK' /\ ClaimsOK' /\ EntriesOK' /\ DestOK' /\ ReportOK' /\ ControlOK'
            BY <3>2, <3>3
        <3>5. \/ Goto(w, "finalize") /\ UNCHANGED job
              \/ Goto(w, "loop") /\ job' = [job EXCEPT ![w] = 0]
            BY Zenon, <2>4 DEF CountDone
        <3>6. WorkersOK'
            BY <3>3, <3>5
        <3>7. Shape'
            <4>1. CASE Goto(w, "finalize") /\ UNCHANGED job
                BY <3>3, <4>1
            <4>2. CASE Goto(w, "loop") /\ job' = [job EXCEPT ![w] = 0]
                BY <3>3, <4>2
            <4> QED
                BY Zenon, <3>5, <4>1, <4>2
        <3> QED
            BY Zenon, <3>4, <3>6, <3>7
    <2>5. CASE Finalize(w)
        BY <2>5, JobType, SizeType, FailType DEF Finalize, SetLen
    <2> QED
        BY <1>5, <2>1, <2>2, <2>3, <2>4, <2>5 DEF Settle
<1>6. ASSUME RunBulk PROVE TypeInv'
    BY <1>6 DEF RunBulk, StopScheduler, ShutdownRings, Return
<1>7. ASSUME SchedulerExit PROVE TypeInv'
    BY <1>7 DEF SchedulerExit
<1>8. ASSUME UNCHANGED vars PROVE TypeInv'
    BY <1>8 DEF vars
<1> QED
    BY <1>1, <1>2, <1>3, <1>4, <1>5, <1>6, <1>7, <1>8 DEF Next, Worker, Finished

\* Every variable keeps its type: no step indexes a buffer, a job or a file
\* that does not exist.
THEOREM TypeCorrect == Spec => []TypeOK
<1>1. Spec => []TypeInv
    BY TypeInit, TypeStep, PTL DEF Spec
<1>2. TypeInv => TypeOK
    BY DEF TypeInv
<1> QED
    BY <1>1, <1>2, PTL

-------------------------------------------------------------------------------
(* Buffers.  Five actions move one; every other step leaves them where they *)
(* are.                                                                    *)

MovesBuffer(w) ==
    AcquireFree(w) \/ ClaimNothing(w) \/ PushFilled(w) \/ PopFilled(w) \/ ReleaseBuffer(w)

LEMMA BufferMoves ==
    ASSUME [Next]_vars
    PROVE  \/ UNCHANGED <<free, filled, buf>>
           \/ \E w \in Workers : MovesBuffer(w)
<1> USE DEF MovesBuffer, worker, rings
<1>1. ASSUME NEW w \in Workers, TryRead(w)
      PROVE  UNCHANGED <<free, filled, buf>> \/ MovesBuffer(w)
    BY <1>1 DEF TryRead, WaitFree, AcquireTimeout, ClaimJob, ReadFails, Read
<1>2. ASSUME NEW w \in Workers, TryWrite(w)
      PROVE  UNCHANGED <<free, filled, buf>> \/ MovesBuffer(w)
    BY <1>2 DEF TryWrite, WaitFilled, PopTimeout, CheckPrepared, AlreadyPrepared,
                PrepareDestination, PrepareFails, OpenDstFails, WriteFails, Write
<1>3. ASSUME NEW w \in Workers, PickSide(w) \/ Exit(w) \/ Settle(w)
      PROVE  UNCHANGED <<free, filled, buf>> \/ MovesBuffer(w)
    BY <1>3 DEF PickSide, Exit, Settle, ForfeitJob, RetireJob, CountDone, Finalize
<1>4. ASSUME RunBulk \/ SchedulerExit \/ UNCHANGED vars
      PROVE  UNCHANGED <<free, filled, buf>>
    BY <1>4 DEF RunBulk, StopScheduler, ShutdownRings, Return, SchedulerExit, vars
<1> QED
    BY <1>1, <1>2, <1>3, <1>4 DEF Next, Worker, Finished

\* What appending to the filled ring does to its positions, ...
LEMMA PushedRing ==
    ASSUME TypeInv, NEW w \in Workers, PushFilled(w)
    PROVE  /\ InFlight' = InFlight \cup {Len(filled) + 1}
           /\ Len(filled) + 1 \notin InFlight
           /\ \A i \in InFlight : filled'[i] = filled[i]
           /\ filled'[Len(filled) + 1].buf = buf[w]
           /\ filled'[Len(filled) + 1].job = job[w]
<1>1. filled \in Seq([buf : Buffers, job : JobIds])
    BY DEF TypeInv, TypeOK, RingsOK
<1>2. [buf |-> buf[w], job |-> job[w]] \in [buf : Buffers, job : JobIds]
    BY DEF TypeInv, TypeOK, WorkersOK, Shape, PushFilled, HoldsBuffer, HoldsJob, At
<1>3. filled' = Append(filled, [buf |-> buf[w], job |-> job[w]])
    BY DEF PushFilled
<1>4. /\ InFlight' = InFlight \cup {Len(filled) + 1}
      /\ Len(filled) + 1 \notin InFlight
      /\ \A i \in InFlight : filled'[i] = filled[i]
      /\ filled'[Len(filled) + 1] = [buf |-> buf[w], job |-> job[w]]
    BY <1>1, <1>2, <1>3, AppendProperties, LenProperties DEF InFlight
<1> QED
    BY <1>4

\* ... and what taking its head does.
LEMMA PoppedRing ==
    ASSUME TypeInv, NEW w \in Workers, PopFilled(w)
    PROVE  /\ 1 \in InFlight
           /\ Head(filled) = filled[1]
           /\ \A i \in InFlight' : i + 1 \in InFlight /\ i + 1 # 1 /\ filled'[i] = filled[i + 1]
           /\ \A k \in InFlight : k = 1 \/ k - 1 \in InFlight'
           /\ InFlight' \subseteq Nat
<1>1. filled \in Seq([buf : Buffers, job : JobIds])
    BY DEF TypeInv, TypeOK, RingsOK
<1>2. filled # <<>> /\ filled' = Tail(filled)
    BY DEF PopFilled
<1> QED
    BY <1>1, <1>2 DEF InFlight

\* Everything in the ring names a buffer and a job.
LEMMA RingEntry ==
    ASSUME TypeInv, NEW i \in InFlight
    PROVE  /\ filled[i].buf \in Buffers /\ filled[i].buf # NoBuffer
           /\ filled[i].job \in JobIds
<1>1. filled \in Seq([buf : Buffers, job : JobIds])
    BY DEF TypeInv, TypeOK, RingsOK
<1>2. filled[i] \in [buf : Buffers, job : JobIds]
    BY <1>1, ElementOfSeq DEF InFlight
<1> QED
    BY <1>2, PoolAssumption

LEMMA OwnershipInit == Init => BufferOwnership /\ NoBufferLeaked
BY PoolAssumption DEF Init, BufferOwnership, NoBufferLeaked, Holds, InFlight

LEMMA OwnershipStep ==
    ASSUME TypeInv, BufferOwnership, [Next]_vars
    PROVE  BufferOwnership'
<1>1. CASE UNCHANGED <<free, filled, buf>>
    BY <1>1 DEF BufferOwnership, Holds, InFlight
<1>2. ASSUME NEW w \in Workers, AcquireFree(w)
      PROVE  BufferOwnership'
    <2>1. PICK b \in free : free' = free \ {b} /\ buf' = [buf EXCEPT ![w] = b]
        BY <1>2 DEF AcquireFree
    <2>2. UNCHANGED filled
        BY <1>2 DEF AcquireFree
    <2>3. \A v \in Workers : buf'[v] = IF v = w THEN b ELSE buf[v]
        BY <2>1 DEF TypeInv, TypeOK, WorkersOK
    <2> QED
        BY <2>1, <2>2, <2>3 DEF BufferOwnership, Holds, InFlight
<1>3. ASSUME NEW w \in Workers, ClaimNothing(w) \/ ReleaseBuffer(w)
      PROVE  BufferOwnership'
    <2>1. free' = free \cup {buf[w]} /\ UNCHANGED filled
        BY <1>3 DEF ClaimNothing, ReleaseBuffer
    <2>2. \A v \in Workers : buf'[v] = IF v = w THEN NoBuffer ELSE buf[v]
        BY <1>3 DEF ClaimNothing, ReleaseBuffer, TypeInv, TypeOK, WorkersOK
    <2>3. Holds(w)
        BY <1>3 DEF ClaimNothing, ReleaseBuffer, TypeInv, Shape, Holds, HoldsBuffer, At
    <2>4. \A i \in InFlight : filled[i].buf # NoBuffer
        BY RingEntry
    <2> QED
        BY <2>1, <2>2, <2>3, <2>4 DEF BufferOwnership, Holds, InFlight
<1>4. ASSUME NEW w \in Workers, PushFilled(w)
      PROVE  BufferOwnership'
    <2> DEFINE last == Len(filled) + 1
    <2>1. /\ InFlight' = InFlight \cup {last}
          /\ last \notin InFlight
          /\ \A i \in InFlight : filled'[i].buf = filled[i].buf
          /\ filled'[last].buf = buf[w]
        <3>1. /\ InFlight' = InFlight \cup {last}
              /\ last \notin InFlight
              /\ filled'[last].buf = buf[w]
            BY <1>4, PushedRing
        <3>2. \A i \in InFlight : filled'[i] = filled[i]
            BY <1>4, PushedRing
        <3> QED
            BY <3>1, <3>2
    <2>2. UNCHANGED free
        BY <1>4 DEF PushFilled
    <2>3. \A v \in Workers : buf'[v] = IF v = w THEN NoBuffer ELSE buf[v]
        BY <1>4 DEF PushFilled, TypeInv, TypeOK, WorkersOK
    <2>4. Holds(w)
        BY <1>4 DEF PushFilled, TypeInv, Shape, Holds, HoldsBuffer, At
    <2>5. \A i \in InFlight : filled[i].buf # NoBuffer
        BY RingEntry
    <2> HIDE DEF last
    <2> QED
        BY <2>1, <2>2, <2>3, <2>4, <2>5 DEF BufferOwnership, Holds
<1>5. ASSUME NEW w \in Workers, PopFilled(w)
      PROVE  BufferOwnership'
    <2>1. /\ 1 \in InFlight
          /\ \A i \in InFlight' : i + 1 \in InFlight /\ i + 1 # 1 /\ filled'[i] = filled[i + 1]
          /\ InFlight' \subseteq Nat
        BY <1>5, PoppedRing
    <2>2. UNCHANGED free
        BY <1>5 DEF PopFilled
    <2>3. \A v \in Workers : buf'[v] = IF v = w THEN filled[1].buf ELSE buf[v]
        BY <1>5, PoppedRing DEF PopFilled, TypeInv, TypeOK, WorkersOK
    <2>4. \A i, k \in InFlight' : i # k => i + 1 # k + 1
        BY <2>1
    <2> QED
        BY <2>1, <2>2, <2>3, <2>4 DEF BufferOwnership, Holds
<1> QED
    BY <1>1, <1>2, <1>3, <1>4, <1>5, BufferMoves DEF MovesBuffer

LEMMA NoLeakStep ==
    ASSUME TypeInv, TypeInv', NoBufferLeaked, [Next]_vars
    PROVE  NoBufferLeaked'
<1> DEFINE Somewhere(b) ==
        \/ b \in free
        \/ \E w \in Workers : buf[w] = b
        \/ \E i \in InFlight : filled[i].buf = b
<1>1. \A b \in Buffers : Somewhere(b)
    BY DEF NoBufferLeaked
<1>2. \A b \in Buffers : Somewhere(b)'
    <2> SUFFICES ASSUME NEW b \in Buffers
                 PROVE  Somewhere(b)'
        OBVIOUS
    <2>1. CASE UNCHANGED <<free, filled, buf>>
        BY <1>1, <2>1 DEF InFlight
    <2>2. ASSUME NEW w \in Workers, AcquireFree(w)
          PROVE  Somewhere(b)'
        <3>1. PICK c \in free : free' = free \ {c} /\ buf' = [buf EXCEPT ![w] = c]
            BY <2>2 DEF AcquireFree
        <3>2. buf[w] = NoBuffer /\ UNCHANGED filled
            BY <2>2 DEF AcquireFree, TypeInv, Shape, HoldsBuffer
        <3> QED
            BY <1>1, <3>1, <3>2, PoolAssumption DEF TypeInv, TypeOK, WorkersOK, InFlight
    <2>3. ASSUME NEW w \in Workers, ClaimNothing(w) \/ ReleaseBuffer(w)
          PROVE  Somewhere(b)'
        <3>1. /\ free' = free \cup {buf[w]} /\ UNCHANGED filled
              /\ buf' = [buf EXCEPT ![w] = NoBuffer]
            BY <2>3 DEF ClaimNothing, ReleaseBuffer
        <3> QED
            BY <1>1, <3>1 DEF TypeInv, TypeOK, WorkersOK, InFlight
    <2>4. ASSUME NEW w \in Workers, PushFilled(w)
          PROVE  Somewhere(b)'
        <3>1. UNCHANGED free /\ buf' = [buf EXCEPT ![w] = NoBuffer]
            BY <2>4 DEF PushFilled
        <3> QED
            <4>1. \A v \in Workers : v # w => buf'[v] = buf[v]
                BY <3>1 DEF TypeInv, TypeOK, WorkersOK
            <4>2. CASE b = buf[w]
                BY <2>4, <4>2, PushedRing
            <4>3. CASE b # buf[w]
                BY <1>1, <2>4, <3>1, <4>1, <4>3, PushedRing
            <4> QED
                BY <4>2, <4>3
    <2>5. ASSUME NEW w \in Workers, PopFilled(w)
          PROVE  Somewhere(b)'
        <3>1. buf[w] = NoBuffer /\ UNCHANGED free
            BY <2>5 DEF PopFilled, TypeInv, Shape, HoldsBuffer
        <3>2. buf' = [buf EXCEPT ![w] = filled[1].buf]
            BY <2>5, PoppedRing DEF PopFilled
        <3>3. \A k \in InFlight : k = 1 \/ \E i \in InFlight' : filled'[i] = filled[k]
            <4>1. ASSUME NEW k \in InFlight, k # 1
                  PROVE  filled'[k - 1] = filled[k] /\ k - 1 \in InFlight'
                BY <2>5, <4>1, PoppedRing DEF InFlight
            <4> QED
                BY <4>1
        <3> QED
            BY <1>1, <3>1, <3>2, <3>3, PoolAssumption DEF TypeInv, TypeOK, WorkersOK
    <2> QED
        BY <2>1, <2>2, <2>3, <2>4, <2>5, BufferMoves DEF MovesBuffer
<1>3. /\ free' \subseteq Buffers
      /\ \A w \in Workers : buf'[w] \in Buffers \cup {NoBuffer}
      /\ \A i \in InFlight' : filled'[i].buf \in Buffers
    <2>1. \A i \in 1..Len(filled') : filled'[i] \in [buf : Buffers, job : JobIds]
        BY ElementOfSeq DEF TypeInv, TypeOK, RingsOK
    <2> QED
        BY <2>1 DEF TypeInv, TypeOK, WorkersOK, RingsOK, InFlight
<1> QED
    BY <1>2, <1>3, PoolAssumption DEF NoBufferLeaked, Holds

OwnershipInv == TypeInv /\ BufferOwnership /\ NoBufferLeaked

\* `Arena::ptr`'s contract: at most one holder of each buffer, whatever path a
\* worker leaves try_read or try_write by.
THEOREM BuffersOwned == Spec => []BufferOwnership
<1>1. Init => OwnershipInv
    BY TypeInit, OwnershipInit DEF OwnershipInv
<1>2. OwnershipInv /\ [Next]_vars => OwnershipInv'
    BY TypeStep, OwnershipStep, NoLeakStep DEF OwnershipInv
<1>3. OwnershipInv => BufferOwnership
    BY DEF OwnershipInv
<1> QED
    BY <1>1, <1>2, <1>3, PTL DEF Spec

\* Every exit of try_read and try_write accounts for its buffer: none is ever
\* missing from the rings and the workers' hands taken together.
THEOREM BuffersKept == Spec => []NoBufferLeaked
<1>1. Init => OwnershipInv
    BY TypeInit, OwnershipInit DEF OwnershipInv
<1>2. OwnershipInv /\ [Next]_vars => OwnershipInv'
    BY TypeStep, OwnershipStep, NoLeakStep DEF OwnershipInv
<1>3. OwnershipInv => NoBufferLeaked
    BY DEF OwnershipInv
<1> QED
    BY <1>1, <1>2, <1>3, PTL DEF Spec

-------------------------------------------------------------------------------
(* Jobs.  A job is unclaimed, or in one worker's hands, or in one place of  *)
(* the filled ring.                                                        *)

JobsApart ==
    /\ \A w \in Workers : job[w] <= cursor
    /\ \A i \in InFlight : filled[i].job <= cursor
    /\ \A v, w \in Workers : v # w /\ job[v] # 0 => job[v] # job[w]
    /\ \A i \in InFlight, w \in Workers : filled[i].job # job[w]
    /\ \A i, k \in InFlight : i # k => filled[i].job # filled[k].job

MovesJob(w) ==
    \/ ClaimJob(w) \/ PushFilled(w) \/ PopFilled(w)
    \/ ForfeitJob(w) \/ CountDone(w) \/ Finalize(w)

LEMMA JobMoves ==
    ASSUME [Next]_vars
    PROVE  \/ UNCHANGED <<cursor, filled, job>>
           \/ \E w \in Workers : MovesJob(w)
<1> USE DEF MovesJob, worker, rings, claims
<1>1. ASSUME NEW w \in Workers, TryRead(w)
      PROVE  UNCHANGED <<cursor, filled, job>> \/ MovesJob(w)
    BY <1>1 DEF TryRead, AcquireFree, WaitFree, AcquireTimeout, ClaimNothing, ReadFails, Read
<1>2. ASSUME NEW w \in Workers, TryWrite(w)
      PROVE  UNCHANGED <<cursor, filled, job>> \/ MovesJob(w)
    BY <1>2 DEF TryWrite, WaitFilled, PopTimeout, CheckPrepared, AlreadyPrepared,
                PrepareDestination, PrepareFails, OpenDstFails, WriteFails, Write
<1>3. ASSUME NEW w \in Workers, PickSide(w) \/ Exit(w) \/ Settle(w)
      PROVE  UNCHANGED <<cursor, filled, job>> \/ MovesJob(w)
    BY <1>3 DEF PickSide, Exit, Settle, ReleaseBuffer, RetireJob
<1>4. ASSUME RunBulk \/ SchedulerExit \/ UNCHANGED vars
      PROVE  UNCHANGED <<cursor, filled, job>>
    BY <1>4 DEF RunBulk, StopScheduler, ShutdownRings, Return, SchedulerExit, vars
<1> QED
    BY <1>1, <1>2, <1>3, <1>4 DEF Next, Worker, Finished

LEMMA JobsApartInit == Init => JobsApart
BY DEF Init, JobsApart, InFlight

LEMMA JobsApartStep ==
    ASSUME TypeInv, JobsApart, [Next]_vars
    PROVE  JobsApart'
<1> USE DEF At
<1>0. /\ \A v \in Workers : job[v] \in Int
      /\ \A i \in InFlight : filled[i].job \in Int /\ filled[i].job # 0
      /\ cursor \in Int /\ cursor >= 0
    BY RingEntry, JobCount DEF TypeInv, TypeOK, WorkersOK, ClaimsOK
<1>1. CASE UNCHANGED <<cursor, filled, job>>
    BY <1>1 DEF JobsApart, InFlight
<1>2. ASSUME NEW w \in Workers, ClaimJob(w)
      PROVE  JobsApart'
    <2>1. cursor' = cursor + 1 /\ UNCHANGED filled
        BY <1>2 DEF ClaimJob, rings
    <2>2. \A v \in Workers : job'[v] = IF v = w THEN cursor + 1 ELSE job[v]
        BY <1>2 DEF ClaimJob, TypeInv, TypeOK, WorkersOK
    <2> QED
        BY <1>0, <2>1, <2>2 DEF JobsApart, InFlight
<1>3. ASSUME NEW w \in Workers, PushFilled(w)
      PROVE  JobsApart'
    <2> DEFINE last == Len(filled) + 1
    <2>1. /\ InFlight' = InFlight \cup {last}
          /\ last \notin InFlight
          /\ filled'[last].job = job[w]
        BY <1>3, PushedRing
    <2>2. \A i \in InFlight : filled'[i] = filled[i]
        BY <1>3, PushedRing
    <2>3. UNCHANGED cursor /\ job[w] # 0
        BY <1>3 DEF PushFilled, claims, TypeInv, Shape, HoldsJob
    <2>4. \A v \in Workers : job'[v] = IF v = w THEN 0 ELSE job[v]
        BY <1>3 DEF PushFilled, TypeInv, TypeOK, WorkersOK
    <2> HIDE DEF last
    <2> QED
        BY <1>0, <2>1, <2>2, <2>3, <2>4 DEF JobsApart
<1>4. ASSUME NEW w \in Workers, PopFilled(w)
      PROVE  JobsApart'
    <2>1. /\ 1 \in InFlight
          /\ \A i \in InFlight' : i + 1 \in InFlight /\ i + 1 # 1 /\ filled'[i] = filled[i + 1]
          /\ InFlight' \subseteq Nat
        BY <1>4, PoppedRing
    <2>2. UNCHANGED cursor
        BY <1>4 DEF PopFilled, claims
    <2>3. \A v \in Workers : job'[v] = IF v = w THEN filled[1].job ELSE job[v]
        BY <1>4, PoppedRing DEF PopFilled, TypeInv, TypeOK, WorkersOK
    <2>4. \A i, k \in InFlight' : i # k => i + 1 # k + 1
        BY <2>1
    <2> QED
        BY <1>0, <2>1, <2>2, <2>3, <2>4 DEF JobsApart
<1>5. ASSUME NEW w \in Workers, ForfeitJob(w) \/ CountDone(w) \/ Finalize(w)
      PROVE  JobsApart'
    <2>1. UNCHANGED <<cursor, filled>>
        BY <1>5 DEF ForfeitJob, CountDone, Finalize, claims, rings
    <2>2. UNCHANGED job \/ job' = [job EXCEPT ![w] = 0]
        BY <1>5 DEF ForfeitJob, CountDone, Finalize
    <2>3. \A v \in Workers : job'[v] = job[v] \/ job'[v] = 0
        BY <2>2 DEF TypeInv, TypeOK, WorkersOK
    <2> QED
        BY <1>0, <2>1, <2>3 DEF JobsApart, InFlight
<1> QED
    BY <1>1, <1>2, <1>3, <1>4, <1>5, JobMoves DEF MovesJob

-------------------------------------------------------------------------------
(* `remaining` counts the unretired jobs. *)

LEMMA UnretiredFinite ==
    ASSUME TypeInv
    PROVE  Unretired \subseteq JobIds /\ IsFiniteSet(Unretired)
<1>1. Unretired \subseteq JobIds
    BY RingEntry DEF Unretired, TypeInv, TypeOK, WorkersOK
<1>2. IsFiniteSet(JobIds)
    BY JobCount, FS_Interval DEF JobIds
<1> QED
    BY <1>1, <1>2, FS_Subset

LEMMA RemainingInit == Init => RemainingIsExact
<1> SUFFICES ASSUME Init
             PROVE  RemainingIsExact
    OBVIOUS
<1>1. Unretired = JobIds
    <2>1. /\ cursor = 0 /\ \A j \in JobIds : j > 0
          /\ \A w \in Workers : job[w] = 0
          /\ InFlight = {}
        BY JobCount DEF Init, InFlight, JobIds
    <2> QED
        BY <2>1 DEF Unretired
<1>2. Cardinality(JobIds) = Len(Jobs)
    <2>1. \A n \in Nat : Cardinality(1..n) = IF 1 > n THEN 0 ELSE n - 1 + 1
        BY FS_Interval
    <2>2. \A n \in Nat : (IF 1 > n THEN 0 ELSE n - 1 + 1) = n
        OBVIOUS
    <2> QED
        BY <2>1, <2>2, JobCount DEF JobIds
<1>3. remaining = Len(Jobs)
    BY DEF Init
<1> QED
    BY <1>1, <1>2, <1>3 DEF RemainingIsExact

\* Only a retirement changes the set, and it takes out exactly one job.
LEMMA RetirementOnly ==
    ASSUME TypeInv, TypeInv', JobsApart, [Next]_vars
    PROVE  \/ Unretired' = Unretired /\ UNCHANGED remaining
           \/ \E j \in Unretired : Unretired' = Unretired \ {j} /\ remaining' = remaining - 1
<1> USE DEF At, Goto, worker, rings, claims, Retired
<1>0. /\ pc \in [Workers -> Labels]
      /\ job \in [Workers -> {0} \cup JobIds]
      /\ buf \in [Workers -> Buffers \cup {NoBuffer}]
    BY DEF TypeInv, TypeOK, WorkersOK
<1>1. ASSUME NEW w \in Workers, ForfeitJob(w) \/ RetireJob(w)
      PROVE  \E j \in Unretired : Unretired' = Unretired \ {j} /\ remaining' = remaining - 1
    <2>1. /\ job[w] # 0 /\ job[w] \in Unretired
          /\ pc[w] \notin Retired
        BY <1>1 DEF ForfeitJob, RetireJob, TypeInv, Shape, HoldsJob, Unretired
    <2>2. /\ UNCHANGED <<cursor, filled>> /\ remaining' = remaining - 1
          /\ pc'[w] \in Retired \/ job'[w] = 0
          /\ \A v \in Workers : v # w => pc'[v] = pc[v] /\ job'[v] = job[v]
        BY <1>0, <1>1 DEF ForfeitJob, RetireJob
    <2>3. Unretired' = Unretired \ {job[w]}
        BY <2>1, <2>2, JobCount DEF Unretired, JobsApart, InFlight, TypeInv, TypeOK, ClaimsOK, WorkersOK
    <2> QED
        BY <2>1, <2>2, <2>3
<1>2. ASSUME NEW w \in Workers, ClaimJob(w)
      PROVE  Unretired' = Unretired /\ UNCHANGED remaining
    <2>1. /\ cursor' = cursor + 1 /\ cursor + 1 \in JobIds
          /\ UNCHANGED <<filled, remaining>>
        BY <1>2, JobCount DEF ClaimJob, JobIds, TypeInv, TypeOK, ClaimsOK
    <2>2. /\ job[w] = 0 /\ job'[w] = cursor + 1 /\ pc'[w] = "read"
          /\ \A v \in Workers : v # w => pc'[v] = pc[v] /\ job'[v] = job[v]
        BY <1>0, <1>2 DEF ClaimJob, TypeInv, Shape, HoldsJob
    <2>3. cursor \in Nat /\ \A j \in JobIds : j \in Nat /\ j # 0
        BY JobCount DEF TypeInv, TypeOK, ClaimsOK
    <2> QED
        BY <2>1, <2>2, <2>3 DEF Unretired, InFlight
<1>3. ASSUME NEW w \in Workers, PushFilled(w)
      PROVE  Unretired' = Unretired /\ UNCHANGED remaining
    <2> DEFINE last == Len(filled) + 1
    <2>1. /\ InFlight' = InFlight \cup {last}
          /\ filled'[last].job = job[w]
        BY <1>3, PushedRing
    <2>2. \A i \in InFlight : filled'[i] = filled[i]
        BY <1>3, PushedRing
    <2>3. /\ UNCHANGED <<cursor, remaining>>
          /\ job[w] # 0 /\ pc[w] = "push" /\ job'[w] = 0
          /\ \A v \in Workers : v # w => pc'[v] = pc[v] /\ job'[v] = job[v]
        BY <1>0, <1>3 DEF PushFilled, TypeInv, Shape, HoldsJob
    <2> HIDE DEF last
    <2> QED
        BY <2>1, <2>2, <2>3 DEF Unretired
<1>4. ASSUME NEW w \in Workers, PopFilled(w)
      PROVE  Unretired' = Unretired /\ UNCHANGED remaining
    <2>1. /\ 1 \in InFlight
          /\ \A i \in InFlight' : i + 1 \in InFlight /\ filled'[i] = filled[i + 1]
        BY <1>4, PoppedRing
    <2>2. \A k \in InFlight : k = 1 \/ \E i \in InFlight' : filled'[i] = filled[k]
        <3>1. ASSUME NEW k \in InFlight, k # 1
              PROVE  filled'[k - 1] = filled[k] /\ k - 1 \in InFlight'
            BY <1>4, <3>1, PoppedRing DEF InFlight
        <3> QED
            BY <3>1
    <2>3. /\ UNCHANGED <<cursor, remaining>>
          /\ job[w] = 0 /\ pc'[w] = "check" /\ job'[w] = filled[1].job /\ job'[w] # 0
          /\ \A v \in Workers : v # w => pc'[v] = pc[v] /\ job'[v] = job[v]
        BY <1>0, <1>4, PoppedRing, RingEntry, JobCount DEF PopFilled, TypeInv, Shape, HoldsJob
    <2> QED
        BY <2>1, <2>2, <2>3 DEF Unretired
<1>5. ASSUME NEW w \in Workers, CountDone(w) \/ Finalize(w)
      PROVE  Unretired' = Unretired /\ UNCHANGED remaining
    <2>1. /\ UNCHANGED <<cursor, filled, remaining>>
          /\ pc[w] \in Retired /\ (pc'[w] \in Retired \/ job'[w] = 0)
          /\ \A v \in Workers : v # w => pc'[v] = pc[v] /\ job'[v] = job[v]
        BY <1>0, <1>5 DEF CountDone, Finalize
    <2> QED
        BY <2>1 DEF Unretired, InFlight
<1>6. ASSUME UNCHANGED <<cursor, filled, job, remaining>>,
             \A v \in Workers : job[v] = 0 \/ (pc'[v] \in Retired <=> pc[v] \in Retired)
      PROVE  Unretired' = Unretired
    BY <1>6 DEF Unretired, InFlight
<1>7. ASSUME NEW w \in Workers, PickSide(w) \/ Exit(w)
      PROVE  Unretired' = Unretired /\ UNCHANGED remaining
    BY <1>0, <1>6, <1>7 DEF PickSide, Exit
<1>8. ASSUME NEW w \in Workers, AcquireFree(w) \/ WaitFree(w) \/ AcquireTimeout(w)
                                \/ ClaimNothing(w) \/ ReadFails(w) \/ Read(w)
      PROVE  Unretired' = Unretired /\ UNCHANGED remaining
    BY <1>0, <1>6, <1>8 DEF AcquireFree, WaitFree, AcquireTimeout, GiveUp, ClaimNothing, ReadFails, Read
<1>9. ASSUME NEW w \in Workers, WaitFilled(w) \/ PopTimeout(w) \/ CheckPrepared(w)
                                \/ AlreadyPrepared(w) \/ PrepareDestination(w)
      PROVE  Unretired' = Unretired /\ UNCHANGED remaining
    BY <1>0, <1>6, <1>9 DEF WaitFilled, PopTimeout, GiveUp, CheckPrepared, AlreadyPrepared, PrepareDestination
<1>10. ASSUME NEW w \in Workers, PrepareFails(w) \/ OpenDstFails(w) \/ WriteFails(w)
                                 \/ Write(w) \/ ReleaseBuffer(w)
      PROVE  Unretired' = Unretired /\ UNCHANGED remaining
    BY <1>0, <1>6, <1>10 DEF PrepareFails, OpenDstFails, WriteFails, Write, ReleaseBuffer
<1>11. ASSUME RunBulk \/ SchedulerExit \/ UNCHANGED vars
       PROVE  Unretired' = Unretired /\ UNCHANGED remaining
    BY <1>6, <1>11 DEF RunBulk, StopScheduler, ShutdownRings, Return, SchedulerExit, vars
<1> QED
    BY <1>1, <1>2, <1>3, <1>4, <1>5, <1>7, <1>8, <1>9, <1>10, <1>11
       DEF Next, Worker, TryRead, TryWrite, Settle, Finished

LEMMA RemainingStep ==
    ASSUME TypeInv, TypeInv', JobsApart, RemainingIsExact, [Next]_vars
    PROVE  RemainingIsExact'
<1>1. CASE Unretired' = Unretired /\ UNCHANGED remaining
    BY <1>1 DEF RemainingIsExact
<1>2. ASSUME NEW j \in Unretired, Unretired' = Unretired \ {j}, remaining' = remaining - 1
      PROVE  RemainingIsExact'
    BY <1>2, UnretiredFinite, FS_RemoveElement DEF RemainingIsExact
<1> QED
    BY <1>1, <1>2, RetirementOnly

JobsInv == TypeInv /\ JobsApart /\ RemainingIsExact

\* The workers' loop stops exactly when no job is left: each of the exits of
\* try_read and try_write decrements `remaining` once for its own job.
THEOREM RemainingCounts == Spec => []RemainingIsExact
<1>1. Init => JobsInv
    BY TypeInit, JobsApartInit, RemainingInit DEF JobsInv
<1>2. JobsInv /\ [Next]_vars => JobsInv'
    BY TypeStep, JobsApartStep, RemainingStep DEF JobsInv
<1>3. JobsInv => RemainingIsExact
    BY DEF JobsInv
<1> QED
    BY <1>1, <1>2, <1>3, PTL DEF Spec

-------------------------------------------------------------------------------
(* The bytes.  From its read to its write a chunk's buffer holds that chunk. *)

OwnData(j) == {Data(j, "whole"), Data(j, "zeroed")}
Loaded == {"push", "check", "lock", "write"}

BytesInv ==
    /\ \A w \in Workers : pc[w] \in Loaded => arena[buf[w]] \in OwnData(job[w])
    /\ \A i \in InFlight : arena[filled[i].buf] \in OwnData(filled[i].job)
    /\ OwnBytes

LEMMA OwnDataIsData ==
    ASSUME NEW j, NEW d \in OwnData(j)
    PROVE  d.kind \in DataKinds /\ d.job = j
BY DEF OwnData, Data, DataKinds

LEMMA NoDataIsNotData ==
    ASSUME NEW k \in {"junk", "old", "hole", "stale"}
    PROVE  NoData(k).kind \notin DataKinds
BY DEF NoData, DataKinds

LEMMA BytesInit == Init => BytesInv
BY NoDataIsNotData DEF Init, BytesInv, OwnBytes, Landed, Loaded, InFlight

LEMMA BytesStep ==
    ASSUME TypeInv, BufferOwnership, BytesInv, [Next]_vars
    PROVE  BytesInv'
<1> USE DEF At, Goto, worker, rings, claims, dest, Loaded
<1>0. /\ pc \in [Workers -> Labels]
      /\ job \in [Workers -> {0} \cup JobIds]
      /\ buf \in [Workers -> Buffers \cup {NoBuffer}]
      /\ arena \in [Buffers -> Cells]
      /\ disk \in [JobIds -> Cells]
    BY DEF TypeInv, TypeOK, WorkersOK, RingsOK, DestOK
<1>1. ASSUME NEW w \in Workers, Read(w)
      PROVE  BytesInv'
    <2>1. PICK d \in ReadResults(job[w]) : arena' = [arena EXCEPT ![buf[w]] = d]
        BY <1>1 DEF Read
    <2>2. d \in OwnData(job[w])
        BY DEF ReadResults, OwnData, ReadAt
    <2>3. buf[w] \in Buffers /\ Holds(w)
        BY <1>0, <1>1 DEF Read, TypeInv, Shape, HoldsBuffer, Holds
    <2>4. \A v \in Workers : v # w => pc'[v] = pc[v]
        BY <1>0, <1>1 DEF Read
    <2>5. UNCHANGED <<buf, job, filled, disk>>
        BY <1>1 DEF Read
    <2>6. \A i \in InFlight : arena'[filled[i].buf] = arena[filled[i].buf]
        BY <1>0, <2>1, RingEntry DEF BufferOwnership
    <2>7. \A v \in Workers : v # w => buf[v] # buf[w]
        BY <2>3 DEF BufferOwnership
    <2>8. \A v \in Workers : v # w /\ pc[v] \in Loaded => arena'[buf[v]] = arena[buf[v]]
        <3>1. \A v \in Workers : pc[v] \in Loaded => buf[v] \in Buffers
            BY <1>0 DEF TypeInv, Shape, HoldsBuffer
        <3> QED
            BY <1>0, <2>1, <2>7, <3>1
    <2>9. arena'[buf[w]] \in OwnData(job[w])
        BY <1>0, <2>1, <2>2, <2>3
    <2> QED
        BY <2>4, <2>5, <2>6, <2>8, <2>9 DEF BytesInv, InFlight, OwnBytes, Landed
<1>2. ASSUME NEW w \in Workers, Write(w)
      PROVE  BytesInv'
    <2>1. UNCHANGED <<buf, job, filled, arena>>
        BY <1>2 DEF Write
    <2>2. \A v \in Workers : pc'[v] \in Loaded => pc[v] \in Loaded
        BY <1>0, <1>2 DEF Write
    <2>3. arena[buf[w]] \in OwnData(job[w])
        BY <1>2 DEF Write, BytesInv
    <2>4. \A j \in JobIds : disk'[j] = disk[j] \/ disk'[j] \in OwnData(j)
        BY <1>0, <1>2, <2>3 DEF Write, WriteAt
    <2> QED
        BY <2>1, <2>2, <2>4 DEF BytesInv, InFlight, OwnBytes, Landed, OwnData
<1>3. ASSUME NEW w \in Workers, PrepareDestination(w) \/ PrepareFails(w)
      PROVE  BytesInv'
    <2>1. UNCHANGED <<buf, job, filled, arena>>
        BY <1>3 DEF PrepareDestination, PrepareFails
    <2>2. \A v \in Workers : pc'[v] \in Loaded => pc[v] \in Loaded
        BY <1>0, <1>3 DEF PrepareDestination, PrepareFails
    <2>3. UNCHANGED disk \/ \E k \in {"hole", "stale"} : disk' = Recreated(FileOf(job[w]), k)
        BY <1>3 DEF PrepareDestination, PrepareFails, Unwritten
    <2>4. \A j \in JobIds : disk'[j] = disk[j] \/ disk'[j].kind \notin DataKinds
        BY <2>3, NoDataIsNotData DEF Recreated
    <2> QED
        BY <2>1, <2>2, <2>4 DEF BytesInv, InFlight, OwnBytes, Landed
<1>4. ASSUME NEW w \in Workers, PushFilled(w)
      PROVE  BytesInv'
    <2> DEFINE last == Len(filled) + 1
    <2>1. /\ InFlight' = InFlight \cup {last}
          /\ filled'[last].buf = buf[w] /\ filled'[last].job = job[w]
        BY <1>4, PushedRing
    <2>2. \A i \in InFlight : filled'[i] = filled[i]
        BY <1>4, PushedRing
    <2>3. /\ UNCHANGED <<arena, disk>> /\ pc[w] = "push" /\ pc'[w] = "loop"
          /\ \A v \in Workers : v # w => pc'[v] = pc[v] /\ job'[v] = job[v] /\ buf'[v] = buf[v]
        BY <1>0, <1>4 DEF PushFilled
    <2> HIDE DEF last
    <2> QED
        BY <2>1, <2>2, <2>3 DEF BytesInv, OwnBytes, Landed
<1>5. ASSUME NEW w \in Workers, PopFilled(w)
      PROVE  BytesInv'
    <2>1. /\ 1 \in InFlight
          /\ \A i \in InFlight' : i + 1 \in InFlight /\ filled'[i] = filled[i + 1]
        BY <1>5, PoppedRing
    <2>2. /\ UNCHANGED <<arena, disk>>
          /\ job'[w] = filled[1].job /\ buf'[w] = filled[1].buf
          /\ \A v \in Workers : v # w => pc'[v] = pc[v] /\ job'[v] = job[v] /\ buf'[v] = buf[v]
        BY <1>0, <1>5, PoppedRing DEF PopFilled
    <2> QED
        BY <2>1, <2>2 DEF BytesInv, OwnBytes, Landed
<1>6. ASSUME UNCHANGED <<filled, arena, disk>>,
             \A v \in Workers : pc'[v] \in Loaded =>
                 pc[v] \in Loaded /\ job'[v] = job[v] /\ buf'[v] = buf[v]
      PROVE  BytesInv'
    BY <1>6 DEF BytesInv, InFlight, OwnBytes, Landed
<1>7. ASSUME NEW w \in Workers, PickSide(w) \/ Exit(w)
      PROVE  BytesInv'
    BY <1>0, <1>6, <1>7 DEF PickSide, Exit
<1>8. ASSUME NEW w \in Workers, AcquireFree(w) \/ WaitFree(w) \/ AcquireTimeout(w)
                                \/ ClaimJob(w) \/ ClaimNothing(w) \/ ReadFails(w)
      PROVE  BytesInv'
    BY <1>0, <1>6, <1>8 DEF AcquireFree, WaitFree, AcquireTimeout, GiveUp, ClaimJob, ClaimNothing, ReadFails
<1>9. ASSUME NEW w \in Workers, WaitFilled(w) \/ PopTimeout(w) \/ CheckPrepared(w)
                                \/ AlreadyPrepared(w) \/ OpenDstFails(w) \/ WriteFails(w)
      PROVE  BytesInv'
    BY <1>0, <1>6, <1>9 DEF WaitFilled, PopTimeout, GiveUp, CheckPrepared, AlreadyPrepared, OpenDstFails, WriteFails
<1>10. ASSUME NEW w \in Workers, Settle(w)
       PROVE  BytesInv'
    BY <1>0, <1>6, <1>10 DEF Settle, ReleaseBuffer, ForfeitJob, RetireJob, CountDone, Finalize
<1>11. ASSUME RunBulk \/ SchedulerExit \/ UNCHANGED vars
       PROVE  BytesInv'
    BY <1>6, <1>11 DEF RunBulk, StopScheduler, ShutdownRings, Return, SchedulerExit, vars
<1> QED
    BY <1>1, <1>2, <1>3, <1>4, <1>5, <1>7, <1>8, <1>9, <1>10, <1>11
       DEF Next, Worker, TryRead, TryWrite, Finished

DataInv == OwnershipInv /\ BytesInv

\* No chunk ever lands with another chunk's bytes: between a chunk's read and
\* its write nobody else refills its buffer.
THEOREM BytesAreOwn == Spec => []OwnBytes
<1>1. Init => DataInv
    BY TypeInit, OwnershipInit, BytesInit DEF DataInv, OwnershipInv
<1>2. DataInv /\ [Next]_vars => DataInv'
    BY TypeStep, OwnershipStep, NoLeakStep, BytesStep DEF DataInv, OwnershipInv
<1>3. DataInv => OwnBytes
    BY DEF DataInv, BytesInv
<1> QED
    BY <1>1, <1>2, <1>3, PTL DEF Spec

-------------------------------------------------------------------------------
(* The destination.  A chunk lands once, and only in a file that was        *)
(* prepared; a prepared file is not created again.                         *)

LandingInv ==
    /\ \A w \in Workers : pc[w] = "write" => prepared[FileOf(job[w])]
    /\ \A w \in Workers : pc[w] \in Working => ~Landed(job[w])
    /\ \A i \in InFlight : ~Landed(filled[i].job)
    /\ \A j \in JobIds : j > cursor => ~Landed(j)
    /\ \A j \in JobIds : Landed(j) => prepared[FileOf(j)]

LEMMA LandingInit == Init => LandingInv
BY NoDataIsNotData DEF Init, LandingInv, Landed, Working, InFlight

LEMMA LandingStep ==
    ASSUME TypeInv, JobsApart, LandingInv, [Next]_vars
    PROVE  LandingInv'
<1> USE DEF At, Goto, worker, rings, claims, dest, entry
<1>0. /\ pc \in [Workers -> Labels]
      /\ job \in [Workers -> {0} \cup JobIds]
      /\ disk \in [JobIds -> Cells]
      /\ prepared \in [Files -> BOOLEAN]
    BY DEF TypeInv, TypeOK, WorkersOK, EntriesOK, DestOK
<1>1. ASSUME NEW w \in Workers, Write(w)
      PROVE  LandingInv'
    <2>1. job[w] \in JobIds /\ pc[w] = "write"
        BY <1>0, <1>1 DEF Write, TypeInv, Shape, HoldsJob
    <2>2. /\ UNCHANGED <<cursor, filled, job, prepared>>
          /\ pc'[w] = "recycle"
          /\ \A v \in Workers : v # w => pc'[v] = pc[v]
        BY <1>0, <1>1 DEF Write
    <2>3. \A j : j # job[w] => disk'[j] = disk[j]
        BY <1>0, <1>1 DEF Write, WriteAt
    <2>4. \A v \in Workers : v # w => job[v] # job[w]
        BY <2>1, JobCount DEF JobsApart
    <2>5. \A i \in InFlight : filled[i].job # job[w]
        BY DEF JobsApart
    <2>6. job[w] <= cursor /\ cursor \in Nat /\ job[w] \in Nat
        BY <2>1, JobCount DEF JobsApart, TypeInv, TypeOK, ClaimsOK
    <2>7. prepared[FileOf(job[w])]
        BY <2>1 DEF LandingInv
    <2>8. \A v \in Workers : pc'[v] = "write" => prepared'[FileOf(job'[v])]
        BY <2>2 DEF LandingInv
    <2>9. \A v \in Workers : pc'[v] \in Working => ~Landed(job[v])'
        BY <2>2, <2>3, <2>4 DEF LandingInv, Landed, Working
    <2>10. \A i \in InFlight' : ~Landed(filled[i].job)'
        BY <2>2, <2>3, <2>5 DEF LandingInv, Landed, InFlight
    <2>11. \A j \in JobIds : j > cursor' => ~Landed(j)'
        BY <2>2, <2>3, <2>6, JobCount DEF LandingInv, Landed
    <2>12. \A j \in JobIds : Landed(j)' => prepared'[FileOf(j)]
        BY <2>2, <2>3, <2>7 DEF LandingInv, Landed
    <2> QED
        BY <2>8, <2>9, <2>10, <2>11, <2>12 DEF LandingInv
<1>2. ASSUME NEW w \in Workers, PrepareDestination(w)
      PROVE  LandingInv'
    <2>1. FileOf(job[w]) \in Files
        BY <1>0, <1>2, JobType DEF PrepareDestination, TypeInv, Shape, HoldsJob
    <2>2. /\ UNCHANGED <<cursor, filled, job>>
          /\ pc'[w] = "write" /\ pc[w] = "lock"
          /\ prepared'[FileOf(job[w])]
          /\ \A f \in Files : prepared[f] => prepared'[f]
          /\ \A v \in Workers : v # w => pc'[v] = pc[v]
        BY <1>0, <1>2, <2>1 DEF PrepareDestination
    <2>3. PICK k \in {"hole", "stale"} : disk' = Recreated(FileOf(job[w]), k)
        BY <1>2 DEF PrepareDestination, Unwritten
    <2>4. \A j \in JobIds : Landed(j)' => Landed(j)
        BY <2>3, NoDataIsNotData DEF Recreated, Landed
    <2>5. /\ \A v \in Workers : pc[v] \in Working => job[v] \in JobIds
          /\ \A i \in InFlight : filled[i].job \in JobIds
          /\ \A j \in JobIds : FileOf(j) \in Files
        BY <1>0, RingEntry, JobType DEF TypeInv, Shape, HoldsJob, Working
    <2> QED
        BY <2>2, <2>4, <2>5 DEF LandingInv, InFlight, Working
<1>3. ASSUME NEW w \in Workers, PrepareFails(w)
      PROVE  LandingInv'
    <2>1. /\ UNCHANGED <<cursor, filled, job, prepared>>
          /\ pc'[w] = "discard"
          /\ \A v \in Workers : v # w => pc'[v] = pc[v]
        BY <1>0, <1>3 DEF PrepareFails
    <2>2. UNCHANGED disk \/ disk' = Recreated(FileOf(job[w]), "hole")
        BY <1>3 DEF PrepareFails
    <2>3. \A j \in JobIds : Landed(j)' => Landed(j)
        BY <2>2, NoDataIsNotData DEF Recreated, Landed
    <2>4. /\ \A v \in Workers : pc[v] \in Working => job[v] \in JobIds
          /\ \A i \in InFlight : filled[i].job \in JobIds
        BY <1>0, RingEntry DEF TypeInv, Shape, HoldsJob, Working
    <2> QED
        BY <2>1, <2>3, <2>4 DEF LandingInv, InFlight, Working
<1>4. ASSUME NEW w \in Workers, ClaimJob(w)
      PROVE  LandingInv'
    <2>1. /\ UNCHANGED <<filled, disk, prepared>>
          /\ cursor' = cursor + 1 /\ job'[w] = cursor + 1 /\ pc'[w] = "read"
          /\ \A v \in Workers : v # w => pc'[v] = pc[v] /\ job'[v] = job[v]
        BY <1>0, <1>4 DEF ClaimJob
    <2>2. cursor \in Nat /\ cursor + 1 \in JobIds
        BY <1>4, JobCount DEF ClaimJob, JobIds, TypeInv, TypeOK, ClaimsOK
    <2> QED
        BY <2>1, <2>2, JobCount DEF LandingInv, InFlight, Landed
<1>5. ASSUME NEW w \in Workers, PushFilled(w)
      PROVE  LandingInv'
    <2> DEFINE last == Len(filled) + 1
    <2>1. /\ InFlight' = InFlight \cup {last}
          /\ filled'[last].job = job[w]
        BY <1>5, PushedRing
    <2>2. \A i \in InFlight : filled'[i] = filled[i]
        BY <1>5, PushedRing
    <2>3. /\ UNCHANGED <<cursor, disk, prepared>> /\ pc[w] = "push" /\ pc'[w] = "loop"
          /\ \A v \in Workers : v # w => pc'[v] = pc[v] /\ job'[v] = job[v]
        BY <1>0, <1>5 DEF PushFilled
    <2> HIDE DEF last
    <2> QED
        BY <2>1, <2>2, <2>3 DEF LandingInv, Landed, Working
<1>6. ASSUME NEW w \in Workers, PopFilled(w)
      PROVE  LandingInv'
    <2>1. /\ 1 \in InFlight
          /\ \A i \in InFlight' : i + 1 \in InFlight /\ filled'[i] = filled[i + 1]
        BY <1>6, PoppedRing
    <2>2. /\ UNCHANGED <<cursor, disk, prepared>> /\ pc'[w] = "check"
          /\ job'[w] = filled[1].job
          /\ \A v \in Workers : v # w => pc'[v] = pc[v] /\ job'[v] = job[v]
        BY <1>0, <1>6, PoppedRing DEF PopFilled
    <2> QED
        BY <2>1, <2>2 DEF LandingInv, Landed, Working
<1>7. ASSUME NEW w \in Workers, CheckPrepared(w) \/ AlreadyPrepared(w)
      PROVE  LandingInv'
    <2>1. /\ UNCHANGED <<cursor, filled, job, disk, prepared>>
          /\ pc[w] \in Working
          /\ pc'[w] = "write" => prepared[FileOf(job[w])]
          /\ \A v \in Workers : v # w => pc'[v] = pc[v]
        BY <1>0, <1>7 DEF CheckPrepared, AlreadyPrepared, Working
    <2> QED
        BY <2>1 DEF LandingInv, InFlight, Landed
<1>8. ASSUME UNCHANGED <<cursor, filled, disk, prepared>>,
             \A v \in Workers :
                /\ pc'[v] = "write" => pc[v] = "write" /\ job'[v] = job[v]
                /\ pc'[v] \in Working => pc[v] \in Working /\ job'[v] = job[v]
      PROVE  LandingInv'
    BY <1>8 DEF LandingInv, InFlight, Landed
<1>9. ASSUME NEW w \in Workers, PickSide(w) \/ Exit(w) \/ Settle(w)
      PROVE  LandingInv'
    BY <1>0, <1>8, <1>9 DEF Working, PickSide, Exit, Settle, ReleaseBuffer, ForfeitJob, RetireJob, CountDone, Finalize
<1>10. ASSUME NEW w \in Workers, AcquireFree(w) \/ WaitFree(w) \/ AcquireTimeout(w)
                                 \/ ClaimNothing(w) \/ ReadFails(w) \/ Read(w)
       PROVE  LandingInv'
    BY <1>0, <1>8, <1>10 DEF Working, AcquireFree, WaitFree, AcquireTimeout, GiveUp, ClaimNothing, ReadFails, Read
<1>11. ASSUME NEW w \in Workers, WaitFilled(w) \/ PopTimeout(w) \/ OpenDstFails(w) \/ WriteFails(w)
       PROVE  LandingInv'
    BY <1>0, <1>8, <1>11 DEF Working, WaitFilled, PopTimeout, GiveUp, OpenDstFails, WriteFails
<1>12. ASSUME RunBulk \/ SchedulerExit \/ UNCHANGED vars
       PROVE  LandingInv'
    BY <1>8, <1>12 DEF RunBulk, StopScheduler, ShutdownRings, Return, SchedulerExit, vars
<1> QED
    BY <1>1, <1>2, <1>3, <1>4, <1>5, <1>6, <1>7, <1>9, <1>10, <1>11, <1>12
       DEF Next, Worker, TryRead, TryWrite, Finished

\* Three actions write the destination; none of them touches a landed chunk.
LEMMA LandedStays ==
    ASSUME TypeInv, LandingInv, [Next]_vars
    PROVE  \A j \in JobIds : Landed(j) => disk'[j] = disk[j]
<1> USE DEF At, dest
<1>1. ASSUME NEW w \in Workers, Write(w)
      PROVE  \A j \in JobIds : Landed(j) => disk'[j] = disk[j]
    <2>1. ~Landed(job[w])
        BY <1>1 DEF Write, LandingInv, Working
    <2>2. \A j \in JobIds : j # job[w] => disk'[j] = disk[j]
        BY <1>1 DEF Write, TypeInv, TypeOK, DestOK, WriteAt
    <2> QED
        BY <2>1, <2>2
<1>2. ASSUME NEW w \in Workers, PrepareDestination(w) \/ PrepareFails(w)
      PROVE  \A j \in JobIds : Landed(j) => disk'[j] = disk[j]
    <2>1. ~prepared[FileOf(job[w])]
        BY <1>2 DEF PrepareDestination, PrepareFails
    <2>2. UNCHANGED disk \/ \E k \in {"hole", "stale"} : disk' = Recreated(FileOf(job[w]), k)
        BY <1>2 DEF PrepareDestination, PrepareFails, Unwritten
    <2> QED
        BY <2>1, <2>2 DEF Recreated, LandingInv
<1>3. ASSUME NEW w \in Workers, TryRead(w)
      PROVE  UNCHANGED disk
    BY <1>3 DEF TryRead, AcquireFree, WaitFree, AcquireTimeout, ClaimJob, ClaimNothing, ReadFails, Read, PushFilled
<1>4. ASSUME NEW w \in Workers, TryWrite(w)
      PROVE  UNCHANGED disk \/ Write(w) \/ PrepareDestination(w) \/ PrepareFails(w)
    BY <1>4 DEF TryWrite, PopFilled, WaitFilled, PopTimeout, CheckPrepared, AlreadyPrepared, OpenDstFails, WriteFails
<1>5. ASSUME NEW w \in Workers, PickSide(w) \/ Exit(w) \/ Settle(w)
      PROVE  UNCHANGED disk
    BY <1>5 DEF PickSide, Exit, Settle, ReleaseBuffer, ForfeitJob, RetireJob, CountDone, Finalize
<1>6. ASSUME RunBulk \/ SchedulerExit \/ UNCHANGED vars
      PROVE  UNCHANGED disk
    BY <1>6 DEF RunBulk, StopScheduler, ShutdownRings, Return, SchedulerExit, vars
<1> QED
    BY <1>1, <1>2, <1>3, <1>4, <1>5, <1>6 DEF Next, Worker, Finished

DestinationInv == TypeInv /\ JobsApart /\ LandingInv

\* A chunk that reached the destination is never lost to a later creation of
\* its file, and never written a second time.
THEOREM LandedForGood == Spec => NeverUnwritten
<1>1. Init => DestinationInv
    BY TypeInit, JobsApartInit, LandingInit DEF DestinationInv
<1>2. DestinationInv /\ [Next]_vars => DestinationInv'
    BY TypeStep, JobsApartStep, LandingStep DEF DestinationInv
<1>3. DestinationInv /\ [Next]_vars => [\A j \in JobIds : Landed(j) => disk'[j] = disk[j]]_vars
    BY LandedStays DEF DestinationInv
<1> QED
    BY <1>1, <1>2, <1>3, PTL DEF Spec, NeverUnwritten
===============================================================================
