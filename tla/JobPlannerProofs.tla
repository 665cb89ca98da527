---------------------------- MODULE JobPlannerProofs ----------------------------
(***************************************************************************)
(* Theorems about JobPlanner: the chunks tile every file, the padding of   *)
(* unbuffered I/O harms nobody, the buffers fit, and the probe recognises  *)
(* a spindle.                                                              *)
(***************************************************************************)
EXTENDS JobPlanner, FiniteSetTheorems, WellFoundedInduction, TLAPS

-------------------------------------------------------------------------------
(* Natural numbers. *)

Before == {p \in Nat \X Nat : p[1] < p[2]}

\* A set of natural numbers that is not empty has a least member.
LEMMA LeastMember ==
    ASSUME NEW T \in SUBSET Nat, T # {}
    PROVE  \E x \in T : \A y \in T : x <= y
<1>1. OpToRel(<, Nat) = Before
  BY Zenon DEF OpToRel, Before
<1>2. IsWellFoundedOn(Before, Nat)
  BY Zenon, <1>1, NatLessThanWellFounded
<1>3. PICK x \in T : \A y \in T : ~ <<y, x>> \in Before
  BY Zenon, <1>2, WFMin
<1>4. ASSUME NEW y \in T PROVE x <= y
  <2>1. <<y, x>> \in Nat \X Nat
    OBVIOUS
  <2>2. <<y, x>>[1] = y /\ <<y, x>>[2] = x
    OBVIOUS
  <2>3. ~ (y < x)
    BY Zenon, <1>3, <2>1, <2>2 DEF Before
  <2> QED BY <2>1, <2>3
<1> QED BY <1>4

\* Induction over the natural numbers, with a set in the place of a predicate.
LEMMA Induction ==
    ASSUME NEW S \in SUBSET Nat, 0 \in S, \A n \in S : n + 1 \in S
    PROVE  S = Nat
<1>1. SUFFICES ASSUME Nat \ S # {} PROVE FALSE
  OBVIOUS
<1>2. PICK x \in Nat \ S : \A y \in Nat \ S : x <= y
  BY <1>1, LeastMember
<1>3. x # 0 /\ x - 1 \in Nat /\ x - 1 \in S
  BY <1>2
<1> QED BY <1>2, <1>3

LEMMA MinIsLeast ==
    ASSUME NEW T \in SUBSET Nat, T # {}
    PROVE  Min(T) \in T /\ \A y \in T : Min(T) <= y
BY LeastMember DEF Min

LEMMA PowerOfTwo ==
    ASSUME NEW n \in Nat
    PROVE  2 ^ n \in Nat \ {0}
<1>1. IsFiniteSet(1..n) /\ Cardinality(1..n) = n
  BY FS_Interval
<1>2. IsFiniteSet(SUBSET (1..n)) /\ Cardinality(SUBSET (1..n)) = 2 ^ Cardinality(1..n)
  BY <1>1, FS_SUBSET
<1>3. SUBSET (1..n) # {}
  OBVIOUS
<1>4. Cardinality(SUBSET (1..n)) \in Nat /\ Cardinality(SUBSET (1..n)) # 0
  BY Zenon, <1>2, <1>3, FS_CardinalityType, FS_EmptySet
<1> QED BY <1>1, <1>2, <1>4

LEMMA QuotientBounds ==
    ASSUME NEW a \in Nat, NEW b \in Nat \ {0}
    PROVE  a \div b \in Nat /\ (a \div b) * b <= a /\ a < (a \div b) * b + b
OBVIOUS

LEMMA SmallRemainder ==
    ASSUME NEW a \in Nat, NEW b \in Nat, a < b
    PROVE  a % b = a
OBVIOUS

LEMMA RemainderAtMost ==
    ASSUME NEW a \in Nat, NEW b \in Nat \ {0}
    PROVE  a % b \in Nat /\ a % b <= a
OBVIOUS

LEMMA ProductMonotone ==
    ASSUME NEW k \in Nat, NEW m \in Nat, NEW a \in Nat, k <= m
    PROVE  k * a <= m * a
OBVIOUS

LEMMA FactorBelow ==
    ASSUME NEW k \in Int, NEW m \in Int, NEW a \in Nat, k * a < m * a
    PROVE  k < m
OBVIOUS

LEMMA ProductDistributes ==
    ASSUME NEW k \in Int, NEW m \in Int, NEW a \in Int
    PROVE  (k + m) * a = k * a + m * a /\ (k - m) * a = k * a - m * a
OBVIOUS

LEMMA ProductAssociates ==
    ASSUME NEW k \in Int, NEW m \in Int, NEW a \in Int
    PROVE  (k * m) * a = k * (m * a)
OBVIOUS

\* Divisible by a: a multiple of it.
LEMMA DivisibleIsMultiple ==
    ASSUME NEW a \in Nat \ {0}, NEW x \in Nat, x % a = 0
    PROVE  x \div a \in Nat /\ x = (x \div a) * a
OBVIOUS

LEMMA MultipleIsDivisible ==
    ASSUME NEW a \in Nat \ {0}, NEW k \in Nat
    PROVE  (k * a) % a = 0
OBVIOUS

LEMMA DivisibleTransitive ==
    ASSUME NEW a \in Nat \ {0}, NEW b \in Nat \ {0}, NEW x \in Nat, x % b = 0, b % a = 0
    PROVE  x % a = 0
<1>1. PICK k \in Nat : x = k * b
  BY DivisibleIsMultiple
<1>2. PICK m \in Nat : b = m * a
  BY DivisibleIsMultiple
<1>3. x = (k * m) * a
  BY <1>1, <1>2, ProductAssociates
<1>4. k * m \in Nat
  OBVIOUS
<1>5. ((k * m) * a) % a = 0
  BY <1>4, MultipleIsDivisible
<1> QED BY <1>3, <1>5

LEMMA DivisibleAdds ==
    ASSUME NEW a \in Nat \ {0}, NEW x \in Nat, NEW y \in Nat, x % a = 0, y % a = 0
    PROVE  (x + y) % a = 0 /\ (x >= y => (x - y) % a = 0)
<1>1. PICK k \in Nat : x = k * a
  BY DivisibleIsMultiple
<1>2. PICK m \in Nat : y = m * a
  BY DivisibleIsMultiple
<1>3. x + y = (k + m) * a /\ x - y = (k - m) * a
  BY <1>1, <1>2, ProductDistributes
<1>4. k + m \in Nat /\ ((k + m) * a) % a = 0
  BY MultipleIsDivisible
<1>5. ASSUME x >= y PROVE ((k - m) * a) % a = 0
  <2>1. k >= m
    BY <1>1, <1>2, <1>5
  <2>2. k - m \in Nat
    BY <2>1
  <2> QED BY <2>2, MultipleIsDivisible
<1> QED BY <1>3, <1>4, <1>5

-------------------------------------------------------------------------------
(* round_up. *)

\* The rounded value is a multiple of the alignment, at or above v and less
\* than one alignment away.
LEMMA RoundUpRounds ==
    ASSUME NEW v \in Nat, NEW to \in Nat \ {0}
    PROVE  RoundUp(v, to) \in Nat /\ RoundUp(v, to) % to = 0 /\ v <= RoundUp(v, to) /\ RoundUp(v, to) < v + to
<1> DEFINE q == (v + to - 1) \div to
<1>1. v + to - 1 \in Nat
  OBVIOUS
<1>2. q \in Nat /\ q * to <= v + to - 1 /\ v + to - 1 < q * to + to
  BY <1>1, QuotientBounds
<1>3. RoundUp(v, to) = q * to
  BY DEF RoundUp
<1> HIDE DEF q
<1>4. (q * to) % to = 0
  BY <1>2, MultipleIsDivisible
<1>5. q * to \in Nat
  BY <1>2
<1> QED BY <1>2, <1>3, <1>4, <1>5

\* No smaller multiple will do.
LEMMA RoundUpLeast ==
    ASSUME NEW v \in Nat, NEW to \in Nat \ {0}, NEW x \in Nat, x % to = 0, v <= x
    PROVE  RoundUp(v, to) <= x
<1> DEFINE r == RoundUp(v, to)
<1>1. r \in Nat /\ r % to = 0 /\ r < v + to
  BY RoundUpRounds
<1> HIDE DEF r
<1>2. SUFFICES ASSUME x < r PROVE FALSE
  BY <1>1 DEF r
<1>3. PICK k \in Nat : x = k * to
  BY DivisibleIsMultiple
<1>4. PICK m \in Nat : r = m * to
  BY <1>1, DivisibleIsMultiple
<1>5. k < m
  BY <1>2, <1>3, <1>4, FactorBelow
<1>6. k + 1 <= m
  BY <1>5
<1>7. (k + 1) * to <= m * to
  BY <1>6, ProductMonotone
<1>8. (k + 1) * to = k * to + to
  BY ProductDistributes
<1> QED BY <1>1, <1>3, <1>4, <1>7, <1>8

LEMMA RoundUpOfMultiple ==
    ASSUME NEW v \in Nat, NEW to \in Nat \ {0}, v % to = 0
    PROVE  RoundUp(v, to) = v
<1>1. RoundUp(v, to) \in Nat /\ v <= RoundUp(v, to)
  BY RoundUpRounds
<1>2. RoundUp(v, to) <= v
  BY RoundUpLeast
<1> QED BY <1>1, <1>2

\* The chunks of a file reach its end, and all but the last one end before it.
LEMMA ChunkCountCovers ==
    ASSUME NEW size \in Nat, NEW b \in Nat \ {0}
    PROVE  /\ ChunkCount(size, b) \in Nat \ {0}
           /\ size <= ChunkCount(size, b) * b
           /\ ChunkCount(size, b) > 1 => (ChunkCount(size, b) - 1) * b < size
<1> DEFINE q == (size + b - 1) \div b
           n == ChunkCount(size, b)
<1>1. size + b - 1 \in Nat
  OBVIOUS
<1>2. q \in Nat /\ q * b <= size + b - 1 /\ size + b - 1 < q * b + b
  BY <1>1, QuotientBounds
<1>3. n = IF q < 1 THEN 1 ELSE q
  BY DEF ChunkCount
<1> HIDE DEF q, n
<1>4. CASE q < 1
  <2>1. q = 0 /\ q * b = 0 /\ n = 1 /\ n * b = b
    BY <1>2, <1>3, <1>4
  <2> QED BY <1>2, <2>1 DEF n
<1>5. CASE q >= 1
  <2>1. n = q
    BY <1>2, <1>3, <1>5
  <2>2. (q - 1) * b = q * b - 1 * b
    BY <1>2, ProductDistributes
  <2> QED BY <1>2, <1>5, <2>1, <2>2 DEF n
<1> QED BY <1>2, <1>4, <1>5

-------------------------------------------------------------------------------
(* Volumes and what is chosen from them. *)

LEMMA VolumeUnits ==
    ASSUME NEW v \in Volumes
    PROVE  /\ SectorSize(v) \in Nat \ {0}
           /\ Alignment(v) \in Nat \ {0}
           /\ Alignment(v) % SectorSize(v) = 0
<1>1. v.sector \in Nat /\ v.perCluster \in Nat
  BY InputAssumption
<1>2. v.perCluster * v.sector \in Nat
  BY <1>1
<1>3. MinSector \in Nat \ {0} /\ MinAlign \in Nat \ {0}
  BY DiskAssumption
<1>4. SectorSize(v) \in Nat \ {0}
  BY <1>1, <1>3 DEF SectorSize, Larger
<1>5. ClusterSize(v) \in Nat \ {0}
  BY <1>2, <1>4 DEF ClusterSize, Larger
<1>6. Alignment(v) \in Nat \ {0}
  BY <1>3, <1>4, <1>5 DEF Alignment, Larger
<1> QED BY <1>4, <1>6, UnitAssumption

\* The larger of two alignments suits both volumes.
LEMMA CommonUnits ==
    ASSUME NEW v \in Volumes, NEW w \in Volumes
    PROVE  /\ Larger(Alignment(v), Alignment(w)) \in Nat \ {0}
           /\ Larger(Alignment(v), Alignment(w)) % Alignment(v) = 0
           /\ Larger(Alignment(v), Alignment(w)) % Alignment(w) = 0
<1>1. Alignment(v) \in Nat \ {0} /\ Alignment(w) \in Nat \ {0}
  BY VolumeUnits
<1>2. Larger(Alignment(v), Alignment(w)) = Larger(Alignment(w), Alignment(v))
  BY <1>1 DEF Larger
<1>3. Larger(Alignment(v), Alignment(w)) \in Nat \ {0}
  BY <1>1 DEF Larger
<1> QED BY <1>2, <1>3, UnitAssumption

\* The disk that is asked is one of the volume's.
LEMMA FirstDiskIsDisk ==
    ASSUME NEW v \in Volumes, v.extents # <<>>
    PROVE  FirstDisk(v) \in Disks
<1> DEFINE near == {v.extents[i] : i \in {k \in DOMAIN v.extents : k <= 16}}
<1>1. v.extents \in Seq(Disks) /\ Disks \subseteq Nat
  BY InputAssumption, DiskAssumption
<1>2. Len(v.extents) \in Nat /\ DOMAIN v.extents = 1..Len(v.extents)
  BY <1>1
<1>3. Len(v.extents) # 0
  BY <1>1
<1>4. 1 \in {k \in DOMAIN v.extents : k <= 16}
  BY <1>2, <1>3
<1>5. \A k \in DOMAIN v.extents : v.extents[k] \in Disks
  BY <1>1, <1>2
<1>6. near # {} /\ near \subseteq Disks
  BY <1>4, <1>5
<1>7. near \in SUBSET Nat
  BY <1>1, <1>6
<1>8. Min(near) \in near
  BY <1>6, <1>7, MinIsLeast
<1> QED BY <1>6, <1>8 DEF FirstDisk

LEMMA ClassKnown ==
    ASSUME NEW v \in Volumes
    PROVE  Class(v) \in {"nvme", "ssd", "hdd", "unknown"}
<1>1. CASE v.extents = <<>>
  BY <1>1 DEF Class
<1>2. CASE v.extents # <<>>
  <2>1. Penalty[FirstDisk(v)] \in {"seeks", "none", "silent"}
    BY <1>2, FirstDiskIsDisk, DiskAssumption
  <2>2. CASE Penalty[FirstDisk(v)] = "seeks"
    BY <1>2, <2>2 DEF Class
  <2>3. CASE Penalty[FirstDisk(v)] = "none"
    BY <1>2, <2>3 DEF Class
  <2>4. CASE Penalty[FirstDisk(v)] = "silent"
    BY <1>2, <2>4 DEF Class
  <2> QED BY <2>1, <2>2, <2>3, <2>4
<1> QED BY <1>1, <1>2

LEMMA ProfileBlockNatural ==
    ASSUME NEW v \in Volumes
    PROVE  ProfileBlock(v) \in Nat
<1>1. MiB \in Nat
  BY DiskAssumption
<1>2. ClassBlock[Class(v)] \in Nat
  BY <1>1, ClassKnown DEF ClassBlock
<1>3. Alignment(v) \in Nat \ {0}
  BY VolumeUnits
<1> HIDE DEF ClassBlock
<1> QED BY <1>2, <1>3, RoundUpRounds DEF ProfileBlock

LEMMA OptionValue ==
    ASSUME NEW o \in BlockOptions \cup RamOptions, o # {}
    PROVE  (CHOOSE x \in o : TRUE) \in Nat
<1>1. o \subseteq Nat
  BY InputAssumption
<1>2. (CHOOSE x \in o : TRUE) \in o
  OBVIOUS
<1> QED BY <1>1, <1>2

LEMMA ArenaBytesNatural ==
    ASSUME NEW option \in RamOptions, NEW available \in Available
    PROVE  ArenaBytes(option, available) \in Nat
<1>1. ArenaFloor \in Nat /\ ArenaCap \in Nat /\ available \in Nat
  BY InputAssumption
<1>2. available \div 4 \in Nat
  BY <1>1
<1>3. {available \div 4, ArenaCap} \in SUBSET Nat
  BY <1>1, <1>2
<1>4. Min({available \div 4, ArenaCap}) \in {available \div 4, ArenaCap}
  BY <1>3, MinIsLeast
<1>5. Larger(ArenaFloor, Min({available \div 4, ArenaCap})) \in Nat
  BY <1>1, <1>3, <1>4 DEF Larger
<1>6. CASE option = {}
  BY <1>5, <1>6 DEF ArenaBytes
<1>7. CASE option # {}
  BY <1>7, OptionValue DEF ArenaBytes
<1> QED BY <1>6, <1>7

-------------------------------------------------------------------------------
(* The chunks of one file. *)

LEMMA ChunkLenTruncates ==
    ASSUME NEW size \in Nat, NEW b \in Nat \ {0}, NEW offset \in Nat, offset <= size
    PROVE  /\ ChunkLen(size, b, offset, LenBits) \in Nat
           /\ ChunkLen(size, b, offset, LenBits) <= size - offset
           /\ ChunkLen(size, b, offset, LenBits) <= b
           /\ b < 2 ^ LenBits =>
                ChunkLen(size, b, offset, LenBits) = IF size - offset < b THEN size - offset ELSE b
<1> DEFINE whole == IF size - offset < b THEN size - offset ELSE b
           wide == 2 ^ LenBits
<1>1. wide \in Nat \ {0}
  BY PowerOfTwo, InputAssumption
<1>2. whole \in Nat /\ whole <= size - offset /\ whole <= b
  OBVIOUS
<1>3. ChunkLen(size, b, offset, LenBits) = whole % wide
  BY DEF ChunkLen
<1>4. (whole % wide) \in Nat /\ (whole % wide) <= whole
  <2> HIDE DEF whole, wide
  <2> QED BY <1>1, <1>2, RemainderAtMost
<1>5. b < wide => (whole % wide) = whole
  <2>1. b < wide => whole < wide
    <3> HIDE DEF whole, wide
    <3> QED BY <1>1, <1>2
  <2> HIDE DEF whole, wide
  <2> QED BY <1>1, <1>2, <2>1, SmallRemainder
<1> HIDE DEF whole, wide
<1>6. ChunkLen(size, b, offset, LenBits) \in Nat
  BY <1>3, <1>4
<1>7. ChunkLen(size, b, offset, LenBits) <= size - offset /\ ChunkLen(size, b, offset, LenBits) <= b
  BY <1>2, <1>3, <1>4
<1>8. b < wide => ChunkLen(size, b, offset, LenBits) = whole
  BY <1>3, <1>5
<1> QED BY <1>6, <1>7, <1>8 DEF whole, wide

\* A chunk starts within its file and ends where the next one starts or, if it
\* is the last, where the file ends.
LEMMA ChunkBounds ==
    ASSUME NEW size \in Nat, NEW b \in Nat \ {0}, NEW c \in 1..ChunkCount(size, b)
    PROVE  /\ (c - 1) * b \in Nat /\ (c - 1) * b <= size
           /\ c < ChunkCount(size, b) => c * b < size
           /\ c = ChunkCount(size, b) => size <= c * b
           /\ c * b = (c - 1) * b + b
<1> DEFINE n == ChunkCount(size, b)
<1>1. n \in Nat \ {0} /\ size <= n * b /\ (n > 1 => (n - 1) * b < size)
  BY ChunkCountCovers
<1>2. c \in Nat /\ 1 <= c /\ c <= n /\ c - 1 \in Nat
  BY <1>1
<1> HIDE DEF n
<1>3. (c - 1) * b \in Nat /\ c * b = (c - 1) * b + b
  <2>1. (c - 1) * b = c * b - 1 * b
    BY <1>2, ProductDistributes
  <2>2. (c - 1) * b \in Nat
    BY <1>2
  <2> QED BY <1>2, <2>1, <2>2
<1>4. c < n => c * b < size
  <2> SUFFICES ASSUME c < n PROVE c * b < size
    OBVIOUS
  <2>1. c <= n - 1 /\ n > 1 /\ n - 1 \in Nat
    BY <1>1, <1>2
  <2>2. c * b <= (n - 1) * b
    BY <1>2, <2>1, ProductMonotone
  <2> QED BY <1>1, <1>2, <2>1, <2>2
<1>5. (c - 1) * b <= size
  <2>1. CASE c < n
    BY <1>2, <1>3, <1>4, <2>1
  <2>2. CASE c = n
    <3>1. CASE n > 1
      BY <1>1, <2>2, <3>1
    <3>2. CASE n = 1
      BY <2>2, <3>2
    <3> QED BY <1>1, <3>1, <3>2
  <2> QED BY <1>1, <1>2, <2>1, <2>2
<1>6. c = n => size <= c * b
  BY <1>1
<1> QED BY <1>3, <1>4, <1>5, <1>6 DEF n

LEMMA ChunksMeet ==
    ASSUME NEW size \in Nat, NEW b \in Nat \ {0}, NEW c \in 1..ChunkCount(size, b), b < 2 ^ LenBits
    PROVE  (c - 1) * b + ChunkLen(size, b, (c - 1) * b, LenBits)
             = IF c < ChunkCount(size, b) THEN c * b ELSE size
<1> DEFINE n == ChunkCount(size, b)
           from == (c - 1) * b
           to == c * b
           len == ChunkLen(size, b, from, LenBits)
<1>1. n \in Nat \ {0}
  BY ChunkCountCovers
<1>2. c \in Nat /\ c <= n
  BY <1>1
<1>3. /\ from \in Nat /\ from <= size
      /\ c < n => to < size
      /\ c = n => size <= to
      /\ to = from + b
  BY ChunkBounds
<1>4. len = IF size - from < b THEN size - from ELSE b
  <2> HIDE DEF from
  <2> QED BY <1>3, ChunkLenTruncates
<1> HIDE DEF n, from, to, len
<1>5. CASE c < n
  BY <1>3, <1>4, <1>5 DEF n, from, to, len
<1>6. CASE c = n
  <2>1. size - from <= b
    BY <1>3, <1>6
  <2>2. from + len = size
    BY <1>3, <1>4, <2>1
  <2> QED BY <1>1, <1>6, <2>2 DEF n, from, to, len
<1> QED BY <1>1, <1>2, <1>5, <1>6

-------------------------------------------------------------------------------
(* What the planner keeps. *)

ChunkOf(f, c) ==
    [file |-> f, offset |-> (c - 1) * block,
     len |-> ChunkLen(plan[f], block, (c - 1) * block, LenBits)]

\* How many chunks of file f are pushed.
Pushed(f) == IF f < file THEN ChunkCount(plan[f], block) ELSE IF f = file THEN chunk - 1 ELSE 0

\* The chunks of f lie one behind the other, after the first s jobs.
LiesAt(f, s) ==
    /\ ChunksOf(f) = (s + 1)..(s + Pushed(f))
    /\ \A c \in 1..Pushed(f) : jobs[s + c] = ChunkOf(f, c)
    /\ f = file => s + Pushed(f) = Len(jobs)

SetupInv ==
    /\ plan \in Seq(Nat)
    /\ src \in Volumes /\ dst \in Volumes
    /\ block \in Nat /\ block % CommonAlignment = 0
    /\ ram \in Nat
    /\ align \in {CommonAlignment, 1}
    /\ phase \in {"allocating", "planning", "ready", "panicked", "refused"}
    /\ phase \in {"planning", "ready"} => block # 0

ArenaInv ==
    phase \in {"planning", "ready"} =>
        /\ arena.base \in Nat /\ arena.bytes \in Nat /\ arena.count \in Nat /\ arena.count >= 4
        /\ arena.base % PageSize = 0
        /\ arena.count * block <= arena.bytes

LoopInv ==
    /\ file \in 1..(Len(plan) + 1) /\ chunk \in Nat \ {0}
    /\ jobs \in Seq([file : Nat, offset : Nat, len : Nat])
    /\ entries \in Seq([size : Nat, chunks : Nat])
    /\ phase \notin {"planning", "ready"} =>
        file = 1 /\ chunk = 1 /\ jobs = <<>> /\ entries = <<>>
    /\ phase \in {"planning", "ready"} /\ file <= Len(plan) => chunk <= ChunkCount(plan[file], block) + 1
    /\ phase = "ready" => file = Len(plan) + 1

EntryInv ==
    /\ Len(entries) = file - 1
    /\ \A f \in 1..Len(entries) : entries[f].chunks = ChunkCount(plan[f], block)

RunsInv ==
    \A f \in 1..Len(plan) : \E s \in Nat : LiesAt(f, s)

\* Every job is a chunk of its file, one of those pushed.
JobInv ==
    \A i \in 1..Len(jobs) :
        \E f \in 1..Len(plan) : \E c \in 1..ChunkCount(plan[f], block) : jobs[i] = ChunkOf(f, c)

PlannerInv == SetupInv /\ ArenaInv /\ LoopInv /\ EntryInv /\ RunsInv /\ JobInv

LEMMA Beginning == Init => PlannerInv
<1> SUFFICES ASSUME Init PROVE PlannerInv
  OBVIOUS
<1>1. plan \in Seq(Nat) /\ Len(plan) \in Nat
  <2>1. PICK n \in 0..MaxFiles : plan \in [1..n -> FileSizes]
    BY DEF Init, Plans, BoundedSeq, SeqOf
  <2>2. FileSizes \subseteq Nat /\ MaxFiles \in Nat
    BY InputAssumption
  <2>3. n \in Nat
    BY <2>2
  <2>4. \A i \in 1..n : plan[i] \in Nat
    BY <2>1, <2>2
  <2>5. plan \in [1..n -> Nat]
    BY <2>1, <2>4
  <2> QED BY <2>3, <2>5
<1>2. src \in Volumes /\ dst \in Volumes
  BY DEF Init
<1>3. CommonAlignment \in Nat \ {0}
  BY <1>2, CommonUnits DEF CommonAlignment
<1>4. block \in Nat /\ block % CommonAlignment = 0
  <2>1. PICK option \in BlockOptions :
          block = BlockSize(IF option = {} THEN Larger(ProfileBlock(src), ProfileBlock(dst))
                            ELSE CHOOSE b \in option : TRUE,
                            CommonAlignment)
    BY DEF Init
  <2> DEFINE chosen == IF option = {} THEN Larger(ProfileBlock(src), ProfileBlock(dst))
                       ELSE CHOOSE b \in option : TRUE
  <2>2. ProfileBlock(src) \in Nat /\ ProfileBlock(dst) \in Nat
    BY <1>2, ProfileBlockNatural
  <2>3. chosen \in Nat
    BY <2>2, OptionValue DEF Larger
  <2> HIDE DEF chosen
  <2>4. block = RoundUp(chosen, CommonAlignment)
    BY <2>1 DEF BlockSize, chosen
  <2> HIDE DEF CommonAlignment
  <2> QED BY <1>3, <2>3, <2>4, RoundUpRounds
<1>5. ram \in Nat
  BY ArenaBytesNatural DEF Init
<1>6. SetupInv
  BY <1>1, <1>2, <1>4, <1>5 DEF SetupInv, Init, IoAlignment
<1>7. ArenaInv /\ LoopInv /\ EntryInv /\ JobInv
  BY <1>1 DEF Init, ArenaInv, LoopInv, EntryInv, JobInv
<1>8. RunsInv
  <2> SUFFICES ASSUME NEW f \in 1..Len(plan) PROVE LiesAt(f, 0)
    <3>1. 0 \in Nat
      OBVIOUS
    <3> QED BY Zenon, <3>1 DEF RunsInv
  <2>1. jobs = <<>> /\ file = 1 /\ chunk = 1
    BY DEF Init
  <2>2. f \in Nat /\ f >= 1
    BY <1>1
  <2>3. Pushed(f) = 0
    BY <2>1, <2>2 DEF Pushed
  <2>4. ChunksOf(f) = {}
    BY <2>1 DEF ChunksOf
  <2>5. (0 + 1)..(0 + 0) = {} /\ 1..0 = {} /\ 0 + 0 = 0 /\ Len(jobs) = 0
    BY <2>1
  <2> QED BY Zenon, <2>3, <2>4, <2>5 DEF LiesAt
<1> QED BY <1>6, <1>7, <1>8 DEF PlannerInv

\* The arena of a step that allocates holds its buffers.
LEMMA ArenaHolds ==
    ASSUME PlannerInv, Allocate
    PROVE  ArenaInv'
<1>1. ram \in Nat /\ block \in Nat \ {0}
  BY DEF PlannerInv, SetupInv, Allocate
<1> DEFINE count == Larger(ram \div block, 4)
<1>2. ram \div block \in Nat
  BY <1>1, QuotientBounds
<1>3. count \in Nat /\ count >= 4
  BY <1>2 DEF Larger
<1> HIDE DEF count
<1>4. Carve(ram) = [count |-> count, bytes |-> count * block]
  BY DEF Carve, count
<1>5. count * block \in Nat
  BY <1>1, <1>3
<1>6. ASSUME NEW page \in Nat \ {0}, page % PageSize = 0, Allocated(page, Carve(ram))
      PROVE  ArenaInv'
  <2>1. PICK k \in {1, 3} :
          arena' = [base |-> k * page, bytes |-> RoundUp(count * block, page), count |-> count]
    BY <1>4, <1>6 DEF Allocated
  <2>2. k * page \in Nat /\ (k * page) % page = 0
    BY MultipleIsDivisible
  <2>3. PageSize \in Nat \ {0}
    BY InputAssumption
  <2>4. (k * page) % PageSize = 0
    <3> DEFINE x == k * page
    <3> HIDE DEF x
    <3>1. x \in Nat /\ x % page = 0
      BY <2>2 DEF x
    <3>2. x % PageSize = 0
      BY <1>6, <2>3, <3>1, DivisibleTransitive
    <3> QED BY <3>2 DEF x
  <2>5. RoundUp(count * block, page) \in Nat /\ count * block <= RoundUp(count * block, page)
    <3> DEFINE v == count * block
    <3> HIDE DEF v
    <3>1. v \in Nat
      BY <1>5 DEF v
    <3>2. RoundUp(v, page) \in Nat /\ v <= RoundUp(v, page)
      BY <3>1, RoundUpRounds
    <3> QED BY <3>2 DEF v
  <2>6. block' = block
    BY DEF Allocate, setup
  <2>7. /\ arena'.base = k * page /\ arena'.count = count
        /\ arena'.bytes = RoundUp(count * block, page)
    BY <2>1
  <2> QED BY <1>3, <2>2, <2>4, <2>5, <2>6, <2>7 DEF ArenaInv
<1>7. PageSize \in Nat \ {0} /\ LargePages \subseteq Nat
  BY InputAssumption
<1>8. PageSize % PageSize = 0
  BY <1>7
<1> QED BY <1>6, <1>7, <1>8, PageAssumption DEF Allocate

-------------------------------------------------------------------------------
(* One push, seen from a file. *)

\* Nothing else changes when the setup does not.
LEMMA SameChunks ==
    ASSUME UNCHANGED setup, NEW f, NEW c
    PROVE  ChunkOf(f, c)' = ChunkOf(f, c)
BY DEF setup, ChunkOf

LEMMA PushedNatural ==
    ASSUME PlannerInv, phase = "planning", NEW f \in 1..Len(plan)
    PROVE  /\ Pushed(f) \in Nat
           /\ plan[f] \in Nat
           /\ ChunkCount(plan[f], block) \in Nat \ {0}
           /\ Pushed(f) <= ChunkCount(plan[f], block)
<1>1. plan[f] \in Nat /\ block \in Nat \ {0} /\ file \in Nat /\ f \in Nat
  <2>1. plan \in Seq(Nat) /\ block \in Nat \ {0} /\ file \in 1..(Len(plan) + 1)
    BY DEF PlannerInv, SetupInv, LoopInv
  <2>2. Len(plan) \in Nat
    BY <2>1
  <2> QED BY <2>1, <2>2
<1>2. ChunkCount(plan[f], block) \in Nat \ {0}
  BY <1>1, ChunkCountCovers
<1>3. f = file => chunk - 1 \in Nat /\ chunk - 1 <= ChunkCount(plan[f], block)
  BY <1>1, <1>2 DEF PlannerInv, LoopInv
<1>4. Pushed(f) \in Nat /\ Pushed(f) <= ChunkCount(plan[f], block)
  BY <1>2, <1>3 DEF Pushed
<1> QED BY <1>1, <1>2, <1>4

LEMMA PushJobKeeps ==
    ASSUME PlannerInv, PushJob
    PROVE  PlannerInv'
<1> DEFINE n == Len(jobs)
           new == ChunkOf(file, chunk)
<1>1. /\ phase = "planning" /\ file \in 1..Len(plan)
      /\ chunk \in 1..ChunkCount(plan[file], block)
      /\ jobs' = Append(jobs, new)
      /\ chunk' = chunk + 1
      /\ UNCHANGED <<setup, arena, file, entries, phase>>
  <2>1. phase = "planning" /\ file <= Len(plan) /\ chunk <= ChunkCount(plan[file], block)
    BY DEF PushJob
  <2>2. Len(plan) \in Nat /\ file \in Nat \ {0} /\ chunk \in Nat \ {0}
    BY DEF PlannerInv, SetupInv, LoopInv
  <2>3. file \in 1..Len(plan)
    BY <2>1, <2>2
  <2>4. chunk \in 1..ChunkCount(plan[file], block)
    BY <2>1, <2>2, <2>3, PushedNatural
  <2> QED BY <2>1, <2>3, <2>4 DEF PushJob, ChunkOf
<1>2. /\ plan' = plan /\ src' = src /\ dst' = dst /\ block' = block /\ ram' = ram /\ align' = align
  BY <1>1 DEF setup
<1>3. /\ plan[file] \in Nat /\ block \in Nat \ {0} /\ file \in Nat /\ chunk \in Nat \ {0}
      /\ ChunkCount(plan[file], block) \in Nat \ {0}
  BY <1>1, PushedNatural DEF PlannerInv, SetupInv, LoopInv
<1>4. new \in [file : Nat, offset : Nat, len : Nat]
  <2>1. (chunk - 1) * block \in Nat /\ (chunk - 1) * block <= plan[file]
    BY <1>1, <1>3, ChunkBounds
  <2>2. ChunkLen(plan[file], block, (chunk - 1) * block, LenBits) \in Nat
    <3> DEFINE x == (chunk - 1) * block
    <3> HIDE DEF x
    <3>1. x \in Nat /\ x <= plan[file]
      BY <2>1 DEF x
    <3>2. ChunkLen(plan[file], block, x, LenBits) \in Nat
      BY <1>3, <3>1, ChunkLenTruncates
    <3> QED BY <3>2 DEF x
  <2> QED BY <1>3, <2>1, <2>2 DEF ChunkOf
<1>5. jobs \in Seq([file : Nat, offset : Nat, len : Nat])
  BY DEF PlannerInv, LoopInv
<1> HIDE DEF new
<1>6. /\ n \in Nat /\ DOMAIN jobs = 1..n
      /\ Len(jobs') = n + 1 /\ DOMAIN jobs' = 1..(n + 1)
      /\ jobs'[n + 1] = new
      /\ \A i \in 1..n : jobs'[i] = jobs[i]
      /\ jobs' \in Seq([file : Nat, offset : Nat, len : Nat])
  <2> DEFINE S == [file : Nat, offset : Nat, len : Nat]
  <2> HIDE DEF S
  <2>1. jobs \in Seq(S) /\ new \in S
    BY <1>4, <1>5 DEF S
  <2>2. /\ Len(jobs) \in Nat /\ DOMAIN jobs = 1..Len(jobs)
        /\ Len(jobs') = Len(jobs) + 1 /\ DOMAIN jobs' = 1..(Len(jobs) + 1)
        /\ jobs'[Len(jobs) + 1] = new
        /\ \A i \in 1..Len(jobs) : jobs'[i] = jobs[i]
        /\ jobs' \in Seq(S)
    BY <1>1, <2>1
  <2> QED BY <2>2 DEF S
<1> HIDE DEF n
<1>7. new.file = file
  BY DEF new, ChunkOf
<1>8. SetupInv'
  BY <1>1, <1>2 DEF PlannerInv, SetupInv, CommonAlignment
<1>9. ArenaInv'
  BY <1>1, <1>2 DEF PlannerInv, ArenaInv
<1>10. LoopInv'
  <2>1. file \in 1..(Len(plan) + 1) /\ entries \in Seq([size : Nat, chunks : Nat])
    BY DEF PlannerInv, LoopInv
  <2>2. chunk + 1 \in Nat \ {0} /\ chunk + 1 <= ChunkCount(plan[file], block) + 1
    BY <1>1, <1>3
  <2> QED BY <1>1, <1>2, <1>6, <2>1, <2>2 DEF LoopInv
<1>11. EntryInv'
  BY <1>1, <1>2 DEF PlannerInv, EntryInv
<1>12. RunsInv'
  <2> SUFFICES ASSUME NEW f \in 1..Len(plan) PROVE \E s \in Nat : LiesAt(f, s)'
    BY <1>2 DEF RunsInv
  <2>1. PICK s \in Nat : LiesAt(f, s)
    BY DEF PlannerInv, RunsInv
  <2>2. f \in Nat /\ Pushed(f) \in Nat
    BY <1>1, PushedNatural
  <2>3. ASSUME NEW c PROVE ChunkOf(f, c)' = ChunkOf(f, c)
    BY <1>1, SameChunks
  <2>4. CASE f = file
    <3>1. Pushed(f) = chunk - 1 /\ Pushed(f)' = chunk /\ s + Pushed(f) = n
      BY <1>1, <1>2, <1>3, <2>1, <2>4 DEF Pushed, LiesAt, n
    <3>2. ChunksOf(f)' = ChunksOf(f) \cup {n + 1}
      <4>1. ASSUME NEW i \in 1..n PROVE i \in ChunksOf(f)' <=> i \in ChunksOf(f)
        BY SMTT(30), <1>6 DEF ChunksOf
      <4>2. n + 1 \in ChunksOf(f)'
        BY <1>6, <1>7, <2>4 DEF ChunksOf
      <4>3. ChunksOf(f) \subseteq 1..n /\ ChunksOf(f)' \subseteq 1..(n + 1)
        BY <1>6 DEF ChunksOf
      <4>4. 1..(n + 1) = 1..n \cup {n + 1}
        BY SMTT(30), <1>6
      <4> QED BY Zenon, <4>1, <4>2, <4>3, <4>4
    <3>3. ChunksOf(f)' = (s + 1)..(s + chunk)
      <4>1. ChunksOf(f) = (s + 1)..n /\ n + 1 = s + chunk /\ s + 1 <= n + 1
        <5>1. ChunksOf(f) = (s + 1)..(s + Pushed(f))
          BY <2>1 DEF LiesAt
        <5>2. n + 1 = s + chunk /\ s + 1 <= n + 1
          BY <1>3, <1>6, <3>1
        <5> QED BY Zenon, <3>1, <5>1, <5>2
      <4>2. (s + 1)..(n + 1) = (s + 1)..n \cup {n + 1}
        BY <1>6, <4>1
      <4> QED BY Zenon, <3>2, <4>1, <4>2
    <3>4. ASSUME NEW c \in 1..chunk PROVE jobs'[s + c] = ChunkOf(f, c)
      <4>1. CASE c = chunk
        <5>1. s + c = n + 1
          BY <1>3, <1>6, <3>1, <4>1
        <5> QED BY <1>6, <2>4, <4>1, <5>1 DEF new
      <4>2. CASE c # chunk
        <5>1. c \in 1..Pushed(f) /\ s + c \in 1..n
          BY <1>3, <1>6, <3>1, <4>2
        <5>2. jobs[s + c] = ChunkOf(f, c)
          BY <2>1, <5>1 DEF LiesAt
        <5> QED BY <1>6, <5>1, <5>2
      <4> QED BY <4>1, <4>2
    <3>5. s + chunk = n + 1
      BY <1>3, <1>6, <3>1
    <3>6. LiesAt(f, s)'
      BY <1>6, <2>3, <3>1, <3>3, <3>4, <3>5 DEF LiesAt
    <3> QED BY <3>6
  <2>5. CASE f # file
    <3>1. Pushed(f)' = Pushed(f)
      BY <1>1, <1>2, <2>5 DEF Pushed
    <3>2. ChunksOf(f)' = ChunksOf(f)
      <4>1. ASSUME NEW i \in 1..n PROVE i \in ChunksOf(f)' <=> i \in ChunksOf(f)
        BY <1>6 DEF ChunksOf
      <4>2. n + 1 \notin ChunksOf(f)'
        BY <1>6, <1>7, <2>5 DEF ChunksOf
      <4>3. ChunksOf(f) \subseteq 1..n /\ ChunksOf(f)' \subseteq 1..(n + 1)
        BY <1>6 DEF ChunksOf
      <4>4. 1..(n + 1) = 1..n \cup {n + 1}
        BY <1>6
      <4> QED BY Zenon, <4>1, <4>2, <4>3, <4>4
    <3>3. ASSUME NEW c \in 1..Pushed(f) PROVE jobs'[s + c] = ChunkOf(f, c)
      <4>1. jobs[s + c] = ChunkOf(f, c)
        BY <2>1 DEF LiesAt
      <4>2. s + c \in (s + 1)..(s + Pushed(f))
        BY <2>2
      <4>3. s + c \in 1..n
        BY <1>6, <2>1, <4>2 DEF LiesAt, ChunksOf
      <4> QED BY <1>6, <4>1, <4>3
    <3>4. ChunksOf(f) = (s + 1)..(s + Pushed(f))
      BY <2>1 DEF LiesAt
    <3>5. LiesAt(f, s)'
      BY <1>1, <2>3, <2>5, <3>1, <3>2, <3>3, <3>4 DEF LiesAt
    <3> QED BY <3>5
  <2> QED BY <2>4, <2>5
<1>13. JobInv'
  <2> SUFFICES ASSUME NEW i \in 1..(n + 1)
               PROVE  \E f \in 1..Len(plan) : \E c \in 1..ChunkCount(plan[f], block) :
                        jobs'[i] = ChunkOf(f, c)'
    BY <1>2, <1>6 DEF JobInv
  <2>1. ASSUME NEW f, NEW c PROVE ChunkOf(f, c)' = ChunkOf(f, c)
    BY <1>1, SameChunks
  <2>2. CASE i = n + 1
    <3>1. PICK f \in 1..Len(plan) : f = file
      BY <1>1
    <3>2. PICK c \in 1..ChunkCount(plan[f], block) : c = chunk
      BY <1>1, <3>1
    <3>3. jobs'[i] = ChunkOf(f, c)
      BY <1>6, <2>2, <3>1, <3>2 DEF new
    <3>4. jobs'[i] = ChunkOf(f, c)'
      BY <2>1, <3>3
    <3> QED BY Zenon, <3>4
  <2>3. CASE i # n + 1
    <3>1. i \in 1..n /\ jobs'[i] = jobs[i]
      BY <1>6, <2>3
    <3>2. PICK f \in 1..Len(plan) : \E c \in 1..ChunkCount(plan[f], block) : jobs[i] = ChunkOf(f, c)
      BY <3>1 DEF PlannerInv, JobInv, n
    <3>3. PICK c \in 1..ChunkCount(plan[f], block) : jobs[i] = ChunkOf(f, c)
      BY <3>2
    <3>4. jobs'[i] = ChunkOf(f, c)'
      BY <2>1, <3>1, <3>3
    <3> QED BY Zenon, <3>4
  <2> QED BY <2>2, <2>3
<1> QED BY <1>8, <1>9, <1>10, <1>11, <1>12, <1>13 DEF PlannerInv

LEMMA PushEntryKeeps ==
    ASSUME PlannerInv, PushEntry
    PROVE  PlannerInv'
<1>1. /\ phase = "planning" /\ file \in 1..Len(plan)
      /\ chunk > ChunkCount(plan[file], block)
      /\ entries' = Append(entries, [size |-> plan[file], chunks |-> ChunkCount(plan[file], block)])
      /\ file' = file + 1 /\ chunk' = 1
      /\ UNCHANGED <<setup, arena, jobs, phase>>
  <2>1. Len(plan) \in Nat /\ file \in Nat \ {0}
    BY DEF PlannerInv, SetupInv, LoopInv
  <2> QED BY <2>1 DEF PushEntry
<1>2. /\ plan' = plan /\ src' = src /\ dst' = dst /\ block' = block /\ ram' = ram /\ align' = align
  BY <1>1 DEF setup
<1>3. /\ plan[file] \in Nat /\ file \in Nat
      /\ ChunkCount(plan[file], block) \in Nat \ {0}
  BY <1>1, PushedNatural DEF PlannerInv, SetupInv, LoopInv
<1>4. chunk = ChunkCount(plan[file], block) + 1
  BY <1>1, <1>3 DEF PlannerInv, LoopInv
<1>5. SetupInv'
  BY <1>1, <1>2 DEF PlannerInv, SetupInv, CommonAlignment
<1>6. ArenaInv'
  BY <1>1, <1>2 DEF PlannerInv, ArenaInv
<1>7. Len(plan) \in Nat /\ \A f \in 1..Len(plan) : plan[f] \in Nat /\ ChunkCount(plan[f], block) \in Nat \ {0}
  BY <1>1, PushedNatural DEF PlannerInv, SetupInv
<1>8. /\ entries \in Seq([size : Nat, chunks : Nat])
      /\ entries' \in Seq([size : Nat, chunks : Nat])
      /\ Len(entries) \in Nat /\ Len(entries') = Len(entries) + 1
      /\ \A f \in 1..Len(entries) : entries'[f] = entries[f]
      /\ entries'[Len(entries) + 1] = [size |-> plan[file], chunks |-> ChunkCount(plan[file], block)]
  <2> DEFINE S == [size : Nat, chunks : Nat]
             e == [size |-> plan[file], chunks |-> ChunkCount(plan[file], block)]
  <2>1. entries \in Seq(S) /\ e \in S
    BY <1>3 DEF PlannerInv, LoopInv
  <2> HIDE DEF S, e
  <2>2. /\ Append(entries, e) \in Seq(S)
        /\ Len(entries) \in Nat /\ Len(Append(entries, e)) = Len(entries) + 1
        /\ \A f \in 1..Len(entries) : Append(entries, e)[f] = entries[f]
        /\ Append(entries, e)[Len(entries) + 1] = e
    BY <2>1
  <2> QED BY <1>1, <2>1, <2>2 DEF S, e
<1>9. LoopInv'
  <2>1. file + 1 \in 1..(Len(plan) + 1) /\ 1 \in Nat \ {0}
    BY <1>1, <1>7
  <2>2. file + 1 <= Len(plan) => 1 <= ChunkCount(plan[file + 1], block) + 1
    <3>1. file + 1 <= Len(plan) => file + 1 \in 1..Len(plan)
      BY <1>1, <1>7
    <3> QED BY <1>7, <3>1
  <2>3. jobs \in Seq([file : Nat, offset : Nat, len : Nat])
    BY DEF PlannerInv, LoopInv
  <2> QED BY <1>1, <1>2, <1>8, <2>1, <2>2, <2>3 DEF LoopInv
<1>10. EntryInv'
  <2>1. Len(entries) = file - 1 /\ \A f \in 1..Len(entries) : entries[f].chunks = ChunkCount(plan[f], block)
    BY DEF PlannerInv, EntryInv
  <2>2. Len(entries') = file' - 1
    BY <1>1, <1>3, <1>8, <2>1
  <2>3. ASSUME NEW f \in 1..Len(entries') PROVE entries'[f].chunks = ChunkCount(plan[f], block)
    <3>1. CASE f \in 1..Len(entries)
      BY <1>8, <2>1, <3>1
    <3>2. CASE f = Len(entries) + 1
      <4>1. f = file
        BY <1>3, <2>1, <3>2
      <4> QED BY <1>8, <3>2, <4>1
    <3>3. f \in 1..Len(entries) \/ f = Len(entries) + 1
      BY <1>8
    <3> QED BY <3>1, <3>2, <3>3
  <2> QED BY <1>2, <2>2, <2>3 DEF EntryInv
<1>11. Len(jobs) \in Nat /\ jobs' = jobs /\ DOMAIN jobs = 1..Len(jobs)
  <2>1. jobs \in Seq([file : Nat, offset : Nat, len : Nat])
    BY DEF PlannerInv, LoopInv
  <2> QED BY <1>1, <2>1
<1>12. RunsInv'
  <2> SUFFICES ASSUME NEW f \in 1..Len(plan) PROVE \E s \in Nat : LiesAt(f, s)'
    BY <1>2 DEF RunsInv
  <2>1. f \in Nat
    OBVIOUS
  <2>2. ASSUME NEW c PROVE ChunkOf(f, c)' = ChunkOf(f, c)
    BY <1>1, SameChunks
  <2>3. ChunksOf(f)' = ChunksOf(f)
    BY <1>11 DEF ChunksOf
  <2>4. PICK s \in Nat : LiesAt(f, s)
    BY DEF PlannerInv, RunsInv
  <2>5. /\ ChunksOf(f) = (s + 1)..(s + Pushed(f))
        /\ \A c \in 1..Pushed(f) : jobs[s + c] = ChunkOf(f, c)
        /\ f = file => s + Pushed(f) = Len(jobs)
    BY <2>4 DEF LiesAt
  <2>6. CASE f # file + 1
    <3>1. Pushed(f)' = Pushed(f)
      BY <1>1, <1>2, <1>3, <1>4, <2>1, <2>6 DEF Pushed
    <3>2. f # file'
      BY <1>1, <2>6
    <3>3. LiesAt(f, s)'
      BY <1>11, <2>2, <2>3, <2>5, <3>1, <3>2 DEF LiesAt
    <3> QED BY <3>3
  <2>7. CASE f = file + 1
    <3>1. Pushed(f) = 0 /\ Pushed(f)' = 0
      BY <1>1, <1>3, <2>7 DEF Pushed
    <3>2. (s + 1)..(s + 0) = {} /\ 1..0 = {} /\ Len(jobs) + 0 = Len(jobs)
          /\ (Len(jobs) + 1)..(Len(jobs) + 0) = {}
      BY SMTT(30), <1>11
    <3>3. ChunksOf(f)' = {}
      BY Zenon, <2>3, <2>5, <3>1, <3>2
    <3>4. PICK k \in Nat : k = Len(jobs)
      BY <1>11
    <3>5. ChunksOf(f)' = (k + 1)..(k + Pushed(f)')
      BY Zenon, <3>1, <3>2, <3>3, <3>4
    <3>6. \A c \in 1..Pushed(f)' : FALSE
      BY Zenon, <3>1, <3>2
    <3>7. k + Pushed(f)' = Len(jobs')
      BY Zenon, <1>11, <3>1, <3>2, <3>4
    <3>8. LiesAt(f, k)'
      BY Zenon, <3>5, <3>6, <3>7 DEF LiesAt
    <3> QED BY <3>8
  <2> QED BY <2>6, <2>7
<1>13. JobInv'
  BY <1>1, <1>2, <1>11, SameChunks DEF PlannerInv, JobInv
<1> QED BY <1>5, <1>6, <1>9, <1>10, <1>12, <1>13 DEF PlannerInv

\* A step that leaves the loop alone leaves what it has laid down.
LEMMA LoopUntouched ==
    ASSUME PlannerInv, UNCHANGED <<setup, file, chunk, jobs, entries>>
    PROVE  EntryInv' /\ RunsInv' /\ JobInv'
<1>1. /\ plan' = plan /\ block' = block /\ file' = file /\ chunk' = chunk
      /\ jobs' = jobs /\ entries' = entries
  BY DEF setup
<1>2. EntryInv'
  BY <1>1 DEF PlannerInv, EntryInv
<1>3. ASSUME NEW f, NEW c PROVE ChunkOf(f, c)' = ChunkOf(f, c)
  BY SameChunks
<1>4. RunsInv'
  <2> SUFFICES ASSUME NEW f \in 1..Len(plan) PROVE \E s \in Nat : LiesAt(f, s)'
    BY <1>1 DEF RunsInv
  <2>1. PICK s \in Nat : LiesAt(f, s)
    BY DEF PlannerInv, RunsInv
  <2>2. ChunksOf(f)' = ChunksOf(f) /\ Pushed(f)' = Pushed(f)
    BY <1>1 DEF ChunksOf, Pushed
  <2>3. LiesAt(f, s)'
    BY <1>1, <1>3, <2>1, <2>2 DEF LiesAt
  <2> QED BY <2>3
<1>5. JobInv'
  BY <1>1, <1>3 DEF PlannerInv, JobInv
<1> QED BY <1>2, <1>4, <1>5

LEMMA StepKeeps ==
    ASSUME PlannerInv, [Next]_vars
    PROVE  PlannerInv'
<1>1. ASSUME UNCHANGED <<setup, file, chunk, jobs, entries>>,
             phase' \in {"allocating", "planning", "ready", "panicked", "refused"},
             phase' \in {"planning", "ready"} => block # 0,
             ArenaInv', LoopInv'
      PROVE  PlannerInv'
  <2>1. plan' = plan /\ src' = src /\ dst' = dst /\ block' = block /\ ram' = ram /\ align' = align
    BY <1>1 DEF setup
  <2>2. SetupInv'
    BY <1>1, <2>1 DEF PlannerInv, SetupInv, CommonAlignment
  <2> QED BY <1>1, <2>2, LoopUntouched DEF PlannerInv
<1>2. CASE Panic
  <2>1. UNCHANGED <<setup, file, chunk, jobs, entries>> /\ phase' = "panicked" /\ phase = "allocating"
    BY <1>2 DEF Panic
  <2>2. ArenaInv' /\ LoopInv'
    BY <2>1 DEF PlannerInv, LoopInv, ArenaInv, setup
  <2> QED BY <1>1, <2>1, <2>2
<1>3. CASE Allocate
  <2>1. /\ UNCHANGED <<setup, file, chunk, jobs, entries>> /\ phase' = "planning" /\ phase = "allocating"
        /\ block > 0
    BY <1>3 DEF Allocate
  <2>2. ArenaInv'
    BY <1>3, ArenaHolds
  <2>3. block # 0
    BY <2>1 DEF PlannerInv, SetupInv
  <2>4. LoopInv'
    <3>1. /\ file = 1 /\ chunk = 1 /\ jobs = <<>> /\ entries = <<>> /\ file \in 1..(Len(plan) + 1)
      BY <2>1 DEF PlannerInv, LoopInv
    <3>2. plan' = plan /\ block' = block /\ plan \in Seq(Nat) /\ block \in Nat
      BY <2>1 DEF setup, PlannerInv, SetupInv
    <3>3. file <= Len(plan) => chunk <= ChunkCount(plan[file], block) + 1
      <4> SUFFICES ASSUME file <= Len(plan) PROVE chunk <= ChunkCount(plan[file], block) + 1
        OBVIOUS
      <4>1. file \in 1..Len(plan)
        BY <3>1, <3>2
      <4>2. plan[file] \in Nat
        BY <3>2, <4>1
      <4>3. ChunkCount(plan[file], block) \in Nat \ {0}
        BY <2>3, <3>2, <4>2, ChunkCountCovers
      <4> QED BY <3>1, <4>3
    <3> QED BY <2>1, <3>1, <3>2, <3>3 DEF PlannerInv, LoopInv
  <2> QED BY <1>1, <2>1, <2>2, <2>3, <2>4
<1>4. CASE AllocateFails
  <2>1. UNCHANGED <<setup, file, chunk, jobs, entries>> /\ phase' = "refused" /\ phase = "allocating"
    BY <1>4 DEF AllocateFails
  <2>2. ArenaInv' /\ LoopInv'
    BY <2>1 DEF PlannerInv, LoopInv, ArenaInv, setup
  <2> QED BY <1>1, <2>1, <2>2
<1>5. CASE PushJob
  BY <1>5, PushJobKeeps
<1>6. CASE PushEntry
  BY <1>6, PushEntryKeeps
<1>7. CASE Start
  <2>1. /\ UNCHANGED <<setup, file, chunk, jobs, entries>> /\ phase' = "ready" /\ phase = "planning"
        /\ arena' = arena /\ file > Len(plan)
    BY <1>7 DEF Start
  <2>2. plan' = plan /\ block' = block /\ plan \in Seq(Nat)
    BY <2>1 DEF setup, PlannerInv, SetupInv
  <2>3. ArenaInv'
    BY <2>1, <2>2 DEF PlannerInv, ArenaInv
  <2>4. file = Len(plan) + 1
    <3>1. file \in 1..(Len(plan) + 1) /\ Len(plan) \in Nat
      BY <2>2 DEF PlannerInv, LoopInv
    <3> QED BY <2>1, <3>1
  <2>5. LoopInv'
    BY <2>1, <2>2, <2>4 DEF PlannerInv, LoopInv
  <2>6. block # 0
    BY <2>1 DEF PlannerInv, SetupInv
  <2> QED BY <1>1, <2>1, <2>3, <2>5, <2>6
<1>8. CASE Planned \/ UNCHANGED vars
  <2>1. UNCHANGED <<setup, arena, file, chunk, jobs, entries, phase>>
    BY <1>8 DEF Planned, vars
  <2>2. plan' = plan /\ block' = block
    BY <2>1 DEF setup
  <2>3. ArenaInv' /\ LoopInv'
    BY <2>1, <2>2 DEF PlannerInv, ArenaInv, LoopInv
  <2> QED BY <1>1, <2>1, <2>3 DEF PlannerInv, SetupInv
<1> QED BY <1>2, <1>3, <1>4, <1>5, <1>6, <1>7, <1>8 DEF Next

\* What the planner keeps holds in every state it can be in.
LEMMA Kept == Spec => []PlannerInv
<1>1. Init => PlannerInv
  BY Beginning
<1>2. PlannerInv /\ [Next]_vars => PlannerInv'
  BY StepKeeps
<1> QED BY <1>1, <1>2, PTL DEF Spec

-------------------------------------------------------------------------------
(* The chunks tile the files. *)

LEMMA Tiled ==
    ASSUME PlannerInv, block < 2 ^ LenBits
    PROVE  ChunksTileFiles
<1> SUFFICES ASSUME phase = "ready"
             PROVE  /\ Len(entries) = Len(plan)
                    /\ \A f \in DOMAIN plan :
                        /\ ChunksOf(f) # {} /\ entries[f].chunks = Cardinality(ChunksOf(f))
                        /\ \A i, k \in ChunksOf(f) : i..k \subseteq ChunksOf(f)
                        /\ \A i \in ChunksOf(f) :
                            /\ jobs[i].offset = IF i - 1 \in ChunksOf(f) THEN EndOf(i - 1) ELSE 0
                            /\ i + 1 \in ChunksOf(f) \/ EndOf(i) = plan[f]
  BY DEF ChunksTileFiles
<1>1. /\ plan \in Seq(Nat) /\ block \in Nat \ {0}
      /\ file = Len(plan) + 1 /\ Len(entries) = file - 1
  BY DEF PlannerInv, SetupInv, LoopInv, EntryInv
<1>2. Len(plan) \in Nat /\ DOMAIN plan = 1..Len(plan) /\ Len(entries) = Len(plan)
  BY <1>1
<1>3. ASSUME NEW f \in 1..Len(plan)
      PROVE  /\ ChunksOf(f) # {} /\ entries[f].chunks = Cardinality(ChunksOf(f))
             /\ \A i, k \in ChunksOf(f) : i..k \subseteq ChunksOf(f)
             /\ \A i \in ChunksOf(f) :
                 /\ jobs[i].offset = IF i - 1 \in ChunksOf(f) THEN EndOf(i - 1) ELSE 0
                 /\ i + 1 \in ChunksOf(f) \/ EndOf(i) = plan[f]
  <2> DEFINE n == ChunkCount(plan[f], block)
  <2>1. f \in Nat /\ f < file /\ plan[f] \in Nat
    BY <1>1, <1>2
  <2>2. n \in Nat \ {0}
    BY <1>1, <2>1, ChunkCountCovers
  <2>3. Pushed(f) = n
    BY <2>1 DEF Pushed
  <2>4. PICK s \in Nat : LiesAt(f, s)
    BY DEF PlannerInv, RunsInv
  <2>5. ChunksOf(f) = (s + 1)..(s + n) /\ \A c \in 1..n : jobs[s + c] = ChunkOf(f, c)
    BY <2>3, <2>4 DEF LiesAt
  <2>6. entries[f].chunks = n
    BY <1>2 DEF PlannerInv, EntryInv
  <2>7. ASSUME NEW c \in 1..n
        PROVE  /\ jobs[s + c].offset = (c - 1) * block
               /\ EndOf(s + c) = IF c < n THEN c * block ELSE plan[f]
    <3> DEFINE j == ChunkOf(f, c)
    <3>1. j.offset = (c - 1) * block /\ j.len = ChunkLen(plan[f], block, (c - 1) * block, LenBits)
      BY DEF ChunkOf
    <3> HIDE DEF j
    <3>2. jobs[s + c] = j
      BY Zenon, <2>5 DEF j
    <3>3. /\ jobs[s + c].offset = (c - 1) * block
          /\ jobs[s + c].len = ChunkLen(plan[f], block, (c - 1) * block, LenBits)
      BY <3>1, <3>2
    <3>4. (c - 1) * block + ChunkLen(plan[f], block, (c - 1) * block, LenBits)
            = IF c < n THEN c * block ELSE plan[f]
      BY <1>1, <2>1, ChunksMeet
    <3> HIDE DEF n
    <3> QED BY <3>3, <3>4 DEF EndOf
  <2> HIDE DEF n
  <2>8. Cardinality(ChunksOf(f)) = n
    <3>1. Cardinality((s + 1)..(s + n)) = IF s + 1 > s + n THEN 0 ELSE (s + n) - (s + 1) + 1
      BY <2>2, FS_Interval
    <3> QED BY <2>2, <2>5, <3>1
  <2>9. ChunksOf(f) # {}
    BY <2>2, <2>5
  <2>10. \A i, k \in ChunksOf(f) : i..k \subseteq ChunksOf(f)
    BY <2>2, <2>5
  <2>11. ASSUME NEW i \in ChunksOf(f)
         PROVE  /\ jobs[i].offset = IF i - 1 \in ChunksOf(f) THEN EndOf(i - 1) ELSE 0
                /\ i + 1 \in ChunksOf(f) \/ EndOf(i) = plan[f]
    <3>1. PICK c \in 1..n : i = s + c
      <4>1. i \in Int /\ i - s \in 1..n /\ i = s + (i - s)
        BY <2>2, <2>5
      <4> QED BY <4>1
    <3>2. jobs[i].offset = (c - 1) * block /\ EndOf(i) = IF c < n THEN c * block ELSE plan[f]
      BY <2>7, <3>1
    <3>3. CASE c = 1
      <4>1. i - 1 \notin ChunksOf(f)
        BY <2>2, <2>5, <3>1, <3>3
      <4>2. (c - 1) * block = 0
        BY <1>1, <3>3
      <4> QED BY <2>2, <2>5, <3>1, <3>2, <4>1, <4>2
    <3>4. CASE c # 1
      <4>1. i - 1 \in ChunksOf(f) /\ c - 1 \in 1..n /\ c - 1 < n /\ i - 1 = s + (c - 1)
        BY <2>2, <2>5, <3>1, <3>4
      <4>2. EndOf(s + (c - 1)) = (c - 1) * block
        BY <2>7, <4>1
      <4>3. jobs[i].offset = EndOf(i - 1)
        BY <3>2, <4>1, <4>2
      <4>4. i + 1 \in ChunksOf(f) \/ c = n
        BY <2>2, <2>5, <3>1
      <4> QED BY <2>2, <3>2, <4>1, <4>3, <4>4
    <3> QED BY <3>3, <3>4
  <2> QED BY <2>6, <2>8, <2>9, <2>10, <2>11
<1> QED BY <1>2, <1>3

\* The chunks of every file are its bytes, each once and in order, and its
\* entry counts them, for any sizes, volumes and blocks, as long as a block's
\* length fits Job::len.  A block of 2^32 bytes, which --block may ask for, is
\* what the run planner_wide_block shows.
THEOREM ChunksTile == Spec => [](block < 2 ^ LenBits => ChunksTileFiles)
<1>1. PlannerInv => (block < 2 ^ LenBits => ChunksTileFiles)
  BY Tiled
<1> QED BY <1>1, Kept, PTL

-------------------------------------------------------------------------------
(* Padding and buffers. *)

\* Whatever alignment the shared state keeps, blocks are multiples of it, and a
\* real one suits both devices.
LEMMA AlignmentSuits ==
    ASSUME PlannerInv
    PROVE  /\ align \in Nat \ {0} /\ block \in Nat /\ block % align = 0
           /\ \A v \in {src, dst} :
                /\ Alignment(v) \in Nat \ {0} /\ SectorSize(v) \in Nat \ {0}
                /\ Alignment(v) % SectorSize(v) = 0
                /\ block % Alignment(v) = 0
                /\ align # 1 => align % Alignment(v) = 0
<1>1. src \in Volumes /\ dst \in Volumes /\ block \in Nat /\ block % CommonAlignment = 0
      /\ align \in {CommonAlignment, 1}
  BY DEF PlannerInv, SetupInv
<1>2. /\ CommonAlignment \in Nat \ {0}
      /\ CommonAlignment % Alignment(src) = 0
      /\ CommonAlignment % Alignment(dst) = 0
  BY <1>1, CommonUnits DEF CommonAlignment
<1> HIDE DEF CommonAlignment
<1>3. block % 1 = 0
  BY <1>1
<1>4. align \in Nat \ {0} /\ block % align = 0
  BY <1>1, <1>2, <1>3
<1>5. ASSUME NEW v \in {src, dst}
      PROVE  /\ Alignment(v) \in Nat \ {0} /\ SectorSize(v) \in Nat \ {0}
             /\ Alignment(v) % SectorSize(v) = 0
             /\ block % Alignment(v) = 0
             /\ align # 1 => align % Alignment(v) = 0
  <2>1. v \in Volumes /\ CommonAlignment % Alignment(v) = 0
    BY <1>1, <1>2
  <2>2. Alignment(v) \in Nat \ {0} /\ SectorSize(v) \in Nat \ {0} /\ Alignment(v) % SectorSize(v) = 0
    BY <2>1, VolumeUnits
  <2>3. block % Alignment(v) = 0
    BY <1>1, <1>2, <2>1, <2>2, DivisibleTransitive
  <2> QED BY <1>1, <2>1, <2>2, <2>3
<1> QED BY <1>1, <1>4, <1>5

\* A job is a chunk: it starts on a block, and its length is at most a block and
\* at most what is left of its file.
LEMMA JobIsChunk ==
    ASSUME PlannerInv, NEW i \in 1..Len(jobs)
    PROVE  /\ block # 0
           /\ jobs[i].file \in 1..Len(plan) /\ plan[jobs[i].file] \in Nat
           /\ \E c \in Nat : jobs[i].offset = c * block
           /\ jobs[i].offset \in Nat /\ jobs[i].len \in Nat
           /\ jobs[i].offset + jobs[i].len <= plan[jobs[i].file] /\ jobs[i].len <= block
<1>1. phase \in {"planning", "ready"}
  BY DEF PlannerInv, LoopInv
<1>2. plan \in Seq(Nat) /\ block \in Nat \ {0}
  BY <1>1 DEF PlannerInv, SetupInv
<1>3. PICK f \in 1..Len(plan) : \E c \in 1..ChunkCount(plan[f], block) : jobs[i] = ChunkOf(f, c)
  BY DEF PlannerInv, JobInv
<1>4. PICK c \in 1..ChunkCount(plan[f], block) : jobs[i] = ChunkOf(f, c)
  BY <1>3
<1>5. plan[f] \in Nat
  BY <1>2
<1> DEFINE o == (c - 1) * block
<1>6. /\ jobs[i].file = f /\ jobs[i].offset = o
      /\ jobs[i].len = ChunkLen(plan[f], block, o, LenBits)
  BY <1>4 DEF ChunkOf
<1>7. o \in Nat /\ o <= plan[f]
  BY <1>2, <1>5, ChunkBounds
<1>8. c - 1 \in Nat
  <2>1. ChunkCount(plan[f], block) \in Nat
    BY <1>2, <1>5, ChunkCountCovers
  <2> QED BY <2>1
<1>9. \E k \in Nat : jobs[i].offset = k * block
  BY <1>6, <1>8
<1> HIDE DEF o
<1>10. /\ ChunkLen(plan[f], block, o, LenBits) \in Nat
       /\ ChunkLen(plan[f], block, o, LenBits) <= plan[f] - o
       /\ ChunkLen(plan[f], block, o, LenBits) <= block
  BY <1>2, <1>5, <1>7, ChunkLenTruncates
<1>11. jobs[i].offset + jobs[i].len <= plan[f]
  BY <1>5, <1>6, <1>7, <1>10
<1> QED BY <1>2, <1>5, <1>6, <1>7, <1>9, <1>10, <1>11

LEMMA Harmless ==
    ASSUME PlannerInv
    PROVE  PaddingIsHarmless
<1> SUFFICES ASSUME NEW i \in 1..Len(jobs)
             PROVE  /\ Padded(jobs[i]) <= block
                    /\ align # 1 => \A v \in {src, dst} :
                        jobs[i].offset % Alignment(v) = 0 /\ Padded(jobs[i]) % Alignment(v) = 0
                    /\ jobs[i].offset + Padded(jobs[i]) <= RoundUp(plan[jobs[i].file], align)
                    /\ \A k \in 1..Len(jobs) :
                        jobs[k].file = jobs[i].file /\ jobs[k].offset > jobs[i].offset =>
                            jobs[i].offset + Padded(jobs[i]) <= jobs[k].offset
  BY DEF PaddingIsHarmless
<1> DEFINE o == jobs[i].offset
           len == jobs[i].len
           size == plan[jobs[i].file]
           pad == RoundUp(len, align)
<1>1. /\ block \in Nat \ {0} /\ align \in Nat \ {0} /\ block % align = 0
      /\ o \in Nat /\ len \in Nat /\ size \in Nat /\ o + len <= size /\ len <= block
      /\ \E c \in Nat : o = c * block
  BY AlignmentSuits, JobIsChunk
<1>2. Padded(jobs[i]) = pad
  BY DEF Padded
<1> HIDE DEF o, len, size
<1>3. PICK c \in Nat : o = c * block
  BY <1>1
<1>4. pad \in Nat /\ pad % align = 0 /\ len <= pad
  BY <1>1, RoundUpRounds
<1>5. pad <= block
  BY <1>1, RoundUpLeast
<1> HIDE DEF pad
<1>6. o % block = 0
  BY <1>1, <1>3, MultipleIsDivisible
<1>7. o % align = 0
  BY <1>1, <1>6, DivisibleTransitive
<1>8. ASSUME align # 1, NEW v \in {src, dst}
      PROVE  o % Alignment(v) = 0 /\ pad % Alignment(v) = 0
  <2>1. Alignment(v) \in Nat \ {0} /\ align % Alignment(v) = 0
    BY <1>8, AlignmentSuits
  <2> QED BY <1>1, <1>4, <1>7, <2>1, DivisibleTransitive
<1>9. o + pad <= RoundUp(size, align)
  <2> DEFINE r == RoundUp(size, align)
  <2>1. r \in Nat /\ r % align = 0 /\ size <= r
    BY <1>1, RoundUpRounds
  <2> HIDE DEF r
  <2>2. r >= o /\ r - o \in Nat /\ len <= r - o
    BY <1>1, <2>1
  <2>3. (r - o) % align = 0
    BY <1>1, <1>7, <2>1, <2>2, DivisibleAdds
  <2>4. pad <= r - o
    BY <1>1, <2>2, <2>3, RoundUpLeast DEF pad
  <2> QED BY <1>1, <1>4, <2>1, <2>4 DEF r
<1>10. ASSUME NEW k \in 1..Len(jobs), jobs[k].offset > o
       PROVE  o + pad <= jobs[k].offset
  <2>1. PICK d \in Nat : jobs[k].offset = d * block
    BY JobIsChunk
  <2>2. c < d
    BY <1>1, <1>3, <1>10, <2>1, FactorBelow
  <2>3. (c + 1) * block <= d * block
    <3>1. c + 1 <= d
      BY <2>2
    <3> QED BY <1>1, <3>1, ProductMonotone
  <2>4. (c + 1) * block = o + block
    BY <1>1, <1>3, ProductDistributes
  <2> QED BY <1>1, <1>4, <1>5, <2>1, <2>3, <2>4
<1> QED BY <1>2, <1>5, <1>8, <1>9, <1>10 DEF o, size

\* A padded transfer fits its buffer, suits both devices, stays within the
\* extended file and off the next chunk, for any block, width and alignments
\* of which the larger is a multiple of the smaller.
THEOREM PaddingHarmless == Spec => []PaddingIsHarmless
<1>1. PlannerInv => PaddingIsHarmless
  BY Harmless
<1> QED BY <1>1, Kept, PTL

LEMMA Fitting ==
    ASSUME PlannerInv
    PROVE  BuffersFit
<1> SUFFICES ASSUME phase = "ready", NEW i \in 0..(arena.count - 1)
             PROVE  /\ \A k \in DOMAIN jobs :
                        /\ BufferAt(i) + Padded(jobs[k]) <= arena.base + arena.bytes
                        /\ Padded(jobs[k]) <= block
                    /\ align # 1 => \A v \in {src, dst} : BufferAt(i) % SectorSize(v) = 0
  BY DEF BuffersFit
<1>1. /\ arena.base \in Nat /\ arena.bytes \in Nat /\ arena.count \in Nat
      /\ arena.base % PageSize = 0
      /\ arena.count * block <= arena.bytes
  BY DEF PlannerInv, ArenaInv
<1>2. block \in Nat \ {0} /\ i \in Nat /\ i + 1 <= arena.count
  BY <1>1 DEF PlannerInv, SetupInv
<1>3. i * block \in Nat /\ i * block + block <= arena.bytes
  <2>1. (i + 1) * block <= arena.count * block
    BY <1>1, <1>2, ProductMonotone
  <2>2. (i + 1) * block = i * block + block
    BY <1>2, ProductDistributes
  <2>3. i * block \in Nat
    BY <1>2
  <2>4. arena.count * block \in Nat
    BY <1>1, <1>2
  <2> QED BY <1>1, <1>2, <2>1, <2>2, <2>3, <2>4
<1>4. BufferAt(i) = arena.base + i * block
  BY DEF BufferAt
<1>5. ASSUME NEW k \in DOMAIN jobs
      PROVE  /\ BufferAt(i) + Padded(jobs[k]) <= arena.base + arena.bytes
             /\ Padded(jobs[k]) <= block
  <2>1. k \in 1..Len(jobs)
    BY DEF PlannerInv, LoopInv
  <2>2. Padded(jobs[k]) <= block
    BY <2>1, Harmless DEF PaddingIsHarmless
  <2>3. Padded(jobs[k]) \in Nat
    <3>1. jobs[k].len \in Nat /\ align \in Nat \ {0}
      BY <2>1, JobIsChunk, AlignmentSuits
    <3> QED BY <3>1, RoundUpRounds DEF Padded
  <2> QED BY <1>1, <1>2, <1>3, <1>4, <2>2, <2>3
<1>6. ASSUME NEW v \in {src, dst}
      PROVE  BufferAt(i) % SectorSize(v) = 0
  <2>1. /\ SectorSize(v) \in Nat \ {0} /\ Alignment(v) \in Nat \ {0}
        /\ Alignment(v) % SectorSize(v) = 0 /\ block % Alignment(v) = 0
    BY AlignmentSuits
  <2>2. PageSize % SectorSize(v) = 0 /\ PageSize \in Nat \ {0}
    BY PageAssumption, InputAssumption DEF PlannerInv, SetupInv
  <2>3. arena.base % SectorSize(v) = 0
    BY <1>1, <2>1, <2>2, DivisibleTransitive
  <2>4. block % SectorSize(v) = 0
    BY <1>2, <2>1, DivisibleTransitive
  <2> DEFINE x == i * block
  <2>5. x \in Nat /\ x % block = 0
    BY <1>2, <1>3, MultipleIsDivisible
  <2> HIDE DEF x
  <2>6. x % SectorSize(v) = 0
    BY <1>2, <2>1, <2>4, <2>5, DivisibleTransitive
  <2>7. (arena.base + x) % SectorSize(v) = 0
    BY <1>1, <2>1, <2>3, <2>5, <2>6, DivisibleAdds
  <2> QED BY <1>4, <2>7 DEF x
<1> QED BY <1>5, <1>6

\* "The arena hands out disjoint buffer slices": the padded transfers stay
\* within their buffers and the allocation, at addresses both devices accept,
\* however much memory there is and whichever pages were got.
THEOREM BuffersInside == Spec => []BuffersFit
<1>1. PlannerInv => BuffersFit
  BY Fitting
<1> QED BY <1>1, Kept, PTL

\* run_bulk hands its workers what BulkPipeline assumes of jobs, sizes, buffers
\* and alignment: every job names a file of the plan, every file has a job (an
\* empty one too, which is created by it), and there is a buffer, however little
\* memory --ram allows.
PipelineFitted ==
    phase = "ready" =>
        /\ jobs \in Seq([file : DOMAIN plan, offset : Nat, len : Nat])
        /\ \A f \in DOMAIN plan : \E i \in DOMAIN jobs : jobs[i].file = f
        /\ plan \in [DOMAIN plan -> Nat]
        /\ align \in Nat \ {0}
        /\ 0..(arena.count - 1) # {}

\* The assumptions of BulkPipeline on its plan and its buffers are no more than
\* what Copier::new, Arena::new and the loop of run_bulk see to.
THEOREM PlanFitsPipeline == Spec => []PipelineFitted
<1>1. PlannerInv => PipelineFitted
  <2> SUFFICES ASSUME PlannerInv, phase = "ready"
               PROVE  /\ jobs \in Seq([file : DOMAIN plan, offset : Nat, len : Nat])
                      /\ \A f \in DOMAIN plan : \E i \in DOMAIN jobs : jobs[i].file = f
                      /\ plan \in [DOMAIN plan -> Nat]
                      /\ align \in Nat \ {0}
                      /\ 0..(arena.count - 1) # {}
    BY DEF PipelineFitted
  <2>1. /\ plan \in Seq(Nat) /\ Len(plan) \in Nat /\ DOMAIN plan = 1..Len(plan)
        /\ block \in Nat \ {0} /\ file = Len(plan) + 1
        /\ jobs \in Seq([file : Nat, offset : Nat, len : Nat])
    BY DEF PlannerInv, SetupInv, LoopInv
  <2>2. jobs \in Seq([file : DOMAIN plan, offset : Nat, len : Nat])
    <3> DEFINE Job == [file : DOMAIN plan, offset : Nat, len : Nat]
    <3>1. Len(jobs) \in Nat /\ jobs \in [1..Len(jobs) -> [file : Nat, offset : Nat, len : Nat]]
      <4> DEFINE Triple == [file : Nat, offset : Nat, len : Nat]
      <4>1. jobs \in Seq(Triple)
        BY <2>1
      <4> HIDE DEF Triple
      <4>2. Len(jobs) \in Nat /\ jobs \in [1..Len(jobs) -> Triple]
        BY <4>1
      <4> QED BY <4>2 DEF Triple
    <3>2. ASSUME NEW i \in 1..Len(jobs) PROVE jobs[i] \in Job
      <4>1. jobs[i].file \in DOMAIN plan
        BY Zenon, <2>1, JobIsChunk
      <4>2. jobs[i] \in [file : Nat, offset : Nat, len : Nat]
        BY <3>1
      <4> QED BY <4>1, <4>2
    <3> HIDE DEF Job
    <3>3. jobs \in [1..Len(jobs) -> Job]
      BY <3>1, <3>2
    <3>4. jobs \in Seq(Job)
      BY <3>1, <3>3
    <3> QED BY Zenon, <3>4 DEF Job
  <2>3. ASSUME NEW f \in DOMAIN plan PROVE \E i \in DOMAIN jobs : jobs[i].file = f
    <3>1. f \in 1..Len(plan) /\ f < file /\ plan[f] \in Nat
      BY <2>1
    <3>2. PICK s \in Nat : LiesAt(f, s)
      BY Zenon, <3>1 DEF PlannerInv, RunsInv
    <3>3. Pushed(f) \in Nat \ {0}
      BY <2>1, <3>1, ChunkCountCovers DEF Pushed
    <3>4. s + 1 \in ChunksOf(f)
      BY <3>2, <3>3 DEF LiesAt
    <3> QED BY <3>4 DEF ChunksOf
  <2>4. align \in Nat \ {0}
    BY Zenon, AlignmentSuits
  <2>5. 0 \in 0..(arena.count - 1)
    BY DEF PlannerInv, ArenaInv
  <2>6. plan \in [DOMAIN plan -> Nat]
    BY <2>1
  <2> QED BY Zenon, <2>2, <2>3, <2>4, <2>5, <2>6
<1> QED BY <1>1, Kept, PTL

-------------------------------------------------------------------------------
(* The median of the probe. *)

\* Some order makes finitely many times ascend: the least one first, then the
\* others in an order that makes them ascend.
LEMMA SomeOrder ==
    ASSUME NEW n \in Nat, NEW times \in [1..n -> Nat]
    PROVE  \E p \in Bijection(1..n, 1..n) : Sorts(p, times)
<1> DEFINE Ordered(k) == \A s \in [1..k -> Nat] : \E p \in Bijection(1..k, 1..k) : Sorts(p, s)
           S == {k \in Nat : Ordered(k)}
<1>1. 0 \in S
  <2>1. 0 \in Nat /\ 1..0 = {}
    OBVIOUS
  <2> SUFFICES ASSUME NEW s \in [1..0 -> Nat] PROVE \E p \in Bijection(1..0, 1..0) : Sorts(p, s)
    BY <2>1
  <2>2. s \in Bijection(1..0, 1..0)
    BY <2>1 DEF Bijection, Injection, Surjection, IsInjective
  <2>3. Sorts(s, s)
    BY <2>1 DEF Sorts
  <2> QED BY <2>2, <2>3
<1>2. ASSUME NEW k \in S PROVE k + 1 \in S
  <2>1. k \in Nat /\ k + 1 \in Nat /\ Ordered(k)
    OBVIOUS
  <2> SUFFICES ASSUME NEW s \in [1..(k + 1) -> Nat]
               PROVE  \E p \in Bijection(1..(k + 1), 1..(k + 1)) : Sorts(p, s)
    BY <2>1
  <2>2. PICK m \in 1..(k + 1) : \A i \in 1..(k + 1) : s[m] <= s[i]
    <3> DEFINE values == {s[i] : i \in 1..(k + 1)}
    <3>1. values \in SUBSET Nat /\ values # {}
      BY <2>1
    <3>2. PICK x \in values : \A y \in values : x <= y
      BY <3>1, LeastMember
    <3> QED BY <3>2
  <2> DEFINE skip(x) == IF x < m THEN x ELSE x + 1
             rest == [i \in 1..k |-> s[skip(i)]]
  <2>3. \A x \in 1..k : skip(x) \in 1..(k + 1) /\ skip(x) # m
    BY <2>1
  <2>4. \A x, y \in 1..k : skip(x) = skip(y) => x = y
    BY <2>1
  <2>5. \A y \in 1..(k + 1) : y # m => \E x \in 1..k : y = skip(x)
    <3> SUFFICES ASSUME NEW y \in 1..(k + 1), y # m PROVE \E x \in 1..k : y = skip(x)
      OBVIOUS
    <3>1. CASE y < m
      <4>1. y \in 1..k /\ y = skip(y)
        BY <2>1, <3>1
      <4> QED BY <4>1
    <3>2. CASE y > m
      <4>1. y - 1 \in 1..k /\ y = skip(y - 1)
        BY <2>1, <3>2
      <4> QED BY <4>1
    <3> QED BY <2>1, <3>1, <3>2
  <2>6. rest \in [1..k -> Nat]
    BY <2>1, <2>3
  <2>7. PICK q \in Bijection(1..k, 1..k) : Sorts(q, rest)
    BY <2>1, <2>6
  <2>8. /\ q \in [1..k -> 1..k]
        /\ \A i, j \in 1..k : q[i] = q[j] => i = j
        /\ \A x \in 1..k : \E i \in 1..k : q[i] = x
    BY <2>7 DEF Bijection, Injection, Surjection, IsInjective
  <2>9. \A i, j \in 1..k : i <= j => s[skip(q[i])] <= s[skip(q[j])]
    <3>1. DOMAIN rest = 1..k /\ \A x \in 1..k : rest[x] = s[skip(x)]
      OBVIOUS
    <3> HIDE DEF rest, skip
    <3> SUFFICES ASSUME NEW i \in 1..k, NEW j \in 1..k, i <= j
                 PROVE  s[skip(q[i])] <= s[skip(q[j])]
      OBVIOUS
    <3>2. rest[q[i]] <= rest[q[j]]
      BY <2>7, <3>1 DEF Sorts
    <3>3. rest[q[i]] = s[skip(q[i])] /\ rest[q[j]] = s[skip(q[j])]
      BY <2>8, <3>1
    <3> QED BY <3>2, <3>3
  <2> DEFINE p == [i \in 1..(k + 1) |-> IF i = 1 THEN m ELSE skip(q[i - 1])]
  <2>10. p[1] = m /\ DOMAIN p = 1..(k + 1)
    BY <2>1
  <2>11. \A i \in 1..(k + 1) : i # 1 => i - 1 \in 1..k /\ q[i - 1] \in 1..k /\ p[i] = skip(q[i - 1])
    BY <2>1, <2>8
  <2> HIDE DEF skip, p, rest
  <2>12. \A i \in 1..(k + 1) : p[i] \in 1..(k + 1)
    BY <2>3, <2>10, <2>11
  <2>13. p \in [1..(k + 1) -> 1..(k + 1)]
    BY <2>12 DEF p
  <2>14. \A i, j \in 1..(k + 1) : p[i] = p[j] => i = j
    <3> SUFFICES ASSUME NEW i \in 1..(k + 1), NEW j \in 1..(k + 1), p[i] = p[j] PROVE i = j
      OBVIOUS
    <3>1. CASE i = 1 \/ j = 1
      BY <2>3, <2>10, <2>11, <3>1
    <3>2. CASE i # 1 /\ j # 1
      <4>1. q[i - 1] = q[j - 1]
        BY SMTT(30), <2>4, <2>11, <3>2
      <4>2. i - 1 = j - 1
        BY <2>8, <2>11, <3>2, <4>1
      <4> QED BY <4>2
    <3> QED BY <3>1, <3>2
  <2>15. \A y \in 1..(k + 1) : \E i \in 1..(k + 1) : p[i] = y
    <3> SUFFICES ASSUME NEW y \in 1..(k + 1) PROVE \E i \in 1..(k + 1) : p[i] = y
      OBVIOUS
    <3>1. CASE y = m
      <4>1. 1 \in 1..(k + 1)
        BY <2>1
      <4> QED BY <2>10, <3>1, <4>1
    <3>2. CASE y # m
      <4>1. PICK x \in 1..k : y = skip(x)
        BY <2>5, <3>2
      <4>2. PICK i \in 1..k : q[i] = x
        BY <2>8
      <4>3. i + 1 \in 1..(k + 1) /\ i + 1 # 1 /\ (i + 1) - 1 = i
        BY <2>1
      <4>4. p[i + 1] = skip(q[(i + 1) - 1])
        BY <2>11, <4>3
      <4>5. p[i + 1] = y
        BY Zenon, <4>1, <4>2, <4>3, <4>4
      <4> QED BY <4>3, <4>5
    <3> QED BY <3>1, <3>2
  <2>16. p \in Bijection(1..(k + 1), 1..(k + 1))
    BY <2>10, <2>13, <2>14, <2>15 DEF Bijection, Injection, Surjection, IsInjective
  <2>17. ASSUME NEW i \in 1..(k + 1), NEW j \in 1..(k + 1), i <= j
         PROVE  s[p[i]] <= s[p[j]]
    <3>1. CASE i = 1
      BY <2>2, <2>10, <2>12, <3>1
    <3>2. CASE i # 1
      <4>1. j # 1 /\ i - 1 \in 1..k /\ j - 1 \in 1..k /\ i - 1 <= j - 1
        BY <2>1, <2>17, <3>2
      <4>2. s[skip(q[i - 1])] <= s[skip(q[j - 1])]
        BY <2>9, <4>1
      <4>3. p[i] = skip(q[i - 1]) /\ p[j] = skip(q[j - 1])
        BY <2>11, <3>2, <4>1
      <4> QED BY <4>2, <4>3
    <3> QED BY <3>1, <3>2
  <2>18. Sorts(p, s)
    BY <2>17 DEF Sorts
  <2> QED BY <2>16, <2>18
<1>3. S = Nat
  <2> HIDE DEF S
  <2>1. S \in SUBSET Nat
    BY DEF S
  <2> QED BY <1>1, <1>2, <2>1, Induction
<1> QED BY <1>3

\* What is sorted by s[p[.]] is slow from some place on, and as often as s is.
LEMMA MedianCounts ==
    ASSUME NEW n \in Nat \ {0}, NEW times \in [1..n -> Nat],
           NEW p \in Bijection(1..n, 1..n), Sorts(p, times)
    PROVE  times[p[n \div 2 + 1]] > SeekLatency
             <=> 2 * Cardinality({i \in 1..n : times[i] > SeekLatency}) >= n
<1> DEFINE half == n \div 2
           mid == half + 1
           slow == {i \in 1..n : times[i] > SeekLatency}
           late == {k \in 1..n : times[p[k]] > SeekLatency}
<1>1. SeekLatency \in Nat
  BY DiskAssumption
<1>2. half \in Nat /\ 2 * half <= n /\ n < 2 * half + 2 /\ mid \in 1..n
  OBVIOUS
<1> HIDE DEF half
<1>3. /\ p \in [1..n -> 1..n]
      /\ \A i, k \in 1..n : p[i] = p[k] => i = k
      /\ \A x \in 1..n : \E i \in 1..n : p[i] = x
  BY DEF Bijection, Injection, Surjection, IsInjective
<1>4. \A i, k \in 1..n : i <= k => times[p[i]] <= times[p[k]]
  BY DEF Sorts
<1>5. IsFiniteSet(late) /\ Cardinality(slow) = Cardinality(late)
  <2>1. IsFiniteSet(late)
    <3>1. IsFiniteSet(1..n)
      BY FS_Interval
    <3>2. late \subseteq 1..n
      OBVIOUS
    <3> HIDE DEF late
    <3> QED BY <3>1, <3>2, FS_Subset
  <2> DEFINE g == [k \in late |-> p[k]]
  <2>2. g \in [late -> slow] /\ \A i, k \in late : g[i] = g[k] => i = k
    BY <1>3
  <2>3. \A x \in slow : \E k \in late : g[k] = x
    <3> SUFFICES ASSUME NEW x \in slow PROVE \E k \in late : g[k] = x
      OBVIOUS
    <3>1. PICK k \in 1..n : p[k] = x
      BY <1>3
    <3>2. k \in late
      BY <3>1
    <3> QED BY <3>1, <3>2
  <2> HIDE DEF g, late, slow
  <2>4. g \in Bijection(late, slow)
    BY <2>2, <2>3 DEF Bijection, Injection, Surjection, IsInjective
  <2>5. ExistsBijection(late, slow)
    BY <2>4 DEF ExistsBijection
  <2>6. Cardinality(slow) = Cardinality(late)
    BY <2>1, <2>5, FS_Bijection
  <2> QED BY <2>1, <2>6
<1>6. Cardinality(late) \in Nat
  <2> HIDE DEF late
  <2> QED BY <1>5, FS_CardinalityType
<1>7. CASE times[p[mid]] > SeekLatency
  <2>1. mid..n \subseteq late
    <3> SUFFICES ASSUME NEW k \in mid..n PROVE k \in late
      OBVIOUS
    <3>1. k \in 1..n /\ mid <= k
      BY <1>2
    <3>2. times[p[mid]] <= times[p[k]]
      BY <1>2, <1>4, <3>1
    <3>3. times[p[mid]] \in Nat /\ times[p[k]] \in Nat
      BY <1>2, <1>3, <3>1
    <3> QED BY <1>1, <1>7, <3>1, <3>2, <3>3
  <2>2. Cardinality(mid..n) = n - mid + 1
    BY <1>2, FS_Interval
  <2>3. Cardinality(mid..n) <= Cardinality(late)
    <3> HIDE DEF late, mid
    <3> QED BY <1>5, <2>1, FS_Subset
  <2> HIDE DEF late, slow
  <2>4. 2 * Cardinality(late) >= n
    BY <1>2, <1>6, <2>2, <2>3
  <2> QED BY <1>5, <1>7, <2>4 DEF half, slow
<1>8. CASE ~ times[p[mid]] > SeekLatency
  <2>1. late \subseteq (mid + 1)..n
    <3> SUFFICES ASSUME NEW k \in late PROVE k \in (mid + 1)..n
      OBVIOUS
    <3>1. k \in 1..n /\ times[p[k]] > SeekLatency
      OBVIOUS
    <3>2. times[p[mid]] \in Nat /\ times[p[k]] \in Nat
      BY <1>2, <1>3, <3>1
    <3>3. ~ k <= mid
      BY SMTT(30), <1>1, <1>2, <1>4, <1>8, <3>1, <3>2
    <3> QED BY <1>2, <3>1, <3>3
  <2>2. IsFiniteSet((mid + 1)..n) /\ Cardinality((mid + 1)..n) = n - mid
    <3>1. mid + 1 \in Int /\ n \in Int
      BY <1>2
    <3>2. /\ IsFiniteSet((mid + 1)..n)
          /\ Cardinality((mid + 1)..n) = IF mid + 1 > n THEN 0 ELSE n - (mid + 1) + 1
      BY <3>1, FS_Interval
    <3> QED BY <1>2, <3>2
  <2>3. Cardinality(late) <= Cardinality((mid + 1)..n)
    <3> HIDE DEF late, mid
    <3> QED BY <2>1, <2>2, FS_Subset
  <2> HIDE DEF late, slow
  <2>4. 2 * Cardinality(late) < n
    BY <1>2, <1>6, <2>2, <2>3
  <2> QED BY <1>5, <1>6, <1>8, <2>4 DEF half, slow
<1> QED BY <1>7, <1>8

LEMMA Recognised ==
    ASSUME NEW v \in Volumes, v.extents # <<>>,
           Penalty[FirstDisk(v)] = "silent", ProbeAnswers(FirstDisk(v))
    PROVE  ProfileDepth(v) = 2
             <=> 2 * Cardinality({i \in DOMAIN Latencies[FirstDisk(v)] : Latencies[FirstDisk(v)][i] > SeekLatency})
                   >= Len(Latencies[FirstDisk(v)])
<1> DEFINE disk == FirstDisk(v)
           times == Latencies[disk]
           n == Len(times)
           order == CHOOSE p \in Bijection(DOMAIN times, DOMAIN times) : Sorts(p, times)
<1>1. disk \in Disks
  BY FirstDiskIsDisk
<1>2. times \in Seq(Nat) /\ times # <<>>
  BY <1>1, DiskAssumption DEF ProbeAnswers
<1>3. Ascending[disk] = [i \in DOMAIN times |-> times[order[i]]]
  BY <1>1 DEF Ascending
<1> HIDE DEF times
<1>4. n \in Nat \ {0} /\ DOMAIN times = 1..n /\ times \in [1..n -> Nat]
  BY <1>2
<1> HIDE DEF n
<1>5. order \in Bijection(1..n, 1..n) /\ Sorts(order, times)
  <2>1. \E p \in Bijection(1..n, 1..n) : Sorts(p, times)
    BY <1>4, SomeOrder
  <2> QED BY <1>4, <2>1
<1> HIDE DEF order
<1>6. n \div 2 + 1 \in 1..n
  BY <1>4
<1>7. ProbedToSeek(disk) <=> times[order[n \div 2 + 1]] > SeekLatency
  <2>1. Ascending[disk][n \div 2 + 1] = times[order[n \div 2 + 1]]
    BY <1>3, <1>4, <1>6
  <2> QED BY <2>1 DEF ProbedToSeek, n, times
<1>8. ProbedToSeek(disk) <=> 2 * Cardinality({i \in 1..n : times[i] > SeekLatency}) >= n
  BY <1>4, <1>5, <1>7, MedianCounts
<1>9. Class(v) = IF ProbedToSeek(disk) THEN "hdd" ELSE IF Bus[disk] = "nvme" THEN "nvme" ELSE "ssd"
  BY DEF Class
<1>10. ProfileDepth(v) = 2 <=> ProbedToSeek(disk)
  BY <1>9 DEF ProfileDepth, ClassDepth
<1> QED BY Zenon, <1>4, <1>8, <1>10 DEF n, times, disk

\* "Latency separates them unambiguously": a disk that will not say whether it
\* seeks gets the depth of a spinning one exactly when at least half of its
\* timed reads were slow, for any number of reads and any times.
THEOREM SpindlesRecognised == Spec => []SpindleRecognised
<1>1. PlannerInv => SpindleRecognised
  <2> SUFFICES ASSUME PlannerInv, NEW v \in {src, dst}, v.extents # <<>>,
                      Penalty[FirstDisk(v)] = "silent", ProbeAnswers(FirstDisk(v))
               PROVE  ProfileDepth(v) = 2
                        <=> 2 * Cardinality({i \in DOMAIN Latencies[FirstDisk(v)] :
                                               Latencies[FirstDisk(v)][i] > SeekLatency})
                              >= Len(Latencies[FirstDisk(v)])
    BY Zenon DEF SpindleRecognised
  <2>1. v \in Volumes
    BY DEF PlannerInv, SetupInv
  <2> QED BY Zenon, <2>1, Recognised
<1> QED BY <1>1, Kept, PTL

=============================================================================
