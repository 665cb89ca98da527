------------------------------ MODULE ChunkPlan ------------------------------
(***************************************************************************)
(* The arithmetic that cuts a bulk file into chunks: `round_up` of         *)
(* device.rs and the body of the planning loop of `run_bulk` (engine.rs).  *)
(* Pure operators only; `JobPlanner` runs the loop, `BulkPipeline` moves   *)
(* the chunks it yields.                                                   *)
(***************************************************************************)
EXTENDS Integers, Sequences

\* The rounded value is the least multiple of `to` at or above v; a zero
\* alignment leaves v alone.
RoundUp(v, to) == IF to = 0 THEN v ELSE ((v + to - 1) \div to) * to

\* Mutant: an empty file has no chunk.
ChunkCount_NoneWhenEmpty(size, block) == (size + block - 1) \div block

\* Every file has at least one chunk, the empty file included: that chunk is
\* what gets an empty destination created and finalized.
ChunkCount(size, block) ==
    LET full == (size + block - 1) \div block
    IN  IF full < 1 THEN 1 ELSE full

\* `(t.size - offset).min(block) as u32`: the cast keeps the low bits, lenBits
\* of them in the model.
ChunkLen(size, block, offset, lenBits) ==
    LET rest == size - offset
    IN  (IF rest < block THEN rest ELSE block) % (2 ^ lenBits)

\* The jobs of one file, in the order the loop pushes them.
FileJobs(file, size, block, lenBits) ==
    [c \in 1..ChunkCount(size, block) |->
        LET offset == (c - 1) * block
        IN  [file |-> file, offset |-> offset,
             len |-> ChunkLen(size, block, offset, lenBits)]]
=============================================================================
