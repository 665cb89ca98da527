---------------------------- MODULE MCBulkPipeline ----------------------------
(* Instances of BulkPipeline for TLC. *)
EXTENDS BulkPipeline, TLC, SequencesExt, FiniteSetsExt

CONSTANTS f1, f2

MCBlock == 4
MCAlign == 2
MCLenBits == 8

\* f1: a full chunk and a ragged one; f2: one ragged chunk.
MCSize == (f1 :> 7) @@ (f2 :> 3)
MCJobs == FileJobs(f1, 7, MCBlock, MCLenBits) \o FileJobs(f2, 3, MCBlock, MCLenBits)

Symmetry == Permutations(Workers) \cup Permutations(Buffers)
===============================================================================
