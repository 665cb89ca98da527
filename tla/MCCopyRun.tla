------------------------------ MODULE MCCopyRun ------------------------------
(* Instances of CopyRun for TLC. *)
EXTENDS CopyRun, TLC

CONSTANTS b1, b2, s1, s2

MCChunksOf == (b1 :> {1, 2}) @@ (b2 :> {3})
MCSmall == <<s1, s2>>
===============================================================================
