----------------------------- MODULE MCJobPlanner -----------------------------
(* Instances of JobPlanner for TLC. *)
EXTENDS JobPlanner, TLC

\* Disks 0 and 1 report their seek penalty; the others are silent: 2 is slow, 3
\* and 4 answer some reads from a cache, 5 cannot be probed, 6 is fast.
MCDisks == 0..6
MCPenalty == (0 :> "none") @@ (1 :> "seeks") @@ [d \in 2..6 |-> "silent"]
MCBus == [d \in MCDisks |-> IF d \in {0, 6} THEN "nvme" ELSE "usb"]
MCLatencies ==
    (0 :> <<1, 1, 1, 1>>) @@ (1 :> <<>>) @@ (2 :> <<9, 15, 12, 9>>) @@ (3 :> <<9, 1, 9, 1>>)
    @@ (4 :> <<1, 9, 1>>) @@ (5 :> <<9>>) @@ (6 :> <<1, 3, 1, 1>>)

Volume(sector, perCluster, extents) == [sector |-> sector, perCluster |-> perCluster, extents |-> extents]
MCVolumes ==
    {Volume(1, 1, <<0>>), Volume(1, 2, <<1>>), Volume(1, 1, <<2>>), Volume(1, 2, <<3, 3>>), Volume(2, 2, <<4>>),
     Volume(1, 1, <<5>>), Volume(2, 1, <<6, 2>>), Volume(1, 16, <<0>>), Volume(1, 1, <<>>)}
===============================================================================
