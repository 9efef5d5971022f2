------------------------------ MODULE MCFabric ------------------------------
(* The commands of a few passes for the runs of Fabric: followers' entries *)
(* and the cancel of a resting order, or entries only.                     *)
EXTENDS Fabric, TLC

Batch == {"entry", "withdraw"}
BatchPrio == [c \in Batch |-> IF c = "entry" THEN 3 ELSE 1]

Entries == {"entry1", "entry2"}
EntryPrio == [c \in Entries |-> 3]

Threads == Permutations(Thread)
=============================================================================
