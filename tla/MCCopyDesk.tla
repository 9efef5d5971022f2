----------------------------- MODULE MCCopyDesk -----------------------------
(* Followers of one leader: "one" copies contract for contract and may     *)
(* reverse in one order, "double" takes two for each, needs two orders for  *)
(* its largest position and has a provider that refuses it.                *)
EXTENDS CopyDesk

Pair == <<"one", "double">>
PairSize ==
  "one" :> [n \in 0 .. MaxLeader |-> n] @@ "double" :> [n \in 0 .. MaxLeader |-> 2 * n]
PairPerOrder == [f \in Follower |-> 3]
PairCap == "one" :> 2 @@ "double" :> 3
=============================================================================
