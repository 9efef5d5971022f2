---------------------------- MODULE MonotoneOrder ----------------------------
(***************************************************************************)
(* What the order record of the Prop Desk promises to its readers, with    *)
(* no word about events, keys, sequence numbers or the wire: progress      *)
(* along the lifecycle and the filled quantity only move forward, a bust   *)
(* is the one way back, and a closed order changes by a bust or not at     *)
(* all.  OrderLifecycle implements it.                                     *)
(***************************************************************************)
EXTENDS Integers

CONSTANT MaxQty  \* the largest quantity an order can have

VARIABLES
  tracked,  \* whether the desk holds a record of the order at all
  state,    \* the lifecycle state of that record
  filled    \* its filled quantity

view == <<tracked, state, filled>>

Terminal == {"filled", "cancelled", "rejected", "expired"}

OrderState ==
  {"created", "submitted", "working", "partially_filled"} \cup Terminal

Rank(s) ==
  IF s \in Terminal THEN 4
  ELSE CASE s = "created" -> 0
         [] s = "submitted" -> 1
         [] s = "working" -> 2
         [] s = "partially_filled" -> 3

Init == tracked = FALSE /\ state = "created" /\ filled = 0

Open == tracked /\ state \notin Terminal

Begin ==
  /\ ~tracked
  /\ tracked' = TRUE /\ state' = "created" /\ filled' = 0

Advance ==
  /\ Open
  /\ tracked' = TRUE
  /\ state' \in OrderState
  /\ Rank(state') >= Rank(state)
  /\ filled' \in filled .. MaxQty

Bust ==
  /\ tracked
  /\ tracked' = TRUE
  /\ filled' \in 0 .. filled - 1
  /\ state' = IF filled' = 0 THEN "working" ELSE "partially_filled"

Drop ==
  /\ tracked
  /\ tracked' = FALSE /\ state' = "created" /\ filled' = 0

Next == Begin \/ Advance \/ Bust \/ Drop

Spec == Init /\ [][Next]_view
=============================================================================
