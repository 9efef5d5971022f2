---------------------------- MODULE MCApprovals -----------------------------
(* Three kinds of action of the registry: one that reaches the book, one   *)
(* that is destructive although it is listed, and a protected one.         *)
EXTENDS Approvals

Fact(m, k, p, l) == [mutating |-> m, risk |-> k, protected |-> p, list |-> l]
Verbs == {"submit_orders", "delete_listed", "set_stance"}
VerbFacts ==
  [v \in Verbs |->
     CASE v = "submit_orders" -> Fact(TRUE, "safe", FALSE, "consequential")
       [] v = "delete_listed" -> Fact(TRUE, "confirm", FALSE, "preparatory")
       [] OTHER -> Fact(TRUE, "safe", TRUE, "none")]
=============================================================================
