------------------------------ MODULE Consent -------------------------------
(* What a queue of approvals promises, with no word about threads, clocks, *)
(* rows or locks: a request runs only while it is open, running closes it, *)
(* and a closed request opens again only when the answer to a run was      *)
(* lost.  Approvals implements it.                                         *)
EXTENDS Naturals

CONSTANT Request

VARIABLES
  held,  \* "unasked", "open" or "closed"
  runs   \* how many times the held action was run for it

consent == <<held, runs>>

Init ==
  /\ held = [r \in Request |-> "unasked"]
  /\ runs = [r \in Request |-> 0]

Ask(r) ==
  /\ held[r] = "unasked"
  /\ held' = [held EXCEPT ![r] = "open"]
  /\ UNCHANGED runs

Run(r) ==
  /\ held[r] = "open"
  /\ held' = [held EXCEPT ![r] = "closed"]
  /\ runs' = [runs EXCEPT ![r] = @ + 1]

Close(r) ==
  /\ held[r] = "open"
  /\ held' = [held EXCEPT ![r] = "closed"]
  /\ UNCHANGED runs

LoseAnswer(r) ==
  /\ held[r] = "closed"
  /\ runs[r] > 0
  /\ held' = [held EXCEPT ![r] = "open"]
  /\ UNCHANGED runs

Next == \E r \in Request : Ask(r) \/ Run(r) \/ Close(r) \/ LoseAnswer(r)

Spec == Init /\ [][Next]_consent
=============================================================================
