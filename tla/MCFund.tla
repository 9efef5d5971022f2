------------------------------- MODULE MCFund -------------------------------
(* Two symbols at one price: a basket that fits the ceiling one order at a *)
(* time only, a holding that is dropped while another is reduced, and one  *)
(* that is turned into a short.                                            *)
EXTENDS Fund
CONSTANT absent

Stored == {<<3, 2>>, <<2, absent>>, <<-1, absent>>}
=============================================================================
