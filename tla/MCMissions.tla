----------------------------- MODULE MCMissions -----------------------------
(* A plan of two steps, the second of which waits for a job, and a plan    *)
(* of one; the registry keeps one job.                                     *)
EXTENDS Missions
CONSTANTS build, audit

Plans == [m \in {build, audit} |-> IF m = build THEN <<"act", "job">> ELSE <<"act">>]
=============================================================================
