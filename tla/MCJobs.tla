------------------------------- MODULE MCJobs -------------------------------
(* Three jobs against a registry that keeps one and an inbox that keeps    *)
(* one: a backtest with a checkpoint, two of an agent without any.         *)
EXTENDS Jobs

Work == {"backtest", "agent1", "agent2"}
WorkCheckpoints == [j \in Work |-> IF j = "backtest" THEN 1 ELSE 0]
=============================================================================
