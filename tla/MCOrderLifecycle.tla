-------------------------- MODULE MCOrderLifecycle --------------------------
(* Broker profiles for the model-checking runs of OrderLifecycle.          *)
EXTENDS OrderLifecycle

NoTypes == {}
AllTypes == ReportType

\* The reports of adapters/simulated.py that carry a sequence number.
SimulatorTypes == {"submitted", "acknowledged", "partial_fill", "fill"}
=============================================================================
