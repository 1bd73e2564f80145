-------------------------- MODULE MCCircuitBreaker --------------------------
(* The risk gateway with its consume thread, heartbeat and one HTTP worker. *)
EXTENDS CircuitBreaker

MCServices == {"gateway"}
MCThreads == {"consume", "heartbeat", "api"}
MCOperators == {"api"}
MCService == [t \in MCThreads |-> "gateway"]
=============================================================================
