----------------------- MODULE MCCircuitBreakerLocal ------------------------
(* The risk gateway with its consume thread and one HTTP worker. *)
EXTENDS CircuitBreakerLocal

MCServices == {"gateway"}
MCThreads == {"consume", "api"}
MCOperators == {"api"}
MCService == [t \in MCThreads |-> "gateway"]
=============================================================================
