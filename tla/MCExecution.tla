---------------------------- MODULE MCExecution -----------------------------
(* Two messages, which are two copies of one order. *)
EXTENDS Execution

MCSymbols == {"BTCUSD"}

CopyOrders == {"o1"}
CopyStrategies == {"s1"}
CopyOrderAt == <<"o1", "o1">>
CopyStrategyOf == [o \in CopyOrders |-> "s1"]
CopySymbolOf == [o \in CopyOrders |-> "BTCUSD"]
CopyEnvModes == [s \in CopyStrategies |-> "live"]
=============================================================================
