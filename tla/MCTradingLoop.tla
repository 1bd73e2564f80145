--------------------------- MODULE MCTradingLoop ----------------------------
EXTENDS TradingLoop

OneSymbol == {"BTCUSD"}
TwoSymbols == {"BTCUSD", "ETHUSD"}
BothSides == {"BUY", "SELL"}
BuyOnly == {"BUY"}
=============================================================================
