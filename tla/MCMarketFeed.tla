---------------------------- MODULE MCMarketFeed ----------------------------
EXTENDS MarketFeed

TwoPrices == {1, 2}
=============================================================================
