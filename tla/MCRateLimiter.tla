--------------------------- MODULE MCRateLimiter ----------------------------
EXTENDS RateLimiter

TwoCallers == {"consumer", "other"}
Delays == {1, 2}
=============================================================================
