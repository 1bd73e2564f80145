----------------------------- MODULE MCStorage ------------------------------
EXTENDS Storage

TradesAndUpdates == {"trade", "depth", "thin"}
TradesOnly == {"trade"}
=============================================================================
