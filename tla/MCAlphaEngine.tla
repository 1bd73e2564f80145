---------------------------- MODULE MCAlphaEngine ---------------------------
EXTENDS AlphaEngine
=============================================================================
