----------------------------- MODULE MC_Freshness -----------------------------
EXTENDS Freshness
CONSTANT r1
=============================================================================
