----------------------------- MODULE MC_tSocket -----------------------------
EXTENDS tSocket
=============================================================================
