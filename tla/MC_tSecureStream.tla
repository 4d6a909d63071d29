------------------------- MODULE MC_tSecureStream -------------------------
EXTENDS tSecureStream
=============================================================================
