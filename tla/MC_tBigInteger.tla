-------------------------- MODULE MC_tBigInteger --------------------------
(* Words of 4 bits, bytes of 2: numbers of up to seven words. 139 is a      *)
(* prime of two full words; 561 and 1105 are Carmichael numbers.            *)
EXTENDS tRSA

MCStarts == {0, 14, 139, 255, 561, 1105, 4095, 9000}
MCCandidates == -3..45 \cup {139, 561, 1105}
MCOperands == {-20, 0, 3, 37, 3999}
MCExponents == {0, 11, 201, 3001}
MCModuli == {1, 12, 35, 241}
MCRadices == {2, 10}
=============================================================================
