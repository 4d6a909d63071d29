------------------------------ MODULE MC_tPCQ ------------------------------
(* Two pushers and two poppers on a queue of capacity 2, under each of the *)
(* four overflow behaviours: enough for one broadcast to wake two threads  *)
(* of which one finds nothing. With U32 = 4 and Memory = 3 a growing queue *)
(* doubles m_capacity past the largest u32, and then runs out of memory.   *)
EXTENDS tPCQ
=============================================================================
