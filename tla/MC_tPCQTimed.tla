---------------------------- MODULE MC_tPCQTimed ----------------------------
(* One pusher and two poppers, so that one popper can take the item for    *)
(* which the other was woken, with a timeout of 2 ms.                      *)
EXTENDS tPCQTimed
=============================================================================
