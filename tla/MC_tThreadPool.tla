--------------------------- MODULE MC_tThreadPool ---------------------------
(* A pool of two threads, used by two clients and by its own tasks, and    *)
(* destroyed with tasks queued and running.                                *)
EXTENDS tThreadPool
=============================================================================
