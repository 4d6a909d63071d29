----------------------------- MODULE MC_Streams -----------------------------
(* BufferedStreams on a queue of one chunk, for each overflow behaviour,   *)
(* with buffers smaller than what is written and read.                     *)
EXTENDS BufferedStreams
=============================================================================
