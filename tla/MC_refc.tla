------------------------------ MODULE MC_refc ------------------------------
(* Two threads share objects at three addresses, with four counters.       *)
EXTENDS refc, TLC
Symmetry == Permutations(Threads) \cup Permutations(Addrs) \cup Permutations(Counters)
=============================================================================
