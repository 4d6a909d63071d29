------------------------------ MODULE Conduit ------------------------------
(***************************************************************************)
(* What a connection promises, one way: the bytes that were taken come out *)
(* in order, none twice and none left out before a later one; after the    *)
(* end was told nothing more comes. Only a connection that broke may lose  *)
(* the bytes at the end. (include/rho/iReadable.h, include/rho/iWritable.h *)
(* on well-behaved streams.) Bytes are named by their position.            *)
(***************************************************************************)
EXTENDS Naturals, Sequences

VARIABLES taken,       (* how many bytes the writing end has taken         *)
          received,    (* the bytes that the reading end has given         *)
          ended,       (* the writing end is closed                        *)
          told,        (* the reading end has told the end of the stream   *)
          broken       (* an error, or a close that did not wait           *)

vars == <<taken, received, ended, told, broken>>

Init == taken = 0 /\ received = <<>> /\ ~ended /\ ~told /\ ~broken

Take(n) ==
    /\ ~ended \/ broken
    /\ taken' = taken + n
    /\ UNCHANGED <<received, ended, told, broken>>

Give(n) ==
    /\ ~told /\ Len(received) + n <= taken
    /\ received' = received \o [j \in 1..n |-> Len(received) + j]
    /\ UNCHANGED <<taken, ended, told, broken>>

(* Closing may show that the connection is broken, at one stroke.          *)
End == ended' = TRUE /\ broken' \in {broken, TRUE} /\ UNCHANGED <<taken, received, told>>
Break == broken' = TRUE /\ UNCHANGED <<taken, received, ended, told>>

Tell ==
    /\ broken \/ (ended /\ Len(received) = taken)
    /\ told' = TRUE
    /\ UNCHANGED <<taken, received, ended, broken>>

Next ==
    \/ \E n \in 1..taken' - taken : Take(n)
    \/ \E n \in 1..taken - Len(received) : Give(n)
    \/ End \/ Break \/ Tell

Spec == Init /\ [][Next]_vars

(* A reader that goes on reading learns of the end.                        *)
EndIsTold == ended ~> told
=============================================================================
