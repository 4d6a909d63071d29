-------------------------------- MODULE Pipe --------------------------------
(***************************************************************************)
(* What a writable stream joined to a readable one promises                *)
(* (include/rho/iReadable.h, include/rho/iWritable.h): bytes come out in   *)
(* the order they went in, none twice, and the end of the stream is told   *)
(* once, after the last byte; from then on the stream is closed. Bytes are *)
(* named by their position.                                                *)
(***************************************************************************)
EXTENDS Naturals, Sequences

VARIABLES lossy,       (* whether bytes may vanish between the two ends    *)
          sent,        (* how many bytes were written                      *)
          transit,     (* the set of bytes written and not yet read        *)
          received,    (* bytes read                                       *)
          ended,       (* the writing end has sent the end of the stream   *)
          told,        (* how often the reader was told so                 *)
          closed,      (* the reader has been told the stream is closed    *)
          reading      (* the readable end is there                        *)

vars == <<lossy, sent, transit, received, ended, told, closed, reading>>

Init ==
    /\ lossy \in BOOLEAN
    /\ sent = 0 /\ transit = {} /\ received = <<>>
    /\ ended = FALSE /\ told = 0 /\ closed = FALSE /\ reading = TRUE

Write(n) ==
    /\ ~ended
    /\ sent' = sent + n
    /\ transit' = IF reading THEN transit \cup (sent + 1)..(sent + n) ELSE {}
    /\ UNCHANGED <<lossy, received, ended, told, closed, reading>>

End ==
    /\ ended' = TRUE
    /\ UNCHANGED <<lossy, sent, transit, received, told, closed, reading>>

(* The bytes that come first are read, as far as they have no gap.         *)
Read(first, last) ==
    /\ reading /\ {b \in transit : b <= last} = first..last
    /\ received' = received \o [j \in 1..(last - first + 1) |-> first + j - 1]
    /\ transit' = transit \ (first..last)
    /\ UNCHANGED <<lossy, sent, ended, told, closed, reading>>

Tell ==
    /\ reading /\ ended /\ transit = {} /\ told = 0
    /\ told' = 1
    /\ UNCHANGED <<lossy, sent, transit, received, ended, closed, reading>>

Refuse ==
    /\ reading /\ told = 1
    /\ closed' = TRUE
    /\ UNCHANGED <<lossy, sent, transit, received, ended, told, reading>>

(* What is under way from one byte to another is lost.                     *)
Lose(first, last) ==
    /\ lossy
    /\ transit' = transit \ (first..last)
    /\ UNCHANGED <<lossy, sent, received, ended, told, closed, reading>>

(* The readable end is destroyed: nobody reads what is left.               *)
Abandon ==
    /\ reading' = FALSE /\ transit' = {}
    /\ UNCHANGED <<lossy, sent, received, ended, told, closed>>

Next ==
    \/ \E n \in 1..(sent' - sent) : Write(n)
    \/ \E first, last \in transit : Read(first, last) \/ Lose(first, last)
    \/ End \/ Tell \/ Refuse \/ Abandon

Spec == Init /\ [][Next]_vars
=============================================================================
