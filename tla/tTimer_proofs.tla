--------------------------- MODULE tTimer_proofs ---------------------------
(***************************************************************************)
(* The timer's safety for any period, any sleep limits and any lateness.   *)
(***************************************************************************)
EXTENDS tTimer, TLAPS

(* How far the owner is tells how far the thread is: a stop() that is      *)
(* being joined has cleared m_running, and one that is over has seen the   *)
(* thread exit. The thread is past its loop exactly when m_stopped is set. *)
Lives ==
    /\ owner # "constructing" => pc # "none"
    /\ owner \in {"join", "clear", "destroyed"} => ~m_running
    /\ owner = "constructing" => m_running
    /\ owner = "clear" => pc = "exited"
    /\ m_stopped <=> pc \in {"end", "exited"}

(* An alert is never early.                                                *)
AlertsAreDue == pc = "alert" => due <= 0

TimerInv == TypeOK /\ Lives /\ AlertsAreDue /\ NapEndsInTime /\ QuietAfterStop

LEMMA InitTimerInv == Init => TimerInv
<1> SUFFICES ASSUME Init PROVE TimerInv OBVIOUS
<1>1. TypeOK
  <2>1. due \in (-MaxLate)..m_period /\ nap \in 0..kMaxSleeptime
    BY TimerAssumption DEF Init
  <2>2. m_running \in BOOLEAN /\ m_stopped \in BOOLEAN
    BY Zenon DEF Init
  <2>3. /\ m_thread \in {"none", "running", "joined", "NULL"}
        /\ pc \in PCs /\ owner \in OwnerPCs
    BY DEF Init, PCs, OwnerPCs
  <2> QED BY <2>1, <2>2, <2>3 DEF TypeOK
<1>2. Lives BY DEF Init, Lives
<1>3. AlertsAreDue /\ NapEndsInTime /\ QuietAfterStop
  BY DEF Init, AlertsAreDue, NapEndsInTime, QuietAfterStop
<1> QED BY <1>1, <1>2, <1>3 DEF TimerInv

LEMMA OwnerKeepsTimerInv ==
  ASSUME TimerInv, Creates \/ Stop \/ Destroyed \/ OwnerStep
  PROVE  TimerInv'
<1> USE TimerAssumption
    DEF TimerInv, TypeOK, Lives, AlertsAreDue, NapEndsInTime, QuietAfterStop, PCs, OwnerPCs,
        Moves, OwnerMoves, timing
<1>1. CASE Creates BY <1>1 DEF Creates
<1>2. CASE Stop BY <1>2 DEF Stop
<1>3. CASE Destroyed BY <1>3 DEF Destroyed
<1>4. CASE Constructed BY <1>4 DEF Constructed
<1>5. CASE Join BY <1>5 DEF Join
<1>6. CASE Clear BY <1>6 DEF Clear
<1> QED BY <1>1, <1>2, <1>3, <1>4, <1>5, <1>6 DEF OwnerStep

(* A nap stays within what is left until the alert.                        *)
LEMMA NapFits ==
  ASSUME due \in Int, due > 0, due > kMinSleepTime
  PROVE  Nap(due) \in 0..kMaxSleeptime /\ Nap(due) + kMinSleepTime <= due
  BY TimerAssumption DEF Nap

LEMMA ThreadKeepsTimerInv ==
  ASSUME TimerInv, ThreadStep \/ Tick
  PROVE  TimerInv'
<1> USE TimerAssumption
    DEF TimerInv, TypeOK, Lives, AlertsAreDue, NapEndsInTime, QuietAfterStop, PCs, OwnerPCs,
        Moves, timing
<1>1. CASE InitReturns BY <1>1 DEF InitReturns
<1>2. CASE Test BY <1>2 DEF Test
<1>3. CASE ClockSaysNow BY <1>3 DEF ClockSaysNow
<1>4. CASE ClockSaysSoon BY <1>4 DEF ClockSaysSoon
<1>5. CASE ClockSaysLater BY <1>5, NapFits DEF ClockSaysLater
<1>6. CASE Wakes BY <1>6 DEF Wakes
<1>7. ASSUME NEW callAgain \in BOOLEAN, AlertReturns(callAgain) PROVE TimerInv'
  BY <1>7 DEF AlertReturns
<1>8. CASE Stopped BY <1>8 DEF Stopped
<1>9. CASE EndReturns BY <1>9 DEF EndReturns
<1>10. CASE Tick BY <1>10 DEF Tick
<1> QED
  BY <1>1, <1>2, <1>3, <1>4, <1>5, <1>6, <1>7, <1>8, <1>9, <1>10 DEF ThreadStep

LEMMA SpecTimerInv == Spec => []TimerInv
<1>1. TimerInv /\ [Next]_vars => TimerInv'
  <2>1. ASSUME TimerInv, UNCHANGED vars PROVE TimerInv'
    BY <2>1 DEF vars, timing, TimerInv, TypeOK, Lives, AlertsAreDue, NapEndsInTime, QuietAfterStop
  <2> QED BY <2>1, OwnerKeepsTimerInv, ThreadKeepsTimerInv DEF Next
<1> QED BY <1>1, InitTimerInv, PTL DEF Spec

(* The timer's variables keep their types; in particular no more than a    *)
(* period is ever left until the next alert.                               *)
THEOREM TypeCorrect == Spec => []TypeOK
  BY SpecTimerInv, PTL DEF TimerInv

(* After stop() no callback is in progress and none will come.             *)
THEOREM StopIsQuiet == Spec => []QuietAfterStop
  BY SpecTimerInv, PTL DEF TimerInv

(* The thread never sets out to sleep past the next alert.                 *)
THEOREM NapsAreShort == Spec => []NapEndsInTime
  BY SpecTimerInv, PTL DEF TimerInv
=============================================================================
