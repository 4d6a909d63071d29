------------------------------- MODULE tTimer -------------------------------
(***************************************************************************)
(* The periodic timer of include/rho/sync/tTimer.h and                     *)
(* source/rho/sync/tTimer.cpp: its thread, and the thread that owns it,    *)
(* which constructs it, stops it and destroys it. m_running and m_stopped  *)
(* are plain members: the thread reloads m_running on every turn of its    *)
(* loop, because every turn calls functions the compiler cannot see into.  *)
(*                                                                         *)
(* Times are in units of which only differences matter: `due` is           *)
(* m_nextCallTime minus the current time.                                  *)
(***************************************************************************)
EXTENDS Integers

CONSTANTS
  m_period,
  kMinSleepTime, kMaxSleeptime,
  MaxLate        (* bound: how late the thread may be for an alert         *)

ASSUME TimerAssumption ==
    /\ m_period \in Nat \ {0}      \* tTimer's constructor throws on zero
    /\ kMinSleepTime \in Nat /\ kMaxSleeptime \in Nat \ {0}
    /\ MaxLate \in Nat

VARIABLES
  m_running, m_stopped,
  m_thread,  (* "none", "running" or "joined"; NULL once stop() is over    *)
  due,
  pc,        (* where the timer's thread is                                *)
  nap,       (* what is left of its usleep                                 *)
  owner      (* where the owner is                                         *)

timing == <<due, nap>>
vars == <<m_running, m_stopped, m_thread, timing, pc, owner>>

\* The observer's three callbacks are "init", "alert" and "end".
PCs == {"none", "init", "test", "clock", "alert", "sleep", "stopping", "end", "exited"}
OwnerPCs == {"constructing", "out", "join", "clear", "destroyed"}

Init ==
    /\ m_running = TRUE /\ m_stopped = FALSE
    /\ m_thread = "none"
    /\ due = m_period /\ nap = 0
    /\ pc = "none"
    /\ owner = "constructing"

Moves(from, to) == pc = from /\ pc' = to
OwnerMoves(from, to) == owner = from /\ owner' = to
-----------------------------------------------------------------------------
(* pthread_create in tThread's constructor: the thread may run before      *)
(* m_thread is assigned.                                                   *)
Creates ==
    /\ Moves("none", "init")
    /\ UNCHANGED <<m_running, m_stopped, m_thread, timing, owner>>

Constructed ==
    /\ pc # "none" /\ OwnerMoves("constructing", "out")
    /\ m_thread' = "running"
    /\ UNCHANGED <<m_running, m_stopped, timing, pc>>

(* stop(), and the destructor, which is one.                               *)
Stop ==
    /\ m_running /\ OwnerMoves("out", "join")
    /\ m_running' = FALSE
    /\ UNCHANGED <<m_stopped, m_thread, timing, pc>>

JoinOnStopped ==
    /\ m_stopped /\ OwnerMoves("join", "clear")
    /\ m_thread' = "joined"
    /\ UNCHANGED <<m_running, m_stopped, timing, pc>>

Join ==
    /\ pc = "exited" /\ OwnerMoves("join", "clear")
    /\ m_thread' = "joined"
    /\ UNCHANGED <<m_running, m_stopped, timing, pc>>

Clear ==
    /\ OwnerMoves("clear", "out")
    /\ m_thread' = "NULL"
    /\ UNCHANGED <<m_running, m_stopped, timing, pc>>

Destroyed ==
    /\ ~m_running /\ OwnerMoves("out", "destroyed")
    /\ UNCHANGED <<m_running, m_stopped, m_thread, timing, pc>>
-----------------------------------------------------------------------------
(* tTimerThread::run.                                                      *)
InitReturns ==
    /\ Moves("init", "test")
    /\ UNCHANGED <<m_running, m_stopped, m_thread, timing, owner>>

RunningOnce == due > 0 \/ m_running
Running == m_running

Test ==
    /\ Moves("test", IF Running THEN "clock" ELSE "stopping")
    /\ UNCHANGED <<m_running, m_stopped, m_thread, timing, owner>>

ClockSaysNowTooSoon ==
    /\ due <= kMinSleepTime /\ Moves("clock", "alert")
    /\ UNCHANGED <<m_running, m_stopped, m_thread, timing, owner>>

ClockSaysNowExactly ==
    /\ due = 0 /\ Moves("clock", "alert")
    /\ UNCHANGED <<m_running, m_stopped, m_thread, timing, owner>>

ClockSaysNow ==
    /\ due <= 0 /\ Moves("clock", "alert")
    /\ UNCHANGED <<m_running, m_stopped, m_thread, timing, owner>>

(* Too little time is left to sleep: the thread looks again.               *)
ClockSaysSoon ==
    /\ due \in 1..kMinSleepTime /\ Moves("clock", "test")
    /\ UNCHANGED <<m_running, m_stopped, m_thread, timing, owner>>

NapWhole(wait) == IF wait < kMaxSleeptime THEN wait ELSE kMaxSleeptime
Nap(wait) == IF wait - kMinSleepTime < kMaxSleeptime THEN wait - kMinSleepTime
             ELSE kMaxSleeptime

ClockSaysLater ==
    /\ due > 0 /\ due > kMinSleepTime /\ Moves("clock", "sleep")
    /\ nap' = Nap(due)
    /\ UNCHANGED <<m_running, m_stopped, m_thread, due, owner>>

Wakes ==
    /\ nap = 0 /\ Moves("sleep", "test")
    /\ UNCHANGED <<m_running, m_stopped, m_thread, timing, owner>>

AlertReturns(callAgain) ==
    /\ Moves("alert", IF callAgain THEN "test" ELSE "stopping")
    /\ due' = IF callAgain THEN due + m_period ELSE due
    /\ UNCHANGED <<m_running, m_stopped, m_thread, nap, owner>>

Stopped ==
    /\ Moves("stopping", "end")
    /\ m_stopped' = TRUE
    /\ UNCHANGED <<m_running, m_thread, timing, owner>>

EndReturns ==
    /\ Moves("end", "exited")
    /\ UNCHANGED <<m_running, m_stopped, m_thread, timing, owner>>

(* Time passes, for the sleeping thread too, which may oversleep.          *)
Tick ==
    /\ due > -MaxLate
    /\ due' = due - 1
    /\ nap' = IF nap = 0 THEN 0 ELSE nap - 1
    /\ UNCHANGED <<m_running, m_stopped, m_thread, pc, owner>>
-----------------------------------------------------------------------------
OwnerStep == Constructed \/ Join \/ Clear
ThreadStep ==
    \/ InitReturns \/ Test \/ ClockSaysNow \/ ClockSaysSoon \/ ClockSaysLater \/ Wakes
    \/ Stopped \/ EndReturns \/ \E callAgain \in BOOLEAN : AlertReturns(callAgain)

Next == Creates \/ Stop \/ Destroyed \/ OwnerStep \/ ThreadStep \/ Tick

(* Both threads run when they can, the callbacks return, and time passes.  *)
(* Nobody has to call stop().                                              *)
Fairness == WF_vars(OwnerStep) /\ WF_vars(ThreadStep) /\ WF_vars(Tick)

Spec == Init /\ [][Next]_vars /\ Fairness
-----------------------------------------------------------------------------
TypeOK ==
    /\ m_running \in BOOLEAN /\ m_stopped \in BOOLEAN
    /\ m_thread \in {"none", "running", "joined", "NULL"}
    /\ due \in (-MaxLate)..m_period
    /\ nap \in 0..kMaxSleeptime
    /\ pc \in PCs /\ owner \in OwnerPCs

(* tTimer.h, stop(): "It is safe to destroy the observer after this method *)
(* returns." Once stop() or the destructor is over, no callback is in      *)
(* progress and none will come, not even timerThreadEnd; and isStopped()   *)
(* says so.                                                                *)
QuietAfterStop ==
    (owner \in {"out", "destroyed"} /\ ~m_running) => pc = "exited" /\ m_stopped

(* The thread never sets out to sleep past the next alert.                 *)
NapEndsInTime == pc = "sleep" /\ nap > 0 => nap + kMinSleepTime <= due

(* stop() returns, however short the period and however late the thread.   *)
StopReturns == owner = "join" ~> owner = "out"

(* As long as nobody stops it and the observer asks for more, the timer    *)
(* gets to its next alert: it neither sleeps through it nor spins for ever.*)
AlertComes == pc = "test" ~> pc = "alert" \/ ~m_running
=============================================================================
