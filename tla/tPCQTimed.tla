----------------------------- MODULE tPCQTimed -----------------------------
(***************************************************************************)
(* tPCQ with a clock, for pop(u32 timeoutMS): when its waits end. Time     *)
(* passes in milliseconds; of absolute times only what is left of each     *)
(* wait matters.                                                           *)
(***************************************************************************)
EXTENDS tPCQ

CONSTANT timeoutMS
ASSUME TimeoutAssumption == timeoutMS \in Nat

VARIABLES
  left,    (* left[c]: the time until the abstime of c's timed wait        *)
  elapsed  (* elapsed[c]: the time since c's timed pop first waited; not   *)
           (* counted beyond timeoutMS + 1                                 *)

timedVars == <<vars, left, elapsed>>

TimedInit ==
    /\ Init
    /\ left = [c \in Consumers |-> 0]
    /\ elapsed = [c \in Consumers |-> 0]

TimedPopWaitInMicroseconds(c) ==
    /\ PopWait(c)
    /\ left' = [left EXCEPT ![c] = IF call[c] = "timedpop" THEN 1000 * timeoutMS ELSE 0]
    /\ elapsed' = IF pc[c] = "pop" THEN [elapsed EXCEPT ![c] = 0] ELSE elapsed

(* abstime is computed anew on every turn of the loop.                     *)
TimedPopWait(c) ==
    /\ PopWait(c)
    /\ left' = [left EXCEPT ![c] = IF call[c] = "timedpop" THEN timeoutMS ELSE 0]
    /\ elapsed' = IF pc[c] = "pop" THEN [elapsed EXCEPT ![c] = 0] ELSE elapsed

TimedPopTimesOutEarly(c) ==
    /\ left[c] <= 1
    /\ PopTimesOut(c)
    /\ UNCHANGED <<left, elapsed>>

TimedPopTimesOutRetries(c) ==
    /\ left[c] = 0
    /\ pc[c] = "waitSomething" /\ call[c] = "timedpop"
    /\ pc' = [pc EXCEPT ![c] = "pop"]
    /\ UNCHANGED <<queueVars, item, call, got, left, elapsed>>

TimedPopTimesOut(c) ==
    /\ left[c] = 0
    /\ PopTimesOut(c)
    /\ UNCHANGED <<left, elapsed>>

Tick ==
    /\ \E c \in Consumers : left[c] > 0
    /\ left' = [c \in Consumers |-> IF left[c] = 0 THEN 0 ELSE left[c] - 1]
    /\ elapsed' = [c \in Consumers |-> IF elapsed[c] > timeoutMS THEN elapsed[c]
                                       ELSE elapsed[c] + 1]
    /\ UNCHANGED vars

Untimed ==
    /\ \/ \E p \in Producers : PushStep(p) \/ \E x \in Items : CallPush(p, x)
       \/ \E c \in Consumers : \/ PopTake(c) \/ PopThrows(c)
                               \/ \E k \in {"pop", "timedpop"} : CallPop(c, k)
       \/ \E t \in Threads : Spurious(t)
    /\ UNCHANGED <<left, elapsed>>

TimedNext ==
    \/ Untimed
    \/ Tick
    \/ \E c \in Consumers : TimedPopWait(c) \/ TimedPopTimesOut(c)

(* Beside tPCQ's fairness: time passes, and the system ends a wait whose   *)
(* abstime has come.                                                       *)
TimedFairness ==
    /\ \A p \in Producers : WF_timedVars(PushStep(p) /\ UNCHANGED <<left, elapsed>>)
    /\ \A c \in Consumers :
          /\ WF_timedVars(\/ TimedPopWait(c)
                          \/ (PopTake(c) \/ PopThrows(c)) /\ UNCHANGED <<left, elapsed>>)
          /\ WF_timedVars(TimedPopTimesOut(c))
    /\ WF_timedVars(Tick)

TimedSpec == TimedInit /\ [][TimedNext]_timedVars /\ TimedFairness
-----------------------------------------------------------------------------
TimedTypeOK ==
    /\ TypeOK
    /\ left \in [Consumers -> 0..timeoutMS]
    /\ elapsed \in [Consumers -> 0..(timeoutMS + 1)]

(* eQueueBlockingTimeoutExpired never comes early, however often the wait  *)
(* was interrupted.                                                        *)
NeverEarly == \A c \in Consumers : pc[c] = "expired" => elapsed[c] >= timeoutMS

(* A timed pop ends, with an item or by throwing, unless it is woken again *)
(* and again: every turn of its loop re-arms the whole timeout.            *)
TimedPopEnds ==
    \A c \in Consumers :
        <>[](pc[c] # "wokenSomething") => (call[c] = "timedpop" ~> call[c] = "none")

(* tPCQ.h, pop(u32 timeoutMS): "the calling thread will block until an     *)
(* item is available, or until 'timeoutMS' milliseconds pass". The wait a  *)
(* timed pop is in ends within timeoutMS of its first wait.                *)
DeadlineIsKept ==
    \A c \in Consumers :
        (pc[c] = "waitSomething" /\ call[c] = "timedpop") => elapsed[c] + left[c] <= timeoutMS
=============================================================================
