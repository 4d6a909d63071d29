------------------------------ MODULE TaskPool ------------------------------
(***************************************************************************)
(* What tThreadPool promises (include/rho/sync/tThreadPool.h and its test):*)
(* every task handed to the pool before its destructor is called runs      *)
(* exactly once, and a wait on a task returns once that task has run.      *)
(* Threads, queue, keys and the two bookkeeping sets are gone.             *)
(***************************************************************************)
EXTENDS Naturals

CONSTANTS Clients,  (* the threads that wait for tasks                     *)
          Tasks,    (* the tasks, named by their key                       *)
          NoTask    (* a client that waits for nothing                     *)

VARIABLES status,   (* status[k]: how far task k has got                   *)
          waiting   (* waiting[c]: the task client c waits for             *)

vars == <<status, waiting>>

(* "late" is a task handed in when the pool is already being destroyed:    *)
(* it may run, and may not.                                                *)
Statuses == {"new", "accepted", "late", "running", "done"}

Init ==
    /\ status = [k \in Tasks |-> "new"]
    /\ waiting = [c \in Clients |-> NoTask]

Becomes(k, s) ==
    /\ status' = [status EXCEPT ![k] = s]
    /\ UNCHANGED waiting

Submit(k) == status[k] = "new" /\ \E s \in {"accepted", "late"} : Becomes(k, s)
Start(k) == status[k] \in {"accepted", "late"} /\ Becomes(k, "running")
Finish(k) == status[k] = "running" /\ Becomes(k, "done")

BeginWait(c, k) ==
    /\ waiting[c] = NoTask /\ status[k] # "new"
    /\ waiting' = [waiting EXCEPT ![c] = k]
    /\ UNCHANGED status

EndWait(c) ==
    /\ waiting[c] # NoTask /\ status[waiting[c]] = "done"
    /\ waiting' = [waiting EXCEPT ![c] = NoTask]
    /\ UNCHANGED status

Next ==
    \/ \E k \in Tasks : Submit(k) \/ Start(k) \/ Finish(k)
    \/ \E c \in Clients : EndWait(c) \/ \E k \in Tasks : BeginWait(c, k)

SafeSpec == Init /\ [][Next]_vars

(* An accepted task starts, a task that started ends, and a wait for a     *)
(* task that has run returns.                                              *)
Liveness ==
    /\ \A k \in Tasks : /\ WF_vars(status[k] = "accepted" /\ Start(k))
                        /\ WF_vars(Finish(k))
    /\ \A c \in Clients : WF_vars(EndWait(c))

Spec == SafeSpec /\ Liveness
=============================================================================
