---------------------------- MODULE tThreadPool ----------------------------
(***************************************************************************)
(* The thread pool of include/rho/sync/tThreadPool.h and                   *)
(* source/rho/sync/tThreadPool.cpp.                                        *)
(*                                                                         *)
(* m_queue is a tPCQ(8, kGrow), used here as what tPCQ is proved to        *)
(* implement: a push appends at one instant and never blocks, a pop takes  *)
(* the head at one instant and blocks on an empty queue. The other members *)
(* are guarded by m_completedMutex, and one action is one of its critical  *)
(* sections. A task is named by its key.                                   *)
(***************************************************************************)
EXTENDS Naturals, Sequences

CONSTANTS
  NumThreads,  (* the constructor's argument                               *)
  Clients,     (* the threads that push, wait and forget                   *)
  Owner,       (* the thread that calls the destructor                     *)
  MaxTasks,    (* bound: the keys that are given to tasks                  *)
  Contested    (* the keys that clients may both wait for and forget; any  *)
               (* other is settled once, by a wait or by a forget          *)

Workers == 1..NumThreads      \* worker w is m_threads[w-1]
TaskKeys == 1..MaxTasks
Keys == 1..(MaxTasks + NumThreads)  \* the destructor's pushes take keys too
NoKey == 0

ASSUME PoolAssumption ==
    /\ NumThreads \in Nat \ {0}   \* tThreadPool's constructor throws on zero
    /\ MaxTasks \in Nat
    /\ Clients \cap Workers = {} /\ Owner \notin Clients \cup Workers
    /\ Contested \subseteq TaskKeys

VARIABLES
  m_queue,      (* <<key, runnable>> pairs; runnable is "task" or "NULL"   *)
  m_nextKey, m_forgotten, m_completed,
  pc,           (* where each thread is                                    *)
  task,         (* task[w]: task.first in worker w's run()                 *)
  key,          (* key[t]: the key of the push or wait thread t is in      *)
  i,            (* the destructor's loop counter                           *)
  \* history
  handed,       (* keys of tasks that a push has returned                  *)
  waited,       (* keys on which wait has been called                      *)
  forgot,       (* keys on which forget has been called                    *)
  early,        (* the keys in handed when the destructor was called       *)
  ran           (* keys of tasks whose run() has ended                     *)

history == <<handed, waited, forgot, early, ran>>
vars == <<m_queue, m_nextKey, m_forgotten, m_completed, pc, task, key, i, history>>

Threads == Workers \cup Clients \cup {Owner}

WorkerPCs == {"pop", "run", "push", "add", "exited"}
ClientPCs == {"idle", "push", "wait", "asleep", "woken"}
OwnerPCs == {"alive", "pill", "push", "join", "destroyed"}

(* Where a thread is when it runs the user's code: between two calls of a  *)
(* client, or inside a task's run().                                       *)
Home(t) == IF t \in Workers THEN "run" ELSE "idle"

Init ==
    /\ m_queue = <<>>
    /\ m_nextKey = 1
    /\ m_forgotten = {} /\ m_completed = {}
    /\ pc = [t \in Threads |-> IF t \in Workers THEN "pop"
                               ELSE IF t = Owner THEN "alive" ELSE "idle"]
    /\ task = [w \in Workers |-> NoKey]
    /\ key = [t \in Threads |-> NoKey]
    /\ i = 0
    /\ handed = {} /\ waited = {} /\ forgot = {} /\ early = {} /\ ran = {}

(* Clients make no call once the destructor has been called; a task that   *)
(* is still running may.                                                   *)
MayCall(t) == pc[t] = Home(t) /\ (t \in Clients => pc[Owner] = "alive")
-----------------------------------------------------------------------------
(* m_push: the key is taken in one critical section, and the task goes     *)
(* into the queue later, after other pushes perhaps.                       *)
NextKeyPreincremented == m_nextKey + 1
NextKey == m_nextKey

m_incrementKeyUnlocked(t) ==
    /\ key' = [key EXCEPT ![t] = NextKey]
    /\ m_nextKey' \in {m_nextKey, m_nextKey + 1}

m_incrementKey(t) ==
    /\ key' = [key EXCEPT ![t] = NextKey]
    /\ m_nextKey' = m_nextKey + 1

Push(t) ==
    /\ MayCall(t) /\ m_nextKey <= MaxTasks
    /\ m_incrementKey(t)
    /\ pc' = [pc EXCEPT ![t] = "push"]
    /\ UNCHANGED <<m_queue, m_forgotten, m_completed, task, i, history>>

PushQueues(t) ==
    /\ pc[t] = "push"
    /\ m_queue' = Append(m_queue, <<key[t], "task">>)
    /\ handed' = handed \cup {key[t]}
    /\ pc' = [pc EXCEPT ![t] = Home(t)]
    /\ key' = [key EXCEPT ![t] = NoKey]
    /\ UNCHANGED <<m_nextKey, m_forgotten, m_completed, task, i, waited, forgot, early, ran>>

MaySettle(k, how) ==
    k \in handed \ how /\ (k \notin Contested => k \notin waited \cup forgot)

CallWait(c, k) ==
    /\ MayCall(c) /\ MaySettle(k, waited)
    /\ waited' = waited \cup {k}
    /\ pc' = [pc EXCEPT ![c] = "wait"]
    /\ key' = [key EXCEPT ![c] = k]
    /\ UNCHANGED <<m_queue, m_nextKey, m_forgotten, m_completed, task, i,
                   handed, forgot, early, ran>>

(* wait's loop is at its condition when the call starts and whenever       *)
(* pthread_cond_wait returns.                                              *)
AtLoop(c) == pc[c] \in {"wait", "woken"}

CompletedTestedOnce(c) == key[c] \in m_completed \/ pc[c] = "woken"
Completed(c) == key[c] \in m_completed

Leave(c) ==
    /\ pc' = [pc EXCEPT ![c] = "idle"]
    /\ key' = [key EXCEPT ![c] = NoKey]
    /\ UNCHANGED <<m_queue, m_nextKey, m_forgotten, task, i, history>>

WaitReturns(c) ==
    /\ AtLoop(c) /\ Completed(c)
    /\ m_completed' = m_completed \ {key[c]}
    /\ Leave(c)

(* "Don't wait on a key you've forgotten!"                                 *)
WaitThrows(c) ==
    /\ AtLoop(c) /\ ~Completed(c) /\ key[c] \in m_forgotten
    /\ UNCHANGED m_completed
    /\ Leave(c)

WaitSleeps(c) ==
    /\ AtLoop(c) /\ ~Completed(c) /\ key[c] \notin m_forgotten
    /\ pc' = [pc EXCEPT ![c] = "asleep"]
    /\ UNCHANGED <<m_queue, m_nextKey, m_forgotten, m_completed, task, key, i, history>>

(* POSIX lets a wait on a condition end by itself.                         *)
Spurious(c) ==
    /\ pc[c] = "asleep"
    /\ pc' = [pc EXCEPT ![c] = "woken"]
    /\ UNCHANGED <<m_queue, m_nextKey, m_forgotten, m_completed, task, key, i, history>>

Forget(c, k) ==
    /\ MayCall(c) /\ MaySettle(k, forgot)
    /\ forgot' = forgot \cup {k}
    /\ IF k \in m_completed
         THEN m_completed' = m_completed \ {k} /\ UNCHANGED m_forgotten
         ELSE m_forgotten' = m_forgotten \cup {k} /\ UNCHANGED m_completed
    /\ UNCHANGED <<m_queue, m_nextKey, pc, task, key, i,
                   handed, waited, early, ran>>
-----------------------------------------------------------------------------
(* tWorker::run.                                                           *)
PopTask(w) ==
    /\ pc[w] = "pop" /\ m_queue # <<>> /\ Head(m_queue)[2] # "NULL"
    /\ m_queue' = Tail(m_queue)
    /\ task' = [task EXCEPT ![w] = Head(m_queue)[1]]
    /\ pc' = [pc EXCEPT ![w] = "run"]
    /\ UNCHANGED <<m_nextKey, m_forgotten, m_completed, key, i, history>>

PopNull(w) ==
    /\ pc[w] = "pop" /\ m_queue # <<>> /\ Head(m_queue)[2] = "NULL"
    /\ m_queue' = Tail(m_queue)
    /\ pc' = [pc EXCEPT ![w] = "exited"]
    /\ UNCHANGED <<m_nextKey, m_forgotten, m_completed, task, key, i, history>>

(* The task's run() returns or throws: what it throws is caught.           *)
TaskEnds(w) ==
    /\ pc[w] = "run"
    /\ ran' = ran \cup {task[w]}
    /\ pc' = [pc EXCEPT ![w] = "add"]
    /\ UNCHANGED <<m_queue, m_nextKey, m_forgotten, m_completed, task, key, i,
                   handed, waited, forgot, early>>

WakeOne(w) ==
    \/ \E c \in Clients : pc[c] = "asleep" /\ pc' = [pc EXCEPT ![c] = "woken", ![w] = "pop"]
    \/ (\A c \in Clients : pc[c] # "asleep") /\ pc' = [pc EXCEPT ![w] = "pop"]
WakeAll(w) ==
    pc' = [t \in Threads |-> IF t = w THEN "pop"
                             ELSE IF pc[t] = "asleep" THEN "woken" ELSE pc[t]]

m_addToCompletedKeepsMark(w) ==
    /\ pc[w] = "add"
    /\ IF task[w] \in m_forgotten
         THEN UNCHANGED <<m_forgotten, m_completed>> /\ pc' = [pc EXCEPT ![w] = "pop"]
         ELSE m_completed' = m_completed \cup {task[w]} /\ WakeAll(w) /\ UNCHANGED m_forgotten
    /\ task' = [task EXCEPT ![w] = NoKey]
    /\ UNCHANGED <<m_queue, m_nextKey, key, i, history>>

m_addToCompleted(w) ==
    /\ pc[w] = "add"
    /\ IF task[w] \in m_forgotten
         THEN /\ m_forgotten' = m_forgotten \ {task[w]}
              /\ pc' = [pc EXCEPT ![w] = "pop"]
              /\ UNCHANGED m_completed
         ELSE /\ m_completed' = m_completed \cup {task[w]}
              /\ WakeAll(w)
              /\ UNCHANGED m_forgotten
    /\ task' = [task EXCEPT ![w] = NoKey]
    /\ UNCHANGED <<m_queue, m_nextKey, key, i, history>>
-----------------------------------------------------------------------------
(* ~tThreadPool: called when no client is in a call; tasks may be running. *)
DtorBegins ==
    /\ pc[Owner] = "alive" /\ \A c \in Clients : pc[c] = "idle"
    /\ early' = handed
    /\ pc' = [pc EXCEPT ![Owner] = "pill"]
    /\ UNCHANGED <<m_queue, m_nextKey, m_forgotten, m_completed, task, key, i,
                   handed, waited, forgot, ran>>

DtorTakesKey ==
    /\ pc[Owner] = "pill"
    /\ m_incrementKey(Owner)
    /\ pc' = [pc EXCEPT ![Owner] = "push"]
    /\ UNCHANGED <<m_queue, m_forgotten, m_completed, task, i, history>>

AllPilledTooSoon(n) == n >= NumThreads - 1
AllPilled(n) == n >= NumThreads

DtorQueuesNull ==
    /\ pc[Owner] = "push"
    /\ m_queue' = Append(m_queue, <<key[Owner], "NULL">>)
    /\ key' = [key EXCEPT ![Owner] = NoKey]
    /\ i' = IF AllPilled(i + 1) THEN 0 ELSE i + 1
    /\ pc' = [pc EXCEPT ![Owner] = IF AllPilled(i + 1) THEN "join" ELSE "pill"]
    /\ UNCHANGED <<m_nextKey, m_forgotten, m_completed, task, history>>

AllJoinedTooSoon(n) == n >= NumThreads - 1
AllJoined(n) == n >= NumThreads

(* m_threads[i]->join() returns when worker i+1's run() has returned.      *)
DtorJoins ==
    /\ pc[Owner] = "join" /\ pc[i + 1] = "exited"
    /\ i' = i + 1
    /\ pc' = [pc EXCEPT ![Owner] = IF AllJoined(i + 1) THEN "destroyed" ELSE "join"]
    /\ UNCHANGED <<m_queue, m_nextKey, m_forgotten, m_completed, task, key, history>>
-----------------------------------------------------------------------------
WaitStep(c) == WaitReturns(c) \/ WaitThrows(c) \/ WaitSleeps(c)
WorkerStep(w) == PopTask(w) \/ PopNull(w) \/ TaskEnds(w) \/ m_addToCompleted(w)
DtorStep == DtorTakesKey \/ DtorQueuesNull \/ DtorJoins

Next ==
    \/ \E t \in Workers \cup Clients : Push(t) \/ PushQueues(t)
    \/ \E c \in Clients : \/ WaitStep(c) \/ Spurious(c)
                          \/ \E k \in TaskKeys : CallWait(c, k) \/ Forget(c, k)
    \/ \E w \in Workers : WorkerStep(w)
    \/ DtorBegins \/ DtorStep

(* Whoever can take a mutex, or pop from a queue that is not empty,        *)
(* eventually does; and a task ends. Nobody has to make a call.            *)
Fairness ==
    /\ \A w \in Workers : WF_vars(WorkerStep(w) \/ PushQueues(w))
    /\ \A c \in Clients : WF_vars(WaitStep(c) \/ PushQueues(c))
    /\ WF_vars(DtorStep)

Spec == Init /\ [][Next]_vars /\ Fairness
-----------------------------------------------------------------------------
TypeOK ==
    /\ m_queue \in Seq(Keys \X {"task", "NULL"})
    /\ m_nextKey \in 1..(MaxTasks + NumThreads + 1)
    /\ m_forgotten \subseteq handed /\ m_completed \subseteq handed
    /\ pc \in [Threads -> WorkerPCs \cup ClientPCs \cup OwnerPCs]
    /\ \A w \in Workers : pc[w] \in WorkerPCs
    /\ \A c \in Clients : pc[c] \in ClientPCs
    /\ pc[Owner] \in OwnerPCs
    /\ task \in [Workers -> Keys \cup {NoKey}]
    /\ key \in [Threads -> 0..(m_nextKey - 1)]
    /\ i \in 0..NumThreads
    /\ handed \subseteq 1..(m_nextKey - 1)
    /\ waited \subseteq handed /\ forgot \subseteq handed
    /\ early \subseteq handed /\ ran \subseteq Keys

(* m_addToCompleted broadcasts only when it inserts, and tests nothing:    *)
(* nobody sleeps in wait() on a key that is in m_completed.                *)
NoLostWakeup == \A c \in Clients : pc[c] = "asleep" => key[c] \notin m_completed

(* Keys settled once: m_completed holds those whose task ran with nobody   *)
(* having asked yet, m_forgotten those forgotten before their task ran.    *)
(* Nothing else, so neither set grows in a pool that lives long.           *)
Waiting(c) == pc[c] \in {"wait", "asleep", "woken"}
Returned == {k \in waited : \A c \in Clients : ~(Waiting(c) /\ key[c] = k)}
Added == {k \in ran : \A w \in Workers : task[w] # k}
Bookkeeping ==
    /\ m_completed \ Contested = Added \ (Returned \cup forgot \cup Contested)
    /\ m_forgotten \ Contested = forgot \ (Added \cup Contested)

(* A task runs at most once: no two workers hold the same key, a key that  *)
(* is held or has run is not in the queue any more, and the task a worker  *)
(* is running has not run before.                                          *)
QueuedTasks == {m_queue[n][1] : n \in {m \in DOMAIN m_queue : m_queue[m][2] = "task"}}
Held == {task[w] : w \in Workers} \ {NoKey}
RunsOnce ==
    /\ \A v, w \in Workers : task[v] = task[w] /\ task[v] # NoKey => v = w
    /\ QueuedTasks \cap (Held \cup ran) = {}
    /\ \A w \in Workers : pc[w] \in {"run", "push"} => task[w] \notin ran

(* When the destructor returns, every worker is gone and every task that   *)
(* was pushed before it was called has run.                                *)
DestroyedAfterAllRan ==
    pc[Owner] = "destroyed" => early \subseteq ran /\ \A w \in Workers : pc[w] = "exited"

(* The destructor returns.                                                 *)
DestructorEnds == pc[Owner] = "pill" ~> pc[Owner] = "destroyed"

(* tThreadPool.cpp, wait(): "Don't wait on a key you've forgotten!". Who   *)
(* waits on a forgotten key is told, and does not wait for ever.           *)
ForgottenWaitEnds ==
    \A c \in Clients, k \in Keys :
        (Waiting(c) /\ key[c] = k /\ k \in forgot) ~> ~Waiting(c)

(* tThreadPool implements TaskPool. A task is submitted when it is in the  *)
(* queue, and running until its run() ends. What TaskPool says of waits is *)
(* promised for keys that are settled once.                                *)
Status(k) ==
    CASE k \in ran -> "done"
      [] k \notin ran /\ k \in Held -> "running"
      [] k \in QueuedTasks -> IF pc[Owner] = "alive" \/ k \in early THEN "accepted" ELSE "late"
      [] OTHER -> "new"

TP == INSTANCE TaskPool WITH
          Tasks <- TaskKeys, NoTask <- NoKey,
          status <- [k \in TaskKeys |-> Status(k)],
          waiting <- [c \in Clients |-> IF Waiting(c) /\ key[c] \notin Contested
                                        THEN key[c] ELSE NoKey]
Implements == TP!Spec
=============================================================================
