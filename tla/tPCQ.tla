------------------------------- MODULE tPCQ -------------------------------
(***************************************************************************)
(* The producer-consumer queue of include/rho/sync/tPCQ.h.                 *)
(*                                                                         *)
(* Every member is read and written under m_mutex only, so one action is   *)
(* one critical section: from taking the mutex (in tAutoLock's             *)
(* constructor, or on the way out of pthread_cond_wait) to giving it up    *)
(* (in tAutoLock's destructor, or on the way into pthread_cond_wait). The  *)
(* broadcast a section makes is part of it. The condition variables are    *)
(* the sets of threads whose pc names them; POSIX allows a wait to end     *)
(* with no broadcast at all (Spurious).                                    *)
(***************************************************************************)
EXTENDS Naturals, Sequences, FiniteSets

CONSTANTS
  Producers,  (* the threads that call push()                              *)
  Consumers,  (* the threads that call pop() or pop(timeoutMS)             *)
  Items,      (* the values of type T                                      *)
  NoItem,     (* not a value of type T                                     *)
  Capacity,   (* the constructor's capacity argument                       *)
  Behaviors,  (* the overflow behaviours a queue may be constructed with   *)
  U32,        (* the number of values of type u32: 2^32 in the code        *)
  Memory      (* bound: the items for which the heap has room              *)

AllBehaviors == {"kDiscard", "kBlock", "kGrow", "kThrow"}

ASSUME ThreadsAssumption == Producers \cap Consumers = {}
ASSUME ItemsAssumption == NoItem \notin Items
ASSUME BehaviorsAssumption == Behaviors \subseteq AllBehaviors
ASSUME NumbersAssumption ==
    /\ Capacity \in Nat \ {0}     \* tPCQ's constructor throws on zero
    /\ Memory \in Nat
    /\ U32 \in Nat
    /\ Capacity < U32
    /\ Memory < U32               \* no queue holds 2^32 items

VARIABLES
  m_behavior, m_size, m_capacity, m_queue,
  pc,    (* pc[t]: where thread t is; "out" when it is in no call          *)
  item,  (* item[p]: the argument of p's push; NoItem when in no call      *)
  call,  (* call[c]: which pop c is in: "none", "pop" or "timedpop"        *)
  got    (* got[c]: what c's last successful pop returned                  *)

queueVars == <<m_behavior, m_size, m_capacity, m_queue>>
vars == <<queueVars, pc, item, call, got>>

Threads == Producers \cup Consumers

\* pc values of a producer: in a push before its first look at m_size;
\* waiting on m_queueHasRoom; out of that wait but without the mutex yet.
ProducerPCs == {"out", "push", "waitRoom", "wokenRoom"}
\* And of a consumer; "expired" is a timed wait that ended in ETIMEDOUT.
ConsumerPCs == {"out", "pop", "waitSomething", "wokenSomething", "expired"}

(* u32 arithmetic.                                                         *)
Decrement(n) == IF n = 0 THEN U32 - 1 ELSE n - 1
Double(n) == IF 2 * n >= U32 THEN 2 * n - U32 ELSE 2 * n

Init ==
    /\ m_behavior \in Behaviors
    /\ m_size = 0
    /\ m_capacity = Capacity
    /\ m_queue = <<>>
    /\ pc = [t \in Threads |-> "out"]
    /\ item = [p \in Producers |-> NoItem]
    /\ call = [c \in Consumers |-> "none"]
    /\ got = [c \in Consumers |-> NoItem]
-----------------------------------------------------------------------------
(* pthread_cond_broadcast: every thread waiting on the condition goes on   *)
(* to ask for the mutex. An operator on pc, for the sections that end with *)
(* one; Signal is what pthread_cond_signal would do, for comparison.       *)
Signal(cond, woken) ==
    LET waiting == {t \in Threads : pc[t] = cond}
    IN IF waiting = {} THEN pc ELSE [pc EXCEPT ![CHOOSE t \in waiting : TRUE] = woken]

Broadcast(cond, woken) == [t \in Threads |-> IF pc[t] = cond THEN woken ELSE pc[t]]

PushReturns(p, pcs) ==
    /\ pc' = [pcs EXCEPT ![p] = "out"]
    /\ item' = [item EXCEPT ![p] = NoItem]

(* m_push, for a heap that has room for one more item.                     *)
m_push(p) ==
    /\ Len(m_queue) < Memory
    /\ m_queue' = Append(m_queue, item[p])
    /\ m_size' = m_size + 1
    /\ PushReturns(p, IF m_size' = 1 THEN Broadcast("waitSomething", "wokenSomething")
                                     ELSE pc)
    /\ UNCHANGED <<m_behavior, call, got>>

CallPush(p, x) ==
    /\ pc[p] = "out"
    /\ pc' = [pc EXCEPT ![p] = "push"]
    /\ item' = [item EXCEPT ![p] = x]
    /\ UNCHANGED <<queueVars, call, got>>

HasRoom == m_size < m_capacity

PushRoom(p) ==
    /\ pc[p] = "push" /\ HasRoom
    /\ m_push(p)
    /\ UNCHANGED m_capacity

(* kDiscard returns and kThrow throws eBufferOverflow: the caller's        *)
(* exception apart, the same.                                              *)
PushRefused(p) ==
    /\ pc[p] = "push" /\ ~HasRoom
    /\ m_behavior \in {"kDiscard", "kThrow"}
    /\ PushReturns(p, pc)
    /\ UNCHANGED <<queueVars, call, got>>

PushGrow(p) ==
    /\ pc[p] = "push" /\ ~HasRoom
    /\ m_behavior = "kGrow"
    /\ m_push(p)
    /\ m_capacity' = Double(m_capacity)

(* The loop `while (m_size == m_capacity)` of kBlock, entered from push or *)
(* on the way out of the wait.                                             *)
AtRoomLoop(p) ==
    \/ pc[p] = "push" /\ m_behavior = "kBlock" /\ ~HasRoom
    \/ pc[p] = "wokenRoom"

NoRoomTestedOnce(p) == pc[p] = "push" /\ m_size = m_capacity
NoRoom(p) == m_size = m_capacity

PushWait(p) ==
    /\ AtRoomLoop(p) /\ NoRoom(p)
    /\ pc' = [pc EXCEPT ![p] = "waitRoom"]
    /\ UNCHANGED <<queueVars, item, call, got>>

PushBlocked(p) ==
    /\ AtRoomLoop(p) /\ ~NoRoom(p)
    /\ m_push(p)
    /\ UNCHANGED m_capacity

(* m_queue.push throws std::bad_alloc; m_size is not touched yet.          *)
PushNoMemoryCounted(p) ==
    /\ Len(m_queue) = Memory /\ pc[p] = "push"
    /\ m_size' = m_size + 1
    /\ PushReturns(p, pc)
    /\ UNCHANGED <<m_behavior, m_capacity, m_queue, call, got>>

PushNoMemory(p) ==
    /\ Len(m_queue) = Memory
    /\ \/ pc[p] = "push" /\ (HasRoom \/ m_behavior = "kGrow")
       \/ AtRoomLoop(p) /\ ~NoRoom(p)
    /\ PushReturns(p, pc)
    /\ UNCHANGED <<queueVars, call, got>>
-----------------------------------------------------------------------------
CallPop(c, kind) ==
    /\ pc[c] = "out"
    /\ pc' = [pc EXCEPT ![c] = "pop"]
    /\ call' = [call EXCEPT ![c] = kind]
    /\ UNCHANGED <<queueVars, item, got>>

(* The loop `while (m_size == 0)` of both pops.                            *)
AtItemLoop(c) == pc[c] \in {"pop", "wokenSomething"}

PopWait(c) ==
    /\ AtItemLoop(c) /\ m_size = 0
    /\ pc' = [pc EXCEPT ![c] = "waitSomething"]
    /\ UNCHANGED <<queueVars, item, call, got>>

(* Whether this pop is the one that makes room: m_size has been            *)
(* decremented when the code compares it with m_capacity-1.                *)
MakesRoomIfFull(n) == n = m_capacity
MakesRoomIfEmpty(n) == n = 0
MakesRoom(n) == n = Decrement(m_capacity)

PopTake(c) ==
    /\ AtItemLoop(c) /\ m_size # 0
    /\ got' = [got EXCEPT ![c] = Head(m_queue)]
    /\ m_queue' = Tail(m_queue)
    /\ m_size' = m_size - 1
    /\ LET pcs == IF MakesRoom(m_size') THEN Broadcast("waitRoom", "wokenRoom") ELSE pc
       IN pc' = [pcs EXCEPT ![c] = "out"]
    /\ call' = [call EXCEPT ![c] = "none"]
    /\ UNCHANGED <<m_behavior, m_capacity, item>>

(* pthread_cond_timedwait gives up: the thread is no longer on the         *)
(* condition, but throws only when it has the mutex again, whatever m_size *)
(* is by then.                                                             *)
PopTimesOut(c) ==
    /\ pc[c] = "waitSomething" /\ call[c] = "timedpop"
    /\ pc' = [pc EXCEPT ![c] = "expired"]
    /\ UNCHANGED <<queueVars, item, call, got>>

PopThrows(c) ==
    /\ pc[c] = "expired"
    /\ pc' = [pc EXCEPT ![c] = "out"]
    /\ call' = [call EXCEPT ![c] = "none"]
    /\ UNCHANGED <<queueVars, item, got>>

Spurious(t) ==
    /\ \/ pc[t] = "waitRoom" /\ pc' = [pc EXCEPT ![t] = "wokenRoom"]
       \/ pc[t] = "waitSomething" /\ pc' = [pc EXCEPT ![t] = "wokenSomething"]
    /\ UNCHANGED <<queueVars, item, call, got>>
-----------------------------------------------------------------------------
PushStep(p) == PushRoom(p) \/ PushRefused(p) \/ PushGrow(p) \/ PushWait(p)
               \/ PushBlocked(p) \/ PushNoMemory(p)
PopStep(c) == PopWait(c) \/ PopTake(c) \/ PopThrows(c)

Next ==
    \/ \E p \in Producers : PushStep(p) \/ \E x \in Items : CallPush(p, x)
    \/ \E c \in Consumers : \/ PopStep(c) \/ PopTimesOut(c)
                            \/ \E k \in {"pop", "timedpop"} : CallPop(c, k)
    \/ \E t \in Threads : Spurious(t)

(* A thread that can take the mutex eventually does: m_mutex is held for a *)
(* few instructions at a time. Nobody has to call push or pop, and a timed *)
(* wait may go on for ever (its deadline is not part of this module).      *)
Fairness ==
    /\ \A p \in Producers : WF_vars(PushStep(p))
    /\ \A c \in Consumers : WF_vars(PopStep(c))

Spec == Init /\ [][Next]_vars /\ Fairness
-----------------------------------------------------------------------------
TypeOK ==
    /\ m_behavior \in Behaviors
    /\ m_size \in 0..Memory
    /\ m_capacity \in 0..(U32 - 1)
    /\ m_queue \in Seq(Items)
    /\ pc \in [Threads -> ProducerPCs \cup ConsumerPCs]
    /\ \A p \in Producers : pc[p] \in ProducerPCs
    /\ \A c \in Consumers : pc[c] \in ConsumerPCs
    /\ item \in [Producers -> Items \cup {NoItem}]
    /\ call \in [Consumers -> {"none", "pop", "timedpop"}]
    /\ got \in [Consumers -> Items \cup {NoItem}]

(* No wake-up is lost, although push broadcasts only when m_size becomes 1 *)
(* and pop only when it becomes m_capacity-1: whoever sleeps has nothing   *)
(* to do.                                                                  *)
NoLostWakeup ==
    /\ \A c \in Consumers : pc[c] = "waitSomething" => m_size = 0
    /\ \A p \in Producers : pc[p] = "waitRoom" => m_size = m_capacity

(* Pushers and poppers are never asleep at the same time.                  *)
NeverBothAsleep ==
    \A p \in Producers, c \in Consumers :
        ~(pc[p] = "waitRoom" /\ pc[c] = "waitSomething")

(* A queue that is not kGrow never holds more than its capacity, however   *)
(* many blocked pushers one pop wakes (tPCQ.h, the comment on capacity()). *)
WithinCapacity == m_behavior # "kGrow" => Len(m_queue) <= Capacity

(* tPCQ implements BoundedBuffer, whose fairness included: a pop for which *)
(* there stays an item returns, a push for which there stays room returns. *)
BB == INSTANCE BoundedBuffer WITH
          behavior <- m_behavior, buffer <- m_queue, offer <- item, request <- call
Implements == BB!Spec
=============================================================================
