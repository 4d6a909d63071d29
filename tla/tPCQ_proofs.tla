---------------------------- MODULE tPCQ_proofs ----------------------------
(***************************************************************************)
(* tPCQ's safety, for every number of threads, every capacity and every    *)
(* overflow behaviour: its invariants, and that each of its steps is a     *)
(* step of BoundedBuffer or changes nothing the callers can see. The same  *)
(* follows for tPCQTimed, where the timed pop has a clock.                 *)
(***************************************************************************)
EXTENDS tPCQTimed, SequenceTheorems, TLAPS

(* What relates the members to one another and to where the threads are.   *)
Members ==
    /\ m_size = Len(m_queue)
    /\ m_behavior # "kGrow" => m_capacity = Capacity

Calls ==
    /\ \A p \in Producers :
          /\ pc[p] = "out" <=> item[p] = NoItem
          /\ pc[p] \in {"waitRoom", "wokenRoom"} => m_behavior = "kBlock"
    /\ \A c \in Consumers :
          /\ pc[c] = "out" <=> call[c] = "none"
          /\ pc[c] = "expired" => call[c] = "timedpop"

(* The inductive invariant.                                                *)
QueueInv == TypeOK /\ Members /\ Calls /\ NoLostWakeup /\ WithinCapacity

USE DEF Threads, ProducerPCs, ConsumerPCs, AllBehaviors

-----------------------------------------------------------------------------
LEMMA InitQueueInv == Init => QueueInv
  BY ThreadsAssumption, ItemsAssumption, NumbersAssumption
     DEF Init, QueueInv, TypeOK, Members, Calls, NoLostWakeup, WithinCapacity

(* What m_push does to the invariant, for each of the sections that call   *)
(* it: they differ in the capacity they leave and in why there is room.    *)
LEMMA PushKeepsInv ==
  ASSUME QueueInv, NEW p \in Producers, pc[p] # "out", m_push(p),
         m_capacity' \in 0..(U32 - 1),
         m_behavior # "kGrow" => m_size < m_capacity /\ m_capacity' = m_capacity
  PROVE  QueueInv'
<1> USE ThreadsAssumption, ItemsAssumption, NumbersAssumption
<1>1. item[p] \in Items /\ m_queue \in Seq(Items) /\ Len(m_queue) \in Nat
  BY DEF QueueInv, TypeOK, Calls
<1>2. m_queue' \in Seq(Items) /\ Len(m_queue') = Len(m_queue) + 1
  BY <1>1, AppendProperties DEF m_push
<1>3. m_size' = m_size + 1 /\ m_size' \in 0..Memory
  BY <1>1 DEF QueueInv, TypeOK, Members, m_push
<1>4. TypeOK'
  BY <1>2, <1>3 DEF QueueInv, TypeOK, m_push, PushReturns, Broadcast
<1>5. Members'
  BY <1>2, <1>3 DEF QueueInv, TypeOK, Members, m_push
<1>6. Calls'
  BY DEF QueueInv, TypeOK, Calls, m_push, PushReturns, Broadcast
<1>7. NoLostWakeup'
  <2>1. \A c \in Consumers : pc'[c] # "waitSomething"
    BY <1>3 DEF QueueInv, TypeOK, NoLostWakeup, m_push, PushReturns, Broadcast
  <2>2. \A q \in Producers : pc'[q] # "waitRoom"
    BY <1>3 DEF QueueInv, TypeOK, Calls, NoLostWakeup, m_push, PushReturns, Broadcast
  <2> QED BY <2>1, <2>2 DEF NoLostWakeup
<1>8. WithinCapacity'
  BY <1>2 DEF QueueInv, TypeOK, Members, WithinCapacity, m_push
<1> QED BY <1>4, <1>5, <1>6, <1>7, <1>8 DEF QueueInv

(* The sections that leave the queue alone and move one thread.            *)
LEMMA QuietStepKeepsInv ==
  ASSUME QueueInv, UNCHANGED queueVars,
         TypeOK', Calls',
         \A c \in Consumers : pc'[c] = "waitSomething" =>
                                 m_size = 0 \/ pc[c] = "waitSomething",
         \A p \in Producers : pc'[p] = "waitRoom" =>
                                 m_size = m_capacity \/ pc[p] = "waitRoom"
  PROVE  QueueInv'
  BY DEF QueueInv, Members, NoLostWakeup, WithinCapacity, queueVars

LEMMA PushStepKeepsInv ==
  ASSUME QueueInv, NEW p \in Producers, PushStep(p)
  PROVE  QueueInv'
<1> USE ThreadsAssumption, ItemsAssumption, NumbersAssumption
<1>1. CASE PushRoom(p)
  BY <1>1, PushKeepsInv DEF PushRoom, HasRoom, QueueInv, TypeOK
<1>2. CASE PushRefused(p)
  <2>1. TypeOK' /\ Calls'
    BY <1>2 DEF PushRefused, PushReturns, queueVars, QueueInv, TypeOK, Calls
  <2> QED BY <1>2, <2>1, QuietStepKeepsInv DEF PushRefused, PushReturns, QueueInv, TypeOK
<1>3. CASE PushGrow(p)
  <2>1. m_capacity' \in 0..(U32 - 1)
    BY <1>3 DEF PushGrow, Double, QueueInv, TypeOK
  <2> QED BY <1>3, <2>1, PushKeepsInv DEF PushGrow
<1>4. CASE PushWait(p)
  <2>1. m_behavior = "kBlock" /\ m_size = m_capacity /\ pc[p] # "out"
    BY <1>4 DEF PushWait, AtRoomLoop, NoRoom, QueueInv, Calls
  <2>2. TypeOK' /\ Calls'
    BY <1>4, <2>1 DEF PushWait, queueVars, QueueInv, TypeOK, Calls
  <2> QED BY <1>4, <2>1, <2>2, QuietStepKeepsInv DEF PushWait, QueueInv, TypeOK
<1>5. CASE PushBlocked(p)
  <2>1. m_behavior = "kBlock" /\ m_size # m_capacity /\ pc[p] # "out"
    BY <1>5 DEF PushBlocked, AtRoomLoop, NoRoom, QueueInv, Calls
  <2>2. m_size < m_capacity
    BY <2>1 DEF QueueInv, TypeOK, Members, WithinCapacity
  <2> QED BY <1>5, <2>1, <2>2, PushKeepsInv DEF PushBlocked, QueueInv, TypeOK
<1>6. CASE PushNoMemory(p)
  <2>1. TypeOK' /\ Calls'
    BY <1>6 DEF PushNoMemory, PushReturns, queueVars, QueueInv, TypeOK, Calls
  <2> QED BY <1>6, <2>1, QuietStepKeepsInv DEF PushNoMemory, PushReturns, QueueInv, TypeOK
<1> QED BY <1>1, <1>2, <1>3, <1>4, <1>5, <1>6 DEF PushStep

(* A pop that leaves with an item wakes every blocked pusher if it is the  *)
(* one that made room; otherwise no pusher was asleep.                     *)
LEMMA PopTakeKeepsInv ==
  ASSUME QueueInv, NEW c \in Consumers, PopTake(c)
  PROVE  QueueInv'
<1> USE ThreadsAssumption, ItemsAssumption, NumbersAssumption
<1> USE DEF PopTake
<1>1. m_queue \in Seq(Items) /\ m_queue # <<>> /\ m_size = Len(m_queue) /\ m_size \in Nat \ {0}
  BY EmptySeq DEF QueueInv, TypeOK, Members
<1>2. /\ Head(m_queue) \in Items
      /\ Tail(m_queue) \in Seq(Items)
      /\ Len(Tail(m_queue)) = Len(m_queue) - 1
  BY <1>1, HeadTailProperties
<1>3. /\ pc'[c] = "out"
      /\ \A t \in Threads \ {c} : \/ pc'[t] = pc[t]
                                  \/ pc[t] = "waitRoom" /\ pc'[t] = "wokenRoom"
      /\ MakesRoom(m_size') => \A p \in Producers : pc'[p] # "waitRoom"
  BY DEF Broadcast, QueueInv, TypeOK
<1>4. DOMAIN pc' = Threads /\ pc' = [t \in Threads |-> pc'[t]]
  BY DEF Broadcast, QueueInv, TypeOK
<1>5. TypeOK'
  <2>1. /\ \A p \in Producers : pc'[p] \in ProducerPCs
        /\ \A d \in Consumers : pc'[d] \in ConsumerPCs
    BY <1>3 DEF QueueInv, TypeOK
  <2>2. pc' \in [Threads -> ProducerPCs \cup ConsumerPCs]
    BY <1>4, <2>1
  <2>3. m_size' \in 0..Memory
    BY <1>1 DEF QueueInv, TypeOK
  <2> QED BY <1>2, <2>1, <2>2, <2>3 DEF QueueInv, TypeOK
<1>6. Members'
  BY <1>1, <1>2 DEF QueueInv, Members
<1>7. Calls'
  <2>1. \A p \in Producers :
           /\ pc'[p] = "out" <=> item'[p] = NoItem
           /\ pc'[p] \in {"waitRoom", "wokenRoom"} => m_behavior' = "kBlock"
    BY <1>3 DEF QueueInv, Calls
  <2>2. \A d \in Consumers :
           /\ pc'[d] = "out" <=> call'[d] = "none"
           /\ pc'[d] = "expired" => call'[d] = "timedpop"
    BY <1>3 DEF QueueInv, Calls, TypeOK
  <2> QED BY <2>1, <2>2 DEF Calls
<1>8. NoLostWakeup'
  <2>1. \A d \in Consumers : pc'[d] # "waitSomething"
    BY <1>1, <1>3 DEF QueueInv, NoLostWakeup
  <2>2. ASSUME NEW p \in Producers, pc'[p] = "waitRoom" PROVE FALSE
    <3>1. pc[p] = "waitRoom" /\ ~MakesRoom(m_size')
      BY <1>3, <2>2
    <3>2. m_size = m_capacity /\ m_capacity \in Nat
      BY <3>1 DEF QueueInv, NoLostWakeup, TypeOK
    <3> QED BY <1>1, <3>1, <3>2 DEF MakesRoom, Decrement
  <2> QED BY <2>1, <2>2 DEF NoLostWakeup
<1>9. WithinCapacity'
  BY <1>1, <1>2 DEF QueueInv, WithinCapacity
<1> QED BY <1>5, <1>6, <1>7, <1>8, <1>9 DEF QueueInv

LEMMA PopStepKeepsInv ==
  ASSUME QueueInv, NEW c \in Consumers, PopStep(c) \/ PopTimesOut(c)
  PROVE  QueueInv'
<1> USE ThreadsAssumption, ItemsAssumption, NumbersAssumption
<1>1. CASE PopWait(c)
  <2>1. TypeOK' /\ Calls'
    BY <1>1 DEF PopWait, AtItemLoop, queueVars, QueueInv, TypeOK, Calls
  <2> QED BY <1>1, <2>1, QuietStepKeepsInv DEF PopWait, QueueInv, TypeOK
<1>2. CASE PopTake(c)
  BY <1>2, PopTakeKeepsInv
<1>3. CASE PopTimesOut(c)
  <2>1. TypeOK' /\ Calls'
    BY <1>3 DEF PopTimesOut, queueVars, QueueInv, TypeOK, Calls
  <2> QED BY <1>3, <2>1, QuietStepKeepsInv DEF PopTimesOut, QueueInv, TypeOK
<1>4. CASE PopThrows(c)
  <2>1. TypeOK' /\ Calls'
    BY <1>4 DEF PopThrows, queueVars, QueueInv, TypeOK, Calls
  <2> QED BY <1>4, <2>1, QuietStepKeepsInv DEF PopThrows, QueueInv, TypeOK
<1> QED BY <1>1, <1>2, <1>3, <1>4 DEF PopStep

LEMMA CallKeepsInv ==
  ASSUME QueueInv,
         \/ \E p \in Producers, x \in Items : CallPush(p, x)
         \/ \E c \in Consumers, k \in {"pop", "timedpop"} : CallPop(c, k)
  PROVE  QueueInv'
<1> USE ThreadsAssumption, ItemsAssumption, NumbersAssumption
<1>1. ASSUME NEW p \in Producers, NEW x \in Items, CallPush(p, x) PROVE QueueInv'
  <2>1. TypeOK' /\ Calls'
    BY <1>1 DEF CallPush, queueVars, QueueInv, TypeOK, Calls
  <2> QED BY <1>1, <2>1, QuietStepKeepsInv DEF CallPush, QueueInv, TypeOK
<1>2. ASSUME NEW c \in Consumers, NEW k \in {"pop", "timedpop"}, CallPop(c, k) PROVE QueueInv'
  <2>1. TypeOK' /\ Calls'
    BY <1>2 DEF CallPop, queueVars, QueueInv, TypeOK, Calls
  <2> QED BY <1>2, <2>1, QuietStepKeepsInv DEF CallPop, QueueInv, TypeOK
<1> QED BY <1>1, <1>2

LEMMA SpuriousKeepsInv ==
  ASSUME QueueInv, NEW t \in Threads, Spurious(t)
  PROVE  QueueInv'
<1> USE ThreadsAssumption, ItemsAssumption, NumbersAssumption
<1>1. TypeOK' /\ Calls'
  BY DEF Spurious, queueVars, QueueInv, TypeOK, Calls
<1> QED BY <1>1, QuietStepKeepsInv DEF Spurious, QueueInv, TypeOK

LEMMA NextKeepsInv == QueueInv /\ [Next]_vars => QueueInv'
<1> SUFFICES ASSUME QueueInv, [Next]_vars PROVE QueueInv' OBVIOUS
<1>1. CASE Next
  BY <1>1, PushStepKeepsInv, PopStepKeepsInv, CallKeepsInv, SpuriousKeepsInv DEF Next
<1>2. CASE UNCHANGED vars
  BY <1>2 DEF vars, queueVars, QueueInv, TypeOK, Members, Calls, NoLostWakeup, WithinCapacity
<1> QED BY <1>1, <1>2

LEMMA SpecQueueInv == Spec => []QueueInv
  BY InitQueueInv, NextKeepsInv, PTL DEF Spec
-----------------------------------------------------------------------------
(* Every variable keeps its type: in particular m_size never exceeds the   *)
(* items there is memory for, and m_capacity stays a u32.                  *)
THEOREM TypeCorrect == Spec => []TypeOK
<1>1. QueueInv => TypeOK BY DEF QueueInv
<1> QED BY <1>1, SpecQueueInv, PTL

(* Broadcasting only when m_size becomes 1 (push) or m_capacity-1 (pop)    *)
(* loses no wake-up: no popper sleeps on a queue with an item, no pusher   *)
(* on a queue that is not exactly full.                                    *)
THEOREM WakeupsAreNotLost == Spec => []NoLostWakeup
<1>1. QueueInv => NoLostWakeup BY DEF QueueInv
<1> QED BY <1>1, SpecQueueInv, PTL

(* Pushers and poppers are never asleep together. It takes a capacity that *)
(* is not 0: a sleeping pusher's queue is kBlock and so has the capacity   *)
(* it was constructed with.                                                *)
THEOREM NeverAsleepTogether == Spec => []NeverBothAsleep
<1>1. QueueInv => NeverBothAsleep
  BY NumbersAssumption
     DEF QueueInv, Members, Calls, NoLostWakeup, NeverBothAsleep
<1> QED BY <1>1, SpecQueueInv, PTL

(* A queue that does not grow never holds more than its capacity.          *)
THEOREM CapacityIsKept == Spec => []WithinCapacity
<1>1. QueueInv => WithinCapacity BY DEF QueueInv
<1> QED BY <1>1, SpecQueueInv, PTL
-----------------------------------------------------------------------------
(* The simulation: what each section is in BoundedBuffer.                  *)
LEMMA PushStepSimulates ==
  ASSUME QueueInv, NEW p \in Producers, PushStep(p)
  PROVE  BB!Accept(p) \/ BB!Refuse(p) \/ UNCHANGED BB!vars
<1> USE ThreadsAssumption, ItemsAssumption, NumbersAssumption
<1>0. m_size = Len(m_queue) /\ (m_behavior # "kGrow" => m_capacity = Capacity) /\ m_size \in Nat
  BY DEF QueueInv, Members, TypeOK
<1>1. ASSUME m_push(p), pc[p] # "out",
             m_behavior # "kGrow" => m_size < m_capacity
      PROVE  BB!Accept(p)
  <2>1. item[p] # NoItem
    BY <1>1 DEF QueueInv, Calls
  <2>2. ~BB!Full \/ m_behavior = "kGrow"
    BY <1>0, <1>1 DEF BB!Full
  <2> QED BY <1>1, <2>1, <2>2 DEF BB!Accept, m_push, PushReturns
<1>2. CASE PushRoom(p)
  BY <1>1, <1>2 DEF PushRoom, HasRoom
<1>3. CASE PushRefused(p)
  <2>1. item[p] # NoItem
    BY <1>3 DEF PushRefused, QueueInv, Calls
  <2>2. BB!Full
    BY <1>0, <1>3 DEF BB!Full, PushRefused, HasRoom
  <2> QED BY <1>3, <2>1, <2>2 DEF BB!Refuse, PushRefused, PushReturns, queueVars
<1>4. CASE PushGrow(p)
  BY <1>1, <1>4 DEF PushGrow
<1>5. CASE PushWait(p)
  BY <1>5 DEF PushWait, BB!vars, queueVars
<1>6. CASE PushBlocked(p)
  <2>1. pc[p] # "out" /\ m_behavior = "kBlock" /\ m_size # m_capacity
    BY <1>6 DEF PushBlocked, AtRoomLoop, NoRoom, QueueInv, Calls
  <2>2. m_size < m_capacity
    BY <1>0, <2>1 DEF QueueInv, WithinCapacity
  <2> QED BY <1>1, <1>6, <2>1, <2>2 DEF PushBlocked
<1>7. CASE PushNoMemory(p)
  <2>1. item[p] # NoItem /\ Len(m_queue) = Memory
    BY <1>7 DEF PushNoMemory, AtRoomLoop, QueueInv, Calls
  <2> QED BY <1>7, <2>1 DEF BB!Refuse, PushNoMemory, PushReturns, queueVars
<1> QED BY <1>2, <1>3, <1>4, <1>5, <1>6, <1>7 DEF PushStep

LEMMA PopStepSimulates ==
  ASSUME QueueInv, NEW c \in Consumers, PopStep(c) \/ PopTimesOut(c)
  PROVE  BB!Deliver(c) \/ BB!Expire(c) \/ UNCHANGED BB!vars
<1>1. CASE PopWait(c) \/ PopTimesOut(c)
  BY <1>1 DEF PopWait, PopTimesOut, BB!vars, queueVars
<1>2. CASE PopTake(c)
  <2>1. call[c] # "none"
    BY <1>2 DEF PopTake, AtItemLoop, QueueInv, Calls
  <2>2. m_queue # <<>>
    BY <1>2 DEF PopTake, QueueInv, Members
  <2> QED BY <1>2, <2>1, <2>2 DEF PopTake, BB!Deliver
<1>3. CASE PopThrows(c)
  BY <1>3 DEF PopThrows, QueueInv, Calls, BB!Expire, queueVars
<1> QED BY <1>1, <1>2, <1>3 DEF PopStep

LEMMA NextSimulates == QueueInv /\ [Next]_vars => [BB!Next]_(BB!vars)
<1> SUFFICES ASSUME QueueInv, Next PROVE BB!Next \/ UNCHANGED BB!vars
  BY DEF vars, queueVars, BB!vars
<1>1. ASSUME NEW p \in Producers, PushStep(p) PROVE BB!Next \/ UNCHANGED BB!vars
  BY <1>1, PushStepSimulates DEF BB!Next
<1>2. ASSUME NEW c \in Consumers, PopStep(c) \/ PopTimesOut(c)
      PROVE  BB!Next \/ UNCHANGED BB!vars
  BY <1>2, PopStepSimulates DEF BB!Next
<1>3. ASSUME NEW p \in Producers, NEW x \in Items, CallPush(p, x) PROVE BB!Offer(p, x)
  BY <1>3 DEF CallPush, BB!Offer, QueueInv, Calls, queueVars
<1>4. ASSUME NEW c \in Consumers, NEW k \in {"pop", "timedpop"}, CallPop(c, k)
      PROVE  BB!Request(c, k)
  BY <1>4 DEF CallPop, BB!Request, QueueInv, Calls, queueVars
<1>5. ASSUME NEW t \in Threads, Spurious(t) PROVE UNCHANGED BB!vars
  BY <1>5 DEF Spurious, BB!vars, queueVars
<1> QED BY <1>1, <1>2, <1>3, <1>4, <1>5 DEF Next, BB!Next

(* tPCQ implements the safety of BoundedBuffer: pushes and pops take       *)
(* effect one at a time, in FIFO order, no item lost or returned twice,    *)
(* and a push is refused only on a full queue or for want of memory.       *)
THEOREM ImplementsSafety == Spec => BB!SafeSpec
<1>1. Init => BB!Init
  BY DEF Init, BB!Init
<1> QED BY <1>1, NextSimulates, SpecQueueInv, PTL DEF Spec, BB!SafeSpec

-----------------------------------------------------------------------------
(* The clock of the timed pop, for every timeout and every number of       *)
(* threads. tPCQ's invariant goes on to hold, because each timed action is *)
(* one of tPCQ's or leaves the queue alone.                                *)

Times ==
    /\ left \in [Consumers -> 0..timeoutMS]
    /\ elapsed \in [Consumers -> 0..(timeoutMS + 1)]

(* What is left of a timed wait and what has passed since the first one    *)
(* are together at least the timeout: re-arming on every turn only adds.   *)
WaitsAreLong ==
    \A c \in Consumers :
        pc[c] = "waitSomething" /\ call[c] = "timedpop" => left[c] + elapsed[c] >= timeoutMS

(* The inductive invariant.                                                *)
ClockInv == QueueInv /\ Times /\ WaitsAreLong /\ NeverEarly

LEMMA TimedNextIsNext == TimedNext => [Next]_vars
  BY DEF TimedNext, Untimed, TimedPopWait, TimedPopTimesOut, Tick, Next, PopStep

LEMMA InitClockInv == TimedInit => ClockInv
<1> SUFFICES ASSUME TimedInit PROVE ClockInv
  OBVIOUS
<1>1. QueueInv
  BY InitQueueInv DEF TimedInit
<1>2. Times
  BY TimeoutAssumption DEF TimedInit, Times
<1>3. WaitsAreLong /\ NeverEarly
  BY DEF TimedInit, Init, WaitsAreLong, NeverEarly
<1> QED BY <1>1, <1>2, <1>3 DEF ClockInv

(* A step that leaves the clock alone and puts nobody to sleep. Who wakes, *)
(* takes an item or throws is no longer spoken of, and a broadcast of push *)
(* or pop moves sleepers only onwards.                                     *)
LEMMA UntimedKeepsWaits ==
  ASSUME ClockInv, Untimed
  PROVE  \A c \in Consumers :
            /\ pc'[c] = "waitSomething" => pc[c] = "waitSomething" /\ call'[c] = call[c]
            /\ pc'[c] = "expired" => pc[c] = "expired"
<1> USE ThreadsAssumption
<1> SUFFICES ASSUME NEW c \in Consumers
             PROVE  /\ pc'[c] = "waitSomething" => pc[c] = "waitSomething" /\ call'[c] = call[c]
                    /\ pc'[c] = "expired" => pc[c] = "expired"
  OBVIOUS
<1>1. pc \in [Threads -> ProducerPCs \cup ConsumerPCs]
  BY DEF ClockInv, QueueInv, TypeOK
<1>2. ASSUME NEW p \in Producers, PushStep(p)
      PROVE  pc'[c] \in {pc[c], "wokenSomething"} /\ call' = call
  BY <1>1, <1>2 DEF PushStep, PushRoom, PushRefused, PushGrow, PushWait, PushBlocked,
                    PushNoMemory, m_push, PushReturns, Broadcast
<1>3. ASSUME NEW p \in Producers, NEW x \in Items, CallPush(p, x)
      PROVE  pc'[c] = pc[c] /\ call' = call
  BY <1>1, <1>3 DEF CallPush
<1>4. ASSUME NEW d \in Consumers,
             PopTake(d) \/ PopThrows(d) \/ \E k \in {"pop", "timedpop"} : CallPop(d, k)
      PROVE  IF d = c THEN pc'[c] \in {"out", "pop"}
                      ELSE pc'[c] \in {pc[c], "wokenRoom"} /\ call'[c] = call[c]
  BY <1>1, <1>4 DEF PopTake, PopThrows, CallPop, Broadcast, ClockInv, QueueInv, TypeOK
<1>5. ASSUME NEW t \in Threads, Spurious(t)
      PROVE  pc'[c] \in {pc[c], "wokenRoom", "wokenSomething"} /\ call' = call
  BY <1>1, <1>5 DEF Spurious
<1> QED BY <1>2, <1>3, <1>4, <1>5 DEF Untimed

LEMMA UntimedKeepsClock ==
  ASSUME ClockInv, Untimed
  PROVE  Times' /\ WaitsAreLong' /\ NeverEarly'
<1>1. Times' /\ left' = left /\ elapsed' = elapsed
  BY DEF ClockInv, Times, Untimed
<1>2. WaitsAreLong' /\ NeverEarly'
  BY <1>1, UntimedKeepsWaits DEF ClockInv, WaitsAreLong, NeverEarly
<1> QED BY <1>1, <1>2

LEMMA TickKeepsClock ==
  ASSUME ClockInv, Tick
  PROVE  Times' /\ WaitsAreLong' /\ NeverEarly'
<1> USE TimeoutAssumption
<1>1. \A c \in Consumers : left[c] \in 0..timeoutMS /\ elapsed[c] \in 0..(timeoutMS + 1)
  BY DEF ClockInv, Times
<1>2. Times'
  BY <1>1 DEF Times, Tick
<1>3. \A c \in Consumers : /\ elapsed'[c] >= elapsed[c] \/ elapsed'[c] >= timeoutMS
                           /\ \/ left'[c] + elapsed'[c] = left[c] + elapsed[c]
                              \/ left[c] = 0 /\ left'[c] = 0 /\ elapsed'[c] >= elapsed[c]
                              \/ elapsed'[c] >= timeoutMS
  BY <1>1 DEF Tick
<1>4. pc' = pc /\ call' = call
  BY DEF Tick, vars
<1>5. \A c \in Consumers : left'[c] \in Nat /\ elapsed'[c] \in Nat
  BY <1>2 DEF Times
<1>6. WaitsAreLong'
  BY <1>1, <1>3, <1>4, <1>5 DEF ClockInv, WaitsAreLong
<1>7. NeverEarly'
  BY <1>1, <1>3, <1>4, <1>5 DEF ClockInv, NeverEarly
<1> QED BY <1>2, <1>6, <1>7

(* A wait starts with the whole timeout ahead of it.                       *)
LEMMA WaitKeepsClock ==
  ASSUME ClockInv, NEW c \in Consumers, TimedPopWait(c)
  PROVE  Times' /\ WaitsAreLong' /\ NeverEarly'
<1> USE TimeoutAssumption
<1>1. Times'
  BY DEF ClockInv, Times, TimedPopWait
<1>2. \A d \in Consumers : d # c => /\ left'[d] = left[d] /\ elapsed'[d] = elapsed[d]
                                    /\ pc'[d] = pc[d] /\ call'[d] = call[d]
  BY DEF ClockInv, QueueInv, TypeOK, Times, TimedPopWait, PopWait
<1>3. /\ pc'[c] = "waitSomething" /\ call'[c] = call[c]
      /\ call[c] = "timedpop" => left'[c] = timeoutMS
      /\ elapsed'[c] \in Nat
  BY <1>1 DEF ClockInv, QueueInv, TypeOK, Times, TimedPopWait, PopWait, Threads
<1>4. WaitsAreLong' /\ NeverEarly'
  BY <1>2, <1>3 DEF ClockInv, WaitsAreLong, NeverEarly
<1> QED BY <1>1, <1>4

LEMMA TimeoutKeepsClock ==
  ASSUME ClockInv, NEW c \in Consumers, TimedPopTimesOut(c)
  PROVE  Times' /\ WaitsAreLong' /\ NeverEarly'
<1> USE TimeoutAssumption
<1>1. Times' /\ left' = left /\ elapsed' = elapsed
  BY DEF ClockInv, Times, TimedPopTimesOut
<1>2. elapsed[c] >= timeoutMS
  BY DEF ClockInv, Times, WaitsAreLong, TimedPopTimesOut, PopTimesOut
<1>3. /\ \A d \in Consumers : d # c => pc'[d] = pc[d]
      /\ pc'[c] = "expired" /\ call' = call
  BY DEF ClockInv, QueueInv, TypeOK, TimedPopTimesOut, PopTimesOut, Threads
<1>4. WaitsAreLong' /\ NeverEarly'
  BY <1>1, <1>2, <1>3 DEF ClockInv, WaitsAreLong, NeverEarly
<1> QED BY <1>1, <1>4

LEMMA NextClockInv == ClockInv /\ [TimedNext]_timedVars => ClockInv'
<1> SUFFICES ASSUME ClockInv, [TimedNext]_timedVars PROVE ClockInv'
  OBVIOUS
<1>1. QueueInv'
  BY TimedNextIsNext, NextKeepsInv DEF ClockInv, timedVars
<1>2. CASE TimedNext
  BY <1>1, <1>2, UntimedKeepsClock, TickKeepsClock, WaitKeepsClock, TimeoutKeepsClock
     DEF TimedNext, ClockInv
<1>3. CASE UNCHANGED timedVars
  BY <1>1, <1>3 DEF timedVars, vars, ClockInv, Times, WaitsAreLong, NeverEarly
<1> QED BY <1>2, <1>3

LEMMA SpecClockInv == TimedSpec => []ClockInv
  BY InitClockInv, NextClockInv, PTL DEF TimedSpec
-----------------------------------------------------------------------------
(* The clock's variables keep their types, and so do the queue's.          *)
THEOREM TimedTypeCorrect == TimedSpec => []TimedTypeOK
<1>1. ClockInv => TimedTypeOK
  BY DEF ClockInv, QueueInv, Times, TimedTypeOK
<1> QED BY <1>1, SpecClockInv, PTL

(* pop(timeoutMS) throws eQueueBlockingTimeoutExpired only when timeoutMS  *)
(* have passed since it first waited, however often it was woken for an    *)
(* item that another popper took, or for nothing.                          *)
THEOREM NeverExpiresEarly == TimedSpec => []NeverEarly
<1>1. ClockInv => NeverEarly
  BY DEF ClockInv
<1> QED BY <1>1, SpecClockInv, PTL

(* With the clock the queue is still a BoundedBuffer: a time-out removes a *)
(* request and takes no item with it.                                      *)
THEOREM TimedImplementsSafety == TimedSpec => BB!SafeSpec
<1>1. TimedInit => BB!Init
  BY DEF TimedInit, Init, BB!Init
<1>2. ClockInv /\ [TimedNext]_timedVars => [BB!Next]_(BB!vars)
  BY TimedNextIsNext, NextSimulates DEF ClockInv, timedVars
<1> QED BY <1>1, <1>2, SpecClockInv, PTL DEF TimedSpec, BB!SafeSpec
=============================================================================
