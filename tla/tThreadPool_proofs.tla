------------------------- MODULE tThreadPool_proofs -------------------------
(***************************************************************************)
(* tThreadPool's safety for any number of threads, clients and tasks. The  *)
(* inductive invariant is built in layers: each of the sections below      *)
(* proves its layer's part from the parts before it; the last shows that   *)
(* every step is a step of TaskPool.                                       *)
(***************************************************************************)
EXTENDS tThreadPool, SequenceTheorems, TLAPS

(* Where a thread is says what it holds, and how far the destructor is     *)
(* says how many keys it has taken.                                        *)
PillsTaken == IF pc[Owner] = "alive" THEN 0
              ELSE IF pc[Owner] = "pill" THEN i
              ELSE IF pc[Owner] = "push" THEN i + 1 ELSE NumThreads
Places ==
    /\ \A w \in Workers : task[w] # NoKey <=> pc[w] \in {"run", "push", "add"}
    /\ \A t \in Threads : pc[t] = "push" => key[t] # NoKey
    /\ pc[Owner] \in {"alive", "pill", "push", "join"} => i < NumThreads
    /\ pc[Owner] = "alive" => i = 0
    /\ m_nextKey <= MaxTasks + 1 + PillsTaken
    /\ \A c \in Clients : Waiting(c) => key[c] \in waited
    /\ \A w \in Workers : task[w] # NoKey => task[w] \in handed
    /\ \A n \in 1..Len(m_queue) : m_queue[n][2] = "task" => m_queue[n][1] \in handed

(* A key is in one place: with a thread that is pushing it, in the queue,  *)
(* with the worker that runs it, or among those whose task has ended.      *)
Unique ==
    /\ \A m, n \in 1..Len(m_queue) : m_queue[m][1] = m_queue[n][1] => m = n
    /\ \A n \in 1..Len(m_queue) :
          /\ m_queue[n][1] < m_nextKey
          /\ m_queue[n][1] \in handed => m_queue[n][2] = "task"
          /\ m_queue[n][1] \notin ran
          /\ \A w \in Workers : m_queue[n][1] # task[w]
          /\ \A t \in Threads : pc[t] = "push" => key[t] # m_queue[n][1]
    /\ \A s, t \in Threads : pc[s] = "push" /\ pc[t] = "push" /\ key[s] = key[t] => s = t
    /\ \A t \in Threads : pc[t] = "push" => key[t] \notin handed
    /\ ran \subseteq handed
    /\ \A v, w \in Workers : task[v] = task[w] /\ task[v] # NoKey => v = w
    /\ \A w \in Workers : pc[w] \in {"run", "push"} => task[w] \notin ran
    /\ \A w \in Workers : pc[w] = "add" => task[w] \in ran

(* The NULL tasks come after every early task.                             *)
Order ==
    /\ \A m, n \in 1..Len(m_queue) :
          m_queue[m][2] = "NULL" /\ m < n => m_queue[n][1] \notin early
    /\ \A w \in Workers, n \in 1..Len(m_queue) :
          pc[w] = "exited" => m_queue[n][1] \notin early
    /\ pc[Owner] = "alive" =>
          /\ \A n \in 1..Len(m_queue) : m_queue[n][2] # "NULL"
          /\ \A w \in Workers : pc[w] # "exited"
          /\ early = {}
    /\ \A k \in handed : \/ k \in ran
                         \/ \E w \in Workers : task[w] = k
                         \/ \E n \in 1..Len(m_queue) : m_queue[n][1] = k
    /\ pc[Owner] = "join" => \A w \in Workers : w <= i => pc[w] = "exited"
    /\ pc[Owner] = "destroyed" => \A w \in Workers : pc[w] = "exited"

-----------------------------------------------------------------------------
LEMMA SetFacts ==
  /\ NumThreads \in Nat /\ NumThreads >= 1 /\ MaxTasks \in Nat /\ NoKey = 0
  /\ \A w \in Workers : w \in Nat /\ 1 <= w /\ w <= NumThreads
  /\ \A w \in Workers : w \in Threads /\ w \notin Clients /\ w # Owner
  /\ \A c \in Clients : c \in Threads /\ c \notin Workers /\ c # Owner
  /\ Owner \in Threads /\ Owner \notin Workers /\ Owner \notin Clients
  /\ \A t \in Threads : t \in Workers \/ t \in Clients \/ t = Owner
  BY PoolAssumption DEF Workers, Threads, NoKey

LEMMA Elements ==
  ASSUME TypeOK
  PROVE  /\ Len(m_queue) \in Nat /\ DOMAIN m_queue = 1..Len(m_queue)
         /\ \A n \in 1..Len(m_queue) :
               m_queue[n][1] \in Keys /\ m_queue[n][2] \in {"task", "NULL"}
         /\ \A n \in 1..Len(m_queue) : m_queue[n][1] \in Nat /\ m_queue[n][1] # 0
<1>1. m_queue \in Seq(Keys \X {"task", "NULL"}) BY DEF TypeOK
<1>2. \A n \in 1..Len(m_queue) : m_queue[n] \in Keys \X {"task", "NULL"}
  BY <1>1, ElementOfSeq
<1> QED BY <1>1, <1>2, LenProperties, PoolAssumption DEF Keys
LEMMA Appended ==
  ASSUME TypeOK, NEW e \in Keys \X {"task", "NULL"}, m_queue' = Append(m_queue, e)
  PROVE  /\ m_queue' \in Seq(Keys \X {"task", "NULL"})
         /\ Len(m_queue) \in Nat /\ Len(m_queue') = Len(m_queue) + 1
         /\ \A n \in 1..Len(m_queue) : m_queue'[n] = m_queue[n]
         /\ m_queue'[Len(m_queue) + 1] = e
  BY AppendProperties, LenProperties DEF TypeOK

LEMMA Popped ==
  ASSUME TypeOK, m_queue # <<>>, m_queue' = Tail(m_queue)
  PROVE  /\ m_queue' \in Seq(Keys \X {"task", "NULL"})
         /\ Len(m_queue) \in Nat /\ Len(m_queue) >= 1 /\ Len(m_queue') = Len(m_queue) - 1
         /\ \A n \in 1..Len(m_queue') : m_queue'[n] = m_queue[n + 1]
         /\ Head(m_queue) = m_queue[1]
<1>1. m_queue \in Seq(Keys \X {"task", "NULL"}) BY DEF TypeOK
<1>2. Len(m_queue) \in Nat /\ Len(m_queue) # 0 BY <1>1, LenProperties, EmptySeq
<1> QED BY <1>1, <1>2, HeadTailProperties

-----------------------------------------------------------------------------
(* Types and places.                                                       *)
LEMMA InitTypes == Init => TypeOK /\ Places
<1> SUFFICES ASSUME Init PROVE TypeOK /\ Places OBVIOUS
<1> USE SetFacts DEF Init
<1>1. \A t \in Threads : pc[t] = IF t \in Workers THEN "pop"
                               ELSE IF t = Owner THEN "alive" ELSE "idle"
  OBVIOUS
<1>2. /\ pc[Owner] = "alive"
      /\ \A w \in Workers : pc[w] = "pop"
      /\ \A c \in Clients : pc[c] = "idle"
  BY <1>1
<1>3. m_queue \in Seq(Keys \X {"task", "NULL"})
  BY EmptySeq
<1>4. pc \in [Threads -> WorkerPCs \cup ClientPCs \cup OwnerPCs]
  BY DEF WorkerPCs, ClientPCs, OwnerPCs
<1>5. /\ task \in [Workers -> Keys \cup {NoKey}] /\ \A w \in Workers : task[w] = NoKey
      /\ key \in [Threads -> 0..(m_nextKey - 1)]
      /\ m_nextKey \in 1..(MaxTasks + NumThreads + 1)
  OBVIOUS
<1>6. TypeOK BY <1>2, <1>3, <1>4, <1>5 DEF TypeOK, WorkerPCs, ClientPCs, OwnerPCs
<1>7. Places BY <1>1, <1>2, <1>5 DEF Places, PillsTaken, Waiting
<1> QED BY <1>6, <1>7

(* What a step must leave right of the program counters.                   *)
PcStep(t, x) ==
    /\ pc' \in [Threads -> WorkerPCs \cup ClientPCs \cup OwnerPCs]
    /\ \A w \in Workers : pc'[w] \in WorkerPCs
    /\ \A c \in Clients : pc'[c] \in ClientPCs
    /\ pc'[Owner] \in OwnerPCs
    /\ pc'[t] = x /\ \A s \in Threads \ {t} : pc'[s] = pc[s]

LEMMA Moves ==
  ASSUME TypeOK, NEW t \in Threads, NEW x, pc' = [pc EXCEPT ![t] = x],
         t \in Workers => x \in WorkerPCs, t \in Clients => x \in ClientPCs,
         t = Owner => x \in OwnerPCs
  PROVE  PcStep(t, x)
  BY SetFacts DEF TypeOK, PcStep

LEMMA TypesKept ==
  ASSUME TypeOK, Places, [Next]_vars
  PROVE  TypeOK' /\ Places'
<1> USE SetFacts DEF history
<1>1. ASSUME NEW t \in Workers \cup Clients, Push(t) PROVE TypeOK' /\ Places'
  <2> USE <1>1 DEF Push, MayCall, m_incrementKey, NextKey, Home
  <2>1. pc' = [pc EXCEPT ![t] = "push"] /\ t \in Threads /\ t # Owner
        /\ m_nextKey \in Nat /\ 1 <= m_nextKey /\ m_nextKey <= MaxTasks
        /\ pc[t] \in {"run", "idle"} /\ (t \in Workers => pc[t] = "run")
    BY DEF TypeOK
  <2>2. PcStep(t, "push")
    BY <2>1, Moves DEF WorkerPCs, ClientPCs
  <2>3. key' \in [Threads -> 0..(m_nextKey' - 1)] /\ key'[t] = m_nextKey
        /\ \A s \in Threads \ {t} : key'[s] = key[s]
    BY <2>1 DEF TypeOK
  <2>4. /\ m_nextKey' \in 1..(MaxTasks + NumThreads + 1)
        /\ handed' \subseteq 1..(m_nextKey' - 1)
    BY <2>1 DEF TypeOK
  <2>5. TypeOK' BY <2>2, <2>3, <2>4 DEF TypeOK, PcStep
  <2>6. pc'[Owner] = pc[Owner] /\ PillsTaken' = PillsTaken /\ PillsTaken \in Nat
    BY <2>1, <2>2 DEF PillsTaken, TypeOK, OwnerPCs, PcStep
  <2>7. Places' BY <2>1, <2>2, <2>3, <2>6 DEF Places, Waiting, PcStep
  <2> QED BY <2>5, <2>7
<1>2. ASSUME NEW t \in Workers \cup Clients, PushQueues(t) PROVE TypeOK' /\ Places'
  <2> USE <1>2 DEF PushQueues, Home
  <2>1. pc' = [pc EXCEPT ![t] = Home(t)] /\ t \in Threads /\ t # Owner
    OBVIOUS
  <2>2. PcStep(t, Home(t))
    BY <2>1, Moves DEF WorkerPCs, ClientPCs
  <2>3. /\ key \in [Threads -> 0..(m_nextKey - 1)] /\ m_nextKey \in 1..(MaxTasks + NumThreads + 1)
        /\ key[t] # 0
    BY <2>1 DEF TypeOK, Places
  <2>4. key' \in [Threads -> 0..(m_nextKey - 1)]
        /\ \A s \in Threads \ {t} : key'[s] = key[s]
    BY <2>1, <2>3
  <2>5. key[t] \in Keys /\ key[t] \in 1..(m_nextKey - 1)
    BY <2>1, <2>3 DEF Keys
  <2>6. m_queue' \in Seq(Keys \X {"task", "NULL"})
    BY <2>5, AppendProperties DEF TypeOK
  <2>7. TypeOK' BY <2>2, <2>4, <2>5, <2>6 DEF TypeOK, PcStep
  <2>8. pc'[Owner] = pc[Owner] /\ PillsTaken' = PillsTaken
    BY <2>1, <2>2 DEF PillsTaken, PcStep
  <2>9. Places' BY <2>1, <2>2, <2>4, <2>8 DEF Places, Waiting, PcStep
  <2> QED BY <2>7, <2>9
<1>3. ASSUME NEW c \in Clients, NEW k \in TaskKeys, CallWait(c, k) PROVE TypeOK' /\ Places'
  <2> USE <1>3 DEF CallWait, MayCall, MaySettle
  <2>1. PcStep(c, "wait") /\ pc[c] = "idle"
    BY Moves DEF ClientPCs, Home
  <2>2. key' \in [Threads -> 0..(m_nextKey - 1)] /\ key'[c] = k
        /\ \A s \in Threads \ {c} : key'[s] = key[s]
    BY DEF TypeOK
  <2>3. TypeOK' BY <2>1, <2>2 DEF TypeOK, PcStep
  <2>4. pc'[Owner] = pc[Owner] /\ PillsTaken' = PillsTaken
    BY <2>1 DEF PillsTaken, PcStep
  <2>5. Places' BY <2>1, <2>2, <2>4 DEF Places, Waiting, PcStep
  <2> QED BY <2>3, <2>5
<1>4. ASSUME NEW c \in Clients, Leave(c), m_completed' \subseteq m_completed, AtLoop(c)
      PROVE  TypeOK' /\ Places'
  <2> USE <1>4 DEF Leave, AtLoop
  <2>1. PcStep(c, "idle") BY Moves DEF ClientPCs
  <2>2. key' \in [Threads -> 0..(m_nextKey - 1)]
        /\ \A s \in Threads \ {c} : key'[s] = key[s]
    BY DEF TypeOK
  <2>3. TypeOK' BY <2>1, <2>2 DEF TypeOK, PcStep
  <2>4. pc'[Owner] = pc[Owner] /\ PillsTaken' = PillsTaken
    BY <2>1 DEF PillsTaken, PcStep
  <2>5. Places' BY <2>1, <2>2, <2>4 DEF Places, Waiting, PcStep
  <2> QED BY <2>3, <2>5
<1>5. ASSUME NEW c \in Clients, NEW x \in {"asleep", "woken"}, pc' = [pc EXCEPT ![c] = x], Waiting(c),
             UNCHANGED <<m_queue, m_nextKey, m_forgotten, m_completed, task, key, i, history>>
      PROVE  TypeOK' /\ Places'
  <2> USE <1>5
  <2>1. PcStep(c, x) BY Moves DEF ClientPCs
  <2>2. TypeOK' BY <2>1 DEF TypeOK, PcStep
  <2>3. pc'[Owner] = pc[Owner] /\ PillsTaken' = PillsTaken
    BY <2>1 DEF PillsTaken, PcStep
  <2>4. Places' BY <2>1, <2>3 DEF Places, Waiting, PcStep
  <2> QED BY <2>2, <2>4
<1>6. ASSUME NEW c \in Clients, NEW k \in TaskKeys, Forget(c, k) PROVE TypeOK' /\ Places'
  BY <1>6 DEF Forget, MaySettle, TypeOK, Places, PillsTaken, Waiting
<1>7. ASSUME NEW w \in Workers, PopTask(w) PROVE TypeOK' /\ Places'
  <2> USE <1>7 DEF PopTask
  <2>1. PcStep(w, "run") BY Moves DEF WorkerPCs
  <2>2. m_queue[1][1] \in Keys /\ m_queue[1][2] = "task"
        /\ Head(m_queue) = m_queue[1] /\ 1 \in 1..Len(m_queue)
    BY Popped, Elements
  <2>3. m_queue[1][1] \in handed BY <2>2 DEF Places
  <2>4. task' \in [Workers -> Keys \cup {NoKey}] /\ task'[w] \in Keys \cap handed
        /\ \A v \in Workers \ {w} : task'[v] = task[v]
    BY <2>2, <2>3 DEF TypeOK
  <2>5. task'[w] # NoKey BY <2>4 DEF Keys
  <2>6. TypeOK' BY <2>1, <2>4, Popped DEF TypeOK, PcStep
  <2>7. pc'[Owner] = pc[Owner] /\ PillsTaken' = PillsTaken
    BY <2>1 DEF PillsTaken, PcStep
  <2>8. \A n \in 1..Len(m_queue') : m_queue'[n][2] = "task" => m_queue'[n][1] \in handed
    BY Popped DEF Places
  <2>9. Places' BY <2>1, <2>4, <2>5, <2>7, <2>8 DEF Places, Waiting, PcStep
  <2> QED BY <2>6, <2>9
<1>8. ASSUME NEW w \in Workers, PopNull(w) PROVE TypeOK' /\ Places'
  <2> USE <1>8 DEF PopNull
  <2>1. PcStep(w, "exited") BY Moves DEF WorkerPCs
  <2>2. m_queue' \in Seq(Keys \X {"task", "NULL"})
    BY HeadTailProperties DEF TypeOK
  <2>3. TypeOK' BY <2>1, <2>2 DEF TypeOK, PcStep
  <2>4. pc'[Owner] = pc[Owner] /\ PillsTaken' = PillsTaken
    BY <2>1 DEF PillsTaken, PcStep
  <2>5. Places' BY <2>1, <2>4 DEF Places, Waiting, PcStep
  <2> QED BY <2>3, <2>5
<1>9. ASSUME NEW w \in Workers, TaskEnds(w) PROVE TypeOK' /\ Places'
  <2> USE <1>9 DEF TaskEnds
  <2>1. PcStep(w, "add") BY Moves DEF WorkerPCs
  <2>2. task[w] \in Keys
    BY DEF TypeOK, Places
  <2>3. TypeOK' BY <2>1, <2>2 DEF TypeOK, PcStep
  <2>4. pc'[Owner] = pc[Owner] /\ PillsTaken' = PillsTaken
    BY <2>1 DEF PillsTaken, PcStep
  <2>5. Places' BY <2>1, <2>4 DEF Places, Waiting, PcStep
  <2> QED BY <2>3, <2>5
<1>10. ASSUME NEW w \in Workers, m_addToCompleted(w) PROVE TypeOK' /\ Places'
  <2>0. pc[w] = "add" /\ pc \in [Threads -> WorkerPCs \cup ClientPCs \cup OwnerPCs]
    BY <1>10 DEF m_addToCompleted, TypeOK
  <2>1. /\ \A v \in Workers : pc'[v] = IF v = w THEN "pop" ELSE pc[v]
        /\ \A c \in Clients : pc'[c] = pc[c] \/ (pc[c] = "asleep" /\ pc'[c] = "woken")
        /\ pc'[Owner] = pc[Owner]
        /\ pc' \in [Threads -> WorkerPCs \cup ClientPCs \cup OwnerPCs]
    <3>1. CASE pc' = [pc EXCEPT ![w] = "pop"]
      BY <2>0, <3>1 DEF WorkerPCs
    <3>2. CASE WakeAll(w)
      <4>1. \A t \in Threads : pc'[t] = IF t = w THEN "pop"
                                        ELSE IF pc[t] = "asleep" THEN "woken" ELSE pc[t]
        BY <3>2 DEF WakeAll
      <4>2. pc' \in [Threads -> WorkerPCs \cup ClientPCs \cup OwnerPCs]
        BY <2>0, <3>2 DEF WakeAll, WorkerPCs, ClientPCs
      <4>3. pc[Owner] # "asleep" /\ \A v \in Workers : pc[v] # "asleep"
        BY DEF TypeOK, OwnerPCs, WorkerPCs
      <4> QED BY <4>1, <4>2, <4>3
    <3> QED BY <1>10, <3>1, <3>2 DEF m_addToCompleted
  <2>2. task[w] \in handed
    BY <2>0 DEF Places
  <2>3. task' \in [Workers -> Keys \cup {NoKey}] /\ task'[w] = NoKey
        /\ \A v \in Workers \ {w} : task'[v] = task[v]
    BY <1>10 DEF TypeOK, m_addToCompleted
  <2> USE <1>10 DEF m_addToCompleted
  <2>9. m_forgotten' \subseteq handed /\ m_completed' \subseteq handed
    BY <2>2 DEF TypeOK
  <2>4. TypeOK' BY <2>1, <2>9, <2>3 DEF TypeOK, WorkerPCs, ClientPCs
  <2>5. PillsTaken' = PillsTaken
    BY <2>1 DEF PillsTaken
  <2>6. \A t \in Threads : pc'[t] = "push" => pc[t] = "push"
    BY <2>1
  <2>7. \A c \in Clients : Waiting(c)' => Waiting(c)
    BY <2>1 DEF Waiting
  <2>8. Places' BY <2>1, <2>3, <2>5, <2>6, <2>7 DEF Places
  <2> QED BY <2>4, <2>8
<1>11. ASSUME DtorBegins PROVE TypeOK' /\ Places'
  <2> USE <1>11 DEF DtorBegins
  <2>1. PcStep(Owner, "pill") BY Moves DEF OwnerPCs
  <2>2. TypeOK' BY <2>1 DEF TypeOK, PcStep
  <2>3. PillsTaken' = PillsTaken
    BY <2>1 DEF PillsTaken, PcStep, Places
  <2>4. Places' BY <2>1, <2>3 DEF Places, Waiting, PcStep
  <2> QED BY <2>2, <2>4
<1>12. ASSUME DtorTakesKey PROVE TypeOK' /\ Places'
  <2> USE <1>12 DEF DtorTakesKey, m_incrementKey, NextKey
  <2>1. PcStep(Owner, "push") BY Moves DEF OwnerPCs
  <2>2. m_nextKey \in Nat /\ 1 <= m_nextKey /\ i \in Nat /\ i < NumThreads
        /\ PillsTaken = i /\ PillsTaken' = i + 1 /\ m_nextKey <= MaxTasks + 1 + i
    BY <2>1 DEF TypeOK, Places, PillsTaken, PcStep
  <2>3. key' \in [Threads -> 0..(m_nextKey' - 1)] /\ key'[Owner] = m_nextKey
        /\ \A s \in Threads \ {Owner} : key'[s] = key[s]
    BY <2>2 DEF TypeOK
  <2>4. /\ m_nextKey' \in 1..(MaxTasks + NumThreads + 1)
        /\ handed' \subseteq 1..(m_nextKey' - 1)
    BY <2>2 DEF TypeOK
  <2>5. TypeOK' BY <2>1, <2>3, <2>4 DEF TypeOK, PcStep
  <2>6. Places' BY <2>1, <2>2, <2>3 DEF Places, Waiting, PcStep
  <2> QED BY <2>5, <2>6
<1>13. ASSUME DtorQueuesNull PROVE TypeOK' /\ Places'
  <2> USE <1>13 DEF DtorQueuesNull, AllPilled
  <2> DEFINE x == IF i + 1 >= NumThreads THEN "join" ELSE "pill"
  <2>1. PcStep(Owner, x) BY Moves DEF OwnerPCs
  <2>2. i \in Nat /\ i < NumThreads /\ key[Owner] # 0 /\ m_nextKey \in 1..(MaxTasks + NumThreads + 1)
        /\ key[Owner] \in 1..(m_nextKey - 1)
    BY DEF TypeOK, Places
  <2>3. key' \in [Threads -> 0..(m_nextKey - 1)]
        /\ \A s \in Threads \ {Owner} : key'[s] = key[s]
    BY <2>2 DEF TypeOK
  <2>4. <<key[Owner], "NULL">> \in Keys \X {"task", "NULL"}
    BY <2>2 DEF Keys
  <2>5. i' \in 0..NumThreads /\ (x = "join" => i' = 0) /\ (x = "pill" => i' = i + 1 /\ i' < NumThreads)
    BY <2>2
  <2>6. TypeOK' BY <2>1, <2>3, <2>4, <2>5, Appended DEF TypeOK, PcStep
  <2>7. PillsTaken = i + 1 /\ PillsTaken' = i + 1
    BY <2>1, <2>2, <2>5 DEF PillsTaken, PcStep
  <2>8. \A n \in 1..Len(m_queue') : m_queue'[n][2] = "task" => m_queue'[n][1] \in handed
    BY <2>4, Appended DEF Places
  <2>9. Places' BY <2>1, <2>2, <2>3, <2>5, <2>7, <2>8 DEF Places, Waiting, PcStep
  <2> QED BY <2>6, <2>9
<1>14. ASSUME DtorJoins PROVE TypeOK' /\ Places'
  <2> USE <1>14 DEF DtorJoins, AllJoined
  <2> DEFINE x == IF i + 1 >= NumThreads THEN "destroyed" ELSE "join"
  <2>1. PcStep(Owner, x) BY Moves DEF OwnerPCs
  <2>2. i \in Nat /\ i < NumThreads BY DEF TypeOK, Places
  <2>3. TypeOK' BY <2>1, <2>2 DEF TypeOK, PcStep
  <2>4. PillsTaken = NumThreads /\ PillsTaken' = NumThreads
    BY <2>1 DEF PillsTaken, PcStep
  <2>5. Places' BY <2>1, <2>2, <2>4 DEF Places, Waiting, PcStep
  <2> QED BY <2>3, <2>5
<1>15. ASSUME UNCHANGED vars PROVE TypeOK' /\ Places'
  BY <1>15 DEF vars, TypeOK, Places, PillsTaken, Waiting
<1>16. ASSUME NEW c \in Clients, WaitStep(c) \/ Spurious(c) PROVE TypeOK' /\ Places'
  <2>1. CASE WaitReturns(c) BY <2>1, <1>4 DEF WaitReturns
  <2>2. CASE WaitThrows(c) BY <2>2, <1>4 DEF WaitThrows
  <2>3. CASE WaitSleeps(c) BY <2>3, <1>5 DEF WaitSleeps, AtLoop, Waiting
  <2>4. CASE Spurious(c) BY <2>4, <1>5 DEF Spurious, Waiting
  <2> QED BY <1>16, <2>1, <2>2, <2>3, <2>4 DEF WaitStep
<1> QED
  BY <1>1, <1>2, <1>3, <1>6, <1>7, <1>8, <1>9, <1>10, <1>11, <1>12, <1>13, <1>14, <1>15, <1>16
  DEF Next, WorkerStep, DtorStep

(* Where every thread is, and that everything has its type.                *)
THEOREM TypeCorrect == Spec => []TypeOK
<1>1. Spec => [](TypeOK /\ Places)
  BY InitTypes, TypesKept, PTL DEF Spec
<1> QED BY <1>1, PTL
-----------------------------------------------------------------------------
(* Wake-ups. A step that neither puts a client to sleep nor adds to        *)
(* m_completed can do no harm; two steps are left.                         *)
LEMMA WakeupsKept ==
  ASSUME TypeOK, NoLostWakeup, [Next]_vars
  PROVE  NoLostWakeup'
<1> USE SetFacts DEF history
<1>1. ASSUME m_completed' \subseteq m_completed,
             \A c \in Clients : pc'[c] = "asleep" => pc[c] = "asleep" /\ key'[c] = key[c]
      PROVE  NoLostWakeup'
  BY <1>1 DEF NoLostWakeup
<1>2. ASSUME NEW t \in Workers \cup Clients, Push(t) \/ PushQueues(t) PROVE NoLostWakeup'
  BY <1>1, <1>2 DEF Push, PushQueues, m_incrementKey, Home, TypeOK
<1>3. ASSUME NEW c \in Clients, NEW k \in TaskKeys, CallWait(c, k) \/ Forget(c, k) PROVE NoLostWakeup'
  BY <1>1, <1>3 DEF CallWait, Forget, TypeOK
<1>4. ASSUME NEW c \in Clients, WaitStep(c) \/ Spurious(c) PROVE NoLostWakeup'
  <2>1. CASE WaitReturns(c) \/ WaitThrows(c)
    BY <1>1, <2>1 DEF WaitReturns, WaitThrows, Leave, TypeOK
  <2>2. CASE WaitSleeps(c)
    BY <2>2 DEF WaitSleeps, Completed, NoLostWakeup, TypeOK
  <2>3. CASE Spurious(c)
    BY <1>1, <2>3 DEF Spurious, TypeOK
  <2> QED BY <1>4, <2>1, <2>2, <2>3 DEF WaitStep
<1>5. ASSUME NEW w \in Workers, PopTask(w) \/ PopNull(w) \/ TaskEnds(w) PROVE NoLostWakeup'
  BY <1>1, <1>5 DEF PopTask, PopNull, TaskEnds, TypeOK
<1>6. ASSUME NEW w \in Workers, m_addToCompleted(w) PROVE NoLostWakeup'
  <2>1. CASE task[w] \in m_forgotten
    BY <1>1, <1>6, <2>1 DEF m_addToCompleted, TypeOK
  <2>2. CASE task[w] \notin m_forgotten
    <3>1. \A c \in Clients : pc'[c] # "asleep"
      BY <1>6, <2>2 DEF m_addToCompleted, WakeAll
    <3> QED BY <3>1 DEF NoLostWakeup
  <2> QED BY <2>1, <2>2
<1>7. ASSUME DtorBegins \/ DtorStep PROVE NoLostWakeup'
  BY <1>1, <1>7 DEF DtorBegins, DtorStep, DtorTakesKey, m_incrementKey, DtorQueuesNull, DtorJoins, TypeOK
<1>8. ASSUME UNCHANGED vars PROVE NoLostWakeup'
  BY <1>8 DEF vars, NoLostWakeup
<1> QED
  BY <1>2, <1>3, <1>4, <1>5, <1>6, <1>7, <1>8 DEF Next, WorkerStep

(* Nobody sleeps in wait() on a key that is in m_completed.                *)
THEOREM WakeupsAreNotLost == Spec => []NoLostWakeup
<1>1. Init => NoLostWakeup BY SetFacts DEF Init, NoLostWakeup
<1> QED BY <1>1, TypeCorrect, WakeupsKept, PTL DEF Spec
-----------------------------------------------------------------------------
(* One place for each key. Most steps move no key.                         *)
LEMMA UniqueWhenQuiet ==
  ASSUME Unique, UNCHANGED <<m_queue, m_nextKey, task, handed, ran>>,
         \A t \in Threads : pc'[t] = "push" => pc[t] = "push" /\ key'[t] = key[t],
         \A w \in Workers : pc'[w] = pc[w]
  PROVE  Unique'
  BY DEF Unique

LEMMA UniqueKept ==
  ASSUME TypeOK, Places, Unique, [Next]_vars
  PROVE  Unique'
<1> USE SetFacts DEF history
<1>0. /\ m_nextKey \in Nat /\ \A t \in Threads : key[t] \in Nat /\ key[t] < m_nextKey
      /\ \A k \in handed : k \in Nat /\ k < m_nextKey /\ k # 0
      /\ \A w \in Workers : task[w] \in Nat
  BY DEF TypeOK, Keys
<1>1. ASSUME NEW t \in Threads, m_incrementKey(t), pc' = [pc EXCEPT ![t] = "push"],
             pc[t] # "push", t \in Workers => pc[t] = "run",
             UNCHANGED <<m_queue, task, handed, ran>>
      PROVE  Unique'
  <2>1. /\ key'[t] = m_nextKey /\ \A s \in Threads \ {t} : key'[s] = key[s]
        /\ pc'[t] = "push" /\ \A s \in Threads \ {t} : pc'[s] = pc[s]
        /\ m_nextKey' = m_nextKey + 1
    BY <1>1 DEF TypeOK, m_incrementKey, NextKey
  <2>2. \A n \in 1..Len(m_queue) : m_queue[n][1] \in Nat
    BY Elements
  <2>3. \A s \in Threads : pc'[s] = "push" =>
           \/ s = t /\ key'[s] = m_nextKey
           \/ s # t /\ pc[s] = "push" /\ key'[s] = key[s]
    BY <2>1
  <2>4. \A w \in Workers : /\ pc'[w] \in {"run", "push"} => pc[w] \in {"run", "push"}
                           /\ pc'[w] = "add" => pc[w] = "add"
    BY <1>1, <2>1
  <2>5. UNCHANGED <<m_queue, task, handed, ran>> BY <1>1
  <2> QED BY <1>0, <2>1, <2>2, <2>3, <2>4, <2>5 DEF Unique
<1>2. ASSUME NEW t \in Workers \cup Clients, PushQueues(t) PROVE Unique'
  <2> USE <1>2 DEF PushQueues
  <2>1. PcStep(t, Home(t)) BY Moves DEF WorkerPCs, ClientPCs, Home
  <2>2. key[t] \in Keys /\ \A s \in Threads \ {t} : key'[s] = key[s]
    BY <1>0 DEF TypeOK, Places, Keys
  <2>3. /\ Len(m_queue) \in Nat /\ Len(m_queue') = Len(m_queue) + 1
        /\ \A n \in 1..Len(m_queue) : m_queue'[n] = m_queue[n]
        /\ m_queue'[Len(m_queue) + 1] = <<key[t], "task">>
    BY <2>2, Appended
  <2>4. \A n \in 1..Len(m_queue') : \/ n \in 1..Len(m_queue) /\ m_queue'[n] = m_queue[n]
                                    \/ n = Len(m_queue) + 1 /\ m_queue'[n] = <<key[t], "task">>
    BY <2>3
  <2>5. /\ t \in Threads /\ pc'[t] = Home(t) /\ Home(t) # "push"
        /\ \A s \in Threads \ {t} : pc'[s] = pc[s]
        /\ t \in Workers => pc'[t] = "run"
    BY <2>1 DEF PcStep, Home
  <2>6. /\ key[t] \notin handed /\ key[t] \notin ran /\ key[t] # NoKey
        /\ \A w \in Workers : task[w] # key[t]
        /\ \A n \in 1..Len(m_queue) : m_queue[n][1] # key[t]
        /\ \A s \in Threads : pc[s] = "push" /\ key[s] = key[t] => s = t
    BY <2>5 DEF Unique, Places
  <2>7. /\ m_nextKey' = m_nextKey /\ task' = task /\ ran' = ran
        /\ handed' = handed \cup {key[t]}
    OBVIOUS
  <2>8. \A s \in Threads : pc'[s] = "push" => s # t /\ pc[s] = "push" /\ key'[s] = key[s] /\ key[s] # key[t]
    BY <2>2, <2>5, <2>6
  <2>9. \A m, n \in 1..Len(m_queue') : m_queue'[m][1] = m_queue'[n][1] => m = n
    BY <2>3, <2>4, <2>6 DEF Unique
  <2>10. \A n \in 1..Len(m_queue') :
          /\ m_queue'[n][1] < m_nextKey
          /\ m_queue'[n][1] \in handed' => m_queue'[n][2] = "task"
          /\ m_queue'[n][1] \notin ran
          /\ \A w \in Workers : m_queue'[n][1] # task[w]
          /\ \A s \in Threads : pc'[s] = "push" => key'[s] # m_queue'[n][1]
    BY <1>0, <2>4, <2>5, <2>6, <2>7, <2>8 DEF Unique
  <2>11. \A w \in Workers : /\ pc'[w] \in {"run", "push"} => pc[w] \in {"run", "push"}
                            /\ pc'[w] = "add" => pc[w] = "add"
    BY <2>5
  <2> QED BY <2>7, <2>8, <2>9, <2>10, <2>11 DEF Unique
<1>3. ASSUME NEW c \in Clients, NEW k \in TaskKeys, CallWait(c, k) \/ Forget(c, k) PROVE Unique'
  BY <1>3, UniqueWhenQuiet DEF CallWait, Forget, TypeOK
<1>4. ASSUME NEW c \in Clients, WaitStep(c) \/ Spurious(c) PROVE Unique'
  BY <1>4, UniqueWhenQuiet DEF WaitStep, WaitReturns, WaitThrows, WaitSleeps, Leave, Spurious, TypeOK
<1>5. ASSUME NEW w \in Workers, PopTask(w) PROVE Unique'
  <2> USE <1>5 DEF PopTask
  <2>1. PcStep(w, "run") BY Moves DEF WorkerPCs
  <2>2. /\ Len(m_queue) \in Nat /\ Len(m_queue) >= 1 /\ Len(m_queue') = Len(m_queue) - 1
        /\ \A n \in 1..Len(m_queue') : m_queue'[n] = m_queue[n + 1]
        /\ Head(m_queue) = m_queue[1]
    BY Popped
  <2>3. m_queue[1][1] \in Keys /\ m_queue[1][1] # 0 /\ m_queue[1][1] \notin ran
        /\ (\A v \in Workers : task[v] # m_queue[1][1]) /\ m_queue[1][1] \in handed
    BY <2>2, Elements DEF Unique, Places
  <2>4. task'[w] = m_queue[1][1] /\ \A v \in Workers \ {w} : task'[v] = task[v]
    BY <2>2, <2>3 DEF TypeOK
  <2>5. \A n \in 1..Len(m_queue') : n + 1 \in 1..Len(m_queue) /\ n + 1 # 1
    BY <2>2
  <2>6. /\ UNCHANGED <<m_nextKey, key, handed, ran>> /\ w \in Threads
        /\ pc'[w] = "run" /\ \A s \in Threads \ {w} : pc'[s] = pc[s]
    BY <2>1 DEF PcStep
  <2>7. \A m, n \in 1..Len(m_queue') : m_queue'[m][1] = m_queue'[n][1] => m = n
    BY <2>2, <2>5 DEF Unique
  <2>8. \A n \in 1..Len(m_queue') :
          /\ m_queue'[n][1] < m_nextKey
          /\ m_queue'[n][1] \in handed => m_queue'[n][2] = "task"
          /\ m_queue'[n][1] \notin ran
          /\ \A v \in Workers : m_queue'[n][1] # task'[v]
          /\ \A s \in Threads : pc'[s] = "push" => key[s] # m_queue'[n][1]
    BY <2>2, <2>4, <2>5, <2>6 DEF Unique
  <2> QED BY <2>3, <2>4, <2>6, <2>7, <2>8 DEF Unique
<1>6. ASSUME NEW w \in Workers, PopNull(w) PROVE Unique'
  <2> USE <1>6 DEF PopNull
  <2>1. PcStep(w, "exited") BY Moves DEF WorkerPCs
  <2>2. /\ Len(m_queue) \in Nat /\ Len(m_queue') = Len(m_queue) - 1
        /\ \A n \in 1..Len(m_queue') : m_queue'[n] = m_queue[n + 1]
    BY Popped
  <2>3. \A n \in 1..Len(m_queue') : n + 1 \in 1..Len(m_queue)
    BY <2>2
  <2>4. /\ UNCHANGED <<m_nextKey, task, key, handed, ran>> /\ w \in Threads
        /\ pc'[w] = "exited" /\ \A s \in Threads \ {w} : pc'[s] = pc[s]
    BY <2>1 DEF PcStep
  <2>5. \A m, n \in 1..Len(m_queue') : m_queue'[m][1] = m_queue'[n][1] => m = n
    BY <2>2, <2>3 DEF Unique
  <2>6. \A n \in 1..Len(m_queue') :
          /\ m_queue'[n][1] < m_nextKey
          /\ m_queue'[n][1] \in handed => m_queue'[n][2] = "task"
          /\ m_queue'[n][1] \notin ran
          /\ \A v \in Workers : m_queue'[n][1] # task[v]
          /\ \A s \in Threads : pc'[s] = "push" => key[s] # m_queue'[n][1]
    BY <2>2, <2>3, <2>4 DEF Unique
  <2> QED BY <2>4, <2>5, <2>6 DEF Unique
<1>7. ASSUME NEW w \in Workers, TaskEnds(w) PROVE Unique'
  <2> USE <1>7 DEF TaskEnds
  <2>1. PcStep(w, "add") BY Moves DEF WorkerPCs
  <2>2. task[w] # NoKey /\ task[w] \in handed BY DEF Places
  <2>3. \A n \in 1..Len(m_queue) : m_queue[n][1] # task[w] BY DEF Unique
  <2>4. /\ UNCHANGED <<m_queue, m_nextKey, task, key, handed>> /\ ran' = ran \cup {task[w]}
        /\ w \in Threads /\ pc'[w] = "add" /\ \A s \in Threads \ {w} : pc'[s] = pc[s]
    BY <2>1 DEF PcStep
  <2>5. \A v \in Workers : pc'[v] \in {"run", "push"} => v # w /\ task[v] # task[w]
    BY <2>2, <2>4 DEF Unique
  <2> QED BY <2>2, <2>3, <2>4, <2>5 DEF Unique
<1>8. ASSUME NEW w \in Workers, m_addToCompleted(w) PROVE Unique'
  <2> USE <1>8 DEF m_addToCompleted
  <2>1. \A t \in Threads : \/ t = w /\ pc'[t] = "pop"
                           \/ t # w /\ pc'[t] = pc[t]
                           \/ t # w /\ pc[t] = "asleep" /\ pc'[t] = "woken"
    BY DEF TypeOK, WakeAll
  <2>2. task'[w] = NoKey /\ \A v \in Workers \ {w} : task'[v] = task[v]
    BY DEF TypeOK
  <2>3. UNCHANGED <<m_queue, m_nextKey, key, handed, ran>>
    OBVIOUS
  <2>4. \A n \in 1..Len(m_queue) : m_queue[n][1] # NoKey
    BY Elements
  <2> QED BY <2>1, <2>2, <2>3, <2>4 DEF Unique
<1>9. ASSUME DtorQueuesNull PROVE Unique'
  <2> USE <1>9 DEF DtorQueuesNull
  <2> DEFINE k == key[Owner]
             x == IF AllPilled(i + 1) THEN "join" ELSE "pill"
  <2>1. PcStep(Owner, x) BY Moves DEF OwnerPCs
  <2>2. k \in Keys /\ \A s \in Threads \ {Owner} : key'[s] = key[s]
    BY <1>0 DEF TypeOK, Places, Keys
  <2>3. /\ Len(m_queue) \in Nat /\ Len(m_queue') = Len(m_queue) + 1
        /\ \A n \in 1..Len(m_queue) : m_queue'[n] = m_queue[n]
        /\ m_queue'[Len(m_queue) + 1] = <<k, "NULL">>
    BY <2>2, Appended
  <2>4. \A n \in 1..Len(m_queue') : \/ n \in 1..Len(m_queue) /\ m_queue'[n] = m_queue[n]
                                    \/ n = Len(m_queue) + 1 /\ m_queue'[n] = <<k, "NULL">>
    BY <2>3
  <2>5. x # "push" /\ pc'[Owner] = x /\ \A s \in Threads \ {Owner} : pc'[s] = pc[s]
    BY <2>1 DEF PcStep
  <2>6. /\ k \notin handed /\ k \notin ran /\ k # NoKey /\ k < m_nextKey
        /\ \A w \in Workers : task[w] # k
        /\ \A n \in 1..Len(m_queue) : m_queue[n][1] # k
        /\ \A s \in Threads : pc[s] = "push" /\ key[s] = k => s = Owner
    BY <1>0 DEF Unique, Places
  <2> HIDE DEF k, x
  <2>7. UNCHANGED <<m_nextKey, task, handed, ran>>
    OBVIOUS
  <2>8. \A s \in Threads : pc'[s] = "push" => s # Owner /\ pc[s] = "push" /\ key'[s] = key[s] /\ key[s] # k
    BY <2>2, <2>5, <2>6
  <2>9. \A m, n \in 1..Len(m_queue') : m_queue'[m][1] = m_queue'[n][1] => m = n
    BY <2>3, <2>4, <2>6 DEF Unique
  <2>10. \A n \in 1..Len(m_queue') :
          /\ m_queue'[n][1] < m_nextKey
          /\ m_queue'[n][1] \in handed => m_queue'[n][2] = "task"
          /\ m_queue'[n][1] \notin ran
          /\ \A w \in Workers : m_queue'[n][1] # task[w]
          /\ \A s \in Threads : pc'[s] = "push" => key'[s] # m_queue'[n][1]
    BY <2>4, <2>6, <2>8 DEF Unique
  <2>11. \A w \in Workers : pc'[w] = pc[w]
    BY <2>5
  <2> QED BY <2>7, <2>8, <2>9, <2>10, <2>11 DEF Unique
<1>10. ASSUME DtorBegins \/ DtorJoins PROVE Unique'
  BY <1>10, UniqueWhenQuiet DEF DtorBegins, DtorJoins, TypeOK
<1>11. ASSUME UNCHANGED vars PROVE Unique'
  BY <1>11, UniqueWhenQuiet DEF vars
<1>12. ASSUME NEW t \in Workers \cup Clients, Push(t) PROVE Unique'
  BY <1>1, <1>12 DEF Push, MayCall, Home
<1>13. ASSUME DtorTakesKey PROVE Unique'
  BY <1>1, <1>13 DEF DtorTakesKey
<1> QED
  BY <1>2, <1>3, <1>4, <1>5, <1>6, <1>7, <1>8, <1>9, <1>10, <1>11, <1>12, <1>13
  DEF Next, WorkerStep, DtorStep

LEMMA InitUnique == Init => Unique
<1> SUFFICES ASSUME Init PROVE Unique OBVIOUS
<1>1. Len(m_queue) = 0 BY EmptySeq DEF Init
<1>2. \A t \in Threads : pc[t] \in {"pop", "alive", "idle"} BY DEF Init
<1>3. \A w \in Workers : task[w] = NoKey BY DEF Init
<1> QED BY SetFacts, <1>1, <1>2, <1>3 DEF Init, Unique

(* No two workers hold the same task, and a task that is held or has run   *)
(* is not in the queue: every task runs at most once.                      *)
THEOREM TasksRunOnce == Spec => []RunsOnce
<1>1. Spec => [](TypeOK /\ Places /\ Unique)
  BY InitTypes, TypesKept, InitUnique, UniqueKept, PTL DEF Spec
<1>2. TypeOK /\ Unique => RunsOnce
  BY Elements DEF Unique, RunsOnce, QueuedTasks, Held
<1> QED BY <1>1, <1>2, PTL
-----------------------------------------------------------------------------
(* The order of the queue. Steps that move no key cannot disturb it.       *)
LEMMA OrderWhenQuiet ==
  ASSUME Order, UNCHANGED <<m_queue, task, handed, early, ran, i>>,
         \A w \in Workers : pc'[w] = "exited" <=> pc[w] = "exited",
         pc'[Owner] = pc[Owner]
  PROVE  Order'
  BY SetFacts DEF Order

LEMMA OrderFromQueue ==
  ASSUME Order, UNCHANGED <<early, i>>, pc'[Owner] = pc[Owner],
         \A w \in Workers : pc'[w] = "exited" <=> pc[w] = "exited",
         \A m, n \in 1..Len(m_queue') :
            m_queue'[m][2] = "NULL" /\ m < n => m_queue'[n][1] \notin early,
         \A w \in Workers, n \in 1..Len(m_queue') :
            pc[w] = "exited" => m_queue'[n][1] \notin early,
         pc[Owner] = "alive" => \A n \in 1..Len(m_queue') : m_queue'[n][2] # "NULL",
         \A k \in handed' : \/ k \in ran'
                            \/ \E w \in Workers : task'[w] = k
                            \/ \E n \in 1..Len(m_queue') : m_queue'[n][1] = k
  PROVE  Order'
  BY SetFacts DEF Order

LEMMA OrderKept ==
  ASSUME TypeOK, Places, Unique, Order, [Next]_vars
  PROVE  Order'
<1> USE SetFacts DEF history
<1>0. \A k \in early : k \in handed
  BY DEF TypeOK
<1>1. ASSUME NEW t \in Workers \cup Clients, Push(t) PROVE Order'
  BY <1>1, OrderWhenQuiet DEF Push, MayCall, Home, TypeOK
<1>2. ASSUME NEW t \in Workers \cup Clients, PushQueues(t) PROVE Order'
  <2> USE <1>2 DEF PushQueues
  <2>1. key[t] \in Keys /\ key[t] \notin handed
    BY DEF TypeOK, Places, Unique, Keys
  <2>2. /\ Len(m_queue) \in Nat /\ Len(m_queue') = Len(m_queue) + 1
        /\ \A n \in 1..Len(m_queue) : m_queue'[n] = m_queue[n]
        /\ m_queue'[Len(m_queue) + 1] = <<key[t], "task">>
    BY <2>1, Appended
  <2>3. \A n \in 1..Len(m_queue') : \/ n \in 1..Len(m_queue) /\ m_queue'[n] = m_queue[n]
                                    \/ n = Len(m_queue) + 1 /\ m_queue'[n] = <<key[t], "task">>
    BY <2>2
  <2>4. /\ UNCHANGED <<task, early, ran, i>> /\ handed' = handed \cup {key[t]}
        /\ pc'[Owner] = pc[Owner]
        /\ \A w \in Workers : pc'[w] = "exited" <=> pc[w] = "exited"
    BY DEF TypeOK, Home
  <2>5. \A m, n \in 1..Len(m_queue') :
          m_queue'[m][2] = "NULL" /\ m < n => m_queue'[n][1] \notin early
    BY <1>0, <2>1, <2>2, <2>3 DEF Order
  <2>6. \A w \in Workers, n \in 1..Len(m_queue') :
          pc[w] = "exited" => m_queue'[n][1] \notin early
    BY <1>0, <2>1, <2>3 DEF Order
  <2>7. pc[Owner] = "alive" => \A n \in 1..Len(m_queue') : m_queue'[n][2] # "NULL"
    BY <2>3 DEF Order
  <2>8. \A k \in handed' : \/ k \in ran
                           \/ \E w \in Workers : task[w] = k
                           \/ \E n \in 1..Len(m_queue') : m_queue'[n][1] = k
    <3>1. Len(m_queue) + 1 \in 1..Len(m_queue') /\ \A n \in 1..Len(m_queue) : n \in 1..Len(m_queue')
      BY <2>2
    <3> QED BY <2>2, <2>4, <3>1 DEF Order
  <2>9. \A k \in handed' : \/ k \in ran'
                           \/ \E w \in Workers : task'[w] = k
                           \/ \E n \in 1..Len(m_queue') : m_queue'[n][1] = k
    BY <2>4, <2>8
  <2> HIDE <1>2 DEF PushQueues, history
  <2> QED BY <2>4, <2>5, <2>6, <2>7, <2>9, OrderFromQueue
<1>3. ASSUME NEW c \in Clients, NEW k \in TaskKeys, CallWait(c, k) \/ Forget(c, k) PROVE Order'
  BY <1>3, OrderWhenQuiet DEF CallWait, Forget, TypeOK
<1>4. ASSUME NEW c \in Clients, WaitStep(c) \/ Spurious(c) PROVE Order'
  BY <1>4, OrderWhenQuiet DEF WaitStep, WaitReturns, WaitThrows, WaitSleeps, Leave, Spurious, TypeOK
<1>5. ASSUME NEW w \in Workers, PopTask(w) PROVE Order'
  <2> USE <1>5 DEF PopTask
  <2>1. /\ Len(m_queue) \in Nat /\ Len(m_queue) >= 1 /\ Len(m_queue') = Len(m_queue) - 1
        /\ \A n \in 1..Len(m_queue') : m_queue'[n] = m_queue[n + 1]
        /\ Head(m_queue) = m_queue[1]
    BY Popped
  <2>2. task'[w] = m_queue[1][1] /\ \A v \in Workers \ {w} : task'[v] = task[v]
    BY <2>1 DEF TypeOK
  <2>3. task[w] = NoKey BY DEF Places
  <2>4. /\ UNCHANGED <<handed, early, ran, i>> /\ pc'[Owner] = pc[Owner]
        /\ \A v \in Workers : pc'[v] = "exited" <=> pc[v] = "exited"
    BY DEF TypeOK
  <2>5. \A n \in 1..Len(m_queue') : n + 1 \in 1..Len(m_queue)
    BY <2>1
  <2>6. \A k \in handed : \/ k \in ran
                          \/ \E v \in Workers : task'[v] = k
                          \/ \E n \in 1..Len(m_queue') : m_queue'[n][1] = k
    <3> SUFFICES ASSUME NEW k \in handed, k \notin ran
                 PROVE  \/ \E v \in Workers : task'[v] = k
                        \/ \E n \in 1..Len(m_queue') : m_queue'[n][1] = k
      OBVIOUS
    <3>1. k # NoKey BY DEF TypeOK
    <3>2. CASE \E v \in Workers : task[v] = k
      BY <2>2, <2>3, <3>1, <3>2
    <3>3. CASE \E n \in 1..Len(m_queue) : m_queue[n][1] = k
      <4>1. PICK n \in 1..Len(m_queue) : m_queue[n][1] = k BY <3>3
      <4>2. CASE n = 1 BY <2>2, <4>1, <4>2
      <4>3. CASE n # 1
        <5>1. n - 1 \in 1..Len(m_queue') /\ (n - 1) + 1 = n BY <2>1, <4>1, <4>3
        <5> QED BY <2>1, <4>1, <5>1
      <4> QED BY <4>2, <4>3
    <3> QED BY <3>2, <3>3 DEF Order
  <2>7. \A m, n \in 1..Len(m_queue') :
          m_queue'[m][2] = "NULL" /\ m < n => m_queue'[n][1] \notin early
    BY <2>1, <2>5 DEF Order
  <2>8. \A v \in Workers, n \in 1..Len(m_queue') :
          pc[v] = "exited" => m_queue'[n][1] \notin early
    BY <2>1, <2>5 DEF Order
  <2>9. pc[Owner] = "alive" => \A n \in 1..Len(m_queue') : m_queue'[n][2] # "NULL"
    BY <2>1, <2>5 DEF Order
  <2> QED BY <2>4, <2>6, <2>7, <2>8, <2>9, OrderFromQueue
<1>6. ASSUME NEW w \in Workers, PopNull(w) PROVE Order'
  <2> USE <1>6 DEF PopNull
  <2>1. /\ Len(m_queue) \in Nat /\ Len(m_queue) >= 1 /\ Len(m_queue') = Len(m_queue) - 1
        /\ \A n \in 1..Len(m_queue') : m_queue'[n] = m_queue[n + 1]
        /\ Head(m_queue) = m_queue[1]
    BY Popped
  <2>2. /\ UNCHANGED <<task, handed, early, ran, i>> /\ pc'[Owner] = pc[Owner]
        /\ pc'[w] = "exited" /\ \A v \in Workers \ {w} : pc'[v] = pc[v]
    BY DEF TypeOK
  <2>3. m_queue[1][2] = "NULL" /\ 1 \in 1..Len(m_queue)
    BY <2>1
  <2>4. \A n \in 1..Len(m_queue') : n + 1 \in 1..Len(m_queue) /\ 1 < n + 1
    BY <2>1
  <2>5. \A n \in 1..Len(m_queue') : m_queue'[n][1] \notin early
    BY <2>1, <2>3, <2>4 DEF Order
  <2>6. pc[Owner] # "alive" BY <2>3 DEF Order
  <2>7. m_queue[1][1] \notin handed
    BY <2>3 DEF Unique
  <2>8. \A k \in handed : \/ k \in ran
                          \/ \E v \in Workers : task[v] = k
                          \/ \E n \in 1..Len(m_queue') : m_queue'[n][1] = k
    <3> SUFFICES ASSUME NEW k \in handed, NEW n \in 1..Len(m_queue), m_queue[n][1] = k
                 PROVE  \E m \in 1..Len(m_queue') : m_queue'[m][1] = k
      BY DEF Order
    <3>1. n # 1 BY <2>7
    <3>2. n - 1 \in 1..Len(m_queue') /\ (n - 1) + 1 = n BY <2>1, <3>1
    <3> QED BY <2>1, <3>2
  <2> QED BY <2>2, <2>5, <2>6, <2>8 DEF Order
<1>7. ASSUME NEW w \in Workers, TaskEnds(w) PROVE Order'
  <2>1. /\ UNCHANGED <<m_queue, task, handed, early, i>> /\ ran' = ran \cup {task[w]}
        /\ pc'[Owner] = pc[Owner] /\ \A v \in Workers : pc'[v] = "exited" <=> pc[v] = "exited"
    BY <1>7 DEF TaskEnds, TypeOK
  <2> QED BY <2>1 DEF Order
<1>8. ASSUME NEW w \in Workers, m_addToCompleted(w) PROVE Order'
  <2>1. /\ UNCHANGED <<m_queue, handed, early, ran, i>> /\ pc[w] = "add"
        /\ pc'[Owner] = pc[Owner] /\ \A v \in Workers : pc'[v] = "exited" <=> pc[v] = "exited"
    <3>1. \A t \in Threads : pc[t] # "asleep" /\ t # w => pc'[t] = pc[t]
      BY <1>8 DEF m_addToCompleted, WakeAll, TypeOK
    <3>2. pc'[w] = "pop" BY <1>8 DEF m_addToCompleted, WakeAll, TypeOK
    <3>3. pc[Owner] # "asleep" /\ \A v \in Workers : pc[v] # "asleep"
      BY DEF TypeOK, OwnerPCs, WorkerPCs
    <3> QED BY <1>8, <3>1, <3>2, <3>3 DEF m_addToCompleted
  <2>2. task[w] \in ran BY <2>1 DEF Unique
  <2>3. \A v \in Workers \ {w} : task'[v] = task[v]
    BY <1>8 DEF m_addToCompleted, TypeOK
  <2>4. \A k \in handed : \/ k \in ran
                          \/ \E v \in Workers : task'[v] = k
                          \/ \E n \in 1..Len(m_queue) : m_queue[n][1] = k
    BY <2>2, <2>3 DEF Order
  <2> QED BY <2>1, <2>4 DEF Order
<1>9. ASSUME DtorBegins PROVE Order'
  <2>1. /\ UNCHANGED <<m_queue, task, handed, ran, i>> /\ pc[Owner] = "alive" /\ pc'[Owner] = "pill"
        /\ \A w \in Workers : pc'[w] = pc[w]
    BY <1>9 DEF DtorBegins, TypeOK
  <2> QED BY <2>1 DEF Order
<1>10. ASSUME DtorTakesKey PROVE Order'
  <2>1. /\ UNCHANGED <<m_queue, task, handed, early, ran, i>>
        /\ pc[Owner] = "pill" /\ pc'[Owner] = "push"
        /\ \A w \in Workers : pc'[w] = pc[w]
    BY <1>10 DEF DtorTakesKey, TypeOK
  <2> QED BY <2>1 DEF Order
<1>11. ASSUME DtorQueuesNull PROVE Order'
  <2>1. /\ UNCHANGED <<task, handed, early, ran>> /\ pc[Owner] = "push"
        /\ \A w \in Workers : pc'[w] = pc[w]
        /\ pc'[Owner] = "pill" \/ (pc'[Owner] = "join" /\ i' = 0)
    BY <1>11 DEF DtorQueuesNull, TypeOK
  <2>2. key[Owner] \in Keys /\ key[Owner] \notin handed
    BY <2>1 DEF TypeOK, Places, Unique, Keys
  <2>3. /\ Len(m_queue) \in Nat /\ Len(m_queue') = Len(m_queue) + 1
        /\ \A n \in 1..Len(m_queue) : m_queue'[n] = m_queue[n]
        /\ m_queue'[Len(m_queue) + 1] = <<key[Owner], "NULL">>
    BY <1>11, <2>2, Appended DEF DtorQueuesNull
  <2>4. \A n \in 1..Len(m_queue') : \/ n \in 1..Len(m_queue) /\ m_queue'[n] = m_queue[n]
                                    \/ n = Len(m_queue) + 1 /\ m_queue'[n] = <<key[Owner], "NULL">>
    BY <2>3
  <2>5. \A m, n \in 1..Len(m_queue') :
          m_queue'[m][2] = "NULL" /\ m < n => m_queue'[n][1] \notin early
    BY <1>0, <2>2, <2>3, <2>4 DEF Order
  <2>6. \A w \in Workers, n \in 1..Len(m_queue') :
          pc[w] = "exited" => m_queue'[n][1] \notin early
    BY <1>0, <2>2, <2>4 DEF Order
  <2>7. \A n \in 1..Len(m_queue) : n \in 1..Len(m_queue') BY <2>3
  <2>8. \A k \in handed : \/ k \in ran
                          \/ \E w \in Workers : task[w] = k
                          \/ \E n \in 1..Len(m_queue') : m_queue'[n][1] = k
    BY <2>3, <2>7 DEF Order
  <2>9. pc'[Owner] = "join" => \A w \in Workers : ~(w <= i')
    BY <2>1
  <2>10. pc'[Owner] # "alive" /\ pc'[Owner] # "destroyed" BY <2>1
  <2> QED BY <2>1, <2>5, <2>6, <2>8, <2>9, <2>10 DEF Order
<1>12. ASSUME DtorJoins PROVE Order'
  <2>1. /\ UNCHANGED <<m_queue, task, handed, early, ran>> /\ i \in Nat /\ i' = i + 1
        /\ pc[Owner] = "join" /\ pc[i + 1] = "exited"
        /\ pc'[Owner] = "join" \/ (pc'[Owner] = "destroyed" /\ i + 1 >= NumThreads)
        /\ \A w \in Workers : pc'[w] = pc[w]
    BY <1>12 DEF DtorJoins, AllJoined, TypeOK
  <2>2. \A w \in Workers : w <= i + 1 => pc[w] = "exited"
    BY <2>1 DEF Order
  <2> QED BY <2>1, <2>2 DEF Order
<1>13. ASSUME UNCHANGED vars PROVE Order'
  BY <1>13, OrderWhenQuiet DEF vars
<1> QED
  BY <1>1, <1>2, <1>3, <1>4, <1>5, <1>6, <1>7, <1>8, <1>9, <1>10, <1>11, <1>12, <1>13
  DEF Next, WorkerStep, DtorStep

LEMMA InitOrder == Init => Order
<1> SUFFICES ASSUME Init PROVE Order OBVIOUS
<1>1. Len(m_queue) = 0 BY EmptySeq DEF Init
<1>2. pc[Owner] = "alive" /\ \A w \in Workers : pc[w] = "pop" BY SetFacts DEF Init
<1> QED BY SetFacts, <1>1, <1>2 DEF Init, Order

(* When the destructor has returned every worker has left its loop, and    *)
(* every task that was pushed before the destructor was called has run.    *)
THEOREM EarlyTasksHaveRun == Spec => []DestroyedAfterAllRan
<1>1. Spec => [](TypeOK /\ Places /\ Unique /\ Order)
  BY InitTypes, TypesKept, InitUnique, UniqueKept, InitOrder, OrderKept, PTL DEF Spec
<1>2. TypeOK /\ Places /\ Order => DestroyedAfterAllRan
  <2> SUFFICES ASSUME TypeOK, Places, Order, pc[Owner] = "destroyed"
               PROVE  early \subseteq ran /\ \A w \in Workers : pc[w] = "exited"
    BY DEF DestroyedAfterAllRan
  <2>1. \A w \in Workers : pc[w] = "exited" /\ task[w] = NoKey
    BY DEF Order, Places
  <2>2. 1 \in Workers BY SetFacts DEF Workers
  <2>3. \A n \in 1..Len(m_queue) : m_queue[n][1] \notin early
    BY <2>1, <2>2 DEF Order
  <2>4. \A k \in early : k \in handed /\ k # NoKey
    BY SetFacts DEF TypeOK
  <2> QED BY <2>1, <2>3, <2>4 DEF Order
<1> QED BY <1>1, <1>2, PTL
-----------------------------------------------------------------------------
(* What the two sets hold, key by key, and what settles a key.             *)
IsAdded(k) == k \in ran /\ \A w \in Workers : task[w] # k
IsReturned(k) == k \in waited /\ \A c \in Clients : ~(Waiting(c) /\ key[c] = k)

Accounts ==
    /\ \A c, d \in Clients : Waiting(c) /\ Waiting(d) /\ key[c] = key[d] => c = d
    /\ \A k : k \notin Contested =>
          /\ ~(k \in waited /\ k \in forgot)
          /\ IsReturned(k) => IsAdded(k)
          /\ k \in m_completed <=> IsAdded(k) /\ ~IsReturned(k) /\ k \notin forgot
          /\ k \in m_forgotten <=> k \in forgot /\ ~IsAdded(k)

(* Most steps change neither of the sets, nor what they depend on.         *)
LEMMA AccountsWhenQuiet ==
  ASSUME Accounts, UNCHANGED <<m_completed, m_forgotten, waited, forgot>>,
         \A k : IsAdded(k)' <=> IsAdded(k),
         \A c \in Clients : (Waiting(c)' <=> Waiting(c)) /\ (Waiting(c) => key'[c] = key[c])
  PROVE  Accounts'
<1>1. \A k : IsReturned(k)' <=> IsReturned(k) BY DEF IsReturned
<1> QED BY <1>1 DEF Accounts

LEMMA AccountsKept ==
  ASSUME TypeOK, Places, Unique, Accounts, [Next]_vars
  PROVE  Accounts'
<1> USE SetFacts DEF history
<1>1. ASSUME NEW t \in Workers \cup Clients, Push(t) \/ PushQueues(t) PROVE Accounts'
  <2>1. UNCHANGED <<m_completed, m_forgotten, waited, forgot, ran, task>>
    BY <1>1 DEF Push, PushQueues
  <2>2. \A c \in Clients : (Waiting(c)' <=> Waiting(c)) /\ (Waiting(c) => key'[c] = key[c])
    BY <1>1 DEF Push, PushQueues, MayCall, m_incrementKey, Home, Waiting, TypeOK
  <2> QED BY <2>1, <2>2, AccountsWhenQuiet DEF IsAdded
<1>2. ASSUME NEW c \in Clients, NEW k \in TaskKeys, CallWait(c, k) PROVE Accounts'
  <2>1. /\ UNCHANGED <<m_completed, m_forgotten, forgot, ran, task>>
        /\ waited' = waited \cup {k} /\ k \notin waited /\ (k \notin Contested => k \notin forgot)
        /\ ~Waiting(c) /\ Waiting(c)' /\ key'[c] = k
        /\ \A d \in Clients \ {c} : (Waiting(d)' <=> Waiting(d)) /\ key'[d] = key[d]
    BY <1>2 DEF CallWait, MaySettle, MayCall, Home, Waiting, TypeOK
  <2>2. \A d \in Clients : Waiting(d) => key[d] # k
    BY <2>1 DEF Places
  <2>3. \A j : (IsReturned(j)' <=> IsReturned(j)) /\ (IsAdded(j)' <=> IsAdded(j))
    BY <2>1 DEF IsReturned, IsAdded
  <2> QED BY <2>1, <2>2, <2>3 DEF Accounts
<1>3. ASSUME NEW c \in Clients, NEW k \in TaskKeys, Forget(c, k) PROVE Accounts'
  <2>1. /\ UNCHANGED <<waited, pc, key, ran, task>>
        /\ forgot' = forgot \cup {k} /\ (k \notin Contested => k \notin forgot /\ k \notin waited)
    BY <1>3 DEF Forget, MaySettle
  <2>2. \/ /\ k \in m_completed /\ m_completed' = m_completed \ {k}
           /\ m_forgotten' = m_forgotten
        \/ /\ k \notin m_completed /\ m_forgotten' = m_forgotten \cup {k}
           /\ m_completed' = m_completed
    BY <1>3 DEF Forget
  <2>3. \A j : (IsReturned(j)' <=> IsReturned(j)) /\ (IsAdded(j)' <=> IsAdded(j))
    BY <2>1 DEF IsReturned, IsAdded, Waiting
  <2>4. \A d \in Clients : (Waiting(d)' <=> Waiting(d)) /\ key'[d] = key[d]
    BY <2>1 DEF Waiting
  <2>5. k \notin Contested => ~IsReturned(k)
    BY <2>1 DEF IsReturned
  <2> QED BY <2>1, <2>2, <2>3, <2>4, <2>5 DEF Accounts
<1>4. ASSUME NEW c \in Clients, WaitReturns(c) PROVE Accounts'
  <2> PICK k : k = key[c] OBVIOUS
  <2>1. /\ UNCHANGED <<m_forgotten, waited, forgot, ran, task>>
        /\ k \in m_completed /\ m_completed' = m_completed \ {k}
        /\ Waiting(c) /\ ~Waiting(c)' /\ key[c] = k
        /\ \A d \in Clients \ {c} : (Waiting(d)' <=> Waiting(d)) /\ key'[d] = key[d]
    BY <1>4 DEF WaitReturns, AtLoop, Completed, Leave, Waiting, TypeOK
  <2>2. \A d \in Clients \ {c} : Waiting(d) => key[d] # k
    BY <2>1 DEF Accounts
  <2>3. k \in waited BY <2>1 DEF Places
  <2>4. \A j : IsAdded(j)' <=> IsAdded(j)
    BY <2>1 DEF IsAdded
  <2>5. ASSUME NEW j, j # k PROVE IsReturned(j)' <=> IsReturned(j)
    BY <2>1, <2>5 DEF IsReturned
  <2>6. IsReturned(k)' /\ ~IsReturned(k)
    <3>1. ASSUME NEW d \in Clients PROVE ~(Waiting(d)' /\ key'[d] = k)
      BY <2>1, <2>2
    <3> QED BY <2>1, <2>3, <3>1 DEF IsReturned
  <2>7. \A d, e \in Clients : Waiting(d)' /\ Waiting(e)' /\ key'[d] = key'[e] => d = e
    BY <2>1 DEF Accounts
  <2>8. ASSUME NEW j, j \notin Contested
        PROVE  /\ ~(j \in waited' /\ j \in forgot')
               /\ IsReturned(j)' => IsAdded(j)'
               /\ j \in m_completed' <=> IsAdded(j)' /\ ~IsReturned(j)' /\ j \notin forgot'
               /\ j \in m_forgotten' <=> j \in forgot' /\ ~IsAdded(j)'
    <3>1. CASE j = k BY <2>1, <2>3, <2>4, <2>6, <2>8, <3>1 DEF Accounts
    <3>2. CASE j # k BY <2>1, <2>4, <2>5, <2>8, <3>2 DEF Accounts
    <3> QED BY <3>1, <3>2
  <2> QED BY <2>7, <2>8 DEF Accounts
<1>5. ASSUME NEW c \in Clients, WaitThrows(c) PROVE Accounts'
  <2>1. /\ UNCHANGED <<m_completed, m_forgotten, waited, forgot, ran, task>>
        /\ key[c] \in m_forgotten /\ Waiting(c) /\ ~Waiting(c)'
        /\ \A d \in Clients \ {c} : (Waiting(d)' <=> Waiting(d)) /\ key'[d] = key[d]
    BY <1>5 DEF WaitThrows, AtLoop, Completed, Leave, Waiting, TypeOK
  <2>2. key[c] \in waited BY <2>1 DEF Places
  <2>3. key[c] \in Contested
    BY <2>1, <2>2 DEF Accounts
  <2>4. \A j : IsAdded(j)' <=> IsAdded(j)
    BY <2>1 DEF IsAdded
  <2>5. ASSUME NEW j, j # key[c] PROVE IsReturned(j)' <=> IsReturned(j)
    BY <2>1, <2>5 DEF IsReturned
  <2>6. \A d, e \in Clients : Waiting(d)' /\ Waiting(e)' /\ key'[d] = key'[e] => d = e
    BY <2>1 DEF Accounts
  <2>7. ASSUME NEW j, j \notin Contested
        PROVE  /\ ~(j \in waited' /\ j \in forgot')
               /\ IsReturned(j)' => IsAdded(j)'
               /\ j \in m_completed' <=> IsAdded(j)' /\ ~IsReturned(j)' /\ j \notin forgot'
               /\ j \in m_forgotten' <=> j \in forgot' /\ ~IsAdded(j)'
    BY <2>1, <2>3, <2>4, <2>5, <2>7 DEF Accounts
  <2> QED BY <2>6, <2>7 DEF Accounts
<1>6. ASSUME NEW c \in Clients, WaitSleeps(c) \/ Spurious(c) PROVE Accounts'
  <2>1. UNCHANGED <<m_completed, m_forgotten, waited, forgot, ran, task>>
    BY <1>6 DEF WaitSleeps, Spurious
  <2>2. \A d \in Clients : (Waiting(d)' <=> Waiting(d)) /\ (Waiting(d) => key'[d] = key[d])
    BY <1>6 DEF WaitSleeps, Spurious, AtLoop, Waiting, TypeOK
  <2> QED BY <2>1, <2>2, AccountsWhenQuiet DEF IsAdded
<1>7. ASSUME NEW w \in Workers, PopTask(w) PROVE Accounts'
  <2>1. UNCHANGED <<m_completed, m_forgotten, waited, forgot, ran, key>>
    BY <1>7 DEF PopTask
  <2>2. \A d \in Clients : Waiting(d)' <=> Waiting(d)
    BY <1>7 DEF PopTask, Waiting, TypeOK
  <2>3. task'[w] \notin ran /\ task[w] \notin ran /\ \A v \in Workers \ {w} : task'[v] = task[v]
    <3>1. m_queue[1][1] \notin ran /\ Head(m_queue) = m_queue[1]
      BY <1>7, Popped DEF PopTask, Unique
    <3>2. task[w] = NoKey BY <1>7 DEF PopTask, Places
    <3> QED BY <1>7, <3>1, <3>2 DEF PopTask, Unique, TypeOK
  <2>4. \A j : IsAdded(j)' <=> IsAdded(j)
    BY <2>1, <2>3 DEF IsAdded
  <2> QED BY <2>1, <2>2, <2>4, AccountsWhenQuiet
<1>8. ASSUME NEW w \in Workers, PopNull(w) PROVE Accounts'
  <2>1. UNCHANGED <<m_completed, m_forgotten, waited, forgot, ran, task, key>>
    BY <1>8 DEF PopNull
  <2>2. \A d \in Clients : Waiting(d)' <=> Waiting(d)
    BY <1>8 DEF PopNull, Waiting, TypeOK
  <2> QED BY <2>1, <2>2, AccountsWhenQuiet DEF IsAdded
<1>9. ASSUME NEW w \in Workers, TaskEnds(w) PROVE Accounts'
  <2>1. /\ UNCHANGED <<m_completed, m_forgotten, waited, forgot, task, key>>
        /\ ran' = ran \cup {task[w]}
    BY <1>9 DEF TaskEnds
  <2>2. \A d \in Clients : Waiting(d)' <=> Waiting(d)
    BY <1>9 DEF TaskEnds, Waiting, TypeOK
  <2> QED BY <2>1, <2>2, AccountsWhenQuiet DEF IsAdded
<1>10. ASSUME NEW w \in Workers, m_addToCompleted(w) PROVE Accounts'
  <2> PICK k : k = task[w] OBVIOUS
  <2>1. /\ UNCHANGED <<waited, forgot, ran, key>> /\ pc[w] = "add"
        /\ task'[w] = NoKey /\ \A v \in Workers \ {w} : task'[v] = task[v]
    BY <1>10 DEF m_addToCompleted, TypeOK
  <2>2. k \in ran /\ k # NoKey /\ (\A v \in Workers \ {w} : task[v] # k) /\ NoKey \notin ran
    BY <2>1 DEF Unique, Places, TypeOK
  <2>3. /\ IsAdded(k)' /\ ~IsAdded(k)
        /\ \A j : j # k => (IsAdded(j)' <=> IsAdded(j))
    BY <2>1, <2>2 DEF IsAdded
  <2>4. \A d \in Clients : Waiting(d)' <=> Waiting(d)
    BY <1>10 DEF m_addToCompleted, WakeAll, Waiting, TypeOK
  <2>5. \A j : IsReturned(j)' <=> IsReturned(j)
    BY <2>1, <2>4 DEF IsReturned
  <2>6. \/ k \in m_forgotten /\ m_forgotten' = m_forgotten \ {k} /\ m_completed' = m_completed
        \/ k \notin m_forgotten /\ m_completed' = m_completed \cup {k} /\ m_forgotten' = m_forgotten
    BY <1>10 DEF m_addToCompleted
  <2>7. \A d, e \in Clients : Waiting(d)' /\ Waiting(e)' /\ key'[d] = key'[e] => d = e
    BY <2>1, <2>4 DEF Accounts
  <2>8. ASSUME NEW j, j \notin Contested
        PROVE  /\ ~(j \in waited' /\ j \in forgot')
               /\ IsReturned(j)' => IsAdded(j)'
               /\ j \in m_completed' <=> IsAdded(j)' /\ ~IsReturned(j)' /\ j \notin forgot'
               /\ j \in m_forgotten' <=> j \in forgot' /\ ~IsAdded(j)'
    <3>1. CASE j = k BY <2>1, <2>3, <2>5, <2>6, <2>8, <3>1 DEF Accounts
    <3>2. CASE j # k BY <2>1, <2>3, <2>5, <2>6, <2>8, <3>2 DEF Accounts
    <3> QED BY <3>1, <3>2
  <2> QED BY <2>7, <2>8 DEF Accounts
<1>11. ASSUME DtorBegins \/ DtorStep PROVE Accounts'
  <2>1. UNCHANGED <<m_completed, m_forgotten, waited, forgot, ran, task>>
    BY <1>11 DEF DtorBegins, DtorStep, DtorTakesKey, DtorQueuesNull, DtorJoins
  <2>2. \A d \in Clients : (Waiting(d)' <=> Waiting(d)) /\ key'[d] = key[d]
    BY <1>11 DEF DtorBegins, DtorStep, DtorTakesKey, m_incrementKey, DtorQueuesNull, DtorJoins, Waiting, TypeOK
  <2> QED BY <2>1, <2>2, AccountsWhenQuiet DEF IsAdded
<1>12. ASSUME UNCHANGED vars PROVE Accounts'
  BY <1>12, AccountsWhenQuiet DEF vars, IsAdded, Waiting
<1> QED
  BY <1>1, <1>2, <1>3, <1>4, <1>5, <1>6, <1>7, <1>8, <1>9, <1>10, <1>11, <1>12
  DEF Next, WaitStep, WorkerStep

LEMMA InitAccounts == Init => Accounts
  BY SetFacts DEF Init, Accounts, IsAdded, IsReturned, Waiting

(* m_completed and m_forgotten hold exactly the keys that still matter, so *)
(* neither grows in a pool that lives long.                                *)
THEOREM SetsAreExact == Spec => []Bookkeeping
<1>1. Spec => [](TypeOK /\ Places /\ Unique /\ Accounts)
  BY InitTypes, TypesKept, InitUnique, UniqueKept, InitAccounts, AccountsKept, PTL DEF Spec
<1>2. Accounts => Bookkeeping
  BY DEF Accounts, IsAdded, IsReturned, Bookkeeping, Added, Returned
<1> QED BY <1>1, <1>2, PTL

(***************************************************************************)
(* Every step of tThreadPool is a step of TaskPool or a stutter, for any   *)
(* number of threads, clients and tasks. What is still needed is that      *)
(* clients wait for tasks' keys only.                                      *)
(***************************************************************************)
WaitsForATask == \A c \in Clients : Waiting(c) => key[c] \in TaskKeys

PoolInv == TypeOK /\ Places /\ Unique /\ Order /\ Accounts /\ WaitsForATask

LEMMA WaitsKept ==
  ASSUME TypeOK, WaitsForATask, [Next]_vars
  PROVE  WaitsForATask'
<1> USE SetFacts DEF WaitsForATask
<1>1. ASSUME NEW t \in Workers \cup Clients, Push(t) PROVE WaitsForATask'
  BY <1>1 DEF Push, MayCall, m_incrementKey, Home, Waiting, TypeOK
<1>2. ASSUME NEW t \in Workers \cup Clients, PushQueues(t) PROVE WaitsForATask'
  BY <1>2 DEF PushQueues, Home, Waiting, TypeOK
<1>3. ASSUME NEW c \in Clients, NEW k \in TaskKeys, CallWait(c, k) PROVE WaitsForATask'
  BY <1>3 DEF CallWait, Waiting, TypeOK
<1>4. ASSUME NEW c \in Clients, NEW k \in TaskKeys, Forget(c, k) PROVE WaitsForATask'
  BY <1>4 DEF Forget, Waiting
<1>5. ASSUME NEW c \in Clients, WaitReturns(c) \/ WaitThrows(c) PROVE WaitsForATask'
  BY <1>5 DEF WaitReturns, WaitThrows, Leave, Waiting, TypeOK
<1>6. ASSUME NEW c \in Clients, WaitSleeps(c) \/ Spurious(c) PROVE WaitsForATask'
  BY <1>6 DEF WaitSleeps, Spurious, AtLoop, Waiting, TypeOK
<1>7. ASSUME NEW w \in Workers, PopTask(w) \/ PopNull(w) \/ TaskEnds(w) PROVE WaitsForATask'
  BY <1>7 DEF PopTask, PopNull, TaskEnds, history, Waiting, TypeOK
<1>8. ASSUME NEW w \in Workers, m_addToCompleted(w) PROVE WaitsForATask'
  BY <1>8 DEF m_addToCompleted, WakeAll, Waiting, TypeOK
<1>9. ASSUME DtorBegins \/ DtorStep PROVE WaitsForATask'
  BY <1>9 DEF DtorBegins, DtorStep, DtorTakesKey, DtorQueuesNull, DtorJoins,
              m_incrementKey, Waiting, TypeOK
<1>10. ASSUME UNCHANGED vars PROVE WaitsForATask'
  BY <1>10 DEF vars, Waiting
<1> QED
  BY <1>1, <1>2, <1>3, <1>4, <1>5, <1>6, <1>7, <1>8, <1>9, <1>10
  DEF Next, WaitStep, WorkerStep

LEMMA SpecPoolInv == Spec => []PoolInv
<1>1. Init => WaitsForATask BY SetFacts DEF Init, WaitsForATask, Waiting
<1> QED
  BY <1>1, InitTypes, TypesKept, InitUnique, UniqueKept, InitOrder, OrderKept,
     InitAccounts, AccountsKept, WaitsKept, PTL DEF Spec, PoolInv
-----------------------------------------------------------------------------
(* What the refinement mapping says of a task and of a client.             *)
LEMMA StatusIs ==
  ASSUME PoolInv, NEW k
  PROVE  /\ k \in ran => Status(k) = "done"
         /\ k \in Held /\ k \notin ran => Status(k) = "running"
         /\ k \in QueuedTasks => Status(k) \in {"accepted", "late"} /\ k \notin ran /\ k \notin Held
         /\ k \notin ran \cup Held \cup QueuedTasks => Status(k) = "new"
<1>1. k \in QueuedTasks => k \notin ran /\ k \notin Held
  BY Elements DEF PoolInv, Unique, QueuedTasks, Held
<1> QED BY <1>1 DEF Status

LEMMA InQueue ==
  ASSUME TypeOK, NEW k
  PROVE  k \in QueuedTasks <=>
           \E n \in 1..Len(m_queue) : m_queue[n][1] = k /\ m_queue[n][2] = "task"
  BY Elements DEF QueuedTasks

(* A step that changes the status of one task at most.                     *)
KeepsStatus(k) == Status(k)' = Status(k)
KeepsWaiting(c) == (IF Waiting(c) /\ key[c] \notin Contested THEN key[c] ELSE NoKey)'
                    = IF Waiting(c) /\ key[c] \notin Contested THEN key[c] ELSE NoKey

LEMMA StatusWhenQuiet ==
  ASSUME UNCHANGED <<m_queue, task, ran, early>>, pc'[Owner] = "alive" <=> pc[Owner] = "alive"
  PROVE  \A k : KeepsStatus(k)
  BY DEF KeepsStatus, Status, Held, QueuedTasks

LEMMA StatusFromSets ==
  ASSUME NEW k, k \in ran' <=> k \in ran, k \in Held' <=> k \in Held,
         k \in QueuedTasks' <=> k \in QueuedTasks,
         k \in QueuedTasks =>
           (pc'[Owner] = "alive" \/ k \in early' <=> pc[Owner] = "alive" \/ k \in early)
  PROVE  KeepsStatus(k)
  BY DEF KeepsStatus, Status

LEMMA Stutters ==
  ASSUME \A k \in TaskKeys : KeepsStatus(k), \A c \in Clients : KeepsWaiting(c)
  PROVE  UNCHANGED TP!vars
  BY DEF TP!vars, KeepsStatus, KeepsWaiting

LEMMA OneBecomes ==
  ASSUME NEW j, NEW s, Status(j)' = s, \A k \in TaskKeys \ {j} : KeepsStatus(k),
         \A c \in Clients : KeepsWaiting(c)
  PROVE  j \in TaskKeys => TP!Becomes(j, s)
  BY DEF TP!Becomes, KeepsStatus, KeepsWaiting

-----------------------------------------------------------------------------
(* One lemma for each step that TaskPool sees.                             *)
LEMMA PushQueuesSubmits ==
  ASSUME PoolInv, PoolInv', NEW t \in Workers \cup Clients, PushQueues(t)
  PROVE  TP!Next \/ UNCHANGED TP!vars
<1> USE SetFacts DEF PoolInv
<1> PICK j : j = key[t] OBVIOUS
<1>1. j \in Keys /\ j \notin handed
  BY DEF PushQueues, TypeOK, Places, Unique, Keys
<1>2. /\ Len(m_queue) \in Nat /\ Len(m_queue') = Len(m_queue) + 1
      /\ \A n \in 1..Len(m_queue) : m_queue'[n] = m_queue[n]
      /\ m_queue'[Len(m_queue) + 1] = <<j, "task">>
  BY <1>1, Appended DEF PushQueues
<1>3. \A k : k \in QueuedTasks' <=> k \in QueuedTasks \/ k = j
  <2>1. DOMAIN m_queue = 1..Len(m_queue) /\ DOMAIN m_queue' = 1..(Len(m_queue) + 1)
    BY <1>2, Elements, LenProperties DEF TypeOK
  <2> QED BY <1>2, <2>1 DEF QueuedTasks
<1>4. UNCHANGED <<ran, task, early, Held>> /\ pc'[Owner] = pc[Owner]
  BY DEF PushQueues, Held, TypeOK
<1>5. \A k \in TaskKeys \ {j} : KeepsStatus(k)
  BY <1>3, <1>4, StatusFromSets
<1>6. \A c \in Clients : KeepsWaiting(c)
  BY DEF KeepsWaiting, PushQueues, Waiting, Home, TypeOK
<1>7. j \notin ran /\ j \notin Held /\ j \notin QueuedTasks
  BY <1>1, InQueue DEF Unique, Places, Held, PushQueues
<1>8. Status(j) = "new" BY <1>7, StatusIs
<1>9. PICK s \in {"accepted", "late"} : s = Status(j)'
  BY <1>3, <1>4, <1>7 DEF Status
<1>10. CASE j \in TaskKeys
  <2>1. TP!Becomes(j, s) BY <1>5, <1>6, <1>9, <1>10, OneBecomes
  <2>2. TP!Submit(j) BY <1>8, <1>10, <2>1 DEF TP!Submit
  <2> QED BY <1>10, <2>2 DEF TP!Next
<1>11. CASE j \notin TaskKeys
  BY <1>5, <1>6, <1>11, Stutters
<1> QED BY <1>10, <1>11

LEMMA PopTaskStarts ==
  ASSUME PoolInv, PoolInv', NEW w \in Workers, PopTask(w)
  PROVE  TP!Next \/ UNCHANGED TP!vars
<1> USE SetFacts DEF PoolInv
<1> PICK j : j = m_queue[1][1] OBVIOUS
<1>1. /\ Len(m_queue) \in Nat /\ Len(m_queue) >= 1 /\ Len(m_queue') = Len(m_queue) - 1
      /\ \A n \in 1..Len(m_queue') : m_queue'[n] = m_queue[n + 1]
      /\ Head(m_queue) = m_queue[1]
  BY Popped DEF PopTask
<1>2. m_queue[1][2] = "task" /\ j # NoKey
  BY <1>1, Elements DEF PopTask
<1>3. \A k : k \in QueuedTasks' <=> k \in QueuedTasks /\ k # j
  <2>1. DOMAIN m_queue = 1..Len(m_queue) /\ DOMAIN m_queue' = 1..(Len(m_queue) - 1)
    BY <1>1, Elements, LenProperties DEF TypeOK
  <2>2. \A n \in 1..Len(m_queue) : m_queue[n][1] = j <=> n = 1
    BY <1>1 DEF Unique
  <2>3. \A n \in 1..Len(m_queue) : n = 1 \/ (n - 1 \in 1..Len(m_queue') /\ m_queue'[n - 1] = m_queue[n])
    BY <1>1
  <2>4. \A n \in 1..Len(m_queue') : n + 1 \in 1..Len(m_queue) /\ n + 1 # 1
    BY <1>1
  <2>8. \A k : k \in QueuedTasks <=> \E n \in 1..Len(m_queue) : m_queue[n][1] = k /\ m_queue[n][2] = "task"
    BY InQueue
  <2>9. \A k : k \in QueuedTasks' <=>
              \E n \in 1..Len(m_queue') : m_queue'[n][1] = k /\ m_queue'[n][2] = "task"
    BY <1>1, <2>1 DEF QueuedTasks
  <2>10. ASSUME NEW k \in QueuedTasks' PROVE k \in QueuedTasks /\ k # j
    <3>1. PICK n \in 1..Len(m_queue') : m_queue'[n][1] = k /\ m_queue'[n][2] = "task" BY <2>9
    <3>2. PICK p \in 1..Len(m_queue) : p # 1 /\ m_queue[p] = m_queue'[n] BY <1>1, <2>4
    <3>3. k \in QueuedTasks BY <2>8, <3>1, <3>2
    <3>4. k # j BY <2>2, <3>1, <3>2
    <3> QED BY <3>3, <3>4
  <2>11. ASSUME NEW k \in QueuedTasks, k # j PROVE k \in QueuedTasks'
    <3>1. PICK n \in 1..Len(m_queue) : m_queue[n][1] = k /\ m_queue[n][2] = "task" BY <2>8
    <3>2. n # 1 BY <2>2, <2>11, <3>1
    <3>3. n - 1 \in 1..Len(m_queue') /\ m_queue'[n - 1] = m_queue[n] BY <2>3, <3>2
    <3>4. m_queue'[n - 1][1] = k /\ m_queue'[n - 1][2] = "task" BY <3>1, <3>3
    <3> QED BY <2>9, <3>3, <3>4
  <2> QED BY <2>10, <2>11
<1>4. UNCHANGED <<ran, early>> /\ pc'[Owner] = pc[Owner]
  BY DEF PopTask, history, TypeOK
<1>5. task[w] = NoKey /\ task'[w] = j /\ \A v \in Workers \ {w} : task'[v] = task[v]
  <2>1. /\ w \in DOMAIN task /\ pc[w] = "pop" /\ task' = [task EXCEPT ![w] = Head(m_queue)[1]]
        /\ DOMAIN task = Workers
    BY DEF PopTask, TypeOK
  <2>2. task[w] = NoKey BY <2>1 DEF Places
  <2> QED BY <1>1, <2>1, <2>2
<1>6. \A k : k \in Held' <=> k \in Held \/ k = j
  <2>1. ASSUME NEW k \in Held' PROVE k \in Held \/ k = j
    <3>1. PICK v \in Workers : task'[v] = k /\ k # NoKey BY <2>1 DEF Held
    <3> QED BY <1>5, <3>1 DEF Held
  <2>2. ASSUME NEW k \in Held PROVE k \in Held'
    <3>1. PICK v \in Workers : task[v] = k /\ k # NoKey BY <2>2 DEF Held
    <3>2. v # w BY <1>5, <3>1
    <3> QED BY <1>5, <3>1, <3>2 DEF Held
  <2>3. j \in Held' BY <1>2, <1>5 DEF Held
  <2> QED BY <2>1, <2>2, <2>3
<1>7. \A k \in TaskKeys \ {j} : KeepsStatus(k)
  BY <1>3, <1>4, <1>6, StatusFromSets
<1>8. \A c \in Clients : KeepsWaiting(c)
  BY DEF KeepsWaiting, PopTask, Waiting, TypeOK
<1>9. j \in QueuedTasks
  BY <1>1, <1>2, InQueue
<1>10. Status(j) \in {"accepted", "late"} /\ j \notin ran
  BY <1>9, StatusIs
<1>11. Status(j)' = "running"
  BY <1>3, <1>4, <1>6, <1>10 DEF Status
<1>12. CASE j \in TaskKeys
  <2>1. TP!Becomes(j, "running") BY <1>7, <1>8, <1>11, <1>12, OneBecomes
  <2>2. TP!Start(j) BY <1>10, <1>12, <2>1 DEF TP!Start
  <2> QED BY <1>12, <2>2 DEF TP!Next
<1>13. CASE j \notin TaskKeys
  BY <1>7, <1>8, <1>13, Stutters
<1> QED BY <1>12, <1>13

LEMMA TaskEndsFinishes ==
  ASSUME PoolInv, PoolInv', NEW w \in Workers, TaskEnds(w)
  PROVE  TP!Next \/ UNCHANGED TP!vars
<1> USE SetFacts DEF PoolInv
<1> PICK j : j = task[w] OBVIOUS
<1>1. UNCHANGED <<m_queue, task, early, QueuedTasks, Held>> /\ pc'[Owner] = pc[Owner]
      /\ ran' = ran \cup {j}
  BY DEF TaskEnds, TypeOK, QueuedTasks, Held
<1>2. j \in Held /\ j \notin ran
  BY DEF TaskEnds, Places, Unique, Held
<1>3. \A k \in TaskKeys \ {j} : KeepsStatus(k)
  BY <1>1, StatusFromSets
<1>4. \A c \in Clients : KeepsWaiting(c)
  BY DEF KeepsWaiting, TaskEnds, Waiting, TypeOK
<1>5. Status(j) = "running" /\ Status(j)' = "done"
  <2>1. Status(j) = "running" /\ j \notin QueuedTasks BY <1>2, StatusIs
  <2>2. j \in ran' /\ j \notin QueuedTasks' BY <1>1, <2>1
  <2> QED BY <2>1, <2>2 DEF Status
<1>6. CASE j \in TaskKeys
  <2>1. TP!Becomes(j, "done") BY <1>3, <1>4, <1>5, <1>6, OneBecomes
  <2>2. TP!Finish(j) BY <1>5, <1>6, <2>1 DEF TP!Finish
  <2> QED BY <1>6, <2>2 DEF TP!Next
<1>7. CASE j \notin TaskKeys
  BY <1>3, <1>4, <1>7, Stutters
<1> QED BY <1>6, <1>7

LEMMA CallWaitBegins ==
  ASSUME PoolInv, NEW c \in Clients, NEW k \in TaskKeys, CallWait(c, k)
  PROVE  TP!Next \/ UNCHANGED TP!vars
<1> USE SetFacts DEF PoolInv
<1>1. \A j : KeepsStatus(j)
  BY StatusWhenQuiet DEF CallWait, TypeOK
<1>2. /\ ~Waiting(c) /\ Waiting(c)' /\ key'[c] = k
      /\ \A d \in Clients \ {c} : KeepsWaiting(d)
  BY DEF CallWait, MayCall, Home, Waiting, KeepsWaiting, TypeOK
<1>3. k \in ran \cup Held \cup QueuedTasks
  <2>1. k \in handed /\ k # NoKey BY DEF CallWait, MaySettle, TaskKeys
  <2> QED BY <2>1, InQueue DEF Order, Unique, Held
<1>4. Status(k) # "new"
  BY <1>3, StatusIs
<1>5. CASE k \in Contested
  BY <1>1, <1>2, <1>5, Stutters DEF KeepsWaiting
<1>6. CASE k \notin Contested
  <2>1. TP!BeginWait(c, k)
    BY <1>1, <1>2, <1>4, <1>6 DEF TP!BeginWait, KeepsStatus, KeepsWaiting
  <2> QED BY <2>1 DEF TP!Next
<1> QED BY <1>5, <1>6

LEMMA WaitReturnsEnds ==
  ASSUME PoolInv, NEW c \in Clients, WaitReturns(c)
  PROVE  TP!Next \/ UNCHANGED TP!vars
<1> USE SetFacts DEF PoolInv
<1> PICK k : k = key[c] OBVIOUS
<1>1. \A j : KeepsStatus(j)
  BY StatusWhenQuiet DEF WaitReturns, Leave, history, TypeOK
<1>2. /\ Waiting(c) /\ ~Waiting(c)'
      /\ \A d \in Clients \ {c} : KeepsWaiting(d)
  BY DEF WaitReturns, Leave, AtLoop, Waiting, KeepsWaiting, TypeOK
<1>3. k \in TaskKeys /\ k # NoKey
  BY <1>2 DEF WaitsForATask, TaskKeys
<1>4. CASE k \in Contested
  BY <1>1, <1>2, <1>4, Stutters DEF KeepsWaiting
<1>5. CASE k \notin Contested
  <2>1. k \in ran BY <1>5 DEF WaitReturns, Completed, Accounts, IsAdded
  <2>2. Status(k) = "done" BY <2>1, StatusIs
  <2>3. TP!EndWait(c)
    BY <1>1, <1>2, <1>3, <1>5, <2>2 DEF TP!EndWait, KeepsStatus, KeepsWaiting
  <2> QED BY <2>3 DEF TP!Next
<1> QED BY <1>4, <1>5

(* Only a contested key can be forgotten by the time its waiter looks.     *)
LEMMA WaitThrowsStutters ==
  ASSUME PoolInv, NEW c \in Clients, WaitThrows(c)
  PROVE  UNCHANGED TP!vars
<1> USE SetFacts DEF PoolInv
<1>1. \A j : KeepsStatus(j)
  BY StatusWhenQuiet DEF WaitThrows, Leave, history, TypeOK
<1>2. /\ Waiting(c) /\ ~Waiting(c)'
      /\ \A d \in Clients \ {c} : KeepsWaiting(d)
  BY DEF WaitThrows, Leave, AtLoop, Waiting, KeepsWaiting, TypeOK
<1>3. key[c] \in Contested
  BY <1>2 DEF WaitThrows, Places, Accounts
<1> QED BY <1>1, <1>2, <1>3, Stutters DEF KeepsWaiting

(* What a worker adds to m_completed has run already.                      *)
LEMMA AddStutters ==
  ASSUME PoolInv, PoolInv', NEW w \in Workers, m_addToCompleted(w)
  PROVE  UNCHANGED TP!vars
<1> USE SetFacts DEF PoolInv
<1> PICK j : j = task[w] OBVIOUS
<1>1. UNCHANGED <<m_queue, ran, early, key, QueuedTasks>> /\ j \in ran
  BY DEF m_addToCompleted, history, Unique, QueuedTasks
<1>2. pc'[Owner] = pc[Owner] /\ \A c \in Clients : Waiting(c)' <=> Waiting(c)
  BY DEF m_addToCompleted, WakeAll, Waiting, TypeOK, OwnerPCs
<1>3. j # NoKey /\ task'[w] = NoKey /\ \A v \in Workers \ {w} : task'[v] = task[v]
  BY DEF m_addToCompleted, Places, TypeOK
<1>4. \A k : k # j => (k \in Held' <=> k \in Held)
  BY <1>3 DEF Held
<1>5. \A k \in TaskKeys \ {j} : KeepsStatus(k)
  BY <1>1, <1>2, <1>4, StatusFromSets
<1>6. KeepsStatus(j)
  <2>1. Status(j) = "done" BY <1>1, StatusIs
  <2>2. j \in ran' /\ j \notin Held' BY <1>1, <1>3 DEF Unique, Held
  <2>3. j \notin QueuedTasks' BY <1>1, StatusIs
  <2>4. Status(j)' = "done" BY <2>2, <2>3 DEF Status
  <2> QED BY <2>1, <2>4 DEF KeepsStatus
<1>7. \A c \in Clients : KeepsWaiting(c)
  BY <1>1, <1>2 DEF KeepsWaiting
<1> QED BY <1>5, <1>6, <1>7, Stutters

(* What is queued when the destructor is called counts as accepted before  *)
(* and after.                                                              *)
LEMMA DtorBeginsStutters ==
  ASSUME PoolInv, DtorBegins
  PROVE  UNCHANGED TP!vars
<1> USE SetFacts DEF PoolInv
<1>1. UNCHANGED <<m_queue, ran, task, key, QueuedTasks, Held>> /\ early' = handed /\ pc[Owner] = "alive"
  BY DEF DtorBegins, QueuedTasks, Held
<1>2. \A k \in QueuedTasks : k \in handed
  BY InQueue DEF Places
<1>3. \A k : KeepsStatus(k)
  BY <1>1, <1>2, StatusFromSets
<1>4. \A c \in Clients : KeepsWaiting(c)
  BY DEF KeepsWaiting, DtorBegins, Waiting, TypeOK
<1> QED BY <1>3, <1>4, Stutters

LEMMA DtorQueuesNullStutters ==
  ASSUME PoolInv, PoolInv', DtorQueuesNull
  PROVE  UNCHANGED TP!vars
<1> USE SetFacts DEF PoolInv
<1>1. key[Owner] \in Keys
  BY DEF DtorQueuesNull, TypeOK, Places, PillsTaken, Keys
<1>2. /\ Len(m_queue) \in Nat /\ Len(m_queue') = Len(m_queue) + 1
      /\ \A n \in 1..Len(m_queue) : m_queue'[n] = m_queue[n]
      /\ m_queue'[Len(m_queue) + 1] = <<key[Owner], "NULL">>
  BY <1>1, Appended DEF DtorQueuesNull
<1>3. \A k : k \in QueuedTasks' <=> k \in QueuedTasks
  <2>1. DOMAIN m_queue = 1..Len(m_queue) /\ DOMAIN m_queue' = 1..(Len(m_queue) + 1)
    BY <1>2, Elements, LenProperties DEF TypeOK
  <2> QED BY <1>2, <2>1 DEF QueuedTasks
<1>4. UNCHANGED <<ran, task, early, Held>> /\ pc[Owner] # "alive" /\ pc'[Owner] # "alive"
  BY DEF DtorQueuesNull, history, Held, TypeOK
<1>5. \A k : KeepsStatus(k)
  BY <1>3, <1>4, StatusFromSets
<1>6. \A c \in Clients : KeepsWaiting(c)
  BY DEF KeepsWaiting, DtorQueuesNull, Waiting, TypeOK
<1> QED BY <1>5, <1>6, Stutters

LEMMA PopNullStutters ==
  ASSUME PoolInv, PoolInv', NEW w \in Workers, PopNull(w)
  PROVE  UNCHANGED TP!vars
<1> USE SetFacts DEF PoolInv
<1>1. /\ Len(m_queue) \in Nat /\ Len(m_queue) >= 1 /\ Len(m_queue') = Len(m_queue) - 1
      /\ \A n \in 1..Len(m_queue') : m_queue'[n] = m_queue[n + 1]
      /\ Head(m_queue) = m_queue[1]
  BY Popped DEF PopNull
<1>2. m_queue[1][2] = "NULL"
  BY <1>1, Elements DEF PopNull
<1>3. \A k : k \in QueuedTasks' <=> k \in QueuedTasks
  <2>1. DOMAIN m_queue = 1..Len(m_queue) /\ DOMAIN m_queue' = 1..(Len(m_queue) - 1)
    BY <1>1, Elements, LenProperties DEF TypeOK
  <2>2. \A n \in 1..Len(m_queue) : n = 1 \/ (n - 1 \in 1..Len(m_queue') /\ m_queue'[n - 1] = m_queue[n])
    BY <1>1
  <2>3. \A n \in 1..Len(m_queue') : n + 1 \in 1..Len(m_queue)
    BY <1>1
  <2>8. \A k : k \in QueuedTasks <=> \E n \in 1..Len(m_queue) : m_queue[n][1] = k /\ m_queue[n][2] = "task"
    BY InQueue
  <2>9. \A k : k \in QueuedTasks' <=>
              \E n \in 1..Len(m_queue') : m_queue'[n][1] = k /\ m_queue'[n][2] = "task"
    BY <1>1, <2>1 DEF QueuedTasks
  <2>10. ASSUME NEW k \in QueuedTasks' PROVE k \in QueuedTasks
    <3>1. PICK n \in 1..Len(m_queue') : m_queue'[n][1] = k /\ m_queue'[n][2] = "task" BY <2>9
    <3>2. n + 1 \in 1..Len(m_queue) /\ m_queue[n + 1] = m_queue'[n] BY <1>1, <2>3
    <3> QED BY <2>8, <3>1, <3>2
  <2>11. ASSUME NEW k \in QueuedTasks PROVE k \in QueuedTasks'
    <3>1. PICK n \in 1..Len(m_queue) : m_queue[n][1] = k /\ m_queue[n][2] = "task" BY <2>8
    <3>2. n # 1 BY <1>2, <3>1
    <3>3. n - 1 \in 1..Len(m_queue') /\ m_queue'[n - 1] = m_queue[n] BY <2>2, <3>2
    <3> QED BY <2>9, <3>1, <3>3
  <2> QED BY <2>10, <2>11
<1>4. UNCHANGED <<ran, task, early, Held>> /\ pc'[Owner] = pc[Owner]
  BY DEF PopNull, history, Held, TypeOK
<1>5. \A k : KeepsStatus(k)
  BY <1>3, <1>4, StatusFromSets
<1>6. \A c \in Clients : KeepsWaiting(c)
  BY DEF KeepsWaiting, PopNull, Waiting, TypeOK
<1> QED BY <1>5, <1>6, Stutters

LEMMA OthersStutter ==
  ASSUME PoolInv,
         \/ \E t \in Workers \cup Clients : Push(t)
         \/ \E c \in Clients : \/ WaitSleeps(c) \/ Spurious(c)
                               \/ \E k \in TaskKeys : Forget(c, k)
         \/ DtorTakesKey \/ DtorJoins \/ UNCHANGED vars
  PROVE  UNCHANGED TP!vars
<1> USE SetFacts DEF PoolInv, history
<1>1. \A k : KeepsStatus(k)
  <2>1. UNCHANGED <<m_queue, task, ran, early>>
    BY DEF Push, WaitSleeps, Spurious, Forget, DtorTakesKey, DtorJoins, vars
  <2>2. pc'[Owner] = "alive" <=> pc[Owner] = "alive"
    BY DEF Push, WaitSleeps, Spurious, Forget, DtorTakesKey, DtorJoins, vars, TypeOK
  <2> QED BY <2>1, <2>2, StatusWhenQuiet
<1>2. \A c \in Clients : KeepsWaiting(c)
  <2>1. ASSUME NEW t \in Workers \cup Clients, Push(t) PROVE \A c \in Clients : KeepsWaiting(c)
    BY <2>1 DEF Push, MayCall, m_incrementKey, Home, KeepsWaiting, Waiting, TypeOK
  <2>2. ASSUME NEW d \in Clients, WaitSleeps(d) \/ Spurious(d)
        PROVE  \A c \in Clients : KeepsWaiting(c)
    BY <2>2 DEF WaitSleeps, Spurious, AtLoop, KeepsWaiting, Waiting, TypeOK
  <2>3. ASSUME UNCHANGED <<pc, key>> PROVE \A c \in Clients : KeepsWaiting(c)
    BY <2>3 DEF KeepsWaiting, Waiting
  <2>4. ASSUME DtorTakesKey \/ DtorJoins PROVE \A c \in Clients : KeepsWaiting(c)
    BY <2>4 DEF DtorTakesKey, DtorJoins, m_incrementKey, KeepsWaiting, Waiting, TypeOK
  <2> QED BY <2>1, <2>2, <2>3, <2>4 DEF Forget, vars
<1> QED BY <1>1, <1>2, Stutters

LEMMA NextSimulates == PoolInv /\ PoolInv' /\ [Next]_vars => [TP!Next]_(TP!vars)
<1> SUFFICES ASSUME PoolInv, PoolInv', [Next]_vars PROVE TP!Next \/ UNCHANGED TP!vars
  OBVIOUS
<1> QED
  BY PushQueuesSubmits, PopTaskStarts, TaskEndsFinishes, CallWaitBegins, WaitReturnsEnds,
     WaitThrowsStutters, AddStutters, DtorBeginsStutters, DtorQueuesNullStutters,
     PopNullStutters, OthersStutter
  DEF Next, WaitStep, WorkerStep, DtorStep

(* tThreadPool implements the safety of TaskPool: a task starts only after *)
(* it was queued, starts once and ends once, and a wait on a key settled   *)
(* once returns only when the key's task has run.                          *)
THEOREM ImplementsSafety == Spec => TP!SafeSpec
<1>1. Init => TP!Init
  <2> SUFFICES ASSUME Init PROVE TP!Init OBVIOUS
  <2>1. /\ \A w \in Workers : task[w] = NoKey
        /\ \A c \in Clients : ~Waiting(c)
        /\ Len(m_queue) = 0 /\ DOMAIN m_queue = {} /\ ran = {}
    BY SetFacts, EmptySeq DEF Init, Waiting
  <2>2. Held = {} /\ QueuedTasks = {}
    BY <2>1 DEF Held, QueuedTasks
  <2>3. \A k : Status(k) = "new"
    BY <2>1, <2>2 DEF Status
  <2> QED BY <2>1, <2>3 DEF TP!Init
<1> QED BY <1>1, NextSimulates, SpecPoolInv, PTL DEF Spec, TP!SafeSpec
=============================================================================
