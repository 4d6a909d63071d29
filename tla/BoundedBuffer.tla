--------------------------- MODULE BoundedBuffer ---------------------------
(***************************************************************************)
(* What tPCQ promises its callers (include/rho/sync/tPCQ.h, the comments   *)
(* on nPCQOverflowBehavior, push and pop), with no mutex and no condition  *)
(* variables: a FIFO buffer on which every push and every pop takes effect *)
(* at one instant between its call and its return.                         *)
(***************************************************************************)
EXTENDS Naturals, Sequences

CONSTANTS Producers,   (* threads that push                                *)
          Consumers,   (* threads that pop                                 *)
          Items,       (* what is pushed                                   *)
          NoItem,      (* no push in progress / nothing popped yet         *)
          Capacity,    (* items that fit before the overflow behaviour     *)
          Behaviors,   (* the overflow behaviours considered               *)
          Memory       (* items for which there is memory                  *)

VARIABLES behavior,    (* the overflow behaviour this buffer was built with *)
          buffer,      (* the items, oldest first                           *)
          offer,       (* offer[p]: the item p is in the middle of pushing  *)
          request,     (* request[c]: "none", "pop" or "timedpop"           *)
          got          (* got[c]: what c's last successful pop returned     *)

vars == <<behavior, buffer, offer, request, got>>

Full == Len(buffer) >= Capacity

Init ==
    /\ behavior \in Behaviors
    /\ buffer = <<>>
    /\ offer = [p \in Producers |-> NoItem]
    /\ request = [c \in Consumers |-> "none"]
    /\ got = [c \in Consumers |-> NoItem]

(* A thread calls push(x).                                                 *)
Offer(p, x) ==
    /\ offer[p] = NoItem
    /\ offer' = [offer EXCEPT ![p] = x]
    /\ UNCHANGED <<behavior, buffer, request, got>>

(* The push takes effect: there is room, or the buffer grows.              *)
Accept(p) ==
    /\ offer[p] # NoItem
    /\ ~Full \/ behavior = "kGrow"
    /\ buffer' = Append(buffer, offer[p])
    /\ offer' = [offer EXCEPT ![p] = NoItem]
    /\ UNCHANGED <<behavior, request, got>>

(* The push ends without effect: the item is discarded, or the call throws *)
(* eBufferOverflow, or there is no memory. A kBlock push ends this way     *)
(* only for want of memory.                                                *)
Refuse(p) ==
    /\ offer[p] # NoItem
    /\ \/ Full /\ behavior \in {"kDiscard", "kThrow"}
       \/ Len(buffer) = Memory
    /\ offer' = [offer EXCEPT ![p] = NoItem]
    /\ UNCHANGED <<behavior, buffer, request, got>>

(* A thread calls pop() or pop(timeoutMS).                                 *)
Request(c, kind) ==
    /\ request[c] = "none"
    /\ request' = [request EXCEPT ![c] = kind]
    /\ UNCHANGED <<behavior, buffer, offer, got>>

(* The pop returns the oldest item.                                        *)
Deliver(c) ==
    /\ request[c] # "none"
    /\ buffer # <<>>
    /\ got' = [got EXCEPT ![c] = Head(buffer)]
    /\ buffer' = Tail(buffer)
    /\ request' = [request EXCEPT ![c] = "none"]
    /\ UNCHANGED <<behavior, offer>>

(* A pop(timeoutMS) throws eQueueBlockingTimeoutExpired.                   *)
Expire(c) ==
    /\ request[c] = "timedpop"
    /\ request' = [request EXCEPT ![c] = "none"]
    /\ UNCHANGED <<behavior, buffer, offer, got>>

Next ==
    \/ \E p \in Producers : Accept(p) \/ Refuse(p) \/ \E x \in Items : Offer(p, x)
    \/ \E c \in Consumers :
          Deliver(c) \/ Expire(c) \/ \E k \in {"pop", "timedpop"} : Request(c, k)

SafeSpec == Init /\ [][Next]_vars

(* A push that can take effect for good does so or is refused; so does a   *)
(* pop for which there stays an item.                                      *)
Liveness ==
    /\ \A p \in Producers : WF_vars(Accept(p) \/ Refuse(p))
    /\ \A c \in Consumers : WF_vars(Deliver(c))

Spec == SafeSpec /\ Liveness
=============================================================================
