-------------------------------- MODULE refc --------------------------------
(***************************************************************************)
(* The reference-counting handle of include/rho/refc.h, with the global    *)
(* map of source/rho/refc.cpp that finds the counter of an object from its *)
(* address.                                                                *)
(*                                                                         *)
(* Objects are nodes with one refc member, `next`, so that deleting one    *)
(* releases others. Addresses of objects and counters are reused as soon   *)
(* as they are free. One action is one access to something that threads    *)
(* share: a counter (tAtomicInt, under its own mutex), the map (under      *)
(* gAllKnownRefcObjectsSync), or the heap.                                 *)
(***************************************************************************)
EXTENDS Naturals, Sequences, FiniteSets

CONSTANTS
  Threads,
  NumLocals,    (* the refc variables of each thread                       *)
  NumShared,    (* the refc variables all threads use                      *)
  Addrs,        (* the addresses objects can have                          *)
  Counters,     (* the addresses counters can have                         *)
  NULL,
  OwnMemberToo  (* whether `r = r->next` is among the assignments          *)

ASSUME RefcAssumption ==
    /\ NULL \notin Addrs \cup Counters /\ OwnMemberToo \in BOOLEAN
    /\ IsFiniteSet(Threads) /\ Threads \cap {"shared", "next"} = {}
    /\ NumLocals \in Nat /\ NumShared \in Nat /\ IsFiniteSet(Addrs)

Local(t, n) == <<t, n>>
Member(a) == <<"next", a>>     \* the member `next` of the object at a

Shared == {<<"shared", n>> : n \in 1..NumShared}
Variables == Shared \cup {Local(t, n) : t \in Threads, n \in 1..NumLocals}
Handles == Variables \cup {Member(a) : a \in Addrs}

VARIABLES
  m_object, m_ref_count,  (* the two members of each handle                *)
  gAllKnownRefcObjectsMap,
  m_val,                  (* m_val[c]: the value of counter c              *)
  objects, counters,      (* the addresses in use                          *)
  stack                   (* stack[t]: the refc operations t is in, the    *)
                          (* innermost first                               *)

memory == <<objects, counters>>
vars == <<m_object, m_ref_count, gAllKnownRefcObjectsMap, m_val, memory, stack>>

\* What an operation gives its handle: nothing (NULL, and the destructor),
\* the object at a raw pointer, or what another handle has.
Nothing == [kind |-> "null"]
Raw(a) == [kind |-> "raw", object |-> a]
Copy(g) == [kind |-> "copy", handle |-> g]
Sources == {Nothing} \cup {Raw(a) : a \in Addrs} \cup {Copy(g) : g \in Handles}

Init ==
    /\ m_object = [h \in Handles |-> NULL]
    /\ m_ref_count = [h \in Handles |-> NULL]
    /\ gAllKnownRefcObjectsMap = [a \in {} |-> NULL]
    /\ m_val = [c \in Counters |-> 0]
    /\ objects = {} /\ counters = {}
    /\ stack = [t \in Threads |-> <<>>]
-----------------------------------------------------------------------------
(* What a thread may name in an operation: its variables, the members of   *)
(* the objects they hold, and the shared variables. Handles are not        *)
(* synchronized: the program must not use one that another thread is in    *)
(* the middle of changing.                                                 *)
Held(t) == {m_object[Local(t, n)] : n \in 1..NumLocals} \ {NULL}
Reach(t) == {Local(t, n) : n \in 1..NumLocals} \cup {Member(a) : a \in Held(t)} \cup Shared

Frames == UNION {{stack[t][n] : n \in DOMAIN stack[t]} : t \in Threads}
Targets == {f.handle : f \in Frames}
Read == {f.source.handle : f \in {g \in Frames : g.source.kind = "copy"}}

Frame(h, src, at) == [handle |-> h, source |-> src, at |-> at]

Begins(t, h, src) ==
    /\ stack[t] = <<>> /\ h \notin Targets \cup Read
    /\ stack' = [stack EXCEPT ![t] = <<Frame(h, src, "drop")>>]
    /\ UNCHANGED <<m_object, m_ref_count, gAllKnownRefcObjectsMap, m_val>>

(* operator= with a new object, or the constructor on a handle that is     *)
(* NULL.                                                                   *)
AssignNew(t, h, a) ==
    /\ a \notin objects /\ objects' = objects \cup {a}
    /\ Begins(t, h, Raw(a))
    /\ UNCHANGED counters

(* ... with a raw pointer to an object the thread holds through a handle.  *)
AssignRaw(t, h, a) ==
    /\ a \in Held(t) /\ m_object[h] # a
    /\ Begins(t, h, Raw(a))
    /\ UNCHANGED memory

(* ... with NULL; or the destructor.                                       *)
AssignNull(t, h) ==
    /\ m_object[h] # NULL
    /\ Begins(t, h, Nothing)
    /\ UNCHANGED memory

(* ... with another handle; or the copy constructor. `other` may be a      *)
(* member of the object that h itself holds.                               *)
AssignCopy(t, h, g) ==
    /\ g \in Reach(t) \ Targets /\ m_object[h] # m_object[g]
    /\ (m_object[h] # NULL /\ g = Member(m_object[h])) =>
          OwnMemberToo \/ \E n \in 1..NumLocals :
                             h # Local(t, n) /\ m_object[Local(t, n)] = m_object[h]
    /\ Begins(t, h, Copy(g))
    /\ UNCHANGED memory
-----------------------------------------------------------------------------
(* The body of the operation at the top of t's stack.                      *)
Top(t) == Head(stack[t])
At(t, place) == stack[t] # <<>> /\ Top(t).at = place
Goes(t, place) == [stack EXCEPT ![t] = <<[Top(t) EXCEPT !.at = place]>> \o Tail(stack[t])]

(* Whether the count after the decrement makes this the last handle.       *)
LastByTwo(n) == n <= 1
Last(n) == n = 0

Drop(t) ==
    /\ At(t, "drop")
    /\ LET c == m_ref_count[Top(t).handle]
       IN IF c = NULL
            THEN stack' = Goes(t, "take") /\ UNCHANGED m_val
            ELSE /\ m_val' = [m_val EXCEPT ![c] = @ - 1]
                 /\ stack' = Goes(t, IF Last(m_val'[c]) THEN "erase" ELSE "take")
    /\ UNCHANGED <<m_object, m_ref_count, gAllKnownRefcObjectsMap, memory>>

Without(f, a) == [x \in DOMAIN f \ {a} |-> f[x]]

EraseNothing(t) ==
    /\ At(t, "erase")
    /\ stack' = Goes(t, "delete")
    /\ UNCHANGED <<m_object, m_ref_count, gAllKnownRefcObjectsMap, m_val, memory>>

Erase(t) ==
    /\ At(t, "erase")
    /\ gAllKnownRefcObjectsMap' = Without(gAllKnownRefcObjectsMap, m_object[Top(t).handle])
    /\ stack' = Goes(t, "delete")
    /\ UNCHANGED <<m_object, m_ref_count, m_val, memory>>

(* `delete m_object`: the object's destructor releases its member, ...     *)
DeleteMembers(t) ==
    /\ At(t, "delete")
    /\ stack' = [stack EXCEPT ![t] =
          <<Frame(Member(m_object[Top(t).handle]), Nothing, "drop")>> \o Goes(t, "free")[t]]
    /\ UNCHANGED <<m_object, m_ref_count, gAllKnownRefcObjectsMap, m_val, memory>>

(* ... and its memory is free.                                             *)
DeleteObject(t) ==
    /\ At(t, "free")
    /\ objects' = objects \ {m_object[Top(t).handle]}
    /\ stack' = Goes(t, "count")
    /\ UNCHANGED <<m_object, m_ref_count, gAllKnownRefcObjectsMap, m_val, counters>>

DeleteCounterLater(t) ==
    /\ At(t, "count")
    /\ stack' = Goes(t, "take")
    /\ UNCHANGED <<m_object, m_ref_count, gAllKnownRefcObjectsMap, m_val, memory>>

DeleteCounter(t) ==
    /\ At(t, "count")
    /\ counters' = counters \ {m_ref_count[Top(t).handle]}
    /\ stack' = Goes(t, "take")
    /\ UNCHANGED <<m_object, m_ref_count, gAllKnownRefcObjectsMap, m_val, objects>>

Takes(t, a, c) ==
    LET h == Top(t).handle
    IN /\ m_object' = [m_object EXCEPT ![h] = a]
       /\ m_ref_count' = [m_ref_count EXCEPT ![h] = c]
       /\ stack' = [stack EXCEPT ![t] = Tail(@)]
       /\ UNCHANGED objects

Increment(c) == [m_val EXCEPT ![c] = @ + 1]

TakeNull(t) ==
    /\ At(t, "take") /\ Top(t).source.kind = "null"
    /\ Takes(t, NULL, NULL)
    /\ UNCHANGED <<gAllKnownRefcObjectsMap, m_val, counters>>

(* The map knows the object: its counter goes up.                          *)
TakeKnown(t) ==
    /\ At(t, "take") /\ Top(t).source.kind = "raw"
    /\ LET a == Top(t).source.object
       IN /\ a \in DOMAIN gAllKnownRefcObjectsMap
          /\ m_val' = Increment(gAllKnownRefcObjectsMap[a])
          /\ Takes(t, a, gAllKnownRefcObjectsMap[a])
    /\ UNCHANGED <<gAllKnownRefcObjectsMap, counters>>

TakeUnknown(t, c) ==
    /\ At(t, "take") /\ Top(t).source.kind = "raw" /\ c \notin counters
    /\ LET a == Top(t).source.object
       IN /\ a \notin DOMAIN gAllKnownRefcObjectsMap
          /\ gAllKnownRefcObjectsMap' =
                [x \in DOMAIN gAllKnownRefcObjectsMap \cup {a} |->
                    IF x = a THEN c ELSE gAllKnownRefcObjectsMap[x]]
          /\ Takes(t, a, c)
    /\ m_val' = [m_val EXCEPT ![c] = 1]
    /\ counters' = counters \cup {c}

TakeCopyUncounted(t) ==
    /\ At(t, "take") /\ Top(t).source.kind = "copy"
    /\ LET g == Top(t).source.handle IN Takes(t, m_object[g], m_ref_count[g])
    /\ UNCHANGED <<gAllKnownRefcObjectsMap, m_val, counters>>

TakeCopy(t) ==
    /\ At(t, "take") /\ Top(t).source.kind = "copy"
    /\ LET g == Top(t).source.handle
       IN /\ m_val' = IF m_ref_count[g] = NULL THEN m_val ELSE Increment(m_ref_count[g])
          /\ Takes(t, m_object[g], m_ref_count[g])
    /\ UNCHANGED <<gAllKnownRefcObjectsMap, counters>>
-----------------------------------------------------------------------------
Operation(t) ==
    \E h \in Reach(t) :
       \/ AssignNull(t, h)
       \/ \E a \in Addrs : AssignNew(t, h, a) \/ AssignRaw(t, h, a)
       \/ \E g \in Handles : AssignCopy(t, h, g)

Release(t) == Drop(t) \/ Erase(t) \/ DeleteMembers(t) \/ DeleteObject(t) \/ DeleteCounter(t)
Take(t) == TakeNull(t) \/ TakeKnown(t) \/ TakeCopy(t) \/ \E c \in Counters : TakeUnknown(t, c)

Next == \E t \in Threads : Operation(t) \/ Release(t) \/ Take(t)

Spec == Init /\ [][Next]_vars
-----------------------------------------------------------------------------
Places == {"drop", "erase", "delete", "free", "count", "take"}

TypeOK ==
    /\ m_object \in [Handles -> Addrs \cup {NULL}]
    /\ m_ref_count \in [Handles -> Counters \cup {NULL}]
    /\ DOMAIN gAllKnownRefcObjectsMap \subseteq Addrs
    /\ \A a \in DOMAIN gAllKnownRefcObjectsMap : gAllKnownRefcObjectsMap[a] \in Counters
    /\ m_val \in [Counters -> 0..Cardinality(Handles)]
    /\ objects \subseteq Addrs /\ counters \subseteq Counters
    /\ \A t \in Threads : \A n \in DOMAIN stack[t] :
          stack[t][n] \in [handle : Handles, source : Sources, at : Places]

(* A handle stands for its object from the moment it has taken it until    *)
(* the decrement of the operation that gives it up.                        *)
Released == {f.handle : f \in {g \in Frames : g.at # "drop"}}
Stands(h, a) == m_object[h] = a /\ h \notin Released
Existing == Variables \cup {Member(a) : a \in objects}

(* No handle dangles: its object and its counter are there, and the map    *)
(* leads to that same counter.                                             *)
HandlesAreLive ==
    \A h \in Existing, a \in Addrs : Stands(h, a) =>
        /\ a \in objects /\ m_ref_count[h] \in counters
        /\ a \in DOMAIN gAllKnownRefcObjectsMap
        /\ gAllKnownRefcObjectsMap[a] = m_ref_count[h]

(* A counter counts the handles of its object, whatever is in progress.    *)
CountsAreRight ==
    \A a \in DOMAIN gAllKnownRefcObjectsMap :
        m_val[gAllKnownRefcObjectsMap[a]] = Cardinality({h \in Existing : Stands(h, a)})

(* The map knows no address that the heap could hand out again: a new      *)
(* object is never taken for an old one.                                   *)
MapIsFresh == DOMAIN gAllKnownRefcObjectsMap \subseteq objects

(* Nothing is forgotten: what is neither in the map nor in an operation's  *)
(* hands has been deleted, and two objects never share a counter. (Objects *)
(* whose members hold one another stay in the map, in the code as here.)   *)
Images(f) == {f[x] : x \in DOMAIN f}
Deleting(place) == {f \in Frames : f.at \in place}
NothingLeaks ==
    /\ objects = DOMAIN gAllKnownRefcObjectsMap
                 \cup {m_object[f.handle] : f \in Deleting({"delete", "free"})}
                 \cup {f.source.object : f \in {g \in Frames : g.source.kind = "raw"}}
    /\ counters = Images(gAllKnownRefcObjectsMap)
                  \cup {m_ref_count[f.handle] : f \in Deleting({"delete", "free", "count"})}
    /\ \A a, b \in DOMAIN gAllKnownRefcObjectsMap :
          gAllKnownRefcObjectsMap[a] = gAllKnownRefcObjectsMap[b] => a = b

(* examples/rho/refcExample.cpp: "refc is very smart -- it'd be hard to    *)
(* use it incorrectly". An assignment reads its right-hand side while that *)
(* is still there.                                                         *)
OtherIsThere == \A a \in Addrs : Member(a) \in Read => a \in objects
=============================================================================
