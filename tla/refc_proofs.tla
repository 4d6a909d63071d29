----------------------------- MODULE refc_proofs -----------------------------
(***************************************************************************)
(* refc's safety, for every number of threads, handles and objects: what a *)
(* handle holds is there, counters are exact, the map is fresh and nothing *)
(* leaks. Programs that assign a handle from a member of the object that   *)
(* only this handle holds are left out (~OwnMemberToo): for them it is not *)
(* true, as the run refc_member shows.                                     *)
(***************************************************************************)
EXTENDS refc, FiniteSetTheorems, SequenceTheorems, TLAPS

FramesOf(t) == {stack[t][n] : n \in DOMAIN stack[t]}
Locals(t) == {Local(t, n) : n \in 1..NumLocals}
FrameSet == [handle : Handles, source : Sources, at : Places]

(* Thread t holds the object at a by a local handle that none of its       *)
(* operations is changing: the object is there as long as t is busy.       *)
Keeps(t, a) == \E l \in Locals(t) : m_object[l] = a /\ l \notin Targets

(* An object no handle ever held: it is on its way to its first one.       *)
Unheld(a) == \A h \in Handles : ~Stands(h, a)
Dooms(f) == f.at \in {"erase", "delete", "free"}
Fresh(a) ==
    /\ a \in objects \ DOMAIN gAllKnownRefcObjectsMap
    /\ Unheld(a)
    /\ \A f \in Frames : Dooms(f) => m_object[f.handle] # a
    /\ \A f, g \in Frames : f.source = Raw(a) /\ g.source = Raw(a) => f = g

Types ==
    /\ m_object \in [Handles -> Addrs \cup {NULL}]
    /\ m_ref_count \in [Handles -> Counters \cup {NULL}]
    /\ DOMAIN gAllKnownRefcObjectsMap \subseteq Addrs
    /\ gAllKnownRefcObjectsMap \in [DOMAIN gAllKnownRefcObjectsMap -> Counters]
    /\ m_val \in [Counters -> Nat]
    /\ objects \subseteq Addrs /\ counters \subseteq Counters
    /\ stack \in [Threads -> Seq(FrameSet)]

(* No two operations in progress change the same handle, and all but the   *)
(* innermost are waiting for the member of the object they delete.         *)
Stacked ==
    \A t \in Threads :
       /\ \A u \in Threads : \A m \in DOMAIN stack[t], n \in DOMAIN stack[u] :
             stack[t][m].handle = stack[u][n].handle => t = u /\ m = n
       /\ \A n \in DOMAIN stack[t] : n > 1 =>
             /\ stack[t][n].at = "free"
             /\ stack[t][n - 1].handle = Member(m_object[stack[t][n].handle])
             /\ stack[t][n - 1].source = Nothing
       /\ At(t, "free") => m_object[Member(m_object[Top(t).handle])] = NULL

(* What an operation may touch is kept, by its own thread, until it ends.  *)
Named(t) == Locals(t) \cup Shared \cup {Member(a) : a \in {b \in Addrs : Keeps(t, b)}}
Owned ==
    \A t \in Threads : \A f \in FramesOf(t) :
       /\ \/ f.handle \in Named(t)
          \/ \E g \in FramesOf(t) : g.at = "free" /\ f.handle = Member(m_object[g.handle])
       /\ f.source.kind = "copy" => f.source.handle \in Named(t) \ Targets
       /\ f.source.kind = "raw" => Keeps(t, f.source.object) \/ Fresh(f.source.object)

(* From the decrement that makes it 0 on, nobody holds the object.         *)
Doomed ==
    \A f \in Frames :
       /\ Dooms(f) =>
             /\ m_object[f.handle] \in objects
             /\ Unheld(m_object[f.handle])
             /\ f.at = "erase" <=> m_object[f.handle] \in DOMAIN gAllKnownRefcObjectsMap
             /\ f.at = "erase" => gAllKnownRefcObjectsMap[m_object[f.handle]] = m_ref_count[f.handle]
             /\ \A g \in Frames : Dooms(g) /\ m_object[f.handle] = m_object[g.handle] => f = g
       /\ f.at \in {"delete", "free", "count"} =>
             /\ m_ref_count[f.handle] \in counters \ Images(gAllKnownRefcObjectsMap)
             /\ \A g \in Frames : g.at \in {"delete", "free", "count"}
                                  /\ m_ref_count[f.handle] = m_ref_count[g.handle] => f = g

(* The map, the counters and the handles.                                  *)
Known ==
    /\ \A h \in Handles : m_object[h] = NULL <=> m_ref_count[h] = NULL
    /\ \A a \in Addrs \ objects : m_object[Member(a)] = NULL
    /\ \A h \in Handles, a \in Addrs : Stands(h, a) =>
          /\ a \in DOMAIN gAllKnownRefcObjectsMap
          /\ gAllKnownRefcObjectsMap[a] = m_ref_count[h]
    /\ DOMAIN gAllKnownRefcObjectsMap \subseteq objects
    /\ Images(gAllKnownRefcObjectsMap) \subseteq counters
    /\ \A a, b \in DOMAIN gAllKnownRefcObjectsMap :
          gAllKnownRefcObjectsMap[a] = gAllKnownRefcObjectsMap[b] => a = b

Standers(a) == {h \in Handles : Stands(h, a)}
Counted ==
    /\ \A a \in DOMAIN gAllKnownRefcObjectsMap :
          m_val[gAllKnownRefcObjectsMap[a]] = Cardinality(Standers(a))
    /\ \A c \in Counters \ Images(gAllKnownRefcObjectsMap) : m_val[c] = 0

(* Every object and every counter is in somebody's hands.                  *)
Accounted ==
    /\ \A a \in objects : \/ a \in DOMAIN gAllKnownRefcObjectsMap
                          \/ \E f \in Frames : Dooms(f) /\ m_object[f.handle] = a
                          \/ \E f \in Frames : f.source = Raw(a)
    /\ \A c \in counters : \/ c \in Images(gAllKnownRefcObjectsMap)
                           \/ \E f \in Frames : /\ f.at \in {"delete", "free", "count"}
                                                /\ m_ref_count[f.handle] = c

(* The inductive invariant.                                                *)
RefcInv == Types /\ Stacked /\ Owned /\ Doomed /\ Known /\ Counted /\ Accounted
-----------------------------------------------------------------------------
(* The names of handles are different where they should be.                *)
LEMMA HandleNames ==
    /\ \A a \in Addrs : Member(a) \in Handles /\ Member(a) \notin Shared
    /\ \A a, b : Member(a) = Member(b) => a = b
    /\ \A t \in Threads : \A l \in Locals(t) :
          /\ l \in Handles /\ l \notin Shared
          /\ \A a : l # Member(a)
          /\ \A u \in Threads : l \in Locals(u) => u = t
    /\ Shared \subseteq Handles
<1>1. \A a \in Addrs : Member(a) \in Handles /\ Member(a) \notin Shared
  BY DEF Member, Handles, Shared
<1>2. \A a, b : Member(a) = Member(b) => a = b
  BY DEF Member
<1>3. ASSUME NEW t \in Threads, NEW l \in Locals(t)
      PROVE  /\ l \in Handles /\ l \notin Shared
             /\ \A a : l # Member(a)
             /\ \A u \in Threads : l \in Locals(u) => u = t
  BY <1>3, RefcAssumption DEF Locals, Local, Handles, Variables, Shared, Member
<1>4. Shared \subseteq Handles
  BY DEF Handles, Variables
<1> QED BY <1>1, <1>2, <1>3, <1>4

LEMMA HandlesAreFinite == IsFiniteSet(Handles)
<1> DEFINE L == {Local(t, n) : t \in Threads, n \in 1..NumLocals}
           M == {Member(a) : a \in Addrs}
           P == Threads \X (1..NumLocals)
           F == [p \in P |-> Local(p[1], p[2])]
<1>1. IsFiniteSet(1..NumShared) /\ IsFiniteSet(1..NumLocals)
  BY FS_Interval, RefcAssumption
<1>2. IsFiniteSet(Shared)
  <2>1. [n \in 1..NumShared |-> <<"shared", n>>] \in Surjection(1..NumShared, Shared)
    BY DEF Surjection, Shared
  <2> QED BY <1>1, <2>1, FS_Surjection
<1>3. IsFiniteSet(L)
  <2>1. IsFiniteSet(P)
    BY <1>1, FS_Product, RefcAssumption
  <2>2. \A p \in P : F[p] \in L
    OBVIOUS
  <2>3. ASSUME NEW l \in L
        PROVE  \E p \in P : F[p] = l
    <3>1. PICK t \in Threads, n \in 1..NumLocals : l = Local(t, n)
      OBVIOUS
    <3>2. <<t, n>> \in P /\ F[<<t, n>>] = Local(t, n)
      OBVIOUS
    <3> QED BY <3>1, <3>2
  <2>4. F \in [P -> L]
    BY <2>2
  <2> HIDE DEF F, P, L
  <2>5. F \in Surjection(P, L)
    BY <2>3, <2>4 DEF Surjection
  <2> QED BY <2>1, <2>5, FS_Surjection
<1>4. IsFiniteSet(M)
  <2>1. [a \in Addrs |-> Member(a)] \in Surjection(Addrs, M)
    BY DEF Surjection
  <2> QED BY <2>1, FS_Surjection, RefcAssumption
<1>5. Handles = Shared \cup L \cup M
  BY DEF Handles, Variables
<1> HIDE DEF L, M
<1>6. IsFiniteSet(Shared \cup L)
  BY <1>2, <1>3, FS_Union
<1>7. IsFiniteSet((Shared \cup L) \cup M)
  BY <1>4, <1>6, FS_Union
<1> QED BY <1>5, <1>7

(* What the parts of an operation are.                                     *)
LEMMA SourceFacts ==
    /\ Nothing \in Sources /\ Nothing.kind = "null"
    /\ \A a \in Addrs : Raw(a) \in Sources
    /\ \A a : Raw(a).kind = "raw" /\ Raw(a).object = a
    /\ \A g \in Handles : Copy(g) \in Sources
    /\ \A g : Copy(g).kind = "copy" /\ Copy(g).handle = g
    /\ \A s \in Sources :
          \/ s.kind = "null" /\ s = Nothing
          \/ s.kind = "raw" /\ s.object \in Addrs /\ s = Raw(s.object)
          \/ s.kind = "copy" /\ s.handle \in Handles /\ s = Copy(s.handle)
<1>1. \A s \in Sources :
          \/ s.kind = "null" /\ s = Nothing
          \/ s.kind = "raw" /\ s.object \in Addrs /\ s = Raw(s.object)
          \/ s.kind = "copy" /\ s.handle \in Handles /\ s = Copy(s.handle)
  <2>1. \A a \in Addrs : Raw(a).kind = "raw" /\ Raw(a).object = a
    BY DEF Raw
  <2>2. \A g \in Handles : Copy(g).kind = "copy" /\ Copy(g).handle = g
    BY DEF Copy
  <2>3. Nothing.kind = "null"
    BY DEF Nothing
  <2> QED BY <2>1, <2>2, <2>3 DEF Sources
<1>2. /\ \A a : Raw(a).kind = "raw" /\ Raw(a).object = a
      /\ \A g : Copy(g).kind = "copy" /\ Copy(g).handle = g
  BY DEF Raw, Copy
<1>3. Nothing \in Sources /\ Nothing.kind = "null"
  BY DEF Nothing, Sources
<1> QED BY <1>1, <1>2, <1>3 DEF Sources

(* A frame that goes on.                                                   *)
Moved(f, place) == [f EXCEPT !.at = place]

LEMMA FrameFacts ==
    /\ \A h \in Handles, s \in Sources, p \in Places :
          /\ Frame(h, s, p) \in FrameSet
          /\ Frame(h, s, p).handle = h
          /\ Frame(h, s, p).source = s
          /\ Frame(h, s, p).at = p
    /\ \A f \in FrameSet : f.handle \in Handles /\ f.source \in Sources /\ f.at \in Places
    /\ \A f \in FrameSet, p \in Places :
          /\ Moved(f, p) \in FrameSet
          /\ Moved(f, p).handle = f.handle
          /\ Moved(f, p).source = f.source
          /\ Moved(f, p).at = p
BY DEF Frame, FrameSet, Moved

LEMMA FramesAreTyped ==
  ASSUME Types
  PROVE  /\ \A f \in Frames : \E t \in Threads : f \in FramesOf(t)
         /\ \A t \in Threads : \A f \in FramesOf(t) : f \in Frames
         /\ \A f \in Frames : f \in FrameSet
<1>1. /\ \A f \in Frames : \E t \in Threads : f \in FramesOf(t)
      /\ \A t \in Threads : \A f \in FramesOf(t) : f \in Frames
  BY DEF Frames, FramesOf
<1>2. ASSUME NEW t \in Threads, NEW n \in DOMAIN stack[t]
      PROVE  stack[t][n] \in FrameSet
  <2>1. stack[t] \in Seq(FrameSet)
    BY DEF Types
  <2> QED BY <2>1, LenProperties, ElementOfSeq
<1> QED BY <1>1, <1>2 DEF FramesOf

LEMMA Tops ==
  ASSUME Types, NEW t \in Threads, stack[t] # <<>>
  PROVE  /\ stack[t] \in Seq(FrameSet)
         /\ Len(stack[t]) \in Nat \ {0}
         /\ DOMAIN stack[t] = 1..Len(stack[t])
         /\ 1 \in DOMAIN stack[t]
         /\ Top(t) = stack[t][1]
         /\ Top(t) \in FrameSet /\ Top(t) \in FramesOf(t) /\ Top(t) \in Frames
<1>1. stack[t] \in Seq(FrameSet)
  BY DEF Types
<1>2. Len(stack[t]) \in Nat \ {0} /\ DOMAIN stack[t] = 1..Len(stack[t])
  BY <1>1, EmptySeq, LenProperties
<1>3. Top(t) = stack[t][1]
  BY <1>1 DEF Top
<1>4. 1 \in DOMAIN stack[t]
  BY <1>2
<1>5. Top(t) \in FramesOf(t)
  BY <1>3, <1>4 DEF FramesOf
<1> QED BY <1>1, <1>2, <1>3, <1>4, <1>5, FramesAreTyped

LEMMA Distinct ==
  ASSUME Stacked, NEW t \in Threads, NEW u \in Threads,
         NEW f \in FramesOf(t), NEW g \in FramesOf(u), f.handle = g.handle
  PROVE  t = u /\ f = g
BY DEF Stacked, FramesOf

LEMMA Waiting ==
  ASSUME Types, Stacked, NEW t \in Threads, NEW f \in FramesOf(t), f # Top(t)
  PROVE  /\ f.at = "free" /\ stack[t] # <<>>
         /\ \E g \in FramesOf(t) : /\ g.handle = Member(m_object[f.handle])
                                   /\ g.source = Nothing
<1>1. PICK n \in DOMAIN stack[t] : f = stack[t][n]
  BY DEF FramesOf
<1>2. stack[t] \in Seq(FrameSet) /\ DOMAIN stack[t] = 1..Len(stack[t]) /\ Len(stack[t]) \in Nat
  BY LenProperties DEF Types
<1>3. stack[t] # <<>>
  BY <1>1, <1>2
<1>4. n > 1 /\ n - 1 \in DOMAIN stack[t]
  BY <1>1, <1>2, <1>3, Tops
<1> QED BY <1>1, <1>3, <1>4 DEF Stacked, FramesOf


(* A stack whose top is replaced, pushed on or popped.                     *)
LEMMA Replaced ==
  ASSUME NEW S, NEW s \in Seq(S), s # <<>>, NEW x \in S, NEW r, r = <<x>> \o Tail(s)
  PROVE  /\ r \in Seq(S) /\ r # <<>>
         /\ DOMAIN r = DOMAIN s /\ DOMAIN s = 1..Len(s) /\ Len(s) \in Nat
         /\ r[1] = x
         /\ \A n \in DOMAIN s : n > 1 => r[n] = s[n]
BY SMT

LEMMA Pushed ==
  ASSUME NEW S, NEW s \in Seq(S), s # <<>>, NEW x \in S, NEW y \in S,
         NEW r, r = <<y>> \o (<<x>> \o Tail(s))
  PROVE  /\ r \in Seq(S) /\ r # <<>>
         /\ DOMAIN r = 1..(Len(s) + 1) /\ DOMAIN s = 1..Len(s) /\ Len(s) \in Nat \ {0}
         /\ r[1] = y /\ r[2] = x
         /\ \A n \in DOMAIN s : n > 1 => r[n + 1] = s[n]
BY SMT

LEMMA Popped ==
  ASSUME NEW S, NEW s \in Seq(S), s # <<>>
  PROVE  /\ Tail(s) \in Seq(S)
         /\ DOMAIN Tail(s) = 1..(Len(s) - 1) /\ DOMAIN s = 1..Len(s) /\ Len(s) \in Nat \ {0}
         /\ \A n \in DOMAIN Tail(s) : Tail(s)[n] = s[n + 1]
         /\ Tail(s) # <<>> <=> Len(s) > 1
BY SMT

(* What a step of t does to the frames of all threads.                     *)
LEMMA FramesChange ==
  ASSUME Stacked, NEW t \in Threads, NEW Out, NEW In, Out \subseteq FramesOf(t),
         FramesOf(t)' = (FramesOf(t) \ Out) \cup In,
         \A u \in Threads : u # t => FramesOf(u)' = FramesOf(u)
  PROVE  Frames' = (Frames \ Out) \cup In
<1>1. Frames = UNION {FramesOf(u) : u \in Threads}
  BY DEF Frames, FramesOf
<1>2. Frames' = UNION {FramesOf(u)' : u \in Threads}
  BY DEF Frames, FramesOf
<1>3. ASSUME NEW u \in Threads, u # t, NEW f \in FramesOf(u)
      PROVE  f \notin Out
  BY <1>3, Distinct
<1>4. \A f \in Frames' : f \in (Frames \ Out) \cup In
  BY <1>1, <1>2, <1>3
<1>5. \A f \in (Frames \ Out) \cup In : f \in Frames'
  BY <1>1, <1>2
<1> QED BY <1>4, <1>5

LEMMA GoesStack ==
  ASSUME Types, NEW t \in Threads, stack[t] # <<>>, NEW p \in Places, stack' = Goes(t, p)
  PROVE  /\ stack' \in [Threads -> Seq(FrameSet)] /\ stack'[t] # <<>>
         /\ \A u \in Threads : u # t => stack'[u] = stack[u]
         /\ DOMAIN stack'[t] = DOMAIN stack[t] /\ DOMAIN stack[t] \subseteq Nat
         /\ stack'[t][1] = Moved(Top(t), p)
         /\ \A n \in DOMAIN stack[t] : n > 1 => stack'[t][n] = stack[t][n]
<1> DEFINE r == <<Moved(Top(t), p)>> \o Tail(stack[t])
<1>1. stack' = [stack EXCEPT ![t] = r]
  BY DEF Goes, Moved
<1>2. stack \in [Threads -> Seq(FrameSet)] /\ stack[t] \in Seq(FrameSet)
  BY DEF Types
<1>3. Moved(Top(t), p) \in FrameSet
  BY Tops, FrameFacts
<1> HIDE DEF r
<1>4. /\ stack'[t] = r
      /\ \A u \in Threads : u # t => stack'[u] = stack[u]
      /\ r \in Seq(FrameSet) => stack' \in [Threads -> Seq(FrameSet)]
  BY <1>1, <1>2
<1>5. r = <<Moved(Top(t), p)>> \o Tail(stack[t])
  BY DEF r
<1> QED BY <1>2, <1>3, <1>4, <1>5, Replaced

LEMMA GoesFrames ==
  ASSUME Types, Stacked, NEW t \in Threads, stack[t] # <<>>, NEW p \in Places,
         stack' = Goes(t, p)
  PROVE  /\ FramesOf(t)' = (FramesOf(t) \ {Top(t)}) \cup {Moved(Top(t), p)}
         /\ \A u \in Threads : u # t => FramesOf(u)' = FramesOf(u)
         /\ Frames' = (Frames \ {Top(t)}) \cup {Moved(Top(t), p)}
         /\ Targets' = Targets
<1> DEFINE f == Top(t)  g == Moved(Top(t), p)
<1>1. /\ \A u \in Threads : u # t => stack'[u] = stack[u]
      /\ DOMAIN stack'[t] = DOMAIN stack[t] /\ DOMAIN stack[t] \subseteq Nat
      /\ stack'[t][1] = g
      /\ \A n \in DOMAIN stack[t] : n > 1 => stack'[t][n] = stack[t][n]
  BY GoesStack
<1>2. 1 \in DOMAIN stack[t] /\ f = stack[t][1] /\ DOMAIN stack[t] = 1..Len(stack[t])
      /\ Len(stack[t]) \in Nat
  BY Tops
<1>3. f \in FrameSet /\ f \in FramesOf(t) /\ f \in Frames /\ g.handle = f.handle
  BY Tops, FrameFacts
<1> HIDE DEF f, g
<1>4. ASSUME NEW n \in DOMAIN stack[t], n > 1
      PROVE  stack[t][n] # f
  BY <1>2, <1>4 DEF Stacked
<1>5. \A n \in DOMAIN stack[t] : n = 1 \/ n > 1
  BY <1>2
<1>6. FramesOf(t)' = (FramesOf(t) \ {f}) \cup {g}
  <2>1. \A x \in FramesOf(t)' : x \in (FramesOf(t) \ {f}) \cup {g}
    BY <1>1, <1>2, <1>4, <1>5 DEF FramesOf
  <2>2. \A x \in (FramesOf(t) \ {f}) \cup {g} : x \in FramesOf(t)'
    BY <1>1, <1>2, <1>5 DEF FramesOf
  <2> QED BY <2>1, <2>2
<1>7. \A u \in Threads : u # t => FramesOf(u)' = FramesOf(u)
  BY <1>1 DEF FramesOf
<1>8. Frames' = (Frames \ {f}) \cup {g}
  <2>1. {f} \subseteq FramesOf(t)
    BY <1>3
  <2>2. \A Out, In : /\ Out \subseteq FramesOf(t)
                      /\ FramesOf(t)' = (FramesOf(t) \ Out) \cup In
                      => Frames' = (Frames \ Out) \cup In
    BY <1>7, FramesChange
  <2> QED BY <1>6, <2>1, <2>2
<1>9. Targets' = Targets
  <2>1. \A x \in Frames' : \E y \in Frames : y.handle = x.handle
    BY <1>3, <1>8
  <2>2. \A x \in Frames : \E y \in Frames' : y.handle = x.handle
    BY <1>3, <1>8
  <2> QED BY <2>1, <2>2 DEF Targets
<1> QED BY <1>6, <1>7, <1>8, <1>9 DEF f, g

LEMMA GoesStacked ==
  ASSUME Types, Stacked, NEW t \in Threads, stack[t] # <<>>, NEW p \in Places \ {"free"},
         stack' = Goes(t, p), UNCHANGED m_object
  PROVE  Stacked'
<1>1. /\ \A u \in Threads : u # t => stack'[u] = stack[u]
      /\ DOMAIN stack'[t] = DOMAIN stack[t] /\ DOMAIN stack[t] \subseteq Nat
      /\ stack'[t][1] = Moved(Top(t), p) /\ stack'[t] # <<>>
      /\ \A n \in DOMAIN stack[t] : n > 1 => stack'[t][n] = stack[t][n]
      /\ stack' \in [Threads -> Seq(FrameSet)]
  BY GoesStack
<1>2. 1 \in DOMAIN stack[t] /\ Top(t) = stack[t][1] /\ DOMAIN stack[t] = 1..Len(stack[t])
      /\ Len(stack[t]) \in Nat
  BY Tops
<1>3. /\ Moved(Top(t), p).handle = Top(t).handle
      /\ Moved(Top(t), p).source = Top(t).source
      /\ Moved(Top(t), p).at = p
  BY Tops, FrameFacts
<1>4. /\ \A u \in Threads : DOMAIN stack'[u] = DOMAIN stack[u]
      /\ \A u \in Threads : \A n \in DOMAIN stack[u] :
            /\ stack'[u][n].handle = stack[u][n].handle
            /\ stack'[u][n].source = stack[u][n].source
            /\ n > 1 => stack'[u][n] = stack[u][n]
  <2>1. \A n \in DOMAIN stack[t] : n = 1 \/ n > 1
    BY <1>2
  <2> QED BY <1>1, <1>2, <1>3, <2>1
<1>5. \A u \in Threads : \A n \in DOMAIN stack[u] : n > 1 => n - 1 \in DOMAIN stack[u]
  BY LenProperties DEF Types
<1>6. ASSUME NEW u \in Threads, NEW v \in Threads, NEW m \in DOMAIN stack'[u], NEW n \in DOMAIN stack'[v],
             stack'[u][m].handle = stack'[v][n].handle
      PROVE  u = v /\ m = n
  BY <1>4, <1>6 DEF Stacked
<1>7. ASSUME NEW u \in Threads, NEW n \in DOMAIN stack'[u], n > 1
      PROVE  /\ stack'[u][n].at = "free"
             /\ stack'[u][n - 1].handle = Member(m_object'[stack'[u][n].handle])
             /\ stack'[u][n - 1].source = Nothing
  BY <1>4, <1>5, <1>7 DEF Stacked
<1>8. ASSUME NEW u \in Threads, At(u, "free")'
      PROVE  m_object'[Member(m_object'[Top(u)'.handle])] = NULL
  <2>1. u # t
    <3>1. Top(t)' = Moved(Top(t), p)
      BY <1>1 DEF Top
    <3> QED BY <1>3, <1>8, <3>1 DEF At
  <2>2. At(u, "free") /\ Top(u)' = Top(u)
    BY <1>1, <1>8, <2>1 DEF At, Top
  <2> QED BY <2>2 DEF Stacked
<1> QED BY <1>6, <1>7, <1>8 DEF Stacked

LEMMA PushStack ==
  ASSUME Types, NEW t \in Threads, stack[t] # <<>>, NEW y \in FrameSet,
         stack' = [stack EXCEPT ![t] = <<y>> \o Goes(t, "free")[t]]
  PROVE  /\ stack' \in [Threads -> Seq(FrameSet)] /\ stack'[t] # <<>>
         /\ \A u \in Threads : u # t => stack'[u] = stack[u]
         /\ DOMAIN stack'[t] = 1..(Len(stack[t]) + 1)
         /\ stack'[t][1] = y /\ stack'[t][2] = Moved(Top(t), "free")
         /\ \A n \in DOMAIN stack[t] : n > 1 => stack'[t][n + 1] = stack[t][n]
<1> DEFINE x == Moved(Top(t), "free")
           r == <<y>> \o (<<x>> \o Tail(stack[t]))
<1>1. stack \in [Threads -> Seq(FrameSet)] /\ stack[t] \in Seq(FrameSet)
  BY DEF Types
<1>2. Goes(t, "free")[t] = <<x>> \o Tail(stack[t])
  BY <1>1 DEF Goes, Moved
<1>3. stack' = [stack EXCEPT ![t] = r]
  BY <1>2
<1>4. x \in FrameSet
  BY Tops, FrameFacts DEF Places
<1> HIDE DEF r, x
<1>5. /\ stack'[t] = r
      /\ \A u \in Threads : u # t => stack'[u] = stack[u]
      /\ r \in Seq(FrameSet) => stack' \in [Threads -> Seq(FrameSet)]
  BY <1>1, <1>3
<1>6. r = <<y>> \o (<<x>> \o Tail(stack[t]))
  BY DEF r
<1>7. /\ r \in Seq(FrameSet) /\ r # <<>>
      /\ DOMAIN r = 1..(Len(stack[t]) + 1)
      /\ r[1] = y /\ r[2] = x
      /\ \A n \in DOMAIN stack[t] : n > 1 => r[n + 1] = stack[t][n]
  BY <1>1, <1>4, <1>6, Pushed
<1> QED BY <1>5, <1>7 DEF x

LEMMA PushFrames ==
  ASSUME Types, Stacked, NEW t \in Threads, stack[t] # <<>>, NEW y \in FrameSet,
         stack' = [stack EXCEPT ![t] = <<y>> \o Goes(t, "free")[t]]
  PROVE  /\ FramesOf(t)' = (FramesOf(t) \ {Top(t)}) \cup {Moved(Top(t), "free"), y}
         /\ \A u \in Threads : u # t => FramesOf(u)' = FramesOf(u)
         /\ Frames' = (Frames \ {Top(t)}) \cup {Moved(Top(t), "free"), y}
         /\ Targets' = Targets \cup {y.handle}
<1> DEFINE f == Top(t)  g == Moved(Top(t), "free")
<1>1. /\ \A u \in Threads : u # t => stack'[u] = stack[u]
      /\ DOMAIN stack'[t] = 1..(Len(stack[t]) + 1)
      /\ stack'[t][1] = y /\ stack'[t][2] = g
      /\ \A n \in DOMAIN stack[t] : n > 1 => stack'[t][n + 1] = stack[t][n]
  BY PushStack
<1>2. 1 \in DOMAIN stack[t] /\ f = stack[t][1] /\ DOMAIN stack[t] = 1..Len(stack[t])
      /\ Len(stack[t]) \in Nat \ {0}
  BY Tops
<1>3. f \in FrameSet /\ f \in FramesOf(t) /\ f \in Frames /\ g.handle = f.handle
  BY Tops, FrameFacts DEF Places
<1> HIDE DEF f, g
<1>4. ASSUME NEW n \in DOMAIN stack[t], n > 1
      PROVE  stack[t][n] # f
  BY <1>2, <1>4 DEF Stacked
<1>5. \A n \in DOMAIN stack[t] : n = 1 \/ n > 1
  BY <1>2
<1>6. FramesOf(t)' = (FramesOf(t) \ {f}) \cup {g, y}
  <2>1. ASSUME NEW n \in DOMAIN stack'[t]
        PROVE  stack'[t][n] \in (FramesOf(t) \ {f}) \cup {g, y}
    <3>1. CASE n = 1 \/ n = 2
      BY <1>1, <3>1
    <3>2. CASE n # 1 /\ n # 2
      <4>1. n - 1 \in DOMAIN stack[t] /\ n - 1 > 1 /\ (n - 1) + 1 = n
        BY <1>1, <1>2, <3>2
      <4>2. stack'[t][n] = stack[t][n - 1]
        BY <1>1, <4>1
      <4> QED BY <1>4, <4>1, <4>2 DEF FramesOf
    <3> QED BY <3>1, <3>2
  <2>2. ASSUME NEW z \in (FramesOf(t) \ {f}) \cup {g, y}
        PROVE  z \in FramesOf(t)'
    <3>1. CASE z = y \/ z = g
      <4>1. 1 \in DOMAIN stack'[t] /\ 2 \in DOMAIN stack'[t]
        BY <1>1, <1>2
      <4> QED BY <1>1, <3>1, <4>1 DEF FramesOf
    <3>2. CASE z \in FramesOf(t) \ {f}
      <4>1. PICK n \in DOMAIN stack[t] : z = stack[t][n] /\ n > 1
        BY <1>2, <1>5, <3>2 DEF FramesOf
      <4>2. n + 1 \in DOMAIN stack'[t]
        BY <1>1, <1>2
      <4> QED BY <1>1, <4>1, <4>2 DEF FramesOf
    <3> QED BY <3>1, <3>2
  <2> QED BY <2>1, <2>2 DEF FramesOf
<1>7. \A u \in Threads : u # t => FramesOf(u)' = FramesOf(u)
  BY <1>1 DEF FramesOf
<1>8. Frames' = (Frames \ {f}) \cup {g, y}
  <2>1. {f} \subseteq FramesOf(t)
    BY <1>3
  <2>2. \A Out, In : /\ Out \subseteq FramesOf(t)
                      /\ FramesOf(t)' = (FramesOf(t) \ Out) \cup In
                      => Frames' = (Frames \ Out) \cup In
    BY <1>7, FramesChange
  <2> QED BY <1>6, <2>1, <2>2
<1>9. Targets' = Targets \cup {y.handle}
  <2>1. \A x \in Frames' : x.handle = y.handle \/ \E z \in Frames : z.handle = x.handle
    BY <1>3, <1>8
  <2>2. \A x \in Frames : \E z \in Frames' : z.handle = x.handle
    BY <1>3, <1>8
  <2>3. y \in Frames'
    BY <1>8
  <2> QED BY <2>1, <2>2, <2>3 DEF Targets
<1> QED BY <1>6, <1>7, <1>8, <1>9 DEF f, g

LEMMA PushStacked ==
  ASSUME Types, Stacked, NEW t \in Threads, stack[t] # <<>>, NEW y \in FrameSet,
         stack' = [stack EXCEPT ![t] = <<y>> \o Goes(t, "free")[t]],
         y.handle \notin Targets, y.handle = Member(m_object[Top(t).handle]),
         y.source = Nothing, y.at # "free", UNCHANGED m_object
  PROVE  Stacked'
<1> DEFINE L == Len(stack[t])
<1>1. /\ \A u \in Threads : u # t => stack'[u] = stack[u]
      /\ DOMAIN stack'[t] = 1..(L + 1) /\ stack'[t] # <<>>
      /\ stack'[t][1] = y /\ stack'[t][2] = Moved(Top(t), "free")
      /\ \A n \in DOMAIN stack[t] : n > 1 => stack'[t][n + 1] = stack[t][n]
      /\ stack' \in [Threads -> Seq(FrameSet)]
  BY PushStack
<1>2. 1 \in DOMAIN stack[t] /\ Top(t) = stack[t][1] /\ DOMAIN stack[t] = 1..L
      /\ L \in Nat \ {0}
  BY Tops
<1>3. /\ Moved(Top(t), "free").handle = Top(t).handle
      /\ Moved(Top(t), "free").source = Top(t).source
      /\ Moved(Top(t), "free").at = "free"
  BY Tops, FrameFacts DEF Places
<1> HIDE DEF L
<1>4. \A n \in DOMAIN stack'[t] : n = 1 \/ (n - 1 \in DOMAIN stack[t]
             /\ stack'[t][n].handle = stack[t][n - 1].handle
             /\ stack'[t][n].source = stack[t][n - 1].source
             /\ stack'[t][n].at = "free")
  <2> SUFFICES ASSUME NEW n \in DOMAIN stack'[t], n # 1
               PROVE  n - 1 \in DOMAIN stack[t]
             /\ stack'[t][n].handle = stack[t][n - 1].handle
             /\ stack'[t][n].source = stack[t][n - 1].source
             /\ stack'[t][n].at = "free"
    OBVIOUS
  <2>1. n - 1 \in DOMAIN stack[t] /\ (n - 1) + 1 = n
    BY <1>1, <1>2
  <2>2. CASE n = 2
    BY <1>1, <1>2, <1>3, <2>1, <2>2
  <2>3. CASE n # 2
    <3>1. n - 1 > 1
      BY <1>1, <1>2, <2>3
    <3>2. stack'[t][n] = stack[t][n - 1]
      BY <1>1, <2>1, <3>1
    <3> QED BY <2>1, <3>1, <3>2 DEF Stacked
  <2> QED BY <2>2, <2>3
<1>5. \A u \in Threads, v \in Threads : \A m \in DOMAIN stack'[u], n \in DOMAIN stack'[v] :
             stack'[u][m].handle = stack'[v][n].handle => u = v /\ m = n
  <2>1. \A u \in Threads : \A m \in DOMAIN stack[u] : stack[u][m].handle # y.handle
    BY DEF Targets, Frames
  <2> SUFFICES ASSUME NEW u \in Threads, NEW v \in Threads,
                      NEW m \in DOMAIN stack'[u], NEW n \in DOMAIN stack'[v],
                      stack'[u][m].handle = stack'[v][n].handle
               PROVE  u = v /\ m = n
    OBVIOUS
  <2>2. CASE u # t /\ v # t
    BY <1>1, <2>2 DEF Stacked
  <2>3. CASE u # t /\ v = t
    <3>1. stack'[u][m] = stack[u][m] /\ m \in DOMAIN stack[u]
      BY <1>1, <2>3
    <3>2. n # 1
      BY <1>1, <2>1, <2>3, <3>1
    <3>3. n - 1 \in DOMAIN stack[t] /\ stack[t][n - 1].handle = stack[u][m].handle
      BY <1>4, <2>3, <3>1, <3>2
    <3> QED BY <2>3, <3>1, <3>3 DEF Stacked
  <2>4. CASE u = t /\ v # t
    <3>1. stack'[v][n] = stack[v][n] /\ n \in DOMAIN stack[v]
      BY <1>1, <2>4
    <3>2. m # 1
      BY <1>1, <2>1, <2>4, <3>1
    <3>3. m - 1 \in DOMAIN stack[t] /\ stack[t][m - 1].handle = stack[v][n].handle
      BY <1>4, <2>4, <3>1, <3>2
    <3> QED BY <2>4, <3>1, <3>3 DEF Stacked
  <2>5. CASE u = t /\ v = t
    <3>1. CASE m = 1 /\ n = 1
      BY <2>5, <3>1
    <3>2. CASE m = 1 /\ n # 1
      BY <1>1, <1>4, <2>1, <2>5, <3>2
    <3>3. CASE m # 1 /\ n = 1
      BY <1>1, <1>4, <2>1, <2>5, <3>3
    <3>4. CASE m # 1 /\ n # 1
      <4>1. stack[t][m - 1].handle = stack[t][n - 1].handle
            /\ m - 1 \in DOMAIN stack[t] /\ n - 1 \in DOMAIN stack[t]
        BY <1>4, <2>5, <3>4
      <4>2. m - 1 = n - 1
        BY <4>1 DEF Stacked
      <4>3. m \in Nat /\ n \in Nat
        BY <1>1, <1>2, <2>5
      <4> QED BY <2>5, <4>2, <4>3
    <3> QED BY <3>1, <3>2, <3>3, <3>4
  <2> QED BY <2>2, <2>3, <2>4, <2>5
<1>6. ASSUME NEW u \in Threads, NEW n \in DOMAIN stack'[u], n > 1
      PROVE  /\ stack'[u][n].at = "free"
             /\ stack'[u][n - 1].handle = Member(m_object'[stack'[u][n].handle])
             /\ stack'[u][n - 1].source = Nothing
  <2>1. CASE u # t
    BY <1>1, <1>6, <2>1 DEF Stacked
  <2>2. CASE u = t /\ n = 2
    BY <1>1, <1>3, <2>2
  <2>3. CASE u = t /\ n # 2
    <3>1. n - 1 \in DOMAIN stack'[t] /\ n - 1 > 1 /\ n - 1 # 1
      BY <1>1, <1>2, <1>6, <2>3
    <3>2. stack'[t][n].at = "free" /\ stack'[t][n].handle = stack[t][n - 1].handle
          /\ n - 1 \in DOMAIN stack[t]
      BY <1>4, <1>6, <2>3
    <3>3. stack'[t][n - 1].handle = stack[t][n - 1 - 1].handle
          /\ stack'[t][n - 1].source = stack[t][n - 1 - 1].source
      BY <1>4, <3>1
    <3> QED BY <2>3, <3>1, <3>2, <3>3 DEF Stacked
  <2> QED BY <2>1, <2>2, <2>3
<1>7. ASSUME NEW u \in Threads, At(u, "free")'
      PROVE  m_object'[Member(m_object'[Top(u)'.handle])] = NULL
  <2>1. u # t
    <3>1. Top(t)' = y
      BY <1>1 DEF Top
    <3> QED BY <1>7, <3>1 DEF At
  <2>2. At(u, "free") /\ Top(u)' = Top(u)
    BY <1>1, <1>7, <2>1 DEF At, Top
  <2> QED BY <2>2 DEF Stacked
<1> QED BY <1>5, <1>6, <1>7 DEF Stacked

LEMMA PopStack ==
  ASSUME Types, NEW t \in Threads, stack[t] # <<>>, stack' = [stack EXCEPT ![t] = Tail(@)]
  PROVE  /\ stack' \in [Threads -> Seq(FrameSet)]
         /\ \A u \in Threads : u # t => stack'[u] = stack[u]
         /\ DOMAIN stack'[t] = 1..(Len(stack[t]) - 1)
         /\ \A n \in DOMAIN stack'[t] : stack'[t][n] = stack[t][n + 1]
         /\ stack'[t] # <<>> <=> Len(stack[t]) > 1
<1> DEFINE r == Tail(stack[t])
<1>1. stack \in [Threads -> Seq(FrameSet)] /\ stack[t] \in Seq(FrameSet)
  BY DEF Types
<1>2. stack' = [stack EXCEPT ![t] = r]
  OBVIOUS
<1>3. /\ r \in Seq(FrameSet)
      /\ DOMAIN r = 1..(Len(stack[t]) - 1)
      /\ \A n \in DOMAIN r : r[n] = stack[t][n + 1]
      /\ r # <<>> <=> Len(stack[t]) > 1
  BY <1>1, Popped
<1> HIDE DEF r
<1> QED BY <1>1, <1>2, <1>3

LEMMA PopFrames ==
  ASSUME Types, Stacked, NEW t \in Threads, stack[t] # <<>>,
         stack' = [stack EXCEPT ![t] = Tail(@)]
  PROVE  /\ FramesOf(t)' = FramesOf(t) \ {Top(t)}
         /\ \A u \in Threads : u # t => FramesOf(u)' = FramesOf(u)
         /\ Frames' = Frames \ {Top(t)}
         /\ Targets' = Targets \ {Top(t).handle}
<1> DEFINE f == Top(t)
<1>1. /\ \A u \in Threads : u # t => stack'[u] = stack[u]
      /\ DOMAIN stack'[t] = 1..(Len(stack[t]) - 1)
      /\ \A n \in DOMAIN stack'[t] : stack'[t][n] = stack[t][n + 1]
  BY PopStack
<1>2. 1 \in DOMAIN stack[t] /\ f = stack[t][1] /\ DOMAIN stack[t] = 1..Len(stack[t])
      /\ Len(stack[t]) \in Nat \ {0}
  BY Tops
<1>3. f \in FramesOf(t) /\ f \in Frames
  BY Tops
<1> HIDE DEF f
<1>4. ASSUME NEW n \in DOMAIN stack[t], n # 1
      PROVE  stack[t][n] # f
  BY <1>2, <1>4 DEF Stacked
<1>5. ASSUME NEW n \in DOMAIN stack'[t]
      PROVE  stack'[t][n] \in FramesOf(t) \ {f}
  <2>1. n + 1 \in DOMAIN stack[t] /\ n + 1 # 1
    BY <1>1, <1>2
  <2> QED BY <1>1, <1>4, <2>1 DEF FramesOf
<1>6. ASSUME NEW z \in FramesOf(t) \ {f}
      PROVE  z \in FramesOf(t)'
  <2>1. PICK n \in DOMAIN stack[t] : z = stack[t][n] /\ n # 1
    BY <1>2, <1>6 DEF FramesOf
  <2>2. n - 1 \in DOMAIN stack'[t] /\ (n - 1) + 1 = n
    BY <1>1, <1>2, <2>1
  <2>3. z = stack'[t][n - 1]
    BY <1>1, <2>1, <2>2
  <2> QED BY <2>2, <2>3 DEF FramesOf
<1>7. FramesOf(t)' = (FramesOf(t) \ {f}) \cup {}
  <2>1. FramesOf(t)' \subseteq FramesOf(t) \ {f}
    BY <1>5 DEF FramesOf
  <2>2. FramesOf(t) \ {f} \subseteq FramesOf(t)'
    BY <1>6
  <2> QED BY <2>1, <2>2
<1>8. \A u \in Threads : u # t => FramesOf(u)' = FramesOf(u)
  BY <1>1 DEF FramesOf
<1>9. Frames' = (Frames \ {f}) \cup {}
  <2>1. {f} \subseteq FramesOf(t)
    BY <1>3
  <2>2. \A Out, In : /\ Out \subseteq FramesOf(t)
                      /\ FramesOf(t)' = (FramesOf(t) \ Out) \cup In
                      => Frames' = (Frames \ Out) \cup In
    BY <1>8, FramesChange
  <2> QED BY <1>7, <2>1, <2>2
<1>10. Targets' = Targets \ {f.handle}
  <2>1. ASSUME NEW x \in Frames, x # f
        PROVE  x.handle # f.handle
    BY <1>3, <2>1, FramesAreTyped, Distinct
  <2> QED BY <1>3, <1>9, <2>1 DEF Targets
<1> QED BY <1>7, <1>8, <1>9, <1>10 DEF f

LEMMA Below ==
  ASSUME Types, Stacked, NEW t \in Threads, NEW j \in DOMAIN stack[t], j + 1 \in DOMAIN stack[t]
  PROVE  /\ stack[t][j + 1].at = "free"
         /\ stack[t][j].handle = Member(m_object[stack[t][j + 1].handle])
         /\ stack[t][j].source = Nothing
<1> DEFINE k == j + 1
<1>1. j \in Nat /\ j >= 1
  BY LenProperties DEF Types
<1>2. k \in DOMAIN stack[t] /\ k > 1 /\ k - 1 = j
  BY <1>1
<1>3. \A n \in DOMAIN stack[t] : n > 1 =>
         /\ stack[t][n].at = "free"
         /\ stack[t][n - 1].handle = Member(m_object[stack[t][n].handle])
         /\ stack[t][n - 1].source = Nothing
  BY DEF Stacked
<1> HIDE DEF k
<1>4. /\ stack[t][k].at = "free"
      /\ stack[t][k - 1].handle = Member(m_object[stack[t][k].handle])
      /\ stack[t][k - 1].source = Nothing
  BY <1>2, <1>3
<1> QED BY <1>2, <1>4 DEF k

LEMMA PopStacked ==
  ASSUME Types, Stacked, NEW t \in Threads, stack[t] # <<>>, NEW a,
         stack' = [stack EXCEPT ![t] = Tail(@)],
         m_object' = [m_object EXCEPT ![Top(t).handle] = a],
         Top(t).source = Nothing => a = NULL,
         \A u \in Threads : u # t /\ At(u, "free") =>
            /\ m_object[Top(u).handle] \in Addrs
            /\ Top(t).handle # Member(m_object[Top(u).handle])
  PROVE  Stacked'
<1> DEFINE h == Top(t).handle  L == Len(stack[t])
<1>1. /\ \A u \in Threads : u # t => stack'[u] = stack[u]
      /\ DOMAIN stack'[t] = 1..(L - 1)
      /\ \A n \in DOMAIN stack'[t] : stack'[t][n] = stack[t][n + 1]
      /\ stack'[t] # <<>> <=> L > 1
  BY PopStack
<1>2. 1 \in DOMAIN stack[t] /\ Top(t) = stack[t][1] /\ DOMAIN stack[t] = 1..L
      /\ L \in Nat \ {0}
  BY Tops
<1>3. m_object \in [Handles -> Addrs \cup {NULL}]
  BY DEF Types
<1>4. h \in Handles
  BY Tops, FrameFacts
<1> HIDE DEF h, L
<1>5. \A x \in Handles : x # h => m_object'[x] = m_object[x]
  BY <1>3, <1>4 DEF h
<1>6. m_object'[h] = a
  BY <1>3, <1>4 DEF h
<1>7. /\ \A n \in DOMAIN stack'[t] : n + 1 \in DOMAIN stack[t] /\ n + 1 # 1 /\ n \in Nat
      /\ \A n \in DOMAIN stack'[t] : n > 1 => n \in DOMAIN stack[t] /\ n - 1 \in DOMAIN stack'[t]
                                              /\ n + 1 > 1 /\ (n - 1) + 1 = n /\ n + 1 - 1 = n
  BY <1>1, <1>2
<1>8. \A u \in Threads : \A n \in DOMAIN stack[u] : stack[u][n].handle \in Handles
  BY FramesAreTyped, FrameFacts DEF FramesOf
<1>9. \A u \in Threads : \A n \in DOMAIN stack[u] :
         u # t \/ n # 1 => stack[u][n].handle # h
  BY <1>2 DEF Stacked, h
<1>10. ASSUME NEW u \in Threads, NEW v \in Threads,
              NEW m \in DOMAIN stack'[u], NEW n \in DOMAIN stack'[v],
              stack'[u][m].handle = stack'[v][n].handle
       PROVE  u = v /\ m = n
  <2>1. CASE u # t /\ v # t
    BY <1>1, <1>10, <2>1 DEF Stacked
  <2>2. CASE u # t /\ v = t
    BY <1>1, <1>7, <1>10, <2>2 DEF Stacked
  <2>3. CASE u = t /\ v # t
    <3>1. m + 1 \in DOMAIN stack[t] /\ n \in DOMAIN stack[v]
          /\ stack[t][m + 1].handle = stack[v][n].handle
      BY <1>1, <1>7, <1>10, <2>3
    <3> QED BY <2>3, <3>1 DEF Stacked
  <2>4. CASE u = t /\ v = t
    <3>1. m + 1 \in DOMAIN stack[t] /\ n + 1 \in DOMAIN stack[t] /\ m \in Nat /\ n \in Nat
          /\ stack[t][m + 1].handle = stack[t][n + 1].handle
      BY <1>1, <1>7, <1>10, <2>4
    <3>2. m + 1 = n + 1
      BY <3>1 DEF Stacked
    <3> QED BY <2>4, <3>1, <3>2
  <2> QED BY <2>1, <2>2, <2>3, <2>4
<1>11. ASSUME NEW u \in Threads, NEW n \in DOMAIN stack'[u], n > 1
       PROVE  /\ stack'[u][n].at = "free"
              /\ stack'[u][n - 1].handle = Member(m_object'[stack'[u][n].handle])
              /\ stack'[u][n - 1].source = Nothing
  <2>1. CASE u # t
    <3>1. n \in DOMAIN stack[u] /\ stack'[u] = stack[u]
      BY <1>1, <2>1
    <3>2. m_object'[stack[u][n].handle] = m_object[stack[u][n].handle]
      BY <1>5, <1>8, <1>9, <2>1, <3>1
    <3>3. /\ stack[u][n].at = "free"
          /\ stack[u][n - 1].handle = Member(m_object[stack[u][n].handle])
          /\ stack[u][n - 1].source = Nothing
      BY <1>11, <3>1 DEF Stacked
    <3> QED BY <3>1, <3>2, <3>3
  <2>2. CASE u = t
    <3>1. /\ n + 1 \in DOMAIN stack[t] /\ n + 1 # 1 /\ n \in DOMAIN stack[t]
          /\ stack'[t][n] = stack[t][n + 1] /\ stack'[t][n - 1] = stack[t][n]
      <4>1. n - 1 \in DOMAIN stack'[t] /\ (n - 1) + 1 = n
        BY <1>7, <1>11, <2>2
      <4>2. stack'[t][n - 1] = stack[t][n]
        BY <1>1, <4>1
      <4> QED BY <1>1, <1>7, <1>11, <2>2, <4>2
    <3>2. m_object'[stack[t][n + 1].handle] = m_object[stack[t][n + 1].handle]
      BY <1>5, <1>8, <1>9, <3>1
    <3>3. /\ stack[t][n + 1].at = "free"
          /\ stack[t][n].handle = Member(m_object[stack[t][n + 1].handle])
          /\ stack[t][n].source = Nothing
      BY <3>1, Below
    <3> QED BY <2>2, <3>1, <3>2, <3>3
  <2> QED BY <2>1, <2>2
<1>12. ASSUME NEW u \in Threads, At(u, "free")'
       PROVE  m_object'[Member(m_object'[Top(u)'.handle])] = NULL
  <2>1. CASE u # t
    <3>1. At(u, "free") /\ Top(u)' = Top(u) /\ stack[u] # <<>>
      BY <1>1, <1>12, <2>1 DEF At, Top
    <3>2. 1 \in DOMAIN stack[u] /\ Top(u) = stack[u][1]
      BY <3>1, Tops
    <3>3. m_object'[Top(u).handle] = m_object[Top(u).handle]
      BY <1>5, <1>8, <1>9, <2>1, <3>2
    <3>4. m_object[Member(m_object[Top(u).handle])] = NULL
      BY <3>1 DEF Stacked
    <3>5. Member(m_object[Top(u).handle]) # h
      BY <2>1, <3>1 DEF h
    <3>6. m_object'[Member(m_object[Top(u).handle])] = m_object[Member(m_object[Top(u).handle])]
      BY <1>5, <2>1, <3>1, <3>5, HandleNames
    <3> QED BY <3>1, <3>3, <3>4, <3>6
  <2>2. CASE u = t
    <3>1. L > 1 /\ 2 \in DOMAIN stack[t] /\ 1 \in DOMAIN stack'[t]
      BY <1>1, <1>2, <1>12, <2>2 DEF At
    <3>2. Top(t)' = stack[t][2]
      <4>1. Top(t)' = stack'[t][1]
        <5>1. stack'[t] \in Seq(FrameSet) /\ stack'[t] # <<>>
          BY <1>1, <3>1, PopStack
        <5> QED BY <5>1 DEF Top
      <4> QED BY <1>1, <3>1, <4>1
    <3>3. m_object'[stack[t][2].handle] = m_object[stack[t][2].handle]
      BY <1>5, <1>8, <1>9, <3>1
    <3>4. /\ stack[t][1].handle = Member(m_object[stack[t][2].handle])
          /\ stack[t][1].source = Nothing
      <4>1. 1 + 1 = 2
        OBVIOUS
      <4> QED BY <3>1, <1>2, <4>1, Below
    <3>5. a = NULL /\ h = Member(m_object[stack[t][2].handle])
      BY <1>2, <3>4 DEF h
    <3> QED BY <1>6, <2>2, <3>2, <3>3, <3>5
  <2> QED BY <2>1, <2>2
<1> QED BY <1>10, <1>11, <1>12 DEF Stacked

LEMMA BeginFrames ==
  ASSUME Types, Stacked, NEW t \in Threads, stack[t] = <<>>, NEW y \in FrameSet,
         stack' = [stack EXCEPT ![t] = <<y>>]
  PROVE  /\ stack' \in [Threads -> Seq(FrameSet)]
         /\ FramesOf(t) = {} /\ FramesOf(t)' = {y}
         /\ \A u \in Threads : u # t => FramesOf(u)' = FramesOf(u)
         /\ Frames' = Frames \cup {y}
         /\ Targets' = Targets \cup {y.handle}
<1>1. stack \in [Threads -> Seq(FrameSet)] /\ <<y>> \in Seq(FrameSet) /\ DOMAIN <<y>> = {1} /\ <<y>>[1] = y
  BY DEF Types
<1>2. stack'[t] = <<y>> /\ \A u \in Threads : u # t => stack'[u] = stack[u]
  BY <1>1
<1>3. FramesOf(t) = {}
  BY DEF FramesOf
<1>4. FramesOf(t)' = {y}
  BY <1>1, <1>2 DEF FramesOf
<1>5. \A u \in Threads : u # t => FramesOf(u)' = FramesOf(u)
  BY <1>2 DEF FramesOf
<1>6. Frames' = (Frames \ {}) \cup {y}
  <2>1. FramesOf(t)' = (FramesOf(t) \ {}) \cup {y}
    BY <1>3, <1>4
  <2>2. \A Out, In : /\ Out \subseteq FramesOf(t)
                      /\ FramesOf(t)' = (FramesOf(t) \ Out) \cup In
                      => Frames' = (Frames \ Out) \cup In
    BY <1>5, FramesChange
  <2> QED BY <2>1, <2>2
<1>7. Targets' = Targets \cup {y.handle}
  BY <1>6 DEF Targets
<1> QED BY <1>1, <1>3, <1>4, <1>5, <1>6, <1>7

LEMMA BeginStacked ==
  ASSUME Types, Stacked, NEW t \in Threads, stack[t] = <<>>, NEW y \in FrameSet,
         stack' = [stack EXCEPT ![t] = <<y>>],
         y.handle \notin Targets, y.at # "free", UNCHANGED m_object
  PROVE  Stacked'
<1>1. stack \in [Threads -> Seq(FrameSet)] /\ DOMAIN <<y>> = {1} /\ <<y>>[1] = y
  BY DEF Types
<1>2. stack'[t] = <<y>> /\ \A u \in Threads : u # t => stack'[u] = stack[u]
  BY <1>1
<1>3. \A u \in Threads : \A m \in DOMAIN stack[u] : stack[u][m].handle # y.handle
  BY DEF Targets, Frames
<1>4. ASSUME NEW u \in Threads, NEW v \in Threads,
             NEW m \in DOMAIN stack'[u], NEW n \in DOMAIN stack'[v],
             stack'[u][m].handle = stack'[v][n].handle
      PROVE  u = v /\ m = n
  <2>1. CASE u # t /\ v # t
    BY <1>2, <1>4, <2>1 DEF Stacked
  <2>2. CASE u = t /\ v = t
    BY <1>1, <1>2, <2>2
  <2>3. CASE u # t /\ v = t
    BY <1>1, <1>2, <1>3, <1>4, <2>3
  <2>4. CASE u = t /\ v # t
    BY <1>1, <1>2, <1>3, <1>4, <2>4
  <2> QED BY <2>1, <2>2, <2>3, <2>4
<1>5. ASSUME NEW u \in Threads, NEW n \in DOMAIN stack'[u], n > 1
      PROVE  /\ stack'[u][n].at = "free"
             /\ stack'[u][n - 1].handle = Member(m_object'[stack'[u][n].handle])
             /\ stack'[u][n - 1].source = Nothing
  <2>1. u # t
    BY <1>1, <1>2, <1>5
  <2> QED BY <1>2, <1>5, <2>1 DEF Stacked
<1>6. ASSUME NEW u \in Threads, At(u, "free")'
      PROVE  m_object'[Member(m_object'[Top(u)'.handle])] = NULL
  <2>1. u # t
    BY <1>2, <1>6 DEF At, Top
  <2>2. At(u, "free") /\ Top(u)' = Top(u)
    BY <1>2, <1>6, <2>1 DEF At, Top
  <2> QED BY <2>2 DEF Stacked
<1> QED BY <1>4, <1>5, <1>6 DEF Stacked
-----------------------------------------------------------------------------
(* A handle that no operation is changing holds an object that is there,   *)
(* in the map, and not about to be deleted.                                *)
LEMMA StandingIsKnown ==
  ASSUME Types, Doomed, Known, NEW h \in Handles, h \notin Targets,
         m_object[h] # NULL
  PROVE  /\ Stands(h, m_object[h])
         /\ m_object[h] \in Addrs
         /\ m_object[h] \in DOMAIN gAllKnownRefcObjectsMap
         /\ gAllKnownRefcObjectsMap[m_object[h]] = m_ref_count[h]
         /\ m_object[h] \in objects
         /\ \A f \in Frames : Dooms(f) => m_object[f.handle] # m_object[h]
         /\ ~Fresh(m_object[h])
<1>1. m_object[h] \in Addrs
  BY DEF Types
<1>2. Stands(h, m_object[h])
  BY DEF Stands, Released, Targets
<1>3. m_object[h] \in DOMAIN gAllKnownRefcObjectsMap
      /\ gAllKnownRefcObjectsMap[m_object[h]] = m_ref_count[h]
      /\ m_object[h] \in objects
  BY <1>1, <1>2 DEF Known
<1>4. ~Unheld(m_object[h])
  BY <1>2 DEF Unheld
<1> QED BY <1>1, <1>2, <1>3, <1>4 DEF Doomed, Fresh

LEMMA KeptIsKnown ==
  ASSUME Types, Doomed, Known, NEW t \in Threads, NEW a \in Addrs, Keeps(t, a)
  PROVE  /\ ~Unheld(a) /\ ~Fresh(a)
         /\ a \in DOMAIN gAllKnownRefcObjectsMap /\ a \in objects
         /\ \A f \in Frames : Dooms(f) => m_object[f.handle] # a
<1>1. PICK l \in Locals(t) : m_object[l] = a /\ l \notin Targets
  BY DEF Keeps
<1>2. l \in Handles /\ a # NULL
  BY HandleNames, RefcAssumption
<1>3. Stands(l, a)
  BY <1>1, <1>2, StandingIsKnown
<1> QED BY <1>1, <1>2, <1>3, StandingIsKnown DEF Unheld

(* What a thread that is in no operation holds, no operation changes.      *)
LEMMA IdleLocals ==
  ASSUME Types, Owned, NEW t \in Threads, stack[t] = <<>>, NEW l \in Locals(t)
  PROVE  l \notin Targets
<1> SUFFICES ASSUME NEW u \in Threads, NEW f \in FramesOf(u), f.handle = l
             PROVE  FALSE
  BY FramesAreTyped DEF Targets
<1>1. \A b : l # Member(b)
  BY HandleNames
<1>2. l \in Named(u)
  BY <1>1 DEF Owned
<1>3. l \in Locals(u)
  BY <1>1, <1>2, HandleNames DEF Named
<1>4. u = t
  BY <1>3, HandleNames
<1> QED BY <1>4 DEF FramesOf
-----------------------------------------------------------------------------
(* An operation begins.                                                    *)
LEMMA SameStanders ==
  ASSUME UNCHANGED m_object, Released' = Released
  PROVE  /\ \A h, a : Stands(h, a)' <=> Stands(h, a)
         /\ \A a : Unheld(a)' <=> Unheld(a)
         /\ \A a : Standers(a)' = Standers(a)
<1>1. \A h, a : Stands(h, a)' <=> Stands(h, a)
  BY DEF Stands
<1>2. \A a : Unheld(a)' <=> Unheld(a)
  BY <1>1 DEF Unheld
<1>3. \A a : Standers(a)' = Standers(a)
  BY <1>1 DEF Standers
<1> QED BY <1>1, <1>2, <1>3

LEMMA ReachIsHandles ==
  ASSUME Types, NEW t \in Threads
  PROVE  Reach(t) \subseteq Handles /\ Held(t) \subseteq Addrs
<1>1. \A n \in 1..NumLocals : Local(t, n) \in Handles
  BY HandleNames DEF Locals
<1>2. Held(t) \subseteq Addrs
  BY <1>1 DEF Held, Types
<1> QED BY <1>1, <1>2, HandleNames DEF Reach

LEMMA BeginsFacts ==
  ASSUME Types, Stacked, Owned, NEW t \in Threads, NEW h \in Reach(t), NEW src \in Sources,
         Begins(t, h, src)
  PROVE  /\ h \in Handles /\ h \notin Targets \cup Read /\ stack[t] = <<>>
         /\ Frame(h, src, "drop") \in FrameSet
         /\ Frame(h, src, "drop").handle = h
         /\ Frame(h, src, "drop").source = src
         /\ Frame(h, src, "drop").at = "drop"
         /\ stack' \in [Threads -> Seq(FrameSet)]
         /\ FramesOf(t) = {} /\ FramesOf(t)' = {Frame(h, src, "drop")}
         /\ \A u \in Threads : u # t => FramesOf(u)' = FramesOf(u)
         /\ Frames' = Frames \cup {Frame(h, src, "drop")}
         /\ Targets' = Targets \cup {h}
         /\ Released' = Released
         /\ Stacked'
         /\ \A u \in Threads : \A a : u # t /\ Keeps(u, a) => Keeps(u, a)'
         /\ \A a : (\E l \in Locals(t) : l # h /\ m_object[l] = a) => Keeps(t, a)'
         /\ UNCHANGED <<m_object, m_ref_count, gAllKnownRefcObjectsMap, m_val>>
<1> DEFINE y == Frame(h, src, "drop")
<1>1. h \in Handles
  BY ReachIsHandles
<1>2. stack[t] = <<>> /\ h \notin Targets \cup Read /\ stack' = [stack EXCEPT ![t] = <<y>>]
      /\ UNCHANGED <<m_object, m_ref_count, gAllKnownRefcObjectsMap, m_val>>
  BY DEF Begins
<1>3. y \in FrameSet /\ y.handle = h /\ y.source = src /\ y.at = "drop"
  BY <1>1, FrameFacts DEF Places
<1> HIDE DEF y
<1>4. /\ stack' \in [Threads -> Seq(FrameSet)]
      /\ FramesOf(t) = {} /\ FramesOf(t)' = {y}
      /\ \A u \in Threads : u # t => FramesOf(u)' = FramesOf(u)
      /\ Frames' = Frames \cup {y}
      /\ Targets' = Targets \cup {h}
  BY <1>2, <1>3, BeginFrames
<1>5. Released' = Released
  BY <1>3, <1>4 DEF Released
<1>6. Stacked'
  BY <1>2, <1>3, BeginStacked
<1>7. ASSUME NEW u \in Threads, NEW a, u # t, Keeps(u, a)
      PROVE  Keeps(u, a)'
  <2>1. PICK l \in Locals(u) : m_object[l] = a /\ l \notin Targets
    BY <1>7 DEF Keeps
  <2>2. l # h
    <3>1. l \notin Locals(t) /\ l \notin Shared /\ \A b : l # Member(b)
      BY <1>7, HandleNames
    <3> QED BY <3>1 DEF Reach, Locals
  <2>3. l \notin Targets' /\ m_object'[l] = a
    BY <1>2, <1>4, <2>1, <2>2
  <2>4. l \in Locals(u)'
    BY DEF Locals
  <2> QED BY <2>3, <2>4 DEF Keeps
<1>8. ASSUME NEW a, NEW l \in Locals(t), l # h, m_object[l] = a
      PROVE  Keeps(t, a)'
  <2>1. l \notin Targets' /\ m_object'[l] = a
    BY <1>2, <1>4, <1>8, IdleLocals
  <2> QED BY <2>1 DEF Keeps, Locals
<1> QED BY <1>1, <1>2, <1>3, <1>4, <1>5, <1>6, <1>7, <1>8 DEF y

LEMMA BeginsStep ==
  ASSUME RefcInv, NEW t \in Threads, NEW h \in Reach(t), NEW src \in Sources,
         Begins(t, h, src), objects \subseteq objects', objects' \subseteq Addrs,
         UNCHANGED counters,
         \A a \in objects' \ objects : src = Raw(a),
         \A b \in Held(t) : h = Member(b) => Keeps(t, b)',
         src.kind = "copy" => src.handle \in Named(t)' \ Targets',
         src.kind = "raw" => Keeps(t, src.object)' \/ Fresh(src.object)',
         \A f \in Frames : f.source = src /\ src.kind = "raw" => ~Fresh(src.object)
  PROVE  RefcInv'
<1> DEFINE y == Frame(h, src, "drop")
<1>0. Types /\ Stacked /\ Owned /\ Doomed /\ Known /\ Counted /\ Accounted
  BY DEF RefcInv
<1>1. /\ h \in Handles /\ h \notin Targets \cup Read /\ stack[t] = <<>>
      /\ y \in FrameSet /\ y.handle = h /\ y.source = src /\ y.at = "drop"
      /\ stack' \in [Threads -> Seq(FrameSet)]
      /\ FramesOf(t) = {} /\ FramesOf(t)' = {y}
      /\ \A u \in Threads : u # t => FramesOf(u)' = FramesOf(u)
      /\ Frames' = Frames \cup {y}
      /\ Targets' = Targets \cup {h}
      /\ Released' = Released
      /\ Stacked'
      /\ \A u \in Threads : \A a : u # t /\ Keeps(u, a) => Keeps(u, a)'
      /\ \A a : (\E l \in Locals(t) : l # h /\ m_object[l] = a) => Keeps(t, a)'
      /\ UNCHANGED <<m_object, m_ref_count, gAllKnownRefcObjectsMap, m_val>>
  BY <1>0, BeginsFacts
<1> HIDE DEF y
<1>2. /\ \A x, a : Stands(x, a)' <=> Stands(x, a)
      /\ \A a : Unheld(a)' <=> Unheld(a)
      /\ \A a : Standers(a)' = Standers(a)
  BY <1>1, SameStanders
<1>3. Types'
  BY <1>0, <1>1 DEF Types
<1>4. Owned'
  <2>1. ASSUME NEW b, Fresh(b), ~(src = Raw(b))
        PROVE  Fresh(b)'
    BY <1>1, <1>2, <2>1 DEF Fresh, Dooms
  <2>2. ASSUME NEW u \in Threads, u # t, NEW f \in FramesOf(u)
        PROVE  /\ \/ f.handle \in Named(u)'
                  \/ \E g \in FramesOf(u)' : g.at = "free" /\ f.handle = Member(m_object'[g.handle])
               /\ f.source.kind = "copy" => f.source.handle \in Named(u)' \ Targets'
               /\ f.source.kind = "raw" => Keeps(u, f.source.object)' \/ Fresh(f.source.object)'
    <3>1. Named(u) \subseteq Named(u)'
      BY <1>1, <2>2 DEF Named, Locals
    <3>2. f.source.kind = "copy" => f.source.handle \in Named(u)' \ Targets'
      <4>1. f.source.kind = "copy" => f.source.handle \in Read
        BY <1>0, <2>2, FramesAreTyped DEF Read
      <4> QED BY <1>0, <1>1, <2>2, <3>1, <4>1 DEF Owned
    <3>3. f.source.kind = "raw" => Keeps(u, f.source.object)' \/ Fresh(f.source.object)'
      <4>1. f \in Frames /\ f.source \in Sources
        BY <1>0, FramesAreTyped, FrameFacts
      <4>2. ASSUME f.source.kind = "raw", Fresh(f.source.object)
            PROVE  ~(src = Raw(f.source.object))
        <5>1. f.source = Raw(f.source.object)
          BY <4>1, <4>2, SourceFacts
        <5> QED BY <4>1, <4>2, <5>1
      <4> QED BY <1>0, <1>1, <2>1, <2>2, <4>2 DEF Owned
    <3> QED BY <1>0, <1>1, <2>2, <3>1, <3>2, <3>3 DEF Owned
  <2>3. h \in Named(t)'
    <3>1. h \in Locals(t) \/ h \in Shared \/ \E b \in Held(t) : h = Member(b)
      BY DEF Reach, Locals
    <3>2. Held(t) \subseteq Addrs
      BY <1>0, ReachIsHandles
    <3> QED BY <3>1, <3>2 DEF Named, Locals, Shared
  <2> QED BY <1>1, <2>2, <2>3 DEF Owned
<1>5. Doomed'
  <2>1. ~Dooms(y) /\ y.at \notin {"delete", "free", "count"}
    BY <1>1 DEF Dooms
  <2> QED BY <1>0, <1>1, <1>2, <2>1 DEF Doomed, Dooms, Images
<1>6. Known'
  BY <1>0, <1>1, <1>2 DEF Known, Images
<1>7. Counted'
  BY <1>0, <1>1, <1>2 DEF Counted, Images
<1>8. Accounted'
  BY <1>0, <1>1 DEF Accounted, Images, Dooms
<1> QED BY <1>1, <1>3, <1>4, <1>5, <1>6, <1>7, <1>8 DEF RefcInv

(* An object whose member an operation may name stays held by the thread.  *)
LEMMA MembersAreKept ==
  ASSUME Types, Stacked, Owned, NEW t \in Threads, NEW h \in Reach(t), NEW src \in Sources,
         Begins(t, h, src)
  PROVE  \A b \in Held(t) : h = Member(b) => Keeps(t, b)'
<1> SUFFICES ASSUME NEW b \in Held(t), h = Member(b)
             PROVE  Keeps(t, b)'
  OBVIOUS
<1>1. PICK l \in Locals(t) : m_object[l] = b
  BY DEF Held, Locals
<1>2. l # h
  BY HandleNames
<1> QED BY <1>1, <1>2, BeginsFacts

LEMMA AssignNewStep ==
  ASSUME RefcInv, NEW t \in Threads, NEW h \in Reach(t), NEW a \in Addrs, AssignNew(t, h, a)
  PROVE  RefcInv'
<1>0. Types /\ Stacked /\ Owned /\ Doomed /\ Known
  BY DEF RefcInv
<1>1. /\ a \notin objects /\ objects' = objects \cup {a} /\ Begins(t, h, Raw(a))
      /\ UNCHANGED counters
  BY DEF AssignNew
<1>2. Raw(a) \in Sources /\ Raw(a).kind = "raw" /\ Raw(a).object = a
  BY SourceFacts
<1> DEFINE y == Frame(h, Raw(a), "drop")
<1>3. /\ Frames' = Frames \cup {y} /\ Released' = Released
      /\ y.source = Raw(a) /\ y.at = "drop"
      /\ UNCHANGED <<m_object, gAllKnownRefcObjectsMap>>
  BY <1>0, <1>1, <1>2, BeginsFacts
<1> HIDE DEF y
<1>4. ASSUME NEW f \in Frames
      PROVE  f.source # Raw(a)
  <2>1. PICK u \in Threads : f \in FramesOf(u)
    BY <1>0, FramesAreTyped
  <2>2. f.source = Raw(a) => Keeps(u, a) \/ Fresh(a)
    BY <1>0, <1>2, <2>1 DEF Owned
  <2> QED BY <1>0, <1>1, <2>2, KeptIsKnown DEF Fresh
<1>5. Unheld(a)'
  <2>1. \A x \in Handles : ~Stands(x, a)
    BY <1>0, <1>1 DEF Known
  <2> QED BY <1>3, <2>1 DEF Unheld, Stands
<1>6. Fresh(a)'
  <2>1. a \in objects' \ DOMAIN gAllKnownRefcObjectsMap'
    BY <1>0, <1>1, <1>3 DEF Known
  <2>2. \A f \in Frames' : Dooms(f) => m_object'[f.handle] # a
    BY <1>0, <1>1, <1>3 DEF Doomed, Dooms
  <2>3. \A f, g \in Frames' : f.source = Raw(a) /\ g.source = Raw(a) => f = g
    BY <1>3, <1>4
  <2> QED BY <1>5, <2>1, <2>2, <2>3 DEF Fresh, Dooms
<1>7. objects \subseteq objects' /\ objects' \subseteq Addrs /\ \A x \in objects' \ objects : x = a
  BY <1>0, <1>1 DEF Types
<1>8. \A b \in Held(t) : h = Member(b) => Keeps(t, b)'
  BY <1>0, <1>1, <1>2, MembersAreKept
<1> QED BY <1>1, <1>2, <1>4, <1>6, <1>7, <1>8, BeginsStep

LEMMA AssignRawStep ==
  ASSUME RefcInv, NEW t \in Threads, NEW h \in Reach(t), NEW a \in Addrs, AssignRaw(t, h, a)
  PROVE  RefcInv'
<1>0. Types /\ Stacked /\ Owned /\ Doomed /\ Known
  BY DEF RefcInv
<1>1. /\ a \in Held(t) /\ m_object[h] # a /\ Begins(t, h, Raw(a))
      /\ UNCHANGED <<objects, counters>>
  BY DEF AssignRaw, memory
<1>2. Raw(a) \in Sources /\ Raw(a).kind = "raw" /\ Raw(a).object = a
  BY SourceFacts
<1>3. PICK l \in Locals(t) : m_object[l] = a
  BY <1>1 DEF Held, Locals
<1>4. Keeps(t, a)'
  BY <1>0, <1>1, <1>2, <1>3, BeginsFacts
<1>5. Keeps(t, a)
  <2>1. stack[t] = <<>>
    BY <1>1 DEF Begins
  <2> QED BY <1>0, <1>3, <2>1, IdleLocals DEF Keeps
<1>6. ~Fresh(a)
  BY <1>0, <1>5, KeptIsKnown
<1>7. \A b \in Held(t) : h = Member(b) => Keeps(t, b)'
  BY <1>0, <1>1, <1>2, MembersAreKept
<1>8. objects \subseteq objects' /\ objects' \subseteq Addrs /\ \A x \in objects' : x \in objects
  BY <1>0, <1>1 DEF Types
<1> QED BY <1>1, <1>2, <1>4, <1>6, <1>7, <1>8, BeginsStep

LEMMA AssignNullStep ==
  ASSUME RefcInv, NEW t \in Threads, NEW h \in Reach(t), AssignNull(t, h)
  PROVE  RefcInv'
<1>0. Types /\ Stacked /\ Owned
  BY DEF RefcInv
<1>1. Begins(t, h, Nothing) /\ UNCHANGED <<objects, counters>>
  BY DEF AssignNull, memory
<1>2. Nothing \in Sources /\ Nothing.kind = "null"
  BY SourceFacts
<1>3. \A b \in Held(t) : h = Member(b) => Keeps(t, b)'
  BY <1>0, <1>1, <1>2, MembersAreKept
<1>4. objects \subseteq objects' /\ objects' \subseteq Addrs /\ \A x \in objects' : x \in objects
  BY <1>0, <1>1 DEF Types
<1> QED BY <1>1, <1>2, <1>3, <1>4, BeginsStep

LEMMA AssignCopyStep ==
  ASSUME RefcInv, ~OwnMemberToo, NEW t \in Threads, NEW h \in Reach(t), NEW g \in Handles,
         AssignCopy(t, h, g)
  PROVE  RefcInv'
<1>0. Types /\ Stacked /\ Owned
  BY DEF RefcInv
<1>1. /\ g \in Reach(t) \ Targets /\ m_object[h] # m_object[g]
      /\ (m_object[h] # NULL /\ g = Member(m_object[h])) =>
              \E n \in 1..NumLocals :
                 h # Local(t, n) /\ m_object[Local(t, n)] = m_object[h]
      /\ Begins(t, h, Copy(g)) /\ UNCHANGED <<objects, counters>>
  BY DEF AssignCopy, memory
<1>2. Copy(g) \in Sources /\ Copy(g).kind = "copy" /\ Copy(g).handle = g
  BY SourceFacts
<1>3. /\ Targets' = Targets \cup {h}
      /\ \A a : (\E l \in Locals(t) : l # h /\ m_object[l] = a) => Keeps(t, a)'
  BY <1>0, <1>1, <1>2, BeginsFacts
<1>4. g \notin Targets'
  BY <1>1, <1>3
<1>5. g \in Named(t)'
  <2>1. CASE g \in Locals(t) \cup Shared
    BY <2>1 DEF Named, Locals, Shared
  <2>2. ASSUME NEW b \in Held(t), g = Member(b)
        PROVE  g \in Named(t)'
    <3>1. PICK l \in Locals(t) : m_object[l] = b
      BY <2>2 DEF Held, Locals
    <3>2. b \in Addrs /\ b # NULL
      BY <1>0, ReachIsHandles DEF Held
    <3>3. \E k \in Locals(t) : k # h /\ m_object[k] = b
      <4>1. CASE l # h
        BY <3>1, <4>1
      <4>2. CASE l = h
        BY <1>1, <2>2, <3>1, <3>2, <4>2 DEF Locals
      <4> QED BY <4>1, <4>2
    <3>4. Keeps(t, b)'
      BY <1>3, <3>3
    <3> QED BY <2>2, <3>2, <3>4 DEF Named
  <2> QED BY <1>1, <2>1, <2>2 DEF Reach, Locals
<1>6. \A b \in Held(t) : h = Member(b) => Keeps(t, b)'
  BY <1>0, <1>1, <1>2, MembersAreKept
<1>7. objects \subseteq objects' /\ objects' \subseteq Addrs /\ \A x \in objects' : x \in objects
  BY <1>0, <1>1 DEF Types
<1> QED BY <1>1, <1>2, <1>4, <1>5, <1>6, <1>7, BeginsStep

LEMMA OperationStep ==
  ASSUME RefcInv, ~OwnMemberToo, NEW t \in Threads, Operation(t)
  PROVE  RefcInv'
BY AssignNewStep, AssignRawStep, AssignNullStep, AssignCopyStep DEF Operation
-----------------------------------------------------------------------------
(* The operation at the top goes on.                                       *)
(* Where the object of an operation is doomed.                             *)
Doom == {"erase", "delete", "free"}

LEMMA GoesFacts ==
  ASSUME Types, Stacked, NEW t \in Threads, NEW q \in Places, At(t, q),
         NEW p \in Places, p # q, stack' = Goes(t, p), UNCHANGED m_object
  PROVE  /\ Top(t) \in FrameSet /\ Top(t) \in FramesOf(t) /\ Top(t) \in Frames
         /\ Top(t).at = q /\ Top(t).handle \in Handles
         /\ Moved(Top(t), p) \in FrameSet
         /\ Moved(Top(t), p).handle = Top(t).handle
         /\ Moved(Top(t), p).source = Top(t).source
         /\ Moved(Top(t), p).at = p
         /\ stack' \in [Threads -> Seq(FrameSet)]
         /\ FramesOf(t)' = (FramesOf(t) \ {Top(t)}) \cup {Moved(Top(t), p)}
         /\ \A u \in Threads : u # t => FramesOf(u)' = FramesOf(u)
         /\ Frames' = (Frames \ {Top(t)}) \cup {Moved(Top(t), p)}
         /\ Targets' = Targets
         /\ \A g \in Frames : g # Top(t) => g.handle # Top(t).handle
         /\ \A u \in Threads : \A a : Keeps(u, a)' <=> Keeps(u, a)
         /\ \A u \in Threads : Named(u)' = Named(u)
         /\ p # "free" => Stacked'
<1>1. stack[t] # <<>> /\ Top(t).at = q
  BY DEF At
<1>2. /\ Top(t) \in FrameSet /\ Top(t) \in FramesOf(t) /\ Top(t) \in Frames
      /\ Top(t).handle \in Handles
      /\ Moved(Top(t), p) \in FrameSet
      /\ Moved(Top(t), p).handle = Top(t).handle
      /\ Moved(Top(t), p).source = Top(t).source
      /\ Moved(Top(t), p).at = p
  BY <1>1, Tops, FrameFacts
<1>3. stack' \in [Threads -> Seq(FrameSet)]
  BY <1>1, GoesStack
<1>4. /\ FramesOf(t)' = (FramesOf(t) \ {Top(t)}) \cup {Moved(Top(t), p)}
      /\ \A u \in Threads : u # t => FramesOf(u)' = FramesOf(u)
      /\ Frames' = (Frames \ {Top(t)}) \cup {Moved(Top(t), p)}
      /\ Targets' = Targets
  BY <1>1, GoesFrames
<1>5. \A g \in Frames : g # Top(t) => g.handle # Top(t).handle
  BY <1>2, FramesAreTyped, Distinct
<1>6. \A u \in Threads : \A a : Keeps(u, a)' <=> Keeps(u, a)
  BY <1>4 DEF Keeps, Locals
<1>7. \A u \in Threads : Named(u)' = Named(u)
  BY <1>6 DEF Named, Locals
<1>8. p # "free" => Stacked'
  BY <1>1, GoesStacked
<1> QED BY <1>1, <1>2, <1>3, <1>4, <1>5, <1>6, <1>7, <1>8

LEMMA GoesReleased ==
  ASSUME Types, Stacked, NEW t \in Threads, NEW q \in Places, At(t, q),
         NEW p \in Places, p # q, stack' = Goes(t, p), UNCHANGED m_object, p # "drop"
  PROVE  /\ Released' = Released \cup {Top(t).handle}
         /\ q = "drop" => Top(t).handle \notin Released
         /\ q # "drop" => Released' = Released
<1> DEFINE f == Top(t)  g == Moved(Top(t), p)
<1>1. /\ f \in Frames /\ f.at = q /\ g.handle = f.handle /\ g.at = p
      /\ Frames' = (Frames \ {f}) \cup {g}
      /\ \A x \in Frames : x # f => x.handle # f.handle
  BY GoesFacts
<1> HIDE DEF f, g
<1>2. Released' = Released \cup {f.handle}
  <2>1. \A x \in Frames' : x.at # "drop" =>
           x.handle = f.handle \/ \E z \in Frames : z.at # "drop" /\ z.handle = x.handle
    BY <1>1
  <2>2. \A x \in Frames : x.at # "drop" => \E z \in Frames' : z.at # "drop" /\ z.handle = x.handle
    BY <1>1
  <2>3. g \in Frames' /\ g.at # "drop" /\ g.handle = f.handle
    BY <1>1
  <2> QED BY <2>1, <2>2, <2>3 DEF Released
<1>3. q = "drop" => f.handle \notin Released
  BY <1>1 DEF Released
<1>4. q # "drop" => f.handle \in Released
  BY <1>1 DEF Released
<1> QED BY <1>2, <1>3, <1>4 DEF f

LEMMA GoesOwned ==
  ASSUME RefcInv, NEW t \in Threads, NEW q \in Places, At(t, q),
         NEW p \in Places, p # q, stack' = Goes(t, p), UNCHANGED m_object,
         q = "free" => \A g \in FramesOf(t) : g.handle # Member(m_object[Top(t).handle]),
         \A b : Fresh(b) =>
            /\ b \in objects' \ DOMAIN gAllKnownRefcObjectsMap'
            /\ Unheld(b)'
            /\ p \in Doom => m_object[Top(t).handle] # b
  PROVE  Owned'
<1> DEFINE f == Top(t)  g == Moved(Top(t), p)
<1>0. Types /\ Stacked /\ Owned
  BY DEF RefcInv
<1>1. /\ f \in FramesOf(t) /\ f \in Frames /\ f.at = q
      /\ g.handle = f.handle /\ g.source = f.source /\ g.at = p
      /\ FramesOf(t)' = (FramesOf(t) \ {f}) \cup {g}
      /\ \A u \in Threads : u # t => FramesOf(u)' = FramesOf(u)
      /\ Frames' = (Frames \ {f}) \cup {g}
      /\ Targets' = Targets
      /\ \A u \in Threads : \A a : Keeps(u, a)' <=> Keeps(u, a)
      /\ \A u \in Threads : Named(u)' = Named(u)
  BY <1>0, GoesFacts
<1>2. ASSUME NEW b, Fresh(b)
      PROVE  Fresh(b)'
  <2>1. ASSUME NEW x \in Frames', Dooms(x)
        PROVE  m_object'[x.handle] # b
    <3>1. CASE x = g
      BY <1>1, <1>2, <2>1, <3>1 DEF Dooms, Doom
    <3>2. CASE x \in Frames
      BY <1>2, <2>1, <3>2 DEF Fresh
    <3> HIDE DEF f, g
    <3> QED BY <1>1, <3>1, <3>2
  <2>2. \A x, y \in Frames' : x.source = Raw(b) /\ y.source = Raw(b) => x = y
    <3> HIDE DEF f, g
    <3>1. \A x, y \in Frames : x.source = Raw(b) /\ y.source = Raw(b) => x = y
      BY <1>2 DEF Fresh
    <3> QED BY <1>1, <3>1
  <2> QED BY <1>2, <2>1, <2>2 DEF Fresh, Dooms
<1> HIDE DEF f, g
<1>3. ASSUME NEW u \in Threads, NEW x \in FramesOf(u)
      PROVE  /\ \/ x.handle \in Named(u)'
                \/ \E y \in FramesOf(u)' : y.at = "free" /\ x.handle = Member(m_object'[y.handle])
             /\ x.source.kind = "copy" => x.source.handle \in Named(u)' \ Targets'
             /\ x.source.kind = "raw" => Keeps(u, x.source.object)' \/ Fresh(x.source.object)'
  <2>1. x.source.kind = "copy" => x.source.handle \in Named(u)' \ Targets'
    BY <1>0, <1>1 DEF Owned
  <2>2. x.source.kind = "raw" => Keeps(u, x.source.object)' \/ Fresh(x.source.object)'
    BY <1>0, <1>1, <1>2 DEF Owned
  <2>3. ASSUME NEW y \in FramesOf(u), y.at = "free", x.handle = Member(m_object[y.handle])
        PROVE  y \in FramesOf(u)'
    BY <1>1, <2>3 DEF f
  <2>4. \/ x.handle \in Named(u)'
        \/ \E y \in FramesOf(u)' : y.at = "free" /\ x.handle = Member(m_object'[y.handle])
    BY <1>0, <1>1, <2>3 DEF Owned
  <2> QED BY <2>1, <2>2, <2>4
<1>4. \A u \in Threads : \A x \in FramesOf(u)' :
         \E y \in FramesOf(u) : y.handle = x.handle /\ y.source = x.source
  BY <1>1
<1> QED BY <1>3, <1>4 DEF Owned

LEMMA CountIsNat ==
  ASSUME NEW a
  PROVE  IsFiniteSet(Standers(a)) /\ Cardinality(Standers(a)) \in Nat
<1>1. Standers(a) \in SUBSET Handles
  BY DEF Standers
<1> QED BY <1>1, HandlesAreFinite, FS_Subset, FS_CardinalityType

LEMMA DropStep ==
  ASSUME RefcInv, NEW t \in Threads, Drop(t)
  PROVE  RefcInv'
<1>f. PICK f, h, c, o, p, g :
             /\ f = Top(t) /\ h = f.handle /\ c = m_ref_count[h] /\ o = m_object[h]
             /\ p = IF c # NULL /\ m_val'[c] = 0 THEN "erase" ELSE "take"
             /\ g = Moved(f, p)
  OBVIOUS
<1>0. Types /\ Stacked /\ Owned /\ Doomed /\ Known /\ Counted /\ Accounted
  BY DEF RefcInv
<1>1. /\ At(t, "drop")
      /\ c = NULL => UNCHANGED m_val
      /\ c # NULL => m_val' = [m_val EXCEPT ![c] = @ - 1]
      /\ stack' = Goes(t, p)
      /\ UNCHANGED <<m_object, m_ref_count, gAllKnownRefcObjectsMap, objects, counters>>
  BY <1>f DEF Drop, Last, memory
<1>2. "drop" \in Places /\ p \in Places /\ p # "drop" /\ p # "free"
  BY <1>f DEF Places
<1>3. /\ f \in FramesOf(t) /\ f \in Frames /\ f.at = "drop" /\ h \in Handles
      /\ g.handle = h /\ g.source = f.source /\ g.at = p
      /\ stack' \in [Threads -> Seq(FrameSet)]
      /\ Frames' = (Frames \ {f}) \cup {g}
      /\ \A x \in Frames : x # f => x.handle # h
      /\ Stacked'
  BY <1>0, <1>1, <1>2, <1>f, GoesFacts
<1>4. Released' = Released \cup {h} /\ h \notin Released
  BY <1>0, <1>1, <1>2, <1>f, GoesReleased
<1>5. /\ \A x, a : Stands(x, a)' <=> Stands(x, a) /\ x # h
      /\ Stands(h, o)
  BY <1>1, <1>4, <1>f DEF Stands
<1>6. /\ \A a : Unheld(a) => Unheld(a)'
      /\ \A a : Standers(a)' = Standers(a) \ {h}
  <2>1. \A a : Unheld(a) => Unheld(a)'
    BY <1>5 DEF Unheld
  <2>2. ASSUME NEW a
        PROVE  Standers(a)' = Standers(a) \ {h}
    BY <1>5 DEF Standers
  <2> QED BY <2>1, <2>2
<1>7. /\ o \in Addrs \cup {NULL} /\ c \in Counters \cup {NULL} /\ (o = NULL <=> c = NULL)
      /\ NULL \notin Addrs \cup Counters
  BY <1>0, <1>3, <1>f, RefcAssumption DEF Types, Known
<1>8. ASSUME c # NULL
      PROVE  /\ o \in DOMAIN gAllKnownRefcObjectsMap /\ gAllKnownRefcObjectsMap[o] = c
             /\ o \in objects /\ h \in Standers(o) /\ ~Unheld(o)
             /\ m_val[c] = Cardinality(Standers(o))
             /\ m_val'[c] = Cardinality(Standers(o)')
             /\ m_val' \in [Counters -> Nat]
             /\ \A d \in Counters : d # c => m_val'[d] = m_val[d]
             /\ p = "erase" => Unheld(o)'
  <2>1. o \in DOMAIN gAllKnownRefcObjectsMap /\ gAllKnownRefcObjectsMap[o] = c
    BY <1>0, <1>3, <1>5, <1>7, <1>8, <1>f DEF Known
  <2>2. o \in objects
    BY <1>0, <2>1 DEF Known
  <2>3. h \in Standers(o) /\ ~Unheld(o)
    BY <1>3, <1>5 DEF Standers, Unheld
  <2>4. m_val[c] = Cardinality(Standers(o))
    BY <1>0, <2>1 DEF Counted
  <2>5. Cardinality(Standers(o)') = m_val[c] - 1
    <3>1. Cardinality(Standers(o) \ {h}) = Cardinality(Standers(o)) - 1
      BY <2>3, CountIsNat, FS_RemoveElement
    <3> QED BY <1>6, <2>4, <3>1
  <2>6. Cardinality(Standers(o)') \in Nat /\ IsFiniteSet(Standers(o)')
    <3>1. Standers(o) \ {h} \in SUBSET Standers(o)
      OBVIOUS
    <3> QED BY <1>6, <3>1, CountIsNat, FS_Subset, FS_CardinalityType
  <2>7. m_val \in [Counters -> Nat] /\ c \in Counters
    BY <1>0, <1>7, <1>8 DEF Types
  <2>8. m_val' \in [Counters -> Nat] /\ m_val'[c] = m_val[c] - 1
        /\ \A d \in Counters : d # c => m_val'[d] = m_val[d]
    <3>1. m_val[c] - 1 \in Nat
      BY <2>5, <2>6
    <3> QED BY <1>1, <1>8, <2>7, <3>1
  <2>9. ASSUME p = "erase"
        PROVE  Unheld(o)'
    <3>1. m_val'[c] = 0
      BY <2>9, <1>f
    <3>2. Standers(o)' = {}
      BY <2>5, <2>6, <2>8, <3>1, FS_EmptySet
    <3> QED BY <3>2 DEF Standers, Unheld
  <2> QED BY <2>1, <2>2, <2>3, <2>4, <2>5, <2>8, <2>9
<1>9. p = "erase" => c # NULL
  BY <1>f
<1>10. Types'
  BY <1>0, <1>1, <1>3, <1>8 DEF Types
<1>11. Owned'
  <2>1. ASSUME NEW b, Fresh(b)
        PROVE  /\ b \in objects' \ DOMAIN gAllKnownRefcObjectsMap'
               /\ Unheld(b)'
               /\ p \in Doom => o # b
    BY <1>1, <1>2, <1>6, <1>8, <1>9, <2>1, <1>f DEF Fresh, Doom
  <2> QED BY <1>1, <1>2, <2>1, <1>f, GoesOwned
<1>12. Doomed'
  <2>1. ASSUME NEW x \in Frames, x # f, Dooms(x)
        PROVE  /\ m_object[x.handle] \in objects
               /\ Unheld(m_object[x.handle]) /\ Unheld(m_object[x.handle])'
               /\ x.at = "erase" <=> m_object[x.handle] \in DOMAIN gAllKnownRefcObjectsMap
               /\ x.at = "erase" => gAllKnownRefcObjectsMap[m_object[x.handle]] = m_ref_count[x.handle]
               /\ c # NULL => m_object[x.handle] # o
    <3>1. PICK b : b = m_object[x.handle]
      OBVIOUS
    <3>2. b = m_object'[x.handle]
      BY <1>1, <3>1
    <3>3. /\ b \in objects /\ Unheld(b)
          /\ x.at = "erase" <=> b \in DOMAIN gAllKnownRefcObjectsMap
          /\ x.at = "erase" => gAllKnownRefcObjectsMap[b] = m_ref_count[x.handle]
      BY <1>0, <2>1, <3>1 DEF Doomed
    <3>4. Unheld(b)' /\ (c # NULL => b # o)
      BY <1>6, <1>8, <3>3
    <3> QED BY <3>1, <3>2, <3>3, <3>4
  <2>2. ASSUME NEW x \in Frames, NEW y \in Frames, Dooms(x), Dooms(y),
               m_object[x.handle] = m_object[y.handle]
        PROVE  x = y
    BY <1>0, <2>2 DEF Doomed
  <2>3. Dooms(g) => p = "erase"
    BY <1>2, <1>3, <1>f DEF Dooms
  <2>4. g.at \notin {"delete", "free", "count"} /\ (g.at = "erase" <=> p = "erase")
    BY <1>3, <1>f
  <2>5. ASSUME NEW x \in Frames', Dooms(x)
        PROVE  /\ m_object[x.handle] \in objects
               /\ Unheld(m_object[x.handle])'
               /\ x.at = "erase" <=> m_object[x.handle] \in DOMAIN gAllKnownRefcObjectsMap
               /\ x.at = "erase" => gAllKnownRefcObjectsMap[m_object[x.handle]] = m_ref_count[x.handle]
               /\ \A y \in Frames' : Dooms(y) /\ m_object[x.handle] = m_object[y.handle] => x = y
    <3>1. CASE x = g
      <4>1. x.handle = h /\ m_object[x.handle] = o /\ m_object'[x.handle] = o /\ p = "erase"
            /\ m_ref_count[x.handle] = c /\ c # NULL
        BY <1>1, <1>3, <1>9, <1>f, <2>3, <2>5, <3>1
      <4>2. \A y \in Frames' : Dooms(y) /\ o = m_object[y.handle] => y = g
        BY <1>3, <2>1, <4>1, <1>f DEF Dooms
      <4>3. o \in DOMAIN gAllKnownRefcObjectsMap /\ gAllKnownRefcObjectsMap[o] = c
            /\ o \in objects /\ Unheld(o)'
        BY <1>8, <4>1
      <4>4. Unheld(m_object[x.handle])'
        BY <4>1, <4>3
      <4> QED BY <2>4, <3>1, <4>1, <4>2, <4>3, <4>4
    <3>2. CASE x # g
      <4>1. x \in Frames /\ x # f
        BY <1>3, <3>2
      <4>2. ASSUME NEW y \in Frames', Dooms(y), m_object[x.handle] = m_object[y.handle]
            PROVE  x = y
        <5>1. CASE y = g
          <6>1. c # NULL /\ m_object[y.handle] = o
            BY <1>3, <1>9, <1>f, <2>3, <4>2, <5>1
          <6> QED BY <2>1, <2>5, <4>1, <4>2, <6>1
        <5>2. CASE y # g
          BY <1>3, <2>2, <2>5, <4>1, <4>2, <5>2
        <5> QED BY <5>1, <5>2
      <4> QED BY <2>1, <2>5, <4>1, <4>2
    <3> QED BY <3>1, <3>2
  <2>6. ASSUME NEW x \in Frames', x.at \in {"delete", "free", "count"}
        PROVE  /\ m_ref_count[x.handle] \in counters \ Images(gAllKnownRefcObjectsMap)
               /\ \A y \in Frames' : y.at \in {"delete", "free", "count"}
                        /\ m_ref_count[x.handle] = m_ref_count[y.handle] => x = y
    <3>1. x \in Frames
      BY <1>3, <2>4, <2>6
    <3>2. \A y \in Frames' : y.at \in {"delete", "free", "count"} => y \in Frames
      BY <1>3, <2>4
    <3> QED BY <1>0, <2>6, <3>1, <3>2 DEF Doomed
  <2> QED BY <1>1, <2>5, <2>6 DEF Doomed, Dooms, Images
<1>13. Known'
  BY <1>0, <1>1, <1>5 DEF Known, Images
<1>14. Counted'
  <2>1. ASSUME NEW a \in DOMAIN gAllKnownRefcObjectsMap
        PROVE  m_val'[gAllKnownRefcObjectsMap[a]] = Cardinality(Standers(a)')
    <3>1. CASE c # NULL /\ a = o
      BY <1>8, <3>1
    <3>2. CASE c = NULL \/ a # o
      <4>1. a \in Addrs /\ gAllKnownRefcObjectsMap[a] \in Counters
        BY <1>0 DEF Types
      <4>2. a # o
        BY <1>7, <3>2, <4>1
      <4>3. h \notin Standers(a)
        BY <4>2, <1>f DEF Standers, Stands
      <4>4. Standers(a)' = Standers(a)
        BY <1>6, <4>3
      <4>5. c # NULL => gAllKnownRefcObjectsMap[a] # c
        BY <1>0, <1>8, <4>2 DEF Known
      <4>6. m_val'[gAllKnownRefcObjectsMap[a]] = m_val[gAllKnownRefcObjectsMap[a]]
        BY <1>1, <1>8, <4>1, <4>5
      <4> QED BY <1>0, <4>4, <4>6 DEF Counted
    <3> QED BY <3>1, <3>2
  <2>2. ASSUME NEW d \in Counters \ Images(gAllKnownRefcObjectsMap)
        PROVE  m_val'[d] = 0
    <3>1. m_val[d] = 0
      BY <1>0 DEF Counted
    <3>2. c # NULL => d # c
      BY <1>8 DEF Images
    <3> QED BY <1>1, <1>8, <3>1, <3>2
  <2> QED BY <1>1, <2>1, <2>2 DEF Counted, Images
<1>15. Accounted'
  <2>1. ~Dooms(f) /\ f.at \notin {"delete", "free", "count"}
    BY <1>3 DEF Dooms
  <2>2. \A x \in Frames : x = f \/ x \in Frames'
    BY <1>3
  <2>3. g \in Frames' /\ g.source = f.source
    BY <1>3
  <2>4. \A b : (\E x \in Frames : x.source = Raw(b)) => \E x \in Frames' : x.source = Raw(b)
    BY <2>2, <2>3
  <2>5. \A b : (\E x \in Frames : Dooms(x) /\ m_object[x.handle] = b)
               => \E x \in Frames' : Dooms(x) /\ m_object[x.handle] = b
    BY <2>1, <2>2
  <2>6. \A d : (\E x \in Frames : x.at \in {"delete", "free", "count"} /\ m_ref_count[x.handle] = d)
               => \E x \in Frames' : x.at \in {"delete", "free", "count"} /\ m_ref_count[x.handle] = d
    BY <2>1, <2>2
  <2> QED BY <1>0, <1>1, <2>4, <2>5, <2>6 DEF Accounted, Images, Dooms
<1> QED BY <1>3, <1>10, <1>11, <1>12, <1>13, <1>14, <1>15 DEF RefcInv

LEMMA EraseStep ==
  ASSUME RefcInv, NEW t \in Threads, Erase(t)
  PROVE  RefcInv'
<1>f. PICK f, h, o, c, g : /\ f = Top(t) /\ h = f.handle /\ o = m_object[h]
                           /\ c = m_ref_count[h] /\ g = Moved(f, "delete")
  OBVIOUS
<1>0. Types /\ Stacked /\ Owned /\ Doomed /\ Known /\ Counted /\ Accounted
  BY DEF RefcInv
<1>1. /\ At(t, "erase") /\ stack' = Goes(t, "delete")
      /\ DOMAIN gAllKnownRefcObjectsMap' = DOMAIN gAllKnownRefcObjectsMap \ {o}
      /\ \A x \in DOMAIN gAllKnownRefcObjectsMap' :
            gAllKnownRefcObjectsMap'[x] = gAllKnownRefcObjectsMap[x]
      /\ gAllKnownRefcObjectsMap' \in
            [DOMAIN gAllKnownRefcObjectsMap' -> Counters]
      /\ UNCHANGED <<m_object, m_ref_count, m_val, objects, counters>>
  BY <1>0, <1>f DEF Erase, Without, memory, Types
<1>2. "erase" \in Places /\ "delete" \in Places /\ "delete" # "free" /\ "delete" # "drop"
  BY DEF Places
<1>3. /\ f \in FramesOf(t) /\ f \in Frames /\ f.at = "erase" /\ h \in Handles
      /\ g.handle = h /\ g.source = f.source /\ g.at = "delete"
      /\ stack' \in [Threads -> Seq(FrameSet)]
      /\ Frames' = (Frames \ {f}) \cup {g}
      /\ \A x \in Frames : x # f => x.handle # h
      /\ Stacked'
  BY <1>0, <1>1, <1>2, <1>f, GoesFacts
<1>4. Released' = Released
  BY <1>0, <1>1, <1>2, GoesReleased
<1>5. /\ \A x, a : Stands(x, a)' <=> Stands(x, a)
      /\ \A a : Unheld(a)' <=> Unheld(a)
      /\ \A a : Standers(a)' = Standers(a)
  BY <1>1, <1>4, SameStanders
<1>6. /\ o \in objects /\ Unheld(o) /\ o \in DOMAIN gAllKnownRefcObjectsMap
      /\ gAllKnownRefcObjectsMap[o] = c
      /\ \A x \in Frames : Dooms(x) /\ m_object[x.handle] = o => x = f
  BY <1>0, <1>3, <1>f DEF Doomed, Dooms
<1>7. Images(gAllKnownRefcObjectsMap') \subseteq Images(gAllKnownRefcObjectsMap) \ {c}
  BY <1>0, <1>1, <1>6 DEF Images, Known
<1>8. c \in Images(gAllKnownRefcObjectsMap) /\ c \in counters
  BY <1>0, <1>6 DEF Images, Known
<1>9. Types'
  BY <1>0, <1>1, <1>3 DEF Types
<1>10. Owned'
  <2>1. ASSUME NEW b, Fresh(b)
        PROVE  /\ b \in objects' \ DOMAIN gAllKnownRefcObjectsMap'
               /\ Unheld(b)'
               /\ o # b
    BY <1>1, <1>5, <1>6, <2>1 DEF Fresh
  <2> QED BY <1>1, <1>2, <1>f, <2>1, GoesOwned
<1>11. Doomed'
  <2>1. \A x \in Frames' : x = g \/ (x \in Frames /\ x # f)
    BY <1>3
  <2>2. ASSUME NEW x \in Frames, x # f, Dooms(x)
        PROVE  /\ m_object[x.handle] \in objects /\ m_object[x.handle] # o
               /\ Unheld(m_object[x.handle])'
               /\ x.at = "erase" <=> m_object[x.handle] \in DOMAIN gAllKnownRefcObjectsMap'
               /\ x.at = "erase" =>
                     gAllKnownRefcObjectsMap'[m_object[x.handle]] = m_ref_count[x.handle]
               /\ \A y \in Frames : Dooms(y) /\ m_object[x.handle] = m_object[y.handle] => x = y
    <3>1. PICK b : b = m_object[x.handle]
      OBVIOUS
    <3>2. b = m_object'[x.handle]
      BY <1>1, <3>1
    <3>3. /\ b \in objects /\ Unheld(b)
          /\ x.at = "erase" <=> b \in DOMAIN gAllKnownRefcObjectsMap
          /\ x.at = "erase" => gAllKnownRefcObjectsMap[b] = m_ref_count[x.handle]
          /\ \A y \in Frames : Dooms(y) /\ b = m_object[y.handle] => x = y
      BY <1>0, <2>2, <3>1 DEF Doomed
    <3>4. Unheld(b)' /\ b # o
      BY <1>5, <1>6, <2>2, <3>1, <3>3
    <3>5. /\ x.at = "erase" <=> b \in DOMAIN gAllKnownRefcObjectsMap'
          /\ x.at = "erase" => gAllKnownRefcObjectsMap'[b] = m_ref_count[x.handle]
      BY <1>1, <3>3, <3>4
    <3> QED BY <3>1, <3>2, <3>3, <3>4, <3>5
  <2>3. /\ m_object[g.handle] = o /\ m_object'[g.handle] = o /\ m_ref_count[g.handle] = c
        /\ o \notin DOMAIN gAllKnownRefcObjectsMap' /\ g.at # "erase" /\ Unheld(o)'
    BY <1>1, <1>3, <1>5, <1>6, <1>f
  <2>4. ASSUME NEW x \in Frames', Dooms(x)
        PROVE  /\ m_object[x.handle] \in objects
               /\ Unheld(m_object[x.handle])'
               /\ x.at = "erase" <=> m_object[x.handle] \in DOMAIN gAllKnownRefcObjectsMap'
               /\ x.at = "erase" =>
                     gAllKnownRefcObjectsMap'[m_object[x.handle]] = m_ref_count[x.handle]
               /\ \A y \in Frames' : Dooms(y) /\ m_object[x.handle] = m_object[y.handle] => x = y
    <3>1. CASE x = g
      <4>1. \A y \in Frames' : Dooms(y) /\ o = m_object[y.handle] => y = g
        BY <2>1, <2>2
      <4>2. Unheld(m_object[x.handle])'
        BY <2>3, <3>1
      <4> QED BY <1>6, <2>3, <3>1, <4>1, <4>2
    <3>2. CASE x # g
      <4>1. x \in Frames /\ x # f
        BY <2>1, <3>2
      <4>2. \A y \in Frames' : Dooms(y) /\ m_object[x.handle] = m_object[y.handle] => x = y
        BY <2>1, <2>2, <2>3, <2>4, <4>1
      <4> QED BY <2>2, <2>4, <4>1, <4>2
    <3> QED BY <3>1, <3>2
  <2>5. ASSUME NEW x \in Frames, x.at \in {"delete", "free", "count"}
        PROVE  /\ m_ref_count[x.handle] \in counters \ Images(gAllKnownRefcObjectsMap)
               /\ m_ref_count[x.handle] # c
               /\ \A y \in Frames : y.at \in {"delete", "free", "count"}
                        /\ m_ref_count[x.handle] = m_ref_count[y.handle] => x = y
    BY <1>0, <1>8, <2>5 DEF Doomed
  <2>6. ASSUME NEW x \in Frames', x.at \in {"delete", "free", "count"}
        PROVE  /\ m_ref_count[x.handle] \in counters \ Images(gAllKnownRefcObjectsMap')
               /\ \A y \in Frames' : y.at \in {"delete", "free", "count"}
                        /\ m_ref_count[x.handle] = m_ref_count[y.handle] => x = y
    <3>1. CASE x = g
      BY <1>7, <1>8, <2>1, <2>3, <2>5, <3>1
    <3>2. CASE x # g
      BY <1>7, <2>1, <2>3, <2>5, <2>6, <3>2
    <3> QED BY <3>1, <3>2
  <2>7. Images(gAllKnownRefcObjectsMap)' = Images(gAllKnownRefcObjectsMap')
    BY DEF Images
  <2> QED BY <1>1, <2>4, <2>6, <2>7 DEF Doomed, Dooms
<1>12. Known'
  <2>1. \A x \in Handles : ~Stands(x, o)
    BY <1>6 DEF Unheld
  <2>2. \A x \in Handles, a \in Addrs : Stands(x, a)' =>
          /\ a \in DOMAIN gAllKnownRefcObjectsMap'
          /\ gAllKnownRefcObjectsMap'[a] = m_ref_count'[x]
    BY <1>0, <1>1, <1>5, <2>1 DEF Known
  <2>3. Images(gAllKnownRefcObjectsMap)' \subseteq counters'
    BY <1>0, <1>1, <1>7 DEF Images, Known
  <2> QED BY <1>0, <1>1, <2>2, <2>3 DEF Known
<1>13. Counted'
  <2>1. m_val[c] = 0
    <3>1. m_val[c] = Cardinality(Standers(o))
      BY <1>0, <1>6 DEF Counted
    <3>2. Standers(o) = {}
      BY <1>6 DEF Unheld, Standers
    <3> QED BY <3>1, <3>2, FS_EmptySet
  <2>2. \A a \in DOMAIN gAllKnownRefcObjectsMap' :
          m_val'[gAllKnownRefcObjectsMap'[a]] = Cardinality(Standers(a)')
    BY <1>0, <1>1, <1>5 DEF Counted
  <2>3. ASSUME NEW d \in Counters, d \notin Images(gAllKnownRefcObjectsMap')
        PROVE  m_val'[d] = 0
    <3>1. d = c \/ d \notin Images(gAllKnownRefcObjectsMap)
      BY <1>1, <1>6, <2>3 DEF Images
    <3> QED BY <1>0, <1>1, <2>1, <3>1 DEF Counted
  <2> QED BY <2>2, <2>3 DEF Counted, Images
<1>14. Accounted'
  <2>1. g \in Frames' /\ Dooms(g) /\ m_object[g.handle] = o /\ m_ref_count[g.handle] = c
        /\ g.source = f.source /\ g.at = "delete"
    BY <1>3, <1>f DEF Dooms
  <2>2. \A x \in Frames : x = f \/ x \in Frames'
    BY <1>3
  <2>3. \A b : (\E x \in Frames : x.source = Raw(b)) => \E x \in Frames' : x.source = Raw(b)
    BY <2>1, <2>2
  <2>4. \A b : (\E x \in Frames : Dooms(x) /\ m_object[x.handle] = b)
               => \E x \in Frames' : Dooms(x) /\ m_object[x.handle] = b
    BY <1>3, <1>f, <2>1, <2>2
  <2>5. \A d : (\E x \in Frames : x.at \in {"delete", "free", "count"} /\ m_ref_count[x.handle] = d)
               => \E x \in Frames' : x.at \in {"delete", "free", "count"} /\ m_ref_count[x.handle] = d
    BY <1>3, <2>2
  <2>6. ASSUME NEW a \in objects
        PROVE  \/ a \in DOMAIN gAllKnownRefcObjectsMap'
               \/ \E x \in Frames' : Dooms(x) /\ m_object[x.handle] = a
               \/ \E x \in Frames' : x.source = Raw(a)
    BY <1>0, <1>1, <2>1, <2>3, <2>4 DEF Accounted
  <2>7. ASSUME NEW d \in counters
        PROVE  \/ d \in Images(gAllKnownRefcObjectsMap')
               \/ \E x \in Frames' : x.at \in {"delete", "free", "count"} /\ m_ref_count[x.handle] = d
    <3>1. d \in Images(gAllKnownRefcObjectsMap) => d = c \/ d \in Images(gAllKnownRefcObjectsMap')
      BY <1>1, <1>6 DEF Images
    <3> QED BY <1>0, <2>1, <2>5, <3>1 DEF Accounted
  <2> QED BY <1>1, <2>6, <2>7 DEF Accounted, Dooms, Images
<1> QED BY <1>3, <1>9, <1>10, <1>11, <1>12, <1>13, <1>14 DEF RefcInv

(* Of the object that an operation deletes, only the same thread's         *)
(* operation on its member may be under way.                               *)
LEMMA DoomedMembers ==
  ASSUME RefcInv, NEW t \in Threads, NEW f \in FramesOf(t), Dooms(f),
         NEW o, o = m_object[f.handle]
  PROVE  /\ o \in Addrs
         /\ \A u \in Threads : \A x \in FramesOf(u) :
               /\ x.source.kind = "copy" => x.source.handle # Member(o)
               /\ x.handle = Member(o) => u = t /\ f.at = "free"
<1>0. Types /\ Stacked /\ Owned /\ Doomed /\ Known
  BY DEF RefcInv
<1>1. f \in Frames /\ o \in objects /\ o \in Addrs /\ Unheld(o)
      /\ \A x \in Frames : Dooms(x) /\ m_object[x.handle] = o => x = f
  BY <1>0, FramesAreTyped DEF Doomed, Types
<1>2. ASSUME NEW u \in Threads
      PROVE  Member(o) \notin Named(u)
  <2>1. ~Keeps(u, o)
    BY <1>0, <1>1, KeptIsKnown
  <2>2. Member(o) \notin Shared /\ \A l \in Locals(u) : l # Member(o)
    BY <1>1, HandleNames
  <2>3. ASSUME NEW b, Member(b) = Member(o)
        PROVE  b = o
    BY <2>3, HandleNames
  <2> QED BY <2>1, <2>2, <2>3 DEF Named
<1>3. ASSUME NEW u \in Threads, NEW x \in FramesOf(u), x.source.kind = "copy"
      PROVE  x.source.handle # Member(o)
  BY <1>0, <1>2, <1>3 DEF Owned
<1>4. ASSUME NEW u \in Threads, NEW x \in FramesOf(u), x.handle = Member(o)
      PROVE  u = t /\ f.at = "free"
  <2>1. PICK y \in FramesOf(u) : y.at = "free" /\ Member(o) = Member(m_object[y.handle])
    BY <1>0, <1>2, <1>4 DEF Owned
  <2>2. m_object[y.handle] = o
    BY <2>1, HandleNames
  <2>3. y = f
    BY <1>0, <1>1, <2>1, <2>2, FramesAreTyped DEF Dooms
  <2> QED BY <1>0, <2>1, <2>3, Distinct
<1> QED BY <1>1, <1>3, <1>4

LEMMA DeleteObjectStep ==
  ASSUME RefcInv, NEW t \in Threads, DeleteObject(t)
  PROVE  RefcInv'
<1>f. PICK f, h, o, c, g : /\ f = Top(t) /\ h = f.handle /\ o = m_object[h]
                           /\ c = m_ref_count[h] /\ g = Moved(f, "count")
  OBVIOUS
<1>0. Types /\ Stacked /\ Owned /\ Doomed /\ Known /\ Counted /\ Accounted
  BY DEF RefcInv
<1>1. /\ At(t, "free") /\ stack' = Goes(t, "count")
      /\ objects' = objects \ {o}
      /\ UNCHANGED <<m_object, m_ref_count, gAllKnownRefcObjectsMap, m_val, counters>>
  BY <1>f DEF DeleteObject
<1>2. "free" \in Places /\ "count" \in Places /\ "count" # "free" /\ "count" # "drop"
  BY DEF Places
<1>3. /\ f \in FramesOf(t) /\ f \in Frames /\ f.at = "free" /\ h \in Handles
      /\ g.handle = h /\ g.source = f.source /\ g.at = "count"
      /\ stack' \in [Threads -> Seq(FrameSet)]
      /\ Frames' = (Frames \ {f}) \cup {g}
      /\ \A x \in Frames : x # f => x.handle # h
      /\ Stacked'
  BY <1>0, <1>1, <1>2, <1>f, GoesFacts
<1>4. Released' = Released
  BY <1>0, <1>1, <1>2, GoesReleased
<1>5. /\ \A x, a : Stands(x, a)' <=> Stands(x, a)
      /\ \A a : Unheld(a)' <=> Unheld(a)
      /\ \A a : Standers(a)' = Standers(a)
  BY <1>1, <1>4, SameStanders
<1>6. /\ o \in objects /\ Unheld(o) /\ o \notin DOMAIN gAllKnownRefcObjectsMap
      /\ \A x \in Frames : Dooms(x) /\ m_object[x.handle] = o => x = f
  BY <1>0, <1>3, <1>f DEF Doomed, Dooms
<1>7. m_object[Member(o)] = NULL /\ NULL \notin objects
  BY <1>0, <1>1, <1>f, RefcAssumption DEF Stacked, Types
<1>8. ASSUME NEW x \in FramesOf(t)
      PROVE  x.handle # Member(o)
  <2>1. CASE x = f
    BY <1>6, <1>7, <1>f, <2>1
  <2>2. CASE x # f
    <3>1. x.at = "free" /\ x \in Frames
      BY <1>0, <1>f, <2>2, Waiting, FramesAreTyped
    <3>2. m_object[x.handle] \in objects
      BY <1>0, <3>1 DEF Doomed, Dooms
    <3> QED BY <1>7, <3>2
  <2> QED BY <2>1, <2>2
<1>9. Types'
  BY <1>0, <1>1, <1>3 DEF Types
<1>10. Owned'
  <2>1. ASSUME NEW b, Fresh(b)
        PROVE  /\ b \in objects' \ DOMAIN gAllKnownRefcObjectsMap'
               /\ Unheld(b)'
               /\ "count" \notin Doom
    BY <1>1, <1>3, <1>5, <1>f, <2>1 DEF Fresh, Dooms, Doom
  <2> QED BY <1>1, <1>2, <1>8, <1>f, <2>1, GoesOwned
<1>11. Doomed'
  <2>1. \A x \in Frames' : x = g \/ (x \in Frames /\ x # f)
    BY <1>3
  <2>2. ASSUME NEW x \in Frames, x # f, Dooms(x)
        PROVE  /\ m_object[x.handle] \in objects'
               /\ Unheld(m_object[x.handle])'
               /\ x.at = "erase" <=> m_object[x.handle] \in DOMAIN gAllKnownRefcObjectsMap
               /\ x.at = "erase" =>
                     gAllKnownRefcObjectsMap[m_object[x.handle]] = m_ref_count[x.handle]
               /\ \A y \in Frames : Dooms(y) /\ m_object[x.handle] = m_object[y.handle] => x = y
    <3>1. PICK b : b = m_object[x.handle]
      OBVIOUS
    <3>2. b = m_object'[x.handle]
      BY <1>1, <3>1
    <3>3. /\ b \in objects /\ Unheld(b)
          /\ x.at = "erase" <=> b \in DOMAIN gAllKnownRefcObjectsMap
          /\ x.at = "erase" => gAllKnownRefcObjectsMap[b] = m_ref_count[x.handle]
          /\ \A y \in Frames : Dooms(y) /\ b = m_object[y.handle] => x = y
      BY <1>0, <2>2, <3>1 DEF Doomed
    <3>4. Unheld(b)' /\ b # o
      BY <1>5, <1>6, <2>2, <3>1, <3>3
    <3>5. b \in objects'
      BY <1>1, <3>3, <3>4
    <3> QED BY <3>1, <3>2, <3>3, <3>4, <3>5
  <2>3. ~Dooms(g)
    BY <1>3 DEF Dooms
  <2>4. ASSUME NEW x \in Frames', Dooms(x)
        PROVE  /\ m_object[x.handle] \in objects'
               /\ Unheld(m_object[x.handle])'
               /\ x.at = "erase" <=> m_object[x.handle] \in DOMAIN gAllKnownRefcObjectsMap
               /\ x.at = "erase" =>
                     gAllKnownRefcObjectsMap[m_object[x.handle]] = m_ref_count[x.handle]
               /\ \A y \in Frames' : Dooms(y) /\ m_object[x.handle] = m_object[y.handle] => x = y
    <3>1. x \in Frames /\ x # f
      BY <2>1, <2>3, <2>4
    <3>2. \A y \in Frames' : Dooms(y) => y \in Frames
      BY <2>1, <2>3
    <3> QED BY <2>2, <2>4, <3>1, <3>2
  <2>5. ASSUME NEW x \in Frames, x.at \in {"delete", "free", "count"}
        PROVE  /\ m_ref_count[x.handle] \in counters \ Images(gAllKnownRefcObjectsMap)
               /\ \A y \in Frames : y.at \in {"delete", "free", "count"}
                        /\ m_ref_count[x.handle] = m_ref_count[y.handle] => x = y
    BY <1>0, <2>5 DEF Doomed
  <2>6. ASSUME NEW x \in Frames', x.at \in {"delete", "free", "count"}
        PROVE  /\ m_ref_count[x.handle] \in counters \ Images(gAllKnownRefcObjectsMap)
               /\ \A y \in Frames' : y.at \in {"delete", "free", "count"}
                        /\ m_ref_count[x.handle] = m_ref_count[y.handle] => x = y
    <3>1. m_ref_count[g.handle] = m_ref_count[f.handle] /\ f \in Frames
          /\ f.at \in {"delete", "free", "count"}
      BY <1>3, <1>f
    <3>2. CASE x = g
      BY <2>1, <2>5, <3>1, <3>2
    <3>3. CASE x # g
      BY <2>1, <2>5, <2>6, <3>1, <3>3
    <3> QED BY <3>2, <3>3
  <2> QED BY <1>1, <2>4, <2>6 DEF Doomed, Dooms, Images
<1>12. Known'
  <2>1. \A a \in Addrs \ objects' : m_object'[Member(a)] = NULL
    BY <1>0, <1>1, <1>7 DEF Known
  <2>2. DOMAIN gAllKnownRefcObjectsMap' \subseteq objects'
    BY <1>0, <1>1, <1>6 DEF Known
  <2> QED BY <1>0, <1>1, <1>5, <2>1, <2>2 DEF Known, Images
<1>13. Counted'
  BY <1>0, <1>1, <1>5 DEF Counted, Images
<1>14. Accounted'
  <2>1. g \in Frames' /\ g.source = f.source /\ g.at = "count" /\ g.handle = f.handle
    BY <1>3, <1>f
  <2>2. \A x \in Frames : x = f \/ x \in Frames'
    BY <1>3
  <2>3. \A b : (\E x \in Frames : x.source = Raw(b)) => \E x \in Frames' : x.source = Raw(b)
    BY <2>1, <2>2
  <2>4. \A b \in objects' : (\E x \in Frames : Dooms(x) /\ m_object[x.handle] = b)
               => \E x \in Frames' : Dooms(x) /\ m_object[x.handle] = b
    BY <1>1, <1>f, <2>2
  <2>5. \A d : (\E x \in Frames : x.at \in {"delete", "free", "count"} /\ m_ref_count[x.handle] = d)
               => \E x \in Frames' : x.at \in {"delete", "free", "count"} /\ m_ref_count[x.handle] = d
    BY <2>1, <2>2
  <2> QED BY <1>0, <1>1, <2>3, <2>4, <2>5 DEF Accounted, Dooms, Images
<1> QED BY <1>3, <1>9, <1>10, <1>11, <1>12, <1>13, <1>14 DEF RefcInv

LEMMA DeleteCounterStep ==
  ASSUME RefcInv, NEW t \in Threads, DeleteCounter(t)
  PROVE  RefcInv'
<1>f. PICK f, h, c, g : /\ f = Top(t) /\ h = f.handle
                        /\ c = m_ref_count[h] /\ g = Moved(f, "take")
  OBVIOUS
<1>0. Types /\ Stacked /\ Owned /\ Doomed /\ Known /\ Counted /\ Accounted
  BY DEF RefcInv
<1>1. /\ At(t, "count") /\ stack' = Goes(t, "take")
      /\ counters' = counters \ {c}
      /\ UNCHANGED <<m_object, m_ref_count, gAllKnownRefcObjectsMap, m_val, objects>>
  BY <1>f DEF DeleteCounter
<1>2. "count" \in Places /\ "take" \in Places /\ "take" # "free" /\ "take" # "drop"
  BY DEF Places
<1>3. /\ f \in FramesOf(t) /\ f \in Frames /\ f.at = "count" /\ h \in Handles
      /\ g.handle = h /\ g.source = f.source /\ g.at = "take"
      /\ stack' \in [Threads -> Seq(FrameSet)]
      /\ Frames' = (Frames \ {f}) \cup {g}
      /\ Stacked'
  BY <1>0, <1>1, <1>2, <1>f, GoesFacts
<1>4. Released' = Released
  BY <1>0, <1>1, <1>2, GoesReleased
<1>5. /\ \A x, a : Stands(x, a)' <=> Stands(x, a)
      /\ \A a : Unheld(a)' <=> Unheld(a)
      /\ \A a : Standers(a)' = Standers(a)
  BY <1>1, <1>4, SameStanders
<1>6. /\ c \notin Images(gAllKnownRefcObjectsMap)
      /\ \A x \in Frames : x.at \in {"delete", "free", "count"} /\ m_ref_count[x.handle] = c => x = f
  BY <1>0, <1>3, <1>f DEF Doomed
<1>7. \A x \in Frames' : x = g \/ (x \in Frames /\ x # f)
  BY <1>3
<1>8. ~Dooms(g) /\ g.at \notin {"delete", "free", "count"} /\ ~Dooms(f)
  BY <1>3 DEF Dooms
<1>9. Types'
  BY <1>0, <1>1, <1>3 DEF Types
<1>10. Owned'
  <2>1. ASSUME NEW b, Fresh(b)
        PROVE  /\ b \in objects' \ DOMAIN gAllKnownRefcObjectsMap'
               /\ Unheld(b)'
               /\ "take" \notin Doom
    BY <1>1, <1>5, <2>1 DEF Fresh, Doom
  <2> QED BY <1>1, <1>2, <1>f, <2>1, GoesOwned
<1>11. Doomed'
  <2>1. ASSUME NEW x \in Frames', Dooms(x)
        PROVE  /\ m_object[x.handle] \in objects
               /\ Unheld(m_object[x.handle])'
               /\ x.at = "erase" <=> m_object[x.handle] \in DOMAIN gAllKnownRefcObjectsMap
               /\ x.at = "erase" =>
                     gAllKnownRefcObjectsMap[m_object[x.handle]] = m_ref_count[x.handle]
               /\ \A y \in Frames' : Dooms(y) /\ m_object[x.handle] = m_object[y.handle] => x = y
    <3>1. x \in Frames
      BY <1>7, <1>8, <2>1
    <3>2. PICK b : b = m_object[x.handle]
      OBVIOUS
    <3>3. b = m_object'[x.handle]
      BY <1>1, <3>2
    <3>4. /\ b \in objects /\ Unheld(b)
          /\ x.at = "erase" <=> b \in DOMAIN gAllKnownRefcObjectsMap
          /\ x.at = "erase" => gAllKnownRefcObjectsMap[b] = m_ref_count[x.handle]
          /\ \A y \in Frames : Dooms(y) /\ b = m_object[y.handle] => x = y
      BY <1>0, <2>1, <3>1, <3>2 DEF Doomed
    <3>5. Unheld(b)'
      BY <1>5, <3>4
    <3>6. \A y \in Frames' : Dooms(y) => y \in Frames
      BY <1>7, <1>8
    <3> QED BY <3>2, <3>3, <3>4, <3>5, <3>6
  <2>2. ASSUME NEW x \in Frames', x.at \in {"delete", "free", "count"}
        PROVE  /\ m_ref_count[x.handle] \in counters' \ Images(gAllKnownRefcObjectsMap)
               /\ \A y \in Frames' : y.at \in {"delete", "free", "count"}
                        /\ m_ref_count[x.handle] = m_ref_count[y.handle] => x = y
    <3>1. x \in Frames /\ x # f
      BY <1>7, <1>8, <2>2
    <3>2. \A y \in Frames' : y.at \in {"delete", "free", "count"} => y \in Frames
      BY <1>7, <1>8
    <3>3. m_ref_count[x.handle] \in counters \ Images(gAllKnownRefcObjectsMap)
          /\ \A y \in Frames : y.at \in {"delete", "free", "count"}
                        /\ m_ref_count[x.handle] = m_ref_count[y.handle] => x = y
      BY <1>0, <2>2, <3>1 DEF Doomed
    <3> QED BY <1>1, <1>6, <2>2, <3>1, <3>2, <3>3
  <2> QED BY <1>1, <2>1, <2>2 DEF Doomed, Dooms, Images
<1>12. Known'
  <2>1. Images(gAllKnownRefcObjectsMap)' \subseteq counters'
    BY <1>0, <1>1, <1>6 DEF Known, Images
  <2> QED BY <1>0, <1>1, <1>5, <2>1 DEF Known
<1>13. Counted'
  BY <1>0, <1>1, <1>5 DEF Counted, Images
<1>14. Accounted'
  <2>1. g \in Frames' /\ g.source = f.source
    BY <1>3
  <2>2. \A x \in Frames : x = f \/ x \in Frames'
    BY <1>3
  <2>3. \A b : (\E x \in Frames : x.source = Raw(b)) => \E x \in Frames' : x.source = Raw(b)
    BY <2>1, <2>2
  <2>4. \A b : (\E x \in Frames : Dooms(x) /\ m_object[x.handle] = b)
               => \E x \in Frames' : Dooms(x) /\ m_object[x.handle] = b
    BY <1>8, <2>2
  <2>5. \A d \in counters' :
           (\E x \in Frames : x.at \in {"delete", "free", "count"} /\ m_ref_count[x.handle] = d)
               => \E x \in Frames' : x.at \in {"delete", "free", "count"} /\ m_ref_count[x.handle] = d
    BY <1>1, <1>f, <2>2
  <2> QED BY <1>0, <1>1, <2>3, <2>4, <2>5 DEF Accounted, Dooms, Images
<1> QED BY <1>3, <1>9, <1>10, <1>11, <1>12, <1>13, <1>14 DEF RefcInv

LEMMA DeleteMembersStep ==
  ASSUME RefcInv, NEW t \in Threads, DeleteMembers(t)
  PROVE  RefcInv'
<1>f. PICK f, h, o, g, y : /\ f = Top(t) /\ h = f.handle /\ o = m_object[h]
                           /\ g = Moved(f, "free") /\ y = Frame(Member(o), Nothing, "drop")
  OBVIOUS
<1>0. Types /\ Stacked /\ Owned /\ Doomed /\ Known /\ Counted /\ Accounted
  BY DEF RefcInv
<1>1. /\ stack[t] # <<>> /\ f.at = "delete"
      /\ stack' = [stack EXCEPT ![t] = <<y>> \o Goes(t, "free")[t]]
      /\ UNCHANGED <<m_object, m_ref_count, gAllKnownRefcObjectsMap, m_val, objects, counters>>
  BY <1>f DEF DeleteMembers, At, memory
<1>2. /\ f \in FramesOf(t) /\ f \in Frames /\ h \in Handles
      /\ g \in FrameSet /\ g.handle = h /\ g.source = f.source /\ g.at = "free"
  BY <1>0, <1>1, <1>f, Tops, FrameFacts DEF Places
<1>3. Dooms(f)
  BY <1>1 DEF Dooms
<1>4. /\ o \in Addrs
      /\ \A u \in Threads : \A x \in FramesOf(u) :
            /\ x.source.kind = "copy" => x.source.handle # Member(o)
            /\ x.handle # Member(o)
  BY <1>1, <1>2, <1>3, <1>f, DoomedMembers
<1>5. /\ y \in FrameSet /\ y.handle = Member(o) /\ y.source = Nothing /\ y.at = "drop"
      /\ Nothing.kind = "null" /\ \A b : Nothing # Raw(b)
  BY <1>4, <1>f, HandleNames, FrameFacts, SourceFacts DEF Places
<1>6. Member(o) \notin Targets
  BY <1>0, <1>4, FramesAreTyped DEF Targets
<1>7. /\ FramesOf(t)' = (FramesOf(t) \ {f}) \cup {g, y}
      /\ \A u \in Threads : u # t => FramesOf(u)' = FramesOf(u)
      /\ Frames' = (Frames \ {f}) \cup {g, y}
      /\ Targets' = Targets \cup {Member(o)}
  BY <1>0, <1>1, <1>5, <1>f, PushFrames
<1>8. Stacked'
  BY <1>0, <1>1, <1>5, <1>6, <1>f, PushStacked
<1>9. stack' \in [Threads -> Seq(FrameSet)]
  BY <1>0, <1>1, <1>5, PushStack
<1>10. Released' = Released
  <2>1. \A x \in Frames' : x.at # "drop" => \E z \in Frames : z.at # "drop" /\ z.handle = x.handle
    BY <1>1, <1>2, <1>5, <1>7, <1>f
  <2>2. \A x \in Frames : x.at # "drop" => \E z \in Frames' : z.at # "drop" /\ z.handle = x.handle
    BY <1>2, <1>f, <1>7
  <2> QED BY <2>1, <2>2 DEF Released
<1>11. /\ \A x, a : Stands(x, a)' <=> Stands(x, a)
       /\ \A a : Unheld(a)' <=> Unheld(a)
       /\ \A a : Standers(a)' = Standers(a)
  BY <1>1, <1>10, SameStanders
<1>12. \A x \in Frames' : x = y \/ x = g \/ (x \in Frames /\ x # f)
  BY <1>7
<1>13. ~Dooms(y) /\ y.at \notin {"delete", "free", "count"} /\ Dooms(g)
  BY <1>2, <1>5 DEF Dooms
<1>14. Types'
  BY <1>0, <1>1, <1>9 DEF Types
<1>15. Owned'
  <2>1. ASSUME NEW u \in Threads, NEW a, Keeps(u, a)
        PROVE  Keeps(u, a)'
    <3>1. PICK l \in Locals(u) : m_object[l] = a /\ l \notin Targets
      BY <2>1 DEF Keeps
    <3>2. l # Member(o)
      BY HandleNames
    <3>3. l \notin Targets' /\ m_object'[l] = a
      BY <1>1, <1>7, <3>1, <3>2
    <3> QED BY <3>3 DEF Keeps, Locals
  <2>2. \A u \in Threads : Named(u) \subseteq Named(u)'
    BY <2>1 DEF Named, Locals
  <2>3. ASSUME NEW b, Fresh(b)
        PROVE  Fresh(b)'
    <3>1. \A x \in Frames' : Dooms(x) => m_object'[x.handle] # b
      BY <1>1, <1>2, <1>3, <1>12, <1>13, <1>f, <2>3 DEF Fresh
    <3>2. ASSUME NEW x \in Frames', NEW z \in Frames', x.source = Raw(b), z.source = Raw(b)
          PROVE  x = z
      <4>1. \A v, w \in Frames : v.source = Raw(b) /\ w.source = Raw(b) => v = w
        BY <2>3 DEF Fresh
      <4>2. x # y /\ z # y
        BY <1>5, <3>2
      <4> QED BY <1>2, <1>12, <3>2, <4>1, <4>2
    <3> QED BY <1>1, <1>11, <2>3, <3>1, <3>2 DEF Fresh, Dooms
  <2>4. ASSUME NEW u \in Threads, NEW x \in FramesOf(u)
        PROVE  /\ \/ x.handle \in Named(u)'
                  \/ \E z \in FramesOf(u)' : z.at = "free" /\ x.handle = Member(m_object'[z.handle])
               /\ x.source.kind = "copy" => x.source.handle \in Named(u)' \ Targets'
               /\ x.source.kind = "raw" => Keeps(u, x.source.object)' \/ Fresh(x.source.object)'
    <3>1. x.source.kind = "copy" => x.source.handle \in Named(u)' \ Targets'
      BY <1>0, <1>4, <1>7, <2>2 DEF Owned
    <3>2. x.source.kind = "raw" => Keeps(u, x.source.object)' \/ Fresh(x.source.object)'
      BY <1>0, <2>1, <2>3 DEF Owned
    <3>3. \A z \in FramesOf(u) : z.at = "free" => z \in FramesOf(u)'
      BY <1>1, <1>7
    <3>4. \/ x.handle \in Named(u)'
          \/ \E z \in FramesOf(u)' : z.at = "free" /\ x.handle = Member(m_object'[z.handle])
      BY <1>0, <1>1, <2>2, <3>3 DEF Owned
    <3> QED BY <3>1, <3>2, <3>4
  <2>5. g \in FramesOf(t)' /\ m_object'[g.handle] = o
    BY <1>1, <1>2, <1>7, <1>f
  <2>6. \A u \in Threads : \A x \in FramesOf(u)' :
           \/ u = t /\ x = y
           \/ \E z \in FramesOf(u) : z.handle = x.handle /\ z.source = x.source
    BY <1>2, <1>7, <1>f
  <2>7. ASSUME NEW u \in Threads, NEW x \in FramesOf(u)'
        PROVE  /\ \/ x.handle \in Named(u)'
                  \/ \E z \in FramesOf(u)' : z.at = "free" /\ x.handle = Member(m_object'[z.handle])
               /\ x.source.kind = "copy" => x.source.handle \in Named(u)' \ Targets'
               /\ x.source.kind = "raw" => Keeps(u, x.source.object)' \/ Fresh(x.source.object)'
    <3>1. CASE u = t /\ x = y
      BY <1>2, <1>5, <2>5, <3>1
    <3>2. CASE \E z \in FramesOf(u) : z.handle = x.handle /\ z.source = x.source
      BY <2>4, <3>2
    <3> QED BY <2>6, <3>1, <3>2
  <2> QED BY <2>7 DEF Owned
<1>16. Doomed'
  <2>1. ASSUME NEW x \in Frames, Dooms(x)
        PROVE  /\ m_object[x.handle] \in objects
               /\ Unheld(m_object[x.handle])'
               /\ x.at = "erase" <=> m_object[x.handle] \in DOMAIN gAllKnownRefcObjectsMap
               /\ x.at = "erase" =>
                     gAllKnownRefcObjectsMap[m_object[x.handle]] = m_ref_count[x.handle]
               /\ \A z \in Frames : Dooms(z) /\ m_object[x.handle] = m_object[z.handle] => x = z
    <3>1. PICK b : b = m_object[x.handle]
      OBVIOUS
    <3>2. b = m_object'[x.handle]
      BY <1>1, <3>1
    <3>3. /\ b \in objects /\ Unheld(b)
          /\ x.at = "erase" <=> b \in DOMAIN gAllKnownRefcObjectsMap
          /\ x.at = "erase" => gAllKnownRefcObjectsMap[b] = m_ref_count[x.handle]
          /\ \A z \in Frames : Dooms(z) /\ b = m_object[z.handle] => x = z
      BY <1>0, <2>1, <3>1 DEF Doomed
    <3>4. Unheld(b)'
      BY <1>11, <3>3
    <3> QED BY <3>1, <3>2, <3>3, <3>4
  <2>2. ASSUME NEW x \in Frames, x.at \in {"delete", "free", "count"}
        PROVE  /\ m_ref_count[x.handle] \in counters \ Images(gAllKnownRefcObjectsMap)
               /\ \A z \in Frames : z.at \in {"delete", "free", "count"}
                        /\ m_ref_count[x.handle] = m_ref_count[z.handle] => x = z
    BY <1>0, <2>2 DEF Doomed
  <2>3. g.handle = f.handle /\ g.at # "erase" /\ f.at # "erase" /\ f.at \in {"delete", "free", "count"}
    BY <1>1, <1>2, <1>f
  <2>4. ASSUME NEW x \in Frames', Dooms(x)
        PROVE  /\ m_object[x.handle] \in objects
               /\ Unheld(m_object[x.handle])'
               /\ x.at = "erase" <=> m_object[x.handle] \in DOMAIN gAllKnownRefcObjectsMap
               /\ x.at = "erase" =>
                     gAllKnownRefcObjectsMap[m_object[x.handle]] = m_ref_count[x.handle]
               /\ \A z \in Frames' : Dooms(z) /\ m_object[x.handle] = m_object[z.handle] => x = z
    <3>1. CASE x = g
      <4>1. \A z \in Frames' : Dooms(z) /\ m_object[f.handle] = m_object[z.handle] => z = g
        BY <1>2, <1>3, <1>12, <1>13, <2>1
      <4>2. Unheld(m_object[g.handle])'
        <5>1. m_object'[g.handle] = m_object'[f.handle] /\ Unheld(m_object[f.handle])'
          BY <1>2, <1>3, <2>1, <2>3
        <5> QED BY <5>1
      <4> QED BY <1>2, <1>3, <2>1, <2>3, <3>1, <4>1, <4>2
    <3>2. CASE x # g
      <4>1. x \in Frames /\ x # f
        BY <1>12, <1>13, <2>4, <3>2
      <4>2. \A z \in Frames' : Dooms(z) /\ m_object[x.handle] = m_object[z.handle] => x = z
        BY <1>2, <1>3, <1>12, <1>13, <2>1, <2>3, <2>4, <4>1
      <4> QED BY <2>1, <2>4, <4>1, <4>2
    <3> QED BY <3>1, <3>2
  <2>5. ASSUME NEW x \in Frames', x.at \in {"delete", "free", "count"}
        PROVE  /\ m_ref_count[x.handle] \in counters \ Images(gAllKnownRefcObjectsMap)
               /\ \A z \in Frames' : z.at \in {"delete", "free", "count"}
                        /\ m_ref_count[x.handle] = m_ref_count[z.handle] => x = z
    <3>1. CASE x = g
      BY <1>2, <1>12, <1>13, <2>2, <2>3, <3>1
    <3>2. CASE x # g
      BY <1>2, <1>12, <1>13, <2>2, <2>3, <2>5, <3>2
    <3> QED BY <3>1, <3>2
  <2> QED BY <1>1, <2>4, <2>5 DEF Doomed, Dooms, Images
<1>17. Known'
  BY <1>0, <1>1, <1>11 DEF Known, Images
<1>18. Counted'
  BY <1>0, <1>1, <1>11 DEF Counted, Images
<1>19. Accounted'
  <2>1. g \in Frames' /\ Dooms(g) /\ g.source = f.source /\ g.at = "free" /\ g.handle = f.handle
    BY <1>2, <1>7, <1>13, <1>f
  <2>2. \A x \in Frames : x = f \/ x \in Frames'
    BY <1>7
  <2>3. \A b : (\E x \in Frames : x.source = Raw(b)) => \E x \in Frames' : x.source = Raw(b)
    BY <2>1, <2>2
  <2>4. \A b : (\E x \in Frames : Dooms(x) /\ m_object[x.handle] = b)
               => \E x \in Frames' : Dooms(x) /\ m_object[x.handle] = b
    BY <2>1, <2>2
  <2>5. \A d : (\E x \in Frames : x.at \in {"delete", "free", "count"} /\ m_ref_count[x.handle] = d)
               => \E x \in Frames' : x.at \in {"delete", "free", "count"} /\ m_ref_count[x.handle] = d
    BY <2>1, <2>2
  <2>6. \A a \in objects : \/ a \in DOMAIN gAllKnownRefcObjectsMap
                           \/ \E x \in Frames' : Dooms(x) /\ m_object[x.handle] = a
                           \/ \E x \in Frames' : x.source = Raw(a)
    BY <1>0, <2>3, <2>4 DEF Accounted
  <2>7. \A d \in counters :
           \/ d \in Images(gAllKnownRefcObjectsMap)
           \/ \E x \in Frames' : x.at \in {"delete", "free", "count"} /\ m_ref_count[x.handle] = d
    BY <1>0, <2>5 DEF Accounted
  <2> QED BY <1>1, <2>6, <2>7 DEF Accounted, Dooms, Images
<1> QED BY <1>8, <1>14, <1>15, <1>16, <1>17, <1>18, <1>19 DEF RefcInv
-----------------------------------------------------------------------------
(* An operation ends: its handle takes what it is given.                   *)
LEMMA TakesFacts ==
  ASSUME Types, Stacked, NEW t \in Threads, At(t, "take"), NEW a, NEW c, Takes(t, a, c),
         NEW f, f = Top(t), NEW h, h = f.handle
  PROVE  /\ f \in FramesOf(t) /\ f \in Frames /\ f \in FrameSet /\ f.at = "take"
         /\ h \in Handles /\ stack[t] # <<>>
         /\ m_object' = [m_object EXCEPT ![h] = a]
         /\ m_object'[h] = a /\ m_ref_count'[h] = c
         /\ \A x \in Handles : x # h => /\ m_object'[x] = m_object[x]
                                        /\ m_ref_count'[x] = m_ref_count[x]
         /\ a \in Addrs \cup {NULL} => m_object' \in [Handles -> Addrs \cup {NULL}]
         /\ c \in Counters \cup {NULL} => m_ref_count' \in [Handles -> Counters \cup {NULL}]
         /\ stack' = [stack EXCEPT ![t] = Tail(@)]
         /\ stack' \in [Threads -> Seq(FrameSet)]
         /\ FramesOf(t)' = FramesOf(t) \ {f}
         /\ \A u \in Threads : u # t => FramesOf(u)' = FramesOf(u)
         /\ Frames' = Frames \ {f}
         /\ Targets' = Targets \ {h}
         /\ \A x \in Frames : x # f => x.handle # h
         /\ \A x \in Frames : x.handle \in Handles
         /\ h \in Targets /\ h \in Released
         /\ Released' = Released \ {h}
         /\ UNCHANGED objects
<1>1. /\ m_object' = [m_object EXCEPT ![h] = a]
      /\ m_ref_count' = [m_ref_count EXCEPT ![h] = c]
      /\ stack' = [stack EXCEPT ![t] = Tail(@)]
      /\ UNCHANGED objects
  BY DEF Takes
<1>2. stack[t] # <<>> /\ f.at = "take"
  BY DEF At
<1>3. f \in FramesOf(t) /\ f \in Frames /\ f \in FrameSet /\ h \in Handles
  BY <1>2, Tops, FrameFacts
<1>4. /\ m_object'[h] = a /\ m_ref_count'[h] = c
      /\ \A x \in Handles : x # h => m_object'[x] = m_object[x] /\ m_ref_count'[x] = m_ref_count[x]
      /\ a \in Addrs \cup {NULL} => m_object' \in [Handles -> Addrs \cup {NULL}]
      /\ c \in Counters \cup {NULL} => m_ref_count' \in [Handles -> Counters \cup {NULL}]
  <2>1. m_object \in [Handles -> Addrs \cup {NULL}] /\ m_ref_count \in [Handles -> Counters \cup {NULL}]
    BY DEF Types
  <2> QED BY <1>1, <1>3, <2>1
<1>5. stack' \in [Threads -> Seq(FrameSet)]
  BY <1>1, <1>2, PopStack
<1>6. /\ FramesOf(t)' = FramesOf(t) \ {f}
      /\ \A u \in Threads : u # t => FramesOf(u)' = FramesOf(u)
      /\ Frames' = Frames \ {f}
      /\ Targets' = Targets \ {h}
  BY <1>1, <1>2, PopFrames
<1>7. /\ \A x \in Frames : x # f => x.handle # h
      /\ \A x \in Frames : x.handle \in Handles
  BY <1>3, FramesAreTyped, Distinct, FrameFacts
<1>8. h \in Targets /\ h \in Released
  BY <1>2, <1>3 DEF Targets, Released
<1>9. Released' = Released \ {h}
  <2>1. \A x \in Released' : x \in Released \ {h}
    BY <1>6, <1>7 DEF Released
  <2>2. \A x \in Released \ {h} : x \in Released'
    BY <1>6, <1>7 DEF Released
  <2> QED BY <2>1, <2>2
<1> QED BY <1>1, <1>2, <1>3, <1>4, <1>5, <1>6, <1>7, <1>8, <1>9

(* The member that an operation changes is that of an object which the     *)
(* thread keeps or deletes itself, so it is there and nobody else's.       *)
LEMMA TargetIsThere ==
  ASSUME RefcInv, NEW t \in Threads, NEW f \in FramesOf(t)
  PROVE  /\ \A b \in Addrs : f.handle = Member(b) => b \in objects
         /\ \A u \in Threads : u # t /\ At(u, "free") =>
               /\ m_object[Top(u).handle] \in Addrs
               /\ f.handle # Member(m_object[Top(u).handle])
<1>0. Types /\ Stacked /\ Owned /\ Doomed /\ Known
  BY DEF RefcInv
<1>1. ASSUME NEW b \in Addrs, f.handle = Member(b)
      PROVE  b \in objects
  <2>1. CASE f.handle \in Named(t)
    <3>1. Member(b) \notin Shared /\ \A l \in Locals(t) : l # Member(b)
      BY HandleNames
    <3>2. Keeps(t, b)
      BY <1>1, <2>1, <3>1, HandleNames DEF Named
    <3> QED BY <1>0, <3>2, KeptIsKnown
  <2>2. ASSUME NEW g \in FramesOf(t), g.at = "free", f.handle = Member(m_object[g.handle])
        PROVE  b \in objects
    <3>1. m_object[g.handle] = b
      BY <1>1, <2>2 DEF Member
    <3> QED BY <1>0, <2>2, <3>1, FramesAreTyped DEF Doomed, Dooms
  <2> QED BY <1>0, <2>1, <2>2 DEF Owned
<1>2. ASSUME NEW u \in Threads, u # t, At(u, "free")
      PROVE  /\ m_object[Top(u).handle] \in Addrs
             /\ f.handle # Member(m_object[Top(u).handle])
  <2>1. Top(u) \in FramesOf(u) /\ Dooms(Top(u))
    BY <1>0, <1>2, Tops DEF At, Dooms
  <2> QED BY <1>2, <2>1, DoomedMembers
<1> QED BY <1>1, <1>2

LEMMA TakesStep ==
  ASSUME RefcInv, NEW t \in Threads, At(t, "take"), NEW a, NEW c, Takes(t, a, c),
         NEW f, f = Top(t),
         a \in Addrs \cup {NULL}, c \in Counters \cup {NULL}, a = NULL <=> c = NULL,
         a # NULL => a \in objects /\ \A x \in Frames : Dooms(x) => m_object[x.handle] # a,
         f.source = Nothing => a = NULL,
         \A b \in Addrs : f.source = Raw(b) => a = b,
         a # NULL /\ Fresh(a) => f.source = Raw(a),
         gAllKnownRefcObjectsMap' \in [DOMAIN gAllKnownRefcObjectsMap' -> Counters],
         DOMAIN gAllKnownRefcObjectsMap' = DOMAIN gAllKnownRefcObjectsMap \cup ({a} \ {NULL}),
         \A x \in DOMAIN gAllKnownRefcObjectsMap :
            gAllKnownRefcObjectsMap'[x] = gAllKnownRefcObjectsMap[x],
         a # NULL => gAllKnownRefcObjectsMap'[a] = c,
         a # NULL /\ a \notin DOMAIN gAllKnownRefcObjectsMap => c \notin counters,
         m_val' \in [Counters -> Nat],
         \A d \in Counters : d # c => m_val'[d] = m_val[d],
         a # NULL => m_val'[c] = Cardinality(Standers(a)) + 1,
         counters' = counters \cup ({c} \ {NULL})
  PROVE  RefcInv'
<1>f. PICK h : h = f.handle
  OBVIOUS
<1>0. Types /\ Stacked /\ Owned /\ Doomed /\ Known /\ Counted /\ Accounted
  BY DEF RefcInv
<1>1. /\ f \in FramesOf(t) /\ f \in Frames /\ f \in FrameSet /\ f.at = "take"
      /\ h \in Handles /\ stack[t] # <<>>
      /\ m_object'[h] = a /\ m_ref_count'[h] = c
      /\ \A x \in Handles : x # h => /\ m_object'[x] = m_object[x]
                                     /\ m_ref_count'[x] = m_ref_count[x]
      /\ m_object' \in [Handles -> Addrs \cup {NULL}]
      /\ m_ref_count' \in [Handles -> Counters \cup {NULL}]
      /\ stack' \in [Threads -> Seq(FrameSet)]
      /\ FramesOf(t)' = FramesOf(t) \ {f}
      /\ \A u \in Threads : u # t => FramesOf(u)' = FramesOf(u)
      /\ Frames' = Frames \ {f}
      /\ Targets' = Targets \ {h}
      /\ \A x \in Frames : x # f => x.handle # h
      /\ \A x \in Frames : x.handle \in Handles
      /\ h \in Targets /\ h \in Released
      /\ Released' = Released \ {h}
      /\ UNCHANGED objects
  BY <1>0, <1>f, TakesFacts
<1>2. NULL \notin Addrs \cup Counters
  BY RefcAssumption
<1>3. Stacked'
  <2>1. /\ m_object' = [m_object EXCEPT ![Top(t).handle] = a]
        /\ stack' = [stack EXCEPT ![t] = Tail(@)]
    BY DEF Takes
  <2>2. \A u \in Threads : u # t /\ At(u, "free") =>
               /\ m_object[Top(u).handle] \in Addrs
               /\ Top(t).handle # Member(m_object[Top(u).handle])
    BY <1>1, TargetIsThere
  <2>3. stack[t] # <<>> /\ (Top(t).source = Nothing => a = NULL)
    BY <1>1
  <2> QED BY <1>0, <2>1, <2>2, <2>3, PopStacked
<1>4. /\ \A x \in Handles : \A b : Stands(x, b)' <=> (x # h /\ Stands(x, b)) \/ (x = h /\ b = a)
      /\ \A b : ~Stands(h, b)
  BY <1>1 DEF Stands
<1>5. \A b : Unheld(b) /\ b # a => Unheld(b)'
  BY <1>4 DEF Unheld
<1>6. /\ \A b : b # a => Standers(b)' = Standers(b)
      /\ Standers(a)' = Standers(a) \cup {h} /\ h \notin Standers(a)
  <2>1. ASSUME NEW b, b # a
        PROVE  Standers(b)' = Standers(b)
    BY <1>4, <2>1 DEF Standers
  <2>2. Standers(a)' = Standers(a) \cup {h} /\ h \notin Standers(a)
    BY <1>1, <1>4 DEF Standers
  <2> QED BY <2>1, <2>2
<1>7. Types'
  <2>1. DOMAIN gAllKnownRefcObjectsMap' \subseteq Addrs
    BY <1>0 DEF Types
  <2>2. counters' \subseteq Counters
    BY <1>0 DEF Types
  <2> QED BY <1>0, <1>1, <2>1, <2>2 DEF Types
<1>8. ASSUME NEW b, NEW u \in Threads, Keeps(u, b)
      PROVE  Keeps(u, b)'
  <2>1. PICK l \in Locals(u) : m_object[l] = b /\ l \notin Targets
    BY <1>8 DEF Keeps
  <2>2. l \notin Targets' /\ m_object'[l] = b
    BY <1>1, <2>1, HandleNames
  <2> QED BY <2>2 DEF Keeps, Locals
<1>9. Owned'
  <2>1. \A u \in Threads : Named(u) \subseteq Named(u)'
    BY <1>8 DEF Named, Locals
  <2>2. ASSUME NEW b \in Addrs, Fresh(b), b # a
        PROVE  Fresh(b)'
    <3>1. b \in objects' \ DOMAIN gAllKnownRefcObjectsMap'
      BY <1>1, <2>2 DEF Fresh
    <3>2. \A x \in Frames' : Dooms(x) => m_object'[x.handle] # b
      BY <1>1, <2>2 DEF Fresh
    <3>3. \A x, z \in Frames' : x.source = Raw(b) /\ z.source = Raw(b) => x = z
      BY <1>1, <2>2 DEF Fresh
    <3> QED BY <1>5, <2>2, <3>1, <3>2, <3>3 DEF Fresh, Dooms
  <2>3. ASSUME NEW u \in Threads, NEW x \in FramesOf(u), x # f
        PROVE  /\ \/ x.handle \in Named(u)'
                  \/ \E z \in FramesOf(u)' : z.at = "free" /\ x.handle = Member(m_object'[z.handle])
               /\ x.source.kind = "copy" => x.source.handle \in Named(u)' \ Targets'
               /\ x.source.kind = "raw" => Keeps(u, x.source.object)' \/ Fresh(x.source.object)'
    <3>0. x \in Frames /\ x.source \in Sources
      BY <1>0, FramesAreTyped, FrameFacts
    <3>1. x.source.kind = "copy" => x.source.handle \in Named(u)' \ Targets'
      BY <1>0, <1>1, <2>1 DEF Owned
    <3>2. ASSUME x.source.kind = "raw"
          PROVE  Keeps(u, x.source.object)' \/ Fresh(x.source.object)'
      <4>1. x.source.object \in Addrs /\ x.source = Raw(x.source.object)
        BY <3>0, <3>2, SourceFacts
      <4>2. ASSUME Fresh(x.source.object)
            PROVE  x.source.object # a
        <5>1. \A v, w \in Frames : v.source = x.source /\ w.source = x.source => v = w
          BY <4>1, <4>2 DEF Fresh
        <5>2. f.source # x.source
          BY <1>1, <2>3, <3>0, <5>1
        <5>3. ASSUME x.source.object = a
              PROVE  FALSE
          <6>1. a # NULL /\ Fresh(a)
            BY <1>2, <4>1, <4>2, <5>3
          <6> QED BY <4>1, <5>2, <5>3, <6>1
        <5> QED BY <5>3
      <4> QED BY <1>0, <1>8, <2>2, <3>2, <4>1, <4>2 DEF Owned
    <3>3. \A z \in FramesOf(u) : z.at = "free" =>
             z \in FramesOf(u)' /\ m_object'[z.handle] = m_object[z.handle]
      BY <1>0, <1>1, FramesAreTyped
    <3>4. \/ x.handle \in Named(u)'
          \/ \E z \in FramesOf(u)' : z.at = "free" /\ x.handle = Member(m_object'[z.handle])
      BY <1>0, <2>1, <3>3 DEF Owned
    <3> QED BY <3>1, <3>2, <3>4
  <2>4. \A u \in Threads : \A x \in FramesOf(u)' : x \in FramesOf(u) /\ x # f
    <3>1. \A u \in Threads : u # t => f \notin FramesOf(u)
      BY <1>0, <1>1, Distinct
    <3> QED BY <1>1, <3>1
  <2> QED BY <2>3, <2>4 DEF Owned
<1>10. \A x \in Frames' : x \in Frames /\ x # f
  BY <1>1
<1>11. \A x \in Frames' : /\ m_object'[x.handle] = m_object[x.handle]
                          /\ m_ref_count'[x.handle] = m_ref_count[x.handle]
  BY <1>1
<1>12. Doomed'
  <2>1. ASSUME NEW x \in Frames', Dooms(x)
        PROVE  /\ m_object'[x.handle] \in objects'
               /\ Unheld(m_object[x.handle])'
               /\ x.at = "erase" <=> m_object'[x.handle] \in DOMAIN gAllKnownRefcObjectsMap'
               /\ x.at = "erase" =>
                     gAllKnownRefcObjectsMap'[m_object'[x.handle]] = m_ref_count'[x.handle]
               /\ \A z \in Frames' : Dooms(z) /\ m_object'[x.handle] = m_object'[z.handle] => x = z
    <3>1. PICK b : b = m_object[x.handle]
      OBVIOUS
    <3>2. b = m_object'[x.handle]
      BY <1>11, <3>1
    <3>3. /\ b \in objects /\ Unheld(b)
          /\ x.at = "erase" <=> b \in DOMAIN gAllKnownRefcObjectsMap
          /\ x.at = "erase" => gAllKnownRefcObjectsMap[b] = m_ref_count[x.handle]
          /\ \A z \in Frames : Dooms(z) /\ b = m_object[z.handle] => x = z
      BY <1>0, <1>10, <2>1, <3>1 DEF Doomed
    <3>4. b # a
      <4>1. b # NULL
        BY <1>0, <1>2, <3>3 DEF Types
      <4> QED BY <1>10, <2>1, <3>1, <4>1
    <3>5. Unheld(b)'
      BY <1>5, <3>3, <3>4
    <3>6. /\ x.at = "erase" <=> b \in DOMAIN gAllKnownRefcObjectsMap'
          /\ x.at = "erase" => gAllKnownRefcObjectsMap'[b] = m_ref_count[x.handle]
      BY <3>3, <3>4
    <3>7. \A z \in Frames' : Dooms(z) /\ b = m_object'[z.handle] => x = z
      BY <1>10, <1>11, <3>3
    <3> QED BY <1>1, <1>11, <2>1, <3>2, <3>3, <3>5, <3>6, <3>7
  <2>2. ASSUME NEW x \in Frames', x.at \in {"delete", "free", "count"}
        PROVE  /\ m_ref_count'[x.handle] \in counters' \ Images(gAllKnownRefcObjectsMap)'
               /\ \A z \in Frames' : z.at \in {"delete", "free", "count"}
                        /\ m_ref_count'[x.handle] = m_ref_count'[z.handle] => x = z
    <3>1. /\ m_ref_count[x.handle] \in counters \ Images(gAllKnownRefcObjectsMap)
          /\ \A z \in Frames : z.at \in {"delete", "free", "count"}
                        /\ m_ref_count[x.handle] = m_ref_count[z.handle] => x = z
      BY <1>0, <1>10, <2>2 DEF Doomed
    <3>2. ASSUME NEW d \in Images(gAllKnownRefcObjectsMap)'
          PROVE  d \in Images(gAllKnownRefcObjectsMap) \/ d \notin counters
      <4>1. PICK b \in DOMAIN gAllKnownRefcObjectsMap' : d = gAllKnownRefcObjectsMap'[b]
        BY DEF Images
      <4>2. CASE b \in DOMAIN gAllKnownRefcObjectsMap
        BY <4>1, <4>2 DEF Images
      <4>3. CASE b \notin DOMAIN gAllKnownRefcObjectsMap
        BY <4>1, <4>3
      <4> QED BY <4>2, <4>3
    <3>3. m_ref_count[x.handle] \in counters' \ Images(gAllKnownRefcObjectsMap)'
      BY <3>1, <3>2
    <3> QED BY <1>10, <1>11, <3>1, <3>3
  <2> QED BY <2>1, <2>2 DEF Doomed, Dooms
<1>13. Known'
  <2>1. \A x \in Handles : m_object'[x] = NULL <=> m_ref_count'[x] = NULL
    BY <1>0, <1>1 DEF Known
  <2>2. ASSUME NEW b \in Addrs \ objects'
        PROVE  m_object'[Member(b)] = NULL
    <3>1. b \notin objects /\ m_object[Member(b)] = NULL /\ Member(b) \in Handles
      BY <1>0, <1>1, HandleNames DEF Known
    <3>2. Member(b) # h
      BY <1>1, <1>f, <3>1, TargetIsThere
    <3> QED BY <1>1, <3>1, <3>2
  <2>3. ASSUME NEW x \in Handles, NEW b \in Addrs, Stands(x, b)'
        PROVE  /\ b \in DOMAIN gAllKnownRefcObjectsMap'
               /\ gAllKnownRefcObjectsMap'[b] = m_ref_count'[x]
    <3>1. CASE x # h
      BY <1>0, <1>1, <1>4, <2>3, <3>1 DEF Known
    <3>2. CASE x = h
      BY <1>1, <1>2, <1>4, <2>3, <3>2
    <3> QED BY <3>1, <3>2
  <2>4. DOMAIN gAllKnownRefcObjectsMap' \subseteq objects'
    BY <1>0, <1>1 DEF Known
  <2>5. ASSUME NEW b \in DOMAIN gAllKnownRefcObjectsMap'
        PROVE  gAllKnownRefcObjectsMap'[b] \in counters'
    <3>1. CASE b \in DOMAIN gAllKnownRefcObjectsMap
      BY <1>0, <3>1 DEF Known, Images
    <3>2. CASE b = a /\ a # NULL
      BY <3>2
    <3> QED BY <3>1, <3>2
  <2>6. ASSUME NEW b \in DOMAIN gAllKnownRefcObjectsMap', NEW d \in DOMAIN gAllKnownRefcObjectsMap',
               gAllKnownRefcObjectsMap'[b] = gAllKnownRefcObjectsMap'[d]
        PROVE  b = d
    <3>1. \A x \in DOMAIN gAllKnownRefcObjectsMap : gAllKnownRefcObjectsMap[x] \in counters
      BY <1>0 DEF Known, Images
    <3>2. \A x, y \in DOMAIN gAllKnownRefcObjectsMap :
              gAllKnownRefcObjectsMap[x] = gAllKnownRefcObjectsMap[y] => x = y
      BY <1>0 DEF Known
    <3> QED BY <2>6, <3>1, <3>2
  <2> QED BY <2>1, <2>2, <2>3, <2>4, <2>5, <2>6 DEF Known, Images
<1>14. Counted'
  <2>1. ASSUME NEW b \in DOMAIN gAllKnownRefcObjectsMap'
        PROVE  m_val'[gAllKnownRefcObjectsMap'[b]] = Cardinality(Standers(b)')
    <3>1. CASE b = a /\ a # NULL
      <4>1. Cardinality(Standers(a)') = Cardinality(Standers(a)) + 1
        <5>1. /\ IsFiniteSet(Standers(a))
              /\ Standers(a)' = Standers(a) \cup {h} /\ h \notin Standers(a)
          BY <1>6, CountIsNat
        <5>2. \A S : IsFiniteSet(S) /\ h \notin S => Cardinality(S \cup {h}) = Cardinality(S) + 1
          BY FS_AddElement
        <5> QED BY <5>1, <5>2
      <4> QED BY <3>1, <4>1
    <3>2. CASE b # a
      <4>1. b \in DOMAIN gAllKnownRefcObjectsMap /\ gAllKnownRefcObjectsMap[b] \in counters
            /\ gAllKnownRefcObjectsMap[b] \in Counters
        BY <1>0, <3>2 DEF Types, Known, Images
      <4>2. gAllKnownRefcObjectsMap[b] # c
        <5>1. CASE a = NULL
          BY <1>2, <4>1, <5>1
        <5>2. CASE a # NULL /\ a \in DOMAIN gAllKnownRefcObjectsMap
          BY <1>0, <3>2, <4>1, <5>2 DEF Known
        <5>3. CASE a # NULL /\ a \notin DOMAIN gAllKnownRefcObjectsMap
          BY <4>1, <5>3
        <5> QED BY <5>1, <5>2, <5>3
      <4>3. m_val[gAllKnownRefcObjectsMap[b]] = Cardinality(Standers(b))
        BY <1>0, <4>1 DEF Counted
      <4> QED BY <1>6, <3>2, <4>1, <4>2, <4>3
    <3>3. b # NULL
      BY <1>0, <1>2 DEF Types
    <3> QED BY <3>1, <3>2, <3>3
  <2>2. ASSUME NEW d \in Counters, d \notin Images(gAllKnownRefcObjectsMap)'
        PROVE  m_val'[d] = 0
    <3>1. d \notin Images(gAllKnownRefcObjectsMap)
      BY <2>2 DEF Images
    <3>2. d # c
      BY <1>2, <2>2 DEF Images
    <3> QED BY <1>0, <3>1, <3>2 DEF Counted
  <2> QED BY <2>1, <2>2 DEF Counted
<1>15. Accounted'
  <2>1. \A x \in Frames : x = f \/ x \in Frames'
    BY <1>1
  <2>2. f.at \notin {"delete", "free", "count"} /\ ~Dooms(f)
    BY <1>1 DEF Dooms
  <2>3. ASSUME NEW b \in objects
        PROVE  \/ b \in DOMAIN gAllKnownRefcObjectsMap'
               \/ \E x \in Frames' : Dooms(x) /\ m_object'[x.handle] = b
               \/ \E x \in Frames' : x.source = Raw(b)
    <3>1. CASE b \in DOMAIN gAllKnownRefcObjectsMap
      BY <3>1
    <3>2. ASSUME NEW x \in Frames, Dooms(x), m_object[x.handle] = b
          PROVE  \E z \in Frames' : Dooms(z) /\ m_object'[z.handle] = b
      BY <1>11, <2>1, <2>2, <3>2
    <3>3. ASSUME NEW x \in Frames, x.source = Raw(b)
          PROVE  \/ b \in DOMAIN gAllKnownRefcObjectsMap'
                 \/ \E z \in Frames' : z.source = Raw(b)
      <4>1. CASE x = f
        <5>1. b \in Addrs
          BY <1>0 DEF Types
        <5>2. a = b /\ a # NULL
          BY <1>2, <3>3, <4>1, <5>1
        <5> QED BY <5>2
      <4>2. CASE x # f
        BY <2>1, <3>3, <4>2
      <4> QED BY <4>1, <4>2
    <3> QED BY <1>0, <3>1, <3>2, <3>3 DEF Accounted
  <2>4. ASSUME NEW d \in counters'
        PROVE  \/ d \in Images(gAllKnownRefcObjectsMap)'
               \/ \E x \in Frames' : x.at \in {"delete", "free", "count"} /\ m_ref_count'[x.handle] = d
    <3>1. CASE d = c /\ c # NULL
      BY <3>1 DEF Images
    <3>2. CASE d \in counters
      <4>1. d \in Images(gAllKnownRefcObjectsMap) => d \in Images(gAllKnownRefcObjectsMap)'
        BY DEF Images
      <4>2. ASSUME NEW x \in Frames, x.at \in {"delete", "free", "count"}, m_ref_count[x.handle] = d
            PROVE  \E z \in Frames' : z.at \in {"delete", "free", "count"} /\ m_ref_count'[z.handle] = d
        BY <1>11, <2>1, <2>2, <4>2
      <4> QED BY <1>0, <3>2, <4>1, <4>2 DEF Accounted
    <3> QED BY <3>1, <3>2
  <2> QED BY <1>1, <2>3, <2>4 DEF Accounted, Dooms
<1> QED BY <1>3, <1>7, <1>9, <1>12, <1>13, <1>14, <1>15 DEF RefcInv

LEMMA TopOfTake ==
  ASSUME RefcInv, NEW t \in Threads, At(t, "take"), NEW f, f = Top(t)
  PROVE  /\ f \in FramesOf(t) /\ f.source \in Sources
         /\ f.source.kind = "copy" =>
               /\ f.source.handle \in Handles /\ f.source.handle \notin Targets
               /\ \A b : f.source # Raw(b)
               /\ f.source # Nothing
         /\ f.source.kind = "raw" =>
               /\ f.source.object \in Addrs
               /\ Keeps(t, f.source.object) \/ Fresh(f.source.object)
               /\ f.source = Raw(f.source.object)
               /\ \A b : f.source = Raw(b) => b = f.source.object
               /\ f.source # Nothing
         /\ f.source.kind = "null" => f.source = Nothing /\ \A b : f.source # Raw(b)
<1>0. Types /\ Owned
  BY DEF RefcInv
<1>1. f \in FramesOf(t) /\ f.source \in Sources
  BY <1>0, Tops, FrameFacts DEF At
<1>2. /\ f.source.kind = "copy" => f.source.handle \notin Targets
      /\ f.source.kind = "raw" => Keeps(t, f.source.object) \/ Fresh(f.source.object)
  BY <1>0, <1>1 DEF Owned
<1>3. \A b : Raw(b).kind = "raw" /\ Raw(b).object = b
  BY SourceFacts
<1>4. Nothing.kind = "null"
  BY SourceFacts
<1>5. /\ f.source.kind = "copy" => f.source.handle \in Handles
      /\ f.source.kind = "raw" => f.source.object \in Addrs /\ f.source = Raw(f.source.object)
      /\ f.source.kind = "null" => f.source = Nothing
  BY <1>1, SourceFacts
<1> QED BY <1>1, <1>2, <1>3, <1>4, <1>5

LEMMA TakeNullStep ==
  ASSUME RefcInv, NEW t \in Threads, TakeNull(t)
  PROVE  RefcInv'
<1>f. PICK f : f = Top(t)
  OBVIOUS
<1>0. Types
  BY DEF RefcInv
<1>1. /\ At(t, "take") /\ f.source.kind = "null" /\ Takes(t, NULL, NULL)
      /\ UNCHANGED <<gAllKnownRefcObjectsMap, m_val, counters>>
  BY <1>f DEF TakeNull
<1>2. f.source = Nothing /\ \A b : f.source # Raw(b)
  BY <1>1, <1>f, TopOfTake
<1>3. /\ gAllKnownRefcObjectsMap' \in [DOMAIN gAllKnownRefcObjectsMap' -> Counters]
      /\ DOMAIN gAllKnownRefcObjectsMap' = DOMAIN gAllKnownRefcObjectsMap \cup ({NULL} \ {NULL})
      /\ counters' = counters \cup ({NULL} \ {NULL})
      /\ m_val' \in [Counters -> Nat]
  BY <1>0, <1>1 DEF Types
<1> QED BY <1>1, <1>2, <1>3, <1>f, TakesStep

LEMMA TakeKnownStep ==
  ASSUME RefcInv, NEW t \in Threads, TakeKnown(t)
  PROVE  RefcInv'
<1>f. PICK f, a, c : f = Top(t) /\ a = f.source.object /\ c = gAllKnownRefcObjectsMap[a]
  OBVIOUS
<1>0. Types /\ Doomed /\ Known /\ Counted
  BY DEF RefcInv
<1>1. /\ At(t, "take") /\ f.source.kind = "raw" /\ Takes(t, a, c)
      /\ a \in DOMAIN gAllKnownRefcObjectsMap
      /\ m_val' = [m_val EXCEPT ![c] = @ + 1]
      /\ UNCHANGED <<gAllKnownRefcObjectsMap, counters>>
  BY <1>f DEF TakeKnown, Increment
<1>2. /\ a \in Addrs /\ f.source = Raw(a) /\ f.source # Nothing
      /\ Keeps(t, a) \/ Fresh(a)
      /\ \A b : f.source = Raw(b) => b = a
  BY <1>1, <1>f, TopOfTake
<1>3. Keeps(t, a)
  BY <1>1, <1>2 DEF Fresh
<1>4. a \in objects /\ \A x \in Frames : Dooms(x) => m_object[x.handle] # a
  BY <1>0, <1>2, <1>3, KeptIsKnown
<1>5. c \in Counters /\ c \in counters /\ m_val[c] = Cardinality(Standers(a))
  BY <1>0, <1>1, <1>f DEF Types, Known, Images, Counted
<1>6. NULL \notin Addrs /\ NULL \notin Counters
  BY RefcAssumption
<1>7. /\ m_val' \in [Counters -> Nat]
      /\ \A d \in Counters : d # c => m_val'[d] = m_val[d]
      /\ m_val'[c] = Cardinality(Standers(a)) + 1
  <2>1. m_val \in [Counters -> Nat]
    BY <1>0 DEF Types
  <2> QED BY <1>1, <1>5, <2>1
<1>8. /\ gAllKnownRefcObjectsMap' \in [DOMAIN gAllKnownRefcObjectsMap' -> Counters]
      /\ DOMAIN gAllKnownRefcObjectsMap' = DOMAIN gAllKnownRefcObjectsMap \cup ({a} \ {NULL})
      /\ counters' = counters \cup ({c} \ {NULL})
      /\ \A x \in DOMAIN gAllKnownRefcObjectsMap :
            gAllKnownRefcObjectsMap'[x] = gAllKnownRefcObjectsMap[x]
      /\ gAllKnownRefcObjectsMap'[a] = c
  BY <1>0, <1>1, <1>5, <1>f DEF Types
<1>9. a # NULL /\ c # NULL /\ f = Top(t)
  BY <1>2, <1>5, <1>6, <1>f
<1>10. At(t, "take") /\ Takes(t, a, c) /\ a \in DOMAIN gAllKnownRefcObjectsMap
  BY <1>1
<1> QED BY <1>2, <1>4, <1>5, <1>7, <1>8, <1>9, <1>10, TakesStep

LEMMA TakeUnknownStep ==
  ASSUME RefcInv, NEW t \in Threads, NEW c \in Counters, TakeUnknown(t, c)
  PROVE  RefcInv'
<1>f. PICK f, a : f = Top(t) /\ a = f.source.object
  OBVIOUS
<1>0. Types /\ Doomed /\ Known
  BY DEF RefcInv
<1>1. /\ At(t, "take") /\ f.source.kind = "raw" /\ Takes(t, a, c)
      /\ a \notin DOMAIN gAllKnownRefcObjectsMap /\ c \notin counters
      /\ gAllKnownRefcObjectsMap' = [x \in DOMAIN gAllKnownRefcObjectsMap \cup {a} |->
                    IF x = a THEN c ELSE gAllKnownRefcObjectsMap[x]]
      /\ m_val' = [m_val EXCEPT ![c] = 1]
      /\ counters' = counters \cup {c}
  BY <1>f DEF TakeUnknown
<1>2. /\ a \in Addrs /\ f.source = Raw(a) /\ f.source # Nothing
      /\ Keeps(t, a) \/ Fresh(a)
      /\ \A b : f.source = Raw(b) => b = a
  BY <1>1, <1>f, TopOfTake
<1>3. Fresh(a)
  BY <1>0, <1>1, <1>2, KeptIsKnown
<1>4. a \in objects /\ \A x \in Frames : Dooms(x) => m_object[x.handle] # a
  BY <1>3 DEF Fresh
<1>5. Cardinality(Standers(a)) = 0
  <2>1. Standers(a) = {}
    BY <1>3 DEF Fresh, Unheld, Standers
  <2> QED BY <2>1, FS_EmptySet
<1>6. a # NULL /\ c # NULL
  BY <1>2, RefcAssumption
<1>7. /\ m_val' \in [Counters -> Nat]
      /\ \A d \in Counters : d # c => m_val'[d] = m_val[d]
      /\ m_val'[c] = Cardinality(Standers(a)) + 1
  <2>1. m_val \in [Counters -> Nat]
    BY <1>0 DEF Types
  <2> QED BY <1>1, <1>5, <2>1
<1>8. /\ gAllKnownRefcObjectsMap' \in [DOMAIN gAllKnownRefcObjectsMap' -> Counters]
      /\ DOMAIN gAllKnownRefcObjectsMap' = DOMAIN gAllKnownRefcObjectsMap \cup ({a} \ {NULL})
      /\ counters' = counters \cup ({c} \ {NULL})
      /\ \A x \in DOMAIN gAllKnownRefcObjectsMap :
            gAllKnownRefcObjectsMap'[x] = gAllKnownRefcObjectsMap[x]
      /\ gAllKnownRefcObjectsMap'[a] = c
  <2>1. gAllKnownRefcObjectsMap \in [DOMAIN gAllKnownRefcObjectsMap -> Counters]
    BY <1>0 DEF Types
  <2> QED BY <1>1, <1>6, <2>1
<1> QED BY <1>1, <1>2, <1>4, <1>6, <1>7, <1>8, <1>f, TakesStep

LEMMA TakeCopyStep ==
  ASSUME RefcInv, NEW t \in Threads, TakeCopy(t)
  PROVE  RefcInv'
<1>f. PICK f, g, a, c : /\ f = Top(t) /\ g = f.source.handle
                        /\ a = m_object[g] /\ c = m_ref_count[g]
  OBVIOUS
<1>0. Types /\ Doomed /\ Known /\ Counted
  BY DEF RefcInv
<1>1. /\ At(t, "take") /\ f.source.kind = "copy" /\ Takes(t, a, c)
      /\ m_val' = IF c = NULL THEN m_val ELSE [m_val EXCEPT ![c] = @ + 1]
      /\ UNCHANGED <<gAllKnownRefcObjectsMap, counters>>
  BY <1>f DEF TakeCopy, Increment
<1>2. /\ g \in Handles /\ g \notin Targets
      /\ \A b : f.source # Raw(b)
      /\ f.source # Nothing
  BY <1>1, <1>f, TopOfTake
<1>3. /\ a \in Addrs \cup {NULL} /\ c \in Counters \cup {NULL} /\ (a = NULL <=> c = NULL)
      /\ NULL \notin Addrs /\ NULL \notin Counters
  BY <1>0, <1>2, <1>f, RefcAssumption DEF Types, Known
<1>4. a # NULL =>
         /\ a \in objects /\ a \in DOMAIN gAllKnownRefcObjectsMap
         /\ gAllKnownRefcObjectsMap[a] = c
         /\ \A x \in Frames : Dooms(x) => m_object[x.handle] # a
         /\ ~Fresh(a)
  BY <1>0, <1>2, <1>f, StandingIsKnown
<1>5. a # NULL => c \in counters /\ m_val[c] = Cardinality(Standers(a))
  BY <1>0, <1>4 DEF Known, Images, Counted
<1>6. /\ m_val' \in [Counters -> Nat]
      /\ \A d \in Counters : d # c => m_val'[d] = m_val[d]
      /\ a # NULL => m_val'[c] = Cardinality(Standers(a)) + 1
  <2>1. m_val \in [Counters -> Nat]
    BY <1>0 DEF Types
  <2> QED BY <1>1, <1>3, <1>5, <2>1
<1>7. /\ gAllKnownRefcObjectsMap' \in [DOMAIN gAllKnownRefcObjectsMap' -> Counters]
      /\ DOMAIN gAllKnownRefcObjectsMap' = DOMAIN gAllKnownRefcObjectsMap \cup ({a} \ {NULL})
      /\ counters' = counters \cup ({c} \ {NULL})
      /\ \A x \in DOMAIN gAllKnownRefcObjectsMap :
            gAllKnownRefcObjectsMap'[x] = gAllKnownRefcObjectsMap[x]
      /\ a # NULL => gAllKnownRefcObjectsMap'[a] = c
  <2>1. UNCHANGED <<gAllKnownRefcObjectsMap, counters>>
    BY <1>1
  <2>2. gAllKnownRefcObjectsMap \in [DOMAIN gAllKnownRefcObjectsMap -> Counters]
    BY <1>0 DEF Types
  <2>3. {a} \ {NULL} \subseteq DOMAIN gAllKnownRefcObjectsMap /\ {c} \ {NULL} \subseteq counters
    BY <1>3, <1>4, <1>5
  <2>4. a # NULL => gAllKnownRefcObjectsMap[a] = c
    BY <1>4
  <2> QED BY <2>1, <2>2, <2>3, <2>4
<1> QED BY <1>1, <1>2, <1>3, <1>4, <1>6, <1>7, <1>f, TakesStep
-----------------------------------------------------------------------------
(* The invariant holds at the start and every step keeps it.               *)
LEMMA RefcInit == Init => RefcInv
<1> SUFFICES ASSUME Init PROVE RefcInv
  OBVIOUS
<1>1. \A t \in Threads : stack[t] = <<>> /\ FramesOf(t) = {} /\ DOMAIN stack[t] = {}
  BY DEF Init, FramesOf
<1>2. Frames = {}
  BY <1>1 DEF Frames, FramesOf
<1>3. DOMAIN gAllKnownRefcObjectsMap = {} /\ Images(gAllKnownRefcObjectsMap) = {}
  BY DEF Init, Images
<1>4. \A h \in Handles, a \in Addrs : ~Stands(h, a)
  BY RefcAssumption DEF Init, Stands
<1>5. Types
  <2>1. stack \in [Threads -> Seq(FrameSet)]
    BY DEF Init
  <2>2. gAllKnownRefcObjectsMap \in [DOMAIN gAllKnownRefcObjectsMap -> Counters]
    BY <1>3 DEF Init
  <2> QED BY <1>3, <2>1, <2>2 DEF Init, Types
<1>6. Stacked
  BY <1>1 DEF Stacked, At
<1>7. Owned
  BY <1>1 DEF Owned
<1>8. Doomed
  BY <1>2 DEF Doomed
<1>9. Known
  BY <1>3, <1>4, HandleNames DEF Known, Init
<1>10. Counted
  BY <1>3 DEF Counted, Init
<1>11. Accounted
  BY DEF Accounted, Init
<1> QED BY <1>5, <1>6, <1>7, <1>8, <1>9, <1>10, <1>11 DEF RefcInv

LEMMA RefcStutter == RefcInv /\ UNCHANGED vars => RefcInv'
<1> SUFFICES ASSUME RefcInv, UNCHANGED vars PROVE RefcInv'
  OBVIOUS
<1>1. UNCHANGED <<m_object, m_ref_count, gAllKnownRefcObjectsMap, m_val, objects, counters, stack>>
  BY DEF vars, memory
<1>2. /\ Frames' = Frames /\ Targets' = Targets /\ Released' = Released
      /\ \A t : FramesOf(t)' = FramesOf(t) /\ Locals(t)' = Locals(t) /\ Top(t)' = Top(t)
      /\ \A t, p : At(t, p)' <=> At(t, p)
  BY <1>1 DEF Frames, Targets, Released, FramesOf, Locals, Top, At
<1>3. /\ \A h, a : Stands(h, a)' <=> Stands(h, a)
      /\ \A a : Unheld(a)' <=> Unheld(a)
      /\ \A a : Standers(a)' = Standers(a)
  BY <1>1, <1>2, SameStanders
<1>4. /\ \A t, a : Keeps(t, a)' <=> Keeps(t, a)
      /\ \A t : Named(t)' = Named(t)
      /\ \A a : Fresh(a)' <=> Fresh(a)
  <2>1. \A t, a : Keeps(t, a)' <=> Keeps(t, a)
    BY <1>1, <1>2 DEF Keeps
  <2>2. \A t : Named(t)' = Named(t)
    BY <2>1 DEF Named, Locals
  <2>3. \A a : Fresh(a)' <=> Fresh(a)
    BY <1>1, <1>2, <1>3 DEF Fresh, Dooms
  <2> QED BY <2>1, <2>2, <2>3
<1>5. Types'
  BY <1>1 DEF RefcInv, Types
<1>6. Stacked'
  BY <1>1, <1>2 DEF RefcInv, Stacked
<1>7. Owned'
  BY <1>1, <1>2, <1>4 DEF RefcInv, Owned
<1>8. Doomed'
  BY <1>1, <1>2, <1>3 DEF RefcInv, Doomed, Dooms, Images, Unheld
<1>9. Known'
  BY <1>1, <1>3 DEF RefcInv, Known, Images
<1>10. Counted'
  BY <1>1, <1>3 DEF RefcInv, Counted, Images
<1>11. Accounted'
  BY <1>1, <1>2 DEF RefcInv, Accounted, Images, Dooms
<1> QED BY <1>5, <1>6, <1>7, <1>8, <1>9, <1>10, <1>11 DEF RefcInv

LEMMA RefcNext == RefcInv /\ ~OwnMemberToo /\ [Next]_vars => RefcInv'
<1> SUFFICES ASSUME RefcInv, ~OwnMemberToo, [Next]_vars PROVE RefcInv'
  OBVIOUS
<1>1. CASE Next
  <2> SUFFICES ASSUME NEW t \in Threads, Operation(t) \/ Release(t) \/ Take(t)
               PROVE  RefcInv'
    BY <1>1 DEF Next
  <2>1. CASE Operation(t)
    BY <2>1, OperationStep
  <2>2. CASE Release(t)
    BY <2>2, DropStep, EraseStep, DeleteMembersStep, DeleteObjectStep, DeleteCounterStep
       DEF Release
  <2>3. CASE Take(t)
    BY <2>3, TakeNullStep, TakeKnownStep, TakeCopyStep, TakeUnknownStep DEF Take
  <2> QED BY <2>1, <2>2, <2>3
<1>2. CASE UNCHANGED vars
  BY <1>2, RefcStutter
<1> QED BY <1>1, <1>2

(* What every operation of refc.h relies on, and leaves true step by step, *)
(* in any interleaving: RefcInv.                                           *)
THEOREM RefcInvariant == ASSUME ~OwnMemberToo PROVE Spec => []RefcInv
BY RefcInit, RefcNext, PTL DEF Spec
-----------------------------------------------------------------------------
(* Everything keeps its type; no counter exceeds the number of handles     *)
(* (refc.h's m_ref_count).                                                 *)
THEOREM TypeCorrect == ASSUME ~OwnMemberToo PROVE Spec => []TypeOK
<1>1. ASSUME RefcInv PROVE TypeOK
  <2>0. Types /\ Counted
    BY <1>1 DEF RefcInv
  <2>1. Cardinality(Handles) \in Nat
    BY HandlesAreFinite, FS_CardinalityType
  <2>2. ASSUME NEW c \in Counters
        PROVE  m_val[c] \in 0..Cardinality(Handles)
    <3>1. CASE c \notin Images(gAllKnownRefcObjectsMap)
      BY <2>0, <2>1, <3>1 DEF Counted
    <3>2. ASSUME NEW a \in DOMAIN gAllKnownRefcObjectsMap, c = gAllKnownRefcObjectsMap[a]
          PROVE  m_val[c] \in 0..Cardinality(Handles)
      <4>1. m_val[c] = Cardinality(Standers(a))
        BY <2>0, <3>2 DEF Counted
      <4>2. Standers(a) \in SUBSET Handles
        BY DEF Standers
      <4>3. Cardinality(Standers(a)) <= Cardinality(Handles)
        BY <4>2, HandlesAreFinite, FS_Subset
      <4> QED BY <2>1, <4>1, <4>3, CountIsNat
    <3> QED BY <3>1, <3>2 DEF Images
  <2>3. m_val \in [Counters -> 0..Cardinality(Handles)]
    BY <2>0, <2>2 DEF Types
  <2>4. ASSUME NEW t \in Threads, NEW n \in DOMAIN stack[t]
        PROVE  stack[t][n] \in [handle : Handles, source : Sources, at : Places]
    <3>1. stack[t][n] \in FrameSet
      BY <2>0, FramesAreTyped DEF FramesOf
    <3> QED BY <3>1 DEF FrameSet
  <2> QED BY <2>0, <2>3, <2>4 DEF Types, TypeOK
<1> QED BY <1>1, RefcInvariant, PTL

(* No handle dangles: its object and its counter are there, and the map of *)
(* refc.cpp leads to that counter.                                         *)
THEOREM NoHandleDangles == ASSUME ~OwnMemberToo PROVE Spec => []HandlesAreLive
<1>1. ASSUME RefcInv PROVE HandlesAreLive
  <2>1. Known
    BY <1>1 DEF RefcInv
  <2>2. Existing \subseteq Handles
    BY <1>1 DEF Existing, Handles, RefcInv, Types
  <2>3. ASSUME NEW h \in Existing, NEW a \in Addrs, Stands(h, a)
        PROVE  /\ a \in objects /\ m_ref_count[h] \in counters
               /\ a \in DOMAIN gAllKnownRefcObjectsMap
               /\ gAllKnownRefcObjectsMap[a] = m_ref_count[h]
    <3>1. a \in DOMAIN gAllKnownRefcObjectsMap /\ gAllKnownRefcObjectsMap[a] = m_ref_count[h]
      BY <2>1, <2>2, <2>3 DEF Known
    <3> QED BY <2>1, <3>1 DEF Known, Images
  <2> QED BY <2>3 DEF HandlesAreLive
<1> QED BY <1>1, RefcInvariant, PTL

(* A counter is the number of the handles that stand for its object, in    *)
(* the middle of any operations of any threads.                            *)
THEOREM CountsAreExact == ASSUME ~OwnMemberToo PROVE Spec => []CountsAreRight
<1>1. ASSUME RefcInv PROVE CountsAreRight
  <2>0. Types /\ Known /\ Counted
    BY <1>1 DEF RefcInv
  <2>1. ASSUME NEW a \in DOMAIN gAllKnownRefcObjectsMap
        PROVE  {h \in Existing : Stands(h, a)} = Standers(a)
    <3>1. a \in Addrs /\ a # NULL
      BY <2>0, RefcAssumption DEF Types
    <3>2. Existing \subseteq Handles
      BY <2>0 DEF Existing, Handles, Types
    <3>3. ASSUME NEW h \in Handles, Stands(h, a)
          PROVE  h \in Existing
      <4>1. \A b \in Addrs : h = Member(b) => b \in objects
        BY <2>0, <3>1, <3>3 DEF Known, Stands
      <4> QED BY <4>1 DEF Existing, Handles
    <3> QED BY <3>2, <3>3 DEF Standers
  <2> QED BY <2>0, <2>1 DEF Counted, CountsAreRight
<1> QED BY <1>1, RefcInvariant, PTL

(* The map knows no address that the heap could hand out again.            *)
THEOREM MapStaysFresh == ASSUME ~OwnMemberToo PROVE Spec => []MapIsFresh
<1>1. RefcInv => MapIsFresh
  BY DEF RefcInv, Known, MapIsFresh
<1> QED BY <1>1, RefcInvariant, PTL

(* Every object and every counter that has been allocated is in the map,   *)
(* or in the hands of the one operation that is deleting it or is about to *)
(* give it to its handle.                                                  *)
THEOREM NothingIsLost == ASSUME ~OwnMemberToo PROVE Spec => []NothingLeaks
<1>1. ASSUME RefcInv PROVE NothingLeaks
  <2>0. Types /\ Owned /\ Doomed /\ Known /\ Accounted
    BY <1>1 DEF RefcInv
  <2> DEFINE D == {m_object[f.handle] : f \in Deleting({"delete", "free"})}
             R == {f.source.object : f \in {g \in Frames : g.source.kind = "raw"}}
             C == {m_ref_count[f.handle] : f \in Deleting({"delete", "free", "count"})}
  <2>1. ASSUME NEW a \in objects
        PROVE  a \in DOMAIN gAllKnownRefcObjectsMap \cup D \cup R
    <3>1. ASSUME NEW f \in Frames, Dooms(f), m_object[f.handle] = a
          PROVE  a \in DOMAIN gAllKnownRefcObjectsMap \cup D
      <4>1. CASE f.at = "erase"
        BY <2>0, <3>1, <4>1 DEF Doomed
      <4>2. CASE f.at # "erase"
        <5>1. f \in Deleting({"delete", "free"})
          BY <3>1, <4>2 DEF Deleting, Dooms
        <5> QED BY <3>1, <5>1
      <4> QED BY <4>1, <4>2
    <3>2. ASSUME NEW f \in Frames, f.source = Raw(a)
          PROVE  a \in R
      BY <3>2, SourceFacts
    <3> HIDE DEF D, R
    <3> QED BY <2>0, <3>1, <3>2 DEF Accounted
  <2>2. D \subseteq objects
    BY <2>0 DEF Doomed, Dooms, Deleting
  <2>3. ASSUME NEW f \in Frames, f.source.kind = "raw"
        PROVE  f.source.object \in objects
    <3>1. PICK t \in Threads : f \in FramesOf(t)
      BY <2>0, FramesAreTyped
    <3>2. f.source.object \in Addrs
      BY <2>0, <2>3, FramesAreTyped, FrameFacts, SourceFacts
    <3> QED BY <2>0, <2>3, <3>1, <3>2, KeptIsKnown DEF Owned, Fresh
  <2>4. R \subseteq objects
    BY <2>3
  <2>5. \A c \in counters : c \in Images(gAllKnownRefcObjectsMap) \cup C
    BY <2>0 DEF Accounted, Deleting
  <2>6. C \subseteq counters
    BY <2>0 DEF Doomed, Deleting
  <2>7. objects = DOMAIN gAllKnownRefcObjectsMap \cup D \cup R
    <3> HIDE DEF D, R
    <3> QED BY <2>0, <2>1, <2>2, <2>4 DEF Known
  <2>8. counters = Images(gAllKnownRefcObjectsMap) \cup C
    <3> HIDE DEF C
    <3> QED BY <2>0, <2>5, <2>6 DEF Known
  <2> QED BY <2>0, <2>7, <2>8 DEF NothingLeaks, Known
<1> QED BY <1>1, RefcInvariant, PTL

(* The handle that an assignment reads is there until it has been read.    *)
THEOREM OtherStaysThere == ASSUME ~OwnMemberToo PROVE Spec => []OtherIsThere
<1>1. ASSUME RefcInv PROVE OtherIsThere
  <2>0. Types /\ Owned /\ Doomed /\ Known
    BY <1>1 DEF RefcInv
  <2>1. ASSUME NEW a \in Addrs, NEW f \in Frames, f.source.kind = "copy",
               f.source.handle = Member(a)
        PROVE  a \in objects
    <3>1. PICK t \in Threads : f \in FramesOf(t)
      BY <2>0, FramesAreTyped
    <3>2. Member(a) \in Named(t)
      BY <2>0, <2>1, <3>1 DEF Owned
    <3>3. Keeps(t, a)
      BY <3>2, HandleNames DEF Named
    <3> QED BY <2>0, <3>3, KeptIsKnown
  <2> QED BY <2>1 DEF OtherIsThere, Read
<1> QED BY <1>1, RefcInvariant, PTL
=============================================================================
