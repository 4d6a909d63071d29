------------------------- MODULE BufferedStreams_proofs -------------------------
(***************************************************************************)
(* For buffers, queues and calls of any size: no chunk is freed twice or   *)
(* lost track of, and the two streams are a Pipe.                          *)
(*                                                                         *)
(* The invariant says what each side's call has done so far, which holder  *)
(* has which chunk, where the bytes under way are, and what the end of the *)
(* stream leaves behind it.                                                *)
(***************************************************************************)
EXTENDS BufferedStreams, SequenceTheorems, TLAPS

Offered == offer[Writer]
Asked == request[Reader]
WOp == wcall.op
ROp == rcall.op

Chunks == {c \in [buf : Nat, first : Nat, len : Nat] : c.buf = NULL => c.len = 0}
IsCall(c) == c = [op |-> c.op, len |-> c.len, done |-> c.done] /\ c.len \in Nat /\ c.done \in Nat

Types ==
    /\ behavior \in Behaviors /\ buffer \in Seq(Chunks)
    /\ offer = [w \in {Writer} |-> offer[w]] /\ Offered \in Chunks \cup {NoChunk}
    /\ request = [r \in {Reader} |-> request[r]] /\ Asked \in {"none", "pop"}
    /\ m_curr \in Chunks /\ m_off \in 0..m_curr.len /\ m_eof \in BOOLEAN
    /\ IsCall(wcall) /\ IsCall(rcall)
    /\ closing \in BOOLEAN /\ ended \in BOOLEAN

Numbers ==
    /\ allocs \in 0..MaxChunks /\ heap \subseteq 1..allocs /\ refused \subseteq 0..allocs
    /\ sent \in 0..MaxBytes /\ w_bufUsed \in 0..WBufSize /\ w_bufUsed <= sent
    /\ r_first \in Nat /\ r_bufUsed \in 0..RBufSize /\ r_pos \in 0..r_bufUsed
    /\ received \in Seq(Nat) /\ Len(received) <= sent - w_bufUsed
    /\ rcall.done <= Len(received) /\ (ROp \in {"read", "readAll"} => rcall.done < rcall.len)
    /\ ret \in -1..MaxBytes /\ shorts \in {0, 1}

(* What the writer is pushing where it is, and that there is memory for    *)
(* what it has begun.                                                      *)
WriterAt ==
    /\ WOp \in {"none", "write", "flush", "close", "destroy", "close pcq", "gone"}
    /\ \/ Offered = NoChunk
       \/ /\ WOp \in {"write", "flush", "destroy"} /\ w_bufUsed > 0 /\ allocs > 0
          /\ Offered = Chunk(allocs, sent - w_bufUsed + 1, w_bufUsed)
       \/ WOp \in {"close", "close pcq"} /\ Offered = EOF
    /\ WOp = "write" => wcall.len > 0 /\ sent + wcall.len <= MaxBytes
    /\ closing => WOp \in {"none", "close", "close pcq", "gone"}
    /\ WOp = "close" => closing
    /\ closing \/ WOp \in {"close", "close pcq", "gone"} => w_bufUsed = 0
    /\ WOp = "destroy" /\ ~Pushing => w_bufUsed = 0
    /\ WOp = "write" \/ (WOp \in {"none", "flush"} /\ w_bufUsed > 0) => allocs < MaxChunks
    /\ WOp = "write" /\ ~Pushing /\ w_bufUsed >= WBufSize => allocs < MaxChunks - 1

(* The reader has used up what it has when it pops, and has nothing when   *)
(* its end is gone.                                                        *)
ReaderAt ==
    /\ ROp \in {"none", "read", "readAll", "drain", "gone"}
    /\ Asked = "pop" => ROp \in {"read", "readAll", "drain"}
    /\ Asked = "pop" /\ ROp # "drain" => m_off = m_curr.len /\ r_bufUsed = 0 /\ ~m_eof
    /\ ROp \in {"drain", "gone"} => m_curr = EOF /\ m_off = 0 /\ r_bufUsed = 0

(* A chunk has one holder: one place in the queue, the push, m_curr, or    *)
(* nobody ever after. m_curr is no holder while its reader pops.           *)
InQueue(b) == \E n \in DOMAIN buffer : buffer[n].buf = b
InPush(b) == Offered # NoChunk /\ Offered.buf = b
InHand(b) == Asked = "none" /\ m_curr.buf = b
Held ==
    /\ \A b \in Nat \ {NULL} : b \in heap <=> InQueue(b) \/ InPush(b) \/ InHand(b) \/ b \in refused
    /\ \A i, j \in DOMAIN buffer : buffer[i].buf = buffer[j].buf /\ buffer[i].buf # NULL => i = j
    /\ \A b \in Nat \ {NULL} :
          /\ InQueue(b) => ~InPush(b) /\ ~InHand(b) /\ b \notin refused
          /\ InPush(b) => ~InHand(b) /\ b \notin refused
          /\ InHand(b) => b \notin refused

(* The bytes under way are in order: what the reader's buffer holds, the   *)
(* rest of its chunk, the chunks in the queue, the writer's buffer; and    *)
(* all of them come after what was received.                               *)
Below(S, T) == \A x \in S, y \in T : x < y
Part(n) == Bytes(buffer[n].first, buffer[n].len)
Ordered ==
    /\ InReader \cup InCurr \cup Queued \subseteq (Len(received) + 1)..(sent - w_bufUsed)
    /\ Below(InReader, InCurr)
    /\ \A n \in DOMAIN buffer : Below(InReader, Part(n)) /\ Below(InCurr, Part(n))
    /\ \A i, j \in DOMAIN buffer : i < j => Below(Part(i), Part(j))

(* Nothing comes after the end of the stream, which is told once.          *)
HasEnd(q) == \E n \in DOMAIN q : q[n].len = 0
AllEnd(q) == \A n \in DOMAIN q : q[n].len = 0
AtEnd == closing \/ WOp \in {"close pcq", "gone"}
EndsOnly(q) == \A n, m \in DOMAIN q : q[n].len = 0 /\ n < m => q[m].len = 0
EndIsLast ==
    /\ ended => AtEnd
    /\ EndsOnly(buffer) /\ (HasEnd(buffer) => ended)
    /\ m_eof => ended /\ m_curr.len = 0 /\ r_bufUsed = 0 /\ rcall.done = 0 /\ AllEnd(buffer)
    /\ m_eof <=> shorts = 1
    /\ ret = -1 => m_eof

StreamInv == Types /\ Numbers /\ WriterAt /\ ReaderAt /\ Held /\ Ordered /\ EndIsLast
-----------------------------------------------------------------------------
(* The two ends of the queue, and calls.                                   *)
LEMMA OfferIs ==
  ASSUME Types, NEW x, PCQ!Offer(Writer, x)
  PROVE  /\ Offered = NoChunk /\ Offered' = x /\ offer' = [w \in {Writer} |-> offer'[w]]
         /\ UNCHANGED <<behavior, buffer, request, Asked, got>>
BY DEF PCQ!Offer, Types, Offered, Asked

LEMMA AcceptIs ==
  ASSUME Types, PCQ!Accept(Writer)
  PROVE  /\ Offered # NoChunk /\ Offered' = NoChunk /\ offer' = [w \in {Writer} |-> offer'[w]]
         /\ buffer' = Append(buffer, Offered)
         /\ UNCHANGED <<behavior, request, Asked, got>>
BY DEF PCQ!Accept, Types, Offered, Asked

LEMMA RefuseIs ==
  ASSUME Types, PCQ!Refuse(Writer)
  PROVE  /\ Offered # NoChunk /\ Offered' = NoChunk /\ offer' = [w \in {Writer} |-> offer'[w]]
         /\ UNCHANGED <<behavior, buffer, request, Asked, got>>
BY DEF PCQ!Refuse, Types, Offered, Asked

LEMMA RequestIs ==
  ASSUME Types, PCQ!Request(Reader, "pop")
  PROVE  /\ Asked = "none" /\ Asked' = "pop" /\ request' = [r \in {Reader} |-> request'[r]]
         /\ UNCHANGED <<behavior, buffer, offer, Offered, got>>
BY DEF PCQ!Request, Types, Offered, Asked

LEMMA DeliverIs ==
  ASSUME Types, PCQ!Deliver(Reader)
  PROVE  /\ Asked = "pop" /\ Asked' = "none" /\ request' = [r \in {Reader} |-> request'[r]]
         /\ buffer # <<>> /\ buffer' = Tail(buffer)
         /\ UNCHANGED <<behavior, offer, Offered>>
BY DEF PCQ!Deliver, Types, Offered, Asked

LEMMA EndsStay ==
  ASSUME UNCHANGED <<offer, request>>
  PROVE  UNCHANGED <<Offered, Asked>>
BY DEF Offered, Asked

LEMMA NewCall ==
  ASSUME NEW op, NEW len \in Nat
  PROVE  /\ IsCall(Call(op, len)) /\ Call(op, len).op = op
         /\ Call(op, len).len = len /\ Call(op, len).done = 0
BY DEF Call, IsCall

LEMMA NoCall ==
  /\ IsCall(None) /\ None.op = "none" /\ None.len = 0 /\ None.done = 0
  /\ IsCall(Gone) /\ Gone.op = "gone" /\ Gone.len = 0 /\ Gone.done = 0
BY NewCall DEF None, Gone

LEMMA ChunkIs ==
  /\ EOF \in Chunks /\ EOF.buf = NULL /\ EOF.len = 0 /\ EOF # NoChunk
  /\ \A b, f, n \in Nat : /\ Chunk(b, f, n) # NoChunk
                          /\ b # NULL \/ n = 0 => Chunk(b, f, n) \in Chunks
                          /\ Chunk(b, f, n).buf = b /\ Chunk(b, f, n).first = f
                          /\ Chunk(b, f, n).len = n
<1>1. \A c \in [buf : Nat, first : Nat, len : Nat] : c # NoChunk
  BY StreamAssumption DEF StreamAssumption
<1>2. \A b, f, n \in Nat : Chunk(b, f, n) \in [buf : Nat, first : Nat, len : Nat]
  BY DEF Chunk
<1>3. \A b, f, n : /\ Chunk(b, f, n).buf = b /\ Chunk(b, f, n).first = f
                   /\ Chunk(b, f, n).len = n
  BY DEF Chunk
<1>4. \A b, f, n \in Nat : b # NULL \/ n = 0 => Chunk(b, f, n) \in Chunks
  BY <1>2, <1>3 DEF Chunks
<1>5. NULL \in Nat /\ 0 \in Nat BY DEF NULL
<1>6. /\ EOF.buf = NULL /\ EOF.len = 0 /\ EOF \in [buf : Nat, first : Nat, len : Nat]
  BY <1>2, <1>3, <1>5 DEF EOF
<1>7. EOF \in Chunks BY <1>6 DEF Chunks
<1>8. EOF # NoChunk /\ \A b, f, n \in Nat : Chunk(b, f, n) # NoChunk
  BY <1>1, <1>2, <1>6
<1> QED BY <1>3, <1>4, <1>6, <1>7, <1>8

LEMMA LeastIs ==
  ASSUME NEW m \in Nat, NEW n \in Nat
  PROVE  /\ Least(m, n) \in Nat /\ Least(m, n) <= m /\ Least(m, n) <= n
         /\ Least(m, n) = m \/ Least(m, n) = n
BY DEF Least
-----------------------------------------------------------------------------
(* The queue when a chunk is added to it, and when its head is taken.      *)
LEMMA Added ==
  ASSUME NEW q \in Seq(Chunks), NEW c \in Chunks
  PROVE  /\ Append(q, c) \in Seq(Chunks) /\ Len(q) \in Nat
         /\ DOMAIN q = 1..Len(q) /\ DOMAIN Append(q, c) = 1..(Len(q) + 1)
         /\ \A n \in 1..Len(q) : Append(q, c)[n] = q[n]
         /\ Append(q, c)[Len(q) + 1] = c
OBVIOUS

LEMMA Taken ==
  ASSUME NEW q \in Seq(Chunks), q # <<>>
  PROVE  /\ Head(q) = q[1] /\ Head(q) \in Chunks /\ Tail(q) \in Seq(Chunks)
         /\ Len(q) \in Nat /\ Len(q) >= 1
         /\ DOMAIN q = 1..Len(q) /\ DOMAIN Tail(q) = 1..(Len(q) - 1)
         /\ \A n \in 1..(Len(q) - 1) : Tail(q)[n] = q[n + 1]
OBVIOUS

LEMMA QueuedIs ==
  ASSUME Types
  PROVE  /\ DOMAIN buffer = 1..Len(buffer) /\ Len(buffer) \in Nat
         /\ \A n \in DOMAIN buffer : buffer[n] \in Chunks
         /\ \A x : x \in Queued <=> \E n \in DOMAIN buffer : x \in Part(n)
BY DEF Types, Queued, Part
-----------------------------------------------------------------------------
(* Who holds what.                                                         *)
LEMMA HeldStays ==
  ASSUME Held, UNCHANGED <<buffer, Offered, Asked, m_curr, heap, refused>>
  PROVE  Held'
BY DEF Held, InQueue, InPush, InHand

LEMMA HeldPush ==
  ASSUME Types, Numbers, Held, Offered = NoChunk, Offered' \in Chunks, Offered' # NoChunk,
         Offered'.buf = allocs + 1, heap' = heap \cup {allocs + 1},
         UNCHANGED <<buffer, Asked, m_curr, refused>>
  PROVE  Held'
<1>1. allocs + 1 \in Nat \ {NULL} /\ allocs + 1 \notin heap /\ allocs + 1 \notin refused
  BY DEF Numbers, NULL
<1>2. ~InQueue(allocs + 1) /\ ~InHand(allocs + 1) BY <1>1 DEF Held
<1>3. \A b : /\ InQueue(b)' <=> InQueue(b)
             /\ InHand(b)' <=> InHand(b)
             /\ InPush(b)' <=> b = allocs + 1
             /\ ~InPush(b)
  BY DEF InQueue, InHand, InPush
<1> QED BY <1>1, <1>2, <1>3 DEF Held

LEMMA HeldPushEOF ==
  ASSUME Held, Offered = NoChunk, Offered' = EOF,
         UNCHANGED <<buffer, Asked, m_curr, heap, refused>>
  PROVE  Held'
<1>1. \A b \in Nat \ {NULL} : /\ InQueue(b)' <=> InQueue(b)
                              /\ InHand(b)' <=> InHand(b)
                              /\ ~InPush(b)' /\ ~InPush(b)
  BY ChunkIs DEF InQueue, InHand, InPush
<1> QED BY <1>1 DEF Held

LEMMA HeldAccept ==
  ASSUME Types, Held, Offered # NoChunk, Offered' = NoChunk,
         buffer' = Append(buffer, Offered), UNCHANGED <<Asked, m_curr, heap, refused>>
  PROVE  Held'
<1>1. Offered \in Chunks /\ buffer \in Seq(Chunks) BY DEF Types
<1>2. /\ Len(buffer) \in Nat
      /\ DOMAIN buffer = 1..Len(buffer) /\ DOMAIN buffer' = 1..(Len(buffer) + 1)
      /\ \A n \in 1..Len(buffer) : buffer'[n] = buffer[n]
      /\ buffer'[Len(buffer) + 1] = Offered
  BY <1>1, Added
<1>3. \A b : InQueue(b)' <=> InQueue(b) \/ InPush(b)
  <2> TAKE b
  <2>1. InQueue(b)' <=> \E n \in 1..(Len(buffer) + 1) : buffer'[n].buf = b
    BY <1>2 DEF InQueue
  <2>2. InQueue(b) <=> \E n \in 1..Len(buffer) : buffer[n].buf = b
    BY <1>2 DEF InQueue
  <2>3. InPush(b) <=> Offered.buf = b BY DEF InPush
  <2>4. \A n : n \in 1..(Len(buffer) + 1) <=> n \in 1..Len(buffer) \/ n = Len(buffer) + 1
    BY <1>2
  <2> QED BY <1>2, <2>1, <2>2, <2>3, <2>4
<1>4. \A b : ~InPush(b)' /\ (InHand(b)' <=> InHand(b))
  BY DEF InPush, InHand
<1>5. \A i, j \in DOMAIN buffer' : buffer'[i].buf = buffer'[j].buf /\ buffer'[i].buf # NULL => i = j
  <2> SUFFICES ASSUME NEW i \in 1..(Len(buffer) + 1), NEW j \in 1..(Len(buffer) + 1),
                      buffer'[i].buf = buffer'[j].buf, buffer'[i].buf # NULL, i < j
               PROVE  FALSE
    BY <1>2
  <2>1. i \in 1..Len(buffer) BY <1>2
  <2>2. CASE j \in 1..Len(buffer) BY <1>2, <2>1, <2>2 DEF Held
  <2>3. CASE j = Len(buffer) + 1
    <3>1. InQueue(Offered.buf) /\ InPush(Offered.buf)
      BY <1>2, <2>1, <2>3 DEF InQueue, InPush
    <3>2. Offered.buf \in Nat \ {NULL} BY <1>1, <1>2, <2>3 DEF Chunks
    <3> QED BY <3>1, <3>2 DEF Held
  <2> QED BY <2>2, <2>3, <1>2
<1> QED BY <1>3, <1>4, <1>5 DEF Held

LEMMA HeldRefuse ==
  ASSUME Held, Offered # NoChunk, Offered' = NoChunk,
         refused' = refused \cup {Offered.buf}, UNCHANGED <<buffer, Asked, m_curr, heap>>
  PROVE  Held'
<1>1. \A b : /\ InQueue(b)' <=> InQueue(b)
             /\ InHand(b)' <=> InHand(b)
             /\ ~InPush(b)'
             /\ b \in refused' <=> b \in refused \/ InPush(b)
  BY DEF InQueue, InHand, InPush
<1> QED BY <1>1 DEF Held

(* m_curr is deleted, and then it is either NULL or a pop is in progress.  *)
LEMMA HeldDelete ==
  ASSUME Held, heap' = heap \ {m_curr.buf}, Asked = "none",
         Asked' = "pop" \/ m_curr' = EOF, UNCHANGED <<buffer, Offered, refused>>
  PROVE  Held'
<1>1. \A b \in Nat \ {NULL} : /\ InQueue(b)' <=> InQueue(b)
                              /\ InPush(b)' <=> InPush(b)
                              /\ ~InHand(b)'
                              /\ b \in heap' <=> b \in heap /\ ~InHand(b)
  BY ChunkIs DEF InQueue, InHand, InPush
<1> QED BY <1>1 DEF Held

LEMMA HeldTaken ==
  ASSUME Types, Held, buffer # <<>>, buffer' = Tail(buffer)
  PROVE  /\ \A b : InQueue(b) <=> InQueue(b)' \/ Head(buffer).buf = b
         /\ \A b : b = Head(buffer).buf /\ b # NULL => ~InQueue(b)'
         /\ \A i, j \in DOMAIN buffer' :
               buffer'[i].buf = buffer'[j].buf /\ buffer'[i].buf # NULL => i = j
<1>1. buffer \in Seq(Chunks) BY DEF Types
<1>2. /\ Head(buffer) = buffer[1] /\ Len(buffer) \in Nat /\ Len(buffer) >= 1
      /\ DOMAIN buffer = 1..Len(buffer) /\ DOMAIN buffer' = 1..(Len(buffer) - 1)
      /\ \A n \in 1..(Len(buffer) - 1) : buffer'[n] = buffer[n + 1]
  BY <1>1, Taken
<1>3. \A b : InQueue(b) <=> InQueue(b)' \/ Head(buffer).buf = b
  <2> TAKE b
  <2>1. InQueue(b)' <=> \E n \in 1..(Len(buffer) - 1) : buffer[n + 1].buf = b
    BY <1>2 DEF InQueue
  <2>2. InQueue(b) <=> \E n \in 1..Len(buffer) : buffer[n].buf = b
    BY <1>2 DEF InQueue
  <2>3. \A n \in 1..Len(buffer) : n = 1 \/ (n - 1 \in 1..(Len(buffer) - 1) /\ (n - 1) + 1 = n)
    BY <1>2
  <2>4. \A n \in 1..(Len(buffer) - 1) : n + 1 \in 1..Len(buffer) BY <1>2
  <2>5. 1 \in 1..Len(buffer) BY <1>2
  <2> QED BY <1>2, <2>1, <2>2, <2>3, <2>4, <2>5
<1>4. \A b : b = Head(buffer).buf /\ b # NULL => ~InQueue(b)'
  <2> SUFFICES ASSUME Head(buffer).buf # NULL, NEW n \in 1..(Len(buffer) - 1),
                      buffer[n + 1].buf = Head(buffer).buf
               PROVE  FALSE
    BY <1>2 DEF InQueue
  <2>1. 1 \in DOMAIN buffer /\ n + 1 \in DOMAIN buffer /\ n + 1 # 1 BY <1>2
  <2> QED BY <1>2, <2>1 DEF Held
<1>5. ASSUME NEW i \in DOMAIN buffer', NEW j \in DOMAIN buffer',
             buffer'[i].buf = buffer'[j].buf, buffer'[i].buf # NULL
      PROVE  i = j
  <2>1. i + 1 \in DOMAIN buffer /\ j + 1 \in DOMAIN buffer BY <1>2
  <2>2. buffer[i + 1].buf = buffer[j + 1].buf /\ buffer[i + 1].buf # NULL BY <1>2, <1>5
  <2>3. i + 1 = j + 1 BY <2>1, <2>2 DEF Held
  <2> QED BY <2>3, <1>2
<1> QED BY <1>3, <1>4, <1>5

LEMMA HeldGet ==
  ASSUME Types, Held, buffer # <<>>, buffer' = Tail(buffer), Asked = "pop", Asked' = "none",
         m_curr' = Head(buffer), UNCHANGED <<Offered, heap, refused>>
  PROVE  Held'
<1>1. \A b : /\ InPush(b)' <=> InPush(b)
             /\ ~InHand(b)
             /\ InHand(b)' <=> Head(buffer).buf = b
  BY DEF InHand, InPush
<1> QED BY <1>1, HeldTaken DEF Held

LEMMA HeldDrain ==
  ASSUME Types, Held, buffer # <<>>, buffer' = Tail(buffer),
         m_curr = EOF, UNCHANGED <<m_curr, Offered, refused>>, heap' = heap \ {Head(buffer).buf}
  PROVE  Held'
<1>1. \A b \in Nat \ {NULL} : /\ InPush(b)' <=> InPush(b)
                              /\ ~InHand(b) /\ ~InHand(b)'
  BY ChunkIs DEF InHand, InPush
<1> QED BY <1>1, HeldTaken DEF Held

LEMMA HeldAsk ==
  ASSUME Held, m_curr = EOF, UNCHANGED <<m_curr, buffer, Offered, heap, refused>>
  PROVE  Held'
<1>1. \A b \in Nat \ {NULL} : /\ InQueue(b)' <=> InQueue(b)
                              /\ InPush(b)' <=> InPush(b)
                              /\ ~InHand(b) /\ ~InHand(b)'
  BY ChunkIs DEF InQueue, InHand, InPush
<1> QED BY <1>1 DEF Held
-----------------------------------------------------------------------------
(* Where the bytes under way are.                                          *)
LEMMA NumbersAre ==
  ASSUME Numbers
  PROVE  /\ Len(received) \in Nat /\ sent \in Nat /\ w_bufUsed \in Nat
         /\ w_bufUsed <= sent /\ Len(received) <= sent - w_bufUsed
         /\ r_first \in Nat /\ r_bufUsed \in Nat /\ r_pos \in Nat /\ r_pos <= r_bufUsed
         /\ sent <= MaxBytes /\ w_bufUsed <= WBufSize /\ r_bufUsed <= RBufSize /\ allocs \in Nat
<1>1. received \in Seq(Nat) => Len(received) \in Nat OBVIOUS
<1> QED BY <1>1, StreamAssumption DEF Numbers, StreamAssumption

ReaderRests == UNCHANGED <<r_first, r_bufUsed, r_pos, m_curr, m_off, received>>

LEMMA OrderedStays ==
  ASSUME Numbers, sent' \in Nat, w_bufUsed' \in Nat, Ordered, ReaderRests, UNCHANGED buffer,
         sent - w_bufUsed <= sent' - w_bufUsed'
  PROVE  Ordered'
<1>1. UNCHANGED <<InReader, InCurr, Queued, Len(received)>>
  BY DEF ReaderRests, InReader, InCurr, Queued
<1>2. \A n : Part(n)' = Part(n) BY DEF Part
<1>3. /\ Len(received) \in Nat /\ sent - w_bufUsed \in Int /\ sent' - w_bufUsed' \in Int
  BY NumbersAre
<1>4. (Len(received) + 1)..(sent - w_bufUsed) \subseteq (Len(received) + 1)..(sent' - w_bufUsed')
  BY <1>3
<1> QED BY <1>1, <1>2, <1>4 DEF Ordered

LEMMA OrderedStill ==
  ASSUME Numbers, Ordered, ReaderRests, UNCHANGED <<buffer, sent, w_bufUsed>>
  PROVE  Ordered'
<1>1. sent' \in Nat /\ w_bufUsed' \in Nat /\ sent - w_bufUsed <= sent' - w_bufUsed'
  BY NumbersAre
<1> QED BY <1>1, OrderedStays

LEMMA OrderedAccept ==
  ASSUME Types, Numbers, Ordered, ReaderRests, Offered \in Chunks,
         buffer' = Append(buffer, Offered), sent' = sent, w_bufUsed' = 0,
         Bytes(Offered.first, Offered.len) \subseteq InWriter
  PROVE  Ordered'
<1>1. /\ Len(buffer) \in Nat
      /\ DOMAIN buffer = 1..Len(buffer) /\ DOMAIN buffer' = 1..(Len(buffer) + 1)
      /\ \A n \in 1..Len(buffer) : buffer'[n] = buffer[n]
      /\ buffer'[Len(buffer) + 1] = Offered
  BY Added DEF Types
<1>2. /\ \A n \in 1..Len(buffer) : Part(n)' = Part(n)
      /\ \A n : n = Len(buffer) + 1 => Part(n)' \subseteq InWriter
  <2>1. \A n \in 1..Len(buffer) : Part(n)' = Part(n) BY <1>1 DEF Part
  <2>2. ASSUME NEW n, n = Len(buffer) + 1 PROVE Part(n)' \subseteq InWriter
    <3>1. buffer'[n] = Offered BY <1>1, <2>2
    <3> QED BY <3>1 DEF Part
  <2> QED BY <2>1, <2>2
<1>3. UNCHANGED <<InReader, InCurr, Len(received)>>
  BY DEF ReaderRests, InReader, InCurr
<1>4. /\ Len(received) \in Nat /\ sent \in Nat /\ w_bufUsed \in Nat /\ w_bufUsed <= sent
      /\ Len(received) <= sent - w_bufUsed
  BY NumbersAre
<1>5. /\ \A x : x \in Queued => \E n \in 1..Len(buffer) : x \in Part(n)
      /\ \A n \in 1..Len(buffer) : Part(n) \subseteq Queued
      /\ \A x : x \in Queued' => \E n \in 1..(Len(buffer) + 1) : x \in Part(n)'
  BY <1>1 DEF Queued, Part
<1>6. \A x : x \in Queued' => x \in Queued \/ x \in InWriter
  <2> TAKE x
  <2> SUFFICES ASSUME x \in Queued' PROVE x \in Queued \/ x \in InWriter OBVIOUS
  <2>1. PICK n \in 1..(Len(buffer) + 1) : x \in Part(n)' BY <1>5
  <2>2. CASE n \in 1..Len(buffer) BY <1>2, <1>5, <2>1, <2>2
  <2>3. CASE n = Len(buffer) + 1 BY <1>2, <2>1, <2>3
  <2> QED BY <1>1, <2>2, <2>3
<1>7. InReader \cup InCurr \cup Queued \subseteq (Len(received) + 1)..(sent - w_bufUsed)
  BY DEF Ordered
<1>8. InWriter = (sent - w_bufUsed + 1)..sent
  BY <1>4 DEF InWriter, Bytes
<1>9. InReader' \cup InCurr' \cup Queued' \subseteq (Len(received') + 1)..(sent' - w_bufUsed')
  BY <1>3, <1>4, <1>6, <1>7, <1>8
<1>10. /\ Below(InReader, InWriter) /\ Below(InCurr, InWriter)
       /\ \A n \in 1..Len(buffer) : Below(Part(n), InWriter)
  <2>1. \A x \in InReader \cup InCurr \cup Queued, y \in InWriter : x < y
    BY <1>4, <1>7, <1>8
  <2> QED BY <2>1, <1>5 DEF Below
<1>11. \A n \in DOMAIN buffer' : Below(InReader, Part(n))' /\ Below(InCurr, Part(n))'
  <2> SUFFICES ASSUME NEW n \in 1..(Len(buffer) + 1)
               PROVE  Below(InReader, Part(n))' /\ Below(InCurr, Part(n))'
    BY <1>1
  <2>1. CASE n \in 1..Len(buffer) BY <1>1, <1>2, <1>3, <2>1 DEF Ordered, Below
  <2>2. CASE n = Len(buffer) + 1 BY <1>2, <1>3, <1>10, <2>2 DEF Below
  <2> QED BY <1>1, <2>1, <2>2
<1>12. \A i, j \in DOMAIN buffer' : i < j => Below(Part(i), Part(j))'
  <2> SUFFICES ASSUME NEW i \in 1..(Len(buffer) + 1), NEW j \in 1..(Len(buffer) + 1), i < j
               PROVE  Below(Part(i), Part(j))'
    BY <1>1
  <2>1. i \in 1..Len(buffer) BY <1>1
  <2>2. CASE j \in 1..Len(buffer) BY <1>1, <1>2, <2>1, <2>2 DEF Ordered, Below
  <2>3. CASE j = Len(buffer) + 1 BY <1>2, <1>10, <2>1, <2>3 DEF Below
  <2> QED BY <1>1, <2>2, <2>3
<1>13. Below(InReader, InCurr)' BY <1>3 DEF Ordered, Below
<1> QED BY <1>9, <1>11, <1>12, <1>13 DEF Ordered

(* The head of the queue goes to the reader, who had nothing.              *)
LEMMA OrderedGet ==
  ASSUME Types, Ordered, InReader = {}, InCurr = {}, buffer # <<>>, buffer' = Tail(buffer),
         InReader' \cup InCurr' \subseteq Part(1), Below(InReader, InCurr)',
         UNCHANGED <<received, sent, w_bufUsed>>
  PROVE  Ordered'
<1>1. /\ Len(buffer) \in Nat /\ Len(buffer) >= 1
      /\ DOMAIN buffer = 1..Len(buffer) /\ DOMAIN buffer' = 1..(Len(buffer) - 1)
      /\ \A n \in 1..(Len(buffer) - 1) : buffer'[n] = buffer[n + 1]
  BY Taken DEF Types
<1>2. \A n \in 1..(Len(buffer) - 1) : n + 1 \in 1..Len(buffer) /\ Part(n)' = Part(n + 1)
  BY <1>1 DEF Part
<1>3. \A n \in 1..Len(buffer) : Part(n) \subseteq Queued
  BY <1>1 DEF Queued, Part
<1>4. Queued' \subseteq Queued
  <2>1. \A x : x \in Queued' => \E n \in 1..(Len(buffer) - 1) : x \in Part(n)'
    BY <1>1 DEF Queued, Part
  <2> QED BY <2>1, <1>2, <1>3
<1>5. 1 \in 1..Len(buffer) BY <1>1
<1>6. InReader' \cup InCurr' \cup Queued' \subseteq (Len(received') + 1)..(sent' - w_bufUsed')
  BY <1>3, <1>4, <1>5 DEF Ordered
<1>7. \A n \in DOMAIN buffer' : Below(InReader, Part(n))' /\ Below(InCurr, Part(n))'
  <2> SUFFICES ASSUME NEW n \in 1..(Len(buffer) - 1)
               PROVE  Below(InReader, Part(n))' /\ Below(InCurr, Part(n))'
    BY <1>1
  <2>1. n + 1 \in DOMAIN buffer /\ 1 \in DOMAIN buffer /\ 1 < n + 1 BY <1>1
  <2>2. Below(Part(1), Part(n + 1)) BY <2>1 DEF Ordered
  <2> QED BY <2>2, <1>2 DEF Below
<1>8. \A i, j \in DOMAIN buffer' : i < j => Below(Part(i), Part(j))'
  <2> SUFFICES ASSUME NEW i \in 1..(Len(buffer) - 1), NEW j \in 1..(Len(buffer) - 1), i < j
               PROVE  Below(Part(i), Part(j))'
    BY <1>1
  <2>1. i + 1 \in DOMAIN buffer /\ j + 1 \in DOMAIN buffer /\ i + 1 < j + 1 BY <1>1
  <2>2. Below(Part(i + 1), Part(j + 1)) BY <2>1 DEF Ordered
  <2> QED BY <2>2, <1>2 DEF Below
<1> QED BY <1>6, <1>7, <1>8 DEF Ordered

(* The reader moves what it has from its chunk to its buffer, or gives it  *)
(* to its caller.                                                          *)
LEMMA OrderedWithin ==
  ASSUME Ordered, UNCHANGED <<buffer, sent, w_bufUsed>>,
         InReader' \cup InCurr' \subseteq InReader \cup InCurr,
         Below(InReader, InCurr)',
         Len(received') \in Nat, sent - w_bufUsed \in Int,
         \A x \in InReader \cup InCurr \cup Queued :
            x \in InReader' \cup InCurr' \cup Queued => x > Len(received')
  PROVE  Ordered'
<1>1. UNCHANGED Queued /\ \A n : Part(n)' = Part(n) BY DEF Queued, Part
<1>2. InReader' \cup InCurr' \cup Queued' \subseteq (Len(received') + 1)..(sent' - w_bufUsed')
  BY <1>1 DEF Ordered
<1>3. \A n \in DOMAIN buffer' : Below(InReader, Part(n))' /\ Below(InCurr, Part(n))'
  BY <1>1 DEF Ordered, Below
<1> QED BY <1>1, <1>2, <1>3 DEF Ordered, Below
-----------------------------------------------------------------------------
(* What the end of the stream leaves behind it.                            *)
ReaderSays == <<m_eof, m_curr, r_bufUsed, rcall, shorts, ret>>

LEMMA EndStays ==
  ASSUME EndIsLast, UNCHANGED <<buffer, ended, ReaderSays>>,
         ended => AtEnd'
  PROVE  EndIsLast'
BY DEF EndIsLast, ReaderSays, EndsOnly, HasEnd, AllEnd

LEMMA AddedAtEnd ==
  ASSUME NEW q \in Seq(Chunks), NEW c \in Chunks, EndsOnly(q), HasEnd(q) => c.len = 0
  PROVE  /\ EndsOnly(Append(q, c))
         /\ HasEnd(Append(q, c)) => HasEnd(q) \/ c.len = 0
         /\ AllEnd(q) /\ c.len = 0 => AllEnd(Append(q, c))
<1> DEFINE r == Append(q, c)
<1>1. /\ Len(q) \in Nat /\ DOMAIN q = 1..Len(q) /\ DOMAIN r = 1..(Len(q) + 1)
      /\ \A n \in 1..Len(q) : r[n] = q[n]
      /\ r[Len(q) + 1] = c
  BY Added
<1> HIDE DEF r
<1>2. \A n \in DOMAIN r : (n \in DOMAIN q /\ r[n] = q[n]) \/ (n = Len(q) + 1 /\ r[n] = c)
  <2> SUFFICES ASSUME NEW n \in 1..(Len(q) + 1), n # Len(q) + 1
               PROVE  n \in 1..Len(q)
    BY <1>1
  <2> QED BY <1>1
<1>3. HasEnd(r) => HasEnd(q) \/ c.len = 0 BY <1>2 DEF HasEnd
<1>4. AllEnd(q) /\ c.len = 0 => AllEnd(r) BY <1>2 DEF AllEnd
<1>5. ASSUME NEW n \in DOMAIN r, NEW m \in DOMAIN r, r[n].len = 0, n < m PROVE r[m].len = 0
  <2>1. n \in DOMAIN q /\ r[n] = q[n] BY <1>1, <1>2, <1>5
  <2>2. HasEnd(q) BY <1>5, <2>1 DEF HasEnd
  <2>3. CASE m \in DOMAIN q /\ r[m] = q[m] BY <1>5, <2>1, <2>3 DEF EndsOnly
  <2>4. CASE r[m] = c BY <2>2, <2>4
  <2> QED BY <1>2, <2>3, <2>4
<1>6. EndsOnly(r) BY <1>5 DEF EndsOnly
<1> QED BY <1>3, <1>4, <1>6 DEF r

LEMMA TakenFromEnd ==
  ASSUME NEW q \in Seq(Chunks), q # <<>>, EndsOnly(q)
  PROVE  /\ EndsOnly(Tail(q))
         /\ HasEnd(Tail(q)) => HasEnd(q)
         /\ Head(q).len = 0 => HasEnd(q) /\ AllEnd(Tail(q))
         /\ AllEnd(q) => AllEnd(Tail(q))
<1> DEFINE r == Tail(q)
<1>1. /\ Head(q) = q[1] /\ Len(q) \in Nat /\ Len(q) >= 1
      /\ DOMAIN q = 1..Len(q) /\ DOMAIN r = 1..(Len(q) - 1)
      /\ \A n \in 1..(Len(q) - 1) : r[n] = q[n + 1]
  BY Taken
<1> HIDE DEF r
<1>2. \A n \in DOMAIN r : n \in Nat /\ n + 1 \in DOMAIN q /\ 1 < n + 1 /\ r[n] = q[n + 1]
  BY <1>1
<1>3. 1 \in DOMAIN q BY <1>1
<1>4. HasEnd(r) => HasEnd(q) BY <1>2 DEF HasEnd
<1>5. AllEnd(q) => AllEnd(r) BY <1>2 DEF AllEnd
<1>6. Head(q).len = 0 => HasEnd(q) /\ AllEnd(r)
  BY <1>1, <1>2, <1>3 DEF HasEnd, AllEnd, EndsOnly
<1>7. ASSUME NEW n \in DOMAIN r, NEW m \in DOMAIN r, r[n].len = 0, n < m PROVE r[m].len = 0
  <2>1. n + 1 < m + 1 BY <1>2, <1>7
  <2> QED BY <1>2, <1>7, <2>1 DEF EndsOnly
<1>8. EndsOnly(r) BY <1>7 DEF EndsOnly
<1> QED BY <1>4, <1>5, <1>6, <1>8 DEF r

(* A chunk is pushed before the end, or is the end.                        *)
LEMMA EndAccept ==
  ASSUME Types, EndIsLast, Offered \in Chunks, buffer' = Append(buffer, Offered),
         ended' <=> ended \/ Offered.len = 0, UNCHANGED ReaderSays,
         ended => Offered.len = 0,
         ended' => AtEnd'
  PROVE  EndIsLast'
<1>1. EndsOnly(buffer) /\ (HasEnd(buffer) => Offered.len = 0) /\ buffer \in Seq(Chunks)
  BY DEF EndIsLast, Types
<1>2. /\ EndsOnly(Append(buffer, Offered))
      /\ HasEnd(Append(buffer, Offered)) => HasEnd(buffer) \/ Offered.len = 0
      /\ AllEnd(buffer) /\ Offered.len = 0 => AllEnd(Append(buffer, Offered))
  BY <1>1, AddedAtEnd
<1>3. EndsOnly(buffer)' /\ (HasEnd(buffer)' => HasEnd(buffer) \/ Offered.len = 0)
      /\ (AllEnd(buffer) /\ Offered.len = 0 => AllEnd(buffer)')
  BY <1>2 DEF EndsOnly, HasEnd, AllEnd
<1> QED BY <1>3 DEF EndIsLast, ReaderSays

LEMMA EndTaken ==
  ASSUME Types, EndIsLast, buffer # <<>>, buffer' = Tail(buffer), UNCHANGED ended
  PROVE  /\ EndsOnly(buffer)' /\ (HasEnd(buffer)' => ended')
         /\ Head(buffer).len = 0 => ended /\ AllEnd(buffer)'
         /\ m_eof => AllEnd(buffer)'
<1>1. EndsOnly(buffer) /\ buffer \in Seq(Chunks) BY DEF EndIsLast, Types
<1>2. /\ EndsOnly(Tail(buffer))
      /\ HasEnd(Tail(buffer)) => HasEnd(buffer)
      /\ Head(buffer).len = 0 => HasEnd(buffer) /\ AllEnd(Tail(buffer))
      /\ AllEnd(buffer) => AllEnd(Tail(buffer))
  BY <1>1, TakenFromEnd
<1>3. /\ EndsOnly(buffer)' <=> EndsOnly(Tail(buffer))
      /\ HasEnd(buffer)' <=> HasEnd(Tail(buffer))
      /\ AllEnd(buffer)' <=> AllEnd(Tail(buffer))
  BY DEF EndsOnly, HasEnd, AllEnd
<1> QED BY <1>2, <1>3 DEF EndIsLast
-----------------------------------------------------------------------------
(* What an action of one side leaves alone.                                *)
LEMMA WriterRests ==
  ASSUME WriterAt, UNCHANGED <<Offered, wcall, w_bufUsed, sent, closing, allocs>>
  PROVE  WriterAt'
BY DEF WriterAt, WOp, Pushing, Offered

LEMMA ReaderStays ==
  ASSUME ReaderAt, UNCHANGED <<Asked, rcall, r_bufUsed, readerVars>>
  PROVE  ReaderAt'
BY DEF ReaderAt, ROp, readerVars

LEMMA StreamsRest ==
  ASSUME UNCHANGED streamVars
  PROVE  UNCHANGED <<behavior, buffer, offer, request, readerVars, m_curr, m_off, m_eof,
                     Offered, Asked, allocs, heap, refused>>
BY DEF streamVars, readerVars, Offered, Asked

LEMMA BufReaderRests ==
  ASSUME UNCHANGED bufReaderVars
  PROVE  UNCHANGED <<r_first, r_bufUsed, r_pos, rcall, ROp, received, ret, shorts>>
BY DEF bufReaderVars, ROp

LEMMA ReaderBufRests ==
  ASSUME UNCHANGED readerVars, UNCHANGED bufReaderVars
  PROVE  ReaderRests /\ UNCHANGED ReaderSays /\ UNCHANGED <<m_curr, m_off, m_eof>>
BY DEF readerVars, bufReaderVars, ReaderRests, ReaderSays

LEMMA WriterVarsRest ==
  ASSUME UNCHANGED writerVars
  PROVE  UNCHANGED <<w_bufUsed, wcall, WOp, sent, closing>>
BY DEF writerVars, WOp
-----------------------------------------------------------------------------
LEMMA InitStreamInv == Init => StreamInv
<1> SUFFICES ASSUME Init PROVE StreamInv OBVIOUS
<1>1. /\ behavior \in Behaviors /\ buffer = <<>>
      /\ offer = [w \in {Writer} |-> NoChunk] /\ request = [r \in {Reader} |-> "none"]
      /\ m_curr = EOF /\ m_off = 0 /\ m_eof = FALSE
      /\ allocs = 0 /\ heap = {} /\ refused = {}
      /\ w_bufUsed = 0 /\ wcall = None
      /\ r_first = 0 /\ r_bufUsed = 0 /\ r_pos = 0 /\ rcall = None
      /\ sent = 0 /\ received = <<>> /\ ret = 0 /\ shorts = 0
      /\ closing = FALSE /\ ended = FALSE
  BY DEF Init, StreamInit, PCQ!Init
<1>2. Offered = NoChunk /\ Asked = "none" /\ WOp = "none" /\ ROp = "none"
  BY <1>1, NoCall DEF Offered, Asked, WOp, ROp
<1>3. Types
  <2>1. <<>> \in Seq(Chunks) /\ 0 \in 0..EOF.len BY ChunkIs
  <2>2. /\ offer = [w \in {Writer} |-> offer[w]]
        /\ request = [r \in {Reader} |-> request[r]]
    BY <1>1
  <2>3. IsCall(wcall) /\ IsCall(rcall) BY <1>1, NoCall
  <2> QED BY <1>1, <1>2, <2>1, <2>2, <2>3, ChunkIs DEF Types
<1>4. Numbers
  BY <1>1, <1>2, NoCall, StreamAssumption DEF Numbers, StreamAssumption
<1>5. WriterAt
  BY <1>1, <1>2 DEF WriterAt
<1>6. ReaderAt
  BY <1>1, <1>2 DEF ReaderAt
<1>7. Held
  BY <1>1, <1>2, ChunkIs DEF Held, InQueue, InPush, InHand
<1>8. Ordered
  <2>1. InReader = {} BY <1>1 DEF InReader, Bytes
  <2>2. InCurr = {}
    <3>1. EOF.first \in Nat /\ EOF.len = 0 BY DEF EOF, Chunk
    <3> QED BY <1>1, <3>1 DEF InCurr, Bytes
  <2>3. Queued = {} /\ DOMAIN buffer = {} BY <1>1 DEF Queued
  <2> QED BY <2>1, <2>2, <2>3 DEF Ordered, Below
<1>9. EndIsLast
  BY <1>1, <1>2 DEF EndIsLast, EndsOnly, HasEnd
<1> QED BY <1>3, <1>4, <1>5, <1>6, <1>7, <1>8, <1>9 DEF StreamInv
-----------------------------------------------------------------------------
(* One lemma for each action. The writer's:                                *)
LEMMA CallWriteKeeps ==
  ASSUME StreamInv, NEW len \in WriteLengths, CallWrite(len)
  PROVE  StreamInv'
<1>1. /\ Types /\ Numbers /\ WriterAt /\ ReaderAt /\ Held /\ Ordered /\ EndIsLast
  BY DEF StreamInv
<1>2. /\ wcall = None /\ ~closing /\ allocs < MaxChunks - 1
      /\ sent + len <= MaxBytes /\ wcall' = Call("write", len)
      /\ UNCHANGED streamVars /\ UNCHANGED <<w_bufUsed, sent, closing, ended>>
      /\ UNCHANGED bufReaderVars
  BY DEF CallWrite, Idle
<1>3. len \in Nat /\ len > 0 BY StreamAssumption DEF StreamAssumption
<1>4. /\ UNCHANGED <<behavior, buffer, offer, request, readerVars, m_curr, m_off, m_eof,
                     Offered, Asked, allocs, heap, refused>>
      /\ UNCHANGED <<r_first, r_bufUsed, r_pos, rcall, ROp, received, ret, shorts>>
  BY <1>2, StreamsRest, BufReaderRests
<1>5. IsCall(wcall') /\ WOp' = "write" /\ wcall'.len = len /\ WOp = "none"
  BY <1>2, <1>3, NewCall, NoCall DEF WOp
<1>6. Types' BY <1>1, <1>2, <1>4, <1>5 DEF Types
<1>7. Numbers' BY <1>1, <1>2, <1>4 DEF Numbers
<1>8. WriterAt'
  <2>1. Offered = NoChunk BY <1>1, <1>5 DEF WriterAt
  <2>2. allocs \in Nat /\ MaxChunks \in Nat BY <1>1, NumbersAre, StreamAssumption DEF StreamAssumption
  <2> QED BY <1>2, <1>3, <1>4, <1>5, <2>1, <2>2 DEF WriterAt
<1>9. ReaderAt' BY <1>1, <1>4, ReaderStays
<1>10. Held' BY <1>1, <1>4, HeldStays
<1>11. Ordered'
  <2>1. sent \in Nat /\ w_bufUsed \in Nat BY <1>1, NumbersAre
  <2> QED BY <1>1, <1>2, <1>4, <2>1, OrderedStays DEF ReaderRests
<1>12. EndIsLast'
  <2>1. ~ended BY <1>1, <1>2, <1>5 DEF EndIsLast, AtEnd
  <2> QED BY <1>1, <1>2, <1>4, <2>1, EndStays DEF ReaderSays
<1> QED BY <1>6, <1>7, <1>8, <1>9, <1>10, <1>11, <1>12 DEF StreamInv

LEMMA RoomIs ==
  ASSUME Types, Numbers, w_bufUsed < WBufSize, wcall.len > 0
  PROVE  /\ Room(wcall.len) \in Nat /\ Room(wcall.len) > 0
         /\ Room(wcall.len) <= wcall.len /\ w_bufUsed + Room(wcall.len) <= WBufSize
<1>1. wcall.len \in Nat /\ w_bufUsed \in Nat /\ WBufSize \in Nat
  BY NumbersAre, StreamAssumption DEF Types, IsCall, StreamAssumption
<1> QED BY <1>1 DEF Room, Least

LEMMA WriteCopiesKeeps ==
  ASSUME StreamInv, WriteCopies
  PROVE  StreamInv'
<1>1. /\ Types /\ Numbers /\ WriterAt /\ ReaderAt /\ Held /\ Ordered /\ EndIsLast
  BY DEF StreamInv
<1> DEFINE n == Room(wcall.len)
<1>2. /\ WOp = "write" /\ Offered = NoChunk /\ w_bufUsed < WBufSize
      /\ w_bufUsed' = w_bufUsed + n /\ sent' = sent + n /\ wcall' = None
      /\ UNCHANGED streamVars /\ UNCHANGED <<closing, ended>>
      /\ UNCHANGED bufReaderVars
  BY DEF WriteCopies, Pushing, WOp, Offered
<1>3. /\ wcall.len > 0 /\ sent + wcall.len <= MaxBytes
      /\ wcall.len \in Nat
  BY <1>1, <1>2 DEF WriterAt, Types, IsCall
<1>4. n \in Nat /\ n > 0 /\ n <= wcall.len /\ w_bufUsed + n <= WBufSize
  BY <1>1, <1>2, <1>3, RoomIs
<1> HIDE DEF n
<1>5. /\ UNCHANGED <<behavior, buffer, offer, request, readerVars, m_curr, m_off, m_eof,
                     Offered, Asked, allocs, heap, refused>>
      /\ UNCHANGED <<r_first, r_bufUsed, r_pos, rcall, ROp, received, ret, shorts>>
  BY <1>2, StreamsRest, BufReaderRests
<1>6. IsCall(wcall') /\ WOp' = "none"
  BY <1>2, NoCall DEF WOp
<1>7. Types' BY <1>1, <1>2, <1>5, <1>6 DEF Types
<1>8. MaxBytes \in Nat /\ MaxChunks \in Nat /\ WBufSize \in Nat
  BY StreamAssumption DEF StreamAssumption
<1>9. Numbers' BY <1>1, <1>2, <1>3, <1>4, <1>5, <1>8, NumbersAre DEF Numbers
<1>10. WriterAt'
  <2>1. ~closing /\ allocs < MaxChunks BY <1>1, <1>2 DEF WriterAt
  <2> QED BY <1>2, <1>5, <1>6, <2>1 DEF WriterAt
<1>11. ReaderAt' BY <1>1, <1>5, ReaderStays
<1>12. Held' BY <1>1, <1>5, HeldStays
<1>13. Ordered'
  <2>1. sent \in Nat /\ w_bufUsed \in Nat BY <1>1, NumbersAre
  <2>2. sent' \in Nat /\ w_bufUsed' \in Nat /\ sent - w_bufUsed <= sent' - w_bufUsed'
    BY <1>2, <1>4, <2>1
  <2> QED BY <1>1, <1>5, <2>2, OrderedStays DEF ReaderRests
<1>14. EndIsLast'
  <2>1. ~ended BY <1>1, <1>2 DEF EndIsLast, WriterAt, AtEnd
  <2> QED BY <1>1, <1>2, <1>5, <2>1, EndStays DEF ReaderSays
<1> QED BY <1>7, <1>9, <1>10, <1>11, <1>12, <1>13, <1>14 DEF StreamInv

(* A push begins: of what m_buf holds, or of (NULL, 0).                    *)
LEMMA WriteBufferIs ==
  ASSUME StreamInv, WriteBuffer
  PROVE  /\ allocs' = allocs + 1 /\ heap' = heap \cup {allocs + 1}
         /\ Offered = NoChunk /\ Offered' = Chunk(allocs + 1, sent - w_bufUsed + 1, w_bufUsed)
         /\ Offered' \in Chunks /\ Offered' # NoChunk /\ Offered'.buf = allocs + 1
         /\ offer' = [w \in {Writer} |-> offer'[w]]
         /\ UNCHANGED <<behavior, buffer, request, Asked, readerVars, refused>>
         /\ Held'
<1>1. Types /\ Numbers /\ Held BY DEF StreamInv
<1> DEFINE c == Chunk(allocs + 1, sent - w_bufUsed + 1, w_bufUsed)
<1>2. c \in Chunks /\ c # NoChunk /\ c.buf = allocs + 1
  <2>1. /\ allocs + 1 \in Nat /\ sent - w_bufUsed + 1 \in Nat /\ w_bufUsed \in Nat
        /\ allocs + 1 # NULL
    BY <1>1, NumbersAre DEF NULL
  <2> QED BY <2>1, ChunkIs
<1>3. /\ allocs' = allocs + 1 /\ heap' = heap \cup {allocs + 1}
      /\ PCQ!Offer(Writer, c) /\ UNCHANGED <<readerVars, refused>>
  BY DEF WriteBuffer, Write
<1> HIDE DEF c
<1>4. /\ Offered = NoChunk /\ Offered' = c /\ offer' = [w \in {Writer} |-> offer'[w]]
      /\ UNCHANGED <<behavior, buffer, request, Asked, got>>
  BY <1>1, <1>3, OfferIs
<1>5. Held' BY <1>1, <1>2, <1>3, <1>4, HeldPush DEF readerVars
<1> QED BY <1>2, <1>3, <1>4, <1>5 DEF c

LEMMA CloseIs ==
  ASSUME StreamInv, Close
  PROVE  /\ Offered = NoChunk /\ Offered' = EOF /\ offer' = [w \in {Writer} |-> offer'[w]]
         /\ UNCHANGED <<behavior, buffer, request, Asked, readerVars, allocs, heap, refused>>
         /\ Held'
<1>1. Types /\ Held BY DEF StreamInv
<1>2. PCQ!Offer(Writer, EOF) /\ UNCHANGED <<readerVars, allocs, heap, refused>> BY DEF Close
<1>3. /\ Offered = NoChunk /\ Offered' = EOF /\ offer' = [w \in {Writer} |-> offer'[w]]
      /\ UNCHANGED <<behavior, buffer, request, Asked, got>>
  BY <1>1, <1>2, OfferIs
<1> QED BY <1>1, <1>2, <1>3, HeldPushEOF DEF readerVars

LEMMA BufferPushed ==
  ASSUME StreamInv, WriteBuffer, IsCall(wcall'), WOp' \in {"write", "flush", "destroy"},
         w_bufUsed > 0, allocs < MaxChunks, ~closing, ~ended,
         WOp' = "write" => wcall'.len > 0 /\ sent + wcall'.len <= MaxBytes,
         WOp' # "destroy" => allocs < MaxChunks - 1,
         UNCHANGED <<w_bufUsed, sent, closing, ended>>, UNCHANGED bufReaderVars
  PROVE  StreamInv'
<1>1. /\ Types /\ Numbers /\ WriterAt /\ ReaderAt /\ Held /\ Ordered /\ EndIsLast
  BY DEF StreamInv
<1>2. /\ allocs' = allocs + 1 /\ heap' = heap \cup {allocs + 1}
      /\ Offered' = Chunk(allocs + 1, sent - w_bufUsed + 1, w_bufUsed)
      /\ Offered' \in Chunks /\ Offered' # NoChunk
      /\ offer' = [w \in {Writer} |-> offer'[w]]
      /\ UNCHANGED <<behavior, buffer, request, Asked, readerVars, refused>>
      /\ Held'
  BY WriteBufferIs
<1>3. /\ ReaderRests /\ UNCHANGED ReaderSays /\ UNCHANGED <<m_curr, m_off, m_eof>>
      /\ UNCHANGED <<r_first, r_bufUsed, r_pos, rcall, ROp, received, ret, shorts>>
  BY <1>2, ReaderBufRests, BufReaderRests
<1>4. allocs \in Nat /\ MaxChunks \in Nat BY <1>1, NumbersAre, StreamAssumption DEF StreamAssumption
<1>5. Types' BY <1>1, <1>2, <1>3 DEF Types
<1>6. Numbers'
  <2>1. /\ allocs \in 0..MaxChunks /\ heap \subseteq 1..allocs /\ refused \subseteq 0..allocs
        /\ 1..allocs \subseteq 1..(allocs + 1) /\ 0..allocs \subseteq 0..(allocs + 1)
    BY <1>1, <1>4 DEF Numbers
  <2>2. allocs' \in 0..MaxChunks BY <1>2, <1>4
  <2>3. heap' \subseteq 1..allocs' BY <1>2, <1>4, <2>1
  <2>4. refused' \subseteq 0..allocs' BY <1>2, <2>1
  <2> QED BY <1>1, <1>3, <2>2, <2>3, <2>4 DEF Numbers
<1>7. WriterAt'
  <2>1. Pushing' BY <1>2 DEF Pushing, Offered
  <2>2. allocs' > 0 /\ (WOp' # "destroy" => allocs' < MaxChunks) BY <1>2, <1>4
  <2>3. /\ Offered' = Chunk(allocs', sent' - w_bufUsed' + 1, w_bufUsed')
        /\ w_bufUsed' > 0 /\ ~closing'
    BY <1>2
  <2> QED BY <2>1, <2>2, <2>3 DEF WriterAt
<1>8. ReaderAt' BY <1>1, <1>2, <1>3, ReaderStays
<1>9. Ordered' BY <1>1, <1>2, <1>3, OrderedStill
<1>10. EndIsLast' BY <1>1, <1>2, <1>3, EndStays
<1> QED BY <1>2, <1>5, <1>6, <1>7, <1>8, <1>9, <1>10 DEF StreamInv

LEMMA EndPushed ==
  ASSUME StreamInv, Close, IsCall(wcall'), WOp' \in {"close", "close pcq"}, w_bufUsed = 0,
         closing' \in BOOLEAN, AtEnd',
         UNCHANGED <<w_bufUsed, sent, ended>>, UNCHANGED bufReaderVars
  PROVE  StreamInv'
<1>1. /\ Types /\ Numbers /\ WriterAt /\ ReaderAt /\ Held /\ Ordered /\ EndIsLast
  BY DEF StreamInv
<1>2. /\ Offered' = EOF /\ offer' = [w \in {Writer} |-> offer'[w]]
      /\ UNCHANGED <<behavior, buffer, request, Asked, readerVars, allocs, heap, refused>>
      /\ Held'
  BY CloseIs
<1>3. /\ ReaderRests /\ UNCHANGED ReaderSays /\ UNCHANGED <<m_curr, m_off, m_eof>>
      /\ UNCHANGED <<r_first, r_bufUsed, r_pos, rcall, ROp, received, ret, shorts>>
  BY <1>2, ReaderBufRests, BufReaderRests
<1>4. Types' BY <1>1, <1>2, <1>3, ChunkIs DEF Types
<1>5. Numbers' BY <1>1, <1>2, <1>3 DEF Numbers
<1>6. WriterAt' BY <1>2 DEF WriterAt, AtEnd
<1>7. ReaderAt' BY <1>1, <1>2, <1>3, ReaderStays
<1>8. Ordered' BY <1>1, <1>2, <1>3, OrderedStill
<1>9. EndIsLast' BY <1>1, <1>2, <1>3, EndStays
<1> QED BY <1>2, <1>4, <1>5, <1>6, <1>7, <1>8, <1>9 DEF StreamInv

LEMMA WriteFlushesKeeps ==
  ASSUME StreamInv, WriteFlushes
  PROVE  StreamInv'
<1>1. Types /\ Numbers /\ WriterAt /\ EndIsLast BY DEF StreamInv
<1>2. /\ WOp = "write" /\ ~Pushing /\ w_bufUsed >= WBufSize /\ WriteBuffer
      /\ UNCHANGED writerVars /\ UNCHANGED bufReaderVars /\ UNCHANGED ended
  BY DEF WriteFlushes, WOp
<1>3. UNCHANGED <<w_bufUsed, wcall, WOp, sent, closing>> BY <1>2, WriterVarsRest
<1>4. w_bufUsed > 0 /\ allocs < MaxChunks
  BY <1>1, <1>2, NumbersAre, StreamAssumption DEF WriterAt, StreamAssumption
<1>5. /\ ~closing /\ wcall.len > 0 /\ sent + wcall.len <= MaxBytes /\ allocs < MaxChunks - 1
  BY <1>1, <1>2 DEF WriterAt
<1>6. ~ended BY <1>1, <1>2, <1>5 DEF EndIsLast, AtEnd
<1>7. IsCall(wcall') BY <1>1, <1>3 DEF Types
<1> QED BY <1>2, <1>3, <1>4, <1>5, <1>6, <1>7, BufferPushed

LEMMA CallFlushKeeps ==
  ASSUME StreamInv, CallFlush
  PROVE  StreamInv'
<1>1. Types /\ Numbers /\ WriterAt /\ EndIsLast BY DEF StreamInv
<1>2. /\ wcall = None /\ ~closing /\ allocs < MaxChunks - 1 /\ w_bufUsed # 0 /\ WriteBuffer
      /\ wcall' = Call("flush", 0)
      /\ UNCHANGED <<w_bufUsed, sent, closing, ended>> /\ UNCHANGED bufReaderVars
  BY DEF CallFlush, Idle
<1>3. WOp = "none" /\ WOp' = "flush" /\ IsCall(wcall') BY <1>2, NoCall, NewCall DEF WOp
<1>4. w_bufUsed > 0 /\ allocs < MaxChunks
  BY <1>1, <1>2, NumbersAre, StreamAssumption DEF StreamAssumption
<1>5. ~ended BY <1>1, <1>2, <1>3 DEF EndIsLast, AtEnd
<1> QED BY <1>2, <1>3, <1>4, <1>5, BufferPushed

LEMMA CallCloseKeeps ==
  ASSUME StreamInv, CallClose
  PROVE  StreamInv'
<1>1. /\ w_bufUsed = 0 /\ Close /\ wcall' = Call("close", 0) /\ closing' = TRUE
      /\ UNCHANGED <<w_bufUsed, sent, ended>> /\ UNCHANGED bufReaderVars
  BY DEF CallClose
<1>2. WOp' = "close" /\ IsCall(wcall') /\ AtEnd' BY <1>1, NewCall DEF WOp, AtEnd
<1> QED BY <1>1, <1>2, EndPushed

LEMMA CallDestroyKeeps ==
  ASSUME StreamInv, CallDestroy
  PROVE  StreamInv'
<1>1. Types /\ Numbers /\ WriterAt /\ EndIsLast BY DEF StreamInv
<1>2. wcall = None /\ UNCHANGED <<w_bufUsed, sent, closing, ended>> /\ UNCHANGED bufReaderVars
  BY DEF CallDestroy
<1>3. WOp = "none" BY <1>2, NoCall DEF WOp
<1>4. CASE w_bufUsed = 0
  <2>1. wcall' = Call("close pcq", 0) /\ Close BY <1>4 DEF CallDestroy
  <2>2. WOp' = "close pcq" /\ IsCall(wcall') /\ AtEnd' BY <2>1, NewCall DEF WOp, AtEnd
  <2>3. closing' \in BOOLEAN BY <1>1, <1>2 DEF Types
  <2> QED BY <1>2, <1>4, <2>1, <2>2, <2>3, EndPushed
<1>5. CASE w_bufUsed # 0
  <2>1. wcall' = Call("destroy", 0) /\ WriteBuffer BY <1>5 DEF CallDestroy
  <2>2. WOp' = "destroy" /\ IsCall(wcall') BY <2>1, NewCall DEF WOp
  <2>3. w_bufUsed > 0 BY <1>1, <1>5, NumbersAre
  <2>4. ~closing /\ allocs < MaxChunks BY <1>1, <1>3, <1>5, <2>3 DEF WriterAt
  <2>5. ~ended BY <1>1, <1>3, <2>4 DEF EndIsLast, AtEnd
  <2> QED BY <1>2, <2>1, <2>2, <2>3, <2>4, <2>5, BufferPushed
<1> QED BY <1>4, <1>5

LEMMA DestroyClosesKeeps ==
  ASSUME StreamInv, DestroyCloses
  PROVE  StreamInv'
<1>1. Types /\ WriterAt BY DEF StreamInv
<1>2. /\ WOp = "destroy" /\ ~Pushing /\ Close /\ wcall' = Call("close pcq", 0)
      /\ UNCHANGED <<w_bufUsed, sent, closing, ended>> /\ UNCHANGED bufReaderVars
  BY DEF DestroyCloses, WOp
<1>3. WOp' = "close pcq" /\ IsCall(wcall') /\ AtEnd' BY <1>2, NewCall DEF WOp, AtEnd
<1>4. w_bufUsed = 0 BY <1>1, <1>2 DEF WriterAt
<1>5. closing' \in BOOLEAN BY <1>1, <1>2 DEF Types
<1> QED BY <1>2, <1>3, <1>4, <1>5, EndPushed

(* A push is over.                                                         *)
LEMMA PushOver ==
  ASSUME StreamInv, Offered # NoChunk, Offered' = NoChunk, UNCHANGED <<sent, closing, allocs>>,
         wcall' = NextCall \/ (WOp = "write" /\ wcall' = None),
         \/ w_bufUsed' = 0
         \/ w_bufUsed' = w_bufUsed /\ WOp # "destroy" /\ WOp' # "write"
  PROVE  /\ WriterAt' /\ IsCall(wcall') /\ w_bufUsed' \in 0..WBufSize /\ w_bufUsed' <= w_bufUsed
         /\ \/ /\ w_bufUsed > 0 /\ ~ended /\ Offered.len = w_bufUsed /\ allocs > 0
               /\ Offered = Chunk(allocs, sent - w_bufUsed + 1, w_bufUsed)
            \/ Offered = EOF /\ w_bufUsed = 0 /\ AtEnd'
<1>1. Types /\ Numbers /\ WriterAt /\ EndIsLast BY DEF StreamInv
<1>2. IsCall(wcall) /\ Pushing /\ ~Pushing' BY <1>1 DEF Types, Pushing, Offered
<1>3. /\ w_bufUsed' \in 0..WBufSize /\ w_bufUsed' <= w_bufUsed
      /\ sent \in Nat /\ w_bufUsed \in Nat /\ allocs \in Nat /\ WBufSize \in Nat \ {0}
      /\ w_bufUsed <= sent
  BY <1>1, NumbersAre, StreamAssumption DEF StreamAssumption, Numbers
<1>4. WOp \in {"write", "flush", "destroy", "close", "close pcq"}
  BY <1>1 DEF WriterAt
<1>5. /\ WOp = "write" => WOp' = "none" \/ (WOp' = "write" /\ wcall' = wcall)
      /\ WOp = "flush" => WOp' = "none"
      /\ WOp = "destroy" => WOp' = "destroy"
      /\ WOp = "close" => WOp' = "none"
      /\ WOp = "close pcq" => WOp' = "gone"
      /\ IsCall(wcall')
  BY <1>2, <1>4, NoCall DEF NextCall, WOp
<1>6. WriterAt'
  <2>1. WOp \in {"close", "close pcq"} => w_bufUsed = 0 BY <1>1 DEF WriterAt
  <2>2. w_bufUsed' # 0 => w_bufUsed' = w_bufUsed /\ WOp' = "none" /\ WOp \in {"write", "flush"}
    BY <1>4, <1>5, <2>1
  <2>3. closing' => WOp' \in {"none", "gone"} BY <1>1, <1>4, <1>5 DEF WriterAt
  <2>4. closing' => w_bufUsed' = 0 BY <1>1, <2>2 DEF WriterAt
  <2>5. WOp' = "write" => wcall'.len > 0 /\ sent' + wcall'.len <= MaxBytes
    BY <1>1, <1>5 DEF WriterAt
  <2>6. WOp' = "write" \/ w_bufUsed' > 0 => allocs' < MaxChunks
    <3>1. WOp' = "write" \/ w_bufUsed' # 0 => WOp \in {"write", "flush"} BY <1>4, <1>5, <2>2
    <3>2. WOp = "flush" => w_bufUsed > 0 BY <1>1 DEF WriterAt
    <3>3. WOp \in {"write", "flush"} => allocs < MaxChunks BY <1>1, <3>2 DEF WriterAt
    <3>4. w_bufUsed' > 0 => w_bufUsed' # 0 BY <1>3
    <3> QED BY <3>1, <3>3, <3>4
  <2>7. WOp' # "none" => w_bufUsed' = 0 /\ ~(w_bufUsed' >= WBufSize) BY <1>3, <2>2
  <2>8. WOp' \in {"none", "write", "destroy", "gone"} BY <1>4, <1>5
  <2> QED BY <2>3, <2>4, <2>5, <2>6, <2>7, <2>8 DEF WriterAt
<1>7. CASE WOp \in {"write", "flush", "destroy"}
  <2>1. /\ w_bufUsed > 0 /\ ~closing /\ allocs > 0
        /\ Offered = Chunk(allocs, sent - w_bufUsed + 1, w_bufUsed)
    BY <1>1, <1>7 DEF WriterAt
  <2>2. ~ended BY <1>1, <1>7, <2>1 DEF EndIsLast, AtEnd
  <2>3. Offered.len = w_bufUsed
    BY <1>3, <2>1, ChunkIs
  <2> QED BY <1>3, <1>5, <1>6, <2>1, <2>2, <2>3
<1>8. CASE WOp \in {"close", "close pcq"}
  <2>1. Offered = EOF /\ w_bufUsed = 0 BY <1>1, <1>8 DEF WriterAt
  <2>2. AtEnd' BY <1>1, <1>5, <1>8 DEF WriterAt, AtEnd
  <2> QED BY <1>3, <1>5, <1>6, <2>1, <2>2
<1> QED BY <1>4, <1>7, <1>8

LEMMA PushAccepted ==
  ASSUME StreamInv, PushTakesEffect, Returns,
         ended' <=> ended \/ IsEOF(Offered), ended' \in BOOLEAN
  PROVE  StreamInv'
<1>1. /\ Types /\ Numbers /\ WriterAt /\ ReaderAt /\ Held /\ Ordered /\ EndIsLast
  BY DEF StreamInv
<1>2. /\ PCQ!Accept(Writer) /\ UNCHANGED <<readerVars, allocs, heap, refused>>
      /\ wcall' = NextCall /\ w_bufUsed' = 0 /\ UNCHANGED <<sent, closing>>
      /\ UNCHANGED bufReaderVars
  BY DEF PushTakesEffect, Returns, Flushed
<1>3. /\ Offered # NoChunk /\ Offered' = NoChunk /\ offer' = [w \in {Writer} |-> offer'[w]]
      /\ buffer' = Append(buffer, Offered)
      /\ UNCHANGED <<behavior, request, Asked, got>>
  BY <1>1, <1>2, AcceptIs
<1>4. /\ ReaderRests /\ UNCHANGED ReaderSays /\ UNCHANGED <<m_curr, m_off, m_eof>>
      /\ UNCHANGED <<r_first, r_bufUsed, r_pos, rcall, ROp, received, ret, shorts>>
  BY <1>2, ReaderBufRests, BufReaderRests
<1>5. Offered \in Chunks /\ Offered.len \in Nat /\ (ended' <=> ended \/ Offered.len = 0)
  <2>1. Offered \in Chunks BY <1>1, <1>3 DEF Types
  <2>2. Offered.len \in Nat BY <2>1 DEF Chunks
  <2>3. IsEOF(Offered) <=> Offered.len = 0 BY <2>2 DEF IsEOF
  <2> QED BY <2>1, <2>2, <2>3
<1>6. /\ WriterAt' /\ IsCall(wcall') /\ w_bufUsed' \in 0..WBufSize /\ w_bufUsed' <= w_bufUsed
      /\ \/ /\ w_bufUsed > 0 /\ ~ended /\ Offered.len = w_bufUsed
            /\ Offered = Chunk(allocs, sent - w_bufUsed + 1, w_bufUsed)
         \/ Offered = EOF /\ w_bufUsed = 0 /\ AtEnd'
  BY <1>2, <1>3, PushOver
<1>7. Types'
  <2>1. buffer' \in Seq(Chunks) BY <1>1, <1>3, <1>5, Added DEF Types
  <2> QED BY <1>1, <1>2, <1>3, <1>4, <1>5, <1>6, <2>1 DEF Types
<1>8. Numbers' BY <1>1, <1>2, <1>4, <1>6, NumbersAre DEF Numbers
<1>9. ReaderAt' BY <1>1, <1>2, <1>3, <1>4, ReaderStays
<1>10. Held' BY <1>1, <1>2, <1>3, <1>4, HeldAccept
<1>11. Ordered'
  <2>1. sent \in Nat /\ w_bufUsed \in Nat /\ w_bufUsed <= sent /\ allocs \in Nat
    BY <1>1, NumbersAre
  <2>2. CASE Offered = Chunk(allocs, sent - w_bufUsed + 1, w_bufUsed)
    <3>1. Offered.first = sent - w_bufUsed + 1 /\ Offered.len = w_bufUsed
      BY <2>1, <2>2, ChunkIs
    <3> QED BY <1>1, <1>2, <1>3, <1>4, <1>5, <3>1, OrderedAccept DEF InWriter
  <2>3. CASE Offered = EOF
    <3>1. Offered.first \in Nat /\ Offered.len = 0 BY <2>3, ChunkIs, <1>5 DEF Chunks
    <3>2. Bytes(Offered.first, Offered.len) = {} BY <3>1 DEF Bytes
    <3> QED BY <1>1, <1>2, <1>3, <1>4, <1>5, <3>2, OrderedAccept
  <2> QED BY <1>6, <2>2, <2>3
<1>12. EndIsLast'
  <2>1. Offered = EOF => Offered.len = 0 BY ChunkIs
  <2>2. ended => Offered.len = 0 BY <1>6, <2>1
  <2>3. ended' => AtEnd'
    BY <1>2, <1>5, <1>6
  <2> QED BY <1>1, <1>3, <1>4, <1>5, <2>2, <2>3, EndAccept
<1> QED BY <1>6, <1>7, <1>8, <1>9, <1>10, <1>11, <1>12 DEF StreamInv

LEMMA PushNotTaken ==
  ASSUME StreamInv, PushRefused, UNCHANGED <<sent, closing, ended>>, UNCHANGED bufReaderVars,
         wcall' = NextCall \/ (WOp = "write" /\ wcall' = None),
         \/ w_bufUsed' = 0
         \/ w_bufUsed' = w_bufUsed /\ WOp # "destroy" /\ WOp' # "write"
  PROVE  StreamInv'
<1>1. /\ Types /\ Numbers /\ WriterAt /\ ReaderAt /\ Held /\ Ordered /\ EndIsLast
  BY DEF StreamInv
<1>2. /\ PCQ!Refuse(Writer) /\ UNCHANGED <<readerVars, allocs, heap>>
      /\ refused' = refused \cup {Offered.buf}
  BY DEF PushRefused, Offered
<1>3. /\ Offered # NoChunk /\ Offered' = NoChunk /\ offer' = [w \in {Writer} |-> offer'[w]]
      /\ UNCHANGED <<behavior, buffer, request, Asked, got>>
  BY <1>1, <1>2, RefuseIs
<1>4. /\ ReaderRests /\ UNCHANGED ReaderSays /\ UNCHANGED <<m_curr, m_off, m_eof>>
      /\ UNCHANGED <<r_first, r_bufUsed, r_pos, rcall, ROp, received, ret, shorts>>
  BY <1>2, ReaderBufRests, BufReaderRests
<1>5. /\ WriterAt' /\ IsCall(wcall') /\ w_bufUsed' \in 0..WBufSize /\ w_bufUsed' <= w_bufUsed
      /\ \/ /\ ~ended /\ allocs > 0
            /\ Offered = Chunk(allocs, sent - w_bufUsed + 1, w_bufUsed)
         \/ Offered = EOF /\ AtEnd'
  BY <1>2, <1>3, PushOver
<1>6. sent \in Nat /\ w_bufUsed \in Nat /\ w_bufUsed <= sent /\ allocs \in Nat
  BY <1>1, NumbersAre
<1>7. Types' BY <1>1, <1>2, <1>3, <1>4, <1>5 DEF Types
<1>8. Numbers'
  <2>1. Offered.buf \in 0..allocs BY <1>5, <1>6, ChunkIs DEF NULL
  <2>2. refused' \subseteq 0..allocs' BY <1>1, <1>2, <2>1 DEF Numbers
  <2> QED BY <1>1, <1>2, <1>4, <1>5, <2>2, NumbersAre DEF Numbers
<1>9. ReaderAt' BY <1>1, <1>2, <1>3, <1>4, ReaderStays
<1>10. Held' BY <1>1, <1>2, <1>3, <1>4, HeldRefuse
<1>11. Ordered'
  <2>1. w_bufUsed' \in Nat /\ sent' \in Nat BY <1>5, <1>6
  <2>2. w_bufUsed' <= w_bufUsed BY <1>5
  <2>3. \A s, w, v \in Nat : w <= v => s - v <= s - w OBVIOUS
  <2>4. sent - w_bufUsed <= sent' - w_bufUsed' BY <1>6, <2>1, <2>2, <2>3
  <2> QED BY <1>1, <1>3, <1>4, <2>1, <2>4, OrderedStays
<1>12. EndIsLast'
  <2>1. ended => AtEnd' BY <1>5
  <2> QED BY <1>1, <1>3, <1>4, <2>1, EndStays
<1> QED BY <1>5, <1>7, <1>8, <1>9, <1>10, <1>11, <1>12 DEF StreamInv

LEMMA PushReturnsKeeps ==
  ASSUME StreamInv, PushReturns
  PROVE  StreamInv'
<1>1. CASE PushTakesEffect /\ ended' = (ended \/ IsEOF(offer[Writer])) /\ Returns
  <2>1. (ended' <=> ended \/ IsEOF(Offered)) /\ ended' \in BOOLEAN BY <1>1, ZenonT(30) DEF Offered
  <2> QED BY <1>1, <2>1, PushAccepted
<1>2. CASE PushRefused /\ Returns /\ UNCHANGED ended
  BY <1>2, PushNotTaken DEF Returns, Flushed
<1> QED BY <1>1, <1>2 DEF PushReturns

LEMMA PushThrowsKeeps ==
  ASSUME StreamInv, PushThrows
  PROVE  StreamInv'
<1>1. /\ PushRefused /\ UNCHANGED <<sent, closing, ended>> /\ UNCHANGED bufReaderVars
      /\ wcall' = IF WOp = "write" THEN None ELSE NextCall
      /\ w_bufUsed' = IF WOp = "destroy" THEN 0 ELSE w_bufUsed
  BY DEF PushThrows, WOp
<1>2. WOp # "write" => NextCall.op # "write"
  BY NoCall DEF NextCall, WOp
<1>3. WOp' # "write" BY <1>1, <1>2, NoCall DEF WOp
<1> QED BY <1>1, <1>3, PushNotTaken
-----------------------------------------------------------------------------
(* And the reader's.                                                       *)
LEMMA ReaderIs ==
  ASSUME Types, Numbers
  PROVE  /\ m_curr \in Chunks /\ m_curr.first \in Nat /\ m_curr.len \in Nat /\ m_off \in Nat
         /\ m_off <= m_curr.len /\ (m_curr.buf = NULL => m_curr.len = 0)
         /\ IsCall(rcall) /\ rcall.len \in Nat /\ rcall.done \in Nat
         /\ RBufSize \in Nat \ {0} /\ Asked \in {"none", "pop"}
BY StreamAssumption DEF Types, Chunks, IsCall, StreamAssumption

LEMMA BytesIs ==
  ASSUME NEW f \in Nat, NEW n \in Nat
  PROVE  \A x : x \in Bytes(f, n) <=> x \in Nat /\ f <= x /\ x < f + n
BY DEF Bytes

(* The first bytes of a stretch are below the rest of it.                  *)
LEMMA Parted ==
  ASSUME NEW f \in Nat, NEW n \in Nat, NEW k \in Nat, k <= n
  PROVE  /\ Bytes(f, k) \cup Bytes(f + k, n - k) = Bytes(f, n)
         /\ Below(Bytes(f, k), Bytes(f + k, n - k))
<1>1. f + k \in Nat /\ n - k \in Nat OBVIOUS
<1>2. \A x : x \in Bytes(f, n) <=> x \in Nat /\ f <= x /\ x < f + n BY BytesIs
<1>3. \A x : x \in Bytes(f, k) <=> x \in Nat /\ f <= x /\ x < f + k BY BytesIs
<1>4. \A x : x \in Bytes(f + k, n - k) <=> x \in Nat /\ f + k <= x /\ x < f + n
  BY <1>1, BytesIs
<1> QED BY <1>2, <1>3, <1>4 DEF Below

LEMMA NoBytes == \A f \in Nat : Bytes(f, 0) = {}
BY BytesIs

(* The queue may say all this of the end when nothing comes out of it.     *)
LEMMA EndQuiet ==
  ASSUME EndIsLast, UNCHANGED <<buffer, ended, m_eof, shorts, closing, WOp>>,
         m_eof => m_curr'.len = 0 /\ r_bufUsed' = 0 /\ rcall'.done = 0,
         ret' = -1 => ret = -1 \/ m_eof
  PROVE  EndIsLast'
BY DEF EndIsLast, AtEnd, EndsOnly, HasEnd, AllEnd

LEMMA CallReadKeeps ==
  ASSUME StreamInv, NEW op \in {"read", "readAll"}, NEW len \in ReadLengths, CallRead(op, len)
  PROVE  StreamInv'
<1>1. /\ Types /\ Numbers /\ WriterAt /\ ReaderAt /\ Held /\ Ordered /\ EndIsLast
  BY DEF StreamInv
<1>2. /\ rcall = None /\ rcall' = Call(op, len)
      /\ UNCHANGED streamVars /\ UNCHANGED writerVars
      /\ UNCHANGED <<r_first, r_bufUsed, r_pos, received, ret, shorts, ended>>
  BY DEF CallRead
<1>3. /\ UNCHANGED <<behavior, buffer, offer, request, readerVars, m_curr, m_off, m_eof,
                     Offered, Asked, allocs, heap, refused>>
      /\ UNCHANGED <<w_bufUsed, wcall, WOp, sent, closing>>
  BY <1>2, StreamsRest, WriterVarsRest
<1>4. len \in Nat /\ len > 0 BY StreamAssumption DEF StreamAssumption
<1>5. /\ IsCall(rcall') /\ ROp = "none" /\ ROp' = op /\ rcall'.len = len /\ rcall'.done = 0
  BY <1>2, <1>4, NewCall, NoCall DEF ROp
<1>6. Types' BY <1>1, <1>2, <1>3, <1>5 DEF Types
<1>7. Numbers' BY <1>1, <1>2, <1>3, <1>4, <1>5, NumbersAre DEF Numbers
<1>8. WriterAt' BY <1>1, <1>3, WriterRests
<1>9. ReaderAt'
  <2>1. Asked = "none" BY <1>1, <1>5, ReaderIs DEF ReaderAt
  <2> QED BY <1>3, <1>5, <2>1 DEF ReaderAt
<1>10. Held' BY <1>1, <1>3, HeldStays
<1>11. Ordered' BY <1>1, <1>2, <1>3, OrderedStill DEF ReaderRests
<1>12. EndIsLast'
  <2>1. m_eof => m_curr'.len = 0 /\ r_bufUsed' = 0 /\ rcall'.done = 0
    BY <1>1, <1>2, <1>3, <1>5 DEF EndIsLast
  <2> QED BY <1>1, <1>2, <1>3, <2>1, EndQuiet
<1> QED BY <1>6, <1>7, <1>8, <1>9, <1>10, <1>11, <1>12 DEF StreamInv

(* What Takes hands to the caller.                                         *)
Stretch(first, n) == [j \in 1..n |-> first + j - 1]
TakenNow == Least(r_bufUsed - r_pos, rcall.len - rcall.done)

LEMMA Handed ==
  ASSUME NEW s \in Seq(Nat), NEW first \in Nat, NEW n \in Nat
  PROVE  s \o Stretch(first, n) \in Seq(Nat) /\ Len(s \o Stretch(first, n)) = Len(s) + n
<1>1. Stretch(first, n) \in Seq(Nat) /\ Len(Stretch(first, n)) = n BY DEF Stretch
<1> QED BY <1>1

LEMMA TakesIs ==
  ASSUME StreamInv, Takes
  PROVE  /\ TakenNow \in Nat /\ TakenNow > 0 /\ TakenNow <= r_bufUsed - r_pos
         /\ TakenNow <= rcall.len - rcall.done
         /\ ROp \in {"read", "readAll"} /\ Asked = "none" /\ ~m_eof
         /\ r_pos' = r_pos + TakenNow
         /\ received' = received \o Stretch(r_first + r_pos, TakenNow)
         /\ received' \in Seq(Nat) /\ Len(received') = Len(received) + TakenNow
         /\ Len(received') < r_first + r_pos + TakenNow
         /\ Len(received') <= sent - w_bufUsed
<1>1. Types /\ Numbers /\ Ordered /\ EndIsLast BY DEF StreamInv
<1>2. /\ ROp \in {"read", "readAll"} /\ Asked = "none" /\ ~(r_pos >= r_bufUsed)
      /\ r_pos' = r_pos + TakenNow
      /\ received' = received \o Stretch(r_first + r_pos, TakenNow)
  BY DEF Takes, InRead, ROp, Asked, Empty, TakenNow, Stretch
<1>3. /\ Len(received) \in Nat /\ sent \in Nat /\ w_bufUsed \in Nat /\ received \in Seq(Nat)
      /\ r_first \in Nat /\ r_bufUsed \in Nat /\ r_pos \in Nat /\ r_pos < r_bufUsed
      /\ rcall.len \in Nat /\ rcall.done \in Nat /\ rcall.done < rcall.len
  BY <1>1, <1>2, NumbersAre, ReaderIs DEF Numbers
<1>4. /\ TakenNow \in Nat /\ TakenNow > 0 /\ TakenNow <= r_bufUsed - r_pos
      /\ TakenNow <= rcall.len - rcall.done
  BY <1>3 DEF TakenNow, Least
<1>5. ~m_eof BY <1>1, <1>3 DEF EndIsLast
<1>6. r_first + r_pos \in Nat BY <1>3
<1>7. received' \in Seq(Nat) /\ Len(received') = Len(received) + TakenNow
  BY <1>2, <1>3, <1>4, <1>6, Handed
<1>8. /\ r_first + r_pos \in InReader
      /\ r_first + r_pos + TakenNow - 1 \in InReader
  <2>1. \A x : x \in InReader <=>
                 x \in Nat /\ r_first + r_pos <= x /\ x < r_first + r_pos + (r_bufUsed - r_pos)
    BY <1>3, <1>6, BytesIs DEF InReader
  <2> QED BY <1>3, <1>4, <2>1
<1>9. /\ r_first + r_pos \in (Len(received) + 1)..(sent - w_bufUsed)
      /\ r_first + r_pos + TakenNow - 1 \in (Len(received) + 1)..(sent - w_bufUsed)
  BY <1>1, <1>8 DEF Ordered
<1>10. Len(received') < r_first + r_pos + TakenNow /\ Len(received') <= sent - w_bufUsed
  <2>1. /\ Len(received) + 1 <= r_first + r_pos
        /\ r_first + r_pos + TakenNow - 1 <= sent - w_bufUsed
    BY <1>9
  <2> HIDE DEF TakenNow
  <2>2. Len(received) + TakenNow < r_first + r_pos + TakenNow BY <1>3, <1>4, <2>1
  <2>3. Len(received) + TakenNow <= sent - w_bufUsed BY <1>3, <1>4, <2>1
  <2> QED BY <1>7, <2>2, <2>3
<1> QED BY <1>2, <1>4, <1>5, <1>7, <1>10

LEMMA TakesKeeps ==
  ASSUME StreamInv, Takes
  PROVE  StreamInv'
<1>1. /\ Types /\ Numbers /\ WriterAt /\ ReaderAt /\ Held /\ Ordered /\ EndIsLast
  BY DEF StreamInv
<1> DEFINE n == TakenNow
<1>2. /\ n \in Nat /\ n > 0 /\ n <= r_bufUsed - r_pos /\ n <= rcall.len - rcall.done
      /\ ROp \in {"read", "readAll"} /\ Asked = "none" /\ ~m_eof
      /\ r_pos' = r_pos + n
      /\ received' \in Seq(Nat) /\ Len(received') = Len(received) + n
      /\ Len(received') < r_first + r_pos + n /\ Len(received') <= sent - w_bufUsed
  BY TakesIs
<1>3. /\ UNCHANGED streamVars /\ UNCHANGED writerVars
      /\ UNCHANGED <<r_first, r_bufUsed, shorts, ended>>
  BY DEF Takes
<1>4. \/ /\ ROp = "readAll" /\ rcall.done + n < rcall.len
         /\ rcall' = [rcall EXCEPT !.done = @ + n] /\ ret' = ret
      \/ rcall' = None /\ ret' = rcall.done + n
  BY DEF Takes, TakenNow, ROp
<1> HIDE DEF n
<1>5. /\ UNCHANGED <<behavior, buffer, offer, request, readerVars, m_curr, m_off, m_eof,
                     Offered, Asked, allocs, heap, refused>>
      /\ UNCHANGED <<w_bufUsed, wcall, WOp, sent, closing>>
  BY <1>3, StreamsRest, WriterVarsRest
<1>6. /\ Len(received) \in Nat /\ sent \in Nat /\ w_bufUsed \in Nat /\ w_bufUsed <= sent
      /\ r_first \in Nat /\ r_bufUsed \in Nat /\ r_pos \in Nat /\ sent <= MaxBytes
      /\ rcall.len \in Nat /\ rcall.done \in Nat /\ IsCall(rcall) /\ MaxBytes \in Nat
      /\ rcall.done <= Len(received) /\ ret \in -1..MaxBytes
  BY <1>1, NumbersAre, ReaderIs, StreamAssumption DEF Numbers, StreamAssumption
<1>7. /\ IsCall(rcall') /\ rcall'.done <= Len(received')
      /\ ROp' \in {"none", "read", "readAll"}
      /\ ROp' \in {"read", "readAll"} => rcall'.done < rcall'.len
      /\ ret' \in -1..MaxBytes /\ (ret' = -1 => ret = -1)
  <2>1. CASE ROp = "readAll" /\ rcall.done + n < rcall.len
             /\ rcall' = [rcall EXCEPT !.done = @ + n] /\ ret' = ret
    <3>1. /\ rcall' = [op |-> rcall.op, len |-> rcall.len, done |-> rcall.done + n]
      BY <1>6, <2>1 DEF IsCall
    <3>2. rcall'.op = rcall.op /\ rcall'.len = rcall.len /\ rcall'.done = rcall.done + n
      BY <3>1
    <3>3. rcall.done + n \in Nat /\ rcall.done + n <= Len(received) + n
      <4>1. n \in Nat BY <1>2
      <4>2. rcall.done \in Nat /\ Len(received) \in Nat /\ rcall.done <= Len(received) BY <1>6
      <4> QED BY <4>1, <4>2
    <3>4. IsCall(rcall') BY <1>6, <3>1, <3>2, <3>3 DEF IsCall
    <3>5. ROp' = "readAll" BY <2>1, <3>2 DEF ROp
    <3>6. rcall'.done <= Len(received') /\ rcall'.done < rcall'.len
      BY <1>2, <2>1, <3>2, <3>3
    <3> QED BY <1>6, <2>1, <3>4, <3>5, <3>6
  <2>2. CASE rcall' = None /\ ret' = rcall.done + n
    <3>1. IsCall(rcall') /\ ROp' = "none" /\ rcall'.done = 0 BY <2>2, NoCall DEF ROp
    <3>2. ret' \in 0..MaxBytes
      <4>1. n \in Nat /\ Len(received) + n <= sent - w_bufUsed BY <1>2
      <4>2. /\ rcall.done \in Nat /\ Len(received) \in Nat /\ rcall.done <= Len(received)
            /\ sent \in Nat /\ w_bufUsed \in Nat /\ sent <= MaxBytes /\ MaxBytes \in Nat
        BY <1>6
      <4>3. rcall.done + n \in 0..MaxBytes BY <4>1, <4>2
      <4> QED BY <2>2, <4>3
    <3> QED BY <1>2, <1>6, <3>1, <3>2
  <2> QED BY <1>4, <2>1, <2>2
<1>8. Types' BY <1>1, <1>3, <1>5, <1>7 DEF Types
<1>9. Numbers'
  <2>1. r_pos' \in 0..r_bufUsed' /\ Len(received') <= sent' - w_bufUsed'
    BY <1>2, <1>3, <1>5, <1>6
  <2> QED BY <1>1, <1>2, <1>3, <1>5, <1>7, <2>1 DEF Numbers
<1>10. WriterAt' BY <1>1, <1>5, WriterRests
<1>11. ReaderAt' BY <1>2, <1>5, <1>7 DEF ReaderAt
<1>12. Held' BY <1>1, <1>5, HeldStays
<1>13. Ordered'
  <2>1. \A x : x \in InReader <=>
                 x \in Nat /\ r_first + r_pos <= x /\ x < r_first + r_pos + (r_bufUsed - r_pos)
    <3>1. r_first + r_pos \in Nat /\ r_bufUsed - r_pos \in Nat BY <1>2, <1>6
    <3> QED BY <3>1, BytesIs DEF InReader
  <2>2. \A x : x \in InReader' <=>
                 x \in Nat /\ r_first + r_pos + n <= x /\ x < r_first + r_pos + (r_bufUsed - r_pos)
    <3>1. r_first' + r_pos' = r_first + r_pos + n /\ r_bufUsed' - r_pos' = r_bufUsed - r_pos - n
      BY <1>2, <1>3, <1>6
    <3>2. InReader' = Bytes(r_first + r_pos + n, r_bufUsed - r_pos - n) BY <3>1 DEF InReader
    <3>3. r_first + r_pos + n \in Nat /\ r_bufUsed - r_pos - n \in Nat BY <1>2, <1>6
    <3> QED BY <1>2, <1>6, <3>2, <3>3, BytesIs
  <2>3. InCurr' = InCurr BY <1>5 DEF InCurr
  <2>4. InReader' \subseteq InReader BY <1>2, <1>6, <2>1, <2>2
  <2>5. Below(InReader, InCurr)' BY <1>1, <2>3, <2>4 DEF Ordered, Below
  <2>6. \A x \in InReader' : x > Len(received') BY <1>2, <1>6, <2>2
  <2>7. \A x \in InCurr \cup Queued : x \in Nat /\ x > Len(received')
    <3>1. r_first + r_pos + n - 1 \in InReader
      <4>1. n \in Nat /\ n > 0 /\ n <= r_bufUsed - r_pos BY <1>2
      <4>2. r_first \in Nat /\ r_bufUsed \in Nat /\ r_pos \in Nat BY <1>6
      <4> QED BY <2>1, <4>1, <4>2
    <3>2. \A x \in InCurr \cup Queued : r_first + r_pos + n - 1 < x
      <4>1. \A x \in InCurr : r_first + r_pos + n - 1 < x BY <1>1, <3>1 DEF Ordered, Below
      <4>2. \A i \in DOMAIN buffer : \A x \in Part(i) : r_first + r_pos + n - 1 < x
        BY <1>1, <3>1 DEF Ordered, Below
      <4>3. \A x : x \in Queued <=> \E i \in DOMAIN buffer : x \in Part(i) BY <1>1, QueuedIs
      <4> QED BY <4>1, <4>2, <4>3
    <3>3. \A x \in InCurr \cup Queued : x \in (Len(received) + 1)..(sent - w_bufUsed)
      BY <1>1 DEF Ordered
    <3>4. Len(received') = Len(received) + n /\ Len(received') < r_first + r_pos + n BY <1>2
    <3>5. n \in Nat /\ Len(received) \in Nat /\ r_first \in Nat /\ r_pos \in Nat BY <1>2, <1>6
    <3> QED BY <3>2, <3>3, <3>4, <3>5
  <2>8. Len(received') \in Nat /\ sent - w_bufUsed \in Int BY <1>2, <1>6
  <2>9. Queued' = Queued BY <1>5 DEF Queued
  <2> QED BY <1>1, <1>5, <2>3, <2>4, <2>5, <2>6, <2>7, <2>8, <2>9, OrderedWithin
<1>14. EndIsLast' BY <1>1, <1>2, <1>3, <1>5, <1>7, EndQuiet
<1> QED BY <1>8, <1>9, <1>10, <1>11, <1>12, <1>13, <1>14 DEF StreamInv

(* The reader's buffer is empty and stays so.                              *)
LEMMA BufferEmpties ==
  ASSUME Numbers, r_pos >= r_bufUsed \/ r_bufUsed = 0
  PROVE  InReader = {}
<1>1. r_first \in Nat /\ r_bufUsed \in Nat /\ r_pos \in Nat /\ r_pos <= r_bufUsed
  BY NumbersAre
<1>2. r_first + r_pos \in Nat /\ r_bufUsed - r_pos = 0 BY <1>1
<1> QED BY <1>2, NoBytes DEF InReader

LEMMA BufferIsEmptied ==
  ASSUME Numbers, r_bufUsed' = 0, r_pos' = 0, UNCHANGED r_first
  PROVE  InReader' = {}
<1>1. r_first' + r_pos' \in Nat /\ r_bufUsed' - r_pos' = 0 BY NumbersAre
<1> QED BY <1>1, NoBytes DEF InReader

LEMMA ChunkUsed ==
  ASSUME Types, m_off = m_curr.len
  PROVE  InCurr = {}
<1>1. m_curr.first + m_off \in Nat /\ m_curr.len - m_off = 0
  BY DEF Types, Chunks
<1> QED BY <1>1, NoBytes DEF InCurr

(* And the reader has less than before.                                    *)
LEMMA OrderedLess ==
  ASSUME Numbers, Ordered, UNCHANGED <<buffer, sent, w_bufUsed, received>>,
         InReader' = {}, InCurr' \subseteq InCurr
  PROVE  Ordered'
<1>1. /\ Len(received') \in Nat /\ sent - w_bufUsed \in Int
      /\ \A x \in (Len(received) + 1)..(sent - w_bufUsed) : x > Len(received')
  BY NumbersAre
<1>2. \A x \in InReader \cup InCurr \cup Queued : x > Len(received') BY <1>1 DEF Ordered
<1>3. Below(InReader, InCurr)' BY DEF Below
<1> QED BY <1>1, <1>2, <1>3, OrderedWithin

LEMMA RefillCopiesKeeps ==
  ASSUME StreamInv, RefillCopies
  PROVE  StreamInv'
<1>1. /\ Types /\ Numbers /\ WriterAt /\ ReaderAt /\ Held /\ Ordered /\ EndIsLast
  BY DEF StreamInv
<1> DEFINE n == Least(m_curr.len - m_off, RBufSize)
<1>2. /\ ROp \in {"read", "readAll"} /\ Asked = "none" /\ r_pos >= r_bufUsed
      /\ ~m_eof /\ ~(m_off >= m_curr.len)
  BY DEF RefillCopies, ReadCopies, InRead, ROp, Asked, Empty, Exhausted
<1>3. /\ UNCHANGED <<behavior, buffer, offer, request, got, m_curr, m_eof, allocs, heap, refused>>
      /\ UNCHANGED writerVars /\ UNCHANGED <<rcall, received, ret, shorts, ended>>
  BY DEF RefillCopies, ReadCopies
<1>4. /\ m_off' = m_off + n /\ r_first' = m_curr.first + m_off
      /\ r_bufUsed' = m_off' - m_off /\ r_pos' = 0
  BY DEF RefillCopies, ReadCopies
<1>5. UNCHANGED <<Offered, Asked>> BY <1>3, EndsStay
<1>6. UNCHANGED <<w_bufUsed, wcall, WOp, sent, closing>> BY <1>3, WriterVarsRest
<1>7. /\ m_curr.first \in Nat /\ m_curr.len \in Nat /\ m_off \in Nat
      /\ m_off <= m_curr.len /\ RBufSize \in Nat
  BY <1>1, ReaderIs
<1>8. n \in Nat /\ n <= m_curr.len - m_off /\ n <= RBufSize
  <2>1. m_curr.len - m_off \in Nat BY <1>7
  <2> QED BY <1>7, <2>1, LeastIs
<1> HIDE DEF n
<1>9. r_bufUsed' = n /\ r_bufUsed' \in 0..RBufSize /\ r_first' \in Nat /\ r_pos' \in 0..r_bufUsed'
      /\ m_off' \in 0..m_curr'.len
  BY <1>3, <1>4, <1>7, <1>8
<1>10. Types' BY <1>1, <1>3, <1>5, <1>6, <1>9 DEF Types
<1>11. Numbers'
  <2>1. ROp' = ROp BY <1>3 DEF ROp
  <2> QED BY <1>1, <1>3, <1>6, <1>9, <2>1 DEF Numbers
<1>12. WriterAt' BY <1>1, <1>3, <1>5, <1>6, WriterRests
<1>13. ReaderAt' BY <1>2, <1>3, <1>5 DEF ReaderAt, ROp
<1>14. Held' BY <1>1, <1>3, <1>5, HeldStays
<1>15. Ordered'
  <2>1. /\ InReader' = Bytes(m_curr.first + m_off, n)
        /\ InCurr' = Bytes(m_curr.first + m_off + n, m_curr.len - m_off - n)
    <3>1. /\ r_first' + r_pos' = m_curr.first + m_off /\ r_bufUsed' - r_pos' = n
          /\ m_curr'.first + m_off' = m_curr.first + m_off + n
          /\ m_curr'.len - m_off' = m_curr.len - m_off - n
      BY <1>3, <1>4, <1>7, <1>8
    <3> QED BY <3>1 DEF InReader, InCurr
  <2>2. InReader' \cup InCurr' = InCurr /\ Below(InReader', InCurr')
    <3>1. m_curr.first + m_off \in Nat /\ m_curr.len - m_off \in Nat BY <1>7
    <3>2. /\ Bytes(m_curr.first + m_off, n) \cup Bytes(m_curr.first + m_off + n, m_curr.len - m_off - n)
             = Bytes(m_curr.first + m_off, m_curr.len - m_off)
          /\ Below(Bytes(m_curr.first + m_off, n),
                   Bytes(m_curr.first + m_off + n, m_curr.len - m_off - n))
      BY <1>8, <3>1, Parted
    <3> QED BY <2>1, <3>2 DEF InCurr
  <2>3. Below(InReader, InCurr)' BY <2>2 DEF Below
  <2>4. /\ Len(received') \in Nat /\ sent - w_bufUsed \in Int
        /\ \A x \in (Len(received) + 1)..(sent - w_bufUsed) : x > Len(received')
    BY <1>1, <1>3, NumbersAre
  <2>5. \A x \in InReader \cup InCurr \cup Queued : x > Len(received')
    BY <1>1, <2>4 DEF Ordered
  <2> QED BY <1>1, <1>3, <1>6, <2>2, <2>3, <2>4, <2>5, OrderedWithin
<1>16. EndIsLast' BY <1>1, <1>2, <1>3, <1>6, EndQuiet
<1> QED BY <1>10, <1>11, <1>12, <1>13, <1>14, <1>15, <1>16 DEF StreamInv

LEMMA RefillPopsKeeps ==
  ASSUME StreamInv, RefillPops
  PROVE  StreamInv'
<1>1. /\ Types /\ Numbers /\ WriterAt /\ ReaderAt /\ Held /\ Ordered /\ EndIsLast
  BY DEF StreamInv
<1>2. /\ ROp \in {"read", "readAll"} /\ ~m_eof /\ (m_curr.buf = NULL \/ m_off >= m_curr.len)
  BY DEF RefillPops, ReadPops, InRead, ROp, Exhausted
<1>3. /\ PCQ!Request(Reader, "pop") /\ heap' = heap \ {m_curr.buf}
      /\ UNCHANGED <<readerVars, allocs, refused>> /\ UNCHANGED writerVars
      /\ UNCHANGED <<r_first, rcall, received, ret, shorts, ended>>
  BY DEF RefillPops, ReadPops, ReadDeletes
<1>4. r_bufUsed' = 0 /\ r_pos' = 0 BY DEF RefillPops
<1>5. /\ Asked = "none" /\ Asked' = "pop" /\ request' = [r \in {Reader} |-> request'[r]]
      /\ UNCHANGED <<behavior, buffer, offer, Offered, got>>
  BY <1>1, <1>3, RequestIs
<1>6. UNCHANGED <<w_bufUsed, wcall, WOp, sent, closing>> BY <1>3, WriterVarsRest
<1>7. UNCHANGED <<m_curr, m_off, m_eof, ROp>> BY <1>3 DEF readerVars, ROp
<1>8. m_off = m_curr.len BY <1>1, <1>2, ReaderIs
<1>9. Types' BY <1>1, <1>3, <1>5, <1>6, <1>7 DEF Types
<1>10. Numbers'
  <2>1. r_bufUsed' \in 0..RBufSize /\ r_pos' \in 0..r_bufUsed'
    BY <1>4, StreamAssumption DEF StreamAssumption
  <2>2. heap' \subseteq 1..allocs' BY <1>1, <1>3 DEF Numbers
  <2> QED BY <1>1, <1>3, <1>6, <1>7, <2>1, <2>2 DEF Numbers
<1>11. WriterAt' BY <1>1, <1>3, <1>5, <1>6, WriterRests
<1>12. ReaderAt' BY <1>2, <1>4, <1>5, <1>7, <1>8 DEF ReaderAt
<1>13. Held' BY <1>1, <1>3, <1>5, HeldDelete
<1>14. Ordered'
  <2>1. InReader' = {} BY <1>1, <1>3, <1>4, BufferIsEmptied
  <2>2. InCurr' = InCurr BY <1>7 DEF InCurr
  <2> QED BY <1>1, <1>3, <1>5, <1>6, <2>1, <2>2, OrderedLess
<1>15. EndIsLast' BY <1>1, <1>2, <1>3, <1>5, <1>6, <1>7, EndQuiet
<1> QED BY <1>9, <1>10, <1>11, <1>12, <1>13, <1>14, <1>15 DEF StreamInv

(* What a refill does with the chunk it popped.                            *)
Popped == Least(Head(buffer).len, RBufSize)

LEMMA RefillGetsIs ==
  ASSUME StreamInv, RefillGets
  PROVE  /\ ROp \in {"read", "readAll"} /\ ~m_eof /\ shorts = 0 /\ ret # -1
         /\ InReader = {} /\ InCurr = {}
         /\ Asked = "pop" /\ Asked' = "none" /\ request' = [r \in {Reader} |-> request'[r]]
         /\ buffer # <<>> /\ buffer' = Tail(buffer) /\ Head(buffer) = buffer[1]
         /\ m_curr' = Head(buffer) /\ Head(buffer) \in Chunks
         /\ Popped \in Nat /\ Popped <= Head(buffer).len /\ Popped <= RBufSize
         /\ (Popped = 0 <=> Head(buffer).len = 0) /\ (m_eof' <=> Popped = 0)
         /\ m_eof' \in BOOLEAN
         /\ m_off' = Popped /\ r_first' = Head(buffer).first /\ r_bufUsed' = Popped /\ r_pos' = 0
         /\ UNCHANGED <<behavior, offer, Offered, allocs, heap, refused, received, ended>>
         /\ UNCHANGED writerVars
<1>1. /\ Types /\ Numbers /\ ReaderAt /\ EndIsLast BY DEF StreamInv
<1>2. /\ ROp \in {"read", "readAll"} /\ PCQ!Deliver(Reader)
      /\ m_curr' = Head(buffer) /\ m_eof' = IsEOF(Head(buffer)) /\ m_off' = Popped
      /\ r_first' = Head(buffer).first /\ r_bufUsed' = Popped /\ r_pos' = 0
      /\ UNCHANGED <<allocs, heap, refused, ended>> /\ UNCHANGED writerVars
      /\ UNCHANGED received
  BY DEF RefillGets, ReadGets, ROp, OffsetAfter, Popped, Ends
<1>3. /\ Asked = "pop" /\ Asked' = "none" /\ request' = [r \in {Reader} |-> request'[r]]
      /\ buffer # <<>> /\ buffer' = Tail(buffer)
      /\ UNCHANGED <<behavior, offer, Offered>>
  BY <1>1, <1>2, DeliverIs
<1>4. Head(buffer) = buffer[1] /\ Head(buffer) \in Chunks BY <1>1, <1>3, Taken DEF Types
<1>5. Head(buffer).len \in Nat /\ RBufSize \in Nat \ {0}
  BY <1>4, StreamAssumption DEF Chunks, StreamAssumption
<1>6. /\ Popped \in Nat /\ Popped <= Head(buffer).len /\ Popped <= RBufSize
      /\ (Popped = 0 <=> Head(buffer).len = 0)
  BY <1>5 DEF Popped, Least
<1>7. (m_eof' <=> Popped = 0) /\ m_eof' \in BOOLEAN
  <2>1. m_eof' <=> Head(buffer).len <= 0 BY <1>2 DEF IsEOF
  <2>2. m_eof' \in BOOLEAN BY <1>2, <1>5 DEF IsEOF
  <2> QED BY <1>5, <1>6, <2>1, <2>2
<1>8. ~m_eof /\ m_off = m_curr.len /\ r_bufUsed = 0 BY <1>1, <1>2, <1>3 DEF ReaderAt
<1>9. shorts = 0 /\ ret # -1 BY <1>1, <1>8 DEF Numbers, EndIsLast
<1>10. InReader = {} /\ InCurr = {} BY <1>1, <1>8, BufferEmpties, ChunkUsed
<1> QED BY <1>2, <1>3, <1>4, <1>6, <1>7, <1>8, <1>9, <1>10

LEMMA RefillGetsSays ==
  ASSUME StreamInv, RefillGets
  PROVE  \/ /\ Popped = 0 /\ rcall' = None /\ shorts' = 1 /\ ret' \in 0..MaxBytes
         \/ /\ Popped # 0 /\ UNCHANGED <<rcall, ret, shorts>>
<1>1. shorts = 0 /\ r_bufUsed' = Popped BY RefillGetsIs
<1>2. Types /\ Numbers BY DEF StreamInv
<1>3. CASE Popped = 0
  <2>1. Ends(0) BY <1>1, <1>3 DEF RefillGets
  <2>2. shorts' = 1 /\ rcall' = None BY <1>1, <2>1 DEF Ends
  <2>3. ret' \in {rcall.done, 0} BY <2>1 DEF Ends
  <2>4. rcall.done \in Nat /\ rcall.done <= MaxBytes /\ MaxBytes \in Nat
    BY <1>2, NumbersAre, ReaderIs, StreamAssumption DEF Numbers, StreamAssumption
  <2>5. ret' \in 0..MaxBytes BY <2>3, <2>4
  <2> QED BY <1>3, <2>2, <2>5
<1>4. CASE Popped # 0
  BY <1>1, <1>4 DEF RefillGets
<1> QED BY <1>3, <1>4

LEMMA RefillGetsKeeps ==
  ASSUME StreamInv, RefillGets
  PROVE  StreamInv'
<1>1. /\ Types /\ Numbers /\ WriterAt /\ ReaderAt /\ Held /\ Ordered /\ EndIsLast
  BY DEF StreamInv
<1>2. /\ ROp \in {"read", "readAll"} /\ ~m_eof /\ shorts = 0 /\ ret # -1
      /\ InReader = {} /\ InCurr = {}
      /\ Asked = "pop" /\ Asked' = "none" /\ request' = [r \in {Reader} |-> request'[r]]
      /\ buffer # <<>> /\ buffer' = Tail(buffer) /\ Head(buffer) = buffer[1]
      /\ m_curr' = Head(buffer) /\ Head(buffer) \in Chunks
  BY RefillGetsIs
<1>3. /\ Popped \in Nat /\ Popped <= Head(buffer).len /\ Popped <= RBufSize
      /\ (Popped = 0 <=> Head(buffer).len = 0) /\ (m_eof' <=> Popped = 0)
      /\ m_eof' \in BOOLEAN
      /\ m_off' = Popped /\ r_first' = Head(buffer).first /\ r_bufUsed' = Popped /\ r_pos' = 0
  BY RefillGetsIs
<1>4. /\ UNCHANGED <<behavior, offer, Offered, allocs, heap, refused, received, ended>>
      /\ UNCHANGED writerVars
  BY RefillGetsIs
<1>5. UNCHANGED <<w_bufUsed, wcall, WOp, sent, closing>> BY <1>4, WriterVarsRest
<1>6. \/ /\ Popped = 0 /\ rcall' = None /\ shorts' = 1 /\ ret' \in 0..MaxBytes
      \/ /\ Popped # 0 /\ UNCHANGED <<rcall, ret, shorts>>
  BY RefillGetsSays
<1>7. Head(buffer).first \in Nat /\ Head(buffer).len \in Nat BY <1>2 DEF Chunks
<1>8. /\ IsCall(rcall') /\ rcall'.done <= Len(received')
      /\ ROp' \in {"none", "read", "readAll"}
      /\ (ROp' \in {"read", "readAll"} => rcall'.done < rcall'.len)
  <2>1. CASE Popped = 0 BY <1>1, <1>4, <1>6, <2>1, NoCall, NumbersAre DEF ROp
  <2>2. CASE Popped # 0 BY <1>1, <1>2, <1>4, <1>6, <2>2, ReaderIs DEF ROp, Numbers
  <2> QED BY <2>1, <2>2
<1>9. Types'
  <2>1. buffer' \in Seq(Chunks) BY <1>1, <1>2, Taken DEF Types
  <2>2. m_curr' \in Chunks /\ m_off' \in 0..m_curr'.len BY <1>2, <1>3, <1>7
  <2> QED BY <1>1, <1>2, <1>3, <1>4, <1>5, <1>8, <2>1, <2>2 DEF Types
<1>10. Numbers'
  <2>1. r_first' \in Nat /\ r_bufUsed' \in 0..RBufSize /\ r_pos' \in 0..r_bufUsed'
    BY <1>3, <1>7, StreamAssumption DEF StreamAssumption
  <2>2. shorts' \in {0, 1} BY <1>2, <1>6
  <2>3. ret' \in -1..MaxBytes
    <3>1. MaxBytes \in Nat /\ ret \in -1..MaxBytes
      BY <1>1, StreamAssumption DEF Numbers, StreamAssumption
    <3>2. ret' = ret \/ ret' \in 0..MaxBytes BY <1>6
    <3> QED BY <3>1, <3>2
  <2> QED BY <1>1, <1>4, <1>5, <1>8, <2>1, <2>2, <2>3 DEF Numbers
<1>11. WriterAt' BY <1>1, <1>4, <1>5, WriterRests
<1>12. ReaderAt' BY <1>2, <1>8 DEF ReaderAt
<1>13. Held' BY <1>1, <1>2, <1>4, HeldGet
<1>14. Ordered'
  <2>1. InReader' = Bytes(Head(buffer).first, Popped)
    <3>1. r_first' + r_pos' = Head(buffer).first /\ r_bufUsed' - r_pos' = Popped
      BY <1>3, <1>7
    <3> QED BY <3>1 DEF InReader
  <2>2. InCurr' = Bytes(Head(buffer).first + Popped, Head(buffer).len - Popped)
    BY <1>2, <1>3 DEF InCurr
  <2>3. InReader' \cup InCurr' = Part(1) /\ Below(InReader', InCurr')
    BY <1>2, <1>3, <1>7, <2>1, <2>2, Parted DEF Part
  <2>4. Below(InReader, InCurr)' BY <2>3 DEF Below
  <2> QED BY <1>1, <1>2, <1>4, <1>5, <2>3, <2>4, OrderedGet
<1>15. EndIsLast'
  <2>1. /\ EndsOnly(buffer)' /\ (HasEnd(buffer)' => ended')
        /\ Head(buffer).len = 0 => ended /\ AllEnd(buffer)'
    BY <1>1, <1>2, <1>4, EndTaken
  <2>2. ended' => AtEnd' BY <1>1, <1>4, <1>5 DEF EndIsLast, AtEnd
  <2>3. CASE Popped = 0
    <3>1. m_eof' /\ m_curr'.len = 0 /\ r_bufUsed' = 0 BY <1>2, <1>3, <2>3
    <3>2. rcall'.done = 0 /\ shorts' = 1 BY <1>6, <2>3, NoCall
    <3>3. ended' /\ AllEnd(buffer)' BY <1>3, <1>4, <2>1, <2>3
    <3> QED BY <2>1, <2>2, <3>1, <3>2, <3>3 DEF EndIsLast
  <2>4. CASE Popped # 0
    <3>1. ~m_eof' /\ shorts' # 1 /\ ret' # -1 BY <1>2, <1>3, <1>6, <2>4
    <3> QED BY <2>1, <2>2, <3>1 DEF EndIsLast
  <2> QED BY <2>3, <2>4
<1> QED BY <1>9, <1>10, <1>11, <1>12, <1>13, <1>14, <1>15 DEF StreamInv

LEMMA RefillFailsKeeps ==
  ASSUME StreamInv, RefillFails
  PROVE  StreamInv'
<1>1. /\ Types /\ Numbers /\ WriterAt /\ ReaderAt /\ Held /\ Ordered /\ EndIsLast
  BY DEF StreamInv
<1>2. /\ ROp \in {"read", "readAll"} /\ Asked = "none" /\ m_eof
      /\ r_bufUsed' = 0 /\ r_pos' = 0 /\ Ends(-1)
      /\ UNCHANGED streamVars /\ UNCHANGED writerVars /\ UNCHANGED <<r_first, ended>>
  BY DEF RefillFails, InRead, ROp, Asked
<1>3. /\ UNCHANGED <<behavior, buffer, offer, request, readerVars, m_curr, m_off, m_eof,
                     Offered, Asked, allocs, heap, refused>>
      /\ UNCHANGED <<w_bufUsed, wcall, WOp, sent, closing>>
  BY <1>2, StreamsRest, WriterVarsRest
<1>4. rcall.done = 0 /\ m_curr.len = 0 /\ shorts = 1 BY <1>1, <1>2 DEF EndIsLast
<1>5. rcall' = None /\ ret' = -1 /\ UNCHANGED <<received, shorts>> BY <1>2, <1>4 DEF Ends
<1>6. IsCall(rcall') /\ ROp' = "none" /\ rcall'.done = 0 BY <1>5, NoCall DEF ROp
<1>7. Types' BY <1>1, <1>2, <1>3, <1>6 DEF Types
<1>8. Numbers'
  <2>1. r_bufUsed' \in 0..RBufSize /\ r_pos' \in 0..r_bufUsed' /\ ret' \in -1..MaxBytes
    BY <1>2, <1>5, StreamAssumption DEF StreamAssumption
  <2>2. rcall'.done <= Len(received') BY <1>1, <1>5, <1>6, NumbersAre
  <2> QED BY <1>1, <1>2, <1>3, <1>5, <1>6, <2>1, <2>2 DEF Numbers
<1>9. WriterAt' BY <1>1, <1>3, WriterRests
<1>10. ReaderAt' BY <1>2, <1>3, <1>6 DEF ReaderAt
<1>11. Held' BY <1>1, <1>3, HeldStays
<1>12. Ordered'
  <2>1. InReader' = {} BY <1>1, <1>2, BufferIsEmptied
  <2>2. InCurr' = InCurr BY <1>3 DEF InCurr
  <2> QED BY <1>1, <1>3, <1>5, <2>1, <2>2, OrderedLess
<1>13. EndIsLast' BY <1>1, <1>2, <1>3, <1>4, <1>5, <1>6, EndQuiet
<1> QED BY <1>7, <1>8, <1>9, <1>10, <1>11, <1>12, <1>13 DEF StreamInv

LEMMA CallDestroyReaderKeeps ==
  ASSUME StreamInv, CallDestroyReader
  PROVE  StreamInv'
<1>1. /\ Types /\ Numbers /\ WriterAt /\ ReaderAt /\ Held /\ Ordered /\ EndIsLast
  BY DEF StreamInv
<1>2. /\ rcall = None /\ rcall' = Call("drain", 0) /\ r_bufUsed' = 0 /\ r_pos' = 0
      /\ heap' = heap \ {m_curr.buf} /\ m_curr' = EOF /\ m_off' = 0
      /\ UNCHANGED <<behavior, buffer, offer, request, got, m_eof, allocs, refused>>
      /\ UNCHANGED writerVars /\ UNCHANGED <<r_first, received, ret, shorts, ended>>
  BY DEF CallDestroyReader, DeleteCurr
<1>3. UNCHANGED <<Offered, Asked>> BY <1>2, EndsStay
<1>4. UNCHANGED <<w_bufUsed, wcall, WOp, sent, closing>> BY <1>2, WriterVarsRest
<1>5. IsCall(rcall') /\ ROp' = "drain" /\ rcall'.done = 0 /\ ROp = "none"
  BY <1>2, NewCall, NoCall DEF ROp
<1>6. Asked = "none" BY <1>1, <1>5, ReaderIs DEF ReaderAt
<1>7. m_curr' \in Chunks /\ m_curr'.len = 0 /\ m_off' \in 0..m_curr'.len
  BY <1>2, ChunkIs
<1>8. Types' BY <1>1, <1>2, <1>3, <1>4, <1>5, <1>7 DEF Types
<1>9. Numbers'
  <2>1. r_bufUsed' \in 0..RBufSize /\ r_pos' \in 0..r_bufUsed'
    BY <1>2, StreamAssumption DEF StreamAssumption
  <2>2. rcall'.done <= Len(received') BY <1>1, <1>2, <1>5, NumbersAre
  <2>3. heap' \subseteq 1..allocs' BY <1>1, <1>2 DEF Numbers
  <2> QED BY <1>1, <1>2, <1>4, <1>5, <2>1, <2>2, <2>3 DEF Numbers
<1>10. WriterAt' BY <1>1, <1>2, <1>3, <1>4, WriterRests
<1>11. ReaderAt' BY <1>2, <1>3, <1>5, <1>6 DEF ReaderAt
<1>12. Held' BY <1>1, <1>2, <1>3, <1>6, HeldDelete
<1>13. Ordered'
  <2>1. InReader' = {} BY <1>1, <1>2, BufferIsEmptied
  <2>2. InCurr' = {}
    <3>1. m_curr'.first + m_off' \in Nat /\ m_curr'.len - m_off' = 0 BY <1>2, <1>7 DEF Chunks
    <3> QED BY <3>1, NoBytes DEF InCurr
  <2> QED BY <1>1, <1>2, <1>4, <2>1, <2>2, OrderedLess
<1>14. EndIsLast' BY <1>1, <1>2, <1>4, <1>5, <1>7, EndQuiet
<1> QED BY <1>8, <1>9, <1>10, <1>11, <1>12, <1>13, <1>14 DEF StreamInv

(* The reader's end is going, with nothing in its hands.                   *)
LEMMA DrainsHas ==
  ASSUME StreamInv, Drains
  PROVE  /\ ROp = "drain" /\ m_curr = EOF /\ m_off = 0 /\ r_bufUsed = 0
         /\ InReader = {} /\ InCurr = {}
         /\ UNCHANGED writerVars
         /\ UNCHANGED <<r_first, r_bufUsed, r_pos, received, ret, shorts, ended>>
<1>1. Types /\ Numbers /\ ReaderAt BY DEF StreamInv
<1>2. /\ ROp = "drain" /\ UNCHANGED writerVars
      /\ UNCHANGED <<r_first, r_bufUsed, r_pos, received, ret, shorts, ended>>
  BY DEF Drains, ROp
<1>3. m_curr = EOF /\ m_off = 0 /\ r_bufUsed = 0 BY <1>1, <1>2 DEF ReaderAt
<1>4. m_curr.len = 0 BY <1>3, ChunkIs
<1>5. InReader = {} /\ InCurr = {} BY <1>1, <1>3, <1>4, BufferEmpties, ChunkUsed
<1> QED BY <1>2, <1>3, <1>5

LEMMA DrainsKeeps ==
  ASSUME StreamInv, Drains
  PROVE  StreamInv'
<1>1. /\ Types /\ Numbers /\ WriterAt /\ ReaderAt /\ Held /\ Ordered /\ EndIsLast
  BY DEF StreamInv
<1>2. /\ ROp = "drain" /\ m_curr = EOF /\ m_off = 0 /\ r_bufUsed = 0
      /\ InReader = {} /\ InCurr = {}
      /\ UNCHANGED writerVars
      /\ UNCHANGED <<r_first, r_bufUsed, r_pos, received, ret, shorts, ended>>
  BY DrainsHas
<1>3. UNCHANGED <<w_bufUsed, wcall, WOp, sent, closing>> BY <1>2, WriterVarsRest
<1>4. m_eof => m_curr.len = 0 /\ r_bufUsed = 0 /\ rcall.done = 0 BY <1>1 DEF EndIsLast
<1>5. CASE request[Reader] = "none" /\ DrainPops /\ UNCHANGED rcall
  <2>1. /\ PCQ!Request(Reader, "pop") /\ UNCHANGED <<readerVars, allocs, heap, refused>>
        /\ UNCHANGED <<rcall, ROp>>
    BY <1>5 DEF DrainPops, ROp
  <2>2. /\ Asked' = "pop" /\ request' = [r \in {Reader} |-> request'[r]]
        /\ UNCHANGED <<behavior, buffer, offer, Offered, got>>
    BY <1>1, <2>1, RequestIs
  <2>3. UNCHANGED <<m_curr, m_off, m_eof>> BY <2>1 DEF readerVars
  <2>4. Types' BY <1>1, <1>2, <1>3, <2>1, <2>2, <2>3 DEF Types
  <2>5. Numbers' BY <1>1, <1>2, <1>3, <2>1 DEF Numbers
  <2>6. WriterAt' BY <1>1, <1>3, <2>1, <2>2, WriterRests
  <2>7. ReaderAt' BY <1>2, <2>1, <2>2, <2>3 DEF ReaderAt
  <2>8. Held' BY <1>1, <1>2, <2>1, <2>2, <2>3, HeldAsk
  <2>9. Ordered' BY <1>1, <1>2, <1>3, <2>2, <2>3, OrderedStill DEF ReaderRests
  <2>10. EndIsLast' BY <1>1, <1>2, <1>3, <1>4, <2>1, <2>2, <2>3, EndQuiet
  <2> QED BY <2>4, <2>5, <2>6, <2>7, <2>8, <2>9, <2>10 DEF StreamInv
<1>6. CASE DrainDeletes /\ UNCHANGED rcall
  <2>1. /\ PCQ!Deliver(Reader) /\ heap' = heap \ {Head(buffer).buf}
        /\ UNCHANGED <<readerVars, allocs, refused>> /\ UNCHANGED <<rcall, ROp>>
    BY <1>6 DEF DrainDeletes, ROp
  <2>2. /\ Asked' = "none" /\ request' = [r \in {Reader} |-> request'[r]]
        /\ buffer # <<>> /\ buffer' = Tail(buffer)
        /\ UNCHANGED <<behavior, offer, Offered>>
    BY <1>1, <2>1, DeliverIs
  <2>3. UNCHANGED <<m_curr, m_off, m_eof>> BY <2>1 DEF readerVars
  <2>4. buffer' \in Seq(Chunks) BY <1>1, <2>2, Taken DEF Types
  <2>5. Types' BY <1>1, <1>2, <1>3, <2>1, <2>2, <2>3, <2>4 DEF Types
  <2>6. Numbers'
    <3>1. heap' \subseteq 1..allocs' BY <1>1, <2>1 DEF Numbers
    <3> QED BY <1>1, <1>2, <1>3, <2>1, <3>1 DEF Numbers
  <2>7. WriterAt' BY <1>1, <1>3, <2>1, <2>2, WriterRests
  <2>8. ReaderAt' BY <1>2, <2>1, <2>2, <2>3 DEF ReaderAt
  <2>9. Held' BY <1>1, <1>2, <2>1, <2>2, <2>3, HeldDrain
  <2>10. Ordered'
    <3>1. InReader' = {} /\ InCurr' = {}
      BY <1>2, <2>3 DEF InReader, InCurr
    <3>2. Below(InReader, InCurr)' BY <3>1 DEF Below
    <3> QED BY <1>1, <1>2, <1>3, <2>2, <3>1, <3>2, OrderedGet
  <2>11. EndIsLast'
    <3>1. /\ EndsOnly(buffer)' /\ (HasEnd(buffer)' => ended')
          /\ m_eof => AllEnd(buffer)'
      BY <1>1, <1>2, <2>2, EndTaken
    <3>2. ended' => AtEnd' BY <1>1, <1>2, <1>3 DEF EndIsLast, AtEnd
    <3> QED BY <1>1, <1>2, <1>4, <2>1, <2>3, <3>1, <3>2 DEF EndIsLast
  <2> QED BY <2>5, <2>6, <2>7, <2>8, <2>9, <2>10, <2>11 DEF StreamInv
<1>7. CASE /\ request[Reader] = "none" /\ buffer = <<>> /\ rcall' = Gone
           /\ UNCHANGED streamVars
  <2>1. /\ UNCHANGED <<behavior, buffer, offer, request, readerVars, m_curr, m_off, m_eof,
                       Offered, Asked, allocs, heap, refused>>
    BY <1>7, StreamsRest
  <2>2. IsCall(rcall') /\ ROp' = "gone" /\ rcall'.done = 0 BY <1>7, NoCall DEF ROp
  <2>3. Asked = "none" BY <1>7 DEF Asked
  <2>4. Types' BY <1>1, <1>2, <1>3, <2>1, <2>2 DEF Types
  <2>5. Numbers'
    <3>1. rcall'.done <= Len(received') BY <1>1, <1>2, <2>2, NumbersAre
    <3> QED BY <1>1, <1>2, <1>3, <2>1, <2>2, <3>1 DEF Numbers
  <2>6. WriterAt' BY <1>1, <1>3, <2>1, WriterRests
  <2>7. ReaderAt' BY <1>2, <2>1, <2>2, <2>3 DEF ReaderAt
  <2>8. Held' BY <1>1, <2>1, HeldStays
  <2>9. Ordered' BY <1>1, <1>2, <1>3, <2>1, OrderedStill DEF ReaderRests
  <2>10. EndIsLast' BY <1>1, <1>2, <1>3, <1>4, <2>1, <2>2, EndQuiet
  <2> QED BY <2>4, <2>5, <2>6, <2>7, <2>8, <2>9, <2>10 DEF StreamInv
<1> QED BY <1>5, <1>6, <1>7 DEF Drains

LEMMA StutterKeeps ==
  ASSUME StreamInv, UNCHANGED vars
  PROVE  StreamInv'
<1>1. /\ Types /\ Numbers /\ WriterAt /\ ReaderAt /\ Held /\ Ordered /\ EndIsLast
  BY DEF StreamInv
<1>2. /\ UNCHANGED streamVars /\ UNCHANGED writerVars /\ UNCHANGED bufReaderVars
      /\ UNCHANGED ended
  BY DEF vars
<1>3. /\ UNCHANGED <<behavior, buffer, offer, request, readerVars, m_curr, m_off, m_eof,
                     Offered, Asked, allocs, heap, refused>>
      /\ UNCHANGED <<w_bufUsed, wcall, WOp, sent, closing>>
      /\ UNCHANGED <<r_first, r_bufUsed, r_pos, rcall, ROp, received, ret, shorts>>
      /\ ReaderRests /\ UNCHANGED ReaderSays
  BY <1>2, StreamsRest, WriterVarsRest, BufReaderRests, ReaderBufRests
<1>4. Types' BY <1>1, <1>2, <1>3 DEF Types
<1>5. Numbers' BY <1>1, <1>3 DEF Numbers
<1>6. WriterAt' BY <1>1, <1>3, WriterRests
<1>7. ReaderAt' BY <1>1, <1>3, ReaderStays
<1>8. Held' BY <1>1, <1>3, HeldStays
<1>9. Ordered' BY <1>1, <1>3, OrderedStill
<1>10. ended => AtEnd' BY <1>1, <1>3 DEF EndIsLast, AtEnd
<1>11. EndIsLast' BY <1>1, <1>2, <1>3, <1>10, EndStays
<1> QED BY <1>4, <1>5, <1>6, <1>7, <1>8, <1>9, <1>11 DEF StreamInv

LEMMA NextStreamInv == StreamInv /\ [Next]_vars => StreamInv'
<1> SUFFICES ASSUME StreamInv, [Next]_vars PROVE StreamInv' OBVIOUS
<1>1. CASE \E len \in WriteLengths : CallWrite(len) BY <1>1, CallWriteKeeps
<1>2. CASE CallFlush BY <1>2, CallFlushKeeps
<1>3. CASE CallClose BY <1>3, CallCloseKeeps
<1>4. CASE CallDestroy BY <1>4, CallDestroyKeeps
<1>5. CASE WriterStep
  BY <1>5, WriteCopiesKeeps, WriteFlushesKeeps, DestroyClosesKeeps, PushReturnsKeeps,
     PushThrowsKeeps
     DEF WriterStep
<1>6. CASE Reads BY <1>6, CallReadKeeps DEF Reads
<1>7. CASE CallDestroyReader BY <1>7, CallDestroyReaderKeeps
<1>8. CASE ReaderStep
  BY <1>8, TakesKeeps, RefillCopiesKeeps, RefillPopsKeeps, RefillGetsKeeps,
     RefillFailsKeeps, DrainsKeeps
     DEF ReaderStep
<1>9. CASE UNCHANGED vars BY <1>9, StutterKeeps
<1> QED BY <1>1, <1>2, <1>3, <1>4, <1>5, <1>6, <1>7, <1>8, <1>9 DEF Next

(* The invariant holds in every state.                                     *)
THEOREM StreamInvariant == Spec => []StreamInv
BY InitStreamInv, NextStreamInv, PTL DEF Spec

(* The variables keep to their types, and the buffers to their sizes.      *)
THEOREM TypesAreKept == Spec => []TypeOK
<1>1. StreamInv => TypeOK
  <2> SUFFICES ASSUME StreamInv PROVE TypeOK OBVIOUS
  <2>1. Types /\ Numbers /\ WriterAt /\ ReaderAt BY DEF StreamInv
  <2>2. PCQ!Full \in BOOLEAN
    <3>1. Len(buffer) \in Nat BY <2>1 DEF Types
    <3> QED BY <3>1, StreamAssumption DEF PCQ!Full, StreamAssumption
  <2>3. behavior \in Behaviors /\ m_off \in 0..m_curr.len /\ m_eof \in BOOLEAN
    BY <2>1 DEF Types
  <2>4. /\ heap \subseteq 1..allocs /\ allocs \in 0..MaxChunks
        /\ w_bufUsed \in 0..WBufSize
        /\ r_pos \in 0..r_bufUsed /\ r_bufUsed \in 0..RBufSize
        /\ sent \in 0..MaxBytes /\ ret \in -1..MaxBytes
    BY <2>1 DEF Numbers
  <2>5. wcall.op \in {"none", "write", "flush", "close", "destroy", "close pcq", "gone"}
    BY <2>1 DEF WriterAt, WOp
  <2>6. rcall.op \in {"none", "read", "readAll", "drain", "gone"}
    BY <2>1 DEF ReaderAt, ROp
  <2> QED BY <2>2, <2>3, <2>4, <2>5, <2>6 DEF TypeOK
<1> QED BY <1>1, StreamInvariant, PTL

(* Every chunk that is not freed has exactly one holder, or its push took  *)
(* no effect: tStreamPCQ's readable end frees none twice and loses track   *)
(* of none.                                                                *)
THEOREM ChunksAreOwned == Spec => []BuffersAreOwned
<1>1. StreamInv => BuffersAreOwned
  <2> SUFFICES ASSUME StreamInv PROVE BuffersAreOwned OBVIOUS
  <2>1. Types /\ Numbers /\ Held BY DEF StreamInv
  <2> DEFINE Q == Bufs({buffer[n] : n \in DOMAIN buffer})
             W == Bufs({offer[Writer]} \ {NoChunk})
             R == Bufs(IF request[Reader] = "none" THEN {m_curr} ELSE {})
             F == refused \ {NULL}
  <2>2. \A b : b \in Q <=> b # NULL /\ InQueue(b) BY DEF Bufs, InQueue
  <2>3. \A b : b \in W <=> b # NULL /\ InPush(b) BY DEF Bufs, InPush, Offered
  <2>4. \A b : b \in R <=> b # NULL /\ InHand(b) BY DEF Bufs, InHand, Asked
  <2>5. \A b : b \in heap => b \in Nat \ {NULL} BY <2>1 DEF Numbers, NULL
  <2>6. \A b : b # NULL /\ (InQueue(b) \/ InPush(b) \/ InHand(b) \/ b \in refused)
                => b \in Nat \ {NULL}
    <3>1. \A b : InQueue(b) => b \in Nat BY <2>1, QueuedIs DEF InQueue, Chunks
    <3>2. \A b : InPush(b) => b \in Nat BY <2>1 DEF InPush, Types, Chunks
    <3>3. \A b : InHand(b) => b \in Nat BY <2>1 DEF InHand, Types, Chunks
    <3>4. \A b : b \in refused => b \in Nat BY <2>1 DEF Numbers
    <3> QED BY <3>1, <3>2, <3>3, <3>4
  <2>7. \A b \in Nat \ {NULL} :
           b \in heap <=> InQueue(b) \/ InPush(b) \/ InHand(b) \/ b \in refused
    BY <2>1 DEF Held
  <2>8. \A b : b \in heap <=> b \in Q \/ b \in W \/ b \in R \/ b \in F
    BY <2>2, <2>3, <2>4, <2>5, <2>6, <2>7
  <2>9. heap = Q \cup W \cup R \cup F BY <2>8
  <2> QED BY <2>9 DEF BuffersAreOwned
<1> QED BY <1>1, StreamInvariant, PTL
-----------------------------------------------------------------------------
(* The streams as a Pipe: what each step does to it.                       *)
Behind == InReader \cup InCurr \cup Queued
Transit == IF ReaderThere THEN Behind \cup InWriter ELSE {}
PipeRests == UNCHANGED <<behavior, received, shorts, ret, ReaderThere>>

LEMMA PipeStutters ==
  ASSUME PipeRests, UNCHANGED <<sent, ended, Transit>>
  PROVE  UNCHANGED P!vars
BY DEF P!vars, PipeRests, Transit, Behind

LEMMA PipeEnds ==
  ASSUME PipeRests, UNCHANGED <<sent, Transit>>, ended' = TRUE
  PROVE  P!Next
BY DEF P!Next, P!End, PipeRests, Transit, Behind

LEMMA PipeWrites ==
  ASSUME PipeRests, UNCHANGED ended, ~ended, NEW n \in 1..(sent' - sent), sent' = sent + n,
         Transit' = IF ReaderThere THEN Transit \cup (sent + 1)..(sent + n) ELSE {}
  PROVE  P!Next
<1>1. P!Write(n) BY DEF P!Write, PipeRests, Transit, Behind
<1> QED BY <1>1 DEF P!Next

LEMMA PipeReads ==
  ASSUME UNCHANGED <<behavior, sent, ended, shorts>>, ReaderThere, ReaderThere',
         ret # -1, ret' # -1, NEW first \in Transit, NEW last \in Transit,
         {b \in Transit : b <= last} = first..last,
         received' = received \o [j \in 1..(last - first + 1) |-> first + j - 1],
         Transit' = Transit \ (first..last)
  PROVE  P!Next
<1>1. P!Read(first, last) BY DEF P!Read, Transit, Behind
<1> QED BY <1>1 DEF P!Next, Transit, Behind

LEMMA PipeLoses ==
  ASSUME PipeRests, UNCHANGED <<sent, ended>>, behavior \in {"kDiscard", "kThrow"},
         NEW first \in Transit, NEW last \in Transit, Transit' = Transit \ (first..last)
  PROVE  P!Next
<1>1. P!Lose(first, last) BY DEF P!Lose, PipeRests, Transit, Behind
<1> QED BY <1>1 DEF P!Next, Transit, Behind

LEMMA PipeTells ==
  ASSUME UNCHANGED <<behavior, sent, received, ended>>, ReaderThere, ReaderThere',
         ret # -1, ret' # -1, ended = TRUE, Transit = {}, Transit' = {}, shorts = 0, shorts' = 1
  PROVE  P!Next
<1>1. P!Tell BY DEF P!Tell, Transit, Behind
<1> QED BY <1>1 DEF P!Next

LEMMA PipeRefuses ==
  ASSUME UNCHANGED <<behavior, sent, received, ended, shorts, Transit>>, ReaderThere, ReaderThere',
         shorts = 1, ret' = -1
  PROVE  P!Next
<1>1. P!Refuse BY DEF P!Refuse, Transit, Behind
<1> QED BY <1>1 DEF P!Next

LEMMA PipeAbandoned ==
  ASSUME UNCHANGED <<behavior, sent, received, ended, shorts, ret>>, ~ReaderThere'
  PROVE  P!Next
<1>1. Transit' = {} BY DEF Transit
<1>2. P!Abandon BY <1>1 DEF P!Abandon, Transit, Behind
<1> QED BY <1>2 DEF P!Next

LEMMA InitPipe == Init => P!Init
<1> SUFFICES ASSUME Init PROVE P!Init OBVIOUS
<1>1. /\ sent = 0 /\ received = <<>> /\ shorts = 0 /\ ret = 0 /\ ended = FALSE
      /\ rcall = None /\ m_curr = EOF /\ m_off = 0 /\ buffer = <<>>
      /\ r_first = 0 /\ r_pos = 0 /\ r_bufUsed = 0 /\ w_bufUsed = 0
  BY DEF Init, StreamInit, PCQ!Init
<1>2. InReader = {} /\ InWriter = {} BY <1>1 DEF InReader, InWriter, Bytes
<1>3. InCurr = {}
  <2>1. EOF.first \in Nat /\ EOF.len = 0 BY DEF EOF, Chunk
  <2> QED BY <1>1, <2>1 DEF InCurr, Bytes
<1>4. Queued = {} BY <1>1 DEF Queued
<1>5. ReaderThere = TRUE BY <1>1, NoCall DEF ReaderThere
<1> QED BY <1>1, <1>2, <1>3, <1>4, <1>5 DEF P!Init
-----------------------------------------------------------------------------
LEMMA InWriterIs ==
  ASSUME Numbers
  PROVE  /\ InWriter = (sent - w_bufUsed + 1)..sent
         /\ w_bufUsed = 0 => InWriter = {}
         /\ w_bufUsed > 0 => sent - w_bufUsed + 1 \in InWriter /\ sent \in InWriter
BY NumbersAre DEF InWriter, Bytes

LEMMA BehindStays ==
  ASSUME ReaderRests, UNCHANGED buffer
  PROVE  UNCHANGED Behind
BY DEF ReaderRests, Behind, InReader, InCurr, Queued

LEMMA PipeIsLeft ==
  ASSUME UNCHANGED bufReaderVars, UNCHANGED behavior
  PROVE  PipeRests
BY DEF bufReaderVars, PipeRests, ReaderThere

(* A step of the writer that only moves a push forward.                    *)
LEMMA WriterPrepares ==
  ASSUME UNCHANGED <<behavior, buffer, readerVars>>, UNCHANGED bufReaderVars,
         UNCHANGED <<sent, w_bufUsed, ended>>
  PROVE  UNCHANGED P!vars
<1>1. UNCHANGED Behind BY ReaderBufRests, BehindStays
<1>2. UNCHANGED InWriter BY DEF InWriter
<1>3. PipeRests BY PipeIsLeft
<1>4. UNCHANGED Transit BY <1>1, <1>2, <1>3 DEF Transit, PipeRests
<1> QED BY <1>3, <1>4, PipeStutters

LEMMA WriteCopiesPipes ==
  ASSUME StreamInv, WriteCopies
  PROVE  P!Next
<1>1. /\ Types /\ Numbers /\ WriterAt /\ EndIsLast BY DEF StreamInv
<1> DEFINE n == Room(wcall.len)
<1>2. /\ WOp = "write" /\ ~Pushing /\ w_bufUsed < WBufSize
      /\ w_bufUsed' = w_bufUsed + n /\ sent' = sent + n
      /\ UNCHANGED streamVars /\ UNCHANGED ended /\ UNCHANGED bufReaderVars
  BY DEF WriteCopies, WOp
<1>3. wcall.len > 0 /\ ~closing BY <1>1, <1>2 DEF WriterAt
<1>4. n \in Nat /\ n > 0 BY <1>1, <1>2, <1>3, RoomIs
<1> HIDE DEF n
<1>5. ~ended BY <1>1, <1>2, <1>3 DEF EndIsLast, AtEnd
<1>6. UNCHANGED <<behavior, buffer, readerVars>> BY <1>2, StreamsRest
<1>7. PipeRests /\ UNCHANGED ReaderThere BY <1>2, <1>6, PipeIsLeft DEF PipeRests
<1>8. UNCHANGED Behind BY <1>2, <1>6, ReaderBufRests, BehindStays
<1>9. InWriter' = InWriter \cup (sent + 1)..(sent + n)
  <2>1. /\ sent \in Nat /\ w_bufUsed \in Nat /\ w_bufUsed <= sent BY <1>1, NumbersAre
  <2>2. InWriter = (sent - w_bufUsed + 1)..sent BY <1>1, InWriterIs
  <2>3. InWriter' = (sent - w_bufUsed + 1)..(sent + n)
    BY <1>2, <1>4, <2>1 DEF InWriter, Bytes
  <2> QED BY <1>4, <2>1, <2>2, <2>3
<1>10. Transit' = IF ReaderThere THEN Transit \cup (sent + 1)..(sent + n) ELSE {}
  BY <1>7, <1>8, <1>9 DEF Transit
<1>11. n \in 1..(sent' - sent) BY <1>1, <1>2, <1>4, NumbersAre
<1> QED BY <1>2, <1>5, <1>7, <1>10, <1>11, PipeWrites

LEMMA PushAcceptedPipes ==
  ASSUME StreamInv, PushTakesEffect, Returns,
         ended' <=> ended \/ IsEOF(Offered), ended' \in BOOLEAN
  PROVE  P!Next \/ UNCHANGED P!vars
<1>1. /\ Types /\ Numbers BY DEF StreamInv
<1>2. /\ PCQ!Accept(Writer) /\ UNCHANGED <<readerVars, allocs>>
      /\ wcall' = NextCall /\ w_bufUsed' = 0 /\ UNCHANGED <<sent, closing>>
      /\ UNCHANGED bufReaderVars
  BY DEF PushTakesEffect, Returns, Flushed
<1>3. /\ Offered # NoChunk /\ Offered' = NoChunk
      /\ buffer' = Append(buffer, Offered) /\ UNCHANGED behavior
  BY <1>1, <1>2, AcceptIs
<1>4. /\ PipeRests /\ UNCHANGED ReaderThere /\ UNCHANGED <<InReader, InCurr>>
  <2>1. ReaderRests BY <1>2, ReaderBufRests
  <2> QED BY <1>2, <1>3, <2>1, PipeIsLeft DEF PipeRests, ReaderRests, InReader, InCurr
<1>5. Bytes(Offered.first, Offered.len) = InWriter
  <2>1. \/ Offered = Chunk(allocs, sent - w_bufUsed + 1, w_bufUsed)
        \/ Offered = EOF /\ w_bufUsed = 0
    BY <1>2, <1>3, PushOver
  <2>2. /\ sent - w_bufUsed + 1 \in Nat /\ w_bufUsed \in Nat /\ allocs \in Nat
    BY <1>1, NumbersAre
  <2>3. CASE Offered = Chunk(allocs, sent - w_bufUsed + 1, w_bufUsed)
    BY <2>2, <2>3, ChunkIs DEF InWriter
  <2>4. CASE Offered = EOF /\ w_bufUsed = 0
    <3>1. Offered.first \in Nat /\ Offered.len = 0 BY <2>4, ChunkIs DEF Chunks
    <3> QED BY <1>1, <2>4, <3>1, NoBytes, InWriterIs
  <2> QED BY <2>1, <2>3, <2>4
<1>6. Queued' = Queued \cup InWriter
  <2>1. /\ Len(buffer) \in Nat
        /\ DOMAIN buffer = 1..Len(buffer) /\ DOMAIN buffer' = 1..(Len(buffer) + 1)
        /\ \A n \in 1..Len(buffer) : buffer'[n] = buffer[n]
        /\ buffer'[Len(buffer) + 1] = Offered
    BY <1>1, <1>3, Added DEF Types
  <2>2. \A x : x \in Queued' <=>
                 \E n \in 1..(Len(buffer) + 1) : x \in Bytes(buffer'[n].first, buffer'[n].len)
    BY <2>1 DEF Queued
  <2>3. \A x : x \in Queued <=>
                 \E n \in 1..Len(buffer) : x \in Bytes(buffer[n].first, buffer[n].len)
    BY <2>1 DEF Queued
  <2>4. \A n : n \in 1..(Len(buffer) + 1) <=> n \in 1..Len(buffer) \/ n = Len(buffer) + 1
    BY <2>1
  <2> QED BY <1>5, <2>1, <2>2, <2>3, <2>4
<1>7. InWriter' = {}
  <2>1. sent' \in Nat BY <1>1, <1>2, NumbersAre
  <2>2. sent' - w_bufUsed' + 1 \in Nat BY <1>2, <2>1
  <2> QED BY <1>2, <2>2, NoBytes DEF InWriter
<1>8. UNCHANGED Transit BY <1>4, <1>6, <1>7 DEF Transit, Behind
<1>9. CASE ended' = ended BY <1>2, <1>4, <1>8, <1>9, PipeStutters
<1>10. CASE ended' = TRUE BY <1>2, <1>4, <1>8, <1>10, PipeEnds
<1>11. ended \in BOOLEAN BY <1>1 DEF Types
<1> QED BY <1>9, <1>10, <1>11

LEMMA PushNotTakenPipes ==
  ASSUME StreamInv, PushRefused, behavior \in {"kDiscard", "kThrow"},
         UNCHANGED <<sent, closing, ended>>, UNCHANGED bufReaderVars,
         w_bufUsed' = 0 \/ w_bufUsed' = w_bufUsed
  PROVE  P!Next \/ UNCHANGED P!vars
<1>1. /\ Types /\ Numbers /\ Ordered BY DEF StreamInv
<1>2. PCQ!Refuse(Writer) /\ UNCHANGED readerVars BY DEF PushRefused
<1>3. UNCHANGED <<behavior, buffer>> BY <1>1, <1>2, RefuseIs
<1>4. CASE w_bufUsed' = w_bufUsed BY <1>2, <1>3, <1>4, WriterPrepares
<1>5. CASE w_bufUsed' = 0 /\ w_bufUsed # 0
  <2>1. /\ sent \in Nat /\ w_bufUsed \in Nat /\ w_bufUsed > 0 /\ w_bufUsed <= sent
    BY <1>1, <1>5, NumbersAre
  <2>2. PipeRests /\ UNCHANGED <<ReaderThere, Behind>>
    BY <1>2, <1>3, PipeIsLeft, ReaderBufRests, BehindStays DEF PipeRests
  <2>3. InWriter' = {}
    <3>1. sent' - w_bufUsed' + 1 \in Nat BY <1>5, <2>1
    <3> QED BY <1>5, <3>1, NoBytes DEF InWriter
  <2>4. CASE ~ReaderThere
    <3>1. UNCHANGED Transit BY <2>2, <2>4 DEF Transit
    <3> QED BY <2>2, <3>1, PipeStutters
  <2>5. CASE ReaderThere
    <3> DEFINE first == sent - w_bufUsed + 1
    <3>1. /\ InWriter = first..sent /\ first \in InWriter /\ sent \in InWriter
      BY <1>1, <2>1, InWriterIs
    <3>2. Behind \cap InWriter = {}
      <4>1. Behind \subseteq (Len(received) + 1)..(sent - w_bufUsed) BY <1>1 DEF Ordered, Behind
      <4>2. Len(received) \in Nat BY <1>1, NumbersAre
      <4> QED BY <2>1, <3>1, <4>1, <4>2
    <3>3. Transit' = Transit \ (first..sent) BY <2>2, <2>3, <2>5, <3>1, <3>2 DEF Transit
    <3>4. first \in Transit /\ sent \in Transit BY <2>5, <3>1 DEF Transit
    <3> QED BY <2>2, <3>3, <3>4, PipeLoses
  <2> QED BY <2>4, <2>5
<1> QED BY <1>4, <1>5

LEMMA WriterPipes ==
  ASSUME StreamInv, WriterStep
  PROVE  P!Next \/ UNCHANGED P!vars
<1>1. CASE WriteCopies BY <1>1, WriteCopiesPipes
<1>2. CASE WriteFlushes
  <2>1. WriteBuffer /\ UNCHANGED writerVars /\ UNCHANGED bufReaderVars /\ UNCHANGED ended
    BY <1>2 DEF WriteFlushes
  <2> QED BY <2>1, WriteBufferIs, WriterVarsRest, WriterPrepares
<1>3. CASE DestroyCloses
  <2>1. /\ Close /\ UNCHANGED <<w_bufUsed, sent, ended>> /\ UNCHANGED bufReaderVars
    BY <1>3 DEF DestroyCloses
  <2> QED BY <2>1, CloseIs, WriterPrepares
<1>4. CASE PushReturns
  <2>1. CASE PushTakesEffect /\ ended' = (ended \/ IsEOF(offer[Writer])) /\ Returns
    <3>1. (ended' <=> ended \/ IsEOF(Offered)) /\ ended' \in BOOLEAN BY <2>1, ZenonT(30) DEF Offered
    <3> QED BY <2>1, <3>1, PushAcceptedPipes
  <2>2. CASE PushRefused /\ behavior = "kDiscard" /\ Returns /\ UNCHANGED ended
    BY <2>2, PushNotTakenPipes DEF Returns, Flushed
  <2> QED BY <1>4, <2>1, <2>2 DEF PushReturns
<1>5. CASE PushThrows
  BY <1>5, PushNotTakenPipes DEF PushThrows
<1> QED BY <1>1, <1>2, <1>3, <1>4, <1>5 DEF WriterStep
-----------------------------------------------------------------------------
LEMMA ThereIs ==
  /\ ReaderThere <=> ROp \notin {"drain", "gone"}
  /\ ReaderThere' <=> ROp' \notin {"drain", "gone"}
BY DEF ReaderThere, ROp

LEMMA TakesPipes ==
  ASSUME StreamInv, Takes
  PROVE  P!Next
<1>1. Types /\ Numbers /\ Ordered /\ EndIsLast BY DEF StreamInv
<1> DEFINE n == TakenNow
           first == r_first + r_pos
           last == r_first + r_pos + n - 1
<1>2. /\ n \in Nat /\ n > 0 /\ n <= r_bufUsed - r_pos
      /\ ROp \in {"read", "readAll"} /\ ~m_eof /\ r_pos' = r_pos + n
      /\ received' = received \o Stretch(first, n)
  BY TakesIs
<1>3. /\ UNCHANGED streamVars /\ UNCHANGED writerVars
      /\ UNCHANGED <<r_first, r_bufUsed, shorts, ended>>
      /\ \/ rcall' = [rcall EXCEPT !.done = @ + n] /\ ret' = ret
         \/ rcall' = None /\ ret' = rcall.done + n
  BY DEF Takes, TakenNow, ROp
<1> HIDE DEF n
<1>4. /\ r_first \in Nat /\ r_bufUsed \in Nat /\ r_pos \in Nat /\ rcall.done \in Nat
      /\ sent \in Nat /\ w_bufUsed \in Nat /\ Len(received) \in Nat
  BY <1>1, NumbersAre, ReaderIs
<1>5. /\ UNCHANGED <<behavior, buffer, m_curr, m_off>> /\ UNCHANGED <<w_bufUsed, sent>>
  BY <1>3, StreamsRest, WriterVarsRest
<1>6. ret # -1 /\ ret' # -1
  <2>1. ret # -1 BY <1>1, <1>2 DEF EndIsLast
  <2>2. rcall.done + n # -1 BY <1>2, <1>4
  <2> QED BY <1>3, <2>1, <2>2
<1>7. ReaderThere /\ ReaderThere'
  <2>1. rcall' = [rcall EXCEPT !.done = @ + n] => ROp' = ROp
    BY <1>1, ReaderIs DEF ROp, IsCall
  <2>2. rcall' = None => ROp' = "none" BY NoCall DEF ROp
  <2>3. ROp' \in {"none", "read", "readAll"} BY <1>2, <1>3, <2>1, <2>2
  <2> QED BY <1>2, <2>3, ThereIs
<1>8. first \in Nat /\ last \in Nat /\ last - first + 1 = n /\ first <= last BY <1>2, <1>4
<1>9. \A x : x \in InReader <=> x \in Nat /\ first <= x /\ x < first + (r_bufUsed - r_pos)
  <2>1. r_bufUsed - r_pos \in Nat BY <1>2, <1>4
  <2> QED BY <1>8, <2>1, BytesIs DEF InReader
<1>10. \A x : x \in InReader' <=> x \in InReader /\ x \notin first..last
  <2>1. r_first' + r_pos' = first + n /\ r_bufUsed' - r_pos' = r_bufUsed - r_pos - n
    BY <1>2, <1>3, <1>4
  <2>2. InReader' = Bytes(first + n, r_bufUsed - r_pos - n) BY <2>1 DEF InReader
  <2>3. first + n \in Nat /\ r_bufUsed - r_pos - n \in Nat BY <1>2, <1>4, <1>8
  <2>4. \A x : x \in InReader' <=>
                 x \in Nat /\ first + n <= x /\ x < first + n + (r_bufUsed - r_pos - n)
    BY <2>2, <2>3, BytesIs
  <2> QED BY <1>2, <1>4, <1>8, <1>9, <2>4
<1>11. first \in InReader /\ last \in InReader /\ first..last \subseteq InReader
  BY <1>2, <1>4, <1>8, <1>9
<1>12. \A x \in InCurr \cup Queued \cup InWriter : x \in Int /\ last < x
  <2>1. \A x \in InCurr : last < x BY <1>1, <1>11 DEF Ordered, Below
  <2>2. \A i \in DOMAIN buffer : \A x \in Part(i) : last < x
    BY <1>1, <1>11 DEF Ordered, Below
  <2>3. \A x : x \in Queued <=> \E i \in DOMAIN buffer : x \in Part(i) BY <1>1, QueuedIs
  <2>4. InReader \cup InCurr \cup Queued \subseteq (Len(received) + 1)..(sent - w_bufUsed)
    BY <1>1 DEF Ordered
  <2>5. \A x \in InWriter : x \in Int /\ last < x
    <3>1. InWriter = (sent - w_bufUsed + 1)..sent BY <1>1, InWriterIs
    <3>2. last <= sent - w_bufUsed BY <1>4, <1>8, <1>11, <2>4
    <3> QED BY <1>4, <1>8, <3>1, <3>2
  <2> QED BY <1>4, <2>1, <2>2, <2>3, <2>4, <2>5
<1> DEFINE rest == InCurr \cup Queued \cup InWriter
<1>13. UNCHANGED rest BY <1>5 DEF InCurr, Queued, InWriter
<1>14. Transit = InReader \cup rest /\ Transit' = InReader' \cup rest'
  BY <1>7 DEF Transit, Behind
<1> HIDE DEF rest, last, first
<1>15. \A x \in rest : x \in Int /\ last < x BY <1>12 DEF rest
<1>16. Transit' = Transit \ (first..last) BY <1>8, <1>10, <1>13, <1>14, <1>15
<1>17. {b \in Transit : b <= last} = first..last
  <2>1. \A b \in InReader : b \in Nat /\ first <= b BY <1>9
  <2>2. \A b \in rest : ~(b <= last) BY <1>8, <1>15
  <2>3. ASSUME NEW b \in Transit, b <= last PROVE b \in first..last
    BY <1>8, <1>14, <2>1, <2>2, <2>3
  <2>4. \A b \in first..last : b \in Transit /\ b <= last BY <1>8, <1>11, <1>14
  <2> QED BY <2>3, <2>4
<1>18. first \in Transit /\ last \in Transit BY <1>11, <1>14
<1>19. received' = received \o [j \in 1..(last - first + 1) |-> first + j - 1]
  BY <1>2, <1>8 DEF Stretch
<1> QED BY <1>3, <1>5, <1>6, <1>7, <1>16, <1>17, <1>18, <1>19, PipeReads

(* A step of a reader that stays, which moves bytes within its end.        *)
LEMMA ReaderMoves ==
  ASSUME UNCHANGED <<behavior, sent, w_bufUsed, received, ended, shorts, ret, Behind, ReaderThere>>
  PROVE  UNCHANGED P!vars
<1>1. UNCHANGED InWriter BY DEF InWriter
<1>2. UNCHANGED Transit BY <1>1 DEF Transit
<1> QED BY <1>2, PipeStutters DEF PipeRests

LEMMA RefillCopiesPipes ==
  ASSUME StreamInv, RefillCopies
  PROVE  UNCHANGED P!vars
<1>1. Types /\ Numbers BY DEF StreamInv
<1> DEFINE n == Least(m_curr.len - m_off, RBufSize)
<1>2. /\ r_pos >= r_bufUsed
      /\ UNCHANGED <<behavior, buffer, m_curr>>
      /\ UNCHANGED writerVars /\ UNCHANGED <<rcall, received, ret, shorts, ended>>
      /\ m_off' = m_off + n /\ r_first' = m_curr.first + m_off
      /\ r_bufUsed' = m_off' - m_off /\ r_pos' = 0
  BY DEF RefillCopies, ReadCopies, Empty
<1>3. /\ m_curr.first \in Nat /\ m_curr.len \in Nat /\ m_off \in Nat
      /\ m_off <= m_curr.len /\ RBufSize \in Nat
  BY <1>1, ReaderIs
<1>4. n \in Nat /\ n <= m_curr.len - m_off
  <2>1. m_curr.len - m_off \in Nat BY <1>3
  <2> QED BY <1>3, <2>1, LeastIs
<1> HIDE DEF n
<1>5. /\ InReader' = Bytes(m_curr.first + m_off, n)
      /\ InCurr' = Bytes(m_curr.first + m_off + n, m_curr.len - m_off - n)
  <2>1. /\ r_first' + r_pos' = m_curr.first + m_off /\ r_bufUsed' - r_pos' = n
        /\ m_curr'.first + m_off' = m_curr.first + m_off + n
        /\ m_curr'.len - m_off' = m_curr.len - m_off - n
    BY <1>2, <1>3, <1>4
  <2> QED BY <2>1 DEF InReader, InCurr
<1>6. InReader' \cup InCurr' = InCurr
  <2>1. m_curr.first + m_off \in Nat /\ m_curr.len - m_off \in Nat BY <1>3
  <2>2. Bytes(m_curr.first + m_off, n) \cup Bytes(m_curr.first + m_off + n, m_curr.len - m_off - n)
          = Bytes(m_curr.first + m_off, m_curr.len - m_off)
    BY <1>4, <2>1, Parted
  <2> QED BY <1>5, <2>2 DEF InCurr
<1>7. InReader = {} BY <1>1, <1>2, BufferEmpties
<1>8. UNCHANGED Queued BY <1>2 DEF Queued
<1>9. UNCHANGED Behind BY <1>6, <1>7, <1>8 DEF Behind
<1>10. UNCHANGED ReaderThere BY <1>2 DEF ReaderThere
<1> QED BY <1>2, <1>9, <1>10, WriterVarsRest, ReaderMoves

LEMMA RefillPopsPipes ==
  ASSUME StreamInv, RefillPops
  PROVE  UNCHANGED P!vars
<1>1. Types /\ Numbers BY DEF StreamInv
<1>2. /\ PCQ!Request(Reader, "pop") /\ UNCHANGED readerVars /\ UNCHANGED writerVars
      /\ UNCHANGED <<r_first, rcall, received, ret, shorts, ended>>
      /\ r_bufUsed' = 0 /\ r_pos' = 0 /\ r_pos >= r_bufUsed
  BY DEF RefillPops, ReadPops, Empty
<1>3. UNCHANGED <<behavior, buffer>> BY <1>1, <1>2, RequestIs
<1>4. InReader = {} /\ InReader' = {} BY <1>1, <1>2, BufferEmpties, BufferIsEmptied
<1>5. UNCHANGED <<InCurr, Queued>> BY <1>2, <1>3 DEF readerVars, InCurr, Queued
<1>6. UNCHANGED Behind BY <1>4, <1>5 DEF Behind
<1>7. UNCHANGED ReaderThere BY <1>2 DEF ReaderThere
<1> QED BY <1>2, <1>3, <1>6, <1>7, WriterVarsRest, ReaderMoves

LEMMA RefillGetsPipes ==
  ASSUME StreamInv, RefillGets
  PROVE  P!Next \/ UNCHANGED P!vars
<1>1. Types /\ Numbers /\ WriterAt /\ EndIsLast BY DEF StreamInv
<1>2. /\ ROp \in {"read", "readAll"} /\ shorts = 0 /\ ret # -1
      /\ InReader = {} /\ InCurr = {}
      /\ buffer # <<>> /\ buffer' = Tail(buffer) /\ Head(buffer) = buffer[1]
      /\ m_curr' = Head(buffer) /\ Head(buffer) \in Chunks
  BY RefillGetsIs
<1>3. /\ Popped \in Nat /\ Popped <= Head(buffer).len /\ (Popped = 0 <=> Head(buffer).len = 0)
      /\ m_off' = Popped /\ r_first' = Head(buffer).first /\ r_bufUsed' = Popped /\ r_pos' = 0
  BY RefillGetsIs
<1>4. /\ UNCHANGED <<behavior, received, ended>> /\ UNCHANGED writerVars
  BY RefillGetsIs
<1>5. UNCHANGED <<sent, w_bufUsed>> BY <1>4, WriterVarsRest
<1>6. \/ /\ Popped = 0 /\ rcall' = None /\ shorts' = 1 /\ ret' \in 0..MaxBytes
      \/ /\ Popped # 0 /\ UNCHANGED <<rcall, ret, shorts>>
  BY RefillGetsSays
<1>7. Head(buffer).first \in Nat /\ Head(buffer).len \in Nat BY <1>2 DEF Chunks
<1>8. ReaderThere /\ ReaderThere'
  <2>1. rcall' = None => ROp' = "none" BY NoCall DEF ROp
  <2>2. UNCHANGED rcall => UNCHANGED ROp BY DEF ROp
  <2>3. ROp' \in {"none", "read", "readAll"} BY <1>2, <1>6, <2>1, <2>2
  <2> QED BY <1>2, <2>3, ThereIs
<1>9. InReader' \cup InCurr' = Part(1)
  <2>1. InReader' = Bytes(Head(buffer).first, Popped)
    <3>1. r_first' + r_pos' = Head(buffer).first /\ r_bufUsed' - r_pos' = Popped
      BY <1>3, <1>7
    <3> QED BY <3>1 DEF InReader
  <2>2. InCurr' = Bytes(Head(buffer).first + Popped, Head(buffer).len - Popped)
    BY <1>2, <1>3 DEF InCurr
  <2> QED BY <1>2, <1>3, <1>7, <2>1, <2>2, Parted DEF Part
<1>10. Queued = Part(1) \cup Queued'
  <2>1. /\ Len(buffer) \in Nat /\ Len(buffer) >= 1
        /\ DOMAIN buffer = 1..Len(buffer) /\ DOMAIN buffer' = 1..(Len(buffer) - 1)
        /\ \A n \in 1..(Len(buffer) - 1) : buffer'[n] = buffer[n + 1]
    BY <1>1, <1>2, Taken DEF Types
  <2>2. \A x : x \in Queued <=> \E n \in 1..Len(buffer) : x \in Part(n)
    BY <2>1 DEF Queued, Part
  <2>3. \A x : x \in Queued' <=> \E n \in 1..(Len(buffer) - 1) : x \in Part(n + 1)
    BY <2>1 DEF Queued, Part
  <2>4. \A n \in 1..Len(buffer) : n = 1 \/ (n - 1 \in 1..(Len(buffer) - 1) /\ (n - 1) + 1 = n)
    BY <2>1
  <2>5. 1 \in 1..Len(buffer) /\ \A n \in 1..(Len(buffer) - 1) : n + 1 \in 1..Len(buffer)
    BY <2>1
  <2> HIDE DEF Part
  <2> QED BY <2>2, <2>3, <2>4, <2>5
<1>11. UNCHANGED Behind BY <1>2, <1>9, <1>10 DEF Behind
<1>12. CASE Popped # 0
  BY <1>4, <1>5, <1>6, <1>8, <1>11, <1>12, ReaderMoves
<1>13. CASE Popped = 0
  <2>1. ended /\ AllEnd(Tail(buffer))
    <3>1. EndsOnly(buffer) /\ buffer \in Seq(Chunks) BY <1>1 DEF EndIsLast, Types
    <3>2. HasEnd(buffer) /\ AllEnd(Tail(buffer)) BY <1>2, <1>3, <1>13, <3>1, TakenFromEnd
    <3> QED BY <1>1, <3>2 DEF EndIsLast
  <2>2. ended = TRUE BY <1>1, <2>1 DEF Types
  <2>3. Queued' = {}
    <3>1. buffer' \in Seq(Chunks) BY <1>1, <1>2, Taken DEF Types
    <3>2. \A n \in DOMAIN buffer' : buffer'[n].len = 0 /\ buffer'[n] \in Chunks
      BY <1>2, <2>1, <3>1 DEF AllEnd
    <3>3. \A n \in DOMAIN buffer' : Bytes(buffer'[n].first, buffer'[n].len) = {}
      BY <3>2, NoBytes DEF Chunks
    <3> QED BY <3>3 DEF Queued
  <2>4. Part(1) = {} BY <1>2, <1>3, <1>7, <1>13, NoBytes DEF Part
  <2>5. Behind = {} BY <1>2, <1>10, <2>3, <2>4 DEF Behind
  <2>6. InWriter = {}
    <3>1. w_bufUsed = 0 BY <1>1, <2>1 DEF EndIsLast, AtEnd, WriterAt
    <3> QED BY <1>1, <3>1, InWriterIs
  <2>7. UNCHANGED InWriter BY <1>5 DEF InWriter
  <2>8. Transit = {} /\ Transit' = {} BY <1>8, <1>11, <2>5, <2>6, <2>7 DEF Transit
  <2>9. shorts' = 1 /\ ret' # -1 BY <1>6, <1>13
  <2> QED BY <1>2, <1>4, <1>5, <1>8, <2>2, <2>8, <2>9, PipeTells
<1> QED BY <1>12, <1>13

LEMMA RefillFailsPipes ==
  ASSUME StreamInv, RefillFails
  PROVE  P!Next
<1>1. Types /\ Numbers /\ EndIsLast BY DEF StreamInv
<1>2. /\ ROp \in {"read", "readAll"} /\ m_eof /\ r_pos >= r_bufUsed
      /\ r_bufUsed' = 0 /\ r_pos' = 0 /\ Ends(-1)
      /\ UNCHANGED streamVars /\ UNCHANGED writerVars /\ UNCHANGED <<r_first, ended>>
  BY DEF RefillFails, InRead, ROp, Empty
<1>3. /\ UNCHANGED <<behavior, buffer, m_curr, m_off>> /\ UNCHANGED <<w_bufUsed, sent>>
  BY <1>2, StreamsRest, WriterVarsRest
<1>4. rcall.done = 0 /\ shorts = 1 BY <1>1, <1>2 DEF EndIsLast
<1>5. rcall' = None /\ ret' = -1 /\ UNCHANGED <<received, shorts>> BY <1>2, <1>4 DEF Ends
<1>6. ReaderThere /\ ReaderThere'
  <2>1. ROp' = "none" BY <1>5, NoCall DEF ROp
  <2> QED BY <1>2, <2>1, ThereIs
<1>7. InReader = {} /\ InReader' = {} BY <1>1, <1>2, BufferEmpties, BufferIsEmptied
<1>8. UNCHANGED <<InCurr, Queued, InWriter>> BY <1>3 DEF InCurr, Queued, InWriter
<1>9. UNCHANGED Transit BY <1>6, <1>7, <1>8 DEF Transit, Behind
<1> QED BY <1>2, <1>3, <1>4, <1>5, <1>6, <1>9, PipeRefuses

LEMMA DrainsPipes ==
  ASSUME StreamInv, Drains
  PROVE  UNCHANGED P!vars
<1>1. Types BY DEF StreamInv
<1>2. /\ ROp = "drain" /\ UNCHANGED writerVars
      /\ UNCHANGED <<received, ret, shorts, ended>>
  BY DrainsHas
<1>3. UNCHANGED behavior /\ ROp' \in {"drain", "gone"}
  <2>1. CASE DrainPops /\ UNCHANGED rcall
    BY <1>1, <1>2, <2>1, RequestIs DEF DrainPops, ROp
  <2>2. CASE DrainDeletes /\ UNCHANGED rcall
    BY <1>1, <1>2, <2>2, DeliverIs DEF DrainDeletes, ROp
  <2>3. CASE rcall' = Gone /\ UNCHANGED streamVars
    BY <2>3, NoCall, StreamsRest DEF ROp
  <2> QED BY <2>1, <2>2, <2>3 DEF Drains
<1>4. ~ReaderThere /\ ~ReaderThere' BY <1>2, <1>3, ThereIs
<1>5. Transit = {} /\ Transit' = {} BY <1>4 DEF Transit
<1>6. ReaderThere' = ReaderThere BY <1>4 DEF ReaderThere
<1> QED BY <1>2, <1>3, <1>5, <1>6, WriterVarsRest, PipeStutters DEF PipeRests

LEMMA ReaderPipes ==
  ASSUME StreamInv, ReaderStep
  PROVE  P!Next \/ UNCHANGED P!vars
BY TakesPipes, RefillCopiesPipes, RefillPopsPipes, RefillGetsPipes, RefillFailsPipes,
   DrainsPipes
   DEF ReaderStep

LEMMA CallsPipe ==
  ASSUME StreamInv, \/ \E len \in WriteLengths : CallWrite(len)
                    \/ CallFlush \/ CallClose \/ CallDestroy \/ Reads
  PROVE  UNCHANGED P!vars
<1>1. CASE \E len \in WriteLengths : CallWrite(len)
  <2>1. UNCHANGED streamVars /\ UNCHANGED <<w_bufUsed, sent, ended>> /\ UNCHANGED bufReaderVars
    BY <1>1 DEF CallWrite
  <2> QED BY <2>1, StreamsRest, WriterPrepares
<1>2. CASE CallFlush
  BY <1>2, WriteBufferIs, WriterPrepares DEF CallFlush
<1>3. CASE CallClose
  BY <1>3, CloseIs, WriterPrepares DEF CallClose
<1>4. CASE CallDestroy
  <2>1. UNCHANGED <<w_bufUsed, sent, ended>> /\ UNCHANGED bufReaderVars /\ (Close \/ WriteBuffer)
    BY <1>4 DEF CallDestroy
  <2> QED BY <2>1, CloseIs, WriteBufferIs, WriterPrepares
<1>5. CASE Reads
  <2>1. PICK op \in {"read", "readAll"}, len \in ReadLengths : CallRead(op, len)
    BY <1>5 DEF Reads
  <2>2. /\ rcall = None /\ rcall' = Call(op, len) /\ UNCHANGED streamVars /\ UNCHANGED writerVars
        /\ UNCHANGED <<r_first, r_bufUsed, r_pos, received, ret, shorts, ended>>
    BY <2>1 DEF CallRead
  <2>3. len \in Nat BY StreamAssumption DEF StreamAssumption
  <2>4. ROp = "none" /\ ROp' = op BY <2>2, <2>3, NoCall, NewCall DEF ROp
  <2>5. UNCHANGED ReaderThere
    <3>1. ReaderThere /\ ReaderThere' BY <2>4, ThereIs
    <3> QED BY <3>1 DEF ReaderThere
  <2>6. UNCHANGED <<behavior, buffer, m_curr, m_off>> /\ UNCHANGED <<sent, w_bufUsed>>
    BY <2>2, StreamsRest, WriterVarsRest
  <2>7. UNCHANGED Behind BY <2>2, <2>6, BehindStays DEF ReaderRests
  <2> QED BY <2>2, <2>5, <2>6, <2>7, ReaderMoves
<1> QED BY <1>1, <1>2, <1>3, <1>4, <1>5

LEMMA StepPipes == StreamInv /\ [Next]_vars => [P!Next]_(P!vars)
<1> SUFFICES ASSUME StreamInv, [Next]_vars PROVE P!Next \/ UNCHANGED P!vars OBVIOUS
<1>1. CASE \/ \E len \in WriteLengths : CallWrite(len)
           \/ CallFlush \/ CallClose \/ CallDestroy \/ Reads
  BY <1>1, CallsPipe
<1>2. CASE WriterStep BY <1>2, WriterPipes
<1>3. CASE ReaderStep BY <1>3, ReaderPipes
<1>4. CASE CallDestroyReader
  <2>1. /\ rcall' = Call("drain", 0) /\ UNCHANGED behavior /\ UNCHANGED writerVars
        /\ UNCHANGED <<received, ret, shorts, ended>>
    BY <1>4 DEF CallDestroyReader, DeleteCurr
  <2>2. ~ReaderThere' BY <2>1, NewCall, ThereIs DEF ROp
  <2> QED BY <2>1, <2>2, WriterVarsRest, PipeAbandoned
<1>5. CASE UNCHANGED vars
  <2>1. UNCHANGED streamVars /\ UNCHANGED writerVars /\ UNCHANGED bufReaderVars /\ UNCHANGED ended
    BY <1>5 DEF vars
  <2> QED BY <2>1, StreamsRest, WriterVarsRest, WriterPrepares
<1> QED BY <1>1, <1>2, <1>3, <1>4, <1>5 DEF Next

(* A buffered writer and a buffered reader over a tStreamPCQ are a Pipe.   *)
THEOREM ImplementsPipe == Spec => Implements
<1>1. Init /\ [][Next]_vars /\ []StreamInv => P!Init /\ [][P!Next]_(P!vars)
  BY InitPipe, StepPipes, PTL
<1>2. Init /\ [][Next]_vars => []StreamInv BY InitStreamInv, NextStreamInv, PTL
<1> QED BY <1>1, <1>2, PTL DEF Spec, Implements, P!Spec
=============================================================================
