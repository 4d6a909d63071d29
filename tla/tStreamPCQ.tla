----------------------------- MODULE tStreamPCQ -----------------------------
(***************************************************************************)
(* The two ends of a tStreamPCQ (include/rho/sync/tStreamPCQ.h) over one   *)
(* tPCQ of chunks, each end used by one thread. The queue is BoundedBuffer,*)
(* which tPCQ implements. The actions here are the parts of the member     *)
(* functions; module BufferedStreams makes calls of them.                  *)
(***************************************************************************)
EXTENDS Integers, Sequences

CONSTANTS
  Writer, Reader,      (* the threads with the two ends                    *)
  MaxBytes,            (* bound: bytes written                             *)
  MaxChunks,           (* bound: calls of new u8[length] in write          *)
  NoChunk,             (* no push in progress                              *)
  Capacity, Behaviors, Memory  (* of the queue                             *)

VARIABLES
  behavior, buffer, offer, request, got,  (* m_pcq                         *)
  m_curr, m_off, m_eof,                   (* the readable end's members    *)
  allocs,              (* buffers allocated so far                         *)
  heap,                (* those of them that are not deleted               *)
  refused              (* history: buffers whose push took no effect       *)

PCQ == INSTANCE BoundedBuffer WITH
           Producers <- {Writer}, Consumers <- {Reader}, NoItem <- NoChunk,
           Items <- [buf : 0..MaxChunks, first : 0..MaxBytes, len : 0..MaxBytes]

readerVars == <<m_curr, m_off, m_eof>>
streamVars == <<behavior, buffer, offer, request, got, readerVars, allocs, heap, refused>>

(* A pair (u8*, u32): the pointer, and of the bytes it points to, the      *)
(* position of the first and how many.                                     *)
NULL == 0
Chunk(buf, first, len) == [buf |-> buf, first |-> first, len |-> len]
EOF == Chunk(NULL, 0, 0)

Least(m, n) == IF m <= n THEN m ELSE n

StreamInit ==
    /\ PCQ!Init
    /\ m_curr = EOF /\ m_off = 0 /\ m_eof = FALSE
    /\ allocs = 0 /\ heap = {} /\ refused = {}
-----------------------------------------------------------------------------
(* The writable end: write copies its bytes to a new buffer and pushes it; *)
(* close, which the destructor calls too, pushes (NULL, 0).                *)
Write(first, len) ==
    /\ allocs' = allocs + 1 /\ heap' = heap \cup {allocs + 1}
    /\ PCQ!Offer(Writer, Chunk(allocs + 1, first, len))
    /\ UNCHANGED <<readerVars, refused>>

Close ==
    /\ PCQ!Offer(Writer, EOF)
    /\ UNCHANGED <<readerVars, allocs, heap, refused>>

PushTakesEffect ==
    /\ PCQ!Accept(Writer)
    /\ UNCHANGED <<readerVars, allocs, heap, refused>>

(* The queue discards the chunk, or throws eBufferOverflow. The new buffer *)
(* is nobody's then.                                                       *)
PushRefused ==
    /\ PCQ!Refuse(Writer)
    /\ refused' = refused \cup {offer[Writer].buf}
    /\ UNCHANGED <<readerVars, allocs, heap>>
-----------------------------------------------------------------------------
(* The readable end.                                                       *)
Exhausted == m_curr.buf = NULL \/ m_off >= m_curr.len

(* read deletes what it has used up and pops; the pop may block.           *)
ReadDeletesNothing == UNCHANGED heap
ReadDeletes == heap' = heap \ {m_curr.buf}

ReadPops ==
    /\ ~m_eof /\ Exhausted
    /\ ReadDeletes
    /\ PCQ!Request(Reader, "pop")
    /\ UNCHANGED <<readerVars, allocs, refused>>

IsEOFToOneByte(c) == c.len <= 1
IsEOF(c) == c.len <= 0

OffsetUnreset(n) == m_off + n
OffsetAfter(n) == n

(* The pop returns, and read copies at most length bytes.                  *)
ReadGets(length) ==
    /\ PCQ!Deliver(Reader)
    /\ m_curr' = Head(buffer)
    /\ m_eof' = IsEOF(Head(buffer))
    /\ m_off' = OffsetAfter(Least(Head(buffer).len, length))
    /\ UNCHANGED <<allocs, heap, refused>>

ReadCopies(length) ==
    /\ ~m_eof /\ ~Exhausted
    /\ m_off' = m_off + Least(m_curr.len - m_off, length)
    /\ UNCHANGED <<behavior, buffer, offer, request, got, m_curr, m_eof, allocs, heap, refused>>

(* The destructor deletes the current chunk and then, one by one, those in *)
(* the queue.                                                              *)
DeleteCurr ==
    /\ heap' = heap \ {m_curr.buf}
    /\ m_curr' = EOF /\ m_off' = 0
    /\ UNCHANGED <<behavior, buffer, offer, request, got, m_eof, allocs, refused>>

DrainPops ==
    /\ buffer # <<>>
    /\ PCQ!Request(Reader, "pop")
    /\ UNCHANGED <<readerVars, allocs, heap, refused>>

DrainDeletes ==
    /\ PCQ!Deliver(Reader)
    /\ heap' = heap \ {Head(buffer).buf}
    /\ UNCHANGED <<readerVars, allocs, refused>>

(* Every buffer that is not deleted is with the push in progress, in the   *)
(* queue or in m_curr; or its push took no effect, and it has leaked. And  *)
(* none of those is deleted. (delete of m_curr comes before the pop.)      *)
Bufs(S) == {c.buf : c \in S} \ {NULL}
BuffersAreOwned ==
    heap = Bufs({buffer[n] : n \in DOMAIN buffer})
           \cup Bufs({offer[Writer]} \ {NoChunk})
           \cup Bufs(IF request[Reader] = "none" THEN {m_curr} ELSE {})
           \cup (refused \ {NULL})
=============================================================================
