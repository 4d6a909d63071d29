--------------------------- MODULE BufferedStreams ---------------------------
(***************************************************************************)
(* A tBufferedWritable over the writable end of a tStreamPCQ, and a        *)
(* tBufferedReadable over its readable end (source/rho/iWritable.cpp,      *)
(* source/rho/iReadable.cpp). Bytes are named by their position in what is *)
(* written, so what a buffer holds is known from where it begins.          *)
(***************************************************************************)
EXTENDS tStreamPCQ, SequencesExt

CONSTANTS
  WBufSize, RBufSize,          (* m_bufSize of the two                     *)
  WriteLengths, ReadLengths    (* the lengths callers pass                 *)

ASSUME StreamAssumption ==
    /\ WBufSize \in Nat \ {0} /\ RBufSize \in Nat \ {0}   \* else the constructors throw
    /\ WriteLengths \subseteq Nat \ {0} /\ ReadLengths \subseteq Nat \ {0}
    /\ Capacity \in Nat \ {0} /\ MaxBytes \in Nat /\ MaxChunks \in Nat
    /\ NoChunk \notin [buf : Nat, first : Nat, len : Nat]

VARIABLES
  w_bufUsed,                (* tBufferedWritable::m_bufUsed                *)
  wcall,                    (* the writer's call: what and how many bytes  *)
  r_first, r_bufUsed, r_pos,  (* tBufferedReadable: m_buf's first byte, m_bufUsed, m_pos *)
  rcall,                    (* the reader's call, and amountRead           *)
  \* history
  sent,                     (* bytes the writer's calls have taken         *)
  received,                 (* bytes the reader's calls have returned      *)
  ret,                      (* what the reader's last call returned        *)
  shorts,                   (* calls of the reader that came back short    *)
  closing,                  (* close has been called                       *)
  ended                     (* a (NULL, 0) is or has been in the queue     *)

writerVars == <<w_bufUsed, wcall, sent, closing>>
bufReaderVars == <<r_first, r_bufUsed, r_pos, rcall, received, ret, shorts>>
vars == <<streamVars, writerVars, bufReaderVars, ended>>

Call(op, len) == [op |-> op, len |-> len, done |-> 0]
None == Call("none", 0)
Gone == Call("gone", 0)

Init ==
    /\ StreamInit
    /\ w_bufUsed = 0 /\ wcall = None
    /\ r_first = 0 /\ r_bufUsed = 0 /\ r_pos = 0 /\ rcall = None
    /\ sent = 0 /\ received = <<>> /\ ret = 0 /\ shorts = 0
    /\ closing = FALSE /\ ended = FALSE
-----------------------------------------------------------------------------
(* The writer. Its thread is in a push while offer[Writer] is a chunk.     *)
Pushing == offer[Writer] # NoChunk

(* m_stream->writeAll(m_buf, m_bufUsed), which is one write.               *)
WriteBuffer == Write(sent - w_bufUsed + 1, w_bufUsed)

(* The program writes and flushes before it closes, and destroys the       *)
(* buffered stream before the stream below it, as the header asks.         *)
Idle == wcall = None /\ ~closing /\ allocs < MaxChunks - 1  \* one left to destroy with

CallWrite(len) ==
    /\ Idle /\ sent + len <= MaxBytes
    /\ wcall' = Call("write", len)
    /\ UNCHANGED <<streamVars, w_bufUsed, sent, closing, bufReaderVars, ended>>

RoomUnchecked(len) == len
Room(len) == Least(WBufSize - w_bufUsed, len)

WriteCopies ==
    /\ wcall.op = "write" /\ ~Pushing /\ w_bufUsed < WBufSize
    /\ w_bufUsed' = w_bufUsed + Room(wcall.len)
    /\ sent' = sent + Room(wcall.len)
    /\ wcall' = None
    /\ UNCHANGED <<streamVars, closing, bufReaderVars, ended>>

WriteFlushes ==
    /\ wcall.op = "write" /\ ~Pushing /\ w_bufUsed >= WBufSize
    /\ WriteBuffer
    /\ UNCHANGED <<writerVars, bufReaderVars, ended>>

CallFlush ==
    /\ Idle /\ w_bufUsed # 0
    /\ WriteBuffer
    /\ wcall' = Call("flush", 0)
    /\ UNCHANGED <<w_bufUsed, sent, closing, bufReaderVars, ended>>

CallClose ==
    /\ Idle /\ w_bufUsed = 0
    /\ Close
    /\ wcall' = Call("close", 0) /\ closing' = TRUE
    /\ UNCHANGED <<w_bufUsed, sent, bufReaderVars, ended>>

(* ~tBufferedWritable flushes, then ~tStreamPCQ closes.                    *)
CallDestroy ==
    /\ wcall = None
    /\ wcall' = Call(IF w_bufUsed = 0 THEN "close pcq" ELSE "destroy", 0)
    /\ IF w_bufUsed = 0 THEN Close ELSE WriteBuffer
    /\ UNCHANGED <<w_bufUsed, sent, closing, bufReaderVars, ended>>

DestroyCloses ==
    /\ wcall.op = "destroy" /\ ~Pushing
    /\ Close
    /\ wcall' = Call("close pcq", 0)
    /\ UNCHANGED <<w_bufUsed, sent, closing, bufReaderVars, ended>>

(* What a call does once its push is over.                                 *)
NextCall == CASE wcall.op \in {"write", "destroy"} -> wcall
              [] wcall.op = "close pcq" -> Gone
              [] OTHER -> None

FlushedKeeps == w_bufUsed
Flushed == 0

Returns ==
    /\ wcall' = NextCall
    /\ w_bufUsed' = Flushed
    /\ UNCHANGED <<sent, closing, bufReaderVars>>

PushReturns ==
    \/ /\ PushTakesEffect
       /\ ended' = (ended \/ IsEOF(offer[Writer]))
       /\ Returns
    \/ /\ PushRefused /\ behavior = "kDiscard"
       /\ Returns
       /\ UNCHANGED ended

(* The exception leaves write, flush and close with m_bufUsed as it was;   *)
(* the destructor of tBufferedWritable catches it and frees its buffer.    *)
PushThrows ==
    /\ PushRefused /\ behavior = "kThrow"
    /\ wcall' = IF wcall.op = "write" THEN None ELSE NextCall
    /\ w_bufUsed' = IF wcall.op = "destroy" THEN 0 ELSE w_bufUsed
    /\ UNCHANGED <<sent, closing, bufReaderVars, ended>>
-----------------------------------------------------------------------------
(* The reader: tBufferedReadable::read, and readAll as a loop of reads.    *)
CallRead(op, len) ==
    /\ rcall = None
    /\ rcall' = Call(op, len)
    /\ UNCHANGED <<streamVars, writerVars, r_first, r_bufUsed, r_pos, received, ret,
                   shorts, ended>>

InRead == rcall.op \in {"read", "readAll"} /\ request[Reader] = "none"
Empty == r_pos >= r_bufUsed

(* read gives n > 0 bytes, and readAll goes on until it has len.           *)
Takes ==
    LET n == Least(r_bufUsed - r_pos, rcall.len - rcall.done)
    IN  /\ InRead /\ ~Empty
        /\ r_pos' = r_pos + n
        /\ received' = received \o [j \in 1..n |-> r_first + r_pos + j - 1]
        /\ IF rcall.op = "readAll" /\ rcall.done + n < rcall.len
             THEN rcall' = [rcall EXCEPT !.done = @ + n] /\ UNCHANGED ret
             ELSE rcall' = None /\ ret' = rcall.done + n
        /\ UNCHANGED <<streamVars, writerVars, r_first, r_bufUsed, shorts, ended>>

(* read comes back with n, which is 0 or -1.                              *)
Ends(n) ==
    /\ rcall' = None
    /\ ret' = IF rcall.done > 0 THEN rcall.done ELSE n
    /\ shorts' = IF rcall.done > 0 \/ n = 0 THEN shorts + 1 ELSE shorts
    /\ UNCHANGED received

(* m_refill.                                                               *)
RefillCopies ==
    /\ InRead /\ Empty /\ ReadCopies(RBufSize)
    /\ r_first' = m_curr.first + m_off
    /\ r_bufUsed' = m_off' - m_off /\ r_pos' = 0
    /\ UNCHANGED <<writerVars, rcall, received, ret, shorts, ended>>

RefillPops ==
    /\ InRead /\ Empty /\ ReadPops
    /\ r_bufUsed' = 0 /\ r_pos' = 0
    /\ UNCHANGED <<writerVars, r_first, rcall, received, ret, shorts, ended>>

RefillGets ==
    /\ rcall.op \in {"read", "readAll"} /\ ReadGets(RBufSize)
    /\ r_first' = Head(buffer).first
    /\ r_bufUsed' = Least(Head(buffer).len, RBufSize) /\ r_pos' = 0
    /\ IF r_bufUsed' = 0 THEN Ends(0) ELSE UNCHANGED <<rcall, received, ret, shorts>>
    /\ UNCHANGED <<writerVars, ended>>

RefillFails ==
    /\ InRead /\ Empty /\ m_eof
    /\ r_bufUsed' = 0 /\ r_pos' = 0
    /\ Ends(-1)
    /\ UNCHANGED <<streamVars, writerVars, r_first, ended>>

(* ~tBufferedReadable, then ~tStreamPCQ.                                   *)
CallDestroyReader ==
    /\ rcall = None
    /\ rcall' = Call("drain", 0)
    /\ r_bufUsed' = 0 /\ r_pos' = 0
    /\ DeleteCurr
    /\ UNCHANGED <<writerVars, r_first, received, ret, shorts, ended>>

Drains ==
    /\ rcall.op = "drain"
    /\ \/ request[Reader] = "none" /\ DrainPops /\ UNCHANGED rcall
       \/ DrainDeletes /\ UNCHANGED rcall
       \/ request[Reader] = "none" /\ buffer = <<>> /\ rcall' = Gone /\ UNCHANGED streamVars
    /\ UNCHANGED <<writerVars, r_first, r_bufUsed, r_pos, received, ret, shorts, ended>>
-----------------------------------------------------------------------------
WriterStep ==
    WriteCopies \/ WriteFlushes \/ DestroyCloses \/ PushReturns \/ PushThrows
ReaderStep ==
    Takes \/ RefillCopies \/ RefillPops \/ RefillGets \/ RefillFails \/ Drains
Reads == \E op \in {"read", "readAll"}, len \in ReadLengths : CallRead(op, len)

Next ==
    \/ \E len \in WriteLengths : CallWrite(len)
    \/ CallFlush \/ CallClose \/ CallDestroy \/ WriterStep
    \/ Reads \/ CallDestroyReader \/ ReaderStep

(* Calls go on as long as they can, and the program reads until it is told *)
(* of the end.                                                             *)
Fairness ==
    /\ WF_vars(WriterStep) /\ WF_vars(ReaderStep)
    /\ WF_vars(shorts = 0 /\ Reads)

Spec == Init /\ [][Next]_vars /\ Fairness
-----------------------------------------------------------------------------
TypeOK ==
    /\ PCQ!Full \in BOOLEAN /\ behavior \in Behaviors
    /\ m_off \in 0..m_curr.len /\ m_eof \in BOOLEAN
    /\ heap \subseteq 1..allocs /\ allocs \in 0..MaxChunks
    /\ w_bufUsed \in 0..WBufSize
    /\ r_pos \in 0..r_bufUsed /\ r_bufUsed \in 0..RBufSize
    /\ sent \in 0..MaxBytes /\ ret \in -1..MaxBytes
    /\ wcall.op \in {"none", "write", "flush", "close", "destroy", "close pcq", "gone"}
    /\ rcall.op \in {"none", "read", "readAll", "drain", "gone"}

(* The streams implement Pipe: bytes are read in order, once each, and     *)
(* none is lost unless the queue discards or throws; the reader is told of *)
(* the end once, after the last byte, and of the closed stream after that. *)
ReaderThere == rcall.op \notin {"drain", "gone"}
Bytes(first, n) == first..(first + n - 1)
InReader == Bytes(r_first + r_pos, r_bufUsed - r_pos)
InCurr == Bytes(m_curr.first + m_off, m_curr.len - m_off)
Queued == UNION {Bytes(buffer[n].first, buffer[n].len) : n \in DOMAIN buffer}
InWriter == Bytes(sent - w_bufUsed + 1, w_bufUsed)
P == INSTANCE Pipe WITH
         lossy <- behavior \in {"kDiscard", "kThrow"},
         transit <- IF ReaderThere THEN InReader \cup InCurr \cup Queued \cup InWriter ELSE {},
         told <- shorts, closed <- (ret = -1), reading <- ReaderThere
Implements == P!Spec

(* A reader that stays gets every byte and is told of the end, once the    *)
(* end is in a queue that neither discards nor throws.                     *)
AllArrives ==
    (ended /\ behavior \in {"kBlock", "kGrow"})
      ~> (shorts = 1 /\ Len(received) = sent) \/ ~ReaderThere

(* The writer's calls end, close and the destructor included, as long as   *)
(* the reader stays.                                                       *)
WriterEnds == wcall \notin {None, Gone} ~> wcall \in {None, Gone} \/ ~ReaderThere
=============================================================================
