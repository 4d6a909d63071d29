------------------------------ MODULE tSocket ------------------------------
(***************************************************************************)
(* Two connected tSockets (source/rho/ip/tcp/tSocket.cpp), one way: the    *)
(* one that is written to, with its tBufferedWritable, and the one that is *)
(* read from, with its tBufferedReadable. Each has an owner that calls it, *)
(* and another thread that may call closeWrite or closeRead meanwhile.     *)
(* What close does to the other direction is left out.                     *)
(*                                                                         *)
(* The kernel is external: it takes and gives as many bytes as it likes,   *)
(* blocks, and where the connection is not reliable (a reset, an interrupt,*)
(* a setTimeout that ran out) fails any call. SIGPIPE is ignored.          *)
(***************************************************************************)
EXTENDS Integers, Sequences

CONSTANTS
  MaxBytes,                     (* bound: bytes written                    *)
  WBufSize, RBufSize,           (* m_bufSize of the two buffers            *)
  NetSize,                      (* the kernel's buffers                    *)
  WriteLengths, ReadLengths     (* the lengths callers pass                *)

ASSUME SocketAssumption ==
    /\ MaxBytes \in Nat /\ NetSize \in Nat \ {0}
    /\ WBufSize \in Nat \ {0} /\ RBufSize \in Nat \ {0}
    /\ WriteLengths \subseteq Nat \ {0} /\ ReadLengths \subseteq Nat \ {0}

Threads == {"writer", "write closer", "reader", "read closer"}
SideOf(t) == IF t \in {"writer", "write closer"} THEN "w" ELSE "r"

VARIABLES
  pc,                  (* where each thread is                             *)
  eof,                 (* m_writeEOF of "w", m_readEOF of "r"              *)
  m_closeMux,          (* of each socket: who holds it, or "free"          *)
  open,                (* m_fd of the written socket is a descriptor       *)
  w_bufUsed, wcall, off,  (* m_bufUsed; the writer's call; how much of the *)
                       (* buffer is written                                *)
  r_buf, rcall,        (* what the read buffer holds; the reader's call    *)
  net, shut,           (* the kernel: bytes under way, shutdown was called *)
  reliable,            (* whether calls of the kernel never fail           *)
  \* history
  sent, received,      (* bytes taken by write; bytes read                 *)
  flushed,             (* the writer's last call was a flush that succeeded*)
  told,                (* read has returned 0 or -1, readAll less than len *)
  fault                (* a failure, or a close that drops bytes           *)

writerVars == <<open, w_bufUsed, wcall, off, sent, flushed>>
readerVars == <<r_buf, rcall, received, told>>
closeVars == <<eof, m_closeMux, shut>>
vars == <<pc, closeVars, writerVars, readerVars, net, reliable, fault>>

Least(m, n) == IF m <= n THEN m ELSE n
Call(op, len) == [op |-> op, len |-> len, done |-> 0]
None == Call("none", 0)
Gone == Call("gone", 0)

Init ==
    /\ pc = [t \in Threads |-> "idle"]
    /\ eof = [s \in {"w", "r"} |-> FALSE] /\ shut = eof
    /\ m_closeMux = [s \in {"w", "r"} |-> "free"]
    /\ open = TRUE /\ w_bufUsed = 0 /\ wcall = None /\ off = 0
    /\ r_buf = <<>> /\ rcall = None /\ net = <<>>
    /\ reliable \in BOOLEAN
    /\ sent = 0 /\ received = <<>> /\ flushed = FALSE /\ told = FALSE /\ fault = FALSE

Goes(t, to) == pc' = [pc EXCEPT ![t] = to]
-----------------------------------------------------------------------------
(* closeRead and closeWrite, by any thread; the owners' go on from there.  *)
After(t) == IF t \in {"writer", "reader"} THEN "closed" ELSE "done"

(* The first form only sets the flag.                                      *)
CloseFlags(t) ==
    /\ pc[t] = "close"
    /\ eof' = [eof EXCEPT ![SideOf(t)] = TRUE]
    /\ Goes(t, After(t))
    /\ UNCHANGED <<m_closeMux, shut>>

CloseLocks(t) ==
    LET s == SideOf(t)
    IN  /\ pc[t] = "close" /\ m_closeMux[s] = "free"
        /\ IF eof[s]
             THEN Goes(t, After(t)) /\ UNCHANGED <<eof, m_closeMux>>
             ELSE /\ eof' = [eof EXCEPT ![s] = TRUE]
                  /\ m_closeMux' = [m_closeMux EXCEPT ![s] = t]
                  /\ Goes(t, "shutdown")
        /\ UNCHANGED shut

CloseShuts(t) ==
    LET s == SideOf(t)
    IN  /\ pc[t] = "shutdown"
        /\ shut' = [shut EXCEPT ![s] = TRUE]
        /\ m_closeMux' = [m_closeMux EXCEPT ![s] = "free"]
        /\ Goes(t, After(t))
        /\ UNCHANGED eof

Closes(t) ==
    /\ CloseLocks(t) \/ CloseShuts(t)
    /\ UNCHANGED <<writerVars, readerVars, net, reliable, fault>>

CallCloser(t) ==
    /\ t \in {"write closer", "read closer"} /\ pc[t] = "idle"
    /\ t = "write closer" => open
    /\ Goes(t, "close") /\ fault' = TRUE
    /\ UNCHANGED <<closeVars, writerVars, readerVars, net, reliable>>
-----------------------------------------------------------------------------
(* The writer. write and writeAll return 0 once m_writeEOF is set.         *)
WriterIdle == pc["writer"] = "idle" /\ wcall # Gone
WriterReturns == wcall' = None /\ Goes("writer", "idle")

CallWrite(op, len) ==
    /\ WriterIdle /\ ~eof["w"] /\ sent + len <= MaxBytes
    /\ wcall' = Call(op, len) /\ flushed' = FALSE
    /\ Goes("writer", "copy")
    /\ UNCHANGED <<closeVars, open, w_bufUsed, off, sent, readerVars, net, reliable, fault>>

Copies ==
    LET n == Least(WBufSize - w_bufUsed, wcall.len - wcall.done)
    IN  /\ pc["writer"] = "copy" /\ w_bufUsed < WBufSize
        /\ w_bufUsed' = w_bufUsed + n /\ sent' = sent + n
        /\ IF wcall.op = "writeAll" /\ wcall.done + n < wcall.len
             THEN wcall' = [wcall EXCEPT !.done = @ + n] /\ UNCHANGED pc
             ELSE WriterReturns
        /\ UNCHANGED <<closeVars, open, off, flushed, readerVars, net, reliable, fault>>

CopyFlushes ==
    /\ pc["writer"] = "copy" /\ w_bufUsed >= WBufSize
    /\ Goes("writer", "flush")
    /\ UNCHANGED <<closeVars, writerVars, readerVars, net, reliable, fault>>

(* flush; close, which flushes and then closes; closeWrite, which does not *)
(* flush; the destructor, which gives up the descriptor before that of     *)
(* m_bufferedWritable flushes. What is in the buffer is lost in these two. *)
CallFlush(op) ==
    /\ WriterIdle
    /\ wcall' = Call(op, 0) /\ flushed' = FALSE
    /\ Goes("writer", IF op = "closeWrite" THEN "close" ELSE "flush")
    /\ fault' = (fault \/ (op \in {"closeWrite", "destroy"} /\ w_bufUsed > 0))
    /\ IF op = "destroy"
         THEN pc["write closer"] \in {"idle", "done"} /\ open' = FALSE
              /\ shut' = [shut EXCEPT !["w"] = TRUE]
         ELSE UNCHANGED <<open, shut>>
    /\ UNCHANGED <<eof, m_closeMux, w_bufUsed, off, sent, readerVars, net, reliable>>

(* flush comes back to the call that made it.                              *)
FlushReturns(ok) ==
    CASE wcall.op \in {"write", "writeAll"} ->
             IF ok THEN Goes("writer", "copy") /\ UNCHANGED <<wcall, flushed>>
                   ELSE WriterReturns /\ UNCHANGED flushed
      [] wcall.op = "flush" -> WriterReturns /\ flushed' = ok
      [] wcall.op = "close" ->
             wcall' = Call("closeWrite", 0) /\ Goes("writer", "close") /\ UNCHANGED flushed
      [] wcall.op = "destroy" ->
             wcall' = Gone /\ Goes("writer", "idle") /\ UNCHANGED flushed

Flushes ==
    /\ pc["writer"] = "flush"
    /\ IF w_bufUsed = 0 THEN FlushReturns(TRUE) /\ UNCHANGED off
       ELSE off' = 0 /\ Goes("writer", "m_write") /\ UNCHANGED <<wcall, flushed>>
    /\ UNCHANGED <<closeVars, open, w_bufUsed, sent, readerVars, net, reliable, fault>>

(* writeAll's loop around m_write, which looks at m_writeEOF before it     *)
(* calls the kernel.                                                       *)
MWrite ==
    /\ pc["writer"] = "m_write"
    /\ IF eof["w"] THEN FlushReturns(FALSE)
       ELSE Goes("writer", "::write") /\ UNCHANGED <<wcall, flushed>>
    /\ UNCHANGED <<closeVars, open, w_bufUsed, off, sent, readerVars, net, reliable, fault>>

(* The first form takes a short write for a whole one.                     *)
AllWrittenAtOnce(n) == TRUE
AllWritten(n) == off + n = w_bufUsed

KernelTakes(n) ==
    /\ pc["writer"] = "::write" /\ open /\ ~shut["w"]
    /\ off + n <= w_bufUsed /\ Len(net) + n <= NetSize
    /\ net' = net \o [j \in 1..n |-> sent - w_bufUsed + off + j]
    /\ IF AllWritten(n)
         THEN w_bufUsed' = 0 /\ off' = 0 /\ FlushReturns(TRUE)
         ELSE /\ off' = off + n /\ Goes("writer", "m_write")
              /\ UNCHANGED <<w_bufUsed, wcall, flushed>>
    /\ UNCHANGED <<closeVars, open, sent, readerVars, reliable, fault>>

(* A failed ::write closes, for no later write may follow the gap.         *)
KernelRefusesForNow == Goes("writer", "closed")
KernelRefuses == Goes("writer", "close")

WriteFails ==
    /\ pc["writer"] = "::write" /\ (shut["w"] \/ ~open \/ ~reliable)
    /\ KernelRefuses
    /\ fault' = TRUE
    /\ UNCHANGED <<closeVars, writerVars, readerVars, net, reliable>>

WriterClosed ==
    /\ pc["writer"] = "closed"
    /\ IF wcall.op = "closeWrite" THEN WriterReturns /\ UNCHANGED flushed
       ELSE FlushReturns(FALSE)
    /\ UNCHANGED <<closeVars, open, w_bufUsed, off, sent, readerVars, net, reliable, fault>>
-----------------------------------------------------------------------------
(* The reader. read and readAll return -1 once m_readEOF is set.           *)
CallRead(op, len) ==
    /\ pc["reader"] = "idle"
    /\ IF eof["r"]
         THEN told' = TRUE /\ UNCHANGED <<pc, rcall>>
         ELSE rcall' = Call(op, len) /\ Goes("reader", "copy") /\ UNCHANGED told
    /\ UNCHANGED <<closeVars, writerVars, r_buf, received, net, reliable, fault>>

ReaderReturns == rcall' = None /\ Goes("reader", "idle")

Takes ==
    LET n == Least(Len(r_buf), rcall.len - rcall.done)
    IN  /\ pc["reader"] = "copy" /\ r_buf # <<>>
        /\ received' = received \o SubSeq(r_buf, 1, n)
        /\ r_buf' = SubSeq(r_buf, n + 1, Len(r_buf))
        /\ IF rcall.op = "readAll" /\ rcall.done + n < rcall.len
             THEN rcall' = [rcall EXCEPT !.done = @ + n] /\ UNCHANGED pc
             ELSE ReaderReturns
        /\ UNCHANGED <<closeVars, writerVars, told, net, reliable, fault>>

(* m_refill and m_read.                                                    *)
MRead ==
    /\ pc["reader"] = "copy" /\ r_buf = <<>>
    /\ IF eof["r"] THEN told' = TRUE /\ ReaderReturns
       ELSE Goes("reader", "::read") /\ UNCHANGED <<told, rcall>>
    /\ UNCHANGED <<closeVars, writerVars, r_buf, received, net, reliable, fault>>

KernelGives(n) ==
    /\ pc["reader"] = "::read" /\ n <= RBufSize
    /\ r_buf' = SubSeq(net, 1, n) /\ net' = SubSeq(net, n + 1, Len(net))
    /\ Goes("reader", "copy")
    /\ UNCHANGED <<closeVars, writerVars, rcall, received, told, reliable, fault>>

(* The end and a failure look the same to m_read.                          *)
ReadFails ==
    /\ pc["reader"] = "::read"
    /\ \/ net = <<>> /\ (shut["w"] \/ shut["r"]) /\ UNCHANGED fault
       \/ ~reliable /\ fault' = TRUE
    /\ Goes("reader", "close")
    /\ UNCHANGED <<closeVars, writerVars, readerVars, net, reliable>>

ReaderClosed ==
    /\ pc["reader"] = "closed"
    /\ told' = TRUE /\ ReaderReturns
    /\ UNCHANGED <<closeVars, writerVars, r_buf, received, net, reliable, fault>>
-----------------------------------------------------------------------------
WriterStep ==
    \/ Copies \/ CopyFlushes \/ Flushes \/ MWrite \/ WriteFails \/ WriterClosed
    \/ \E n \in 1..w_bufUsed : KernelTakes(n)
    \/ Closes("writer")
ReaderStep ==
    \/ Takes \/ MRead \/ ReadFails \/ ReaderClosed
    \/ \E n \in 1..Len(net) : KernelGives(n)
    \/ Closes("reader")
Reads == \E op \in {"read", "readAll"}, len \in ReadLengths : CallRead(op, len)

Next ==
    \/ \E op \in {"write", "writeAll"}, len \in WriteLengths : CallWrite(op, len)
    \/ \E op \in {"flush", "close", "closeWrite", "destroy"} : CallFlush(op)
    \/ \E t \in Threads : CallCloser(t)
    \/ WriterStep \/ Reads \/ ReaderStep
    \/ Closes("write closer") \/ Closes("read closer")

(* Every thread goes on with its call as soon as it can, a short read or   *)
(* write of the kernel comes when it is possible, and the program reads    *)
(* until it is told of the end.                                            *)
Fairness ==
    /\ WF_vars(WriterStep) /\ WF_vars(ReaderStep)
    /\ WF_vars(Closes("write closer")) /\ WF_vars(Closes("read closer"))
    /\ WF_vars(~told /\ Reads)

Spec == Init /\ [][Next]_vars /\ Fairness
-----------------------------------------------------------------------------
(* When flush has returned true, the kernel has every byte that write ever *)
(* took: none is left in the buffer, none was dropped by a short write or  *)
(* by an earlier flush that failed.                                        *)
FlushIsTrue == flushed => Len(received) + Len(r_buf) + Len(net) = sent

(* The sockets are a Conduit: whatever is written short, fails, is closed  *)
(* by another thread or destroyed too early, what is read is what was      *)
(* written, from the first byte on and without a gap; a flush that is      *)
(* tried again does not send again; and where nothing failed, the end is   *)
(* told to a reader, after the last byte.                                  *)
C == INSTANCE Conduit WITH taken <- sent, ended <- shut["w"], broken <- fault
Implements == C!Spec /\ C!EndIsTold

(* Calls end: a reader that waits is woken when the other end, or another  *)
(* thread at this end, closes, and a writer that waits when the reader     *)
(* reads or another thread closes.                                         *)
ReaderEnds == (shut["w"] \/ eof["r"]) /\ pc["reader"] # "idle" ~> pc["reader"] = "idle"
WriterEnds == pc["writer"] # "idle" ~> pc["writer"] = "idle" \/ (told /\ ~eof["w"])
CallsEnd == ReaderEnds /\ WriterEnds
=============================================================================
