--------------------------- MODULE tSocket_proofs ---------------------------
(***************************************************************************)
(* For buffers, kernel buffers and calls of any size: a flush of a tSocket *)
(* that returns true is true, and two connected sockets are a Conduit.     *)
(*                                                                         *)
(* The invariant is stated, and the proofs are made, in terms of the       *)
(* places of the four threads and the flags of the two sides, by name.     *)
(***************************************************************************)
EXTENDS tSocket, SequenceTheorems, TLAPS

Writer == pc["writer"]
WriteCloser == pc["write closer"]
Reader == pc["reader"]
ReadCloser == pc["read closer"]
WriteEOF == eof["w"]
ReadEOF == eof["r"]
WriteShut == shut["w"]
ReadShut == shut["r"]
Op == wcall.op
Writing == Op \in {"write", "writeAll"}

Placed == pc = [t \in Threads |-> pc[t]]

(* A record like those that Call makes, with no more done than there is to *)
(* do. Which place or call a name stands for is left to Owners.            *)
IsCall(c) == /\ c = [op |-> c.op, len |-> c.len, done |-> c.done]
             /\ c.len \in Nat /\ c.done \in Nat /\ c.done <= c.len

Types ==
    /\ Placed
    /\ eof \in [{"w", "r"} -> BOOLEAN] /\ shut \in [{"w", "r"} -> BOOLEAN]
    /\ fault \in BOOLEAN
    /\ IsCall(wcall) /\ IsCall(rcall)

Numbers ==
    /\ w_bufUsed \in Nat /\ off \in Nat /\ off <= w_bufUsed /\ sent \in Nat
    /\ received \in Seq(Nat) /\ r_buf \in Seq(Nat) /\ net \in Seq(Nat)

(* What each owner is doing where it is: only a write copies, closeWrite   *)
(* does not flush, and the kernel is asked when the buffer is empty.       *)
Owners ==
    /\ Writer = "idle" => wcall \in {None, Gone}
    /\ Writer # "idle" => Op \in {"write", "writeAll", "flush", "close", "closeWrite", "destroy"}
    /\ Writer = "copy" => Writing
    /\ Writer \in {"flush", "m_write", "::write"} => Op # "closeWrite"
    /\ Reader = "::read" => r_buf = <<>>

(* The bytes received, in the reader's buffer and under way are the first  *)
(* ones written, in order.                                                 *)
Numbered(s, k) == \A j \in 1..Len(s) : s[j] = k + j
InOrder ==
    /\ Numbered(received, 0)
    /\ Numbered(r_buf, Len(received))
    /\ Numbered(net, Len(received) + Len(r_buf))

(* They are what was written, less what the buffer holds but for the part  *)
(* that a flush in progress has written. A flush that failed in the middle *)
(* has closed; then a later one may forget the part, and writes nothing.   *)
Moved == Len(received) + Len(r_buf) + Len(net)
Accounts ==
    /\ Moved <= sent
    /\ \/ Moved = sent - w_bufUsed + off
       \/ WriteEOF /\ Writer # "::write" /\ w_bufUsed > 0
    /\ off > 0 => off < w_bufUsed /\ (WriteEOF \/ Writer \in {"m_write", "::write", "close"})
    /\ flushed => w_bufUsed = 0 /\ Writer = "idle"

(* How a side comes to be closed. A write in progress whose side is closed *)
(* has failed, or another thread closed it. Where nothing failed and no    *)
(* other thread closed, the writer had nothing left in its buffer, and the *)
(* reader had read everything.                                             *)
Closing ==
    /\ WriteCloser # "idle" => fault
    /\ ReadCloser # "idle" => fault
    /\ Writing /\ (WriteEOF \/ Writer \in {"close", "shutdown", "closed"}) => fault
    /\ Writer \in {"shutdown", "closed"} => WriteEOF
    /\ WriteCloser = "shutdown" => WriteEOF
    /\ Reader \in {"shutdown", "closed"} => ReadEOF
    /\ ReadCloser = "shutdown" => ReadEOF
    /\ WriteShut => WriteEOF \/ ~open
    /\ ReadShut => ReadEOF
    /\ ~open => Op \in {"destroy", "gone"}
    /\ told => ReadEOF /\ Reader = "idle"
    /\ WriteEOF \/ ~open \/ Op = "closeWrite" \/ Writer \in {"close", "shutdown"}
          => fault \/ w_bufUsed = 0
    /\ ReadEOF \/ Reader \in {"close", "shutdown", "closed"}
          => fault \/ (WriteShut /\ net = <<>> /\ r_buf = <<>>)

SocketInv == Types /\ Numbers /\ Owners /\ InOrder /\ Accounts /\ Closing
-----------------------------------------------------------------------------
(* Threads, flags and calls.                                               *)
LEMMA ThreadMoves ==
  ASSUME Placed, NEW t \in Threads, NEW to, Goes(t, to)
  PROVE  /\ Placed'
         /\ Writer' = IF t = "writer" THEN to ELSE Writer
         /\ WriteCloser' = IF t = "write closer" THEN to ELSE WriteCloser
         /\ Reader' = IF t = "reader" THEN to ELSE Reader
         /\ ReadCloser' = IF t = "read closer" THEN to ELSE ReadCloser
BY DEF Placed, Threads, Goes, Writer, WriteCloser, Reader, ReadCloser

LEMMA WriterMoves ==
  ASSUME Placed, NEW to, Goes("writer", to)
  PROVE  /\ Placed'
         /\ Writer' = to /\ UNCHANGED <<WriteCloser, Reader, ReadCloser>>
BY DEF Placed, Threads, Goes, Writer, WriteCloser, Reader, ReadCloser

LEMMA ReaderMoves ==
  ASSUME Placed, NEW to, Goes("reader", to)
  PROVE  /\ Placed'
         /\ Reader' = to /\ UNCHANGED <<WriteCloser, Writer, ReadCloser>>
BY DEF Placed, Threads, Goes, Writer, WriteCloser, Reader, ReadCloser

LEMMA Still ==
  ASSUME UNCHANGED pc
  PROVE  UNCHANGED <<Writer, WriteCloser, Reader, ReadCloser>>
BY DEF Writer, WriteCloser, Reader, ReadCloser

LEMMA FlagsStay ==
  ASSUME UNCHANGED <<eof, shut>>
  PROVE  UNCHANGED <<WriteEOF, ReadEOF, WriteShut, ReadShut>>
BY DEF WriteEOF, ReadEOF, WriteShut, ReadShut

LEMMA NewCall ==
  ASSUME NEW op, NEW len \in Nat
  PROVE  IsCall(Call(op, len)) /\ Call(op, len).op = op
BY DEF Call, IsCall

LEMMA NoCall == /\ IsCall(None) /\ None.op = "none"
                /\ IsCall(Gone) /\ Gone.op = "gone"
                /\ None # Gone
<1>1. None.op = "none" /\ Gone.op = "gone"
  BY DEF None, Gone, Call
<1> QED BY <1>1, NewCall DEF None, Gone

LEMMA CallGoesOn ==
  ASSUME NEW c, IsCall(c), NEW n \in Nat, c.done + n <= c.len
  PROVE  LET d == [c EXCEPT !.done = @ + n]
         IN  IsCall(d) /\ d.op = c.op
BY DEF IsCall
-----------------------------------------------------------------------------
(* Sequences of numbered bytes.                                            *)
LEMMA CutNumbered ==
  ASSUME NEW s \in Seq(Nat), NEW k \in Nat, Numbered(s, k), NEW n \in 0..Len(s)
  PROVE  /\ SubSeq(s, 1, n) \in Seq(Nat) /\ Len(SubSeq(s, 1, n)) = n
         /\ Numbered(SubSeq(s, 1, n), k)
         /\ SubSeq(s, n + 1, Len(s)) \in Seq(Nat)
         /\ Len(SubSeq(s, n + 1, Len(s))) = Len(s) - n
         /\ Numbered(SubSeq(s, n + 1, Len(s)), k + n)
         /\ SubSeq(s, 1, n) = [j \in 1..n |-> k + j]
<1>1. SubSeq(s, 1, n) \in Seq(Nat) /\ Len(SubSeq(s, 1, n)) = n
      /\ \A j \in 1..n : SubSeq(s, 1, n)[j] = s[j]
  OBVIOUS
<1>2. SubSeq(s, n + 1, Len(s)) \in Seq(Nat) /\ Len(SubSeq(s, n + 1, Len(s))) = Len(s) - n
      /\ \A j \in 1..Len(s) - n : SubSeq(s, n + 1, Len(s))[j] = s[n + j]
  OBVIOUS
<1>3. Numbered(SubSeq(s, 1, n), k) /\ Numbered(SubSeq(s, n + 1, Len(s)), k + n)
  BY <1>1, <1>2 DEF Numbered
<1>4. SubSeq(s, 1, n) = [j \in 1..n |-> k + j]
  BY <1>1 DEF Numbered
<1> QED BY <1>1, <1>2, <1>3, <1>4

LEMMA JoinNumbered ==
  ASSUME NEW s \in Seq(Nat), NEW t \in Seq(Nat), NEW k \in Nat,
         Numbered(s, k), Numbered(t, k + Len(s))
  PROVE  /\ s \o t \in Seq(Nat) /\ Len(s \o t) = Len(s) + Len(t)
         /\ Numbered(s \o t, k)
<1>1. /\ s \o t \in Seq(Nat) /\ Len(s \o t) = Len(s) + Len(t)
      /\ \A j \in 1..Len(s) : (s \o t)[j] = s[j]
      /\ \A j \in 1..Len(t) : (s \o t)[Len(s) + j] = t[j]
  OBVIOUS
<1>2. ASSUME NEW j \in 1..Len(s \o t) PROVE (s \o t)[j] = k + j
  <2>1. CASE j \in 1..Len(s) BY <2>1, <1>1 DEF Numbered
  <2>2. CASE j \notin 1..Len(s)
    <3>1. j - Len(s) \in 1..Len(t) /\ Len(s) + (j - Len(s)) = j BY <2>2, <1>1
    <3>2. (s \o t)[j] = t[j - Len(s)] BY <3>1, <1>1
    <3> QED BY <3>1, <3>2 DEF Numbered
  <2> QED BY <2>1, <2>2
<1> QED BY <1>1, <1>2 DEF Numbered

LEMMA NewNumbered ==
  ASSUME NEW k \in Nat, NEW n \in Nat
  PROVE  /\ [j \in 1..n |-> k + j] \in Seq(Nat) /\ Len([j \in 1..n |-> k + j]) = n
         /\ Numbered([j \in 1..n |-> k + j], k)
BY DEF Numbered

LEMMA NothingNumbered == \A k : Numbered(<<>>, k)
BY DEF Numbered
-----------------------------------------------------------------------------
LEMMA InitSocketInv == Init => SocketInv
<1> SUFFICES ASSUME Init PROVE SocketInv OBVIOUS
<1>1. Writer = "idle" /\ WriteCloser = "idle" /\ Reader = "idle" /\ ReadCloser = "idle"
      /\ Placed
  BY DEF Init, Placed, Writer, WriteCloser, Reader, ReadCloser, Threads
<1>2. ~WriteEOF /\ ~ReadEOF /\ ~WriteShut /\ ~ReadShut
      /\ eof \in [{"w", "r"} -> BOOLEAN] /\ shut \in [{"w", "r"} -> BOOLEAN]
  BY DEF Init, WriteEOF, ReadEOF, WriteShut, ReadShut
<1>3. Op = "none" /\ IsCall(wcall) /\ IsCall(rcall) BY NoCall DEF Init, Op
<1>4. Types /\ Numbers
  <2>1. <<>> \in Seq(Nat) OBVIOUS
  <2>2. Numbers BY <2>1 DEF Init, Numbers
  <2>3. fault \in BOOLEAN BY DEF Init
  <2> QED BY <2>2, <2>3, <1>1, <1>2, <1>3 DEF Types
<1>5. Owners BY <1>1 DEF Init, Owners
<1>6. InOrder BY NothingNumbered DEF Init, InOrder
<1>7. Accounts BY <1>1 DEF Init, Accounts, Moved
<1>8. Closing BY <1>1, <1>2, <1>3 DEF Init, Closing, Writing
<1> QED BY <1>4, <1>5, <1>6, <1>7, <1>8 DEF SocketInv

(* The ways in which flush comes back.                                     *)
Back(ok) ==
    \/ Writing /\ ok /\ Writer' = "copy" /\ UNCHANGED <<wcall, flushed>>
    \/ Writing /\ ~ok /\ Writer' = "idle" /\ wcall' = None /\ UNCHANGED flushed
    \/ Op = "flush" /\ Writer' = "idle" /\ wcall' = None /\ flushed' = ok
    \/ Op = "close" /\ Writer' = "close" /\ wcall' = Call("closeWrite", 0) /\ UNCHANGED flushed
    \/ Op = "destroy" /\ Writer' = "idle" /\ wcall' = Gone /\ UNCHANGED flushed

LEMMA FlushComesBack ==
  ASSUME Placed, Owners, NEW ok \in BOOLEAN,
         Writer # "idle", Op # "closeWrite", FlushReturns(ok)
  PROVE  /\ Back(ok)
         /\ Placed' /\ UNCHANGED <<WriteCloser, Reader, ReadCloser>>
<1>1. CASE Writing
  <2>1. \/ ok /\ Goes("writer", "copy") /\ UNCHANGED <<wcall, flushed>>
        \/ ~ok /\ Goes("writer", "idle") /\ wcall' = None /\ UNCHANGED flushed
    BY <1>1 DEF FlushReturns, Writing, Op, WriterReturns
  <2> QED BY <2>1, <1>1, WriterMoves DEF Back
<1>2. CASE Op = "flush"
  <2>1. Goes("writer", "idle") /\ wcall' = None /\ flushed' = ok
    BY <1>2 DEF FlushReturns, Op, WriterReturns
  <2> QED BY <2>1, <1>2, WriterMoves DEF Back
<1>3. CASE Op = "close"
  <2>1. Goes("writer", "close") /\ wcall' = Call("closeWrite", 0) /\ UNCHANGED flushed
    BY <1>3 DEF FlushReturns, Op
  <2> QED BY <2>1, <1>3, WriterMoves DEF Back
<1>4. CASE Op = "destroy"
  <2>1. Goes("writer", "idle") /\ wcall' = Gone /\ UNCHANGED flushed
    BY <1>4 DEF FlushReturns, Op
  <2> QED BY <2>1, <1>4, WriterMoves DEF Back
<1> QED BY <1>1, <1>2, <1>3, <1>4 DEF Owners, Writing

LEMMA BackKeepsCall ==
  ASSUME NEW ok, Back(ok), IsCall(wcall)
  PROVE  /\ IsCall(wcall')
         /\ Op' \in {Op, "none", "gone", "closeWrite"}
<1>1. CASE wcall' = wcall BY <1>1 DEF Op
<1>2. CASE wcall' = None BY <1>2, NoCall DEF Op
<1>3. CASE wcall' = Gone BY <1>3, NoCall DEF Op
<1>4. CASE wcall' = Call("closeWrite", 0) BY <1>4, NewCall DEF Op
<1> QED BY <1>1, <1>2, <1>3, <1>4 DEF Back
-----------------------------------------------------------------------------
(* The writer calls.                                                       *)
LEMMA CallWriteKeeps ==
  ASSUME SocketInv, NEW op \in {"write", "writeAll"}, NEW len \in WriteLengths, CallWrite(op, len)
  PROVE  SocketInv'
<1>1. /\ Writer = "idle" /\ ~WriteEOF /\ wcall # Gone /\ wcall' = Call(op, len) /\ ~flushed'
      /\ Goes("writer", "copy") /\ len \in Nat
      /\ UNCHANGED <<eof, shut, open, w_bufUsed, off, sent, r_buf, rcall, received, told, net, fault>>
  BY SocketAssumption DEF CallWrite, WriterIdle, Writer, WriteEOF, closeVars, readerVars, SocketAssumption
<1>2. Placed' /\ Writer' = "copy" /\ UNCHANGED <<WriteCloser, Reader, ReadCloser>>
  BY <1>1, WriterMoves DEF SocketInv, Types
<1>3. IsCall(wcall') /\ Op' = op
  BY <1>1, NewCall DEF Op
<1>4. UNCHANGED <<WriteEOF, ReadEOF, WriteShut, ReadShut>>
  BY <1>1, FlagsStay
<1>5. open
  BY <1>1, NoCall DEF SocketInv, Owners, Closing, Op
<1>6. Types' /\ Numbers' BY <1>1, <1>2, <1>3 DEF SocketInv, Types, Numbers
<1>7. InOrder' BY <1>1 DEF SocketInv, InOrder
<1>8. Accounts' BY <1>1, <1>2, <1>4 DEF SocketInv, Accounts, Moved
<1>9. Owners' /\ Closing'
  BY <1>1, <1>2, <1>3, <1>4, <1>5 DEF SocketInv, Owners, Closing, Writing
<1> QED BY <1>6, <1>7, <1>8, <1>9 DEF SocketInv

LEMMA CallFlushKeeps ==
  ASSUME SocketInv, NEW op \in {"flush", "close", "closeWrite", "destroy"}, CallFlush(op)
  PROVE  SocketInv'
<1>1. /\ Writer = "idle" /\ wcall # Gone /\ wcall' = Call(op, 0) /\ ~flushed'
      /\ Goes("writer", IF op = "closeWrite" THEN "close" ELSE "flush")
      /\ UNCHANGED <<eof, w_bufUsed, off, sent, r_buf, rcall, received, told, net>>
      /\ fault' = (fault \/ (op \in {"closeWrite", "destroy"} /\ w_bufUsed > 0))
  BY DEF CallFlush, WriterIdle, Writer, readerVars
<1>2. Placed' /\ Writer' = (IF op = "closeWrite" THEN "close" ELSE "flush")
      /\ UNCHANGED <<WriteCloser, Reader, ReadCloser>>
  BY <1>1, WriterMoves DEF SocketInv, Types
<1>3. IsCall(wcall') /\ Op' = op
  BY <1>1, NewCall DEF Op
<1>4. UNCHANGED <<WriteEOF, ReadEOF>>
  BY <1>1 DEF WriteEOF, ReadEOF
<1>5. /\ UNCHANGED ReadShut /\ shut' \in [{"w", "r"} -> BOOLEAN]
      /\ op # "destroy" => UNCHANGED <<WriteShut, open>>
      /\ op = "destroy" => WriteShut' /\ ~open'
  BY DEF CallFlush, WriteShut, ReadShut, SocketInv, Types
<1>6. open
  BY <1>1, NoCall DEF SocketInv, Owners, Closing, Op
<1>7. /\ fault' \in BOOLEAN /\ (fault => fault')
      /\ op \in {"closeWrite", "destroy"} => fault' \/ w_bufUsed = 0
  <2>1. w_bufUsed \in Nat BY DEF SocketInv, Numbers
  <2>2. fault \in BOOLEAN BY DEF SocketInv, Types
  <2>3. fault' \in BOOLEAN BY <1>1
  <2>4. fault => fault' BY <1>1
  <2>5. op \in {"closeWrite", "destroy"} /\ w_bufUsed # 0 => fault'
    <3>1. w_bufUsed # 0 => w_bufUsed > 0 BY <2>1
    <3> QED BY <1>1, <3>1, Zenon
  <2> QED BY <2>3, <2>4, <2>5
<1>8. Types' /\ Numbers' BY <1>1, <1>2, <1>3, <1>5, <1>7 DEF SocketInv, Types, Numbers
<1>9. InOrder' BY <1>1 DEF SocketInv, InOrder
<1>10. Accounts' BY <1>1, <1>2, <1>4 DEF SocketInv, Accounts, Moved
<1>11. Owners'
  BY <1>1, <1>2, <1>3 DEF SocketInv, Owners, Writing
<1>12. Closing'
  <2> USE <1>1, <1>2, <1>3, <1>4, <1>5, <1>6, <1>7 DEF SocketInv, Closing, Writing
  <2>1. CASE op \in {"flush", "close"}
    <3>1. UNCHANGED <<WriteShut, open>> /\ Writer' = "flush" BY <2>1
    <3> QED BY <2>1, <3>1
  <2>2. CASE op = "closeWrite" BY <2>2
  <2>3. CASE op = "destroy" BY <2>3
  <2> QED BY <2>1, <2>2, <2>3
<1> QED BY <1>8, <1>9, <1>10, <1>11, <1>12 DEF SocketInv

LEMMA CallCloserKeeps ==
  ASSUME SocketInv, NEW t \in Threads, CallCloser(t)
  PROVE  SocketInv'
<1>1. /\ t \in {"write closer", "read closer"} /\ fault' = TRUE /\ Goes(t, "close")
      /\ UNCHANGED <<eof, shut, open, w_bufUsed, wcall, off, sent, flushed,
                     r_buf, rcall, received, told, net>>
  BY DEF CallCloser, closeVars, writerVars, readerVars
<1>2. /\ Placed' /\ UNCHANGED <<Writer, Reader>>
      /\ WriteCloser' \in {WriteCloser, "close"} /\ ReadCloser' \in {ReadCloser, "close"}
  BY <1>1, ThreadMoves DEF SocketInv, Types
<1>3. UNCHANGED <<WriteEOF, ReadEOF, WriteShut, ReadShut, Op>>
  BY <1>1, FlagsStay DEF Op
<1>4. Types' /\ Numbers' BY <1>1, <1>2 DEF SocketInv, Types, Numbers
<1>5. InOrder' BY <1>1 DEF SocketInv, InOrder
<1>6. Accounts' BY <1>1, <1>2, <1>3 DEF SocketInv, Accounts, Moved
<1>7. Owners' /\ Closing'
  BY <1>1, <1>2, <1>3, ZenonT(30) DEF SocketInv, Owners, Closing, Writing
<1> QED BY <1>4, <1>5, <1>6, <1>7 DEF SocketInv
-----------------------------------------------------------------------------
(* The writer goes on.                                                     *)
LEMMA CopiesKeeps ==
  ASSUME SocketInv, Copies
  PROVE  SocketInv'
<1> DEFINE n == Least(WBufSize - w_bufUsed, wcall.len - wcall.done)
<1>1. /\ Writer = "copy" /\ w_bufUsed < WBufSize
      /\ w_bufUsed' = w_bufUsed + n /\ sent' = sent + n
      /\ \/ wcall' = [wcall EXCEPT !.done = @ + n] /\ UNCHANGED pc
         \/ wcall' = None /\ Goes("writer", "idle")
      /\ UNCHANGED <<eof, shut, open, off, flushed, r_buf, rcall, received, told, net, fault>>
  BY DEF Copies, WriterReturns, Writer, closeVars, readerVars
<1>2. n \in Nat /\ wcall.done + n <= wcall.len
  <2>1. w_bufUsed \in Nat /\ WBufSize \in Nat
    BY SocketAssumption DEF SocketInv, Numbers, SocketAssumption
  <2>2. wcall.len \in Nat /\ wcall.done \in Nat /\ wcall.done <= wcall.len
    BY DEF SocketInv, Types, IsCall
  <2> QED BY <1>1, <2>1, <2>2 DEF Least
<1> HIDE DEF n
<1>3. Writing /\ ~flushed /\ (off = 0 \/ (off < w_bufUsed /\ WriteEOF))
  BY <1>1 DEF SocketInv, Owners, Accounts, Numbers
<1>4. IsCall(wcall') /\ Op' \in {Op, "none"} /\ (UNCHANGED pc => Op' = Op)
      /\ (Goes("writer", "idle") => wcall' = None \/ UNCHANGED pc)
  <2>1. CASE wcall' = [wcall EXCEPT !.done = @ + n] /\ UNCHANGED pc
    BY <2>1, <1>2, CallGoesOn DEF SocketInv, Types, Op
  <2>2. CASE wcall' = None /\ Goes("writer", "idle")
    <3>1. Writer' = "idle" BY <2>2, WriterMoves DEF SocketInv, Types
    <3>2. pc' # pc BY <3>1, <1>1 DEF Writer
    <3> QED BY <2>2, <3>2, NoCall DEF Op
  <2> QED BY <1>1, <2>1, <2>2
<1>5. /\ Placed' /\ UNCHANGED <<WriteCloser, Reader, ReadCloser>>
      /\ \/ Writer' = "copy" /\ Op' = Op
         \/ Writer' = "idle" /\ wcall' = None
  <2>1. CASE UNCHANGED pc BY <2>1, <1>1, <1>4, Still DEF SocketInv, Types, Placed
  <2>2. CASE ~UNCHANGED pc BY <2>2, <1>1, WriterMoves DEF SocketInv, Types
  <2> QED BY <2>1, <2>2
<1>6. UNCHANGED <<WriteEOF, ReadEOF, WriteShut, ReadShut>>
  BY <1>1, FlagsStay
<1>7. Types' BY <1>1, <1>4, <1>5 DEF SocketInv, Types
<1>8. Numbers' BY <1>1, <1>2 DEF SocketInv, Numbers
<1>9. InOrder' BY <1>1 DEF SocketInv, InOrder
<1>10. Accounts'
  BY <1>1, <1>2, <1>3, <1>5, <1>6 DEF SocketInv, Accounts, Moved, Numbers
<1>11. Owners' BY <1>1, <1>3, <1>5 DEF SocketInv, Owners, Writing
<1>12. Closing'
  BY <1>1, <1>3, <1>4, <1>5, <1>6 DEF SocketInv, Closing, Writing
<1> QED BY <1>7, <1>8, <1>9, <1>10, <1>11, <1>12 DEF SocketInv

LEMMA CopyFlushesKeeps ==
  ASSUME SocketInv, CopyFlushes
  PROVE  SocketInv'
<1>1. /\ Writer = "copy" /\ Goes("writer", "flush")
      /\ UNCHANGED <<eof, shut, open, w_bufUsed, wcall, off, sent, flushed,
                     r_buf, rcall, received, told, net, fault>>
  BY DEF CopyFlushes, Writer, closeVars, writerVars, readerVars
<1>2. Placed' /\ Writer' = "flush" /\ UNCHANGED <<WriteCloser, Reader, ReadCloser>>
  BY <1>1, WriterMoves DEF SocketInv, Types
<1>3. UNCHANGED <<WriteEOF, ReadEOF, WriteShut, ReadShut, Op>>
  BY <1>1, FlagsStay DEF Op
<1>4. Types' /\ Numbers' BY <1>1, <1>2 DEF SocketInv, Types, Numbers
<1>5. InOrder' BY <1>1 DEF SocketInv, InOrder
<1>6. Accounts' BY <1>1, <1>2, <1>3 DEF SocketInv, Accounts, Moved
<1>7. Owners' /\ Closing'
  BY <1>1, <1>2, <1>3 DEF SocketInv, Owners, Closing, Writing
<1> QED BY <1>4, <1>5, <1>6, <1>7 DEF SocketInv

(* flush, as long as it does not reach the kernel, leaves everything as it *)
(* is but the writer's place and what its call returned.                   *)
LEMMA BackKeeps ==
  ASSUME SocketInv, NEW ok \in BOOLEAN, Back(ok), Op # "closeWrite",
         Writer \in {"flush", "m_write", "closed"},
         ok => w_bufUsed = 0, ~ok => WriteEOF,
         Placed', UNCHANGED <<WriteCloser, Reader, ReadCloser>>,
         UNCHANGED <<eof, shut, open, w_bufUsed, off, sent, r_buf, rcall, received, told, net, fault>>
  PROVE  SocketInv'
<1>1. IsCall(wcall') /\ Op' \in {Op, "none", "gone", "closeWrite"}
  BY BackKeepsCall DEF SocketInv, Types
<1>2. UNCHANGED <<WriteEOF, ReadEOF, WriteShut, ReadShut>>
  BY FlagsStay
<1>3. /\ wcall' = None => Op' = "none"
      /\ wcall' = Gone => Op' = "gone"
      /\ wcall' = Call("closeWrite", 0) => Op' = "closeWrite"
      /\ wcall' = wcall => Op' = Op
  BY NoCall, NewCall DEF Op
<1>4. Types' /\ Numbers' BY <1>1 DEF SocketInv, Types, Numbers
<1>5. InOrder' BY DEF SocketInv, InOrder
<1>6. Accounts' BY <1>2 DEF SocketInv, Accounts, Moved, Numbers, Back
<1>7. Owners' BY <1>3 DEF SocketInv, Owners, Back, Writing
<1>8. Closing'
  <2> USE <1>2, <1>3 DEF SocketInv, Closing, Writing
  <2>1. CASE Writing /\ Writer' = "copy" /\ UNCHANGED wcall BY <2>1 DEF Back
  <2>2. CASE Writer' = "idle" /\ wcall' \in {None, Gone} /\ (wcall' = Gone <=> Op = "destroy")
    BY <2>2 DEF Owners
  <2>3. CASE Op = "close" /\ Writer' = "close" /\ wcall' = Call("closeWrite", 0) BY <2>3
  <2> QED BY <2>1, <2>2, <2>3, NoCall DEF Back
<1> QED BY <1>4, <1>5, <1>6, <1>7, <1>8 DEF SocketInv

LEMMA FlushesKeeps ==
  ASSUME SocketInv, Flushes
  PROVE  SocketInv'
<1>1. /\ Writer = "flush" /\ Op # "closeWrite"
      /\ UNCHANGED <<eof, shut, open, w_bufUsed, sent, r_buf, rcall, received, told, net, fault>>
  BY DEF Flushes, Writer, closeVars, readerVars, SocketInv, Owners
<1>2. CASE w_bufUsed = 0
  <2>1. FlushReturns(TRUE) /\ UNCHANGED off BY <1>2 DEF Flushes
  <2>2. Back(TRUE) /\ Placed' /\ UNCHANGED <<WriteCloser, Reader, ReadCloser>>
    BY <2>1, <1>1, FlushComesBack DEF SocketInv, Types
  <2> QED BY <1>1, <1>2, <2>1, <2>2, BackKeeps
<1>3. CASE w_bufUsed # 0
  <2>1. off' = 0 /\ Goes("writer", "m_write") /\ UNCHANGED <<wcall, flushed>>
    BY <1>3 DEF Flushes
  <2>2. Placed' /\ Writer' = "m_write" /\ UNCHANGED <<WriteCloser, Reader, ReadCloser>>
    BY <2>1, WriterMoves DEF SocketInv, Types
  <2>3. UNCHANGED <<WriteEOF, ReadEOF, WriteShut, ReadShut, Op>>
    BY <1>1, <2>1, FlagsStay DEF Op
  <2>4. Types' /\ Numbers' BY <1>1, <2>1, <2>2 DEF SocketInv, Types, Numbers
  <2>5. InOrder' BY <1>1 DEF SocketInv, InOrder
  <2>6. Accounts'
    <3>1. off = 0 \/ WriteEOF BY <1>1 DEF SocketInv, Accounts, Numbers
    <3>2. w_bufUsed > 0 BY <1>3 DEF SocketInv, Numbers
    <3>3. UNCHANGED <<Moved, sent, w_bufUsed>> BY <1>1 DEF Moved
    <3>4. ~flushed' BY <1>1, <2>1 DEF SocketInv, Accounts
    <3>5. Moved <= sent /\ (Moved = sent - w_bufUsed + off \/ WriteEOF)
      BY DEF SocketInv, Accounts
    <3> QED BY <2>1, <2>2, <2>3, <3>1, <3>2, <3>3, <3>4, <3>5 DEF Accounts
  <2>7. Owners' /\ Closing'
    BY <1>1, <2>1, <2>2, <2>3 DEF SocketInv, Owners, Closing, Writing
  <2> QED BY <2>4, <2>5, <2>6, <2>7 DEF SocketInv
<1> QED BY <1>2, <1>3

LEMMA MWriteKeeps ==
  ASSUME SocketInv, MWrite
  PROVE  SocketInv'
<1>1. /\ Writer = "m_write" /\ Op # "closeWrite"
      /\ UNCHANGED <<eof, shut, open, w_bufUsed, off, sent, r_buf, rcall, received, told, net, fault>>
  BY DEF MWrite, Writer, closeVars, readerVars, SocketInv, Owners
<1>2. CASE WriteEOF
  <2>1. FlushReturns(FALSE) BY <1>2 DEF MWrite, WriteEOF
  <2>2. Back(FALSE) /\ Placed' /\ UNCHANGED <<WriteCloser, Reader, ReadCloser>>
    BY <2>1, <1>1, FlushComesBack DEF SocketInv, Types
  <2> QED BY <1>1, <1>2, <2>2, BackKeeps
<1>3. CASE ~WriteEOF
  <2>1. Goes("writer", "::write") /\ UNCHANGED <<wcall, flushed>>
    BY <1>3 DEF MWrite, WriteEOF
  <2>2. Placed' /\ Writer' = "::write" /\ UNCHANGED <<WriteCloser, Reader, ReadCloser>>
    BY <2>1, WriterMoves DEF SocketInv, Types
  <2>3. UNCHANGED <<WriteEOF, ReadEOF, WriteShut, ReadShut, Op>>
    BY <1>1, <2>1, FlagsStay DEF Op
  <2>4. Types' /\ Numbers' BY <1>1, <2>1, <2>2 DEF SocketInv, Types, Numbers
  <2>5. InOrder' BY <1>1 DEF SocketInv, InOrder
  <2>6. Accounts'
    BY <1>1, <1>3, <2>1, <2>2, <2>3 DEF SocketInv, Accounts, Moved, Numbers
  <2>7. Owners' /\ Closing'
    BY <1>1, <2>1, <2>2, <2>3 DEF SocketInv, Owners, Closing, Writing
  <2> QED BY <2>4, <2>5, <2>6, <2>7 DEF SocketInv
<1> QED BY <1>2, <1>3

LEMMA KernelTakesKeeps ==
  ASSUME SocketInv, NEW n \in 1..w_bufUsed, KernelTakes(n)
  PROVE  SocketInv'
<1>1. /\ Writer = "::write" /\ ~WriteShut /\ off + n <= w_bufUsed
      /\ net' = net \o [j \in 1..n |-> sent - w_bufUsed + off + j]
      /\ UNCHANGED <<eof, shut, open, sent, r_buf, rcall, received, told, fault>>
  BY DEF KernelTakes, Writer, WriteShut, closeVars, readerVars
<1>2. n \in Nat /\ n > 0 /\ w_bufUsed \in Nat /\ off \in Nat /\ sent \in Nat
  BY DEF SocketInv, Numbers
<1>3. Moved = sent - w_bufUsed + off
  BY <1>1 DEF SocketInv, Accounts
<1>4. Moved \in Nat /\ Len(net) \in Nat /\ Moved = (Len(received) + Len(r_buf)) + Len(net)
  BY DEF SocketInv, Numbers, Moved
<1>5. /\ net' \in Seq(Nat) /\ Len(net') = Len(net) + n
      /\ Numbered(net', Len(received) + Len(r_buf))
  <2> DEFINE new == [j \in 1..n |-> Moved + j]
  <2>1. new \in Seq(Nat) /\ Len(new) = n /\ Numbered(new, Moved)
    BY <1>2, <1>4, NewNumbered
  <2>2. net' = net \o new BY <1>1, <1>3
  <2>3. net \in Seq(Nat) /\ Len(received) + Len(r_buf) \in Nat
        /\ Numbered(net, Len(received) + Len(r_buf))
    BY DEF SocketInv, Numbers, InOrder
  <2> HIDE DEF new
  <2> QED BY <2>1, <2>2, <2>3, <1>4, JoinNumbered
<1>6. UNCHANGED <<WriteEOF, ReadEOF, WriteShut, ReadShut>>
  BY <1>1, FlagsStay
<1>7. Moved' = Moved + n
  BY <1>1, <1>2, <1>4, <1>5 DEF Moved, SocketInv, Numbers
<1>8. ReadEOF \/ Reader \in {"close", "shutdown", "closed"} => fault
  BY <1>1 DEF SocketInv, Closing
<1>9. InOrder'
  BY <1>1, <1>5 DEF SocketInv, InOrder
<1>10. ~flushed /\ Op # "closeWrite"
  BY <1>1 DEF SocketInv, Accounts, Owners
<1>11. CASE off + n = w_bufUsed
  <2>1. w_bufUsed' = 0 /\ off' = 0 /\ FlushReturns(TRUE)
    BY <1>11 DEF KernelTakes, AllWritten
  <2>2. Back(TRUE) /\ Placed' /\ UNCHANGED <<WriteCloser, Reader, ReadCloser>>
    BY <2>1, <1>1, <1>10, FlushComesBack DEF SocketInv, Types
  <2>3. IsCall(wcall')
    BY <2>2, BackKeepsCall DEF SocketInv, Types
  <2>4. /\ wcall' = None => Op' = "none"
        /\ wcall' = Gone => Op' = "gone"
        /\ wcall' = Call("closeWrite", 0) => Op' = "closeWrite"
        /\ wcall' = wcall => Op' = Op
    BY NoCall, NewCall DEF Op
  <2>5. Types' /\ Numbers' BY <1>1, <1>5, <2>1, <2>2, <2>3 DEF SocketInv, Types, Numbers
  <2>6. Accounts'
    <3>1. Moved' = sent BY <1>2, <1>3, <1>4, <1>7, <1>11
    <3>2. flushed' => Writer' = "idle" BY <2>2, <1>10 DEF Back
    <3> QED BY <1>1, <1>2, <2>1, <3>1, <3>2 DEF Accounts
  <2>7. Owners' BY <1>1, <2>2, <2>4 DEF SocketInv, Owners, Back, Writing
  <2>8. Closing'
    <3> USE <1>1, <1>6, <1>8, <2>1, <2>2, <2>4 DEF SocketInv, Closing, Writing
    <3>1. CASE Writing /\ Writer' = "copy" /\ UNCHANGED wcall BY <3>1
    <3>2. CASE Writer' = "idle" /\ wcall' \in {None, Gone} /\ (wcall' = Gone <=> Op = "destroy")
      BY <3>2 DEF Owners
    <3>3. CASE Op = "close" /\ Writer' = "close" /\ wcall' = Call("closeWrite", 0) BY <3>3
    <3> QED BY <3>1, <3>2, <3>3, NoCall DEF Back
  <2> QED BY <1>9, <2>5, <2>6, <2>7, <2>8 DEF SocketInv
<1>12. CASE off + n # w_bufUsed
  <2>1. off' = off + n /\ Goes("writer", "m_write") /\ UNCHANGED <<w_bufUsed, wcall, flushed>>
    BY <1>12 DEF KernelTakes, AllWritten
  <2>2. Placed' /\ Writer' = "m_write" /\ UNCHANGED <<WriteCloser, Reader, ReadCloser>>
    BY <2>1, WriterMoves DEF SocketInv, Types
  <2>3. UNCHANGED Op BY <2>1 DEF Op
  <2>4. Types' BY <1>1, <2>1, <2>2 DEF SocketInv, Types
  <2>5. Numbers' BY <1>1, <1>2, <1>5, <2>1 DEF SocketInv, Numbers
  <2>6. Accounts'
    <3>1. Moved' = sent - w_bufUsed + off' /\ Moved' <= sent
      BY <1>1, <1>2, <1>3, <1>4, <1>7, <2>1
    <3>2. off' < w_bufUsed BY <1>1, <1>2, <1>12, <2>1
    <3> QED BY <1>1, <1>10, <2>1, <2>2, <3>1, <3>2 DEF Accounts
  <2>7. Owners' /\ Closing'
    BY <1>1, <1>6, <1>8, <1>10, <2>1, <2>2, <2>3 DEF SocketInv, Owners, Closing, Writing
  <2> QED BY <1>9, <2>4, <2>5, <2>6, <2>7 DEF SocketInv
<1> QED BY <1>11, <1>12

LEMMA WriteFailsKeeps ==
  ASSUME SocketInv, WriteFails
  PROVE  SocketInv'
<1>1. /\ Writer = "::write" /\ Goes("writer", "close") /\ fault' = TRUE
      /\ UNCHANGED <<eof, shut, open, w_bufUsed, wcall, off, sent, flushed,
                     r_buf, rcall, received, told, net>>
  BY DEF WriteFails, KernelRefuses, Writer, closeVars, writerVars, readerVars
<1>2. Placed' /\ Writer' = "close" /\ UNCHANGED <<WriteCloser, Reader, ReadCloser>>
  BY <1>1, WriterMoves DEF SocketInv, Types
<1>3. UNCHANGED <<WriteEOF, ReadEOF, WriteShut, ReadShut, Op>>
  BY <1>1, FlagsStay DEF Op
<1>4. Types' /\ Numbers' BY <1>1, <1>2 DEF SocketInv, Types, Numbers
<1>5. InOrder' BY <1>1 DEF SocketInv, InOrder
<1>6. Accounts' BY <1>1, <1>2, <1>3 DEF SocketInv, Accounts, Moved
<1>7. Owners' /\ Closing'
  BY <1>1, <1>2, <1>3 DEF SocketInv, Owners, Closing, Writing
<1> QED BY <1>4, <1>5, <1>6, <1>7 DEF SocketInv

LEMMA WriterClosedKeeps ==
  ASSUME SocketInv, WriterClosed
  PROVE  SocketInv'
<1>1. /\ Writer = "closed" /\ WriteEOF
      /\ UNCHANGED <<eof, shut, open, w_bufUsed, off, sent, r_buf, rcall, received, told, net, fault>>
  BY DEF WriterClosed, Writer, closeVars, readerVars, SocketInv, Closing
<1>2. CASE Op # "closeWrite"
  <2>1. FlushReturns(FALSE) BY <1>2 DEF WriterClosed, Op
  <2>2. Back(FALSE) /\ Placed' /\ UNCHANGED <<WriteCloser, Reader, ReadCloser>>
    BY <1>1, <1>2, <2>1, FlushComesBack DEF SocketInv, Types
  <2> QED BY <1>1, <1>2, <2>2, BackKeeps
<1>3. CASE Op = "closeWrite"
  <2>1. wcall' = None /\ Goes("writer", "idle") /\ UNCHANGED flushed
    BY <1>3 DEF WriterClosed, WriterReturns, Op
  <2>2. Placed' /\ Writer' = "idle" /\ UNCHANGED <<WriteCloser, Reader, ReadCloser>>
    BY <2>1, WriterMoves DEF SocketInv, Types
  <2>3. UNCHANGED <<WriteEOF, ReadEOF, WriteShut, ReadShut>> /\ IsCall(wcall') /\ Op' = "none"
    BY <1>1, <2>1, FlagsStay, NoCall DEF Op
  <2>4. Types' /\ Numbers' BY <1>1, <2>1, <2>2, <2>3 DEF SocketInv, Types, Numbers
  <2>5. InOrder' BY <1>1 DEF SocketInv, InOrder
  <2>6. Accounts'
    BY <1>1, <1>3, <2>1, <2>2, <2>3 DEF SocketInv, Accounts, Moved
  <2>7. Owners' /\ Closing'
    BY <1>1, <1>3, <2>1, <2>2, <2>3 DEF SocketInv, Owners, Closing, Writing
  <2> QED BY <2>4, <2>5, <2>6, <2>7 DEF SocketInv
<1> QED BY <1>2, <1>3
-----------------------------------------------------------------------------
(* Who closes: only the flags of the side and the places move.             *)
LEMMA Locks ==
  ASSUME Types, NEW t \in Threads, CloseLocks(t)
  PROVE  /\ Placed' /\ eof' \in [{"w", "r"} -> BOOLEAN]
         /\ UNCHANGED <<shut, WriteShut, ReadShut>>
         /\ t # "writer" => UNCHANGED Writer
         /\ t # "write closer" => UNCHANGED WriteCloser
         /\ t # "reader" => UNCHANGED Reader
         /\ t # "read closer" => UNCHANGED ReadCloser
         /\ t \in {"writer", "write closer"} => WriteEOF' /\ UNCHANGED ReadEOF
         /\ t \in {"reader", "read closer"} => ReadEOF' /\ UNCHANGED WriteEOF
         /\ t = "writer" => Writer = "close" /\ Writer' \in {"closed", "shutdown"}
         /\ t = "write closer" => WriteCloser = "close" /\ WriteCloser' \in {"done", "shutdown"}
         /\ t = "reader" => Reader = "close" /\ Reader' \in {"closed", "shutdown"}
         /\ t = "read closer" => ReadCloser = "close" /\ ReadCloser' \in {"done", "shutdown"}
<1>1. /\ pc[t] = "close"
      /\ \/ Goes(t, After(t)) /\ eof[SideOf(t)] /\ UNCHANGED eof
         \/ Goes(t, "shutdown") /\ eof' = [eof EXCEPT ![SideOf(t)] = TRUE]
      /\ UNCHANGED shut
  BY DEF CloseLocks
<1>2. SideOf(t) = IF t \in {"writer", "write closer"} THEN "w" ELSE "r"
  BY DEF SideOf
<1>3. After(t) = IF t \in {"writer", "reader"} THEN "closed" ELSE "done"
  BY DEF After
<1>4. /\ eof' \in [{"w", "r"} -> BOOLEAN]
      /\ SideOf(t) = "w" => WriteEOF' /\ UNCHANGED ReadEOF
      /\ SideOf(t) = "r" => ReadEOF' /\ UNCHANGED WriteEOF
  BY <1>1, <1>2 DEF Types, WriteEOF, ReadEOF
<1>5. UNCHANGED <<WriteShut, ReadShut>>
  BY <1>1 DEF WriteShut, ReadShut
<1>6. PICK to \in {After(t), "shutdown"} : Goes(t, to)
  BY <1>1
<1>7. /\ Placed'
      /\ Writer' = IF t = "writer" THEN to ELSE Writer
      /\ WriteCloser' = IF t = "write closer" THEN to ELSE WriteCloser
      /\ Reader' = IF t = "reader" THEN to ELSE Reader
      /\ ReadCloser' = IF t = "read closer" THEN to ELSE ReadCloser
  BY <1>6, ThreadMoves DEF Types
<1>8. /\ t = "writer" => Writer = "close"
      /\ t = "write closer" => WriteCloser = "close"
      /\ t = "reader" => Reader = "close"
      /\ t = "read closer" => ReadCloser = "close"
  BY <1>1 DEF Writer, WriteCloser, Reader, ReadCloser
<1>9. t \in {"writer", "write closer", "reader", "read closer"}
  BY DEF Threads
<1> QED BY <1>1, <1>2, <1>3, <1>4, <1>5, <1>6, <1>7, <1>8, <1>9

LEMMA Shuts ==
  ASSUME Types, NEW t \in Threads, CloseShuts(t)
  PROVE  /\ Placed' /\ shut' \in [{"w", "r"} -> BOOLEAN]
         /\ UNCHANGED <<eof, WriteEOF, ReadEOF>>
         /\ t # "writer" => UNCHANGED Writer
         /\ t # "write closer" => UNCHANGED WriteCloser
         /\ t # "reader" => UNCHANGED Reader
         /\ t # "read closer" => UNCHANGED ReadCloser
         /\ t \in {"writer", "write closer"} => WriteShut' /\ UNCHANGED ReadShut
         /\ t \in {"reader", "read closer"} => ReadShut' /\ UNCHANGED WriteShut
         /\ t = "writer" => Writer = "shutdown" /\ Writer' = "closed"
         /\ t = "write closer" => WriteCloser = "shutdown" /\ WriteCloser' = "done"
         /\ t = "reader" => Reader = "shutdown" /\ Reader' = "closed"
         /\ t = "read closer" => ReadCloser = "shutdown" /\ ReadCloser' = "done"
<1>1. /\ pc[t] = "shutdown" /\ Goes(t, After(t))
      /\ shut' = [shut EXCEPT ![SideOf(t)] = TRUE] /\ UNCHANGED eof
  BY DEF CloseShuts
<1>2. SideOf(t) = IF t \in {"writer", "write closer"} THEN "w" ELSE "r"
  BY DEF SideOf
<1>3. After(t) = IF t \in {"writer", "reader"} THEN "closed" ELSE "done"
  BY DEF After
<1>4. /\ shut' \in [{"w", "r"} -> BOOLEAN]
      /\ SideOf(t) = "w" => WriteShut' /\ UNCHANGED ReadShut
      /\ SideOf(t) = "r" => ReadShut' /\ UNCHANGED WriteShut
  BY <1>1, <1>2 DEF Types, WriteShut, ReadShut
<1>5. UNCHANGED <<WriteEOF, ReadEOF>>
  BY <1>1 DEF WriteEOF, ReadEOF
<1>7. /\ Placed'
      /\ Writer' = IF t = "writer" THEN After(t) ELSE Writer
      /\ WriteCloser' = IF t = "write closer" THEN After(t) ELSE WriteCloser
      /\ Reader' = IF t = "reader" THEN After(t) ELSE Reader
      /\ ReadCloser' = IF t = "read closer" THEN After(t) ELSE ReadCloser
  BY <1>1, ThreadMoves DEF Types
<1>8. /\ t = "writer" => Writer = "shutdown"
      /\ t = "write closer" => WriteCloser = "shutdown"
      /\ t = "reader" => Reader = "shutdown"
      /\ t = "read closer" => ReadCloser = "shutdown"
  BY <1>1 DEF Writer, WriteCloser, Reader, ReadCloser
<1>9. t \in {"writer", "write closer", "reader", "read closer"}
  BY DEF Threads
<1> QED BY <1>1, <1>2, <1>3, <1>4, <1>5, <1>7, <1>8, <1>9

LEMMA ClosesKeeps ==
  ASSUME SocketInv, NEW t \in Threads, Closes(t)
  PROVE  SocketInv'
<1>1. /\ UNCHANGED <<open, w_bufUsed, wcall, off, sent, flushed,
                     r_buf, rcall, received, told, net, fault>>
      /\ CloseLocks(t) \/ CloseShuts(t)
  BY DEF Closes, writerVars, readerVars
<1>2. UNCHANGED Op BY <1>1 DEF Op
<1>3. t \in {"writer", "write closer", "reader", "read closer"}
  BY DEF Threads
<1>4. CASE CloseLocks(t)
  <2>1. Types' /\ Numbers' BY <1>1, <1>4, Locks DEF SocketInv, Types, Numbers
  <2>2. InOrder' BY <1>1 DEF SocketInv, InOrder
  <2>3. Accounts'
    <3>1. UNCHANGED Moved BY <1>1 DEF Moved
    <3>2. (WriteEOF => WriteEOF') /\ (UNCHANGED Writer \/ (WriteEOF' /\ Writer = "close" /\ Writer' # "::write"))
      BY <1>3, <1>4, Locks DEF SocketInv
    <3> QED BY <1>1, <3>1, <3>2 DEF SocketInv, Accounts
  <2>4. Owners' /\ Closing'
    <3> USE <1>1, <1>2, <1>4, Locks DEF SocketInv, Owners, Closing, Writing
    <3>1. CASE t = "writer" BY <3>1, ZenonT(30)
    <3>2. CASE t = "write closer" BY <3>2, ZenonT(30)
    <3>3. CASE t = "reader" BY <3>3, ZenonT(30)
    <3>4. CASE t = "read closer" BY <3>4, ZenonT(30)
    <3> QED BY <1>3, <3>1, <3>2, <3>3, <3>4
  <2> QED BY <2>1, <2>2, <2>3, <2>4 DEF SocketInv
<1>5. CASE CloseShuts(t)
  <2>1. Types' /\ Numbers' BY <1>1, <1>5, Shuts DEF SocketInv, Types, Numbers
  <2>2. InOrder' BY <1>1 DEF SocketInv, InOrder
  <2>3. Accounts'
    <3>1. UNCHANGED Moved BY <1>1 DEF Moved
    <3>2. UNCHANGED WriteEOF /\ (UNCHANGED Writer \/ (Writer = "shutdown" /\ Writer' = "closed"))
      BY <1>3, <1>5, Shuts DEF SocketInv
    <3> QED BY <1>1, <3>1, <3>2 DEF SocketInv, Accounts
  <2>4. Owners' /\ Closing'
    <3> USE <1>1, <1>2, <1>5, Shuts DEF SocketInv, Owners, Closing, Writing
    <3>1. CASE t = "writer" BY <3>1, ZenonT(30)
    <3>2. CASE t = "write closer" BY <3>2, ZenonT(30)
    <3>3. CASE t = "reader" BY <3>3, ZenonT(30)
    <3>4. CASE t = "read closer" BY <3>4, ZenonT(30)
    <3> QED BY <1>3, <3>1, <3>2, <3>3, <3>4
  <2> QED BY <2>1, <2>2, <2>3, <2>4 DEF SocketInv
<1> QED BY <1>1, <1>4, <1>5
-----------------------------------------------------------------------------
(* The reader.                                                             *)
LEMMA CallReadKeeps ==
  ASSUME SocketInv, NEW op \in {"read", "readAll"}, NEW len \in ReadLengths, CallRead(op, len)
  PROVE  SocketInv'
<1>1. /\ Reader = "idle"
      /\ UNCHANGED <<eof, shut, open, w_bufUsed, wcall, off, sent, flushed,
                     r_buf, received, net, fault>>
  BY DEF CallRead, Reader, closeVars, writerVars
<1>2. UNCHANGED <<WriteEOF, ReadEOF, WriteShut, ReadShut, Op>>
  BY <1>1, FlagsStay DEF Op
<1>3. CASE ReadEOF
  <2>1. told' = TRUE /\ UNCHANGED <<pc, rcall>> BY <1>3 DEF CallRead, ReadEOF
  <2>2. UNCHANGED <<Writer, WriteCloser, Reader, ReadCloser>> BY <2>1, Still
  <2>3. Types' /\ Numbers' BY <1>1, <2>1 DEF SocketInv, Types, Numbers, Placed
  <2>4. InOrder' BY <1>1 DEF SocketInv, InOrder
  <2>5. Accounts' BY <1>1, <1>2, <2>2 DEF SocketInv, Accounts, Moved
  <2>6. Owners' /\ Closing'
    BY <1>1, <1>2, <1>3, <2>1, <2>2 DEF SocketInv, Owners, Closing, Writing
  <2> QED BY <2>3, <2>4, <2>5, <2>6 DEF SocketInv
<1>4. CASE ~ReadEOF
  <2>1. rcall' = Call(op, len) /\ Goes("reader", "copy") /\ UNCHANGED told /\ len \in Nat
    BY <1>4, SocketAssumption DEF CallRead, ReadEOF, SocketAssumption
  <2>2. Placed' /\ Reader' = "copy" /\ UNCHANGED <<Writer, WriteCloser, ReadCloser>>
    BY <2>1, ReaderMoves DEF SocketInv, Types
  <2>3. Types' /\ Numbers' BY <1>1, <2>1, <2>2, NewCall DEF SocketInv, Types, Numbers
  <2>4. InOrder' BY <1>1 DEF SocketInv, InOrder
  <2>5. Accounts' BY <1>1, <1>2, <2>2 DEF SocketInv, Accounts, Moved
  <2>6. Owners' /\ Closing'
    BY <1>1, <1>2, <1>4, <2>1, <2>2 DEF SocketInv, Owners, Closing, Writing
  <2> QED BY <2>3, <2>4, <2>5, <2>6 DEF SocketInv
<1> QED BY <1>3, <1>4

(* What the reader takes out of its buffer comes next in order.            *)
LEMMA TakesFacts ==
  ASSUME SocketInv, Takes
  PROVE  \E n \in 0..Len(r_buf) :
           /\ received' = received \o [j \in 1..n |-> Len(received) + j]
           /\ received' \in Seq(Nat) /\ Len(received') = Len(received) + n
           /\ Numbered(received', 0)
           /\ r_buf' \in Seq(Nat) /\ Len(r_buf') = Len(r_buf) - n
           /\ Numbered(r_buf', Len(received'))
           /\ IsCall(rcall')
           /\ Placed' /\ UNCHANGED <<Writer, WriteCloser, ReadCloser>>
           /\ Reader = "copy" /\ Reader' \in {"copy", "idle"} /\ r_buf # <<>>
<1> DEFINE n == Least(Len(r_buf), rcall.len - rcall.done)
<1>1. /\ Reader = "copy" /\ r_buf # <<>>
      /\ received' = received \o SubSeq(r_buf, 1, n)
      /\ r_buf' = SubSeq(r_buf, n + 1, Len(r_buf))
      /\ \/ rcall' = [rcall EXCEPT !.done = @ + n] /\ UNCHANGED pc
         \/ rcall' = None /\ Goes("reader", "idle")
  BY DEF Takes, ReaderReturns, Reader
<1>2. /\ n \in 0..Len(r_buf) /\ n \in Nat /\ rcall.done + n <= rcall.len
      /\ received \in Seq(Nat) /\ r_buf \in Seq(Nat)
      /\ Len(received) \in Nat /\ Len(r_buf) \in Nat
  <2>1. received \in Seq(Nat) /\ r_buf \in Seq(Nat)
        /\ Len(received) \in Nat /\ Len(r_buf) \in Nat
    BY DEF SocketInv, Numbers
  <2>2. rcall.len \in Nat /\ rcall.done \in Nat /\ rcall.done <= rcall.len
    BY DEF SocketInv, Types, IsCall
  <2> QED BY <2>1, <2>2 DEF Least
<1> HIDE DEF n
<1>3. /\ SubSeq(r_buf, 1, n) \in Seq(Nat) /\ Len(SubSeq(r_buf, 1, n)) = n
      /\ Numbered(SubSeq(r_buf, 1, n), Len(received))
      /\ r_buf' \in Seq(Nat) /\ Len(r_buf') = Len(r_buf) - n
      /\ Numbered(r_buf', Len(received) + n)
      /\ SubSeq(r_buf, 1, n) = [j \in 1..n |-> Len(received) + j]
  BY <1>1, <1>2, CutNumbered DEF SocketInv, InOrder
<1>4. /\ received' \in Seq(Nat) /\ Len(received') = Len(received) + n
      /\ Numbered(received', 0)
  <2>1. Numbered(received, 0) /\ 0 + Len(received) = Len(received)
    BY <1>2 DEF SocketInv, InOrder
  <2> DEFINE new == SubSeq(r_buf, 1, n)
  <2>2. /\ new \in Seq(Nat) /\ Len(new) = n /\ Numbered(new, 0 + Len(received))
        /\ received' = received \o new
    BY <1>1, <1>3, <2>1
  <2>3. received \in Seq(Nat) /\ 0 \in Nat BY <1>2
  <2> HIDE DEF new
  <2> QED BY <2>1, <2>2, <2>3, JoinNumbered
<1>5. IsCall(rcall')
  <2>1. CASE rcall' = [rcall EXCEPT !.done = @ + n]
    BY <2>1, <1>2, CallGoesOn DEF SocketInv, Types
  <2>2. CASE rcall' = None
    BY <2>2, NoCall
  <2> QED BY <1>1, <2>1, <2>2
<1>6. Placed' /\ UNCHANGED <<Writer, WriteCloser, ReadCloser>> /\ Reader' \in {"copy", "idle"}
  <2>1. CASE UNCHANGED pc BY <2>1, <1>1, Still DEF SocketInv, Types, Placed
  <2>2. CASE Goes("reader", "idle") BY <2>2, ReaderMoves DEF SocketInv, Types
  <2> QED BY <1>1, <2>1, <2>2
<1> QED BY <1>1, <1>2, <1>3, <1>4, <1>5, <1>6

LEMMA TakesKeeps ==
  ASSUME SocketInv, Takes
  PROVE  SocketInv'
<1>1. UNCHANGED <<eof, shut, open, w_bufUsed, wcall, off, sent, flushed, told, net, fault>>
  BY DEF Takes, closeVars, writerVars
<1>2. PICK n \in 0..Len(r_buf) :
           /\ received' \in Seq(Nat) /\ Len(received') = Len(received) + n
           /\ Numbered(received', 0)
           /\ r_buf' \in Seq(Nat) /\ Len(r_buf') = Len(r_buf) - n
           /\ Numbered(r_buf', Len(received'))
           /\ IsCall(rcall')
           /\ Placed' /\ UNCHANGED <<Writer, WriteCloser, ReadCloser>>
           /\ Reader = "copy" /\ Reader' \in {"copy", "idle"} /\ r_buf # <<>>
  BY TakesFacts
<1>3. UNCHANGED <<WriteEOF, ReadEOF, WriteShut, ReadShut, Op>>
  BY <1>1, FlagsStay DEF Op
<1>4. Len(received') + Len(r_buf') = Len(received) + Len(r_buf) /\ UNCHANGED Moved
  BY <1>1, <1>2 DEF SocketInv, Numbers, Moved
<1>5. Types' /\ Numbers' BY <1>1, <1>2 DEF SocketInv, Types, Numbers
<1>6. InOrder' BY <1>1, <1>2, <1>4 DEF SocketInv, InOrder
<1>7. Accounts' BY <1>1, <1>2, <1>3, <1>4 DEF SocketInv, Accounts
<1>8. Owners' /\ Closing'
  BY <1>1, <1>2, <1>3 DEF SocketInv, Owners, Closing, Writing
<1> QED BY <1>5, <1>6, <1>7, <1>8 DEF SocketInv

LEMMA MReadKeeps ==
  ASSUME SocketInv, MRead
  PROVE  SocketInv'
<1>1. /\ Reader = "copy" /\ r_buf = <<>>
      /\ UNCHANGED <<eof, shut, open, w_bufUsed, wcall, off, sent, flushed,
                     r_buf, received, net, fault>>
  BY DEF MRead, Reader, closeVars, writerVars
<1>2. UNCHANGED <<WriteEOF, ReadEOF, WriteShut, ReadShut, Op>>
  BY <1>1, FlagsStay DEF Op
<1>3. /\ Placed' /\ UNCHANGED <<Writer, WriteCloser, ReadCloser>> /\ IsCall(rcall')
      /\ \/ ReadEOF /\ Reader' = "idle"
         \/ Reader' = "::read" /\ UNCHANGED told
  <2>1. CASE ReadEOF
    <3>1. Goes("reader", "idle") /\ rcall' = None BY <2>1 DEF MRead, ReadEOF, ReaderReturns
    <3> QED BY <2>1, <3>1, ReaderMoves, NoCall DEF SocketInv, Types
  <2>2. CASE ~ReadEOF
    <3>1. Goes("reader", "::read") /\ UNCHANGED <<told, rcall>> BY <2>2 DEF MRead, ReadEOF
    <3> QED BY <2>2, <3>1, ReaderMoves DEF SocketInv, Types
  <2> QED BY <2>1, <2>2
<1>4. Types' /\ Numbers' BY <1>1, <1>3 DEF SocketInv, Types, Numbers
<1>5. InOrder' BY <1>1 DEF SocketInv, InOrder
<1>6. Accounts' BY <1>1, <1>2, <1>3 DEF SocketInv, Accounts, Moved
<1>7. Owners' /\ Closing'
  BY <1>1, <1>2, <1>3 DEF SocketInv, Owners, Closing, Writing
<1> QED BY <1>4, <1>5, <1>6, <1>7 DEF SocketInv

LEMMA KernelGivesKeeps ==
  ASSUME SocketInv, NEW n \in 1..Len(net), KernelGives(n)
  PROVE  SocketInv'
<1>1. /\ Reader = "::read" /\ Goes("reader", "copy") /\ r_buf = <<>>
      /\ r_buf' = SubSeq(net, 1, n) /\ net' = SubSeq(net, n + 1, Len(net))
      /\ UNCHANGED <<eof, shut, open, w_bufUsed, wcall, off, sent, flushed,
                     rcall, received, told, fault>>
  BY DEF KernelGives, Reader, closeVars, writerVars, SocketInv, Owners
<1>2. Placed' /\ Reader' = "copy" /\ UNCHANGED <<Writer, WriteCloser, ReadCloser>>
  BY <1>1, ReaderMoves DEF SocketInv, Types
<1>3. UNCHANGED <<WriteEOF, ReadEOF, WriteShut, ReadShut, Op>>
  BY <1>1, FlagsStay DEF Op
<1>4. /\ net \in Seq(Nat) /\ Len(net) \in Nat /\ n \in 0..Len(net) /\ n \in Nat /\ n > 0
      /\ Len(received) \in Nat /\ Len(r_buf) = 0 /\ net # <<>>
  BY <1>1 DEF SocketInv, Numbers
<1>5. /\ r_buf' \in Seq(Nat) /\ Len(r_buf') = n /\ Numbered(r_buf', Len(received))
      /\ net' \in Seq(Nat) /\ Len(net') = Len(net) - n
      /\ Numbered(net', Len(received) + n)
  <2>1. Numbered(net, Len(received)) BY <1>4 DEF SocketInv, InOrder
  <2> QED BY <1>1, <1>4, <2>1, CutNumbered
<1>6. UNCHANGED Moved
  <2>1. Moved = Len(received) + 0 + Len(net) BY <1>4 DEF Moved
  <2>2. Moved' = Len(received) + n + (Len(net) - n) BY <1>1, <1>5 DEF Moved
  <2> QED BY <1>4, <2>1, <2>2
<1>7. Types' /\ Numbers' BY <1>1, <1>2, <1>5 DEF SocketInv, Types, Numbers
<1>8. InOrder' BY <1>1, <1>5 DEF SocketInv, InOrder
<1>9. Accounts' BY <1>1, <1>2, <1>3, <1>6 DEF SocketInv, Accounts
<1>10. Owners' /\ Closing'
  BY <1>1, <1>2, <1>3, <1>4 DEF SocketInv, Owners, Closing, Writing
<1> QED BY <1>7, <1>8, <1>9, <1>10 DEF SocketInv

LEMMA ReadFailsKeeps ==
  ASSUME SocketInv, ReadFails
  PROVE  SocketInv'
<1>1. /\ Reader = "::read" /\ Goes("reader", "close") /\ r_buf = <<>>
      /\ \/ net = <<>> /\ (WriteShut \/ ReadShut) /\ UNCHANGED fault
         \/ fault' = TRUE
      /\ UNCHANGED <<eof, shut, open, w_bufUsed, wcall, off, sent, flushed,
                     r_buf, rcall, received, told, net>>
  BY DEF ReadFails, Reader, WriteShut, ReadShut, closeVars, writerVars, readerVars, SocketInv, Owners
<1>2. Placed' /\ Reader' = "close" /\ UNCHANGED <<Writer, WriteCloser, ReadCloser>>
  BY <1>1, ReaderMoves DEF SocketInv, Types
<1>3. UNCHANGED <<WriteEOF, ReadEOF, WriteShut, ReadShut, Op>>
  BY <1>1, FlagsStay DEF Op
<1>4. fault' \in BOOLEAN /\ (fault => fault')
  <2>1. fault' \in {fault, TRUE} /\ fault \in BOOLEAN BY <1>1 DEF SocketInv, Types
  <2>2. CASE fault = TRUE BY <2>1, <2>2
  <2>3. CASE fault = FALSE BY <2>1, <2>3
  <2> QED BY <2>1, <2>2, <2>3
<1>5. Types' /\ Numbers' BY <1>1, <1>2, <1>4 DEF SocketInv, Types, Numbers
<1>6. InOrder' BY <1>1 DEF SocketInv, InOrder
<1>7. Accounts' BY <1>1, <1>2, <1>3 DEF SocketInv, Accounts, Moved
<1>8. Owners' BY <1>1, <1>2, <1>3 DEF SocketInv, Owners, Writing
<1>9. Closing'
  <2>1. fault' \/ (WriteShut /\ net = <<>> /\ r_buf = <<>>)
    BY <1>1 DEF SocketInv, Closing
  <2> QED BY <1>1, <1>2, <1>3, <1>4, <2>1 DEF SocketInv, Closing, Writing
<1> QED BY <1>5, <1>6, <1>7, <1>8, <1>9 DEF SocketInv

LEMMA ReaderClosedKeeps ==
  ASSUME SocketInv, ReaderClosed
  PROVE  SocketInv'
<1>1. /\ Reader = "closed" /\ Goes("reader", "idle") /\ told' = TRUE /\ rcall' = None
      /\ UNCHANGED <<eof, shut, open, w_bufUsed, wcall, off, sent, flushed,
                     r_buf, received, net, fault>>
  BY DEF ReaderClosed, ReaderReturns, Reader, closeVars, writerVars
<1>2. Placed' /\ Reader' = "idle" /\ UNCHANGED <<Writer, WriteCloser, ReadCloser>>
  BY <1>1, ReaderMoves DEF SocketInv, Types
<1>3. UNCHANGED <<WriteEOF, ReadEOF, WriteShut, ReadShut, Op>>
  BY <1>1, FlagsStay DEF Op
<1>4. Types' /\ Numbers' BY <1>1, <1>2, NoCall DEF SocketInv, Types, Numbers
<1>5. InOrder' BY <1>1 DEF SocketInv, InOrder
<1>6. Accounts' BY <1>1, <1>2, <1>3 DEF SocketInv, Accounts, Moved
<1>7. Owners' /\ Closing'
  BY <1>1, <1>2, <1>3 DEF SocketInv, Owners, Closing, Writing
<1> QED BY <1>4, <1>5, <1>6, <1>7 DEF SocketInv

LEMMA StutterKeeps ==
  ASSUME SocketInv, UNCHANGED vars
  PROVE  SocketInv'
<1>1. UNCHANGED <<pc, eof, shut, open, w_bufUsed, wcall, off, sent, flushed,
                  r_buf, rcall, received, told, net, fault>>
  BY DEF vars, closeVars, writerVars, readerVars
<1>2. UNCHANGED <<Writer, WriteCloser, Reader, ReadCloser,
                  WriteEOF, ReadEOF, WriteShut, ReadShut, Op>>
  BY <1>1, FlagsStay, Still DEF Op
<1>3. Types' /\ Numbers' BY <1>1 DEF SocketInv, Types, Numbers, Placed
<1>4. InOrder' BY <1>1 DEF SocketInv, InOrder
<1>5. Accounts' BY <1>1, <1>2 DEF SocketInv, Accounts, Moved
<1>6. Owners' /\ Closing' BY <1>1, <1>2 DEF SocketInv, Owners, Closing, Writing
<1> QED BY <1>3, <1>4, <1>5, <1>6 DEF SocketInv
-----------------------------------------------------------------------------
(* The steps of the program, one by one.                                   *)
OneStep ==
    \/ \E op \in {"write", "writeAll"}, len \in WriteLengths : CallWrite(op, len)
    \/ \E op \in {"flush", "close", "closeWrite", "destroy"} : CallFlush(op)
    \/ \E t \in Threads : CallCloser(t)
    \/ Copies \/ CopyFlushes \/ Flushes \/ MWrite \/ WriteFails \/ WriterClosed
    \/ \E n \in 1..w_bufUsed : KernelTakes(n)
    \/ \E op \in {"read", "readAll"}, len \in ReadLengths : CallRead(op, len)
    \/ Takes \/ MRead \/ ReadFails \/ ReaderClosed
    \/ \E n \in 1..Len(net) : KernelGives(n)
    \/ \E t \in Threads : Closes(t)

LEMMA NextIsOneStep == Next => OneStep
<1>1. \A t \in {"writer", "write closer", "reader", "read closer"} : t \in Threads
  BY DEF Threads
<1> QED BY <1>1 DEF Next, WriterStep, ReaderStep, Reads, OneStep

LEMMA NextSocketInv == SocketInv /\ [Next]_vars => SocketInv'
<1> SUFFICES ASSUME SocketInv, Next \/ UNCHANGED vars PROVE SocketInv'
  OBVIOUS
<1>1. CASE UNCHANGED vars
  BY <1>1, StutterKeeps
<1>2. CASE Next
  BY <1>2, NextIsOneStep, CallWriteKeeps, CallFlushKeeps, CallCloserKeeps, CopiesKeeps,
     CopyFlushesKeeps, FlushesKeeps, MWriteKeeps, WriteFailsKeeps, WriterClosedKeeps,
     KernelTakesKeeps, CallReadKeeps, TakesKeeps, MReadKeeps, ReadFailsKeeps,
     ReaderClosedKeeps, KernelGivesKeeps, ClosesKeeps
     DEF OneStep
<1> QED BY <1>1, <1>2

(* What is in the buffers, on the way and received is what was written, in *)
(* order and without a gap; who closed, and why, is accounted for.         *)
THEOREM SocketInvariant == Spec => []SocketInv
BY InitSocketInv, NextSocketInv, PTL DEF Spec

(* When flush has returned true, every byte that write ever took is with   *)
(* the kernel or the reader (FlushIsTrue; tSocket::flush,                  *)
(* tBufferedWritable::flush).                                              *)
THEOREM FlushTellsTheTruth == Spec => []FlushIsTrue
<1>1. SocketInv => FlushIsTrue
  <2> SUFFICES ASSUME SocketInv, flushed PROVE Moved = sent
    BY DEF FlushIsTrue, Moved
  <2>1. w_bufUsed = 0 /\ off = 0 BY DEF SocketInv, Accounts, Numbers
  <2>2. Moved = sent - w_bufUsed + off BY <2>1 DEF SocketInv, Accounts
  <2>3. sent \in Nat BY DEF SocketInv, Numbers
  <2> QED BY <2>1, <2>2, <2>3
<1> QED BY <1>1, SocketInvariant, PTL
-----------------------------------------------------------------------------
(* Conduit, step by step.                                                  *)
LEMMA InitIsConduit == Init => C!Init
<1> SUFFICES ASSUME Init PROVE C!Init OBVIOUS
<1>1. ~WriteShut BY DEF Init, WriteShut
<1> QED BY <1>1 DEF Init, C!Init, WriteShut

(* Where nothing failed and the writer has closed, what was read, and what *)
(* is still to be read, is all that was written.                           *)
LEMMA NothingMissing ==
  ASSUME SocketInv, ~fault, WriteShut
  PROVE  Moved = sent /\ ~Writing
<1>1. WriteEOF \/ ~open
  BY DEF SocketInv, Closing
<1>2. w_bufUsed = 0
  BY <1>1 DEF SocketInv, Closing
<1>3. off = 0 /\ sent \in Nat
  BY <1>2 DEF SocketInv, Numbers
<1>4. Moved = sent
  BY <1>2, <1>3 DEF SocketInv, Accounts
<1>5. ~Writing
  BY <1>1 DEF SocketInv, Closing, Writing
<1> QED BY <1>4, <1>5

LEMMA TellingIsConduit ==
  ASSUME SocketInv, ReadEOF \/ Reader = "closed", told',
         UNCHANGED <<sent, received, shut, fault>>
  PROVE  C!Tell
<1>1. fault \/ (WriteShut /\ net = <<>> /\ r_buf = <<>>)
  BY DEF SocketInv, Closing
<1>2. fault \/ (WriteShut /\ Len(received) = sent)
  <2>1. CASE ~fault
    <3>1. Moved = sent BY <1>1, <2>1, NothingMissing
    <3>2. Len(received) \in Nat /\ Len(r_buf) = 0 /\ Len(net) = 0
      BY <1>1, <2>1 DEF SocketInv, Numbers
    <3> QED BY <1>1, <2>1, <3>1, <3>2 DEF Moved
  <2> QED BY <2>1
<1> QED BY <1>2 DEF C!Tell, WriteShut

LEMMA WriterIsConduit ==
  ASSUME SocketInv, Copies
  PROVE  C!Next \/ UNCHANGED C!vars
<1> DEFINE n == Least(WBufSize - w_bufUsed, wcall.len - wcall.done)
<1>1. /\ Writer = "copy" /\ w_bufUsed < WBufSize /\ sent' = sent + n
      /\ UNCHANGED <<shut, received, told, fault>>
  BY DEF Copies, Writer, closeVars, readerVars
<1>2. n \in Nat /\ sent \in Nat
  <2>1. w_bufUsed \in Nat /\ WBufSize \in Nat /\ sent \in Nat
    BY SocketAssumption DEF SocketInv, Numbers, SocketAssumption
  <2>2. wcall.len \in Nat /\ wcall.done \in Nat /\ wcall.done <= wcall.len
    BY DEF SocketInv, Types, IsCall
  <2> QED BY <1>1, <2>1, <2>2 DEF Least
<1> HIDE DEF n
<1>3. ~shut["w"] \/ fault
  BY <1>1, NothingMissing DEF SocketInv, Owners, WriteShut
<1>4. CASE n = 0
  BY <1>1, <1>2, <1>4 DEF C!vars
<1>5. CASE n > 0
  <2>1. n \in 1..sent' - sent BY <1>1, <1>2, <1>5
  <2>2. C!Take(n) BY <1>1, <1>3 DEF C!Take
  <2> QED BY <2>1, <2>2 DEF C!Next
<1> QED BY <1>2, <1>4, <1>5

LEMMA ReaderIsConduit ==
  ASSUME SocketInv, Takes
  PROVE  C!Next \/ UNCHANGED C!vars
<1>1. UNCHANGED <<sent, shut, told, fault>>
  BY DEF Takes, closeVars, writerVars
<1>2. PICK n \in 0..Len(r_buf) :
           /\ received' = received \o [j \in 1..n |-> Len(received) + j]
           /\ Reader = "copy"
  BY TakesFacts
<1>3. ~told
  BY <1>2 DEF SocketInv, Closing
<1>4. /\ Len(received) \in Nat /\ Len(r_buf) \in Nat /\ Len(net) \in Nat
      /\ received \in Seq(Nat) /\ sent \in Nat
      /\ Len(received) + Len(r_buf) + Len(net) <= sent
  BY DEF SocketInv, Numbers, Accounts, Moved
<1>5. CASE n = 0
  <2>1. received' = received \o <<>> BY <1>2, <1>5
  <2>2. received' = received BY <1>4, <2>1
  <2> QED BY <1>1, <2>2 DEF C!vars
<1>6. CASE n > 0
  <2>1. n \in 1..sent - Len(received) /\ Len(received) + n <= sent BY <1>4, <1>6
  <2>2. C!Give(n) BY <1>1, <1>2, <1>3, <2>1 DEF C!Give
  <2> QED BY <2>1, <2>2 DEF C!Next
<1> QED BY <1>5, <1>6

LEMMA ClosingIsConduit ==
  ASSUME SocketInv, UNCHANGED <<sent, received, told>>, fault' \in BOOLEAN, fault => fault',
         UNCHANGED WriteShut \/ (WriteShut')
  PROVE  C!Next \/ UNCHANGED C!vars
<1>1. fault \in BOOLEAN /\ fault' \in {fault, TRUE}
  BY DEF SocketInv, Types
<1>2. CASE shut'["w"] = shut["w"] /\ fault' = fault
  BY <1>2 DEF C!vars
<1>3. CASE shut'["w"] = shut["w"] /\ fault' = TRUE
  BY <1>3 DEF C!Break, C!Next
<1>4. CASE shut'["w"] = TRUE
  BY <1>1, <1>4 DEF C!End, C!Next
<1> QED BY <1>1, <1>2, <1>3, <1>4 DEF WriteShut

LEMMA StepIsConduit ==
  ASSUME SocketInv, Next
  PROVE  C!Next \/ UNCHANGED C!vars
<1> DEFINE Quiet == UNCHANGED <<sent, received, told, shut>> /\ fault' \in {fault, TRUE}
<1>q. Quiet => C!Next \/ UNCHANGED C!vars
  BY DEF C!vars, C!Break, C!Next
<1>1. ASSUME NEW op \in {"write", "writeAll"}, NEW len \in WriteLengths, CallWrite(op, len)
      PROVE  Quiet
  BY <1>1 DEF CallWrite, closeVars, readerVars
<1>2. ASSUME NEW op \in {"flush", "close", "closeWrite", "destroy"}, CallFlush(op)
      PROVE  C!Next \/ UNCHANGED C!vars
  <2>1. UNCHANGED <<sent, received, told>>
        /\ fault' = (fault \/ (op \in {"closeWrite", "destroy"} /\ w_bufUsed > 0))
    BY <1>2 DEF CallFlush, readerVars
  <2>2. UNCHANGED WriteShut \/ WriteShut'
    BY <1>2 DEF CallFlush, WriteShut, SocketInv, Types
  <2>3. fault' \in BOOLEAN /\ (fault => fault')
    BY <2>1
  <2> QED BY <2>1, <2>2, <2>3, ClosingIsConduit
<1>3. ASSUME NEW t \in Threads, CallCloser(t)
      PROVE  Quiet
  BY <1>3 DEF CallCloser, closeVars, writerVars, readerVars
<1>4. ASSUME CopyFlushes \/ WriteFails
      PROVE  Quiet
  BY <1>4 DEF CopyFlushes, WriteFails, closeVars, writerVars, readerVars
<1>5. ASSUME Flushes \/ MWrite \/ WriterClosed
      PROVE  Quiet
  BY <1>5 DEF Flushes, MWrite, WriterClosed, closeVars, readerVars
<1>6. ASSUME NEW n \in 1..w_bufUsed, KernelTakes(n)
      PROVE  Quiet
  BY <1>6 DEF KernelTakes, closeVars, readerVars
<1>7. ASSUME NEW op \in {"read", "readAll"}, NEW len \in ReadLengths, CallRead(op, len)
      PROVE  C!Next \/ UNCHANGED C!vars
  <2>1. UNCHANGED <<sent, received, shut, fault>>
    BY <1>7 DEF CallRead, closeVars, writerVars
  <2>2. CASE ReadEOF
    <3>1. told' = TRUE BY <1>7, <2>2 DEF CallRead, ReadEOF
    <3> QED BY <2>1, <2>2, <3>1, TellingIsConduit DEF C!Next
  <2>3. CASE ~ReadEOF
    <3>1. UNCHANGED told BY <1>7, <2>3 DEF CallRead, ReadEOF
    <3> QED BY <2>1, <3>1, <1>q
  <2> QED BY <2>2, <2>3
<1>8. ASSUME MRead
      PROVE  C!Next \/ UNCHANGED C!vars
  <2>1. UNCHANGED <<sent, received, shut, fault>>
    BY <1>8 DEF MRead, closeVars, writerVars
  <2>2. CASE ReadEOF
    <3>1. told' = TRUE BY <1>8, <2>2 DEF MRead, ReadEOF
    <3> QED BY <2>1, <2>2, <3>1, TellingIsConduit DEF C!Next
  <2>3. CASE ~ReadEOF
    <3>1. UNCHANGED told BY <1>8, <2>3 DEF MRead, ReadEOF
    <3> QED BY <2>1, <3>1, <1>q
  <2> QED BY <2>2, <2>3
<1>9. ASSUME ReaderClosed
      PROVE  C!Next \/ UNCHANGED C!vars
  <2>1. UNCHANGED <<sent, received, shut, fault>> /\ told' = TRUE /\ Reader = "closed"
    BY <1>9 DEF ReaderClosed, Reader, closeVars, writerVars
  <2>2. C!Tell BY <2>1, TellingIsConduit
  <2> QED BY <2>2 DEF C!Next
<1>10. ASSUME ReadFails
       PROVE  Quiet
  BY <1>10 DEF ReadFails, closeVars, writerVars, readerVars
<1>11. ASSUME NEW n \in 1..Len(net), KernelGives(n)
       PROVE  Quiet
  BY <1>11 DEF KernelGives, closeVars, writerVars
<1>12. ASSUME NEW t \in Threads, Closes(t)
       PROVE  C!Next \/ UNCHANGED C!vars
  <2>1. UNCHANGED <<sent, received, told, fault>>
    BY <1>12 DEF Closes, writerVars, readerVars
  <2>2. UNCHANGED WriteShut \/ WriteShut'
    <3>1. CASE CloseLocks(t) BY <3>1, Locks DEF SocketInv
    <3>2. CASE CloseShuts(t) BY <3>2, Shuts DEF SocketInv, Threads
    <3> QED BY <1>12, <3>1, <3>2 DEF Closes
  <2>3. fault' \in BOOLEAN /\ (fault => fault')
    BY <2>1 DEF SocketInv, Types
  <2> QED BY <2>1, <2>2, <2>3, ClosingIsConduit
<1> HIDE DEF Quiet
<1> QED BY <1>q, <1>1, <1>2, <1>3, <1>4, <1>5, <1>6, <1>7, <1>8, <1>9, <1>10, <1>11, <1>12,
     NextIsOneStep, WriterIsConduit, ReaderIsConduit DEF OneStep

(* Every step of two connected sockets, whatever is written short, fails,  *)
(* is closed by another thread or destroyed, is a step of a Conduit or a   *)
(* stutter: what is read is what was written, from the first byte on and   *)
(* without a gap, and the end is told after the last byte or when the      *)
(* connection broke (tSocket.cpp; the safety half of Implements).          *)
THEOREM ImplementsSafety == Spec => C!Spec
<1>1. SocketInv /\ [Next]_vars => [C!Next]_(C!vars)
  <2> SUFFICES ASSUME SocketInv, Next \/ UNCHANGED vars PROVE C!Next \/ UNCHANGED C!vars
    OBVIOUS
  <2>1. CASE Next BY <2>1, StepIsConduit
  <2>2. CASE UNCHANGED vars
    BY <2>2 DEF vars, closeVars, writerVars, readerVars, C!vars
  <2> QED BY <2>1, <2>2
<1> QED BY <1>1, InitIsConduit, SocketInvariant, PTL DEF Spec, C!Spec
=============================================================================
