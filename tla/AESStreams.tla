----------------------------- MODULE AESStreams -----------------------------
(***************************************************************************)
(* A tWritableAES and a tReadableAES in CBC mode (source/rho/crypt/        *)
(* tWritableAES.cpp, tReadableAES.cpp) at the two ends of a stream that    *)
(* keeps what Conduit promises, and whose bytes may besides be damaged.    *)
(*                                                                         *)
(* The unit of the inner stream is the AES block. A ciphertext block is a  *)
(* record of what it decrypts to, its key, its name and the name of the    *)
(* block it is chained to; wrong key, chain or damage decrypt to Garbage.  *)
(* A byte is named by its position, and one of a header by what it says    *)
(* (a negative number); xor of bytes is a set of names, each in it or not. *)
(* Garbage is taken to pass neither the checks of a header nor a parity. A *)
(* program that catches an exception reads no more. At most one fault      *)
(* happens: the inner stream breaks, or one item on it is damaged.         *)
(***************************************************************************)
EXTENDS Integers, SequencesExt

CONSTANTS
  MaxBytes,            (* bound: bytes written                             *)
  BlockSize,           (* AES_BLOCK_SIZE: 16                               *)
  BufBlocks,           (* m_bufSize / AES_BLOCK_SIZE: 512                  *)
  WriteLengths, ReadLengths,
  ResetAt,             (* after so many bytes both ends call reset         *)
  Noise                (* what damage makes of a block or a message        *)

ASSUME AESAssumption ==
    /\ MaxBytes \in Nat /\ BlockSize \in Nat \ {0} /\ BufBlocks \in Nat \ {0, 1}
    /\ WriteLengths \subseteq Nat \ {0} /\ ReadLengths \subseteq Nat \ {0}
    /\ ResetAt \in Nat

VARIABLES
  wire,                (* the inner stream, by the side that writes to it  *)
  closed,              (* that side is closed                              *)
  cut,                 (* the inner stream is broken                       *)
  damaged,             (* history: so was one item on the wire             *)
  keys,                (* what each side reads and writes with             *)
  m_buf,               (* the writer's data after the first 16 bytes       *)
  w_seq, m_parity, w_hasIV, w_last,      (* the writer's members           *)
  r_buf, r_seq, r_hasIV, r_last,         (* the reader's                   *)
  header,              (* of the chunk that m_refill is reading, or None   *)
  sent, received, told (* history, as in Conduit                           *)

innerVars == <<wire, closed, cut, damaged, keys>>
writerVars == <<m_buf, w_seq, m_parity, w_hasIV, w_last, sent>>
readerVars == <<r_buf, r_seq, r_hasIV, r_last, header, received, told>>
aesVars == <<writerVars, readerVars>>

wkey == keys["client"].writes
rkey == keys["server"].reads

Least(m, n) == IF m <= n THEN m ELSE n
Xor(S, T) == (S \ T) \cup (T \ S)
None == [len |-> 0, seq |-> 0, parity |-> {}]
Garbage == <<>>

AESInit ==
    /\ m_buf = <<>> /\ w_seq = 0 /\ m_parity = {} /\ w_hasIV = FALSE /\ w_last = 0
    /\ r_buf = <<>> /\ r_seq = 0 /\ r_hasIV = FALSE /\ r_last = 0 /\ header = None
    /\ sent = 0 /\ received = <<>> /\ told = FALSE
-----------------------------------------------------------------------------
(* The writer. A chunk is the header, with the length that counts the      *)
(* header itself, and the data, filled up to whole blocks.                 *)
BufSize == (BufBlocks - 1) * BlockSize

(* A write to a full buffer is Flush and then Write. The program that      *)
(* resets flushes first: it writes no further than ResetAt before.         *)
Write(len) ==
    LET n == Least(BufSize - Len(m_buf), len)
        bytes == [j \in 1..n |-> sent + j]
    IN  /\ Len(m_buf) < BufSize /\ sent + n <= MaxBytes
        /\ sent < ResetAt => sent + n <= ResetAt
        /\ sent = ResetAt => m_buf = <<>> /\ ~w_hasIV
        /\ m_buf' = m_buf \o bytes
        /\ m_parity' = Xor(m_parity, ToSet(bytes))
        /\ sent' = sent + n
        /\ UNCHANGED <<innerVars, w_seq, w_hasIV, w_last, readerVars>>

Blocks(n) == (n + BlockSize - 1) \div BlockSize
HeaderBytes(len, seq) == {-2 * len, -2 * seq - 1}
Enc(plain, name, chain) ==
    <<"aes", [plain |-> plain, key |-> wkey, name |-> name, chain |-> chain]>>

(* The initialization vector has a name of its own and is not chained.     *)
InitVector == IF w_hasIV THEN <<>> ELSE <<Enc(<<"iv", w_last>>, -2, -1)>>
Chunk ==
    LET len == BlockSize + Len(m_buf)
        head == [len |-> len, seq |-> w_seq,
                 parity |-> Xor(m_parity, HeaderBytes(len, w_seq))]
        Data(i) == SubSeq(m_buf, (i - 1) * BlockSize + 1,
                                     Least(i * BlockSize, Len(m_buf)))
    IN  [i \in 1..Blocks(len) |->
           Enc(IF i = 1 THEN <<"head", head>> ELSE <<"data", Data(i - 1)>>,
               w_last + i, w_last + i - 1)]

ChunkIsOut ==
    /\ w_seq' = w_seq + BlockSize + Len(m_buf)
    /\ m_parity' = {} /\ w_hasIV' = TRUE /\ w_last' = w_last + Len(Chunk)

Send(blocks) == wire' = [wire EXCEPT !["client"] = @ \o blocks]

Flush ==
    /\ m_buf # <<>> /\ ~cut
    /\ Send(InitVector \o Chunk)
    /\ ChunkIsOut
    /\ m_buf' = <<>>
    /\ UNCHANGED <<closed, cut, damaged, keys, sent, readerVars>>

(* The inner stream takes n blocks less than all, and none later. The      *)
(* buffer was encrypted in place: what it holds is not the data any more,  *)
(* and is not sent either; another flush of it changes nothing more that   *)
(* anybody sees, and is left out.                                          *)
FlushFails(n) ==
    /\ m_buf # <<>> /\ Head(m_buf) # 0 /\ n < Len(InitVector \o Chunk)
    /\ damaged => cut
    /\ cut => n = 0
    /\ Send(SubSeq(InitVector \o Chunk, 1, n)) /\ cut' = TRUE
    /\ IF n < Len(InitVector) THEN UNCHANGED <<m_buf, w_seq, m_parity, w_hasIV, w_last>>
       ELSE ChunkIsOut /\ m_buf' = [i \in DOMAIN m_buf |-> 0]
    /\ UNCHANGED <<closed, damaged, keys, sent, readerVars>>

(* reset, of a writer that has flushed.                                    *)
ResetWriter ==
    /\ sent = ResetAt /\ m_buf = <<>> /\ w_hasIV
    /\ w_seq' = 0 /\ w_hasIV' = FALSE
    /\ UNCHANGED <<innerVars, m_buf, m_parity, w_last, sent, readerVars>>

(* The destructor, after its flush, and that of the inner stream.          *)
Destroy ==
    /\ m_buf = <<>> \/ cut
    /\ ~closed["client"] /\ closed' = [closed EXCEPT !["client"] = TRUE]
    /\ UNCHANGED <<wire, cut, damaged, keys, aesVars>>
-----------------------------------------------------------------------------
(* The reader: m_refill reads the initialization vector, the header of a   *)
(* chunk and the rest of it, and blocks for each until all of it is there  *)
(* or the inner stream has ended; a part of it counts as the end.          *)
In == wire["client"]
Arrived(n) == Len(In) >= n
Ended == closed["client"] \/ cut
Refilling == r_buf = <<>> /\ ~told
Consume(n) == wire' = [wire EXCEPT !["client"] = SubSeq(@, n + 1, Len(@))]

Tell(n) ==
    /\ ~Arrived(n) /\ Ended
    /\ Consume(Len(In))
    /\ told' = TRUE
    /\ UNCHANGED <<closed, cut, damaged, keys, writerVars>>
    /\ UNCHANGED <<r_buf, r_seq, r_hasIV, r_last, header, received>>

Name(block) == IF block = Noise THEN Noise ELSE block[2].name
Dec(block, chain) ==
    IF block # Noise /\ block[2].key = rkey /\ block[2].chain = chain
      THEN block[2].plain ELSE Garbage

(* As reset leaves r_last, what it is before the vector is read is no use. *)
ReadInitVector ==
    /\ Refilling /\ ~r_hasIV /\ header = None
    /\ \/ Tell(1)
       \/ /\ Arrived(1) /\ Consume(1)
          /\ LET iv == Dec(Head(In), -1)
             IN  r_last' = IF iv = Garbage THEN Noise ELSE iv[2]
          /\ r_hasIV' = TRUE
          /\ UNCHANGED <<closed, cut, damaged, keys, writerVars>>
          /\ UNCHANGED <<r_buf, r_seq, header, received, told>>

ReadHeader ==
    /\ Refilling /\ r_hasIV /\ header = None /\ (Len(received) = ResetAt => r_seq = 0)
    /\ \/ Tell(1)
       \/ /\ Arrived(1) /\ Consume(1)
          /\ LET pt == Dec(Head(In), r_last)
                 valid == pt # Garbage /\ pt[2].seq = r_seq
             IN  /\ header' = IF valid THEN pt[2] ELSE None
                 /\ r_seq' = IF valid THEN r_seq + pt[2].len ELSE r_seq
                 /\ told' = ~valid
          /\ r_last' = Name(Head(In))
          /\ UNCHANGED <<closed, cut, damaged, keys, writerVars, r_buf, r_hasIV, received>>

(* The parity of what was read, header included, must come out even. The   *)
(* first form does not look.                                               *)
ParityUnchecked(h, bytes) == TRUE
ParityHolds(h, bytes) ==
    /\ Noise \notin bytes
    /\ Xor(Xor(h.parity, HeaderBytes(h.len, h.seq)), bytes) = {}

ReadRest ==
    LET n == Blocks(header.len) - 1
        plain == [i \in 1..n |-> Dec(In[i], IF i = 1 THEN r_last ELSE Name(In[i - 1]))]
        bytes == FlattenSeq([i \in 1..n |-> IF plain[i] = Garbage THEN <<Noise>>
                                       ELSE plain[i][2]])
    IN  /\ Refilling /\ header # None
        /\ \/ Tell(n)
           \/ /\ Arrived(n) /\ Consume(n)
              /\ IF ParityHolds(header, ToSet(bytes))
                   THEN r_buf' = bytes /\ UNCHANGED told
                   ELSE told' = TRUE /\ UNCHANGED r_buf
              /\ r_last' = Name(In[n]) /\ header' = None
              /\ UNCHANGED <<closed, cut, damaged, keys, writerVars, r_seq, r_hasIV, received>>

Read(len) ==
    LET n == Least(Len(r_buf), len)
    IN  /\ r_buf # <<>> /\ ~told
        /\ received' = received \o SubSeq(r_buf, 1, n)
        /\ r_buf' = SubSeq(r_buf, n + 1, Len(r_buf))
        /\ UNCHANGED <<innerVars, writerVars, r_seq, r_hasIV, r_last, header, told>>

ResetReader ==
    /\ Len(received) = ResetAt /\ Refilling /\ header = None /\ r_seq # 0
    /\ r_seq' = 0 /\ r_hasIV' = FALSE
    /\ UNCHANGED <<innerVars, writerVars, r_buf, r_last, header, received, told>>
-----------------------------------------------------------------------------
WriterCall ==
    \/ \E len \in WriteLengths : Write(len)
    \/ Flush \/ (\E n \in 0..BufBlocks : FlushFails(n)) \/ ResetWriter \/ Destroy
ReaderStep ==
    \/ ReadInitVector \/ ReadHeader \/ ReadRest \/ ResetReader
    \/ \E len \in ReadLengths : Read(len)

(* The inner stream breaks, and what is under way is lost from some point. *)
Cut ==
    /\ ~cut /\ ~damaged /\ cut' = TRUE
    /\ \E m \in 0..Len(wire["client"]), n \in 0..Len(wire["server"]) :
          wire' = [client |-> SubSeq(wire["client"], 1, m),
                   server |-> SubSeq(wire["server"], 1, n)]
    /\ UNCHANGED <<closed, damaged, keys, aesVars>>

Damage(side, i) ==
    /\ ~cut /\ ~damaged /\ damaged' = TRUE
    /\ wire' = [wire EXCEPT ![side][i] = Noise]
    /\ UNCHANGED <<closed, cut, keys, aesVars>>
=============================================================================
