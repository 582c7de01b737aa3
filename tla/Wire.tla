-------------------------------- MODULE Wire --------------------------------
(***************************************************************************)
(* One direction of a connection, byte by byte: the codec of the messages, *)
(* BufferedWriter, TCP and BufferedReader.  The writing end is the control *)
(* thread of a session, which writes a batch of messages and flushes; the  *)
(* reading end is first setup() and then the scanner, on the same reader.  *)
(*                                                                         *)
(* A byte is its position in the stream: what it says is left out, but for *)
(* the length word and the type byte, which the reader goes by.  What a    *)
(* message looks like is the set of the offsets at which the writes, or    *)
(* the reads, of it end.  TCP is an external FIFO of bytes: send() takes   *)
(* all it is given, recv() returns any part of what has arrived.           *)
(***************************************************************************)
EXTENDS Integers, Sequences

CONSTANTS
  PrefixSize, WordSize, MD5Size,  \* 28, sizeof(uint32_t), MD5_DIGEST_LENGTH
  NPieces,          \* a bitfield takes a byte per piece
  PieceSizes,       \* the last piece may be smaller than the others
  ReaderBufSize, WriterBufSize,
  MaxBatches,       \* bound: batches written
  Garbled           \* what the reader makes of other bytes

ASSUME WireAssumption ==
  /\ {PrefixSize, WordSize, MD5Size, NPieces, MaxBatches} \subseteq Nat \ {0}
  /\ PieceSizes \subseteq Nat \ {0}
  /\ ReaderBufSize \in Nat /\ WriterBufSize \in Nat
  /\ PrefixSize <= ReaderBufSize /\ MD5Size <= ReaderBufSize
  /\ WordSize < PrefixSize
  /\ PrefixSize + 2 * WordSize + 1 <= WriterBufSize

VARIABLES
  sent,     \* history: the messages written so far
  ends,     \* history: where in the stream each of them ends
  nBatches, \* how many batches have been flushed
  batch,    \* the messages since the last flush
  written,  \* how many bytes have been given to the BufferedWriter
  wbuf,     \* BufferedWriter::buffer
  net,      \* bytes in the socket buffers and between them
  rbuf,     \* BufferedReader::buffer, up to tail
  head,     \* BufferedReader::head
  part,     \* what has been read of the next message
  missing,  \* what a long read still has to get from the socket
  got       \* the messages decoded so far

wvars == <<sent, ends, nBatches, batch, written, wbuf>>
rvars == <<rbuf, head, part, missing, got>>
vars == <<wvars, net, rvars>>
-----------------------------------------------------------------------------
(***************************************************************************)
(* Messages and their codec.                                               *)
(***************************************************************************)
Handshake == [kind |-> "Handshake", size |-> 0]
Bitfield == [kind |-> "Bitfield", size |-> NPieces]
Zero == [kind |-> "Zero", size |-> 0]     \* Choke ... NotInterested, TearDown
Index == [kind |-> "Index", size |-> 0]   \* Have, Request
Piece(n) == [kind |-> "Piece", size |-> n]

Messages == {Handshake, Bitfield, Zero, Index} \cup {Piece(n) : n \in PieceSizes}

\* The first flush of setup(), the second one, and those of the event loop.
Setup == <<Handshake, Bitfield>>
Batches == {Setup, <<Zero>>, <<Index>>, <<Index, Zero>>} \cup {<<Piece(n)>> : n \in PieceSizes}

\* payloadSize(), by which the length word tells the reader how long a message is.
PayloadSize(m) ==
  CASE m.kind = "Zero" -> 0
    [] m.kind = "Index" -> WordSize
    [] m.kind = "Bitfield" -> m.size
    [] m.kind = "Piece" -> WordSize + MD5Size + m.size

\* writePayloadTo(): where its writes end.
PayloadWrites(m) ==
  CASE m.kind = "Zero" -> {}
    [] m.kind = "Index" -> {WordSize}
    [] m.kind = "Bitfield" -> {m.size}
    [] m.kind = "Piece" -> {WordSize, WordSize + MD5Size, WordSize + MD5Size + m.size}

\* The length word and the type byte, and what comes after them.
Framed(E) == {WordSize, WordSize + 1} \cup {WordSize + 1 + e : e \in E}
HandshakeEnds == {PrefixSize, PrefixSize + WordSize}

\* writeTo(): where its writes end.
Writes(m) == IF m.kind = "Handshake" THEN HandshakeEnds ELSE Framed(PayloadWrites(m))

Size(m) == CHOOSE e \in Writes(m) : \A f \in Writes(m) : f <= e

\* Where the write or read ends that begins at offset o.
NextEnd(E, o) == CHOOSE e \in E : e > o /\ \A f \in E : f > o => e <= f

\* Where message i of the stream ends, and the bytes from one position to another.
EndOf(i) == IF i = 0 THEN 0 ELSE ends[i]
Bytes(a, b) == [k \in 1..(b - a) |-> a + k]

\* Where the reads of a payload end, after the length word n and the type byte.
PayloadReads(m, n) ==
  CASE m.kind = "Zero" -> {}
    [] m.kind = "Index" -> {WordSize}
    [] m.kind = "Bitfield" -> {n - 1}
    [] m.kind = "Piece" ->
         {WordSize, WordSize + MD5Size, WordSize + MD5Size + (n - 1 - WordSize - MD5Size)}
    [] m.kind = "Handshake" -> {}  \* not a type: panic

\* The message that a byte belongs to.
MessageOf(byte) ==
  sent[CHOOSE i \in DOMAIN sent : EndOf(i - 1) < byte /\ byte <= EndOf(i)]

\* The reads of the message that begins with the bytes p, as far as p tells; the first
\* message is read by HandshakeMsg::readFrom.
Reads(p) ==
  IF got = <<>> THEN HandshakeEnds
  ELSE IF Len(p) <= WordSize THEN Framed({})
  ELSE LET m == MessageOf(p[1])
       IN  Framed(PayloadReads(m, IF m.kind = "Handshake" THEN 1 ELSE PayloadSize(m) + 1))

\* Whether p is the whole message, and if not, how much the next read asks for.
Complete(p) == \A e \in Reads(p) : e <= Len(p)
Asked(p) == NextEnd(Reads(p), Len(p)) - Len(p)

\* The message that p stands for; a piece is checked against its digest.
Decoded(p) ==
  LET fits == {i \in DOMAIN sent : p = Bytes(EndOf(i - 1), EndOf(i))}
  IN  IF fits = {} THEN Garbled ELSE sent[CHOOSE i \in fits : TRUE]
-----------------------------------------------------------------------------
Init ==
  /\ sent = <<>> /\ ends = <<>> /\ nBatches = 0 /\ batch = <<>> /\ written = 0 /\ wbuf = <<>>
  /\ net = <<>>
  /\ rbuf = <<>> /\ head = 0 /\ part = <<>> /\ missing = 0 /\ got = <<>>
-----------------------------------------------------------------------------
(***************************************************************************)
(* The writing end.                                                        *)
(***************************************************************************)

\* The message of which the last byte has not been written yet is the last one.
Writing == written < EndOf(Len(sent))
Offset == written - EndOf(Len(sent) - 1)

\* setup() before the event loop; the answer to the bitfield is a ZeroMsg.
MayWrite(m) ==
  \E b \in Batches :
    /\ Len(batch) < Len(b) /\ Append(batch, m) = SubSeq(b, 1, Len(batch) + 1)
    /\ nBatches = 0 <=> b = Setup
    /\ nBatches = 1 => b = <<Zero>>

Send(m) ==
  /\ ~Writing
  /\ nBatches < MaxBatches
  /\ MayWrite(m)
  /\ sent' = Append(sent, m)
  /\ ends' = Append(ends, EndOf(Len(sent)) + Size(m))
  /\ batch' = Append(batch, m)
  /\ UNCHANGED <<nBatches, written, wbuf, net, rvars>>

\* The next write of the message; the type byte goes to push_back().
ToWrite ==
  Bytes(written, EndOf(Len(sent) - 1) + NextEnd(Writes(sent[Len(sent)]), Offset))
IsPushed == sent[Len(sent)].kind # "Handshake" /\ Offset = WordSize

\* Into the buffer, if there is room or nobody looks.
WriteBuffered ==
  /\ Writing
  /\ IsPushed \/ Len(wbuf) + Len(ToWrite) <= WriterBufSize
  /\ wbuf' = wbuf \o ToWrite
  /\ written' = written + Len(ToWrite)
  /\ UNCHANGED <<sent, ends, nBatches, batch, net, rvars>>

\* A long write, after what is in the buffer.
WriteLong ==
  /\ Writing
  /\ ~IsPushed /\ Len(wbuf) + Len(ToWrite) > WriterBufSize
  /\ net' = net \o wbuf \o ToWrite
  /\ wbuf' = <<>>
  /\ written' = written + Len(ToWrite)
  /\ UNCHANGED <<sent, ends, nBatches, batch, rvars>>

Flush ==
  /\ ~Writing /\ batch \in Batches
  /\ net' = net \o wbuf
  /\ wbuf' = <<>>
  /\ batch' = <<>>
  /\ nBatches' = nBatches + 1
  /\ UNCHANGED <<sent, ends, written, rvars>>
-----------------------------------------------------------------------------
(***************************************************************************)
(* The reading end.                                                        *)
(***************************************************************************)
Buffered == SubSeq(rbuf, head + 1, Len(rbuf))

AtRead == missing = 0 /\ ~Complete(part)

\* Mutant: recv() may fill the whole buffer, whatever is in it.
Fill_WholeBuffer ==
  /\ AtRead
  /\ Asked(part) <= ReaderBufSize
  /\ Len(Buffered) < Asked(part)
  /\ \E n \in 1..Len(net) :
       /\ n <= ReaderBufSize
       /\ rbuf' = Buffered \o SubSeq(net, 1, n)
       /\ net' = SubSeq(net, n + 1, Len(net))
  /\ head' = 0
  /\ UNCHANGED <<wvars, part, missing, got>>

\* Mutant: the buffer is not moved down before it is filled.
Fill_NoMove ==
  /\ AtRead
  /\ Asked(part) <= ReaderBufSize
  /\ Len(Buffered) < Asked(part)
  /\ \E n \in 1..Len(net) :
       /\ n <= ReaderBufSize - Len(rbuf)
       /\ rbuf' = rbuf \o SubSeq(net, 1, n)
       /\ net' = SubSeq(net, n + 1, Len(net))
  /\ UNCHANGED <<wvars, head, part, missing, got>>

\* BufferedReader::flush within ensure(): move what is left down, and receive.
Fill ==
  /\ AtRead
  /\ Asked(part) <= ReaderBufSize
  /\ Len(Buffered) < Asked(part)
  /\ \E n \in 1..Len(net) :
       /\ n <= ReaderBufSize - Len(Buffered)
       /\ rbuf' = Buffered \o SubSeq(net, 1, n)
       /\ net' = SubSeq(net, n + 1, Len(net))
  /\ head' = 0
  /\ UNCHANGED <<wvars, part, missing, got>>

\* A read that the buffer can satisfy.
Take ==
  /\ AtRead
  /\ Asked(part) <= ReaderBufSize
  /\ Len(Buffered) >= Asked(part)
  /\ part' = part \o SubSeq(Buffered, 1, Asked(part))
  /\ head' = head + Asked(part)
  /\ UNCHANGED <<wvars, net, rbuf, missing, got>>

\* Mutant: a long read does not look into the buffer.
LongRead_NotBuffer ==
  /\ AtRead
  /\ Asked(part) > ReaderBufSize
  /\ missing' = Asked(part)
  /\ UNCHANGED <<wvars, net, rbuf, head, part, got>>

\* A long read begins with all that is in the buffer, which is less.
LongRead ==
  /\ AtRead
  /\ Asked(part) > ReaderBufSize
  /\ part' = part \o Buffered
  /\ missing' = Asked(part) - Len(Buffered)
  /\ head' = Len(rbuf)
  /\ UNCHANGED <<wvars, net, rbuf, got>>

\* The rest does not go through the buffer.
LongReceive ==
  /\ missing > 0
  /\ \E n \in 1..Len(net) :
       /\ n <= missing
       /\ part' = part \o SubSeq(net, 1, n)
       /\ net' = SubSeq(net, n + 1, Len(net))
       /\ missing' = missing - n
  /\ UNCHANGED <<wvars, rbuf, head, got>>

\* Everything the message asks for has been read.
Deliver ==
  /\ missing = 0 /\ Complete(part)
  /\ got' = Append(got, Decoded(part))
  /\ part' = <<>>
  /\ UNCHANGED <<wvars, net, rbuf, head, missing>>
-----------------------------------------------------------------------------
\* A batch that has begun is written to its end.
Writer ==
  WriteBuffered \/ WriteLong \/ Flush \/ (batch # <<>> /\ \E m \in Messages : Send(m))
Reader == Fill \/ Take \/ LongRead \/ LongReceive \/ Deliver

Next == (\E m \in Messages : Send(m)) \/ Writer \/ Reader

\* Neither thread stops within a batch or while bytes arrive; nothing has to be sent.
Spec == Init /\ [][Next]_vars /\ WF_vars(Writer) /\ WF_vars(Reader)
-----------------------------------------------------------------------------
(***************************************************************************)
(* Properties.                                                             *)
(***************************************************************************)
\* Neither buffer outgrows its capacity, although the type byte is pushed unasked
\* (BufferedWriter.hpp:16, :36-38).
TypeOK ==
  /\ sent \in Seq(Messages) /\ ends \in Seq(Nat) /\ Len(ends) = Len(sent)
  /\ nBatches \in 0..MaxBatches /\ batch \in Seq(Messages) /\ written \in Nat
  /\ {wbuf, net, rbuf, part} \subseteq Seq(Nat)
  /\ Len(wbuf) <= WriterBufSize
  /\ Len(rbuf) <= ReaderBufSize
  /\ head \in 0..Len(rbuf)
  /\ missing \in Nat
  /\ got \in Seq(Messages \cup {Garbled})

\* No byte is lost, doubled or out of place: what has been read of the next message, the
\* two buffers and the socket are together the bytes written after the messages decoded,
\* wherever a long read or write or a short recv() cuts them.
StreamIsExact == part \o Buffered \o net \o wbuf = Bytes(EndOf(Len(got)), written)

\* The connection is the FIFO of messages that Session takes it for, and no message
\* stays behind in a buffer of either end.
Fifo == INSTANCE MessageFifo
FifoSpec == Fifo!Spec
FifoSafety == Fifo!Safety
=============================================================================
