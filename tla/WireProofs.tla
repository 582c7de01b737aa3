----------------------------- MODULE WireProofs -----------------------------
(***************************************************************************)
(* Proofs about one direction of a connection, for every size of its       *)
(* buffers, its messages and its pieces, and every way to cut the stream.  *)
(***************************************************************************)
EXTENDS Wire, SequenceTheorems, WellFoundedInduction, TLAPS

-----------------------------------------------------------------------------
(***************************************************************************)
(* Stretches of the stream.                                                *)
(***************************************************************************)
LEMMA BytesAreSeq ==
  ASSUME NEW a \in Nat, NEW b \in Nat, a <= b
  PROVE  /\ Bytes(a, b) \in Seq(Nat)
         /\ Len(Bytes(a, b)) = b - a
         /\ \A k \in 1..(b - a) : Bytes(a, b)[k] = a + k
  BY DEF Bytes

LEMMA BytesLength ==
  ASSUME NEW a \in Nat, NEW b \in Nat, a <= b
  PROVE  Len(Bytes(a, b)) = b - a
  BY DEF Bytes

LEMMA EmptyBytes ==
  ASSUME NEW a \in Nat
  PROVE  Bytes(a, a) = <<>>
  BY DEF Bytes

LEMMA BytesJoin ==
  ASSUME NEW a \in Nat, NEW b \in Nat, NEW c \in Nat, a <= b, b <= c
  PROVE  Bytes(a, b) \o Bytes(b, c) = Bytes(a, c)
  <1> DEFINE s == Bytes(a, b)
             t == Bytes(b, c)
             u == Bytes(a, c)
  <1>0. a <= c
    OBVIOUS
  <1>1. /\ s \in Seq(Nat) /\ Len(s) = b - a /\ \A k \in 1..(b - a) : s[k] = a + k
        /\ t \in Seq(Nat) /\ Len(t) = c - b /\ \A k \in 1..(c - b) : t[k] = b + k
        /\ u \in Seq(Nat) /\ Len(u) = c - a /\ \A k \in 1..(c - a) : u[k] = a + k
    BY <1>0, BytesAreSeq, Zenon
  <1> HIDE DEF s, t, u
  <1>2. /\ s \o t \in Seq(Nat) /\ Len(s \o t) = Len(s) + Len(t)
        /\ \A k \in 1..(Len(s) + Len(t)) :
             (s \o t)[k] = IF k <= Len(s) THEN s[k] ELSE t[k - Len(s)]
    BY <1>1, ConcatProperties
  <1>3. Len(s \o t) = Len(u)
    BY <1>1, <1>2
  <1>4. ASSUME NEW k \in 1..Len(s \o t) PROVE (s \o t)[k] = u[k]
    <2>1. k \in 1..(c - a) /\ u[k] = a + k
      BY <1>1, <1>3
    <2>2. CASE k <= b - a
      <3>1. k \in 1..(b - a)
        BY <2>1, <2>2
      <3> QED  BY <1>1, <1>2, <2>1, <2>2, <3>1
    <2>3. CASE ~(k <= b - a)
      <3>1. k - (b - a) \in 1..(c - b)
        BY <2>1, <2>3
      <3>2. t[k - (b - a)] = b + (k - (b - a))
        BY <1>1, <3>1
      <3>3. (s \o t)[k] = t[k - (b - a)]
        BY <1>1, <1>2, <2>3
      <3> QED  BY <2>1, <3>2, <3>3
    <2> QED  BY <2>2, <2>3
  <1>5. s \o t = u
    BY <1>1, <1>2, <1>3, <1>4, SeqEqual
  <1> QED
    BY <1>5 DEF s, t, u

LEMMA BytesCut ==
  ASSUME NEW a \in Nat, NEW b \in Nat, a <= b, NEW n \in 0..(b - a)
  PROVE  /\ SubSeq(Bytes(a, b), 1, n) = Bytes(a, a + n)
         /\ SubSeq(Bytes(a, b), n + 1, b - a) = Bytes(a + n, b)
  <1> DEFINE s == Bytes(a, b)
             t == Bytes(a, a + n)
             u == Bytes(a + n, b)
  <1>0. a + n \in Nat /\ a <= a + n /\ a + n <= b
    OBVIOUS
  <1>1. /\ s \in Seq(Nat) /\ Len(s) = b - a /\ \A k \in 1..(b - a) : s[k] = a + k
        /\ t \in Seq(Nat) /\ Len(t) = (a + n) - a
        /\ \A k \in 1..((a + n) - a) : t[k] = a + k
        /\ u \in Seq(Nat) /\ Len(u) = b - (a + n)
        /\ \A k \in 1..(b - (a + n)) : u[k] = (a + n) + k
    BY <1>0, BytesAreSeq, Zenon
  <1> HIDE DEF s, t, u
  <1>2. SubSeq(s, 1, n) = t
    BY <1>1
  <1>3. SubSeq(s, n + 1, b - a) = u
    <2>1. ASSUME NEW k \in (n + 1)..(b - a) PROVE s[k] \in Nat
      <3>1. k \in 1..(b - a)
        OBVIOUS
      <3>2. s[k] = a + k
        BY <1>1, <3>1
      <3> QED  BY <3>1, <3>2
    <2>2. /\ SubSeq(s, n + 1, b - a) \in Seq(Nat)
          /\ Len(SubSeq(s, n + 1, b - a)) = b - (a + n)
          /\ \A k \in 1..(b - a - (n + 1) + 1) :
               SubSeq(s, n + 1, b - a)[k] = s[(n + 1) + k - 1]
      BY <2>1, SubSeqProperties
    <2>3. ASSUME NEW k \in 1..(b - (a + n))
          PROVE  SubSeq(s, n + 1, b - a)[k] = u[k]
      <3>1. SubSeq(s, n + 1, b - a)[k] = s[(n + 1) + k - 1]
        BY <2>2
      <3>2. (n + 1) + k - 1 = n + k /\ n + k \in 1..(b - a)
        OBVIOUS
      <3>3. s[n + k] = a + (n + k)
        BY <1>1, <3>2
      <3>4. u[k] = (a + n) + k
        BY <1>1
      <3> QED  BY <3>1, <3>2, <3>3, <3>4
    <2>4. Len(u) = b - (a + n)
      BY <1>1
    <2> HIDE DEF s, t, u
    <2> QED
      BY <1>1, <2>2, <2>3, <2>4, SeqEqual
  <1> QED
    BY <1>2, <1>3 DEF s, t, u

LEMMA BytesDiffer ==
  ASSUME NEW a \in Nat, NEW b \in Nat, NEW c \in Nat, NEW d \in Nat,
         a < b, c < d, Bytes(a, b) = Bytes(c, d)
  PROVE  a = c
  <1>1. 1 \in 1..(b - a) /\ 1 \in 1..(d - c)
    OBVIOUS
  <1>2. Bytes(a, b)[1] = a + 1 /\ Bytes(c, d)[1] = c + 1
    BY <1>1 DEF Bytes
  <1> QED  BY <1>2

-----------------------------------------------------------------------------
(***************************************************************************)
(* Where the next write or read ends.                                      *)
(***************************************************************************)
LEMMA NextEndExists ==
  ASSUME NEW E \in SUBSET Nat, NEW o \in Nat, \E e \in E : e > o
  PROVE  /\ NextEnd(E, o) \in E /\ NextEnd(E, o) > o
         /\ \A f \in E : f > o => NextEnd(E, o) <= f
  <1> DEFINE T == {e \in E : e > o}
  <1>0. T \subseteq Nat /\ T # {}
    OBVIOUS
  <1>1. \E x \in T : \A y \in T : ~ (<<y, x>> \in OpToRel(<, Nat))
    <2> DEFINE R == OpToRel(<, Nat)
    <2>1. IsWellFoundedOn(R, Nat)
      BY NatLessThanWellFounded
    <2> HIDE DEF T, R
    <2>2. \E x \in T : \A y \in T : ~ (<<y, x>> \in R)
      BY <1>0, <2>1, WFMin
    <2> QED  BY <2>2 DEF R
  <1>2. PICK x \in T : \A y \in T : ~ (<<y, x>> \in OpToRel(<, Nat))
    BY <1>1
  <1>3. ASSUME NEW y \in T PROVE x <= y
    <2>1. x \in Nat /\ y \in Nat
      BY <1>0
    <2>2. y < x => <<y, x>> \in OpToRel(<, Nat)
      BY <2>1 DEF OpToRel
    <2>3. ~ (y < x)
      BY <1>2, <2>2
    <2>4. \A i, j \in Nat : ~ (i < j) => j <= i
      OBVIOUS
    <2> QED  BY <2>1, <2>3, <2>4
  <1>4. \E e \in E : e > o /\ \A f \in E : f > o => e <= f
    BY <1>3
  <1> QED
    BY <1>4 DEF NextEnd

-----------------------------------------------------------------------------
(***************************************************************************)
(* The codec.                                                              *)
(***************************************************************************)
LEMMA Numbers ==
  /\ PrefixSize \in Nat \ {0} /\ WordSize \in Nat \ {0} /\ MD5Size \in Nat \ {0}
  /\ NPieces \in Nat \ {0} /\ MaxBatches \in Nat \ {0}
  /\ ReaderBufSize \in Nat /\ WriterBufSize \in Nat
  /\ PrefixSize <= ReaderBufSize /\ WordSize < PrefixSize
  /\ PrefixSize + 2 * WordSize + 1 <= WriterBufSize
  /\ PieceSizes \subseteq Nat \ {0}
  BY WireAssumption

LEMMA Kinds ==
  ASSUME NEW m \in Messages
  PROVE  \/ m = Handshake \/ m = Zero \/ m = Index \/ m = Bitfield
         \/ \E n \in PieceSizes : m = Piece(n)
  BY DEF Messages

\* What a message looks like to the writer.
LEMMA WritesOf ==
  ASSUME NEW m \in Messages
  PROVE  /\ m.kind = "Handshake" => m = Handshake /\ Writes(m) = HandshakeEnds
         /\ m.kind # "Handshake" => Writes(m) = Framed(PayloadWrites(m))
         /\ PayloadWrites(Zero) = {}
         /\ PayloadWrites(Index) = {WordSize}
         /\ PayloadWrites(Bitfield) = {NPieces}
         /\ \A n \in PieceSizes :
              PayloadWrites(Piece(n)) =
                {WordSize, WordSize + MD5Size, WordSize + MD5Size + n}
  <1>1. m.kind = "Handshake" => m = Handshake
    BY Kinds DEF Handshake, Zero, Index, Bitfield, Piece
  <1> QED
    BY <1>1 DEF Writes, PayloadWrites, Zero, Index, Bitfield, Piece

LEMMA Sizes ==
  ASSUME NEW m \in Messages
  PROVE  /\ Writes(m) \subseteq Nat \ {0}
         /\ Size(m) \in Writes(m) /\ \A e \in Writes(m) : e <= Size(m)
         /\ m = Handshake => Size(m) = PrefixSize + WordSize
         /\ m = Index => Size(m) = WordSize + 1 + WordSize
  <1>1. CASE m = Handshake
    <2>1. Writes(m) = {PrefixSize, PrefixSize + WordSize} /\ m # Index
      BY <1>1 DEF Writes, HandshakeEnds, Handshake, Index
    <2>2. Size(m) = PrefixSize + WordSize
      BY <2>1, Numbers DEF Size
    <2> QED  BY <2>1, <2>2, Numbers
  <1>2. CASE m = Zero
    <2>1. Writes(m) = {WordSize, WordSize + 1} /\ m # Index /\ m # Handshake
      BY <1>2, WritesOf DEF Framed, Zero, Index, Handshake
    <2>2. Size(m) = WordSize + 1
      BY <2>1, Numbers DEF Size
    <2> QED  BY <2>1, <2>2, Numbers
  <1>3. CASE m = Index
    <2>1. Writes(m) = {WordSize, WordSize + 1, WordSize + 1 + WordSize} /\ m # Handshake
      BY <1>3, WritesOf DEF Framed, Index, Handshake
    <2>2. Size(m) = WordSize + 1 + WordSize
      BY <2>1, Numbers DEF Size
    <2> QED  BY <2>1, <2>2, Numbers
  <1>4. CASE m = Bitfield
    <2>1. /\ Writes(m) = {WordSize, WordSize + 1, WordSize + 1 + NPieces}
          /\ m # Index /\ m # Handshake
      BY <1>4, WritesOf DEF Framed, Bitfield, Index, Handshake
    <2>2. Size(m) = WordSize + 1 + NPieces
      BY <2>1, Numbers DEF Size
    <2> QED  BY <2>1, <2>2, Numbers
  <1>5. CASE \E n \in PieceSizes : m = Piece(n)
    <2> PICK n \in PieceSizes : m = Piece(n)
      BY <1>5
    <2>1. /\ Writes(m) = {WordSize, WordSize + 1, WordSize + 1 + WordSize,
                          WordSize + 1 + (WordSize + MD5Size),
                          WordSize + 1 + (WordSize + MD5Size + n)}
          /\ m # Index /\ m # Handshake /\ n \in Nat \ {0}
      BY WritesOf, Numbers DEF Framed, Piece, Index, Handshake
    <2>2. Size(m) = WordSize + 1 + (WordSize + MD5Size + n)
      BY <2>1, Numbers DEF Size
    <2> QED  BY <2>1, <2>2, Numbers
  <1> QED
    BY <1>1, <1>2, <1>3, <1>4, <1>5, Kinds

\* The two sides of the codec cut a payload at the same places.
LEMMA ReadsAsWritten ==
  ASSUME NEW m \in Messages, m.kind # "Handshake"
  PROVE  PayloadReads(m, PayloadSize(m) + 1) = PayloadWrites(m)
  <1>1. m = Zero \/ m = Index \/ m = Bitfield \/ \E n \in PieceSizes : m = Piece(n)
    BY Kinds DEF Handshake
  <1>2. CASE m = Zero \/ m = Index \/ m = Bitfield
    BY <1>2, Numbers DEF Zero, Index, Bitfield, PayloadReads, PayloadWrites, PayloadSize
  <1>3. CASE \E n \in PieceSizes : m = Piece(n)
    BY <1>3, Numbers DEF Piece, PayloadReads, PayloadWrites, PayloadSize
  <1> QED
    BY <1>1, <1>2, <1>3

-----------------------------------------------------------------------------
(***************************************************************************)
(* The inductive invariant.                                                *)
(***************************************************************************)
Types == TypeOK /\ got \in Seq(Messages)

\* The messages follow one another in the stream.
Ordered ==
  /\ \A i \in 1..Len(sent) : EndOf(i) = EndOf(i - 1) + Size(sent[i])
  /\ \A i, j \in 0..Len(sent) : i < j => EndOf(i) < EndOf(j)

\* The handshake is the first message and is never sent again.
HandshakeFirst ==
  /\ \A i \in 1..Len(sent) : sent[i].kind = "Handshake" <=> i = 1
  /\ nBatches = 0 => batch = sent
  /\ nBatches > 0 => sent # <<>>

\* The batch is the end of what has been sent; one of two messages begins with a
\* short one.
InBatch ==
  /\ \/ batch = <<>>
     \/ /\ Len(batch) = 1 /\ Len(sent) >= 1
        /\ batch[1] = sent[Len(sent)]
     \/ /\ Len(batch) = 2 /\ Len(sent) >= 2
        /\ sent[Len(sent) - 1] \in {Handshake, Index}
  /\ batch # <<>> => nBatches < MaxBatches

\* The writer is in the last message, after one of its writes, and nothing of a batch
\* that has been flushed is in the buffer.
Written ==
  /\ sent = <<>> => written = 0
  /\ sent # <<>> =>
       \/ written = EndOf(Len(sent) - 1)
       \/ written - EndOf(Len(sent) - 1) \in Writes(sent[Len(sent)])
  /\ Writing => batch # <<>>
  /\ Len(wbuf) <= written - EndOf(Len(sent) - Len(batch))

\* What is read, buffered, under way and buffered again are consecutive stretches.
First == EndOf(Len(got))
AfterPart == First + Len(part)
AfterBuffer == AfterPart + (Len(rbuf) - head)
AfterNet == AfterBuffer + Len(net)

Stream ==
  /\ Len(got) <= Len(sent)
  /\ part = Bytes(First, AfterPart)
  /\ Buffered = Bytes(AfterPart, AfterBuffer)
  /\ net = Bytes(AfterBuffer, AfterNet)
  /\ wbuf = Bytes(AfterNet, written)
  /\ AfterNet + Len(wbuf) = written

\* The reader stays within the message it is in; a long read has emptied the buffer.
Reading ==
  /\ missing > 0 => head = Len(rbuf) /\ Len(got) < Len(sent)
  /\ Len(got) < Len(sent) => Len(part) + missing <= Size(sent[Len(got) + 1])

\* What has been decoded is what was sent.
Delivered == \A i \in 1..Len(got) : got[i] = sent[i]

IInv ==
  /\ Types /\ Ordered /\ HandshakeFirst /\ InBatch /\ Written /\ Stream /\ Reading
  /\ Delivered

-----------------------------------------------------------------------------
(***************************************************************************)
(* Where things are.                                                       *)
(***************************************************************************)
LEMMA Typed ==
  ASSUME IInv
  PROVE  /\ sent \in Seq(Messages) /\ Len(sent) \in Nat
         /\ \A i \in 1..Len(sent) : sent[i] \in Messages
         /\ ends \in Seq(Nat) /\ Len(ends) = Len(sent)
         /\ \A i \in 0..Len(sent) : EndOf(i) \in Nat
         /\ nBatches \in 0..MaxBatches /\ batch \in Seq(Messages) /\ written \in Nat
         /\ wbuf \in Seq(Nat) /\ net \in Seq(Nat) /\ rbuf \in Seq(Nat) /\ part \in Seq(Nat)
         /\ Len(wbuf) \in Nat /\ Len(net) \in Nat /\ Len(rbuf) \in Nat /\ Len(part) \in Nat
         /\ Len(wbuf) <= WriterBufSize /\ Len(rbuf) <= ReaderBufSize
         /\ head \in 0..Len(rbuf) /\ missing \in Nat
         /\ got \in Seq(Messages) /\ Len(got) \in Nat
  <1>1. TypeOK /\ got \in Seq(Messages)
    BY DEF IInv, Types
  <1>2. ASSUME NEW i \in 0..Len(sent) PROVE EndOf(i) \in Nat
    BY <1>1 DEF TypeOK, EndOf
  <1> QED
    BY <1>1, <1>2 DEF TypeOK

LEMMA WriterPosition ==
  ASSUME IInv, sent # <<>>
  PROVE  /\ Len(sent) \in Nat \ {0} /\ sent[Len(sent)] \in Messages
         /\ EndOf(Len(sent) - 1) \in Nat
         /\ EndOf(Len(sent)) = EndOf(Len(sent) - 1) + Size(sent[Len(sent)])
         /\ EndOf(Len(sent) - 1) <= written /\ written <= EndOf(Len(sent))
         /\ Offset \in Nat
         /\ Offset = 0 \/ Offset \in Writes(sent[Len(sent)])
  <1>1. Len(sent) \in Nat \ {0} /\ Len(sent) - 1 \in 0..Len(sent) /\ Len(sent) \in 1..Len(sent)
    BY Typed
  <1>2. /\ sent[Len(sent)] \in Messages /\ EndOf(Len(sent) - 1) \in Nat
        /\ EndOf(Len(sent)) = EndOf(Len(sent) - 1) + Size(sent[Len(sent)])
    BY <1>1, Typed DEF IInv, Ordered
  <1>3. written = EndOf(Len(sent) - 1) \/ Offset \in Writes(sent[Len(sent)])
    BY DEF IInv, Written, Offset
  <1>4. Offset = written - EndOf(Len(sent) - 1) /\ written \in Nat
    BY Typed DEF Offset
  <1>5. /\ Writes(sent[Len(sent)]) \subseteq Nat \ {0}
        /\ Size(sent[Len(sent)]) \in Nat
        /\ \A e \in Writes(sent[Len(sent)]) : e <= Size(sent[Len(sent)])
    BY <1>2, Sizes
  <1>6. Offset \in Nat /\ Offset <= Size(sent[Len(sent)])
    BY <1>2, <1>3, <1>4, <1>5
  <1> HIDE DEF Offset
  <1> QED
    BY <1>1, <1>2, <1>3, <1>4, <1>5, <1>6

LEMMA WrittenIsSent ==
  ASSUME IInv
  PROVE  written <= EndOf(Len(sent))
  <1>1. CASE sent = <<>>
    BY <1>1 DEF IInv, Written, EndOf
  <1> QED
    BY <1>1, WriterPosition

LEMMA NextWrite ==
  ASSUME IInv, Writing
  PROVE  LET m == sent[Len(sent)]
             k == NextEnd(Writes(m), Offset)
         IN  /\ sent # <<>> /\ batch # <<>> /\ m \in Messages
             /\ k \in Writes(m) /\ k \in Nat /\ k > Offset
             /\ ToWrite = Bytes(written, EndOf(Len(sent) - 1) + k)
             /\ Len(ToWrite) = k - Offset
             /\ written + Len(ToWrite) = EndOf(Len(sent) - 1) + k
             /\ IsPushed => k = WordSize + 1
  <1> DEFINE m == sent[Len(sent)]
             k == NextEnd(Writes(m), Offset)
  <1>1. sent # <<>> /\ batch # <<>>
    <2>1. CASE sent = <<>>
      BY <2>1, Typed DEF IInv, Written, Writing, EndOf
    <2> QED
      BY <2>1 DEF IInv, Written
  <1>2. /\ m \in Messages /\ Offset \in Nat /\ Offset < Size(m)
        /\ EndOf(Len(sent) - 1) \in Nat /\ written = EndOf(Len(sent) - 1) + Offset
    <2>1. /\ m \in Messages /\ Offset \in Nat /\ EndOf(Len(sent) - 1) \in Nat
          /\ EndOf(Len(sent)) = EndOf(Len(sent) - 1) + Size(m)
      BY <1>1, WriterPosition
    <2>2. written < EndOf(Len(sent)) /\ written \in Nat
      BY Typed DEF Writing
    <2>3. Size(m) \in Nat
      BY <2>1, Sizes
    <2>4. Offset = written - EndOf(Len(sent) - 1)
      BY DEF Offset
    <2> HIDE DEF m
    <2> QED  BY <2>1, <2>2, <2>3, <2>4
  <1>3. Writes(m) \subseteq Nat \ {0} /\ Size(m) \in Writes(m)
    BY <1>2, Sizes
  <1>4. k \in Writes(m) /\ k > Offset /\ \A f \in Writes(m) : f > Offset => k <= f
    <2> HIDE DEF m
    <2> QED  BY <1>2, <1>3, NextEndExists
  <1>5. ToWrite = Bytes(written, EndOf(Len(sent) - 1) + k)
    BY DEF ToWrite
  <1>6. k \in Nat
    BY <1>3, <1>4
  <1>8. ASSUME IsPushed PROVE k = WordSize + 1
    <2>1. m.kind # "Handshake" /\ Offset = WordSize
      BY <1>8 DEF IsPushed
    <2>2. WordSize + 1 \in Writes(m)
      BY <1>2, <2>1, WritesOf DEF Framed
    <2> HIDE DEF m, k
    <2> QED  BY <2>1, <2>2, <1>4, <1>6, Numbers
  <1> DEFINE e == EndOf(Len(sent) - 1)
  <1>9. /\ e \in Nat /\ Offset \in Nat /\ k \in Nat /\ written = e + Offset /\ k > Offset
        /\ ToWrite = Bytes(written, e + k)
    BY <1>2, <1>4, <1>5, <1>6
  <1> HIDE DEF m, k, e
  <1>10. Len(ToWrite) = (e + k) - written
    <2>1. written \in Nat /\ e + k \in Nat /\ written <= e + k
      BY <1>9
    <2> QED  BY <1>9, <2>1, BytesLength
  <1>11. Len(ToWrite) = k - Offset /\ written + Len(ToWrite) = e + k
    BY <1>9, <1>10
  <1> QED
    BY <1>1, <1>2, <1>4, <1>5, <1>6, <1>8, <1>11 DEF m, k, e

LEMMA ReaderPosition ==
  ASSUME IInv
  PROVE  /\ First \in Nat /\ AfterPart \in Nat /\ AfterBuffer \in Nat /\ AfterNet \in Nat
         /\ First <= AfterPart /\ AfterPart <= AfterBuffer /\ AfterBuffer <= AfterNet
         /\ AfterNet <= written
         /\ Len(Buffered) = AfterBuffer - AfterPart
         /\ Len(Buffered) = Len(rbuf) - head
         /\ First < written => Len(got) < Len(sent)
  <1>1. Len(got) \in 0..Len(sent)
    BY Typed DEF IInv, Stream
  <1>2. /\ First \in Nat /\ AfterPart \in Nat /\ AfterBuffer \in Nat /\ AfterNet \in Nat
        /\ First <= AfterPart /\ AfterPart <= AfterBuffer /\ AfterBuffer <= AfterNet
        /\ AfterBuffer - AfterPart = Len(rbuf) - head
    <2>1. First \in Nat
      BY <1>1, Typed DEF First
    <2>2. AfterPart \in Nat /\ First <= AfterPart
      BY <2>1, Typed DEF AfterPart
    <2>3. /\ AfterBuffer \in Nat /\ AfterPart <= AfterBuffer
          /\ AfterBuffer - AfterPart = Len(rbuf) - head
      BY <2>2, Typed DEF AfterBuffer
    <2>4. AfterNet \in Nat /\ AfterBuffer <= AfterNet
      BY <2>3, Typed DEF AfterNet
    <2> QED  BY <2>1, <2>2, <2>3, <2>4
  <1>3. AfterNet <= written
    BY <1>2, Typed DEF IInv, Stream
  <1>4. Len(Buffered) = AfterBuffer - AfterPart
    BY <1>2, BytesLength DEF IInv, Stream
  <1>5. First < written => Len(got) < Len(sent)
    <2>1. CASE Len(got) = Len(sent)
      BY <2>1, WrittenIsSent, Typed, <1>2 DEF First
    <2> QED  BY <1>1, <2>1
  <1> QED
    BY <1>2, <1>3, <1>4, <1>5

\* No byte belongs to two messages.
LEMMA MessageAt ==
  ASSUME IInv, NEW i \in 1..Len(sent), NEW j \in 1..Len(sent), NEW b \in Nat,
         EndOf(i - 1) < b, b <= EndOf(i), EndOf(j - 1) < b, b <= EndOf(j)
  PROVE  i = j
  <1>0. Len(sent) \in Nat
    BY Typed
  <1>1. /\ i \in 0..Len(sent) /\ j \in 0..Len(sent)
        /\ i - 1 \in 0..Len(sent) /\ j - 1 \in 0..Len(sent)
    BY <1>0
  <1>2. /\ EndOf(i) \in Nat /\ EndOf(j) \in Nat /\ EndOf(i - 1) \in Nat /\ EndOf(j - 1) \in Nat
    BY <1>1, Typed
  <1>3. ASSUME NEW x \in 0..Len(sent), NEW y \in 0..Len(sent), x < y
        PROVE  EndOf(x) < EndOf(y)
    BY <1>3 DEF IInv, Ordered
  <1>4. CASE i < j
    <2>1. i = j - 1 \/ EndOf(i) < EndOf(j - 1)
      BY <1>1, <1>3, <1>4
    <2> QED  BY <1>2, <2>1
  <1>5. CASE j < i
    <2>1. j = i - 1 \/ EndOf(j) < EndOf(i - 1)
      BY <1>1, <1>3, <1>5
    <2> QED  BY <1>2, <2>1
  <1> QED
    BY <1>4, <1>5

\* The message that the reader is in.
LEMMA Current ==
  ASSUME IInv, Len(got) < Len(sent)
  PROVE  /\ Len(got) + 1 \in 1..Len(sent) /\ sent[Len(got) + 1] \in Messages
         /\ EndOf(Len(got) + 1) = First + Size(sent[Len(got) + 1])
         /\ Size(sent[Len(got) + 1]) \in Nat \ {0}
         /\ sent[Len(got) + 1].kind = "Handshake" <=> got = <<>>
  <1>1. Len(got) + 1 \in 1..Len(sent) /\ sent[Len(got) + 1] \in Messages
    BY Typed
  <1>2. EndOf(Len(got) + 1) = EndOf((Len(got) + 1) - 1) + Size(sent[Len(got) + 1])
    BY <1>1 DEF IInv, Ordered
  <1>3. (Len(got) + 1) - 1 = Len(got)
    BY Typed
  <1>4. Size(sent[Len(got) + 1]) \in Nat \ {0}
    BY <1>1, Sizes
  <1>5. sent[Len(got) + 1].kind = "Handshake" <=> Len(got) + 1 = 1
    BY <1>1 DEF IInv, HandshakeFirst
  <1>6. Len(got) + 1 = 1 <=> got = <<>>
    BY Typed
  <1> QED
    BY <1>1, <1>2, <1>3, <1>4, <1>5, <1>6 DEF First

LEMMA PartInMessage ==
  ASSUME IInv, part # <<>>
  PROVE  Len(part) > 0 /\ Len(got) < Len(sent)
  <1>1. part \in Seq(Nat) /\ Len(part) \in Nat
    BY Typed
  <1>2. Len(part) > 0
    BY <1>1
  <1>3. AfterPart = First + Len(part) /\ written \in Nat
    BY Typed DEF AfterPart
  <1> QED  BY <1>1, <1>2, <1>3, ReaderPosition

LEMMA ReadsInMessage ==
  ASSUME IInv, Len(got) < Len(sent)
  PROVE  LET m == sent[Len(got) + 1]
         IN  /\ Reads(part) \subseteq Writes(m)
             /\ Reads(part) # Writes(m) => Len(part) <= WordSize /\ Reads(part) = Framed({})
  <1> DEFINE m == sent[Len(got) + 1]
  <1>3. m \in Messages /\ (m.kind = "Handshake" <=> got = <<>>)
    BY Current
  <1>4. CASE got = <<>>
    <2>1. Reads(part) = HandshakeEnds
      BY <1>4 DEF Reads
    <2>2. Writes(m) = HandshakeEnds
      BY <1>3, <1>4, WritesOf
    <2> QED  BY <2>1, <2>2
  <1>5. CASE got # <<>> /\ Len(part) <= WordSize
    <2>1. Reads(part) = Framed({})
      BY <1>5 DEF Reads
    <2>2. Writes(m) = Framed(PayloadWrites(m))
      BY <1>3, <1>5, WritesOf
    <2> QED  BY <1>5, <2>1, <2>2 DEF Framed
  <1>6. CASE got # <<>> /\ ~ (Len(part) <= WordSize)
    <2>1. part[1] = First + 1 /\ part[1] \in Nat
      <3>1. part = Bytes(First, AfterPart) /\ 1 \in 1..(AfterPart - First)
        <4>1. AfterPart = First + Len(part) /\ Len(part) \in Nat /\ First \in Nat
          BY Typed, ReaderPosition DEF AfterPart
        <4>2. 1 \in 1..(AfterPart - First)
          BY <1>6, <4>1, Numbers
        <4> QED  BY <4>2 DEF IInv, Stream
      <3>2. part[1] = First + 1
        BY <3>1 DEF Bytes
      <3> QED  BY <3>2, ReaderPosition
    <2>2. /\ Len(got) + 1 \in 1..Len(sent)
          /\ EndOf((Len(got) + 1) - 1) < part[1] /\ part[1] <= EndOf(Len(got) + 1)
      <3>1. /\ Len(got) + 1 \in 1..Len(sent)
            /\ EndOf(Len(got) + 1) = First + Size(m) /\ Size(m) \in Nat \ {0}
        BY Current
      <3>2. (Len(got) + 1) - 1 = Len(got)
        BY Typed
      <3>3. EndOf((Len(got) + 1) - 1) = First
        BY <3>2 DEF First
      <3> HIDE DEF m
      <3> QED  BY <2>1, <3>1, <3>3, ReaderPosition
    <2>3. \A i \in DOMAIN sent :
            EndOf(i - 1) < part[1] /\ part[1] <= EndOf(i) => i = Len(got) + 1
      <3>1. DOMAIN sent = 1..Len(sent)
        BY Typed
      <3> QED  BY <2>1, <2>2, <3>1, MessageAt
    <2>4. Len(got) + 1 \in DOMAIN sent
      BY <2>2, Typed
    <2>5. (CHOOSE i \in DOMAIN sent : EndOf(i - 1) < part[1] /\ part[1] <= EndOf(i))
            = Len(got) + 1
      <3> DEFINE P(i) == EndOf(i - 1) < part[1] /\ part[1] <= EndOf(i)
                 x == Len(got) + 1
      <3>1. x \in DOMAIN sent /\ P(x) /\ \A i \in DOMAIN sent : P(i) => i = x
        BY <2>2, <2>3, <2>4
      <3> HIDE DEF P, x
      <3>2. (CHOOSE i \in DOMAIN sent : P(i)) = x
        BY <3>1
      <3> QED  BY <3>2 DEF P, x
    <2>6. MessageOf(part[1]) = m
      BY <2>5 DEF MessageOf
    <2>7. Reads(part) = Framed(PayloadReads(m, PayloadSize(m) + 1))
      BY <1>3, <1>6, <2>6 DEF Reads
    <2>8. Reads(part) = Writes(m)
      BY <1>3, <1>6, <2>7, ReadsAsWritten, WritesOf
    <2> QED  BY <2>8
  <1> QED
    BY <1>4, <1>5, <1>6

LEMMA NextRead ==
  ASSUME IInv
  PROVE  /\ Complete(part) =>
              Len(got) < Len(sent) /\ Len(part) = Size(sent[Len(got) + 1])
         /\ ~Complete(part) =>
              /\ Asked(part) \in Nat \ {0}
              /\ Len(got) < Len(sent) => Len(part) + Asked(part) <= Size(sent[Len(got) + 1])
              /\ part = <<>> => Asked(part) <= ReaderBufSize
  <1> DEFINE m == sent[Len(got) + 1]
             R == Reads(part)
  <1>1. Len(part) \in Nat /\ (part = <<>> => Len(part) = 0)
    BY Typed
  <1>2. ASSUME part = <<>>
        PROVE  /\ R \subseteq Nat
               /\ \E e \in R : e > 0 /\ e <= ReaderBufSize
    <2>1. CASE got = <<>>
      <3>1. R = {PrefixSize, PrefixSize + WordSize}
        BY <2>1 DEF Reads, HandshakeEnds
      <3> QED  BY <3>1, Numbers
    <2>2. CASE got # <<>>
      <3>1. R = Framed({})
        BY <1>1, <1>2, <2>2, Numbers DEF Reads
      <3>2. R = {WordSize, WordSize + 1}
        BY <3>1 DEF Framed
      <3> QED  BY <3>2, Numbers
    <2> QED  BY <2>1, <2>2
  <1>3. ASSUME Len(got) < Len(sent)
        PROVE  /\ m \in Messages /\ Size(m) \in Nat
               /\ R \subseteq Nat /\ \A e \in R : e <= Size(m)
    <2>1. m \in Messages /\ R \subseteq Writes(m)
      BY <1>3, Current, ReadsInMessage
    <2> HIDE DEF m, R
    <2> QED  BY <2>1, Sizes
  <1>4. R \subseteq Nat
    BY <1>2, <1>3, PartInMessage
  <1>5. ASSUME Complete(part)
        PROVE  Len(got) < Len(sent) /\ Len(part) = Size(m)
    <2>1. \A e \in R : e <= Len(part)
      BY <1>5 DEF Complete
    <2>2. part # <<>>
      <3>1. CASE part = <<>>
        <4>1. Len(part) = 0 /\ R \subseteq Nat /\ \E e \in R : e > 0
          BY <1>1, <1>2, <3>1
        <4> HIDE DEF R
        <4> QED  BY <2>1, <4>1
      <3> QED  BY <3>1
    <2>3. Len(got) < Len(sent)
      BY <2>2, PartInMessage
    <2>4. R = Writes(m)
      <3>1. CASE R # Writes(m)
        <4>1. Len(part) <= WordSize /\ WordSize + 1 \in R
          BY <2>3, <3>1, ReadsInMessage DEF Framed
        <4>2. WordSize + 1 <= Len(part)
          BY <2>1, <4>1
        <4> QED  BY <4>1, <4>2, <1>1, Numbers
      <3> QED  BY <3>1
    <2>5. Size(m) \in Writes(m) /\ Size(m) \in Nat
      BY <2>3, <1>3, Sizes
    <2>6. Size(m) <= Len(part)
      BY <2>1, <2>4, <2>5
    <2>7. Len(part) + missing <= Size(m) /\ missing \in Nat
      BY <2>3, Typed DEF IInv, Reading
    <2> HIDE DEF m
    <2> QED  BY <2>3, <2>5, <2>6, <2>7, <1>1
  <1>6. ASSUME ~Complete(part)
        PROVE  /\ Asked(part) \in Nat \ {0}
               /\ Len(got) < Len(sent) => Len(part) + Asked(part) <= Size(m)
               /\ part = <<>> => Asked(part) <= ReaderBufSize
    <2> DEFINE k == NextEnd(R, Len(part))
    <2>1. \E e \in R : e > Len(part)
      BY <1>1, <1>4, <1>6 DEF Complete
    <2>2. k \in R /\ k > Len(part) /\ \A f \in R : f > Len(part) => k <= f
      <3> HIDE DEF R
      <3> QED  BY <1>1, <1>4, <2>1, NextEndExists
    <2>3. Asked(part) = k - Len(part)
      BY DEF Asked
    <2>4. k \in Nat
      BY <1>4, <2>2
    <2> HIDE DEF k
    <2>5. Asked(part) \in Nat \ {0} /\ Len(part) + Asked(part) = k
      BY <1>1, <2>2, <2>3, <2>4
    <2>6. Len(got) < Len(sent) => k <= Size(m)
      BY <1>3, <2>2
    <2>7. ASSUME part = <<>> PROVE k <= ReaderBufSize
      <3>1. PICK e \in R : e > 0 /\ e <= ReaderBufSize
        BY <1>2, <2>7
      <3>2. Len(part) = 0 /\ e \in Nat
        BY <1>1, <1>4, <2>7
      <3>3. k <= e
        BY <2>2, <3>1, <3>2
      <3> QED  BY <2>4, <3>1, <3>2, <3>3, Numbers
    <2>8. part = <<>> => Asked(part) <= ReaderBufSize
      BY <1>1, <2>3, <2>4, <2>7
    <2> HIDE DEF m
    <2> QED  BY <2>5, <2>6, <2>8
  <1> QED
    BY <1>5, <1>6

-----------------------------------------------------------------------------
(***************************************************************************)
(* Send preserves the invariant.                                           *)
(***************************************************************************)

\* Where a batch may be continued, and by what.
LEMMA MaySend ==
  ASSUME IInv, NEW m \in Messages, MayWrite(m)
  PROVE  \/ nBatches = 0 /\ Len(batch) = 0 /\ m = Handshake
         \/ nBatches = 0 /\ Len(batch) = 1 /\ batch[1] = Handshake /\ m = Bitfield
         \/ nBatches > 0 /\ Len(batch) = 0 /\ m.kind # "Handshake"
         \/ nBatches > 0 /\ Len(batch) = 1 /\ batch[1] = Index /\ m = Zero
  <1>1. PICK b \in Batches :
          /\ Len(batch) < Len(b) /\ Append(batch, m) = SubSeq(b, 1, Len(batch) + 1)
          /\ nBatches = 0 <=> b = Setup
    BY DEF MayWrite
  <1>2. /\ batch \in Seq(Messages) /\ Len(batch) \in Nat /\ nBatches \in Nat
    BY Typed
  <1>3. b \in Seq(Messages)
    <2>1. /\ Handshake \in Messages /\ Bitfield \in Messages /\ Zero \in Messages
          /\ Index \in Messages /\ \A n \in PieceSizes : Piece(n) \in Messages
      BY DEF Messages
    <2>2. \A x, y \in Messages : <<x>> \in Seq(Messages) /\ <<x, y>> \in Seq(Messages)
      OBVIOUS
    <2>3. CASE b \in {Setup, <<Zero>>, <<Index>>, <<Index, Zero>>}
      <3>1. /\ <<Handshake, Bitfield>> \in Seq(Messages) /\ <<Zero>> \in Seq(Messages)
            /\ <<Index>> \in Seq(Messages) /\ <<Index, Zero>> \in Seq(Messages)
        BY <2>1, <2>2
      <3> QED  BY <2>3, <3>1, Zenon DEF Setup
    <2>4. CASE b \in {<<Piece(n)>> : n \in PieceSizes}
      <3>1. PICK n \in PieceSizes : b = <<Piece(n)>>
        BY <2>4
      <3> QED  BY <2>1, <3>1
    <2> QED  BY <2>3, <2>4 DEF Batches
  <1>4. ASSUME NEW k \in 1..(Len(batch) + 1) PROVE b[k] = Append(batch, m)[k]
    BY <1>1, <1>2, <1>3
  <1>5. Append(batch, m)[Len(batch) + 1] = m
    BY <1>2
  <1>6. ASSUME NEW k \in 1..Len(batch) PROVE Append(batch, m)[k] = batch[k]
    BY <1>2
  <1>7. b[Len(batch) + 1] = m
    BY <1>2, <1>4, <1>5
  <1>8. Len(batch) = 1 => b[1] = batch[1]
    BY <1>4, <1>6
  <1>9. CASE b = Setup
    <2>1. Len(b) = 2 /\ b[1] = Handshake /\ b[2] = Bitfield /\ nBatches = 0
      BY <1>1, <1>9 DEF Setup
    <2>2. Len(batch) = 0 \/ Len(batch) = 1
      <3>1. Len(batch) < 2
        BY <1>1, <2>1
      <3>2. \A k \in Nat : k < 2 => k = 0 \/ k = 1
        OBVIOUS
      <3> QED  BY <1>2, <3>1, <3>2
    <2>3. CASE Len(batch) = 0
      <3>1. b[1] = m
        BY <1>7, <2>3
      <3> QED  BY <2>1, <2>3, <3>1
    <2>4. CASE Len(batch) = 1
      <3>1. b[2] = m /\ batch[1] = b[1]
        BY <1>7, <1>8, <2>4
      <3> QED  BY <2>1, <2>4, <3>1
    <2> QED  BY <2>2, <2>3, <2>4
  <1>10. CASE b = <<Index, Zero>>
    <2>1. Len(b) = 2 /\ b[1] = Index /\ b[2] = Zero /\ b # Setup
      BY <1>10 DEF Setup, Index, Handshake
    <2>2. Len(batch) = 0 \/ Len(batch) = 1
      <3>1. Len(batch) < 2
        BY <1>1, <2>1
      <3>2. \A k \in Nat : k < 2 => k = 0 \/ k = 1
        OBVIOUS
      <3> QED  BY <1>2, <3>1, <3>2
    <2>3. nBatches > 0
      BY <1>1, <1>2, <2>1
    <2>4. CASE Len(batch) = 0
      <3>1. m = Index
        BY <1>7, <2>1, <2>4
      <3>2. m.kind # "Handshake"
        BY <3>1 DEF Index
      <3> QED  BY <2>3, <2>4, <3>2
    <2>5. CASE Len(batch) = 1
      BY <1>7, <1>8, <2>1, <2>3, <2>5
    <2> QED  BY <2>2, <2>4, <2>5
  <1>11. CASE b \in {<<Zero>>, <<Index>>} \cup {<<Piece(n)>> : n \in PieceSizes}
    <2>1. Len(b) = 1 /\ b[1].kind # "Handshake" /\ b # Setup
      BY <1>11 DEF Setup, Zero, Index, Piece
    <2>2. Len(batch) = 0
      BY <1>1, <1>2, <2>1
    <2>3. nBatches > 0
      BY <1>1, <1>2, <2>1
    <2> QED  BY <1>7, <2>1, <2>2, <2>3
  <1> QED
    BY <1>9, <1>10, <1>11 DEF Batches

LEMMA SendAppends ==
  ASSUME IInv, NEW m \in Messages, Send(m)
  PROVE  /\ sent' \in Seq(Messages) /\ Len(sent') = Len(sent) + 1
         /\ sent'[Len(sent) + 1] = m
         /\ \A i \in 1..Len(sent) : sent'[i] = sent[i]
         /\ ends' \in Seq(Nat) /\ Len(ends') = Len(sent) + 1
         /\ \A i \in 0..Len(sent) : EndOf(i)' = EndOf(i)
         /\ EndOf(Len(sent))' = EndOf(Len(sent)) + Size(m)
         /\ Size(m) \in Nat \ {0}
         /\ written = EndOf(Len(sent))
         /\ batch' \in Seq(Messages) /\ Len(batch') = Len(batch) + 1
         /\ batch'[Len(batch) + 1] = m
  <1>1. Size(m) \in Nat \ {0}
    BY Sizes
  <1>2. /\ sent \in Seq(Messages) /\ ends \in Seq(Nat) /\ Len(ends) = Len(sent)
        /\ Len(sent) \in Nat /\ EndOf(Len(sent)) \in Nat /\ batch \in Seq(Messages)
    BY Typed
  <1>3. /\ sent' \in Seq(Messages) /\ Len(sent') = Len(sent) + 1
        /\ sent'[Len(sent) + 1] = m
        /\ \A i \in 1..Len(sent) : sent'[i] = sent[i]
    BY <1>2 DEF Send
  <1>4. /\ ends' \in Seq(Nat) /\ Len(ends') = Len(sent) + 1
        /\ ends'[Len(sent) + 1] = EndOf(Len(sent)) + Size(m)
        /\ \A i \in 1..Len(sent) : ends'[i] = ends[i]
    <2> DEFINE x == EndOf(Len(sent)) + Size(m)
    <2>1. x \in Nat /\ ends' = Append(ends, x)
      BY <1>1, <1>2 DEF Send
    <2> HIDE DEF x
    <2>2. /\ ends' \in Seq(Nat) /\ Len(ends') = Len(sent) + 1
          /\ ends'[Len(sent) + 1] = x
          /\ \A i \in 1..Len(sent) : ends'[i] = ends[i]
      BY <1>2, <2>1
    <2> QED  BY <2>2 DEF x
  <1>5. ASSUME NEW i \in 0..Len(sent) PROVE EndOf(i)' = EndOf(i)
    BY <1>2, <1>4 DEF EndOf
  <1>6. EndOf(Len(sent))' = EndOf(Len(sent)) + Size(m)
    <2>1. Len(sent') # 0 /\ EndOf(Len(sent))' = ends'[Len(sent')]
      BY <1>2, <1>3 DEF EndOf
    <2> QED  BY <1>3, <1>4, <2>1
  <1>7. written = EndOf(Len(sent))
    BY <1>2, Typed, WrittenIsSent DEF Send, Writing
  <1>8. /\ batch' \in Seq(Messages) /\ Len(batch') = Len(batch) + 1
        /\ batch'[Len(batch) + 1] = m
    BY <1>2 DEF Send
  <1> QED
    BY <1>1, <1>3, <1>4, <1>5, <1>6, <1>7, <1>8

LEMMA SendKeepsWriter ==
  ASSUME IInv, NEW m \in Messages, Send(m)
  PROVE  Ordered' /\ HandshakeFirst' /\ InBatch' /\ Written'
  <1>1. /\ Len(sent) \in Nat /\ Len(batch) \in Nat /\ nBatches \in Nat
        /\ batch \in Seq(Messages) /\ sent \in Seq(Messages)
        /\ EndOf(Len(sent)) \in Nat /\ \A i \in 0..Len(sent) : EndOf(i) \in Nat
    BY Typed
  <1>2. /\ Len(sent') = Len(sent) + 1
        /\ sent'[Len(sent) + 1] = m
        /\ \A i \in 1..Len(sent) : sent'[i] = sent[i]
        /\ \A i \in 0..Len(sent) : EndOf(i)' = EndOf(i)
        /\ EndOf(Len(sent))' = EndOf(Len(sent)) + Size(m)
        /\ Size(m) \in Nat \ {0}
        /\ written = EndOf(Len(sent))
        /\ Len(batch') = Len(batch) + 1 /\ batch'[Len(batch) + 1] = m
    BY SendAppends
  <1>3. /\ MayWrite(m) /\ nBatches < MaxBatches
        /\ nBatches' = nBatches /\ written' = written /\ wbuf' = wbuf
        /\ sent' = Append(sent, m) /\ batch' = Append(batch, m)
    BY DEF Send
  <1>4. \/ nBatches = 0 /\ Len(batch) = 0 /\ m = Handshake
        \/ nBatches = 0 /\ Len(batch) = 1 /\ batch[1] = Handshake /\ m = Bitfield
        \/ nBatches > 0 /\ Len(batch) = 0 /\ m.kind # "Handshake"
        \/ nBatches > 0 /\ Len(batch) = 1 /\ batch[1] = Index /\ m = Zero
    BY <1>3, MaySend
  <1>5. Ordered'
    <2>1. ASSUME NEW i \in 1..(Len(sent) + 1)
          PROVE  EndOf(i)' = EndOf(i - 1)' + Size(sent'[i])
      <3>1. CASE i \in 1..Len(sent)
        <4>1. i \in 0..Len(sent) /\ i - 1 \in 0..Len(sent)
          BY <1>1, <3>1
        <4>2. EndOf(i) = EndOf(i - 1) + Size(sent[i])
          BY <3>1 DEF IInv, Ordered
        <4> QED  BY <1>2, <3>1, <4>1, <4>2
      <3>2. CASE i = Len(sent) + 1
        <4>1. i - 1 = Len(sent) /\ Len(sent) \in 0..Len(sent) /\ i = Len(sent')
          BY <1>1, <1>2, <3>2
        <4>2. EndOf(i - 1)' = EndOf(Len(sent))
          BY <1>2, <4>1
        <4>3. EndOf(i)' = EndOf(Len(sent))'
          BY <4>1
        <4> QED  BY <1>2, <3>2, <4>2, <4>3
      <3> QED  BY <1>1, <3>1, <3>2
    <2>2. ASSUME NEW i \in 0..(Len(sent) + 1), NEW j \in 0..(Len(sent) + 1), i < j
          PROVE  EndOf(i)' < EndOf(j)'
      <3>1. CASE j \in 0..Len(sent)
        <4>1. i \in 0..Len(sent)
          BY <1>1, <2>2, <3>1
        <4>2. EndOf(i) < EndOf(j)
          BY <2>2, <3>1, <4>1 DEF IInv, Ordered
        <4> QED  BY <1>2, <3>1, <4>1, <4>2
      <3>2. CASE j = Len(sent) + 1
        <4>1. i \in 0..Len(sent) /\ Len(sent) \in 0..Len(sent) /\ j = Len(sent')
          BY <1>1, <1>2, <2>2, <3>2
        <4>2. EndOf(i) <= EndOf(Len(sent))
          <5>1. i = Len(sent) \/ i < Len(sent)
            BY <4>1
          <5>2. i < Len(sent) => EndOf(i) < EndOf(Len(sent))
            BY <4>1 DEF IInv, Ordered
          <5> QED  BY <1>1, <4>1, <5>1, <5>2
        <4>3. EndOf(j)' = EndOf(Len(sent)) + Size(m) /\ EndOf(i)' = EndOf(i)
          BY <1>2, <4>1
        <4>4. EndOf(i) \in Nat
          BY <1>1, <4>1
        <4> QED  BY <1>1, <1>2, <4>2, <4>3, <4>4
      <3> QED  BY <1>1, <3>1, <3>2
    <2> QED
      BY <1>2, <2>1, <2>2 DEF Ordered
  <1>6. HandshakeFirst'
    <2>1. nBatches = 0 => batch = sent
      BY DEF IInv, HandshakeFirst
    <2>2. nBatches > 0 => Len(sent) > 0
      BY <1>1 DEF IInv, HandshakeFirst
    <2>3. m.kind = "Handshake" <=> Len(sent) = 0
      BY <1>1, <1>4, <2>1, <2>2 DEF Handshake, Bitfield, Zero
    <2>4. ASSUME NEW i \in 1..(Len(sent) + 1)
          PROVE  sent'[i].kind = "Handshake" <=> i = 1
      <3>1. CASE i \in 1..Len(sent)
        BY <1>2, <3>1 DEF IInv, HandshakeFirst
      <3>2. CASE i = Len(sent) + 1
        BY <1>1, <1>2, <2>3, <3>2
      <3> QED  BY <1>1, <3>1, <3>2
    <2>5. nBatches' = 0 => batch' = sent'
      BY <1>3, <2>1
    <2>6. sent' # <<>>
      BY <1>1, <1>3
    <2> QED
      BY <1>2, <2>4, <2>5, <2>6 DEF HandshakeFirst
  <1>7. InBatch'
    <2>1. nBatches' < MaxBatches
      BY <1>3
    <2>2. CASE Len(batch) = 0
      <3>1. Len(batch') = 1 /\ Len(sent') >= 1 /\ batch'[1] = sent'[Len(sent')]
        BY <1>1, <1>2, <2>2
      <3> QED  BY <2>1, <3>1 DEF InBatch
    <2>3. CASE Len(batch) = 1
      <3>1. batch[1] \in {Handshake, Index}
        BY <1>1, <1>4, <2>3
      <3>2. Len(sent) >= 1 /\ batch[1] = sent[Len(sent)]
        <4>1. batch # <<>> /\ Len(batch) # 2
          <5>1. Len(<<>>) = 0
            OBVIOUS
          <5> QED  BY <2>3, <5>1
        <4> QED  BY <4>1 DEF IInv, InBatch
      <3>3. Len(sent) \in 1..Len(sent) /\ Len(sent') - 1 = Len(sent)
        BY <1>1, <1>2, <3>2
      <3>4. Len(batch') = 2 /\ Len(sent') >= 2 /\ sent'[Len(sent') - 1] \in {Handshake, Index}
        BY <1>1, <1>2, <2>3, <3>1, <3>2, <3>3
      <3> QED  BY <2>1, <3>4 DEF InBatch
    <2> QED  BY <1>4, <2>2, <2>3
  <1>8. Written'
    <2>1. Len(sent') - 1 = Len(sent) /\ sent' # <<>> /\ batch' # <<>>
      BY <1>1, <1>2, <1>3
    <2>2. Len(sent) \in 0..Len(sent)
      BY <1>1
    <2>3. EndOf(Len(sent) - 1)' = EndOf(Len(sent))
      <3>1. EndOf(Len(sent) - 1)' = IF Len(sent') - 1 = 0 THEN 0 ELSE ends'[Len(sent') - 1]
        BY DEF EndOf
      <3>2. IF Len(sent) = 0 THEN EndOf(Len(sent)) = 0 ELSE EndOf(Len(sent)) = ends'[Len(sent)]
        BY <1>1, <1>2, <2>2 DEF EndOf, Send
      <3> QED  BY <2>1, <3>1, <3>2
    <2>4. written' = EndOf(Len(sent) - 1)'
      BY <1>2, <1>3, <2>3
    <2>5. Len(wbuf') <= written' - EndOf(Len(sent) - Len(batch))'
      <3>1. Len(batch) <= Len(sent)
        BY <1>1 DEF IInv, InBatch
      <3>2. Len(sent') - Len(batch') = Len(sent) - Len(batch)
        BY <1>1, <1>2
      <3>3. Len(sent) - Len(batch) \in 0..Len(sent)
        BY <1>1, <3>1
      <3>4. EndOf(Len(sent) - Len(batch))' = EndOf(Len(sent) - Len(batch))
        <4> DEFINE k == Len(sent) - Len(batch)
        <4>1. EndOf(Len(sent) - Len(batch))' = IF k = 0 THEN 0 ELSE ends'[k]
          BY <3>2 DEF EndOf
        <4>2. k \in 0..Len(sent)
          BY <3>3
        <4>3. EndOf(k) = IF k = 0 THEN 0 ELSE ends[k]
          BY DEF EndOf
        <4>4. k # 0 => ends'[k] = ends[k]
          <5> HIDE DEF k
          <5> QED  BY <1>1, <4>2, Typed DEF Send
        <4> QED  BY <4>1, <4>3, <4>4
      <3>5. Len(wbuf) <= written - EndOf(Len(sent) - Len(batch))
        BY DEF IInv, Written
      <3> QED  BY <1>3, <3>4, <3>5
    <2> QED
      BY <2>1, <2>4, <2>5 DEF Written
  <1> QED
    BY <1>5, <1>6, <1>7, <1>8

LEMMA SendKeepsReader ==
  ASSUME IInv, NEW m \in Messages, Send(m)
  PROVE  Types' /\ Stream' /\ Reading' /\ Delivered'
  <1>1. /\ sent' \in Seq(Messages) /\ Len(sent') = Len(sent) + 1
        /\ \A i \in 1..Len(sent) : sent'[i] = sent[i]
        /\ sent'[Len(sent) + 1] = m
        /\ ends' \in Seq(Nat) /\ Len(ends') = Len(sent')
        /\ \A i \in 0..Len(sent) : EndOf(i)' = EndOf(i)
        /\ Size(m) \in Nat \ {0}
        /\ written = EndOf(Len(sent))
        /\ batch' \in Seq(Messages)
    BY SendAppends
  <1>2. /\ nBatches' = nBatches /\ written' = written /\ wbuf' = wbuf /\ net' = net
        /\ rbuf' = rbuf /\ head' = head /\ part' = part /\ missing' = missing /\ got' = got
    BY DEF Send, rvars
  <1>3. Len(got) \in 0..Len(sent) /\ Len(sent) \in Nat /\ Len(part) \in Nat /\ missing \in Nat
    BY Typed DEF IInv, Stream
  <1>4. Types'
    BY <1>1, <1>2 DEF IInv, Types, TypeOK
  <1>5. First' = First
    <2>1. First' = EndOf(Len(got))'
      BY DEF First
    <2>2. EndOf(Len(got))' = EndOf(Len(got))
      <3>1. Len(got) # 0 => ends'[Len(got)] = ends[Len(got)]
        BY <1>3, Typed DEF Send
      <3> QED  BY <1>2, <3>1 DEF EndOf
    <2> QED  BY <2>1, <2>2 DEF First
  <1>6. Stream'
    <2>1. AfterPart' = AfterPart
      BY <1>2, <1>5 DEF AfterPart
    <2>2. AfterBuffer' = AfterBuffer
      BY <1>2, <2>1 DEF AfterBuffer
    <2>3. AfterNet' = AfterNet
      BY <1>2, <2>2 DEF AfterNet
    <2>4. Buffered' = Buffered
      BY <1>2 DEF Buffered
    <2>5. Len(got') <= Len(sent')
      BY <1>1, <1>2, <1>3
    <2> QED
      BY <1>2, <1>5, <2>1, <2>2, <2>3, <2>4, <2>5 DEF IInv, Stream
  <1>7. Reading'
    <2>1. Len(got') < Len(sent')
      BY <1>1, <1>2, <1>3
    <2>2. missing' > 0 => head' = Len(rbuf')
      BY <1>2 DEF IInv, Reading
    <2>3. Len(part') + missing' <= Size(sent'[Len(got') + 1])
      <3>1. CASE Len(got) < Len(sent)
        <4>1. Len(got) + 1 \in 1..Len(sent)
          BY <1>3, <3>1
        <4>2. Len(part) + missing <= Size(sent[Len(got) + 1])
          BY <3>1 DEF IInv, Reading
        <4> QED  BY <1>1, <1>2, <4>1, <4>2
      <3>2. CASE Len(got) = Len(sent)
        <4>1. ~ (missing > 0)
          BY <1>3, <3>2 DEF IInv, Reading
        <4>2. part = <<>>
          BY <1>3, <3>2, PartInMessage
        <4>3. Len(part) + missing = 0
          BY <1>3, <4>1, <4>2
        <4> QED  BY <1>1, <1>2, <3>2, <4>3
      <3> QED  BY <1>3, <3>1, <3>2
    <2> QED
      BY <2>1, <2>2, <2>3 DEF Reading
  <1>8. Delivered'
    <2>1. ASSUME NEW i \in 1..Len(got) PROVE got[i] = sent'[i]
      <3>1. i \in 1..Len(sent)
        BY <1>3
      <3> QED  BY <1>1, <3>1 DEF IInv, Delivered
    <2> QED  BY <1>2, <2>1 DEF Delivered
  <1> QED
    BY <1>4, <1>6, <1>7, <1>8

-----------------------------------------------------------------------------
(***************************************************************************)
(* The rest of the writer.                                                 *)
(***************************************************************************)

\* The messages do not change.
LEMMA SameMessages ==
  ASSUME IInv, UNCHANGED <<sent, ends>>
  PROVE  /\ Ordered'
         /\ \A i \in Int : EndOf(i)' = EndOf(i)
         /\ EndOf(Len(sent))' = EndOf(Len(sent))
         /\ EndOf(Len(sent) - 1)' = EndOf(Len(sent) - 1)
         /\ EndOf(Len(sent) - Len(batch))' = EndOf(Len(sent) - Len(batch'))
  BY DEF IInv, Ordered, EndOf

LEMMA SameReader ==
  ASSUME IInv, UNCHANGED <<sent, ends, rvars>>
  PROVE  /\ First' = First /\ AfterPart' = AfterPart /\ AfterBuffer' = AfterBuffer
         /\ Buffered' = Buffered
         /\ Reading' /\ Delivered'
  <1>1. First' = First
    BY DEF First, EndOf, rvars
  <1>2. AfterPart' = AfterPart
    BY <1>1 DEF AfterPart, rvars
  <1>3. AfterBuffer' = AfterBuffer /\ Buffered' = Buffered
    BY <1>2 DEF AfterBuffer, Buffered, rvars
  <1>4. Reading' /\ Delivered'
    BY DEF IInv, Reading, Delivered, rvars
  <1> QED
    BY <1>1, <1>2, <1>3, <1>4

\* There is always room for the type byte: before it the buffer holds at most the
\* message that began the batch, which is short, and the length word.
LEMMA RoomToPush ==
  ASSUME IInv, Writing, IsPushed
  PROVE  Len(wbuf) < WriterBufSize
  <1> DEFINE last == Len(sent) - 1
  <1>1. sent # <<>> /\ batch # <<>>
    BY NextWrite
  <1>2. /\ Len(sent) \in Nat \ {0} /\ EndOf(last) \in Nat /\ Offset \in Nat
        /\ written = EndOf(last) + Offset
    <2>1. /\ Len(sent) \in Nat \ {0} /\ EndOf(last) \in Nat /\ Offset \in Nat
      BY <1>1, WriterPosition
    <2>2. Offset = written - EndOf(last) /\ written \in Nat
      BY Typed DEF Offset
    <2> HIDE DEF last
    <2> QED  BY <2>1, <2>2
  <1>3. Offset = WordSize
    BY DEF IsPushed
  <1>4. Len(wbuf) <= written - EndOf(Len(sent) - Len(batch)) /\ Len(wbuf) \in Nat
    BY Typed DEF IInv, Written
  <1>5. CASE Len(batch) = 1
    <2>1. Len(wbuf) <= written - EndOf(last)
      BY <1>4, <1>5
    <2> HIDE DEF last
    <2> QED  BY <1>2, <1>3, <1>4, <2>1, Numbers
  <1>6. CASE Len(batch) = 2 /\ Len(sent) >= 2 /\ sent[Len(sent) - 1] \in {Handshake, Index}
    <2>1. last \in 1..Len(sent) /\ last - 1 \in 0..Len(sent) /\ last - 1 = Len(sent) - Len(batch)
      BY <1>2, <1>6
    <2>2. EndOf(last) = EndOf(last - 1) + Size(sent[last])
      <3> HIDE DEF last
      <3> QED  BY <2>1 DEF IInv, Ordered
    <2>3. EndOf(last - 1) \in Nat
      <3> HIDE DEF last
      <3> QED  BY <2>1, Typed
    <2>4. \/ Size(sent[last]) = PrefixSize + WordSize
          \/ Size(sent[last]) = WordSize + 1 + WordSize
      <3>1. Handshake \in Messages /\ Index \in Messages
        BY DEF Messages
      <3>2. Size(Handshake) = PrefixSize + WordSize /\ Size(Index) = WordSize + 1 + WordSize
        BY <3>1, Sizes
      <3> QED  BY <1>6, <3>2
    <2>5. Len(wbuf) <= written - EndOf(last - 1)
      BY <1>4, <2>1
    <2> DEFINE z == Size(sent[last])
               a == EndOf(last - 1)
               e == EndOf(last)
               w == Len(wbuf)
    <2>6. /\ a \in Nat /\ e = a + z /\ w <= written - a /\ written = e + WordSize
          /\ z = PrefixSize + WordSize \/ z = WordSize + 1 + WordSize
          /\ w \in Nat
      BY <1>2, <1>3, <1>4, <2>2, <2>3, <2>4, <2>5
    <2> HIDE DEF last, z, a, e, w
    <2>7. w <= z + WordSize
      BY <2>6, Numbers
    <2>8. w < WriterBufSize
      BY <2>6, <2>7, Numbers
    <2> QED  BY <2>8 DEF w
  <1> QED
    BY <1>1, <1>5, <1>6 DEF IInv, InBatch

LEMMA BatchIsSent ==
  ASSUME IInv
  PROVE  Len(batch) \in 0..Len(sent)
  <1>1. Len(sent) \in Nat
    BY Typed
  <1>2. CASE batch = <<>>
    <2>1. Len(batch) = 0
      BY <1>2
    <2> QED  BY <1>1, <2>1
  <1>3. CASE Len(batch) = 1 /\ Len(sent) >= 1
    BY <1>1, <1>3
  <1>4. CASE Len(batch) = 2 /\ Len(sent) >= 2
    BY <1>1, <1>4
  <1> QED
    BY <1>2, <1>3, <1>4 DEF IInv, InBatch

\* A write goes on in the message and in the batch.
LEMMA WriteKeepsWriter ==
  ASSUME IInv, Writing, UNCHANGED <<sent, ends, nBatches, batch>>,
         written' = written + Len(ToWrite),
         Len(wbuf') \in Nat, Len(wbuf') <= Len(wbuf) + Len(ToWrite)
  PROVE  Ordered' /\ HandshakeFirst' /\ InBatch' /\ Written'
  <1> DEFINE m == sent[Len(sent)]
             k == NextEnd(Writes(m), Offset)
             e == EndOf(Len(sent) - 1)
  <1>1. /\ sent # <<>> /\ batch # <<>> /\ k \in Writes(m) /\ k \in Nat
        /\ written + Len(ToWrite) = e + k /\ Len(ToWrite) = k - Offset /\ k > Offset
    BY NextWrite
  <1>2. /\ Ordered' /\ EndOf(Len(sent) - 1)' = e
        /\ EndOf(Len(sent) - Len(batch))' = EndOf(Len(sent) - Len(batch))
    BY SameMessages
  <1>3. HandshakeFirst' /\ InBatch'
    BY DEF IInv, HandshakeFirst, InBatch
  <1>4. written' - EndOf(Len(sent) - 1)' \in Writes(m)
    <2>1. e \in Nat
      BY <1>1, WriterPosition
    <2>2. written' - e = k
      <3> HIDE DEF k, e
      <3> QED  BY <1>1, <2>1
    <2> QED  BY <1>1, <1>2, <2>2
  <1>5. Len(wbuf') <= written' - EndOf(Len(sent) - Len(batch))'
    <2> DEFINE b == EndOf(Len(sent) - Len(batch))
               n == Len(ToWrite)
    <2>1. Len(batch) \in 0..Len(sent)
      BY BatchIsSent
    <2>2. Len(sent) - Len(batch) \in 0..Len(sent)
      BY <2>1, Typed
    <2>3. b \in Nat
      BY <2>2, Typed
    <2>4. n \in Nat
      <3>1. Offset \in Nat
        BY <1>1, WriterPosition
      <3> HIDE DEF k
      <3> QED  BY <1>1, <3>1
    <2>5. Len(wbuf) <= written - b /\ Len(wbuf) \in Nat /\ written \in Nat
      BY Typed DEF IInv, Written
    <2>6. written' = written + n /\ Len(wbuf') <= Len(wbuf) + n
      OBVIOUS
    <2> DEFINE w == Len(wbuf')
    <2>7. w \in Nat /\ w <= Len(wbuf) + n
      OBVIOUS
    <2>8. w <= written' - b
      <3> HIDE DEF b, n, w
      <3> QED  BY <2>3, <2>4, <2>5, <2>6, <2>7
    <2> QED  BY <1>2, <2>8
  <1>6. batch' # <<>> /\ sent' # <<>>
    BY <1>1
  <1>7. Written'
    BY <1>4, <1>5, <1>6 DEF Written
  <1> QED
    BY <1>2, <1>3, <1>7

LEMMA WriteBufferedKeeps ==
  ASSUME IInv, WriteBuffered
  PROVE  IInv'
  <1> DEFINE n == Len(ToWrite)
  <1>1. Writing /\ (IsPushed \/ Len(wbuf) + n <= WriterBufSize)
    BY DEF WriteBuffered
  <1>2. /\ wbuf' = wbuf \o ToWrite /\ written' = written + n
        /\ UNCHANGED <<sent, ends, nBatches, batch, net, rvars>>
    BY DEF WriteBuffered
  <1>3. /\ ToWrite = Bytes(written, written + n) /\ n \in Nat /\ written \in Nat
        /\ IsPushed => n = 1
    <2> DEFINE k == NextEnd(Writes(sent[Len(sent)]), Offset)
               e == EndOf(Len(sent) - 1)
    <2>1. /\ sent # <<>> /\ k \in Nat /\ k > Offset
          /\ ToWrite = Bytes(written, e + k) /\ n = k - Offset /\ written + n = e + k
          /\ IsPushed => k = WordSize + 1
      BY <1>1, NextWrite
    <2>2. Offset \in Nat /\ written \in Nat
      BY <2>1, WriterPosition, Typed
    <2>3. IsPushed => Offset = WordSize
      BY DEF IsPushed
    <2> HIDE DEF k, e, n
    <2> QED  BY <2>1, <2>2, <2>3, Numbers
  <1>4. AfterNet \in Nat /\ AfterNet <= written /\ wbuf = Bytes(AfterNet, written)
    BY ReaderPosition DEF IInv, Stream
  <1> HIDE DEF n
  <1>5. wbuf' = Bytes(AfterNet, written')
    <2>1. written + n \in Nat /\ written <= written + n
      BY <1>3
    <2> QED  BY <1>2, <1>3, <1>4, <2>1, BytesJoin
  <1>6. wbuf' \in Seq(Nat) /\ Len(wbuf') = written' - AfterNet /\ Len(wbuf') = Len(wbuf) + n
    <2>1. written' \in Nat /\ AfterNet <= written' /\ written' = written + n
      BY <1>2, <1>3, <1>4
    <2>2. wbuf' \in Seq(Nat) /\ Len(wbuf') = written' - AfterNet
      BY <1>4, <1>5, <2>1, BytesAreSeq
    <2>3. Len(wbuf) = written - AfterNet
      BY <1>3, <1>4, BytesLength
    <2> QED  BY <1>3, <1>4, <2>1, <2>2, <2>3
  <1>7. Len(wbuf') <= WriterBufSize
    <2>1. CASE IsPushed
      <3>1. Len(wbuf) < WriterBufSize /\ n = 1
        BY <1>1, <1>3, <2>1, RoomToPush
      <3> QED  BY <1>6, <3>1, Typed, Numbers
    <2>2. CASE Len(wbuf) + n <= WriterBufSize
      BY <1>6, <2>2
    <2> QED  BY <1>1, <2>1, <2>2 DEF n
  <1>8. Types'
    BY <1>2, <1>3, <1>6, <1>7, Typed DEF IInv, Types, TypeOK, rvars
  <1>9. Ordered' /\ HandshakeFirst' /\ InBatch' /\ Written'
    <2>1. Len(wbuf') \in Nat /\ Len(wbuf') <= Len(wbuf) + Len(ToWrite)
      BY <1>3, <1>6, Typed DEF n
    <2>2. written' = written + Len(ToWrite)
      BY <1>2 DEF n
    <2> QED  BY <1>1, <1>2, <2>1, <2>2, WriteKeepsWriter
  <1>10. /\ First' = First /\ AfterPart' = AfterPart /\ AfterBuffer' = AfterBuffer
         /\ Buffered' = Buffered /\ Reading' /\ Delivered'
    BY <1>2, SameReader
  <1>11. AfterNet' = AfterNet
    BY <1>2, <1>10 DEF AfterNet
  <1>12. Stream'
    <2>1. AfterNet + Len(wbuf') = written'
      BY <1>2, <1>3, <1>4, <1>6
    <2> QED
      BY <1>2, <1>5, <1>10, <1>11, <2>1 DEF IInv, Stream, rvars
  <1> QED
    BY <1>8, <1>9, <1>10, <1>12 DEF IInv

LEMMA WriteLongKeeps ==
  ASSUME IInv, WriteLong
  PROVE  IInv'
  <1> DEFINE n == Len(ToWrite)
  <1>1. Writing
    BY DEF WriteLong
  <1>2. /\ net' = net \o wbuf \o ToWrite /\ wbuf' = <<>> /\ written' = written + n
        /\ UNCHANGED <<sent, ends, nBatches, batch, rvars>>
    BY DEF WriteLong
  <1>3. ToWrite = Bytes(written, written + n) /\ n \in Nat /\ written \in Nat
    <2> DEFINE k == NextEnd(Writes(sent[Len(sent)]), Offset)
               e == EndOf(Len(sent) - 1)
    <2>1. /\ sent # <<>> /\ k \in Nat /\ k > Offset
          /\ ToWrite = Bytes(written, e + k) /\ n = k - Offset /\ written + n = e + k
      BY <1>1, NextWrite
    <2>2. Offset \in Nat /\ written \in Nat
      BY <2>1, WriterPosition, Typed
    <2> HIDE DEF k, e, n
    <2> QED  BY <2>1, <2>2
  <1>4. /\ AfterBuffer \in Nat /\ AfterNet \in Nat
        /\ AfterBuffer <= AfterNet /\ AfterNet <= written
        /\ net = Bytes(AfterBuffer, AfterNet) /\ wbuf = Bytes(AfterNet, written)
    BY ReaderPosition DEF IInv, Stream
  <1> HIDE DEF n
  <1>5. /\ written' \in Nat /\ written' = written + n
        /\ written <= written' /\ AfterBuffer <= written /\ AfterBuffer <= written'
    BY <1>2, <1>3, <1>4
  <1>6. net' = Bytes(AfterBuffer, written')
    <2>1. net \o wbuf = Bytes(AfterBuffer, written)
      BY <1>3, <1>4, BytesJoin
    <2>2. Bytes(AfterBuffer, written) \o Bytes(written, written') = Bytes(AfterBuffer, written')
      BY <1>3, <1>4, <1>5, BytesJoin
    <2> QED  BY <1>2, <1>3, <1>5, <2>1, <2>2
  <1>7. net' \in Seq(Nat) /\ Len(net') = written' - AfterBuffer
    BY <1>4, <1>5, <1>6, BytesAreSeq
  <1>8. wbuf' \in Seq(Nat) /\ Len(wbuf') = 0
    BY <1>2
  <1>9. Types'
    BY <1>2, <1>5, <1>7, <1>8, Typed, Numbers DEF IInv, Types, TypeOK, rvars
  <1>10. Ordered' /\ HandshakeFirst' /\ InBatch' /\ Written'
    <2>1. Len(wbuf') \in Nat /\ Len(wbuf') <= Len(wbuf) + Len(ToWrite)
      BY <1>3, <1>8, Typed DEF n
    <2>2. written' = written + Len(ToWrite)
      BY <1>2 DEF n
    <2> QED  BY <1>1, <1>2, <2>1, <2>2, WriteKeepsWriter
  <1>11. /\ First' = First /\ AfterPart' = AfterPart /\ AfterBuffer' = AfterBuffer
         /\ Buffered' = Buffered /\ Reading' /\ Delivered'
    BY <1>2, SameReader
  <1>12. AfterNet' = written'
    BY <1>4, <1>5, <1>7, <1>11 DEF AfterNet
  <1>13. Stream'
    <2>1. wbuf' = Bytes(written', written')
      BY <1>2, <1>5, EmptyBytes
    <2>2. AfterNet' + Len(wbuf') = written'
      BY <1>5, <1>8, <1>12
    <2>3. part' = part /\ got' = got /\ sent' = sent
      BY <1>2 DEF rvars
    <2> QED
      BY <1>6, <1>11, <1>12, <2>1, <2>2, <2>3 DEF IInv, Stream
  <1> QED
    BY <1>9, <1>10, <1>11, <1>13 DEF IInv

LEMMA FlushKeeps ==
  ASSUME IInv, Flush
  PROVE  IInv'
  <1>1. /\ ~Writing /\ batch \in Batches
        /\ net' = net \o wbuf /\ wbuf' = <<>> /\ batch' = <<>> /\ nBatches' = nBatches + 1
        /\ UNCHANGED <<sent, ends, written, rvars>>
    BY DEF Flush
  <1>2. batch # <<>>
    <2>1. \A x, y : <<x>> # <<>> /\ <<x, y>> # <<>>
      OBVIOUS
    <2> QED  BY <1>1, <2>1, Zenon DEF Batches, Setup
  <1>3. nBatches' \in 0..MaxBatches /\ nBatches' > 0
    <2>1. nBatches \in 0..MaxBatches /\ MaxBatches \in Nat
      BY Typed, Numbers
    <2>2. nBatches < MaxBatches
      BY <1>2 DEF IInv, InBatch
    <2> QED  BY <1>1, <2>1, <2>2
  <1>4. /\ AfterBuffer \in Nat /\ AfterNet \in Nat /\ written \in Nat
        /\ AfterBuffer <= AfterNet /\ AfterNet <= written /\ AfterBuffer <= written
        /\ net = Bytes(AfterBuffer, AfterNet) /\ wbuf = Bytes(AfterNet, written)
    <2>1. /\ AfterBuffer \in Nat /\ AfterNet \in Nat /\ written \in Nat
          /\ AfterBuffer <= AfterNet /\ AfterNet <= written
      BY ReaderPosition, Typed
    <2>2. net = Bytes(AfterBuffer, AfterNet) /\ wbuf = Bytes(AfterNet, written)
      BY DEF IInv, Stream
    <2> QED  BY <2>1, <2>2
  <1>5. net' = Bytes(AfterBuffer, written)
    BY <1>1, <1>4, BytesJoin
  <1>6. net' \in Seq(Nat) /\ Len(net') = written - AfterBuffer
    BY <1>4, <1>5, BytesAreSeq
  <1>7. wbuf' \in Seq(Nat) /\ Len(wbuf') = 0 /\ batch' \in Seq(Messages) /\ Len(batch') = 0
    BY <1>1
  <1>8. Types'
    BY <1>1, <1>3, <1>6, <1>7, Typed, Numbers DEF IInv, Types, TypeOK, rvars
  <1>9. Len(sent) \in Nat \ {0} /\ sent # <<>>
    <2>1. Len(batch) \in Nat \ {0} /\ Len(batch) <= Len(sent) /\ Len(sent) \in Nat
      <3>1. batch \in Seq(Messages) /\ Len(sent) \in Nat
        BY Typed
      <3>2. Len(batch) # 0
        BY <1>2, <3>1
      <3> QED  BY <3>1, <3>2, BatchIsSent
    <2>2. Len(sent) \in Nat \ {0}
      BY <2>1
    <2> QED  BY <2>2
  <1>10. /\ Ordered' /\ EndOf(Len(sent) - 1)' = EndOf(Len(sent) - 1)
         /\ EndOf(Len(sent))' = EndOf(Len(sent))
         /\ EndOf(Len(sent) - Len(batch))' = EndOf(Len(sent) - Len(batch'))
    BY <1>1, SameMessages
  <1>11. HandshakeFirst' /\ InBatch'
    BY <1>1, <1>3, <1>9 DEF IInv, HandshakeFirst, InBatch
  <1>12. Written'
    <2>1. written = EndOf(Len(sent))
      <3>1. written <= EndOf(Len(sent))
        BY WrittenIsSent
      <3>2. ~(written < EndOf(Len(sent)))
        BY <1>1 DEF Writing
      <3>3. EndOf(Len(sent)) \in Nat
        BY <1>9, WriterPosition, Typed
      <3> QED  BY <1>4, <3>1, <3>2, <3>3
    <2>2. EndOf(Len(sent) - Len(batch))' = EndOf(Len(sent))
      BY <1>7, <1>9, <1>10
    <2>3. ~Writing'
      BY <1>1, <1>4, <1>10, <2>1 DEF Writing
    <2>4. Len(wbuf') <= written' - EndOf(Len(sent) - Len(batch))'
      BY <1>1, <1>4, <1>7, <2>1, <2>2
    <2>5. \/ written' = EndOf(Len(sent) - 1)'
          \/ written' - EndOf(Len(sent) - 1)' \in Writes(sent'[Len(sent')])
      BY <1>1, <1>9, <1>10 DEF IInv, Written
    <2>6. sent' # <<>>
      BY <1>1, <1>9
    <2> QED  BY <2>3, <2>4, <2>5, <2>6 DEF Written
  <1>13. /\ First' = First /\ AfterPart' = AfterPart /\ AfterBuffer' = AfterBuffer
         /\ Buffered' = Buffered /\ Reading' /\ Delivered'
    BY <1>1, SameReader
  <1>14. AfterNet' = written
    BY <1>4, <1>6, <1>13 DEF AfterNet
  <1>15. Stream'
    <2>1. wbuf' = Bytes(written, written)
      BY <1>1, <1>4, EmptyBytes
    <2>2. AfterNet' + Len(wbuf') = written
      BY <1>4, <1>7, <1>14
    <2>3. part' = part /\ got' = got /\ sent' = sent /\ written' = written
      BY <1>1 DEF rvars
    <2> QED
      BY <1>5, <1>13, <1>14, <2>1, <2>2, <2>3 DEF IInv, Stream
  <1> QED
    BY <1>8, <1>10, <1>11, <1>12, <1>13, <1>15 DEF IInv

-----------------------------------------------------------------------------
(***************************************************************************)
(* The reader.                                                             *)
(***************************************************************************)
LEMMA SameWriter ==
  ASSUME IInv, UNCHANGED wvars
  PROVE  /\ Ordered' /\ HandshakeFirst' /\ InBatch' /\ Written'
         /\ \A i \in Int : EndOf(i)' = EndOf(i)
  <1>1. UNCHANGED <<sent, ends, nBatches, batch, written, wbuf>>
    BY DEF wvars
  <1>2. Ordered' /\ \A i \in Int : EndOf(i)' = EndOf(i)
    BY <1>1, SameMessages
  <1>3. HandshakeFirst' /\ InBatch'
    BY <1>1 DEF IInv, HandshakeFirst, InBatch
  <1>4. Written'
    BY <1>1 DEF IInv, Written, Writing, EndOf
  <1> QED
    BY <1>2, <1>3, <1>4

\* The next n bytes of the socket, and what stays there.
LEMMA Received ==
  ASSUME IInv, NEW n \in 1..Len(net)
  PROVE  /\ SubSeq(net, 1, n) = Bytes(AfterBuffer, AfterBuffer + n)
         /\ SubSeq(net, n + 1, Len(net)) = Bytes(AfterBuffer + n, AfterNet)
         /\ AfterBuffer + n \in Nat /\ AfterBuffer + n <= AfterNet
         /\ Bytes(AfterBuffer + n, AfterNet) \in Seq(Nat)
         /\ Len(Bytes(AfterBuffer + n, AfterNet)) = Len(net) - n
  <1> DEFINE a == AfterBuffer
             b == AfterNet
             w == Len(net)
  <1>1. a \in Nat /\ b \in Nat /\ a <= b /\ net = Bytes(a, b) /\ w \in Nat
    BY ReaderPosition, Typed DEF IInv, Stream
  <1>2. w = b - a
    BY <1>1, BytesLength
  <1> HIDE DEF a, b
  <1>3. n \in 0..(b - a)
    BY <1>1, <1>2
  <1>4. SubSeq(net, 1, n) = Bytes(a, a + n) /\ SubSeq(net, n + 1, b - a) = Bytes(a + n, b)
    BY <1>1, <1>3, BytesCut
  <1>5. a + n \in Nat /\ a + n <= b /\ b - (a + n) = w - n
    <2> HIDE DEF w
    <2> QED  BY <1>1, <1>2, <1>3
  <1>6. Bytes(a + n, b) \in Seq(Nat) /\ Len(Bytes(a + n, b)) = b - (a + n)
    <2> DEFINE c == a + n
    <2>1. c \in Nat /\ c <= b
      BY <1>5
    <2> HIDE DEF c
    <2>2. Bytes(c, b) \in Seq(Nat) /\ Len(Bytes(c, b)) = b - c
      BY <1>1, <2>1, BytesAreSeq
    <2> QED  BY <2>2 DEF c
  <1> QED
    BY <1>2, <1>4, <1>5, <1>6 DEF a, b

LEMMA FillKeeps ==
  ASSUME IInv, Fill
  PROVE  IInv'
  <1>1. PICK n \in 1..Len(net) :
          /\ n <= ReaderBufSize - Len(Buffered)
          /\ rbuf' = Buffered \o SubSeq(net, 1, n)
          /\ net' = SubSeq(net, n + 1, Len(net))
    BY DEF Fill
  <1>2. head' = 0 /\ UNCHANGED <<wvars, part, missing, got>> /\ missing = 0
    BY DEF Fill, AtRead
  <1>3. Ordered' /\ HandshakeFirst' /\ InBatch' /\ Written' /\ \A i \in Int : EndOf(i)' = EndOf(i)
    BY <1>2, SameWriter
  <1> DEFINE a == AfterPart
             b == AfterBuffer
             c == b + n
             d == AfterNet
  <1>4. /\ a \in Nat /\ b \in Nat /\ a <= b /\ d \in Nat /\ First \in Nat
        /\ Len(Buffered) = b - a /\ Buffered = Bytes(a, b)
    BY ReaderPosition DEF IInv, Stream
  <1>5. /\ SubSeq(net, 1, n) = Bytes(b, c) /\ net' = Bytes(c, d)
        /\ c \in Nat /\ c <= d /\ net' \in Seq(Nat) /\ Len(net') = Len(net) - n
    BY <1>1, Received
  <1>6. b <= c /\ a <= c
    <2> HIDE DEF a, b
    <2> QED  BY <1>4
  <1> HIDE DEF a, b, c, d
  <1>7. rbuf' = Bytes(a, c)
    <2>1. Bytes(a, b) \o Bytes(b, c) = Bytes(a, c)
      BY <1>4, <1>5, <1>6, BytesJoin
    <2>2. Buffered = Bytes(a, b) /\ SubSeq(net, 1, n) = Bytes(b, c)
      BY <1>4, <1>5
    <2>3. rbuf' = Buffered \o SubSeq(net, 1, n)
      BY <1>1
    <2> QED  BY <2>1, <2>2, <2>3, Zenon
  <1>8. rbuf' \in Seq(Nat) /\ Len(rbuf') = c - a
    BY <1>4, <1>5, <1>6, <1>7, BytesAreSeq
  <1>9. Len(rbuf') <= ReaderBufSize /\ Len(rbuf') \in Nat
    <2>1. n \in Nat /\ n <= ReaderBufSize - (b - a)
      <3>1. n \in Nat
        OBVIOUS
      <3>2. n <= ReaderBufSize - Len(Buffered)
        BY <1>1
      <3>3. Len(Buffered) = b - a
        BY <1>4
      <3> QED  BY <3>1, <3>2, <3>3
    <2>2. Len(rbuf') = c - a /\ c = b + n
      BY <1>8, Zenon DEF c
    <2> QED  BY <1>4, <2>1, <2>2, Numbers
  <1>10. Types'
    BY <1>2, <1>5, <1>8, <1>9, Typed DEF IInv, Types, TypeOK, wvars
  <1>11. First' = First /\ AfterPart' = a
    <2>1. First' = First
      BY <1>2, <1>3, Typed DEF First
    <2> QED  BY <1>2, <2>1 DEF AfterPart, a
  <1>12. AfterBuffer' = c
    BY <1>2, <1>4, <1>5, <1>8, <1>11 DEF AfterBuffer
  <1>13. AfterNet' = d
    <2>1. d = b + Len(net) /\ Len(net) \in Nat
      BY Typed DEF b, d, AfterNet
    <2>2. c = b + n /\ AfterNet' = AfterBuffer' + Len(net')
      BY DEF c, AfterNet
    <2>3. AfterNet' = c + (Len(net) - n)
      BY <1>5, <1>12, <2>2
    <2> QED  BY <1>4, <2>1, <2>2, <2>3
  <1>14. Buffered' = Bytes(a, c)
    <2>1. SubSeq(rbuf', 1, Len(rbuf')) = rbuf'
      BY <1>8
    <2>2. 0 + 1 = 1
      OBVIOUS
    <2> QED  BY <1>2, <1>7, <2>1, <2>2 DEF Buffered
  <1>15. Stream'
    <2>1. /\ part' = part /\ got' = got /\ sent' = sent /\ wbuf' = wbuf /\ written' = written
      BY <1>2 DEF wvars
    <2>2. /\ Len(got) <= Len(sent) /\ part = Bytes(First, a) /\ wbuf = Bytes(d, written)
          /\ d + Len(wbuf) = written
      BY DEF IInv, Stream, a, d
    <2>3. /\ Len(got') <= Len(sent') /\ part' = Bytes(First', AfterPart')
          /\ wbuf' = Bytes(AfterNet', written') /\ AfterNet' + Len(wbuf') = written'
      BY <1>11, <1>13, <2>1, <2>2
    <2>4. Buffered' = Bytes(AfterPart', AfterBuffer') /\ net' = Bytes(AfterBuffer', AfterNet')
      BY <1>5, <1>11, <1>12, <1>13, <1>14
    <2> QED  BY <2>3, <2>4 DEF Stream
  <1>16. Reading' /\ Delivered'
    <2>1. ~(missing' > 0)
      BY <1>2
    <2> QED
      BY <1>2, <2>1 DEF IInv, Reading, Delivered, wvars
  <1> QED
    BY <1>3, <1>10, <1>15, <1>16 DEF IInv

LEMMA Suffix ==
  ASSUME NEW s \in Seq(Nat), NEW h \in 0..Len(s)
  PROVE  /\ SubSeq(s, h + 1, Len(s)) \in Seq(Nat)
         /\ Len(SubSeq(s, h + 1, Len(s))) = Len(s) - h
         /\ \A i \in 1..(Len(s) - h) : SubSeq(s, h + 1, Len(s))[i] = s[h + i]
  OBVIOUS

\* Moving head drops the first bytes of what is buffered.
LEMMA HeadMoves ==
  ASSUME NEW s \in Seq(Nat), NEW h \in 0..Len(s), NEW q \in 0..(Len(s) - h)
  PROVE  SubSeq(s, h + q + 1, Len(s)) = SubSeq(SubSeq(s, h + 1, Len(s)), q + 1, Len(s) - h)
  <1> DEFINE L == Len(s)
             t == SubSeq(s, h + 1, L)
  <1>1. L \in Nat /\ h \in Nat /\ q \in Nat /\ h <= L /\ q <= L - h
    OBVIOUS
  <1>2. t \in Seq(Nat) /\ Len(t) = L - h /\ \A i \in 1..(L - h) : t[i] = s[h + i]
    BY Suffix
  <1> HIDE DEF t
  <1>3. /\ SubSeq(t, q + 1, L - h) \in Seq(Nat)
        /\ Len(SubSeq(t, q + 1, L - h)) = L - h - q
        /\ \A i \in 1..(L - h - q) : SubSeq(t, q + 1, L - h)[i] = t[q + i]
    <2>1. t \in Seq(Nat) /\ q \in 0..Len(t) /\ Len(t) = L - h
      BY <1>1, <1>2
    <2>2. /\ SubSeq(t, q + 1, Len(t)) \in Seq(Nat)
          /\ Len(SubSeq(t, q + 1, Len(t))) = Len(t) - q
          /\ \A i \in 1..(Len(t) - q) : SubSeq(t, q + 1, Len(t))[i] = t[q + i]
      BY <2>1, Suffix
    <2> QED  BY <2>1, <2>2, Zenon
  <1>4. /\ SubSeq(s, h + q + 1, L) \in Seq(Nat)
        /\ Len(SubSeq(s, h + q + 1, L)) = L - h - q
        /\ \A i \in 1..(L - h - q) : SubSeq(s, h + q + 1, L)[i] = s[h + q + i]
    <2> DEFINE p == h + q
    <2>1. p \in 0..L
      BY <1>1
    <2>2. L - p = L - h - q
      BY <1>1
    <2> HIDE DEF p
    <2>3. /\ SubSeq(s, p + 1, L) \in Seq(Nat)
          /\ Len(SubSeq(s, p + 1, L)) = L - p
          /\ \A i \in 1..(L - p) : SubSeq(s, p + 1, L)[i] = s[p + i]
      BY <2>1, Suffix
    <2>4. /\ SubSeq(s, p + 1, L) \in Seq(Nat)
          /\ Len(SubSeq(s, p + 1, L)) = L - h - q
          /\ \A i \in 1..(L - h - q) : SubSeq(s, p + 1, L)[i] = s[p + i]
      BY <2>2, <2>3
    <2> QED  BY <2>4 DEF p
  <1>5. ASSUME NEW i \in 1..(L - h - q)
        PROVE  SubSeq(s, h + q + 1, L)[i] = SubSeq(t, q + 1, L - h)[i]
    <2>1. q + i \in 1..(L - h) /\ h + (q + i) = h + q + i
      BY <1>1
    <2>2. t[q + i] = s[h + (q + i)]
      BY <1>2, <2>1
    <2> QED  BY <1>3, <1>4, <2>1, <2>2
  <1>6. SubSeq(s, h + q + 1, L) = SubSeq(t, q + 1, L - h)
    <2> DEFINE u == SubSeq(s, h + q + 1, L)
               v == SubSeq(t, q + 1, L - h)
    <2>1. u \in Seq(Nat) /\ v \in Seq(Nat) /\ Len(u) = Len(v)
      BY <1>3, <1>4
    <2>2. \A i \in 1..Len(u) : u[i] = v[i]
      BY <1>4, <1>5
    <2> HIDE DEF u, v
    <2>3. u = v
      BY <2>1, <2>2, SeqEqual
    <2> QED  BY <2>3 DEF u, v
  <1> QED
    BY <1>6 DEF t

LEMMA TakeKeeps ==
  ASSUME IInv, Take
  PROVE  IInv'
  <1> DEFINE q == Asked(part)
             f == First
             a == AfterPart
             b == AfterBuffer
             L == Len(rbuf)
  <1>1. /\ missing = 0 /\ ~Complete(part) /\ Len(Buffered) >= q
        /\ part' = part \o SubSeq(Buffered, 1, q) /\ head' = head + q
        /\ UNCHANGED <<wvars, net, rbuf, missing, got>>
    BY DEF Take, AtRead
  <1>2. Ordered' /\ HandshakeFirst' /\ InBatch' /\ Written' /\ \A i \in Int : EndOf(i)' = EndOf(i)
    BY <1>1, SameWriter
  <1>3. /\ q \in Nat \ {0}
        /\ Len(got) < Len(sent) => Len(part) + q <= Size(sent[Len(got) + 1])
    BY <1>1, NextRead
  <1>4. /\ f \in Nat /\ a \in Nat /\ b \in Nat /\ f <= a /\ a <= b /\ b <= written
        /\ Len(Buffered) = b - a /\ Len(Buffered) = L - head
    <2>1. AfterNet \in Nat /\ b <= AfterNet /\ AfterNet <= written /\ written \in Nat
      BY ReaderPosition, Typed
    <2> HIDE DEF b
    <2>2. b \in Nat => b <= written
      BY <2>1
    <2> QED  BY <2>2, ReaderPosition DEF b
  <1>5. part = Bytes(f, a) /\ Buffered = Bytes(a, b)
    BY DEF IInv, Stream
  <1>6. rbuf \in Seq(Nat) /\ L \in Nat /\ head \in 0..L /\ Len(part) \in Nat /\ a = f + Len(part)
    BY Typed DEF AfterPart
  <1>7. Len(got) < Len(sent)
    <2>1. f < written
      <3>1. written \in Nat
        BY Typed
      <3> HIDE DEF q, f, a, b, L
      <3> QED  BY <1>1, <1>3, <1>4, <3>1
    <2> QED  BY <2>1, ReaderPosition
  <1> HIDE DEF q, f, a, b, L
  <1>8. q \in 0..(b - a) /\ a + q \in Nat /\ f <= a + q /\ a <= a + q /\ a + q <= b
        /\ q \in 0..(L - head)
    BY <1>1, <1>3, <1>4, <1>6
  <1>9. /\ SubSeq(Buffered, 1, q) = Bytes(a, a + q)
        /\ SubSeq(Buffered, q + 1, b - a) = Bytes(a + q, b)
    BY <1>4, <1>5, <1>8, BytesCut
  <1>10. part' = Bytes(f, a + q)
    <2>1. Bytes(f, a) \o Bytes(a, a + q) = Bytes(f, a + q)
      BY <1>4, <1>8, BytesJoin
    <2> QED  BY <1>1, <1>5, <1>9, <2>1
  <1>11. part' \in Seq(Nat) /\ Len(part') = Len(part) + q
    <2>1. part' \in Seq(Nat) /\ Len(part') = (a + q) - f
      BY <1>4, <1>8, <1>10, BytesAreSeq
    <2> QED  BY <1>3, <1>4, <1>6, <2>1
  <1>12. head' \in 0..L
    BY <1>1, <1>6, <1>8
  <1>13. Types'
    BY <1>1, <1>11, <1>12, Typed DEF IInv, Types, TypeOK, wvars, L
  <1>14. First' = f /\ AfterPart' = a + q
    <2>1. First' = First
      BY <1>1, <1>2, Typed DEF First
    <2>2. AfterPart' = First' + Len(part')
      BY DEF AfterPart
    <2>3. AfterPart' = f + (Len(part) + q)
      BY <1>11, <2>1, <2>2 DEF f
    <2> QED  BY <1>3, <1>4, <1>6, <2>1, <2>3 DEF f
  <1>15. AfterBuffer' = b /\ AfterNet' = AfterNet
    <2>1. b = a + (L - head)
      BY DEF AfterBuffer, a, b, L
    <2>2. AfterBuffer' = AfterPart' + (Len(rbuf') - head')
      BY DEF AfterBuffer
    <2>3. AfterBuffer' = (a + q) + (L - (head + q))
      BY <1>1, <1>14, <2>2 DEF L
    <2>4. AfterBuffer' = b
      BY <1>3, <1>4, <1>6, <2>1, <2>3
    <2> QED  BY <1>1, <2>4 DEF AfterNet, b
  <1>16. Buffered' = Bytes(a + q, b)
    <2>1. Buffered' = SubSeq(rbuf, head + q + 1, L)
      BY <1>1 DEF Buffered, L
    <2>2. Buffered = SubSeq(rbuf, head + 1, L)
      BY DEF Buffered, L
    <2>3. SubSeq(rbuf, head + q + 1, L) = SubSeq(SubSeq(rbuf, head + 1, L), q + 1, L - head)
      BY <1>6, <1>8, HeadMoves DEF L
    <2>4. L - head = b - a
      BY <1>4
    <2> QED  BY <1>9, <2>1, <2>2, <2>3, <2>4
  <1>17. Stream'
    <2>1. /\ Len(got) <= Len(sent) /\ net = Bytes(b, AfterNet) /\ wbuf = Bytes(AfterNet, written)
          /\ AfterNet + Len(wbuf) = written
      BY DEF IInv, Stream, b
    <2>2. /\ got' = got /\ sent' = sent /\ wbuf' = wbuf /\ written' = written /\ net' = net
      BY <1>1 DEF wvars
    <2>3. /\ part' = Bytes(First', AfterPart') /\ Buffered' = Bytes(AfterPart', AfterBuffer')
          /\ net' = Bytes(AfterBuffer', AfterNet') /\ wbuf' = Bytes(AfterNet', written')
          /\ AfterNet' + Len(wbuf') = written' /\ Len(got') <= Len(sent')
      BY <1>10, <1>14, <1>15, <1>16, <2>1, <2>2
    <2> QED  BY <2>3 DEF Stream
  <1>18. Reading'
    <2>1. ~(missing' > 0) /\ missing' = 0 /\ got' = got /\ sent' = sent
      BY <1>1 DEF wvars
    <2>2. Len(part') + missing' = Len(part) + q
      BY <1>3, <1>6, <1>11, <2>1
    <2> QED  BY <1>3, <1>7, <2>1, <2>2 DEF Reading
  <1>19. Delivered'
    BY <1>1 DEF IInv, Delivered, wvars
  <1> QED
    BY <1>2, <1>13, <1>17, <1>18, <1>19 DEF IInv

LEMMA LongReadKeeps ==
  ASSUME IInv, LongRead
  PROVE  IInv'
  <1> DEFINE q == Asked(part)
             f == First
             a == AfterPart
             b == AfterBuffer
             L == Len(rbuf)
  <1>1. /\ missing = 0 /\ ~Complete(part) /\ q > ReaderBufSize
        /\ part' = part \o Buffered /\ missing' = q - Len(Buffered) /\ head' = L
        /\ UNCHANGED <<wvars, net, rbuf, got>>
    BY DEF LongRead, AtRead
  <1>2. Ordered' /\ HandshakeFirst' /\ InBatch' /\ Written' /\ \A i \in Int : EndOf(i)' = EndOf(i)
    BY <1>1, SameWriter
  <1>3. /\ q \in Nat \ {0}
        /\ Len(got) < Len(sent) => Len(part) + q <= Size(sent[Len(got) + 1])
        /\ part = <<>> => q <= ReaderBufSize
    BY <1>1, NextRead
  <1>4. /\ f \in Nat /\ a \in Nat /\ b \in Nat /\ f <= a /\ a <= b
        /\ Len(Buffered) = b - a /\ Len(Buffered) = L - head
    BY ReaderPosition
  <1>5. part = Bytes(f, a) /\ Buffered = Bytes(a, b)
    BY DEF IInv, Stream
  <1>6. /\ rbuf \in Seq(Nat) /\ L \in Nat /\ head \in 0..L /\ L <= ReaderBufSize
        /\ Len(part) \in Nat /\ a = f + Len(part)
    BY Typed DEF AfterPart
  <1> HIDE DEF q, f, a, b, L
  <1>7. part # <<>> /\ Len(got) < Len(sent)
    <2>1. part # <<>>
      BY <1>1, <1>3, Numbers
    <2> QED  BY <2>1, PartInMessage
  <1>8. missing' \in Nat /\ missing' > 0
    BY <1>1, <1>3, <1>4, <1>6, Numbers
  <1>9. part' = Bytes(f, b)
    <2>1. Bytes(f, a) \o Bytes(a, b) = Bytes(f, b)
      BY <1>4, BytesJoin
    <2> QED  BY <1>1, <1>5, <2>1
  <1>10. part' \in Seq(Nat) /\ Len(part') = b - f
    <2>1. f <= b
      BY <1>4
    <2> QED  BY <1>4, <1>9, <2>1, BytesAreSeq
  <1>11. Types'
    <2>1. head' \in 0..L
      BY <1>1, <1>6
    <2> QED
      BY <1>1, <1>8, <1>10, <2>1, Typed DEF IInv, Types, TypeOK, wvars, L
  <1>12. First' = f /\ AfterPart' = b
    <2>1. First' = First
      BY <1>1, <1>2, Typed DEF First
    <2>2. AfterPart' = First' + Len(part')
      BY DEF AfterPart
    <2>3. AfterPart' = f + (b - f)
      BY <1>10, <2>1, <2>2 DEF f
    <2> QED  BY <1>4, <2>1, <2>3 DEF f
  <1>13. AfterBuffer' = b /\ AfterNet' = AfterNet
    <2>1. AfterBuffer' = AfterPart' + (Len(rbuf') - head')
      BY DEF AfterBuffer
    <2>2. AfterBuffer' = b + (L - L)
      BY <1>1, <1>12, <2>1 DEF L
    <2>3. AfterBuffer' = b
      BY <1>4, <1>6, <2>2
    <2> QED  BY <1>1, <2>3 DEF AfterNet, b
  <1>14. Buffered' = Bytes(b, b)
    <2>1. Buffered' = SubSeq(rbuf, L + 1, L)
      BY <1>1 DEF Buffered, L
    <2>2. SubSeq(rbuf, L + 1, L) = <<>>
      BY <1>6
    <2> QED  BY <1>4, <2>1, <2>2, EmptyBytes
  <1>15. Stream'
    <2>1. /\ Len(got) <= Len(sent) /\ net = Bytes(b, AfterNet) /\ wbuf = Bytes(AfterNet, written)
          /\ AfterNet + Len(wbuf) = written
      BY DEF IInv, Stream, b
    <2>2. /\ got' = got /\ sent' = sent /\ wbuf' = wbuf /\ written' = written /\ net' = net
      BY <1>1 DEF wvars
    <2>3. /\ part' = Bytes(First', AfterPart') /\ Buffered' = Bytes(AfterPart', AfterBuffer')
          /\ net' = Bytes(AfterBuffer', AfterNet') /\ wbuf' = Bytes(AfterNet', written')
          /\ AfterNet' + Len(wbuf') = written' /\ Len(got') <= Len(sent')
      BY <1>9, <1>12, <1>13, <1>14, <2>1, <2>2
    <2> QED  BY <2>3 DEF Stream
  <1>16. Reading'
    <2>1. got' = got /\ sent' = sent /\ head' = Len(rbuf')
      BY <1>1 DEF wvars, L
    <2>2. Len(part') + missing' = Len(part) + q
      BY <1>1, <1>3, <1>4, <1>6, <1>10
    <2>3. Len(part) + q <= Size(sent[Len(got) + 1])
      BY <1>3, <1>7
    <2> QED  BY <1>7, <2>1, <2>2, <2>3 DEF Reading
  <1>17. Delivered'
    BY <1>1 DEF IInv, Delivered, wvars
  <1> QED
    BY <1>2, <1>11, <1>15, <1>16, <1>17 DEF IInv

LEMMA LongReceiveKeeps ==
  ASSUME IInv, LongReceive
  PROVE  IInv'
  <1>1. PICK n \in 1..Len(net) :
          /\ n <= missing
          /\ part' = part \o SubSeq(net, 1, n)
          /\ net' = SubSeq(net, n + 1, Len(net))
          /\ missing' = missing - n
    BY DEF LongReceive
  <1>2. missing > 0 /\ UNCHANGED <<wvars, rbuf, head, got>>
    BY DEF LongReceive
  <1>3. Ordered' /\ HandshakeFirst' /\ InBatch' /\ Written' /\ \A i \in Int : EndOf(i)' = EndOf(i)
    BY <1>2, SameWriter
  <1> DEFINE f == First
             a == AfterPart
             c == AfterBuffer + n
             L == Len(rbuf)
  <1>4. head = L /\ Len(got) < Len(sent) /\ Len(part) + missing <= Size(sent[Len(got) + 1])
    BY <1>2 DEF IInv, Reading
  <1>5. /\ rbuf \in Seq(Nat) /\ L \in Nat /\ Len(part) \in Nat /\ missing \in Nat
        /\ a = f + Len(part) /\ Len(net) \in Nat
    BY Typed DEF AfterPart
  <1>6. AfterBuffer = a
    <2>1. AfterBuffer = a + (L - head) /\ a \in Nat
      BY ReaderPosition DEF AfterBuffer
    <2> HIDE DEF a, L
    <2> QED  BY <1>4, <1>5, <2>1
  <1>7. /\ SubSeq(net, 1, n) = Bytes(a, c) /\ net' = Bytes(c, AfterNet)
        /\ c \in Nat /\ c <= AfterNet /\ net' \in Seq(Nat) /\ Len(net') = Len(net) - n
    BY <1>1, <1>6, Received
  <1>8. f \in Nat /\ a \in Nat /\ f <= a /\ part = Bytes(f, a)
    BY ReaderPosition DEF IInv, Stream
  <1>9. c = a + n
    BY <1>6
  <1> HIDE DEF f, a, c, L
  <1>10. a <= c /\ f <= c
    BY <1>8, <1>9
  <1>11. part' = Bytes(f, c)
    <2>1. Bytes(f, a) \o Bytes(a, c) = Bytes(f, c)
      BY <1>7, <1>8, <1>10, BytesJoin
    <2> QED  BY <1>1, <1>7, <1>8, <2>1
  <1>12. part' \in Seq(Nat) /\ Len(part') = c - f
    BY <1>7, <1>8, <1>10, <1>11, BytesAreSeq
  <1>13. Types'
    <2>1. missing' \in Nat
      BY <1>1, <1>5
    <2> QED
      BY <1>2, <1>7, <1>12, <2>1, Typed DEF IInv, Types, TypeOK, wvars
  <1>14. First' = f /\ AfterPart' = c
    <2>1. First' = First
      BY <1>2, <1>3, Typed DEF First
    <2>2. AfterPart' = First' + Len(part')
      BY DEF AfterPart
    <2>3. AfterPart' = f + (c - f)
      BY <1>12, <2>1, <2>2 DEF f
    <2> QED  BY <1>7, <1>8, <2>1, <2>3 DEF f
  <1>15. AfterBuffer' = c
    <2>1. AfterBuffer' = AfterPart' + (Len(rbuf') - head')
      BY DEF AfterBuffer
    <2>2. AfterBuffer' = c + (L - L)
      BY <1>2, <1>4, <1>14, <2>1 DEF L
    <2> QED  BY <1>5, <1>7, <2>2
  <1>16. AfterNet' = AfterNet
    <2>1. AfterNet = a + Len(net) /\ AfterNet' = AfterBuffer' + Len(net')
      BY <1>6 DEF AfterNet
    <2>2. AfterNet' = c + (Len(net) - n)
      BY <1>7, <1>15, <2>1
    <2> DEFINE w == Len(net)
    <2>3. w \in Nat
      BY <1>5
    <2>4. n \in Nat
      BY <1>5
    <2>5. w \in Nat /\ n \in Nat /\ a \in Nat /\ c = a + n
      BY <1>8, <1>9, <2>3, <2>4, Zenon
    <2>6. AfterNet = a + w /\ AfterNet' = c + (w - n)
      BY <2>1, <2>2
    <2> HIDE DEF w
    <2>7. c + (w - n) = a + w
      BY <2>5
    <2> QED  BY <2>6, <2>7
  <1>17. Buffered' = Bytes(c, c)
    <2>1. Buffered' = SubSeq(rbuf, L + 1, L)
      BY <1>2, <1>4 DEF Buffered, L
    <2>2. SubSeq(rbuf, L + 1, L) = <<>>
      BY <1>5
    <2> QED  BY <1>7, <2>1, <2>2, EmptyBytes
  <1>18. Stream'
    <2>1. /\ Len(got) <= Len(sent) /\ wbuf = Bytes(AfterNet, written)
          /\ AfterNet + Len(wbuf) = written
      BY DEF IInv, Stream
    <2>2. /\ got' = got /\ sent' = sent /\ wbuf' = wbuf /\ written' = written
      BY <1>2 DEF wvars
    <2>3. /\ part' = Bytes(First', AfterPart') /\ Buffered' = Bytes(AfterPart', AfterBuffer')
          /\ net' = Bytes(AfterBuffer', AfterNet') /\ wbuf' = Bytes(AfterNet', written')
          /\ AfterNet' + Len(wbuf') = written' /\ Len(got') <= Len(sent')
      BY <1>7, <1>11, <1>14, <1>15, <1>16, <1>17, <2>1, <2>2
    <2> QED  BY <2>3 DEF Stream
  <1>19. Reading'
    <2>1. got' = got /\ sent' = sent /\ head' = Len(rbuf')
      BY <1>2, <1>4 DEF wvars, L
    <2>2. Len(part') + missing' = Len(part) + missing
      BY <1>1, <1>5, <1>8, <1>9, <1>12
    <2> QED  BY <1>4, <2>1, <2>2 DEF Reading
  <1>20. Delivered'
    BY <1>2 DEF IInv, Delivered, wvars
  <1> QED
    BY <1>3, <1>13, <1>18, <1>19, <1>20 DEF IInv

\* The reader decodes the message it is in.
LEMMA DecodedIsSent ==
  ASSUME IInv, Complete(part)
  PROVE  /\ Len(got) < Len(sent)
         /\ AfterPart = EndOf(Len(got) + 1)
         /\ Decoded(part) = sent[Len(got) + 1]
  <1> DEFINE g == Len(got) + 1
             fits == {i \in DOMAIN sent : part = Bytes(EndOf(i - 1), EndOf(i))}
  <1>1. Len(got) < Len(sent) /\ Len(part) = Size(sent[g])
    BY NextRead
  <1>2. /\ g \in 1..Len(sent) /\ EndOf(g) = First + Size(sent[g])
        /\ Size(sent[g]) \in Nat \ {0}
    BY <1>1, Current
  <1>3. AfterPart = EndOf(g)
    BY <1>1, <1>2 DEF AfterPart
  <1>4. g - 1 = Len(got) /\ First = EndOf(g - 1)
    <2>1. g - 1 = Len(got)
      BY Typed
    <2> QED  BY <2>1 DEF First
  <1>5. part = Bytes(EndOf(g - 1), EndOf(g))
    BY <1>3, <1>4 DEF IInv, Stream
  <1>6. DOMAIN sent = 1..Len(sent) /\ Len(sent) \in Nat
    BY Typed
  <1>7. ASSUME NEW i \in fits PROVE i = g
    <2>1. i \in 1..Len(sent) /\ part = Bytes(EndOf(i - 1), EndOf(i))
      BY <1>6
    <2> HIDE DEF fits, g
    <2>2. /\ i - 1 \in 0..Len(sent) /\ i \in 0..Len(sent)
          /\ g - 1 \in 0..Len(sent) /\ g \in 0..Len(sent)
      BY <1>2, <1>6, <2>1
    <2>3. /\ EndOf(i - 1) \in Nat /\ EndOf(i) \in Nat
          /\ EndOf(g - 1) \in Nat /\ EndOf(g) \in Nat
      BY <2>2, Typed
    <2>4. EndOf(i - 1) < EndOf(i) /\ EndOf(g - 1) < EndOf(g)
      <3>1. i - 1 < i /\ g - 1 < g
        BY <1>2, <2>1
      <3> QED  BY <2>2, <3>1 DEF IInv, Ordered
    <2>5. EndOf(i - 1) = EndOf(g - 1)
      BY <1>5, <2>1, <2>3, <2>4, BytesDiffer
    <2>6. EndOf(i) = EndOf(g)
      <3> DEFINE a == EndOf(g - 1)
                 b == EndOf(g)
                 c == EndOf(i)
      <3>1. part = Bytes(a, b) /\ part = Bytes(a, c)
        BY <1>5, <2>1, <2>5
      <3>2. a \in Nat /\ b \in Nat /\ c \in Nat /\ a < b /\ a < c
        BY <2>3, <2>4, <2>5
      <3> HIDE DEF a, b, c
      <3>3. Len(part) = b - a /\ Len(part) = c - a
        <4>1. a <= b /\ a <= c
          BY <3>2
        <4> QED  BY <3>1, <3>2, <4>1, BytesLength
      <3>4. b = c
        BY <3>2, <3>3
      <3> QED  BY <3>4 DEF b, c
    <2> QED
      BY <1>2, <2>1, <2>3, <2>4, <2>5, <2>6, MessageAt
  <1>8. g \in fits
    BY <1>2, <1>5, <1>6
  <1>9. Decoded(part) = sent[CHOOSE i \in fits : TRUE]
    BY <1>8 DEF Decoded
  <1>10. (CHOOSE i \in fits : TRUE) = g
    <2> HIDE DEF fits, g
    <2> QED  BY <1>7, <1>8
  <1> QED
    BY <1>1, <1>3, <1>9, <1>10

LEMMA DeliverKeeps ==
  ASSUME IInv, Deliver
  PROVE  /\ IInv'
         /\ Len(got) < Len(sent) /\ got' = Append(got, sent[Len(got) + 1]) /\ sent' = sent
  <1> DEFINE g == Len(got) + 1
  <1>1. /\ missing = 0 /\ Complete(part)
        /\ got' = Append(got, Decoded(part)) /\ part' = <<>>
        /\ UNCHANGED <<wvars, net, rbuf, head, missing>>
    BY DEF Deliver
  <1>2. Ordered' /\ HandshakeFirst' /\ InBatch' /\ Written' /\ \A i \in Int : EndOf(i)' = EndOf(i)
    BY <1>1, SameWriter
  <1>3. Len(got) < Len(sent) /\ AfterPart = EndOf(g) /\ Decoded(part) = sent[g]
    BY <1>1, DecodedIsSent
  <1>4. /\ sent' = sent /\ net' = net /\ wbuf' = wbuf /\ written' = written /\ missing' = 0
        /\ rbuf' = rbuf /\ head' = head /\ missing' = missing
    BY <1>1 DEF wvars
  <1>5. /\ got \in Seq(Messages) /\ Len(got) \in Nat /\ Len(sent) \in Nat
        /\ sent[g] \in Messages /\ g \in 1..Len(sent)
    BY <1>3, Typed
  <1>6. got' = Append(got, sent[g])
    BY <1>1, <1>3
  <1>7. /\ got' \in Seq(Messages) /\ Len(got') = g
        /\ \A i \in 1..Len(got) : got'[i] = got[i]
        /\ got'[g] = sent[g]
    BY <1>5, <1>6
  <1>8. Types'
    BY <1>1, <1>7 DEF IInv, Types, TypeOK, wvars
  <1>9. /\ First' = AfterPart /\ AfterPart' = AfterPart /\ AfterPart \in Nat
    <2>1. First' = AfterPart
      <3>1. First' = EndOf(Len(got))'
        BY DEF First
      <3>2. EndOf(Len(got))' = EndOf(g)
        BY <1>1, <1>7 DEF EndOf, wvars
      <3> QED  BY <1>3, <3>1, <3>2
    <2>2. AfterPart' = First' + Len(part') /\ Len(part') = 0
      BY <1>1 DEF AfterPart
    <2> QED  BY <2>1, <2>2, ReaderPosition
  <1>10. /\ AfterBuffer' = AfterBuffer /\ AfterNet' = AfterNet /\ Buffered' = Buffered
    <2>1. AfterBuffer' = AfterBuffer
      BY <1>4, <1>9 DEF AfterBuffer
    <2> QED  BY <1>4, <2>1 DEF AfterNet, Buffered
  <1>11. Stream'
    <2>1. part' = Bytes(AfterPart, AfterPart)
      BY <1>1, <1>9, EmptyBytes
    <2>2. Len(got') <= Len(sent')
      BY <1>4, <1>5, <1>7
    <2>3. /\ Buffered = Bytes(AfterPart, AfterBuffer) /\ net = Bytes(AfterBuffer, AfterNet)
          /\ wbuf = Bytes(AfterNet, written) /\ AfterNet + Len(wbuf) = written
      BY DEF IInv, Stream
    <2>4. /\ part' = Bytes(First', AfterPart') /\ Buffered' = Bytes(AfterPart', AfterBuffer')
          /\ net' = Bytes(AfterBuffer', AfterNet') /\ wbuf' = Bytes(AfterNet', written')
          /\ AfterNet' + Len(wbuf') = written'
      BY <1>4, <1>9, <1>10, <2>1, <2>3
    <2> QED  BY <2>2, <2>4 DEF Stream
  <1>12. Reading'
    <2>1. ASSUME Len(got') < Len(sent')
          PROVE  Len(part') + missing' <= Size(sent'[Len(got') + 1])
      <3> DEFINE k == Len(got') + 1
      <3>1. k \in 1..Len(sent)
        BY <1>4, <1>5, <1>7, <2>1
      <3>2. sent[k] \in Messages
        BY <3>1, Typed
      <3>3. Size(sent[k]) \in Nat
        BY <3>2, Sizes
      <3>4. Len(part') + missing' = 0
        BY <1>1, <1>4
      <3> HIDE DEF k
      <3>5. 0 <= Size(sent[k])
        BY <3>3
      <3> QED  BY <1>4, <3>4, <3>5 DEF k
    <2> QED
      BY <1>4, <2>1 DEF Reading
  <1>13. Delivered'
    <2>1. ASSUME NEW i \in 1..Len(got') PROVE got'[i] = sent'[i]
      <3>1. CASE i \in 1..Len(got)
        BY <1>4, <1>7, <3>1 DEF IInv, Delivered
      <3>2. CASE i = g
        BY <1>4, <1>7, <3>2
      <3> QED  BY <1>5, <1>7, <3>1, <3>2
    <2> QED  BY <2>1 DEF Delivered
  <1> QED
    BY <1>2, <1>3, <1>4, <1>6, <1>8, <1>11, <1>12, <1>13 DEF IInv

-----------------------------------------------------------------------------
(***************************************************************************)
(* The invariant.                                                          *)
(***************************************************************************)
LEMMA InitInv ==
  ASSUME Init
  PROVE  IInv
  <1> USE DEF Init
  <1>1. Types
    BY Numbers DEF Types, TypeOK
  <1>2. Ordered /\ HandshakeFirst /\ InBatch /\ Delivered
    BY DEF Ordered, HandshakeFirst, InBatch, Delivered, EndOf
  <1>3. Written
    BY DEF Written, Writing, EndOf
  <1>4. First = 0 /\ AfterPart = 0 /\ AfterBuffer = 0 /\ AfterNet = 0 /\ Buffered = <<>>
    BY DEF First, AfterPart, AfterBuffer, AfterNet, Buffered, EndOf
  <1>5. Bytes(0, 0) = <<>>
    BY EmptyBytes
  <1>6. Stream
    BY <1>4, <1>5 DEF Stream
  <1>7. Reading
    BY DEF Reading
  <1> QED
    BY <1>1, <1>2, <1>3, <1>6, <1>7 DEF IInv

LEMMA NextInv ==
  ASSUME IInv, [Next]_vars
  PROVE  IInv'
  <1>1. ASSUME NEW m \in Messages, Send(m) PROVE IInv'
    BY <1>1, SendKeepsWriter, SendKeepsReader DEF IInv
  <1>2. CASE WriteBuffered
    BY <1>2, WriteBufferedKeeps
  <1>3. CASE WriteLong
    BY <1>3, WriteLongKeeps
  <1>4. CASE Flush
    BY <1>4, FlushKeeps
  <1>5. CASE Fill
    BY <1>5, FillKeeps
  <1>6. CASE Take
    BY <1>6, TakeKeeps
  <1>7. CASE LongRead
    BY <1>7, LongReadKeeps
  <1>8. CASE LongReceive
    BY <1>8, LongReceiveKeeps
  <1>9. CASE Deliver
    BY <1>9, DeliverKeeps
  <1>10. CASE UNCHANGED vars
    <2>1. UNCHANGED <<wvars, net, rvars>>
      BY <1>10 DEF vars
    <2>2. Ordered' /\ HandshakeFirst' /\ InBatch' /\ Written'
      BY <2>1, SameWriter
    <2>3. /\ First' = First /\ AfterPart' = AfterPart /\ AfterBuffer' = AfterBuffer
          /\ Buffered' = Buffered /\ Reading' /\ Delivered'
      BY <2>1, SameReader DEF wvars
    <2>4. AfterNet' = AfterNet
      BY <2>1, <2>3 DEF AfterNet
    <2>5. Types' /\ Stream'
      BY <2>1, <2>3, <2>4 DEF IInv, Types, TypeOK, Stream, wvars, rvars
    <2> QED  BY <2>2, <2>3, <2>5 DEF IInv
  <1> QED
    BY <1>1, <1>2, <1>3, <1>4, <1>5, <1>6, <1>7, <1>8, <1>9, <1>10 DEF Next, Writer, Reader

THEOREM Invariance == Spec => []IInv
  <1>1. Init => IInv
    BY InitInv
  <1>2. IInv /\ [Next]_vars => IInv'
    BY NextInv
  <1> QED
    BY <1>1, <1>2, PTL DEF Spec

\* Types, and neither buffer outgrows its capacity: the type byte, which is pushed
\* without asking for room, always has some.
THEOREM TypeCorrect == Spec => []TypeOK
  <1>1. IInv => TypeOK
    BY DEF IInv, Types
  <1> QED
    BY <1>1, Invariance, PTL

\* The bytes between the two ends are those written and not yet decoded, in order.
THEOREM StreamExact == Spec => []StreamIsExact
  <1>1. ASSUME IInv PROVE StreamIsExact
    <2> DEFINE f == First
               a == AfterPart
               b == AfterBuffer
               d == AfterNet
    <2>1. /\ f \in Nat /\ a \in Nat /\ b \in Nat /\ d \in Nat /\ written \in Nat
          /\ f <= a /\ a <= b /\ b <= d /\ d <= written
      BY <1>1, ReaderPosition, Typed
    <2>2. /\ part = Bytes(f, a) /\ Buffered = Bytes(a, b) /\ net = Bytes(b, d)
          /\ wbuf = Bytes(d, written)
      BY <1>1 DEF IInv, Stream
    <2> HIDE DEF f, a, b, d
    <2>3. f <= b /\ f <= d
      BY <2>1
    <2>4. part \o Buffered = Bytes(f, b)
      BY <2>1, <2>2, BytesJoin
    <2>5. (part \o Buffered) \o net = Bytes(f, d)
      <3>1. Bytes(f, b) \o Bytes(b, d) = Bytes(f, d)
        BY <2>1, <2>3, BytesJoin
      <3> QED  BY <2>2, <2>4, <3>1
    <2>6. ((part \o Buffered) \o net) \o wbuf = Bytes(f, written)
      <3>1. Bytes(f, d) \o Bytes(d, written) = Bytes(f, written)
        BY <2>1, <2>3, BytesJoin
      <3> QED  BY <2>2, <2>5, <3>1
    <2> QED
      BY <2>6 DEF StreamIsExact, f, First
  <1> QED
    BY <1>1, Invariance, PTL

\* The connection implements the FIFO of messages that Session takes it for: a message
\* arrives as it was sent, in its turn, and none is made up of the bytes of others.
THEOREM ImplementsFifo == Spec => FifoSafety
  <1>1. Init => Fifo!Init
    BY DEF Init, Fifo!Init
  <1>2. ASSUME IInv, [Next]_vars
        PROVE  [Fifo!Next]_<<sent, got>>
    <2>1. ASSUME NEW m \in Messages, Send(m) PROVE Fifo!Next
      BY <2>1 DEF Send, rvars, Fifo!Next, Fifo!Send
    <2>2. CASE WriteBuffered \/ WriteLong \/ Flush
      BY <2>2 DEF WriteBuffered, WriteLong, Flush, rvars
    <2>3. CASE Fill \/ Take \/ LongRead \/ LongReceive
      BY <2>3 DEF Fill, Take, LongRead, LongReceive, wvars
    <2>4. CASE Deliver
      <3>1. Fifo!Deliver
        BY <1>2, <2>4, DeliverKeeps DEF Fifo!Deliver
      <3> QED  BY <3>1 DEF Fifo!Next
    <2>5. CASE UNCHANGED vars
      BY <2>5 DEF vars, wvars, rvars
    <2> QED
      BY <1>2, <2>1, <2>2, <2>3, <2>4, <2>5 DEF Next, Writer, Reader
  <1> QED
    BY <1>1, <1>2, Invariance, PTL DEF Spec, FifoSafety, Fifo!Safety
=============================================================================
