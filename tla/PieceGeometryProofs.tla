------------------------- MODULE PieceGeometryProofs -------------------------
(***************************************************************************)
(* Every byte of the file is in exactly one piece, and no piece is empty,  *)
(* for every file size and piece size.                                     *)
(***************************************************************************)
EXTENDS PieceGeometry, TLAPS

\* What ceilingDiv returns: the least n with n * y >= x.
LEMMA CeilingDivBounds ==
  ASSUME NEW x \in Nat, NEW y \in Nat \ {0}
  PROVE  /\ CeilingDiv(x, y) \in Nat
         /\ x <= CeilingDiv(x, y) * y
         /\ CeilingDiv(x, y) * y < x + y
<1> DEFINE a == x + y - 1
           q == a \div y
<1>1. a \in Nat /\ y \in Nat /\ y > 0
  OBVIOUS
<1>2. a = q * y + (a % y) /\ 0 <= a % y /\ a % y < y /\ q \in Int
  BY <1>1
<1>3. q >= 0
  BY <1>1
<1> QED
  BY <1>1, <1>2, <1>3 DEF CeilingDiv

LEMMA ProductMonotone ==
  ASSUME NEW x \in Int, NEW y \in Int, NEW z \in Nat, x <= y
  PROVE  x * z <= y * z
  OBVIOUS

\* Every piece starts before the end of the file.
LEMMA BeginInFile ==
  ASSUME NEW i \in PieceIds
  PROVE  Begin(i) \in 0..(FileSize - 1)
<1>1. NPieces \in Nat /\ NPieces * PieceSize < FileSize + PieceSize
  BY CeilingDivBounds, GeometryAssumption DEF NPieces
<1>2. i \in Nat /\ i <= NPieces - 1
  BY <1>1 DEF PieceIds
<1>3. i * PieceSize <= (NPieces - 1) * PieceSize
  BY <1>1, <1>2, ProductMonotone, GeometryAssumption
<1>4. (NPieces - 1) * PieceSize = NPieces * PieceSize - PieceSize
  BY <1>1, GeometryAssumption
<1>5. i * PieceSize \in Nat
  BY <1>2, GeometryAssumption
<1>6. NPieces * PieceSize \in Int
  BY <1>1, GeometryAssumption
<1> HIDE DEF NPieces
<1> QED
  BY <1>1, <1>3, <1>4, <1>5, <1>6, GeometryAssumption DEF Begin

\* PieceRepository::get and save handle no empty piece, none larger than the piece
\* size, and none that reaches beyond the end of the file.
THEOREM PieceSizes ==
  \A i \in PieceIds : SizeOf(i) \in 1..PieceSize /\ BytesOf(i) \subseteq 0..(FileSize - 1)
<1> SUFFICES ASSUME NEW i \in PieceIds
             PROVE  SizeOf(i) \in 1..PieceSize /\ BytesOf(i) \subseteq 0..(FileSize - 1)
  OBVIOUS
<1>1. Begin(i) \in 0..(FileSize - 1)
  BY BeginInFile
<1> QED
  BY <1>1, GeometryAssumption DEF SizeOf, BytesOf

\* Every byte of the file belongs to exactly one piece: saving each of the
\* ceilingDiv(file_size, piece_size) pieces once (main.cpp:68) writes the whole file.
THEOREM PiecesPartitionFile ==
  \A b \in 0..(FileSize - 1) :
    \E i \in PieceIds : b \in BytesOf(i) /\ \A j \in PieceIds : b \in BytesOf(j) => j = i
<1> SUFFICES ASSUME NEW b \in 0..(FileSize - 1)
             PROVE  \E i \in PieceIds :
                      b \in BytesOf(i) /\ \A j \in PieceIds : b \in BytesOf(j) => j = i
  OBVIOUS
<1> DEFINE i == b \div PieceSize
<1>1. b \in Nat /\ FileSize \in Nat /\ PieceSize \in Nat /\ PieceSize > 0 /\ b < FileSize
  BY GeometryAssumption
<1>2. i \in Nat /\ i * PieceSize \in Nat /\ i * PieceSize <= b /\ b < i * PieceSize + PieceSize
  BY <1>1
<1>3. NPieces \in Nat /\ FileSize <= NPieces * PieceSize
  BY CeilingDivBounds, GeometryAssumption DEF NPieces
<1> HIDE DEF i
<1>4. i \in PieceIds
  <2>1. SUFFICES ASSUME NPieces <= i PROVE FALSE
    BY <1>2, <1>3 DEF PieceIds
  <2>2. NPieces * PieceSize <= i * PieceSize
    BY <1>1, <1>2, <1>3, <2>1, ProductMonotone
  <2> QED
    BY <1>1, <1>2, <1>3, <2>2
<1>5. b \in BytesOf(i)
  BY <1>1, <1>2 DEF BytesOf, SizeOf, Begin
<1>6. ASSUME NEW j \in PieceIds, b \in BytesOf(j) PROVE j = i
  <2>1. j \in Nat /\ j * PieceSize \in Nat
    BY <1>1, <1>3 DEF PieceIds
  <2>2. j * PieceSize <= b /\ b < j * PieceSize + PieceSize
    BY <1>1, <1>6, <2>1 DEF BytesOf, SizeOf, Begin
  <2>3. ~(j < i)
    <3>1. SUFFICES ASSUME j + 1 <= i PROVE FALSE
      BY <1>2, <2>1
    <3>2. (j + 1) * PieceSize <= i * PieceSize
      BY <1>1, <1>2, <2>1, <3>1, ProductMonotone
    <3>3. (j + 1) * PieceSize = j * PieceSize + PieceSize
      BY <1>1, <2>1
    <3> QED
      BY <1>1, <1>2, <2>1, <2>2, <3>2, <3>3
  <2>4. ~(i < j)
    <3>1. SUFFICES ASSUME i + 1 <= j PROVE FALSE
      BY <1>2, <2>1
    <3>2. (i + 1) * PieceSize <= j * PieceSize
      BY <1>1, <1>2, <2>1, <3>1, ProductMonotone
    <3>3. (i + 1) * PieceSize = i * PieceSize + PieceSize
      BY <1>1, <1>2
    <3> QED
      BY <1>1, <1>2, <2>1, <2>2, <3>2, <3>3
  <2> QED
    BY <1>2, <2>1, <2>3, <2>4
<1> QED
  BY <1>4, <1>5, <1>6
=============================================================================
