---------------------------- MODULE PieceGeometry ----------------------------
(***************************************************************************)
(* How the file is cut into pieces.  file_size and piece_size are ints     *)
(* that Config has parsed; all products and sums below are made in int64_t *)
(* and do not overflow.                                                    *)
(***************************************************************************)
EXTENDS Integers

CONSTANTS FileSize,  \* Config::file_size, in bytes
          PieceSize  \* Config::piece_size

ASSUME GeometryAssumption == FileSize \in Nat /\ PieceSize \in Nat \ {0}

\* MathUtils::ceilingDiv, with C++ division for non-negative operands.
CeilingDiv(x, y) == (x + y - 1) \div y

NPieces == CeilingDiv(FileSize, PieceSize)
PieceIds == 0..(NPieces - 1)

\* begin and size of PieceRepository::get and save.
Begin(i) == i * PieceSize
SizeOf(i) == IF PieceSize < FileSize - Begin(i) THEN PieceSize ELSE FileSize - Begin(i)

\* The bytes of the file that piece i holds.
BytesOf(i) == Begin(i) .. (Begin(i) + SizeOf(i) - 1)
=============================================================================
