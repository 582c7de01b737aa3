--------------------------- MODULE PieceBitfield ---------------------------
(***************************************************************************)
(* The piece bitfields of piecebitfield/: what a peer holds of the shared  *)
(* file, piece by piece, and the set difference that decides what it may   *)
(* still ask another peer for.                                             *)
(*                                                                         *)
(* A SyncPieceBitfield (the peer's own table) is a function from pieces to *)
(* Status.  A PieceBitfield (what a session knows of its remote peer) only *)
(* ever holds ABSENT and OWNED entries, so it is the set of pieces that    *)
(* the remote peer is known to own.                                        *)
(***************************************************************************)

\* PieceStatus.hpp: enum class PieceStatus
Status == {"ABSENT", "REQUESTED", "OWNED"}

\* The pieces marked OWNED in the table sv.  This is also what
\* SyncPieceBitfield::snapshot() puts on the wire: it sends REQUESTED as ABSENT.
OwnedIn(sv) == {i \in DOMAIN sv : sv[i] = "OWNED"}

\* AbstractPieceBitfield::operator-: *peer_own - self_own, the pieces the
\* remote peer owns and this peer neither owns nor has asked anybody for.
Eligible(peerOwn, sv) == {i \in peerOwn : sv[i] = "ABSENT"}
=============================================================================
