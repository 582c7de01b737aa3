----------------------------- MODULE MCSession -----------------------------
(* Model-checking instances of Session. *)
EXTENDS Session, TLC

CONSTANTS a, b  \* the peers of the instances

Around(E, T) == [elsewhere |-> E, ticking |-> T]

\* Both ends have other sessions, one has timers.
MCMesh == {Around({a, b}, {a})}

\* Other sessions at one end and no timers, or timers at both and nobody else.
MCPieces == {Around({a}, {}), Around({}, {a, b})}

\* Other sessions at both ends, no timers.
MCBusy == {Around({a, b}, {})}

\* One end has other sessions and timers.
MCServer == {Around({a}, {a})}

\* For instances in which the two peers differ.
MCPieceSymmetry == Permutations(Pieces)
=============================================================================
