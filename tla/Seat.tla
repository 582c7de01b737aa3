-------------------------------- MODULE Seat --------------------------------
(***************************************************************************)
(* What the seat of ONE session goes through: how a SessionCollection may  *)
(* change it in one critical section, and what the session is told, in     *)
(* choke() and unchoke().  This is the promise of the collection to a      *)
(* session: SessionCollection keeps it, and Session allows all of it.      *)
(*                                                                         *)
(* A seat is a record of two Booleans: pn, the session is in pn_set, and   *)
(* opt, it is opt.  Each operator relates the seat before (seat) and after *)
(* (next) to the words told.                                               *)
(***************************************************************************)

Kept(seat, next) == (next.pn <=> seat.pn) /\ (next.opt <=> seat.opt)

\* pnAlgorithm takes the session.  Another one that is supplanted resets opt.
Taken(seat, next, told, others) ==
  /\ next.pn
  /\ (next.opt <=> seat.opt) \/ (others /\ ~next.opt)
  /\ told = <<"Unchoked">>

\* pnAlgorithm takes other sessions.
PassedOver(seat, next, told) ==
  /\ ~next.pn
  /\ next.opt => seat.opt /\ ~seat.pn
  /\ told = IF seat.pn THEN <<"Choked">> ELSE <<>>

\* optAlgorithm takes the session, and chokes it if it is the previous opt.
Lucky(seat, next, told) ==
  /\ next.opt
  /\ next.pn <=> seat.pn
  /\ told = IF seat.opt THEN <<"Unchoked", "Choked">> ELSE <<"Unchoked">>

\* optAlgorithm takes another session and chokes this one, the previous opt.
Unlucky(seat, next, told) ==
  /\ seat.opt /\ ~next.opt
  /\ next.pn <=> seat.pn
  /\ told = <<"Choked">>

\* Another session relinquishes, and this one is unchoked but gets no seat.
Unseated(seat, next, told) == Kept(seat, next) /\ told = <<"Unchoked">>

\* A timer, or another session, decides.  pnAlgorithm only takes a session that is
\* active, the others only one that is also choked and interested (pickable); and
\* without other sessions nobody loses a seat to them.
OthersDecide(seat, next, told, others, active, pickable) ==
  \/ Kept(seat, next) /\ told = <<>>
  \/ active /\ Taken(seat, next, told, others)
  \/ others /\ PassedOver(seat, next, told)
  \/ pickable /\ Lucky(seat, next, told)
  \/ others /\ Unlucky(seat, next, told)
  \/ others /\ pickable /\ Unseated(seat, next, told)

\* tryPreempt: a seat for a session that has none, unless others have them all.
Preempts(seat, next, told, others) ==
  \/ /\ ~seat.pn /\ ~seat.opt
     /\ (next.pn /\ ~next.opt) \/ (others /\ ~next.pn /\ next.opt)
     /\ told = <<"Unchoked">>
  \/ /\ seat.pn \/ seat.opt \/ others
     /\ Kept(seat, next)
     /\ told = <<>>

\* relinquish: one seat is given up, that in pn_set first.
Relinquishes(seat, next, told) ==
  /\ ~next.pn
  /\ next.opt <=> seat.opt /\ seat.pn
  /\ told = IF seat.pn \/ seat.opt THEN <<"Choked">> ELSE <<>>
=============================================================================
