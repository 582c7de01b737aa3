---------------------------- MODULE PieceLedger ----------------------------
(***************************************************************************)
(* What the download machinery of one peer promises, without its locks,    *)
(* messages and tables: a piece is claimed by one session at a time, a     *)
(* claim is never given up, and only the session that holds it turns it    *)
(* into a stored piece, which stays stored.                                *)
(***************************************************************************)
CONSTANTS Sessions, Pieces

VARIABLES claims,  \* the pieces each session is fetching
          stored   \* the pieces this peer has

vars == <<claims, stored>>

Init ==
  /\ claims = [s \in Sessions |-> {}]
  /\ stored = {}

Claim(s, i) ==
  /\ i \notin stored
  /\ \A t \in Sessions : i \notin claims[t]
  /\ claims' = [claims EXCEPT ![s] = @ \cup {i}]
  /\ UNCHANGED stored

Store(s, i) ==
  /\ i \in claims[s]
  /\ claims' = [claims EXCEPT ![s] = @ \ {i}]
  /\ stored' = stored \cup {i}

Next == \E s \in Sessions, i \in Pieces : Claim(s, i) \/ Store(s, i)

Spec == Init /\ [][Next]_vars
=============================================================================
