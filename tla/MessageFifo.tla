---------------------------- MODULE MessageFifo ----------------------------
(***************************************************************************)
(* What one direction of a connection promises to the protocol above it:   *)
(* the messages that one end writes arrive at the other end, each of them  *)
(* once, in order and unchanged.  Session relies on it.                    *)
(***************************************************************************)
EXTENDS Sequences, Naturals

CONSTANT Messages

VARIABLES sent, got

Init == sent = <<>> /\ got = <<>>

Send(m) ==
  /\ sent' = Append(sent, m)
  /\ UNCHANGED got

Deliver ==
  /\ Len(got) < Len(sent)
  /\ got' = Append(got, sent[Len(got) + 1])
  /\ UNCHANGED sent

Next == (\E m \in Messages : Send(m)) \/ Deliver

Safety == Init /\ [][Next]_<<sent, got>>

\* Nothing has to be sent, but what is sent arrives.
Spec == Safety /\ WF_<<sent, got>>(Deliver)
=============================================================================
