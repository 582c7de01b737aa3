-------------------------- MODULE SessionCollection --------------------------
(***************************************************************************)
(* Who may download from ONE peer: the seats that SessionCollection gives  *)
(* to its sessions.  At most NPn sessions are preferred neighbours         *)
(* (pn_set), one is optimistically unchoked (opt).  Seats are given and    *)
(* taken by two timers, and by the control threads when the remote peer    *)
(* gains interest (tryPreempt) or loses it (relinquish).  All of them run  *)
(* under the mutex m, one action each here; what they decide reaches a     *)
(* session as an event in its queue, and they read the session's atomic    *)
(* peer_choke and peer_interest, which lag behind these events.            *)
(*                                                                         *)
(* Of a session only its place in protocol() is kept and what it has told  *)
(* the remote peer last, which is not always what peer_choke says (see     *)
(* Session for the messages).  Byte counts are arbitrary.  pnAlgorithm and optAlgorithm    *)
(* copy the flags of all sessions one after the other; as the flags belong *)
(* to different threads, the copies could also have been made at once.     *)
(***************************************************************************)
EXTENDS Naturals, Sequences, FiniteSets

CONSTANTS Sessions,   \* the sessions that this peer will ever have
          NPn,        \* n_pn, NumberOfPreferredNeighbors
          NoSession,  \* opt is empty
          MaxQueue    \* bound: timer events in a queue when more are decided

ASSUME CollectionAssumption ==
  /\ NoSession \notin Sessions
  /\ IsFiniteSet(Sessions)
  /\ NPn \in Nat
  /\ MaxQueue \in Nat

VARIABLES
  optTicks,      \* never changes: FALSE if the opt interval is longer than the run
  ss,            \* SessionCollection::ss
  stage,         \* where the control thread of each session is
  peerChoke,     \* Session::peer_choke
  peerInterest,  \* Session::peer_interest
  peerTold,      \* the last of ChokeMsg and UnchokeMsg that the session has sent
  timers,        \* the timer events in Session::eq
  pnSet,         \* pn_set
  opt,           \* opt
  gcq,           \* gc_bq
  crashed        \* a destroyed session has been used, with fatal effect

vars == <<optTicks, ss, stage, peerChoke, peerInterest, peerTold, timers, pnSet, opt, gcq,
          crashed>>

flags == <<peerChoke, peerInterest, peerTold>>
seats == <<pnSet, opt>>

Stages == {"none", "setup", "loop", "preempt", "relinquish", "closing", "notify",
           "ended"}
-----------------------------------------------------------------------------
\* is_active is set at the end of setup() and never reset.
Active(s) == stage[s] \notin {"none", "setup"}

\* Session::protocol is in its event loop.  What is enqueued later is discarded
\* unread (Session.cpp:200-216).
InLoop(s) == stage[s] \in {"loop", "preempt", "relinquish"}

\* choke() and unchoke() for every session: msgs[s] are the events for s.
Tell(msgs) ==
  timers' = [s \in Sessions |-> IF InLoop(s) THEN timers[s] \o msgs[s] ELSE timers[s]]

Nothing == [s \in Sessions |-> <<>>]
For(S, event) == [s \in Sessions |-> IF s \in S THEN <<event>> ELSE <<>>]
Then(msgs1, msgs2) == [s \in Sessions |-> msgs1[s] \o msgs2[s]]

\* Timer intervals are seconds and messages take time: decisions are taken while
\* few earlier ones are still in a queue.
ShortQueues == \A s \in Sessions : Len(timers[s]) <= MaxQueue

\* pn_set and opt hold references.  Using one whose session the gc thread has
\* erased is undefined: it may go unnoticed or not.
Use(S) == IF S \subseteq ss THEN UNCHANGED crashed ELSE crashed' \in BOOLEAN

Init ==
  /\ optTicks \in BOOLEAN
  /\ ss = {}
  /\ stage = [s \in Sessions |-> "none"]
  /\ peerChoke = [s \in Sessions |-> "Unknown"]
  /\ peerInterest = [s \in Sessions |-> "Unknown"]
  /\ peerTold = [s \in Sessions |-> "Unknown"]
  /\ timers = [s \in Sessions |-> <<>>]
  /\ pnSet = {}
  /\ opt = NoSession
  /\ gcq = <<>>
  /\ crashed = FALSE
-----------------------------------------------------------------------------
(***************************************************************************)
(* The control thread of session s.                                        *)
(***************************************************************************)
At(s, st) == stage[s] = st /\ ~crashed
Goto(s, st) == stage' = [stage EXCEPT ![s] = st]
Send(s, msg) == peerTold' = [peerTold EXCEPT ![s] = msg]

\* From main or the acceptor thread.
NewSession(s) ==
  /\ At(s, "none")
  /\ ss' = ss \cup {s}
  /\ Goto(s, "setup")
  /\ UNCHANGED <<optTicks, flags, timers, seats, gcq, crashed>>

\* The end of setup(): is_active.
EndSetup(s) ==
  /\ At(s, "setup")
  /\ Goto(s, "loop")
  /\ UNCHANGED <<optTicks, ss, flags, timers, seats, gcq, crashed>>

\* A message goes out only if peer_choke changes.
HandleTimer(s) ==
  /\ At(s, "loop")
  /\ timers[s] # <<>>
  /\ IF peerChoke[s] # Head(timers[s]) THEN Send(s, Head(timers[s])) ELSE UNCHANGED peerTold
  /\ peerChoke' = [peerChoke EXCEPT ![s] = Head(timers[s])]
  /\ timers' = [timers EXCEPT ![s] = Tail(@)]
  /\ UNCHANGED <<optTicks, ss, stage, peerInterest, seats, gcq, crashed>>

HandleInterested(s) ==
  /\ At(s, "loop")
  /\ ShortQueues
  /\ peerInterest' = [peerInterest EXCEPT ![s] = "Interested"]
  /\ Goto(s, "preempt")
  /\ UNCHANGED <<optTicks, ss, peerChoke, peerTold, timers, seats, gcq, crashed>>

\* Mutant: off by one in the test for a free seat.
TryPreempt_OneMore(s) ==
  /\ At(s, "preempt")
  /\ Goto(s, "loop")
  /\ IF s \notin pnSet /\ s # opt /\ Cardinality(pnSet) <= NPn
     THEN pnSet' = pnSet \cup {s} /\ Tell(For({s}, "Unchoked")) /\ UNCHANGED opt
     ELSE UNCHANGED <<seats, timers>>
  /\ UNCHANGED <<optTicks, ss, flags, gcq, crashed>>

\* A session without a seat gets a free one.
TryPreempt(s) ==
  /\ At(s, "preempt")
  /\ Goto(s, "loop")
  /\ IF s \in pnSet \/ s = opt
     THEN UNCHANGED <<seats, timers>>
     ELSE IF Cardinality(pnSet) < NPn
     THEN pnSet' = pnSet \cup {s} /\ Tell(For({s}, "Unchoked")) /\ UNCHANGED opt
     ELSE IF opt = NoSession
     THEN opt' = s /\ Tell(For({s}, "Unchoked")) /\ UNCHANGED pnSet
     ELSE UNCHANGED <<seats, timers>>
  /\ UNCHANGED <<optTicks, ss, flags, gcq, crashed>>

\* A ChokeMsg goes out in reply, after relinquish() if that is called, and leaves
\* peer_choke alone.
HandleNotInterested(s) ==
  /\ At(s, "loop")
  /\ ShortQueues
  /\ peerInterest' = [peerInterest EXCEPT ![s] = "NotInterested"]
  /\ \/ peerChoke[s] = "Unchoked" /\ Goto(s, "relinquish") /\ UNCHANGED peerTold
     \/ peerChoke[s] # "Unchoked" /\ Goto(s, "loop") /\ Send(s, "Choked")
  /\ UNCHANGED <<optTicks, ss, peerChoke, timers, seats, gcq, crashed>>

\* Choked and interested sessions, of which one may get what another one loses.
Eligible == {s \in ss : /\ Active(s)
                        /\ peerChoke[s] = "Choked"
                        /\ peerInterest[s] = "Interested"}

\* Mutant: the opt is promoted to the free seat, whether or not there is one.
GiveUpSeat_Promote(s) ==
  IF s \in pnSet
  THEN /\ pnSet' = (pnSet \ {s}) \cup {opt}
       /\ opt' = NoSession
       /\ Tell(For({s}, "Choked"))
  ELSE UNCHANGED <<seats, timers>>

\* Give up the seat, the one in pn_set first, and unchoke some other session.  The
\* other session gets no seat.
GiveUpSeat(s) ==
  IF s \in pnSet \/ s = opt
  THEN /\ IF s \in pnSet
          THEN pnSet' = pnSet \ {s} /\ UNCHANGED opt
          ELSE opt' = NoSession /\ UNCHANGED pnSet
       /\ \/ Eligible = {} /\ Tell(For({s}, "Choked"))
          \/ \E heir \in Eligible : Tell(Then(For({s}, "Choked"), For({heir}, "Unchoked")))
  ELSE UNCHANGED <<seats, timers>>

Relinquish(s) ==
  /\ At(s, "relinquish")
  /\ GiveUpSeat(s)
  /\ Goto(s, "loop")
  /\ Send(s, "Choked")
  /\ UNCHANGED <<optTicks, ss, peerChoke, peerInterest, gcq, crashed>>

\* Mutant: the session is handed to the gc thread before it relinquishes.
EndLoop_NotifyFirst(s) ==
  /\ At(s, "loop")
  /\ timers' = [timers EXCEPT ![s] = <<>>]
  /\ gcq' = Append(gcq, s)
  /\ Goto(s, "closing")
  /\ UNCHANGED <<optTicks, ss, flags, seats, crashed>>

\* is_done: what is left in the queue is discarded.
EndLoop(s) ==
  /\ At(s, "loop")
  /\ timers' = [timers EXCEPT ![s] = <<>>]
  /\ Goto(s, "closing")
  /\ UNCHANGED <<optTicks, ss, flags, seats, gcq, crashed>>

LastRelinquish(s) ==
  /\ At(s, "closing")
  /\ GiveUpSeat(s)
  /\ Goto(s, "notify")
  /\ UNCHANGED <<optTicks, ss, flags, gcq, crashed>>

NotifyCleanUp(s) ==
  /\ At(s, "notify")
  /\ gcq' = Append(gcq, s)
  /\ Goto(s, "ended")
  /\ UNCHANGED <<optTicks, ss, flags, timers, seats, crashed>>

\* The gc thread destroys the session; the seats are not looked at.
CleanUp ==
  /\ ~crashed
  /\ gcq # <<>>
  /\ ss' = ss \ {Head(gcq)}
  /\ gcq' = Tail(gcq)
  /\ peerChoke' = [peerChoke EXCEPT ![Head(gcq)] = "Unknown"]
  /\ peerInterest' = [peerInterest EXCEPT ![Head(gcq)] = "Unknown"]
  /\ peerTold' = [peerTold EXCEPT ![Head(gcq)] = "Unknown"]
  /\ UNCHANGED <<optTicks, stage, timers, seats, crashed>>
-----------------------------------------------------------------------------
(***************************************************************************)
(* The timers.                                                             *)
(***************************************************************************)

MayTick == ~crashed /\ ShortQueues

\* Mutant: neighbours are chosen by byte count alone.
Rank_NoInterest(s) == IF ~Active(s) THEN 0 ELSE 1

\* The comparison of pnAlgorithm, up to byte counts.
Rank(s) == IF ~Active(s) THEN 0 ELSE IF peerInterest[s] # "Interested" THEN 1 ELSE 2

\* nth_element moves nn_pn sessions to the front that no other session precedes.
Fronts ==
  LET nn == IF NPn < Cardinality(ss) THEN NPn ELSE Cardinality(ss)
  IN  {F \in SUBSET ss : /\ Cardinality(F) = nn
                         /\ \A s \in F, t \in ss \ F : Rank(s) >= Rank(t)}

\* Mutant: the supplanted neighbours are choked last, with the old set.
PnTick_ChokeOld ==
  /\ MayTick
  /\ \E F \in Fronts :
       LET new == {s \in F : Active(s)}
           supplanted == pnSet \ new
       IN  /\ pnSet' = new
           /\ opt' = IF supplanted # {} THEN NoSession ELSE opt
           /\ Tell(Then(For(new, "Unchoked"), For(pnSet, "Choked")))
           /\ Use(supplanted)
  /\ UNCHANGED <<optTicks, ss, stage, flags, gcq>>

PnTick ==
  /\ MayTick
  /\ \E F \in Fronts :
       LET new == {s \in F : Active(s)}
           supplanted == pnSet \ new
       IN  /\ pnSet' = new
           /\ opt' = IF supplanted # {} THEN NoSession ELSE opt
           /\ Tell(Then(For(supplanted, "Choked"), For(new, "Unchoked")))
           /\ Use(supplanted)
  /\ UNCHANGED <<optTicks, ss, stage, flags, gcq>>

OptTick ==
  /\ optTicks
  /\ MayTick
  /\ \E lucky \in Eligible :
       opt' = lucky /\ Tell(Then(For({lucky}, "Unchoked"), For({opt}, "Choked")))
  /\ Use({opt} \ {NoSession})
  /\ UNCHANGED <<optTicks, ss, stage, flags, pnSet, gcq>>
-----------------------------------------------------------------------------
Control(s) ==
  \/ NewSession(s) \/ EndSetup(s)
  \/ HandleTimer(s)
  \/ HandleInterested(s) \/ TryPreempt(s)
  \/ HandleNotInterested(s) \/ Relinquish(s)
  \/ EndLoop(s) \/ LastRelinquish(s) \/ NotifyCleanUp(s)

Next == (\E s \in Sessions : Control(s)) \/ CleanUp \/ PnTick \/ OptTick

Spec == Init /\ [][Next]_vars

(***************************************************************************)
(* The control threads keep running and their queues are FIFO, so messages *)
(* cannot overtake a timer event forever.  The PN timer ticks whatever the *)
(* length of the queues, which only the model bounds.  Nothing is assumed  *)
(* of the OPT timer, of the remote peers or of the end of sessions.        *)
(***************************************************************************)
FairSpec ==
  /\ Spec
  /\ \A s \in Sessions : SF_vars(HandleTimer(s)) /\ WF_vars(TryPreempt(s)) /\ WF_vars(Relinquish(s))
  /\ SF_vars(PnTick)
-----------------------------------------------------------------------------
(***************************************************************************)
(* Properties.                                                             *)
(***************************************************************************)
TypeOK ==
  /\ optTicks \in BOOLEAN
  /\ ss \subseteq Sessions
  /\ stage \in [Sessions -> Stages]
  /\ peerChoke \in [Sessions -> {"Unknown", "Choked", "Unchoked"}]
  /\ peerInterest \in [Sessions -> {"Unknown", "Interested", "NotInterested"}]
  /\ peerTold \in [Sessions -> {"Unknown", "Choked", "Unchoked"}]
  /\ timers \in [Sessions -> Seq({"Choked", "Unchoked"})]
  /\ pnSet \subseteq Sessions
  /\ opt \in Sessions \cup {NoSession}
  /\ gcq \in Seq(Sessions)
  /\ crashed \in BOOLEAN

\* tryPreempt, relinquish and cleanUp find the session they are called for, so the
\* three panics on an unknown session (SessionCollection.cpp:125, 155, 185) are
\* unreachable: a session is erased once, and after its last relinquish().
SessionIsKnown ==
  /\ \A s \in Sessions : stage[s] \notin {"none", "ended"} => s \in ss
  /\ \A k \in DOMAIN gcq : gcq[k] \in ss
  /\ \A k, l \in DOMAIN gcq : gcq[k] = gcq[l] => k = l

\* Timer and preemption together never give out more than NPn seats of preferred
\* neighbours, also while sessions come and go.
PnBounded == Cardinality(pnSet) <= NPn

\* What peer_choke of s will be when the events in its queue are handled.
Decided(s) == IF timers[s] = <<>> THEN peerChoke[s] ELSE timers[s][Len(timers[s])]

\* The last event enqueued for a preferred neighbour is an unchoke.
LastWordIsUnchoke == \A s \in pnSet : InLoop(s) => Decided(s) = "Unchoked"

\* As long as the OPT timer does not interfere, the last event enqueued for a preferred
\* neighbour is an unchoke, whichever thread chose the neighbour and whoever was
\* supplanted.  Whether the remote peer hears of it is another question: see Misjudged.
PnMeansUnchoked == ~optTicks => LastWordIsUnchoke

\* The ChokeMsg of Session.cpp:141 went around peer_choke, and no event is on its way
\* that would set peer_choke right: every TimerUnchoke is now ignored
\* (Session.cpp:106).  ChokeViewsAgree of Session is about how this comes about.
Misjudged(s) ==
  /\ peerChoke[s] = "Unchoked"
  /\ peerTold[s] = "Choked"
  /\ \A k \in DOMAIN timers[s] : timers[s][k] # "Choked"

Contended == Cardinality({s \in ss : Rank(s) = 2}) > NPn

\* While no more peers are interested than there are seats of preferred neighbours,
\* each of them is sent an UnchokeMsg, again and again, unless it is misjudged when it
\* becomes interested: the seats do not stay with peers that are not interested, one
\* that found no free seat or whose peer_choke is unknown gets one, and one that the
\* OPT timer takes for the previous opt and chokes is unchoked again.
Served ==
  \A s \in Sessions :
    InLoop(s) /\ peerInterest[s] = "Interested" /\ ~Contended /\ ~Misjudged(s) ~>
      \/ peerTold[s] = "Unchoked" \/ peerInterest[s] # "Interested" \/ ~InLoop(s)
      \/ Contended \/ crashed

\* SessionCollection.cpp:166: after relinquish() "an PN/OPT successfully
\* relinquished itself".
RelinquishGivesUpSeat ==
  [][\A s \in Sessions : /\ stage[s] \in {"relinquish", "closing"}
                         /\ stage'[s] # stage[s]
                         => s \notin pnSet' /\ s # opt']_vars
=============================================================================
