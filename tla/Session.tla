------------------------------ MODULE Session ------------------------------
(***************************************************************************)
(* One connection: the two Session objects at its ends, from setup() over  *)
(* the event loop of protocol() to the teardown, with                      *)
(*   - the TCP connection as one FIFO of messages per direction,           *)
(*   - the scanner thread of each end, which moves messages into the event *)
(*     queue, where timer and broadcast events mix with them,              *)
(*   - the rest of each peer, as far as this connection can tell: other    *)
(*     sessions that claim, get and announce pieces, and the seat that the *)
(*     SessionCollection has given to this session.                        *)
(*                                                                         *)
(* The control thread reads the piece table several times in one handler   *)
(* while other sessions change it; handlers whose reads can disagree are   *)
(* split between the reads.  Claiming is atomic (see Download), and so are *)
(* snapshot and bcast-readiness (see HaveBroadcast).                       *)
(***************************************************************************)
EXTENDS Naturals, Sequences, FiniteSets, PieceBitfield

CONSTANTS Peers,         \* the two ends of the connection
          Pieces,        \* the pieces of the shared file
          Surroundings,  \* what may surround the connection
          MaxTimerEvents,        \* bound: timer events not yet known to the other end
          SleepCoversBroadcasts  \* TRUE: the sleep(1s) before the teardown is
                                 \* long enough for broadcasts under way

ASSUME SessionAssumption ==
  /\ \E a, b \in Peers : a # b /\ Peers = {a, b}
  /\ Surroundings \subseteq [elsewhere : SUBSET Peers, ticking : SUBSET Peers]
  /\ MaxTimerEvents \in Nat
  /\ SleepCoversBroadcasts \in BOOLEAN

VARIABLES
  around,        \* never changes: the peers that have other sessions besides this
                 \* one (elsewhere), and those whose choking timers tick (ticking)
  own,           \* SyncPieceBitfield of each peer
  asked,         \* the pieces this session has requested from the other end
  unbcast,       \* pieces whose broadcast has not reached this session yet
  net,           \* messages on their way to each end
  eq,            \* Session::eq
  pc,            \* progress of the control thread
  known,         \* Session::peer_own, as the set of pieces
  unchoked,      \* Session::self_choke == Unchoked
  peerChoke,     \* Session::peer_choke
  peerInterest,  \* Session::peer_interest
  inPn,          \* this session is in SessionCollection::pn_set
  isOpt          \* this session is SessionCollection::opt

vars == <<around, own, asked, unbcast, net, eq, pc, known, unchoked, peerChoke,
          peerInterest, inPn, isOpt>>

table == <<own, asked, unbcast>>
flags == <<unchoked, peerChoke, peerInterest>>
seats == <<inPn, isOpt>>

Locations == {"send", "recv", "greet", "greetDone", "loop", "have", "bcast",
              "sleep", "drain", "tdWait", "leave", "ended", "panic"}
-----------------------------------------------------------------------------
Other(p) == CHOOSE q \in Peers : q # p

\* Messages and events without content.
Choke == [type |-> "Choke"]
Unchoke == [type |-> "Unchoke"]
Interested == [type |-> "Interested"]
NotInterested == [type |-> "NotInterested"]
TearDown == [type |-> "TearDown"]
TimerChoke == [type |-> "TimerChoke"]
TimerUnchoke == [type |-> "TimerUnchoke"]
Have(i) == [type |-> "Have", piece |-> i]
Request(i) == [type |-> "Request", piece |-> i]
Piece(i) == [type |-> "Piece", piece |-> i]
BcastHave(i) == [type |-> "BcastHave", piece |-> i]
\* HandshakeMsg and BitfieldMsg, which every session sends first.
Bitfield(P) == [type |-> "Bitfield", owned |-> P]

OwnsAll(p) == OwnedIn(own[p]) = Pieces
KnowsAll(p) == known[p] = Pieces
Done(p) == OwnsAll(p) /\ KnowsAll(p)
Wanted(p) == Eligible(known[p], own[p])

\* is_bcast_ready and is_active become TRUE in setup and stay so.
BcastReady(p) == pc[p] # "send"
Active(p) == pc[p] \notin {"send", "recv", "greet", "greetDone"}

At(p, loc) == pc[p] = loc
Goto(p, loc) == pc' = [pc EXCEPT ![p] = loc]
Send(p, msgs) == net' = [net EXCEPT ![Other(p)] = @ \o msgs]
Enq(p, events) == eq' = [eq EXCEPT ![p] = @ \o events]
Deq(p) == eq' = [eq EXCEPT ![p] = Tail(@)]
DeqEnq(p, events) == eq' = [eq EXCEPT ![p] = Tail(@) \o events]

\* eq.deq() returned an event of this type in the event loop.
Handle(p, type) == At(p, "loop") /\ eq[p] # <<>> /\ Head(eq[p]).type = type

\* A message that is sent on a condition.
If(cond, msg) == IF cond THEN <<msg>> ELSE <<>>
-----------------------------------------------------------------------------
Init ==
  /\ around \in Surroundings
  /\ own \in [Peers -> {[i \in Pieces |-> "ABSENT"], [i \in Pieces |-> "OWNED"]}]
  /\ asked = [p \in Peers |-> {}]
  /\ unbcast = [p \in Peers |-> {}]
  /\ net = [p \in Peers |-> <<>>]
  /\ eq = [p \in Peers |-> <<>>]
  /\ pc = [p \in Peers |-> "send"]
  /\ known = [p \in Peers |-> {}]
  /\ unchoked = [p \in Peers |-> FALSE]
  /\ peerChoke = [p \in Peers |-> "Unknown"]
  /\ peerInterest = [p \in Peers |-> "Unknown"]
  /\ inPn = [p \in Peers |-> FALSE]
  /\ isOpt = [p \in Peers |-> FALSE]
-----------------------------------------------------------------------------
(***************************************************************************)
(* setup()                                                                 *)
(***************************************************************************)

\* Mutant: the bitfield lists the claimed pieces with the owned ones.
SendBitfield_Claimed(p) ==
  /\ At(p, "send")
  /\ Send(p, <<Bitfield({i \in Pieces : own[p][i] # "ABSENT"})>>)
  /\ Goto(p, "recv")
  /\ UNCHANGED <<around, table, eq, known, flags, seats>>

\* Handshake, snapshot and bitfield; from here on broadcasts are queued.
SendBitfield(p) ==
  /\ At(p, "send")
  /\ Send(p, <<Bitfield(OwnedIn(own[p]))>>)
  /\ Goto(p, "recv")
  /\ UNCHANGED <<around, table, eq, known, flags, seats>>

\* That the handshake comes from the expected peer is taken for granted.
ReceiveBitfield(p) ==
  /\ At(p, "recv")
  /\ net[p] # <<>>
  /\ known' = [known EXCEPT ![p] = Head(net[p]).owned]
  /\ net' = [net EXCEPT ![p] = Tail(@)]
  /\ Goto(p, IF OwnsAll(p) /\ known'[p] = Pieces THEN "greetDone" ELSE "greet")
  /\ UNCHANGED <<around, table, eq, flags, seats>>

\* The first statement of interest; the scanner starts, the session is active.
Greet(p) ==
  /\ pc[p] \in {"greet", "greetDone"}
  /\ Send(p, <<IF Wanted(p) = {} THEN NotInterested ELSE Interested>>)
  /\ Goto(p, IF At(p, "greet") THEN "loop" ELSE "sleep")
  /\ UNCHANGED <<around, table, eq, known, flags, seats>>

\* Mutant: the scanner runs while setup still reads from the connection.
Scan_Early(p) ==
  /\ pc[p] \notin {"send", "ended", "panic"}
  /\ net[p] # <<>>
  /\ net' = [net EXCEPT ![p] = Tail(@)]
  /\ Enq(p, <<Head(net[p])>>)
  /\ UNCHANGED <<around, table, pc, known, flags, seats>>

\* AsyncMsgScanner::scanLoop
Scan(p) ==
  /\ Active(p)
  /\ pc[p] \notin {"ended", "panic"}
  /\ net[p] # <<>>
  /\ net' = [net EXCEPT ![p] = Tail(@)]
  /\ Enq(p, <<Head(net[p])>>)
  /\ UNCHANGED <<around, table, pc, known, flags, seats>>
-----------------------------------------------------------------------------
(***************************************************************************)
(* The event loop: choke and interest.                                     *)
(***************************************************************************)

\* Mutant: the ChokeMsg goes out only if the peer is choked already.
HandleTimerChoke_Silent(p) ==
  /\ Handle(p, "TimerChoke")
  /\ peerChoke' = [peerChoke EXCEPT ![p] = "Choked"]
  /\ Send(p, If(peerChoke[p] = "Choked", Choke))
  /\ Deq(p)
  /\ UNCHANGED <<around, table, pc, known, unchoked, peerInterest, seats>>

HandleTimerChoke(p) ==
  /\ Handle(p, "TimerChoke")
  /\ peerChoke' = [peerChoke EXCEPT ![p] = "Choked"]
  /\ Send(p, If(peerChoke[p] # "Choked", Choke))
  /\ Deq(p)
  /\ UNCHANGED <<around, table, pc, known, unchoked, peerInterest, seats>>

HandleTimerUnchoke(p) ==
  /\ Handle(p, "TimerUnchoke")
  /\ peerChoke' = [peerChoke EXCEPT ![p] = "Unchoked"]
  /\ Send(p, If(peerChoke[p] # "Unchoked", Unchoke))
  /\ Deq(p)
  /\ UNCHANGED <<around, table, pc, known, unchoked, peerInterest, seats>>

HandleChoke(p) ==
  /\ Handle(p, "Choke")
  /\ unchoked' = [unchoked EXCEPT ![p] = FALSE]
  /\ Deq(p)
  /\ UNCHANGED <<around, table, net, pc, known, peerChoke, peerInterest, seats>>

\* requestNextIfPossible, on the table as it is after the handler's changes.
RequestNext(p, tab) ==
  LET eligible == Eligible(known[p], tab)
  IN  \/ /\ eligible = {}
         /\ own' = [own EXCEPT ![p] = tab]
         /\ UNCHANGED <<asked, net>>
      \/ \E i \in eligible :
           /\ own' = [own EXCEPT ![p] = [tab EXCEPT ![i] = "REQUESTED"]]
           /\ asked' = [asked EXCEPT ![p] = @ \cup {i}]
           /\ Send(p, <<Request(i)>>)

HandleUnchoke(p) ==
  /\ Handle(p, "Unchoke")
  /\ unchoked' = [unchoked EXCEPT ![p] = TRUE]
  /\ RequestNext(p, own[p])
  /\ Deq(p)
  /\ UNCHANGED <<around, unbcast, pc, known, peerChoke, peerInterest, seats>>

\* tryPreempt: a session without a seat gets a free one.  Other sessions of this
\* peer may occupy the seats.
HandleInterested(p) ==
  /\ Handle(p, "Interested")
  /\ peerInterest' = [peerInterest EXCEPT ![p] = "Interested"]
  /\ \/ /\ ~inPn[p] /\ ~isOpt[p]
        /\ \/ inPn' = [inPn EXCEPT ![p] = TRUE] /\ UNCHANGED isOpt
           \/ p \in around.elsewhere /\ isOpt' = [isOpt EXCEPT ![p] = TRUE] /\ UNCHANGED inPn
        /\ DeqEnq(p, <<TimerUnchoke>>)
     \/ /\ inPn[p] \/ isOpt[p] \/ p \in around.elsewhere
        /\ Deq(p)
        /\ UNCHANGED seats
  /\ UNCHANGED <<around, table, net, pc, known, unchoked, peerChoke>>

\* relinquish: the seat, if there is one, is given back.  pn_set comes first.
LeaveSeat(p) ==
  /\ inPn' = [inPn EXCEPT ![p] = FALSE]
  /\ isOpt' = [isOpt EXCEPT ![p] = @ /\ inPn[p]]
HasSeat(p) == inPn[p] \/ isOpt[p]

HandleNotInterested(p) ==
  /\ Handle(p, "NotInterested")
  /\ peerInterest' = [peerInterest EXCEPT ![p] = "NotInterested"]
  /\ IF peerChoke[p] = "Unchoked"
     THEN LeaveSeat(p) /\ DeqEnq(p, If(HasSeat(p), TimerChoke))
     ELSE Deq(p) /\ UNCHANGED seats
  /\ Send(p, <<Choke>>)
  /\ UNCHANGED <<around, table, pc, known, unchoked, peerChoke>>
-----------------------------------------------------------------------------
(***************************************************************************)
(* The event loop: pieces.                                                 *)
(***************************************************************************)

\* Mutant: the session is over once the other end owns everything.
HandleHave_NoOwnCheck(p) ==
  /\ Handle(p, "Have")
  /\ known' = [known EXCEPT ![p] = @ \cup {Head(eq[p]).piece}]
  /\ Goto(p, IF known'[p] = Pieces THEN "sleep" ELSE "have")
  /\ Deq(p)
  /\ UNCHANGED <<around, table, net, flags, seats>>

\* First half of case MsgHave, up to the test for the end of the session.
HandleHave(p) ==
  /\ Handle(p, "Have")
  /\ known' = [known EXCEPT ![p] = @ \cup {Head(eq[p]).piece}]
  /\ Goto(p, IF OwnsAll(p) /\ known'[p] = Pieces THEN "sleep" ELSE "have")
  /\ Deq(p)
  /\ UNCHANGED <<around, table, net, flags, seats>>

\* Second half: a new look at the table decides about interest.
ReplyToHave(p) ==
  /\ At(p, "have")
  /\ Send(p, If(Wanted(p) # {}, Interested))
  /\ Goto(p, "loop")
  /\ UNCHANGED <<around, table, eq, known, flags, seats>>

\* handleBcast: HAVE, and NotInterested if nothing is wanted any more.
HaveMsgs(p, i) == <<Have(i)>> \o If(Wanted(p) = {}, NotInterested)

HandleBcast(p) ==
  /\ Handle(p, "BcastHave")
  /\ Send(p, HaveMsgs(p, Head(eq[p]).piece))
  /\ Goto(p, "bcast")
  /\ Deq(p)
  /\ UNCHANGED <<around, table, known, flags, seats>>

\* Second half of case BcastHave: the test for the end of the session.
CheckDone(p) ==
  /\ At(p, "bcast")
  /\ Goto(p, IF Done(p) THEN "sleep" ELSE "loop")
  /\ UNCHANGED <<around, table, net, eq, known, flags, seats>>

HandleRequest(p) ==
  /\ Handle(p, "Request")
  /\ LET i == Head(eq[p]).piece
     IN  IF own[p][i] = "OWNED"
         THEN Send(p, <<Piece(i)>>) /\ UNCHANGED pc
         ELSE Goto(p, "panic") /\ UNCHANGED net
  /\ Deq(p)
  /\ UNCHANGED <<around, table, known, flags, seats>>

\* Mutant: one REQUEST per unchoke, a PIECE is not followed by the next one.
HandlePiece_NoNext(p) ==
  /\ Handle(p, "Piece")
  /\ LET i == Head(eq[p]).piece
         tab == [own[p] EXCEPT ![i] = "OWNED"]
     IN  IF own[p][i] # "REQUESTED"
         THEN Goto(p, "panic") /\ Deq(p) /\ UNCHANGED <<own, asked, net>>
         ELSE /\ DeqEnq(p, <<BcastHave(i)>>)
              /\ own' = [own EXCEPT ![p] = tab]
              /\ UNCHANGED <<asked, net, pc>>
  /\ UNCHANGED <<around, unbcast, known, flags, seats>>

\* The piece is stored and owned, the broadcast reaches this session's own queue,
\* and an unchoked session asks for the next piece.
HandlePiece(p) ==
  /\ Handle(p, "Piece")
  /\ LET i == Head(eq[p]).piece
         tab == [own[p] EXCEPT ![i] = "OWNED"]
     IN  IF own[p][i] # "REQUESTED"
         THEN Goto(p, "panic") /\ Deq(p) /\ UNCHANGED <<own, asked, net>>
         ELSE /\ DeqEnq(p, <<BcastHave(i)>>)
              /\ IF unchoked[p]
                 THEN RequestNext(p, tab)
                 ELSE own' = [own EXCEPT ![p] = tab] /\ UNCHANGED <<asked, net>>
              /\ UNCHANGED pc
  /\ UNCHANGED <<around, unbcast, known, flags, seats>>

\* "premature teardown received"
HandleTearDown(p) ==
  /\ Handle(p, "TearDown")
  /\ Goto(p, "panic")
  /\ Deq(p)
  /\ UNCHANGED <<around, table, net, known, flags, seats>>
-----------------------------------------------------------------------------
(***************************************************************************)
(* The end of the session: sleep(1s), drain the queue, exchange TearDown.  *)
(***************************************************************************)

\* Mutant: no sleep before the teardown.
Wake_AtOnce(p) ==
  /\ At(p, "sleep")
  /\ Goto(p, "drain")
  /\ UNCHANGED <<around, table, net, eq, known, flags, seats>>

\* "wait potentially unfinished broadcast from other control thread"
Wake(p) ==
  /\ At(p, "sleep")
  /\ SleepCoversBroadcasts => unbcast[p] = {}
  /\ Goto(p, "drain")
  /\ UNCHANGED <<around, table, net, eq, known, flags, seats>>

Draining(p, type) == At(p, "drain") /\ eq[p] # <<>> /\ Head(eq[p]).type = type

\* Mutant: the drain drops broadcasts like any other event.
DrainBcast_Drop(p) ==
  /\ Draining(p, "BcastHave")
  /\ Deq(p)
  /\ UNCHANGED <<around, table, net, pc, known, flags, seats>>

DrainBcast(p) ==
  /\ Draining(p, "BcastHave")
  /\ Send(p, HaveMsgs(p, Head(eq[p]).piece))
  /\ Deq(p)
  /\ UNCHANGED <<around, table, pc, known, flags, seats>>

\* Mutant: whoever receives TearDown first does not answer it.
DrainTearDown_NoAnswer(p) ==
  /\ Draining(p, "TearDown")
  /\ Deq(p)
  /\ Goto(p, "leave")
  /\ UNCHANGED <<around, table, net, known, flags, seats>>

\* The other end's TearDown ends the drain, and is answered.
DrainTearDown(p) ==
  /\ Draining(p, "TearDown")
  /\ Send(p, <<TearDown>>)
  /\ Deq(p)
  /\ Goto(p, "leave")
  /\ UNCHANGED <<around, table, known, flags, seats>>

DrainOther(p) ==
  /\ At(p, "drain")
  /\ eq[p] # <<>>
  /\ Head(eq[p]).type \notin {"BcastHave", "TearDown"}
  /\ Deq(p)
  /\ UNCHANGED <<around, table, net, pc, known, flags, seats>>

\* Mutant: the sender of TearDown closes the connection without waiting.
SendTearDown_NoWait(p) ==
  /\ At(p, "drain")
  /\ eq[p] = <<>>
  /\ Send(p, <<TearDown>>)
  /\ Goto(p, "leave")
  /\ UNCHANGED <<around, table, eq, known, flags, seats>>

\* The queue is empty: TearDown goes out first.
SendTearDown(p) ==
  /\ At(p, "drain")
  /\ eq[p] = <<>>
  /\ Send(p, <<TearDown>>)
  /\ Goto(p, "tdWait")
  /\ UNCHANGED <<around, table, eq, known, flags, seats>>

\* "ignoring all non-teardown msg"
AwaitTearDown(p) ==
  /\ At(p, "tdWait")
  /\ eq[p] # <<>>
  /\ IF Head(eq[p]).type = "TearDown" THEN Goto(p, "leave") ELSE UNCHANGED pc
  /\ Deq(p)
  /\ UNCHANGED <<around, table, net, known, flags, seats>>

\* relinquish, stop the scanner, hand the session to the gc thread, which closes
\* the connection.
Leave(p) ==
  /\ At(p, "leave")
  /\ LeaveSeat(p)
  /\ Enq(p, If(HasSeat(p), TimerChoke))
  /\ Goto(p, "ended")
  /\ UNCHANGED <<around, table, net, known, flags>>
-----------------------------------------------------------------------------
(***************************************************************************)
(* The rest of the peer.                                                   *)
(***************************************************************************)

\* Decisions about the other end that it has not heard of yet.
TimerEvents(p) ==
  LET OfType(queue, types) == Cardinality({k \in DOMAIN queue : queue[k].type \in types})
  IN  OfType(eq[p], {"TimerChoke", "TimerUnchoke"})
        + OfType(net[Other(p)] \o eq[Other(p)], {"Choke", "Unchoke"})

\* Timer intervals are long compared to the handling of an event, and an ended
\* session soon leaves the collection.
TimerMayTick(p) ==
  /\ p \in around.ticking
  /\ TimerEvents(p) < MaxTimerEvents
  /\ pc[p] \notin {"ended", "panic"}

\* choke() and unchoke() of a session that is not active yet do nothing.
Tell(p, events) == Enq(p, IF Active(p) THEN events ELSE <<>>)

\* pnAlgorithm picks this session.  It need not be interested; a session alone in
\* its collection is always picked.  A supplanted neighbour, this one or another,
\* resets opt.
PnSelect(p) ==
  /\ TimerMayTick(p)
  /\ Active(p)
  /\ inPn' = [inPn EXCEPT ![p] = TRUE]
  /\ \/ UNCHANGED isOpt
     \/ p \in around.elsewhere /\ isOpt' = [isOpt EXCEPT ![p] = FALSE]
  /\ Tell(p, <<TimerUnchoke>>)
  /\ UNCHANGED <<around, table, net, pc, known, flags>>

\* pnAlgorithm picks others.
PnPass(p) ==
  /\ TimerMayTick(p)
  /\ p \in around.elsewhere
  /\ inPn' = [inPn EXCEPT ![p] = FALSE]
  /\ IF inPn[p]
     THEN isOpt' = [isOpt EXCEPT ![p] = FALSE]
     ELSE \/ UNCHANGED isOpt
          \/ isOpt' = [isOpt EXCEPT ![p] = FALSE]
  /\ Tell(p, If(inPn[p], TimerChoke))
  /\ UNCHANGED <<around, table, net, pc, known, flags>>

\* optAlgorithm and relinquish only pick sessions that are choked and interested.
Pickable(p) == Active(p) /\ peerChoke[p] = "Choked" /\ peerInterest[p] = "Interested"

\* optAlgorithm picks this session; if it was the previous opt it is also choked.
OptSelect(p) ==
  /\ TimerMayTick(p)
  /\ Pickable(p)
  /\ isOpt' = [isOpt EXCEPT ![p] = TRUE]
  /\ Tell(p, <<TimerUnchoke>> \o If(isOpt[p], TimerChoke))
  /\ UNCHANGED <<around, table, net, pc, known, flags, inPn>>

\* optAlgorithm picks another session and chokes this one, the previous opt.
OptPass(p) ==
  /\ TimerMayTick(p)
  /\ p \in around.elsewhere
  /\ isOpt[p]
  /\ isOpt' = [isOpt EXCEPT ![p] = FALSE]
  /\ Tell(p, <<TimerChoke>>)
  /\ UNCHANGED <<around, table, net, pc, known, flags, inPn>>

\* Another session relinquishes its seat and this one is unchoked for it.
Inherit(p) ==
  /\ TimerMayTick(p)
  /\ p \in around.elsewhere
  /\ Pickable(p)
  /\ Tell(p, <<TimerUnchoke>>)
  /\ UNCHANGED <<around, table, net, pc, known, flags, seats>>

\* Another session of the peer claims a piece, ...
ElseClaim(p, i) ==
  /\ p \in around.elsewhere
  /\ own[p][i] = "ABSENT"
  /\ own' = [own EXCEPT ![p][i] = "REQUESTED"]
  /\ UNCHANGED <<around, asked, unbcast, net, eq, pc, known, flags, seats>>

\* ... gets it, ...
ElseOwn(p, i) ==
  /\ p \in around.elsewhere
  /\ own[p][i] = "REQUESTED"
  /\ i \notin asked[p]
  /\ own' = [own EXCEPT ![p][i] = "OWNED"]
  /\ unbcast' = [unbcast EXCEPT ![p] = @ \cup {i}]
  /\ UNCHANGED <<around, asked, net, eq, pc, known, flags, seats>>

\* ... and its broadcast reaches this session, if it is ready for it.
ElseBcast(p, i) ==
  /\ i \in unbcast[p]
  /\ unbcast' = [unbcast EXCEPT ![p] = @ \ {i}]
  /\ Enq(p, IF BcastReady(p) THEN <<BcastHave(i)>> ELSE <<>>)
  /\ UNCHANGED <<around, own, asked, net, pc, known, flags, seats>>
-----------------------------------------------------------------------------
Setup(p) == SendBitfield(p) \/ ReceiveBitfield(p) \/ Greet(p)

EventLoop(p) ==
  \/ HandleTimerChoke(p) \/ HandleTimerUnchoke(p)
  \/ HandleChoke(p) \/ HandleUnchoke(p) \/ HandleInterested(p) \/ HandleNotInterested(p)
  \/ HandleHave(p) \/ ReplyToHave(p) \/ HandleBcast(p) \/ CheckDone(p)
  \/ HandleRequest(p) \/ HandlePiece(p) \/ HandleTearDown(p)

Ending(p) ==
  \/ Wake(p) \/ DrainBcast(p) \/ DrainTearDown(p) \/ DrainOther(p) \/ SendTearDown(p)
  \/ AwaitTearDown(p) \/ Leave(p)

Control(p) == Setup(p) \/ EventLoop(p) \/ Ending(p)

Seats(p) == PnSelect(p) \/ PnPass(p) \/ OptSelect(p) \/ OptPass(p) \/ Inherit(p)

Others(p) == \E i \in Pieces : ElseClaim(p, i) \/ ElseOwn(p, i) \/ ElseBcast(p, i)

Next == \E p \in Peers : Control(p) \/ Scan(p) \/ Seats(p) \/ Others(p)

Spec == Init /\ [][Next]_vars

(***************************************************************************)
(* Both threads of a session run whenever they can, TCP delivers, and a    *)
(* broadcast under way in another control thread comes to its end          *)
(* (EveryPieceAnnounced of HaveBroadcast).  The timers tick every few      *)
(* seconds, so a drain finds the queue empty between two ticks.  Nothing   *)
(* is assumed about ticks or about what other sessions download.           *)
(***************************************************************************)
FairSpec ==
  /\ Spec
  /\ \A p \in Peers :
       /\ WF_vars(Control(p)) /\ WF_vars(Scan(p)) /\ SF_vars(SendTearDown(p))
       /\ WF_vars(\E i \in Pieces : ElseBcast(p, i))
-----------------------------------------------------------------------------
(***************************************************************************)
(* Properties.                                                             *)
(***************************************************************************)
Messages ==
  {Choke, Unchoke, Interested, NotInterested, TearDown}
    \cup {Have(i) : i \in Pieces} \cup {Request(i) : i \in Pieces}
    \cup {Piece(i) : i \in Pieces} \cup {Bitfield(P) : P \in SUBSET Pieces}

Events ==
  (Messages \ {Bitfield(P) : P \in SUBSET Pieces}) \cup {TimerChoke, TimerUnchoke}
    \cup {BcastHave(i) : i \in Pieces}

\* In particular the scanner never sees a second bitfield (AsyncMsgScanner.cpp:42).
TypeOK ==
  /\ around \in Surroundings
  /\ own \in [Peers -> [Pieces -> Status]]
  /\ asked \in [Peers -> SUBSET Pieces]
  /\ unbcast \in [Peers -> SUBSET Pieces]
  /\ net \in [Peers -> Seq(Messages)]
  /\ eq \in [Peers -> Seq(Events)]
  /\ pc \in [Peers -> Locations]
  /\ known \in [Peers -> SUBSET Pieces]
  /\ unchoked \in [Peers -> BOOLEAN]
  /\ peerChoke \in [Peers -> {"Unknown", "Choked", "Unchoked"}]
  /\ peerInterest \in [Peers -> {"Unknown", "Interested", "NotInterested"}]
  /\ inPn \in [Peers -> BOOLEAN]
  /\ isOpt \in [Peers -> BOOLEAN]

\* Everything on its way to p: on the wire or in p's queue.
Inbox(p) == {net[p][k] : k \in DOMAIN net[p]} \cup {eq[p][k] : k \in DOMAIN eq[p]}

\* None of the panics of the event loop is reachable: no REQUEST for a piece that
\* is not owned, no PIECE that was not requested, no premature TearDown
\* (Session.cpp:165, 175, 189).
NoPanic == \A p \in Peers : pc[p] # "panic"

\* "premature teardown received" (Session.cpp:189): no event loop dequeues TearDown.
NoPrematureTearDown == \A p \in Peers : ~Handle(p, "TearDown")

\* What a session believes of the other end is true, so it only asks for what the
\* other end can deliver; what the other end owns beyond that is on its way:
\* still to be broadcast, queued there, or sent.
ViewOfOwned ==
  \A p \in Peers :
    LET q == Other(p)
    IN  /\ known[p] \subseteq OwnedIn(own[q])
        /\ pc[p] \notin {"send", "recv"} /\ pc[q] # "ended" =>
             \A i \in OwnedIn(own[q]) \ known[p] :
               i \in unbcast[q] \/ BcastHave(i) \in Inbox(q) \/ Have(i) \in Inbox(p)

\* A session that is over has nothing to give and nothing to get: both ends own
\* everything and no REQUEST or PIECE is under way, so that ignoring messages from
\* there on (Session.cpp:212) discards nothing that matters.
OverMeansComplete ==
  \A p \in Peers :
    pc[p] \in {"greetDone", "sleep", "drain", "tdWait", "leave", "ended"} =>
      /\ OwnsAll(p) /\ OwnsAll(Other(p))
      /\ \A i \in Pieces : {Request(i), Piece(i)} \cap (Inbox(p) \cup Inbox(Other(p))) = {}

\* When a session is destroyed and its connection closed, nothing is left to read
\* from it and the other end will not write to it again: no ECONNRESET, no SIGPIPE
\* (Connection.hpp:41 and :57 panic on either).
CleanClose ==
  \A p \in Peers :
    pc[p] = "ended" => net[p] = <<>> /\ pc[Other(p)] \in {"tdWait", "leave", "ended"}

\* A REQUEST is out exactly for the pieces this session has claimed and not yet
\* got: the claim, which nothing ever revokes, is always backed by a message.
ClaimsAreBacked ==
  \A p \in Peers : \A i \in asked[p] :
    own[p][i] = "REQUESTED" => (Request(i) \in Inbox(Other(p))) # (Piece(i) \in Inbox(p))

\* Session.hpp:53-57: self_choke is "whether self is choked by peer", peer_choke is
\* "whether peer is choked by self"; with no choke message under way and no timer
\* event to be handled they agree.
ChokeViewsAgree ==
  \A p \in Peers :
    LET q == Other(p)
    IN  /\ pc[p] = "loop" /\ pc[q] = "loop"
        /\ {Choke, Unchoke} \cap Inbox(p) = {}
        /\ {TimerChoke, TimerUnchoke} \cap Inbox(q) = {}
        => (unchoked[p] <=> peerChoke[q] = "Unchoked")

\* A session only panics when the other end is past its sleep: the one panic that a
\* broadcast later than the sleep can cause is that on TearDown (Session.cpp:189),
\* never that on a REQUEST or PIECE (Session.cpp:165, 175).
PanicOnlyOnTearDown ==
  \A p \in Peers : pc[p] = "panic" => pc[Other(p)] \in {"tdWait", "leave", "ended"}

\* A session in its event loop that believes itself unchoked is unchoked in the
\* other end's books, or a CHOKE is on its way to it.  Otherwise it would go on
\* downloading from a peer that has preferred others, as REQUESTs are answered whatever
\* peer_choke says (Session.cpp:162-171).  The converse is ChokeViewsAgree, which the
\* code does not keep.
NeverUnchokedUnawares ==
  \A p \in Peers :
    LET q == Other(p)
    IN  unchoked[p] /\ pc[p] \in {"loop", "have", "bcast"} =>
          peerChoke[q] = "Unchoked" \/ Choke \in Inbox(p)

\* Two complete peers end their session, whatever was under way when they became
\* complete; and with a seed at one end and nobody else around, the other end gets
\* every piece, through any choking, and both sessions end.
SessionEnds ==
  (\/ \A p \in Peers : OwnsAll(p)
   \/ around.elsewhere = {} /\ \E p \in Peers : OwnsAll(p))
  ~> \A p \in Peers : pc[p] = "ended"
=============================================================================
