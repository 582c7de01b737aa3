------------------------------ MODULE Download ------------------------------
(***************************************************************************)
(* How the session threads of ONE peer share its piece table while they    *)
(* download: Session::requestNextIfPossible, the MsgChoke, MsgUnchoke,     *)
(* MsgHave and MsgPiece cases of Session::protocol, PieceRepository::save  *)
(* and the locking inside SyncPieceBitfield.                               *)
(*                                                                         *)
(* Every access to memory shared between sessions is a step of its own:    *)
(*   mReq  the function-local mutex m_req of requestNextIfPossible, shared *)
(*         by all sessions                                                 *)
(*   mSv   the mutex m inside SyncPieceBitfield; the lock-free readers of  *)
(*         n_owned (owningAll, numOwned) do not take it                    *)
(*                                                                         *)
(* The peer starts without the file (has_file = 0 in PeerInfo.cfg): a peer *)
(* that has it never claims a piece.  What the remote peers send is        *)
(* nondeterministic, except that a PIECE answers a REQUEST.  The broadcast *)
(* that follows a download is modelled in HaveBroadcast.                   *)
(***************************************************************************)
EXTENDS Integers, FiniteSets, PieceBitfield

CONSTANTS Sessions,   \* the sessions (control threads) of this peer
          Pieces,     \* the pieces of the shared file
          NoSession   \* a mutex that nobody holds

ASSUME DownloadAssumption ==
  /\ IsFiniteSet(Pieces)
  /\ NoSession \notin Sessions

VARIABLES
  sv,          \* SyncPieceBitfield::sv, the peer's piece table
  nOwned,      \* SyncPieceBitfield::n_owned, an atomic counter beside it
  mSv,         \* holder of SyncPieceBitfield::m
  mReq,        \* holder of m_req
  pc,          \* where each session thread is
  peerOwn,     \* Session::peer_own, what each remote peer is known to own
  unchoked,    \* Session::self_choke == Unchoked
  candidates,  \* eligible_indexes, the local result of the scan under m_req
  asked,       \* pieces each session has sent a REQUEST for, still unanswered
  current,     \* the piece carried by the PIECE message being handled
  saved,       \* pieces whose bytes PieceRepository::save has written
  logged,      \* per piece, the number printed by Logger::pieceDownloaded, or 0
  fileLogged   \* how often Logger::fileDownloaded was called

vars == <<sv, nOwned, mSv, mReq, pc, peerOwn, unchoked, candidates, asked,
          current, saved, logged, fileLogged>>

locks == <<mSv, mReq>>
table == <<sv, nOwned>>
store == <<saved, logged, fileLogged>>

Locations == {"loop", "request", "scan", "mark", "save", "log", "own",
              "publish", "done", "panic"}

N == Cardinality(Pieces)

Init ==
  /\ sv = [i \in Pieces |-> "ABSENT"]
  /\ nOwned = 0
  /\ mSv = NoSession
  /\ mReq = NoSession
  /\ pc = [s \in Sessions |-> "loop"]
  /\ peerOwn \in [Sessions -> SUBSET Pieces]
  /\ unchoked = [s \in Sessions |-> FALSE]
  /\ candidates = [s \in Sessions |-> {}]
  /\ asked = [s \in Sessions |-> {}]
  /\ current \in [Sessions -> Pieces]
  /\ saved = {}
  /\ logged = [i \in Pieces |-> 0]
  /\ fileLogged = 0
-----------------------------------------------------------------------------
\* Control flow of one session thread.
At(s, loc) == pc[s] = loc
Goto(s, loc) == pc' = [pc EXCEPT ![s] = loc]

\* SyncPieceBitfield::owningAll reads n_owned without the mutex.
OwningAll == nOwned = N
-----------------------------------------------------------------------------
(***************************************************************************)
(* Messages that only touch the session's own state.                       *)
(***************************************************************************)

HandleChoke(s) ==
  /\ At(s, "loop")
  /\ unchoked' = [unchoked EXCEPT ![s] = FALSE]
  /\ UNCHANGED <<table, locks, store, pc, peerOwn, candidates, asked, current>>

HandleUnchoke(s) ==
  /\ At(s, "loop")
  /\ unchoked' = [unchoked EXCEPT ![s] = TRUE]
  /\ Goto(s, "request")
  /\ UNCHANGED <<table, locks, store, peerOwn, candidates, asked, current>>

\* A HAVE for piece i.  The session is over once both peers own everything.
HandleHave(s, i) ==
  /\ At(s, "loop")
  /\ peerOwn' = [peerOwn EXCEPT ![s] = @ \cup {i}]
  /\ IF OwningAll /\ peerOwn'[s] = Pieces THEN Goto(s, "done") ELSE UNCHANGED pc
  /\ UNCHANGED <<table, locks, store, unchoked, candidates, asked, current>>
-----------------------------------------------------------------------------
(***************************************************************************)
(* requestNextIfPossible: scan and mark under m_req.                       *)
(***************************************************************************)

\* Mutant: the scan starts although another session is inside m_req.
LockReq_NoMutex(s) ==
  /\ At(s, "request")
  /\ mReq' = s
  /\ Goto(s, "scan")
  /\ UNCHANGED <<table, mSv, store, peerOwn, unchoked, candidates, asked, current>>

LockReq(s) ==
  /\ At(s, "request")
  /\ mReq = NoSession
  /\ mReq' = s
  /\ Goto(s, "scan")
  /\ UNCHANGED <<table, mSv, store, peerOwn, unchoked, candidates, asked, current>>

\* Mutant: m_req is released as soon as the eligible indexes are known.
Scan_EarlyUnlock(s) ==
  /\ At(s, "scan")
  /\ mSv = NoSession
  /\ candidates' = [candidates EXCEPT ![s] = Eligible(peerOwn[s], sv)]
  /\ mReq' = NoSession
  /\ Goto(s, IF candidates'[s] = {} THEN "loop" ELSE "mark")
  /\ UNCHANGED <<table, mSv, store, peerOwn, unchoked, asked, current>>

\* Mutant: m_req stays locked when nothing is eligible.
Scan_LockLeak(s) ==
  /\ At(s, "scan")
  /\ mSv = NoSession
  /\ candidates' = [candidates EXCEPT ![s] = Eligible(peerOwn[s], sv)]
  /\ Goto(s, IF candidates'[s] = {} THEN "loop" ELSE "mark")
  /\ UNCHANGED <<table, locks, store, peerOwn, unchoked, asked, current>>

\* *peer_own - self_own; with nothing eligible the unchoke is ignored.
Scan(s) ==
  /\ At(s, "scan")
  /\ mSv = NoSession
  /\ candidates' = [candidates EXCEPT ![s] = Eligible(peerOwn[s], sv)]
  /\ IF candidates'[s] = {}
     THEN mReq' = NoSession /\ Goto(s, "loop")
     ELSE UNCHANGED mReq /\ Goto(s, "mark")
  /\ UNCHANGED <<table, mSv, store, peerOwn, unchoked, asked, current>>

\* A random candidate is marked REQUESTED, m_req is released and the REQUEST
\* leaves for the remote peer.
Mark(s) ==
  /\ At(s, "mark")
  /\ mSv = NoSession
  /\ \E i \in candidates[s] :
       /\ sv' = [sv EXCEPT ![i] = "REQUESTED"]
       /\ asked' = [asked EXCEPT ![s] = @ \cup {i}]
  /\ candidates' = [candidates EXCEPT ![s] = {}]
  /\ mReq' = NoSession
  /\ Goto(s, "loop")
  /\ UNCHANGED <<nOwned, mSv, store, peerOwn, unchoked, current>>
-----------------------------------------------------------------------------
(***************************************************************************)
(* A PIECE message: check, save, log, then setOwned under the table mutex. *)
(***************************************************************************)

\* Mutant: the bytes are never handed to the repository.
HandlePiece_Unsaved(s, i) ==
  /\ At(s, "loop")
  /\ i \in asked[s]
  /\ mSv = NoSession
  /\ asked' = [asked EXCEPT ![s] = @ \ {i}]
  /\ current' = [current EXCEPT ![s] = i]
  /\ Goto(s, IF sv[i] = "REQUESTED" THEN "log" ELSE "panic")
  /\ UNCHANGED <<table, locks, store, peerOwn, unchoked, candidates>>

HandlePiece(s, i) ==
  /\ At(s, "loop")
  /\ i \in asked[s]
  /\ mSv = NoSession
  /\ asked' = [asked EXCEPT ![s] = @ \ {i}]
  /\ current' = [current EXCEPT ![s] = i]
  /\ Goto(s, IF sv[i] = "REQUESTED" THEN "save" ELSE "panic")
  /\ UNCHANGED <<table, locks, store, peerOwn, unchoked, candidates>>

\* Mutant: setOwned follows save at once, ahead of the line of the piece.
Save_OwnBeforeLog(s) ==
  /\ At(s, "save")
  /\ saved' = saved \cup {current[s]}
  /\ Goto(s, "own")
  /\ UNCHANGED <<table, locks, logged, fileLogged, peerOwn, unchoked, candidates,
                 asked, current>>

Save(s) ==
  /\ At(s, "save")
  /\ saved' = saved \cup {current[s]}
  /\ Goto(s, "log")
  /\ UNCHANGED <<table, locks, logged, fileLogged, peerOwn, unchoked, candidates,
                 asked, current>>

\* logger.pieceDownloaded(peer_id, piece_id, self_own.numOwned() + 1)
Log(s) ==
  /\ At(s, "log")
  /\ logged' = [logged EXCEPT ![current[s]] = nOwned + 1]
  /\ Goto(s, "own")
  /\ UNCHANGED <<table, locks, saved, fileLogged, peerOwn, unchoked, candidates,
                 asked, current>>

\* Mutant: setOwned counts without taking the mutex.
CountOwned_NoMutex(s) ==
  /\ At(s, "own")
  /\ mSv' = s
  /\ nOwned' = IF sv[current[s]] # "OWNED" THEN nOwned + 1 ELSE nOwned
  /\ Goto(s, "publish")
  /\ UNCHANGED <<sv, mReq, store, peerOwn, unchoked, candidates, asked, current>>

\* setOwned, first half: the mutex is taken and the counter is raised.
CountOwned(s) ==
  /\ At(s, "own")
  /\ mSv = NoSession
  /\ mSv' = s
  /\ nOwned' = IF sv[current[s]] # "OWNED" THEN nOwned + 1 ELSE nOwned
  /\ Goto(s, "publish")
  /\ UNCHANGED <<sv, mReq, store, peerOwn, unchoked, candidates, asked, current>>

\* setOwned, second half: a full counter is logged, the entry becomes OWNED
\* and the mutex is released.  An unchoked session then asks for the next piece.
PublishOwned(s) ==
  /\ At(s, "publish")
  /\ fileLogged' = IF OwningAll THEN fileLogged + 1 ELSE fileLogged
  /\ sv' = [sv EXCEPT ![current[s]] = "OWNED"]
  /\ mSv' = NoSession
  /\ Goto(s, IF unchoked[s] THEN "request" ELSE "loop")
  /\ UNCHANGED <<nOwned, mReq, saved, logged, peerOwn, unchoked, candidates, asked,
                 current>>
-----------------------------------------------------------------------------
\* What a session does by itself, once it was given something to do.
Thread(s) ==
  \/ LockReq(s) \/ Scan(s) \/ Mark(s)
  \/ Save(s) \/ Log(s) \/ CountOwned(s) \/ PublishOwned(s)

Receive(s) ==
  \/ HandleChoke(s) \/ HandleUnchoke(s)
  \/ \E i \in Pieces : HandleHave(s, i) \/ HandlePiece(s, i)

Next == \E s \in Sessions : Thread(s) \/ Receive(s)

Spec == Init /\ [][Next]_vars

(***************************************************************************)
(* A thread that can run does run; a contended mutex is handed to every    *)
(* waiting thread in the end (a session is unchoked once per timer         *)
(* interval, so m_req is free almost always); a REQUEST is always answered *)
(* because the remote case MsgRequest sends the PIECE whether or not it    *)
(* chokes the requester, and the answer waits in a FIFO event queue.       *)
(***************************************************************************)
FairSpec ==
  /\ Spec
  /\ \A s \in Sessions : SF_vars(Thread(s))
  /\ \A s \in Sessions, i \in Pieces : SF_vars(HandlePiece(s, i))
-----------------------------------------------------------------------------
\* The pieces session s is responsible for: asked for, or being stored.
InHand(s) ==
  asked[s] \cup (IF pc[s] \in {"save", "log", "own", "publish"} THEN {current[s]} ELSE {})

\* The thread inside setOwned, which has counted its piece but not marked it.
Publishing == {s \in Sessions : pc[s] = "publish"}

TypeOK ==
  /\ sv \in [Pieces -> Status]
  /\ nOwned \in 0 .. N
  /\ mSv \in Sessions \cup {NoSession}
  /\ mReq \in Sessions \cup {NoSession}
  /\ pc \in [Sessions -> Locations]
  /\ peerOwn \in [Sessions -> SUBSET Pieces]
  /\ unchoked \in [Sessions -> BOOLEAN]
  /\ candidates \in [Sessions -> SUBSET Pieces]
  /\ asked \in [Sessions -> SUBSET Pieces]
  /\ current \in [Sessions -> Pieces]
  /\ saved \in SUBSET Pieces
  /\ logged \in [Pieces -> 0 .. N]
  /\ fileLogged \in 0 .. 1

\* No piece is downloaded twice: a piece that one session has asked for or is
\* storing is neither asked for nor stored by another one, and it is marked
\* REQUESTED all that time (Session.cpp:57, "needs to be atomic as a whole").
ExclusiveClaim ==
  /\ \A s, t \in Sessions : s # t => InHand(s) \cap InHand(t) = {}
  /\ \A s \in Sessions : \A i \in InHand(s) : sv[i] = "REQUESTED"

\* The panic "received a piece that self didn't request" (Session.cpp:175) is
\* unreachable as long as the remote peer only answers requests.
NoUnrequestedPiece == \A s \in Sessions : pc[s] # "panic"

\* Nobody sees a piece as owned before its bytes are in the repository: neither
\* through the table (PieceRepository.cpp:15, "precond: piece i is OWNED", used
\* to serve a REQUEST) nor through the lock-free owningAll that ends a session.
OwnedIsStored ==
  /\ OwnedIn(sv) \subseteq saved
  /\ OwningAll => saved = Pieces

\* PieceRepository::save runs on a piece that is still REQUESTED and that no
\* other thread has saved before (PieceRepository.cpp:37).
SavePrecondition ==
  \A s \in Sessions :
    pc[s] = "save" => sv[current[s]] = "REQUESTED" /\ current[s] \notin saved

\* The counter beside the table is the number of OWNED entries, ahead by one
\* exactly while a thread is inside setOwned.
CounterAgrees ==
  /\ Cardinality(Publishing) <= 1
  /\ nOwned = Cardinality(OwnedIn(sv)) + Cardinality(Publishing)

\* "has downloaded the complete file" is logged at most once, and not before
\* the line of every single piece (Session.cpp:177-178).
FileLoggedLast ==
  /\ fileLogged <= 1
  /\ fileLogged = 1 => \A i \in Pieces : logged[i] # 0

\* A piece only moves ABSENT -> REQUESTED -> OWNED; this is what the comment at
\* Session.hpp:70-74 relies on when it calls NotInterested "always honest".
StatusNeverRegresses ==
  [][\A i \in Pieces :
       \/ sv'[i] = sv[i]
       \/ sv[i] = "ABSENT" /\ sv'[i] = "REQUESTED"
       \/ sv[i] = "REQUESTED" /\ sv'[i] = "OWNED"]_vars

\* The whole machinery implements the abstract ledger of claims: the locks, the
\* table and the counter never let two sessions fetch one piece (Session.cpp:57),
\* let a claim vanish, or make a piece owned that was not claimed.
Ledger == INSTANCE PieceLedger
            WITH claims <- [s \in Sessions |-> InHand(s)], stored <- OwnedIn(sv)

LedgerSpec == Ledger!Spec

\* A claimed piece does not stay REQUESTED for ever: there is no timeout that
\* would free it again, so the claim has to be completed.
ClaimsComplete ==
  \A i \in Pieces : sv[i] = "REQUESTED" ~> sv[i] = "OWNED"
=============================================================================
