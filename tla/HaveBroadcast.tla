---------------------------- MODULE HaveBroadcast ----------------------------
(***************************************************************************)
(* How ONE peer tells its sessions about the pieces it gets:               *)
(* SessionCollection::broadcastHave walks over all sessions under the      *)
(* collection's mutex while other control threads may still be inside      *)
(* Session::setup, where the snapshot for the bitfield is taken.           *)
(*                                                                         *)
(* The race is between the snapshot (a piece owned later is not in it) and *)
(* the walk (a session that is not bcast-ready is skipped).  The code      *)
(* closes it with m_bcast and a double-checked is_bcast_ready.             *)
(*                                                                         *)
(* Which session downloads which piece is nondeterministic (see Download); *)
(* the bytes of the bitfield and of HAVE messages reach the remote peer in *)
(* order, so only the set of announced pieces is kept.                     *)
(***************************************************************************)
EXTENDS Naturals, FiniteSets

CONSTANTS Sessions,   \* the sessions that this peer will ever have
          Pieces,     \* the pieces of the shared file
          NoSession,  \* nobody holds the mutex / the walk is at no session
          NoPiece     \* the control thread has no piece to announce

ASSUME HaveBroadcastAssumption ==
  /\ NoSession \notin Sessions
  /\ NoPiece \notin Pieces

VARIABLES
  owned,      \* the OWNED entries of the piece table
  ss,         \* SessionCollection::ss
  mSc,        \* holder of SessionCollection::m, if it is a broadcasting thread
  todo,       \* sessions the walk of broadcastHave has not reached
  target,     \* session whose ackHave is in its slow path
  stage,      \* progress of each control thread
  mBcast,     \* holder of Session::m_bcast
  ready,      \* Session::is_bcast_ready
  snap,       \* the bitfield message of each session
  eq,         \* pieces of the BcastHave events in each session's queue
  known,      \* what each remote peer was told: bitfield and HAVEs
  carrying,   \* the piece a control thread has got and is to announce
  announced   \* pieces whose broadcastHave has returned

vars == <<owned, ss, mSc, todo, target, stage, mBcast, ready, snap, eq, known,
          carrying, announced>>

setupVars == <<stage, ready, snap>>
walkVars == <<mSc, todo, target>>

Stages == {"absent", "setup", "snapshot", "publish", "unlock", "running", "over"}

\* has_file in PeerInfo.cfg: a peer starts with nothing or with the whole file.
Init ==
  /\ owned \in {{}, Pieces}
  /\ ss = {}
  /\ mSc = NoSession
  /\ todo = {}
  /\ target = NoSession
  /\ stage = [s \in Sessions |-> "absent"]
  /\ mBcast = [s \in Sessions |-> NoSession]
  /\ ready = [s \in Sessions |-> FALSE]
  /\ snap = [s \in Sessions |-> {}]
  /\ eq = [s \in Sessions |-> {}]
  /\ known = [s \in Sessions |-> {}]
  /\ carrying = [s \in Sessions |-> NoPiece]
  /\ announced = owned
-----------------------------------------------------------------------------
(***************************************************************************)
(* A session is created under the collection's mutex; its control thread   *)
(* then runs the sending half of setup.                                    *)
(***************************************************************************)
At(s, st) == stage[s] = st
Goto(s, st) == stage' = [stage EXCEPT ![s] = st]

NewSession(s) ==
  /\ At(s, "absent")
  /\ mSc = NoSession
  /\ ss' = ss \cup {s}
  /\ Goto(s, "setup")
  /\ UNCHANGED <<owned, walkVars, mBcast, ready, snap, eq, known, carrying, announced>>

LockBcast(s) ==
  /\ At(s, "setup")
  /\ mBcast[s] = NoSession
  /\ mBcast' = [mBcast EXCEPT ![s] = s]
  /\ Goto(s, "snapshot")
  /\ UNCHANGED <<owned, ss, walkVars, ready, snap, eq, known, carrying, announced>>

TakeSnapshot(s) ==
  /\ At(s, "snapshot")
  /\ snap' = [snap EXCEPT ![s] = owned]
  /\ Goto(s, "publish")
  /\ UNCHANGED <<owned, ss, walkVars, mBcast, ready, eq, known, carrying, announced>>

\* Mutant: the flag is never raised.
SetReady_Forgotten(s) ==
  /\ At(s, "publish")
  /\ Goto(s, "unlock")
  /\ UNCHANGED <<owned, ss, walkVars, mBcast, ready, snap, eq, known, carrying, announced>>

SetReady(s) ==
  /\ At(s, "publish")
  /\ ready' = [ready EXCEPT ![s] = TRUE]
  /\ Goto(s, "unlock")
  /\ UNCHANGED <<owned, ss, walkVars, mBcast, snap, eq, known, carrying, announced>>

\* m_bcast is released, the bitfield is sent, the rest of setup runs and the
\* event loop starts.
StartLoop(s) ==
  /\ At(s, "unlock")
  /\ mBcast' = [mBcast EXCEPT ![s] = NoSession]
  /\ known' = [known EXCEPT ![s] = snap[s]]
  /\ Goto(s, "running")
  /\ UNCHANGED <<owned, ss, walkVars, ready, snap, eq, carrying, announced>>
-----------------------------------------------------------------------------
(***************************************************************************)
(* The control thread t gets a piece (case MsgPiece) and broadcasts it.    *)
(***************************************************************************)

\* Mutant: the thread goes on to broadcastHave before setOwned.
Own_Late(t, i) ==
  /\ At(t, "running")
  /\ carrying[t] = NoPiece
  /\ i \notin owned
  /\ carrying' = [carrying EXCEPT ![t] = i]
  /\ UNCHANGED <<owned, ss, walkVars, setupVars, mBcast, eq, known, announced>>

\* self_own.setOwned(i), then the thread goes on to broadcastHave(i).
Own(t, i) ==
  /\ At(t, "running")
  /\ carrying[t] = NoPiece
  /\ i \notin owned
  /\ owned' = owned \cup {i}
  /\ carrying' = [carrying EXCEPT ![t] = i]
  /\ UNCHANGED <<ss, walkVars, setupVars, mBcast, eq, known, announced>>

\* Mutant: the thread also broadcasts when it has nothing to announce.
StartWalk_Spurious(t) ==
  /\ At(t, "running")
  /\ mSc = NoSession
  /\ mSc' = t
  /\ todo' = ss
  /\ UNCHANGED <<owned, ss, target, setupVars, mBcast, eq, known, carrying, announced>>

StartWalk(t) ==
  /\ carrying[t] # NoPiece
  /\ mSc = NoSession
  /\ mSc' = t
  /\ todo' = ss
  /\ UNCHANGED <<owned, ss, target, setupVars, mBcast, eq, known, carrying, announced>>

Enqueue(s, i) == eq' = [eq EXCEPT ![s] = @ \cup {i}]

\* Mutant: ackHave skips a session that is not ready instead of looking again
\* under m_bcast.
AckHave_NoRecheck(t, s) ==
  /\ mSc = t
  /\ target = NoSession
  /\ s \in todo
  /\ todo' = todo \ {s}
  /\ IF ready[s] THEN Enqueue(s, carrying[t]) ELSE UNCHANGED eq
  /\ UNCHANGED <<owned, ss, mSc, target, setupVars, mBcast, known, carrying, announced>>

\* ackHave(i) of the next session: the first look at is_bcast_ready.
AckHave(t, s) ==
  /\ mSc = t
  /\ target = NoSession
  /\ s \in todo
  /\ todo' = todo \ {s}
  /\ IF ready[s]
     THEN Enqueue(s, carrying[t]) /\ UNCHANGED target
     ELSE target' = s /\ UNCHANGED eq
  /\ UNCHANGED <<owned, ss, mSc, setupVars, mBcast, known, carrying, announced>>

\* ackHave's slow path: m_bcast first, then the second look.
LockAck(t) ==
  /\ mSc = t
  /\ target # NoSession
  /\ mBcast[target] = NoSession
  /\ mBcast' = [mBcast EXCEPT ![target] = t]
  /\ UNCHANGED <<owned, ss, walkVars, setupVars, eq, known, carrying, announced>>

\* Mutant: the slow path returns with m_bcast still locked.
AckHaveSlow_LockLeak(t) ==
  /\ mSc = t
  /\ target # NoSession
  /\ mBcast[target] = t
  /\ IF ready[target] THEN Enqueue(target, carrying[t]) ELSE UNCHANGED eq
  /\ target' = NoSession
  /\ UNCHANGED <<owned, ss, mSc, todo, setupVars, mBcast, known, carrying, announced>>

AckHaveSlow(t) ==
  /\ mSc = t
  /\ target # NoSession
  /\ mBcast[target] = t
  /\ IF ready[target] THEN Enqueue(target, carrying[t]) ELSE UNCHANGED eq
  /\ mBcast' = [mBcast EXCEPT ![target] = NoSession]
  /\ target' = NoSession
  /\ UNCHANGED <<owned, ss, mSc, todo, setupVars, known, carrying, announced>>

EndWalk(t) ==
  /\ mSc = t
  /\ todo = {}
  /\ target = NoSession
  /\ mSc' = NoSession
  /\ announced' = announced \cup {carrying[t]}
  /\ carrying' = [carrying EXCEPT ![t] = NoPiece]
  /\ UNCHANGED <<owned, ss, todo, target, setupVars, mBcast, eq, known>>
-----------------------------------------------------------------------------
\* A BcastHave event is handled: HAVE goes to the remote peer.
HandleBcast(s, i) ==
  /\ At(s, "running")
  /\ carrying[s] = NoPiece
  /\ i \in eq[s]
  /\ eq' = [eq EXCEPT ![s] = @ \ {i}]
  /\ known' = [known EXCEPT ![s] = @ \cup {i}]
  /\ UNCHANGED <<owned, ss, walkVars, setupVars, mBcast, carrying, announced>>

\* The event loop ends once both peers own everything; what becomes of the events
\* that are still queued then is the subject of module Session.
EndLoop(s) ==
  /\ At(s, "running")
  /\ carrying[s] = NoPiece
  /\ owned = Pieces
  /\ Goto(s, "over")
  /\ UNCHANGED <<owned, ss, walkVars, mBcast, ready, snap, eq, known, carrying, announced>>

\* Mutant: the gc thread erases a session without the collection's mutex.
CleanUp_NoMutex(s) ==
  /\ At(s, "over")
  /\ s \in ss
  /\ ss' = ss \ {s}
  /\ UNCHANGED <<owned, walkVars, setupVars, mBcast, eq, known, carrying, announced>>

\* The gc thread destroys an ended session.
CleanUp(s) ==
  /\ At(s, "over")
  /\ s \in ss
  /\ mSc = NoSession
  /\ ss' = ss \ {s}
  /\ UNCHANGED <<owned, walkVars, setupVars, mBcast, eq, known, carrying, announced>>
-----------------------------------------------------------------------------
Setup(s) == LockBcast(s) \/ TakeSnapshot(s) \/ SetReady(s) \/ StartLoop(s)

Broadcast(t) ==
  \/ StartWalk(t) \/ LockAck(t) \/ AckHaveSlow(t) \/ EndWalk(t)
  \/ \E s \in Sessions : AckHave(t, s)

Next ==
  \/ \E s \in Sessions : NewSession(s) \/ Setup(s) \/ Broadcast(s) \/ EndLoop(s)
                         \/ CleanUp(s)
  \/ \E s \in Sessions, i \in Pieces : Own(s, i) \/ HandleBcast(s, i)

Spec == Init /\ [][Next]_vars

(***************************************************************************)
(* Threads that can run do run.  SessionCollection::m is contended only    *)
(* by other broadcasts and by creation and cleanup of sessions, each of    *)
(* which happens a bounded number of times, so a waiting thread gets it;   *)
(* an event in a queue is dequeued in the end.                             *)
(***************************************************************************)
FairSpec ==
  /\ Spec
  /\ \A s \in Sessions : WF_vars(Setup(s)) /\ WF_vars(Broadcast(s))
  /\ \A s \in Sessions, i \in Pieces : WF_vars(HandleBcast(s, i))
-----------------------------------------------------------------------------
TypeOK ==
  /\ owned \in SUBSET Pieces
  /\ ss \in SUBSET Sessions
  /\ mSc \in Sessions \cup {NoSession}
  /\ todo \in SUBSET Sessions
  /\ target \in Sessions \cup {NoSession}
  /\ stage \in [Sessions -> Stages]
  /\ mBcast \in [Sessions -> Sessions \cup {NoSession}]
  /\ ready \in [Sessions -> BOOLEAN]
  /\ snap \in [Sessions -> SUBSET Pieces]
  /\ eq \in [Sessions -> SUBSET Pieces]
  /\ known \in [Sessions -> SUBSET Pieces]
  /\ carrying \in [Sessions -> Pieces \cup {NoPiece}]
  /\ announced \in SUBSET Pieces

\* Session.hpp:120-122: "After the snapshot is taken, we don't wanna miss any
\* bcast".  Once the broadcast of a piece is over, every running session has told
\* its remote peer about the piece or has the event for it in its queue.
NoHaveLost ==
  \A s \in Sessions : At(s, "running") => announced \subseteq known[s] \cup eq[s]

\* Neither a bitfield nor a HAVE advertises a piece that this peer does not own:
\* the remote peer would ask for it and hit the panic of Session.cpp:165.
NothingInvented ==
  \A s \in Sessions : snap[s] \cup known[s] \cup eq[s] \subseteq owned

\* The walk of broadcastHave never reaches a session that the gc thread has
\* destroyed (SessionCollection.cpp:181).
WalkOnLiveSessions ==
  mSc # NoSession => todo \subseteq ss /\ (target # NoSession => target \in ss)

\* Every remote peer hears of every piece this peer gets, whatever the setup of
\* the session and the broadcast of the piece do to each other; in particular a
\* session that was created does get through its setup.
EveryPieceAnnounced ==
  \A s \in Sessions, i \in Pieces :
    i \in owned /\ ~At(s, "absent") ~> i \in known[s] \/ At(s, "over")
=============================================================================
