------------------------------- MODULE Launch --------------------------------
(***************************************************************************)
(* The life of all processes together: main() of every peer, from the      *)
(* start of its acceptor over the connections to the prior peers to        *)
(* SessionCollection::wait() and the destruction of the collection, with   *)
(* the acceptor and the gc thread beside it.                               *)
(*                                                                         *)
(* Of a session only its life is kept: it is made by newSession(), can end *)
(* when both of its peers own the whole file (OverMeansComplete and        *)
(* SessionEnds of Session), and is destroyed by the gc thread.             *)
(*                                                                         *)
(* wait() tests n_unfinished_session under a mutex of its own, m_end, that *)
(* the gc thread does not take: between the test and the sleep the gc      *)
(* thread can do everything, its notify_all() included.                    *)
(***************************************************************************)
EXTENDS Naturals, Sequences, FiniteSets

CONSTANTS N,     \* number of lines of PeerInfo.cfg
          Seeds  \* the peers that have the file from the beginning

\* The peers, in the order of PeerInfo.cfg.
Peers == 1..N

ASSUME LaunchAssumption ==
  /\ N \in Nat \ {0, 1}
  /\ Seeds \subseteq Peers
  /\ Seeds # {}

VARIABLES
  main,        \* where main() is
  at,          \* the loop variable i of main()
  todo,        \* prior peers without a connection: conn_succ, n_unsucc_conn
  listening,   \* the acceptor thread has made its Acceptor
  backlog,     \* connections that accept() has not returned yet, by their maker
  life,        \* life[p][q]: what has become of the session of p with q
  gcq,         \* gc_bq
  unfinished,  \* n_unfinished_session
  gc,          \* where cleanUp() is
  complete     \* the peers that own every piece

vars == <<main, at, todo, listening, backlog, life, gcq, unfinished, gc, complete>>

network == <<listening, backlog>>
cleaning == <<gcq, unfinished, gc>>
-----------------------------------------------------------------------------
\* Config: the peers on the lines before the own one.
PriorPeers(p) == 1..(p - 1)

Made(p, q) == life[p][q] # "none"
Linked(p, q) == Made(p, q) /\ Made(q, p)

\* Nothing stands between p and the pieces it misses: every group of peers around p
\* that includes no complete peer has a connection to the others.
Supplied(p) ==
  \A S \in SUBSET Peers :
    p \in S /\ S \cap complete = {} => \E x \in S, y \in Peers \ S : Linked(x, y)

Init ==
  /\ main = [p \in Peers |-> "off"]
  /\ at = [p \in Peers |-> 1]
  /\ todo = [p \in Peers |-> PriorPeers(p)]
  /\ listening = [p \in Peers |-> FALSE]
  /\ backlog = [p \in Peers |-> <<>>]
  /\ life = [p \in Peers |-> [q \in Peers \ {p} |-> "none"]]
  /\ gcq = [p \in Peers |-> <<>>]
  /\ unfinished = [p \in Peers |-> N - 1]
  /\ gc = [p \in Peers |-> "run"]
  /\ complete = Seeds
-----------------------------------------------------------------------------
(***************************************************************************)
(* main() and the acceptor.                                                *)
(***************************************************************************)
At(p, loc) == main[p] = loc
Goto(p, loc) == main' = [main EXCEPT ![p] = loc]
Up(p) == main[p] \notin {"off", "exited"}

\* The process starts: SessionCollection with its gc thread, startServer, and the
\* first look at n_unsucc_conn.
Start(p) ==
  /\ At(p, "off")
  /\ Goto(p, IF todo[p] = {} THEN "test" ELSE "connect")
  /\ UNCHANGED <<at, todo, network, life, cleaning, complete>>

\* Acceptor{port}, in the acceptor thread.
Listen(p) ==
  /\ Up(p)
  /\ ~listening[p]
  /\ listening' = [listening EXCEPT ![p] = TRUE]
  /\ UNCHANGED <<main, at, todo, backlog, life, cleaning, complete>>

\* Mutant: every round connects to every prior peer.
Connect_Again(p) ==
  /\ At(p, "connect")
  /\ at[p] < p
  /\ at' = [at EXCEPT ![p] = @ + 1]
  /\ LET q == at[p]
     IN  IF listening[q]
         THEN /\ todo' = [todo EXCEPT ![p] = @ \ {q}]
              /\ backlog' = [backlog EXCEPT ![q] = Append(@, p)]
              /\ life' = [life EXCEPT ![p][q] = "run"]
         ELSE UNCHANGED <<todo, backlog, life>>
  /\ UNCHANGED <<main, listening, cleaning, complete>>

\* Mutant: the loop runs one step too far.
Connect_OffByOne(p) ==
  /\ At(p, "connect")
  /\ at[p] <= p
  /\ at' = [at EXCEPT ![p] = @ + 1]
  /\ LET q == at[p]
     IN  IF q \in todo[p] /\ listening[q]
         THEN /\ todo' = [todo EXCEPT ![p] = @ \ {q}]
              /\ backlog' = [backlog EXCEPT ![q] = Append(@, p)]
              /\ life' = [life EXCEPT ![p][q] = "run"]
         ELSE UNCHANGED <<todo, backlog, life>>
  /\ UNCHANGED <<main, listening, cleaning, complete>>

\* One iteration of the inner loop: Connection{...} and newSession, unless the peer
\* is connected already or does not listen yet (ConnectionError).
Connect(p) ==
  /\ At(p, "connect")
  /\ at[p] < p
  /\ at' = [at EXCEPT ![p] = @ + 1]
  /\ LET q == at[p]
     IN  IF q \in todo[p] /\ listening[q]
         THEN /\ todo' = [todo EXCEPT ![p] = @ \ {q}]
              /\ backlog' = [backlog EXCEPT ![q] = Append(@, p)]
              /\ life' = [life EXCEPT ![p][q] = "run"]
         ELSE UNCHANGED <<todo, backlog, life>>
  /\ UNCHANGED <<main, listening, cleaning, complete>>

\* Mutant: one round, whatever came of it.
NextRound_NoRetry(p) ==
  /\ At(p, "connect")
  /\ at[p] = p
  /\ at' = [at EXCEPT ![p] = 1]
  /\ Goto(p, "test")
  /\ UNCHANGED <<todo, network, life, cleaning, complete>>

\* The end of a round: sleep_for(1s), and the test of n_unsucc_conn.
NextRound(p) ==
  /\ At(p, "connect")
  /\ at[p] = p
  /\ at' = [at EXCEPT ![p] = 1]
  /\ Goto(p, IF todo[p] = {} THEN "test" ELSE "connect")
  /\ UNCHANGED <<todo, network, life, cleaning, complete>>

\* The acceptor thread: accept() and newSession.
Accept(p) ==
  /\ Up(p)
  /\ listening[p]
  /\ backlog[p] # <<>>
  /\ backlog' = [backlog EXCEPT ![p] = Tail(@)]
  /\ life' = [life EXCEPT ![p][Head(backlog[p])] = "run"]
  /\ UNCHANGED <<main, at, todo, listening, cleaning, complete>>
-----------------------------------------------------------------------------
(***************************************************************************)
(* The sessions and the gc thread.                                         *)
(***************************************************************************)

\* The last piece arrives at p.
Complete(p) ==
  /\ p \notin complete
  /\ Supplied(p)
  /\ complete' = complete \cup {p}
  /\ UNCHANGED <<main, at, todo, network, life, cleaning>>

\* protocol() of p with q reaches its end: notifyCleanUp.
SessionDone(p, q) ==
  /\ q \in DOMAIN life[p]
  /\ life[p][q] = "run"
  /\ Linked(p, q)
  /\ {p, q} \subseteq complete
  /\ life' = [life EXCEPT ![p][q] = "done"]
  /\ gcq' = [gcq EXCEPT ![p] = Append(@, q)]
  /\ UNCHANGED <<main, at, todo, network, unfinished, gc, complete>>

\* cleanUp(): the session is erased and counted, under m; the last one is notified,
\* when the count has long been readable.
CleanUp(p) ==
  /\ gc[p] = "run"
  /\ gcq[p] # <<>>
  /\ gcq' = [gcq EXCEPT ![p] = Tail(@)]
  /\ life' = [life EXCEPT ![p][Head(gcq[p])] = "gone"]
  /\ unfinished' = [unfinished EXCEPT ![p] = @ - 1]
  /\ gc' = [gc EXCEPT ![p] =
              IF /\ \A q \in Peers \ {p} : life'[p][q] \in {"none", "gone"}
                 /\ unfinished'[p] = 0
              THEN "notify" ELSE "run"]
  /\ UNCHANGED <<main, at, todo, network, complete>>

\* cond_end.notify_all(), which wakes main() if it sleeps, and the end of the thread.
Notify(p) ==
  /\ gc[p] = "notify"
  /\ gc' = [gc EXCEPT ![p] = "ended"]
  /\ IF At(p, "asleep") THEN Goto(p, "test") ELSE UNCHANGED main
  /\ UNCHANGED <<at, todo, network, life, gcq, unfinished, complete>>
-----------------------------------------------------------------------------
(***************************************************************************)
(* wait() and the end of main().                                           *)
(***************************************************************************)

\* The predicate of cond_end.wait.
WaitTest(p) ==
  /\ At(p, "test")
  /\ Goto(p, IF unfinished[p] = 0 THEN "destroy" ELSE "dozing")
  /\ UNCHANGED <<at, todo, network, life, cleaning, complete>>

\* cond_end.wait goes to sleep.  The code cannot tell "missed" from "asleep": who lies
\* down after the notification has missed it.
WaitSleep(p) ==
  /\ At(p, "dozing")
  /\ Goto(p, IF gc[p] = "ended" THEN "missed" ELSE "asleep")
  /\ UNCHANGED <<at, todo, network, life, cleaning, complete>>

\* A condition variable may wake up for no reason.
SpuriousWake(p) ==
  /\ At(p, "asleep") \/ At(p, "missed")
  /\ Goto(p, "test")
  /\ UNCHANGED <<at, todo, network, life, cleaning, complete>>

\* Mutant: main() does not wait for the gc thread.
Exit_NoJoin(p) ==
  /\ At(p, "destroy")
  /\ Goto(p, "exited")
  /\ listening' = [listening EXCEPT ![p] = FALSE]
  /\ UNCHANGED <<at, todo, backlog, life, cleaning, complete>>

\* ~SessionCollection joins the gc thread, its last member; then the process ends,
\* with its detached threads and its socket.
Exit(p) ==
  /\ At(p, "destroy")
  /\ gc[p] = "ended"
  /\ Goto(p, "exited")
  /\ listening' = [listening EXCEPT ![p] = FALSE]
  /\ UNCHANGED <<at, todo, backlog, life, cleaning, complete>>
-----------------------------------------------------------------------------
Main(p) ==
  \/ Start(p) \/ Connect(p) \/ NextRound(p)
  \/ WaitTest(p) \/ WaitSleep(p) \/ Exit(p)

\* What the acceptor, the sessions and the gc thread do; only finitely often.
Rest(p) ==
  \/ Listen(p) \/ Accept(p)
  \/ Complete(p) \/ \E q \in Peers : SessionDone(p, q)
  \/ CleanUp(p) \/ Notify(p)

Next == \E p \in Peers : Main(p) \/ Rest(p) \/ SpuriousWake(p)

Spec == Init /\ [][Next]_vars

(***************************************************************************)
(* All processes are started and every thread runs when it can; a peer     *)
(* that pieces can reach gets them, which is an assumption (nobody panics, *)
(* no connection stays idle), and a session between complete peers ends    *)
(* (SessionEnds of Session).  A sleeper cannot count on spurious           *)
(* wakeups.  Fairness of all other threads together is less than fairness  *)
(* of each, and enough, since they make finitely many steps.               *)
(***************************************************************************)
FairSpec ==
  /\ Spec
  /\ \A p \in Peers : WF_vars(Main(p))
  /\ WF_vars(\E p \in Peers : Rest(p))
-----------------------------------------------------------------------------
(***************************************************************************)
(* Properties.                                                             *)
(***************************************************************************)
TypeOK ==
  /\ main \in [Peers -> {"off", "connect", "test", "dozing", "asleep", "missed", "destroy",
                       "exited"}]
  /\ at \in [Peers -> Peers]
  /\ todo \in [Peers -> SUBSET Peers]
  /\ listening \in [Peers -> BOOLEAN]
  /\ backlog \in [Peers -> Seq(Peers)]
  /\ \A p \in Peers : life[p] \in [Peers \ {p} -> {"none", "run", "done", "gone"}]
  /\ gcq \in [Peers -> Seq(Peers)]
  /\ unfinished \in [Peers -> 0..(N - 1)]
  /\ gc \in [Peers -> {"run", "notify", "ended"}]
  /\ complete \subseteq Peers

\* Two peers never have more than one connection, whichever starts first and however
\* often main() tries: what the one has made and not given up, the other has accepted
\* or will accept.
OneConnectionPerPair ==
  \A p \in Peers : \A q \in PriorPeers(p) :
    Cardinality({k \in DOMAIN backlog[q] : backlog[q][k] = p})
      + (IF Made(q, p) THEN 1 ELSE 0) = (IF Made(p, q) THEN 1 ELSE 0)

\* When main() returns, every peer has the whole file, every other peer has met this
\* one, the gc thread is gone and no connection is left for the detached acceptor,
\* which would make a session in the destroyed collection (main.cpp:52).
CleanExit ==
  \A p \in Peers :
    At(p, "exited") =>
      /\ complete = Peers
      /\ \A q \in Peers \ {p} : life[p][q] = "gone" /\ Made(q, p)
      /\ gc[p] = "ended"
      /\ backlog[p] = <<>>

\* Whatever the order in which the processes start, all connections are made, all
\* sessions that end are counted, and the gc threads come to their ends.  Every process
\* ends too, unless its main() has missed the notification: one that sleeps in wait()
\* before that is woken.  That the pieces arrive (Complete) and that a session between
\* complete peers ends (SessionDone) is assumed here.
AllEnd ==
  <>[](\A p \in Peers : gc[p] = "ended" /\ main[p] \in {"exited", "missed"})

\* SessionCollection.cpp:198: wait() waits for "n_unfinished_session == 0", so when it
\* is 0 the process comes to its end.
WaitReturns == \A p \in Peers : (unfinished[p] = 0) ~> At(p, "exited")
=============================================================================
