------------------------ MODULE HaveBroadcastProofs ------------------------
(***************************************************************************)
(* Machine-checked proofs about HaveBroadcast, for every set of sessions   *)
(* and every set of pieces.                                                *)
(***************************************************************************)
EXTENDS HaveBroadcast, TLAPS

-----------------------------------------------------------------------------
(***************************************************************************)
(* The inductive invariant.  Mutexes says who is inside which section,     *)
(* Walk what the walk of broadcastHave may touch, and Told that a session  *)
(* whose snapshot is taken has every announced piece on its way, and the   *)
(* piece being announced unless the walk has still to visit the session.   *)
(***************************************************************************)
Mutexes ==
  \A s \in Sessions :
    /\ mBcast[s] = s <=> stage[s] \in {"snapshot", "publish", "unlock"}
    /\ mBcast[s] \notin {s, NoSession} => mBcast[s] = mSc /\ target = s
    /\ ready[s] <=> stage[s] \in {"unlock", "running", "over"}
    /\ carrying[s] # NoPiece => stage[s] = "running" /\ carrying[s] \in owned

Walk ==
  /\ mSc # NoSession => /\ carrying[mSc] # NoPiece
                        /\ todo \subseteq ss
                        /\ target # mSc
                        /\ target # NoSession => target \in ss
  /\ mSc = NoSession => target = NoSession
  /\ \A s \in Sessions : stage[s] \notin {"absent", "over"} => s \in ss

OnItsWay(s) == snap[s] \cup known[s] \cup eq[s]

Told ==
  /\ announced \subseteq owned
  /\ \A s \in Sessions :
       /\ OnItsWay(s) \subseteq owned
       /\ stage[s] \in {"publish", "unlock", "running"} =>
            /\ announced \subseteq OnItsWay(s)
            /\ mSc # NoSession =>
                 carrying[mSc] \in OnItsWay(s) \/ s \in todo \/ target = s
       /\ stage[s] = "running" => snap[s] \subseteq known[s]
       /\ stage[s] \notin {"running", "over"} => known[s] = {}

IInv == TypeOK /\ Mutexes /\ Walk /\ Told
-----------------------------------------------------------------------------
LEMMA InitIInv == Init => IInv
  BY HaveBroadcastAssumption
     DEF Init, IInv, TypeOK, Stages, Mutexes, Walk, Told, OnItsWay

LEMMA TypesStep == TypeOK /\ Walk /\ [Next]_vars => TypeOK'
<1> SUFFICES ASSUME TypeOK, Walk, [Next]_vars PROVE TypeOK'
  OBVIOUS
<1> USE HaveBroadcastAssumption DEF TypeOK, Walk, Stages, At, Goto, Enqueue, setupVars, walkVars
<1>1. ASSUME NEW s \in Sessions, NewSession(s) PROVE TypeOK'
  BY <1>1 DEF NewSession
<1>2. ASSUME NEW s \in Sessions, LockBcast(s) PROVE TypeOK'
  BY <1>2 DEF LockBcast
<1>3. ASSUME NEW s \in Sessions, TakeSnapshot(s) PROVE TypeOK'
  BY <1>3 DEF TakeSnapshot
<1>4. ASSUME NEW s \in Sessions, SetReady(s) PROVE TypeOK'
  BY <1>4 DEF SetReady
<1>5. ASSUME NEW s \in Sessions, StartLoop(s) PROVE TypeOK'
  BY <1>5 DEF StartLoop
<1>6. ASSUME NEW s \in Sessions, NEW i \in Pieces, Own(s, i) PROVE TypeOK'
  BY <1>6 DEF Own
<1>7. ASSUME NEW s \in Sessions, StartWalk(s) PROVE TypeOK'
  BY <1>7 DEF StartWalk
<1>8. ASSUME NEW s \in Sessions, NEW r \in Sessions, AckHave(s, r) PROVE TypeOK'
  BY <1>8 DEF AckHave
<1>9. ASSUME NEW s \in Sessions, LockAck(s) PROVE TypeOK'
  BY <1>9 DEF LockAck
<1>10. ASSUME NEW s \in Sessions, AckHaveSlow(s) PROVE TypeOK'
  BY <1>10 DEF AckHaveSlow
<1>11. ASSUME NEW s \in Sessions, EndWalk(s) PROVE TypeOK'
  BY <1>11 DEF EndWalk
<1>12. ASSUME NEW s \in Sessions, NEW i \in Pieces, HandleBcast(s, i) PROVE TypeOK'
  BY <1>12 DEF HandleBcast
<1>13. ASSUME NEW s \in Sessions, EndLoop(s) PROVE TypeOK'
  BY <1>13 DEF EndLoop
<1>14. ASSUME NEW s \in Sessions, CleanUp(s) PROVE TypeOK'
  BY <1>14 DEF CleanUp
<1>15. CASE UNCHANGED vars
  BY <1>15 DEF vars
<1> QED
  BY <1>1, <1>2, <1>3, <1>4, <1>5, <1>6, <1>7, <1>8, <1>9, <1>10, <1>11, <1>12, <1>13, <1>14, <1>15
     DEF Next, Setup, Broadcast

LEMMA MutexesStep == TypeOK /\ Mutexes /\ Walk /\ [Next]_vars => Mutexes'
<1> SUFFICES ASSUME TypeOK, Mutexes, Walk, [Next]_vars PROVE Mutexes'
  OBVIOUS
<1> USE HaveBroadcastAssumption DEF TypeOK, Stages, Mutexes, Walk, At, Goto, Enqueue, setupVars, walkVars
<1>1. ASSUME NEW s \in Sessions, NewSession(s) PROVE Mutexes'
  BY <1>1 DEF NewSession
<1>2. ASSUME NEW s \in Sessions, LockBcast(s) PROVE Mutexes'
  BY <1>2 DEF LockBcast
<1>3. ASSUME NEW s \in Sessions, TakeSnapshot(s) PROVE Mutexes'
  BY <1>3 DEF TakeSnapshot
<1>4. ASSUME NEW s \in Sessions, SetReady(s) PROVE Mutexes'
  BY <1>4 DEF SetReady
<1>5. ASSUME NEW s \in Sessions, StartLoop(s) PROVE Mutexes'
  BY <1>5 DEF StartLoop
<1>6. ASSUME NEW s \in Sessions, NEW i \in Pieces, Own(s, i) PROVE Mutexes'
  BY <1>6 DEF Own
<1>7. ASSUME NEW s \in Sessions, StartWalk(s) PROVE Mutexes'
  BY <1>7 DEF StartWalk
<1>8. ASSUME NEW s \in Sessions, NEW r \in Sessions, AckHave(s, r) PROVE Mutexes'
  BY <1>8 DEF AckHave
<1>9. ASSUME NEW s \in Sessions, LockAck(s) PROVE Mutexes'
  BY <1>9 DEF LockAck
<1>10. ASSUME NEW s \in Sessions, AckHaveSlow(s) PROVE Mutexes'
  BY <1>10 DEF AckHaveSlow
<1>11. ASSUME NEW s \in Sessions, EndWalk(s) PROVE Mutexes'
  BY <1>11 DEF EndWalk
<1>12. ASSUME NEW s \in Sessions, NEW i \in Pieces, HandleBcast(s, i) PROVE Mutexes'
  BY <1>12 DEF HandleBcast
<1>13. ASSUME NEW s \in Sessions, EndLoop(s) PROVE Mutexes'
  BY <1>13 DEF EndLoop
<1>14. ASSUME NEW s \in Sessions, CleanUp(s) PROVE Mutexes'
  BY <1>14 DEF CleanUp
<1>15. CASE UNCHANGED vars
  BY <1>15 DEF vars
<1> QED
  BY <1>1, <1>2, <1>3, <1>4, <1>5, <1>6, <1>7, <1>8, <1>9, <1>10, <1>11, <1>12, <1>13, <1>14, <1>15
     DEF Next, Setup, Broadcast

LEMMA WalkStep == TypeOK /\ Mutexes /\ Walk /\ [Next]_vars => Walk'
<1> SUFFICES ASSUME TypeOK, Mutexes, Walk, [Next]_vars PROVE Walk'
  OBVIOUS
<1> USE HaveBroadcastAssumption DEF TypeOK, Stages, Mutexes, Walk, At, Goto, Enqueue, setupVars, walkVars
<1>1. ASSUME NEW s \in Sessions, NewSession(s) PROVE Walk'
  BY <1>1 DEF NewSession
<1>2. ASSUME NEW s \in Sessions, LockBcast(s) PROVE Walk'
  BY <1>2 DEF LockBcast
<1>3. ASSUME NEW s \in Sessions, TakeSnapshot(s) PROVE Walk'
  BY <1>3 DEF TakeSnapshot
<1>4. ASSUME NEW s \in Sessions, SetReady(s) PROVE Walk'
  BY <1>4 DEF SetReady
<1>5. ASSUME NEW s \in Sessions, StartLoop(s) PROVE Walk'
  BY <1>5 DEF StartLoop
<1>6. ASSUME NEW s \in Sessions, NEW i \in Pieces, Own(s, i) PROVE Walk'
  BY <1>6 DEF Own
<1>7. ASSUME NEW s \in Sessions, StartWalk(s) PROVE Walk'
  BY <1>7 DEF StartWalk
<1>8. ASSUME NEW s \in Sessions, NEW r \in Sessions, AckHave(s, r) PROVE Walk'
  BY <1>8 DEF AckHave
<1>9. ASSUME NEW s \in Sessions, LockAck(s) PROVE Walk'
  BY <1>9 DEF LockAck
<1>10. ASSUME NEW s \in Sessions, AckHaveSlow(s) PROVE Walk'
  BY <1>10 DEF AckHaveSlow
<1>11. ASSUME NEW s \in Sessions, EndWalk(s) PROVE Walk'
  BY <1>11 DEF EndWalk
<1>12. ASSUME NEW s \in Sessions, NEW i \in Pieces, HandleBcast(s, i) PROVE Walk'
  BY <1>12 DEF HandleBcast
<1>13. ASSUME NEW s \in Sessions, EndLoop(s) PROVE Walk'
  BY <1>13 DEF EndLoop
<1>14. ASSUME NEW s \in Sessions, CleanUp(s) PROVE Walk'
  BY <1>14 DEF CleanUp
<1>15. CASE UNCHANGED vars
  BY <1>15 DEF vars
<1> QED
  BY <1>1, <1>2, <1>3, <1>4, <1>5, <1>6, <1>7, <1>8, <1>9, <1>10, <1>11, <1>12, <1>13, <1>14, <1>15
     DEF Next, Setup, Broadcast

LEMMA ToldStep == TypeOK /\ Mutexes /\ Walk /\ Told /\ [Next]_vars => Told'
<1> SUFFICES ASSUME TypeOK, Mutexes, Walk, Told, [Next]_vars PROVE Told'
  OBVIOUS
<1> USE HaveBroadcastAssumption DEF TypeOK, Stages, Mutexes, Walk, Told, OnItsWay, At, Goto, Enqueue, setupVars, walkVars
<1>1. ASSUME NEW s \in Sessions, NewSession(s) PROVE Told'
  BY <1>1 DEF NewSession
<1>2. ASSUME NEW s \in Sessions, LockBcast(s) PROVE Told'
  BY <1>2 DEF LockBcast
<1>3. ASSUME NEW s \in Sessions, TakeSnapshot(s) PROVE Told'
  BY <1>3 DEF TakeSnapshot
<1>4. ASSUME NEW s \in Sessions, SetReady(s) PROVE Told'
  BY <1>4 DEF SetReady
<1>5. ASSUME NEW s \in Sessions, StartLoop(s) PROVE Told'
  BY <1>5 DEF StartLoop
<1>6. ASSUME NEW s \in Sessions, NEW i \in Pieces, Own(s, i) PROVE Told'
  BY <1>6 DEF Own
<1>7. ASSUME NEW s \in Sessions, StartWalk(s) PROVE Told'
  BY <1>7 DEF StartWalk
<1>8. ASSUME NEW s \in Sessions, NEW r \in Sessions, AckHave(s, r) PROVE Told'
  BY <1>8 DEF AckHave
<1>9. ASSUME NEW s \in Sessions, LockAck(s) PROVE Told'
  BY <1>9 DEF LockAck
<1>10. ASSUME NEW s \in Sessions, AckHaveSlow(s) PROVE Told'
  BY <1>10 DEF AckHaveSlow
<1>11. ASSUME NEW s \in Sessions, EndWalk(s) PROVE Told'
  BY <1>11 DEF EndWalk
<1>12. ASSUME NEW s \in Sessions, NEW i \in Pieces, HandleBcast(s, i) PROVE Told'
  BY <1>12 DEF HandleBcast
<1>13. ASSUME NEW s \in Sessions, EndLoop(s) PROVE Told'
  BY <1>13 DEF EndLoop
<1>14. ASSUME NEW s \in Sessions, CleanUp(s) PROVE Told'
  BY <1>14 DEF CleanUp
<1>15. CASE UNCHANGED vars
  BY <1>15 DEF vars
<1> QED
  BY <1>1, <1>2, <1>3, <1>4, <1>5, <1>6, <1>7, <1>8, <1>9, <1>10, <1>11, <1>12, <1>13, <1>14, <1>15
     DEF Next, Setup, Broadcast

LEMMA Invariance == Spec => []IInv
<1>1. IInv /\ [Next]_vars => IInv'
  BY TypesStep, MutexesStep, WalkStep, ToldStep DEF IInv
<1> QED
  BY InitIInv, <1>1, PTL DEF Spec
-----------------------------------------------------------------------------
\* The shape of the collection, the walk and the queues.
THEOREM TypeCorrect == Spec => []TypeOK
<1>1. IInv => TypeOK
  BY DEF IInv
<1> QED
  BY Invariance, <1>1, PTL

\* Session.cpp:18-22 with Session.hpp:124-132: no session that runs has missed a
\* broadcast, wherever the walk met its setup.
THEOREM NoBroadcastIsLost == Spec => []NoHaveLost
<1>1. IInv => NoHaveLost
  BY DEF IInv, Told, OnItsWay, NoHaveLost, At
<1> QED
  BY Invariance, <1>1, PTL

\* Session.cpp:181-182: setOwned comes before broadcastHave, so nothing is
\* advertised that a REQUEST could not be served from.
THEOREM AdvertisedIsOwned == Spec => []NothingInvented
<1>1. IInv => NothingInvented
  BY DEF IInv, Told, OnItsWay, NothingInvented
<1> QED
  BY Invariance, <1>1, PTL

\* SessionCollection.cpp:179 and SessionCollection.hpp:142: the walk and the
\* cleanup exclude each other.
THEOREM WalkIsSafe == Spec => []WalkOnLiveSessions
<1>1. IInv => WalkOnLiveSessions
  BY DEF IInv, Walk, WalkOnLiveSessions
<1> QED
  BY Invariance, <1>1, PTL
=============================================================================
