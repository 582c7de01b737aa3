--------------------------- MODULE DownloadProofs ---------------------------
(***************************************************************************)
(* Machine-checked proofs about Download, for every finite set of pieces   *)
(* and every set of sessions.                                              *)
(***************************************************************************)
EXTENDS Download, FiniteSetTheorems, TLAPS

-----------------------------------------------------------------------------
(***************************************************************************)
(* The inductive invariant: types without their numeric bounds, who is     *)
(* inside which mutex, what a claim means for the table, what has been     *)
(* stored and logged by which location, and the value of the counter.      *)
(***************************************************************************)
Types ==
  /\ sv \in [Pieces -> Status]
  /\ nOwned \in Nat
  /\ mSv \in Sessions \cup {NoSession}
  /\ mReq \in Sessions \cup {NoSession}
  /\ pc \in [Sessions -> Locations]
  /\ peerOwn \in [Sessions -> SUBSET Pieces]
  /\ unchoked \in [Sessions -> BOOLEAN]
  /\ candidates \in [Sessions -> SUBSET Pieces]
  /\ asked \in [Sessions -> SUBSET Pieces]
  /\ current \in [Sessions -> Pieces]
  /\ saved \in SUBSET Pieces
  /\ logged \in [Pieces -> Nat]
  /\ fileLogged \in Nat

\* Each mutex is held by exactly the thread that is inside its section.
Mutexes ==
  \A s \in Sessions :
    /\ pc[s] \in {"scan", "mark"} <=> mReq = s
    /\ pc[s] = "publish" <=> mSv = s

\* The locations of a thread that is storing current[s].
Storing(s) == pc[s] \in {"save", "log", "own", "publish"}

Claims ==
  /\ \A s, t \in Sessions : s # t =>
       /\ asked[s] \cap asked[t] = {}
       /\ Storing(s) => current[s] \notin asked[t]
       /\ Storing(s) /\ Storing(t) => current[s] # current[t]
  /\ \A s \in Sessions :
       /\ \A i \in asked[s] : sv[i] = "REQUESTED"
       /\ Storing(s) => sv[current[s]] = "REQUESTED" /\ current[s] \notin asked[s]
       /\ pc[s] = "mark" => \A i \in candidates[s] : sv[i] = "ABSENT"
       /\ pc[s] # "panic"

Stores ==
  /\ \A i \in Pieces : sv[i] = "OWNED" => i \in saved /\ logged[i] # 0
  /\ \A i \in Pieces : sv[i] = "ABSENT" => i \notin saved
  /\ \A s \in Sessions :
       /\ asked[s] \cap saved = {}
       /\ pc[s] = "save" => current[s] \notin saved
       /\ pc[s] \in {"log", "own", "publish"} => current[s] \in saved
       /\ pc[s] \in {"own", "publish"} => logged[current[s]] # 0

Count ==
  /\ nOwned = Cardinality(OwnedIn(sv)) + (IF mSv = NoSession THEN 0 ELSE 1)
  /\ \A i \in Pieces : logged[i] <= N
  /\ fileLogged <= 1
  /\ fileLogged = 1 => nOwned = N /\ mSv = NoSession

IInv == Types /\ Mutexes /\ Claims /\ Stores /\ Count
-----------------------------------------------------------------------------
\* Owned pieces can be counted, and only the full set has the full count.
LEMMA CountOfOwned ==
  ASSUME NEW f \in [Pieces -> Status]
  PROVE  /\ IsFiniteSet(OwnedIn(f))
         /\ Cardinality(OwnedIn(f)) \in Nat
         /\ N \in Nat
         /\ Cardinality(OwnedIn(f)) <= N
         /\ Cardinality(OwnedIn(f)) = N => OwnedIn(f) = Pieces
<1>1. OwnedIn(f) \in SUBSET Pieces
  BY DEF OwnedIn
<1>2. IsFiniteSet(Pieces) /\ N \in Nat
  BY DownloadAssumption, FS_CardinalityType DEF N
<1> QED
  BY <1>1, <1>2, FS_Subset, FS_CardinalityType DEF N

\* Marking a piece that was not owned raises the count by one.
LEMMA CountOfOneMore ==
  ASSUME NEW f \in [Pieces -> Status], NEW i \in Pieces, f[i] # "OWNED"
  PROVE  /\ OwnedIn([f EXCEPT ![i] = "OWNED"]) = OwnedIn(f) \cup {i}
         /\ Cardinality(OwnedIn(f) \cup {i}) = Cardinality(OwnedIn(f)) + 1
         /\ OwnedIn(f) \cup {i} \in SUBSET Pieces
         /\ Cardinality(OwnedIn(f)) + 1 <= N
         /\ Cardinality(OwnedIn(f)) + 1 = N => OwnedIn(f) \cup {i} = Pieces
<1>1. OwnedIn([f EXCEPT ![i] = "OWNED"]) = OwnedIn(f) \cup {i}
  BY DEF OwnedIn
<1>2. IsFiniteSet(OwnedIn(f)) /\ i \notin OwnedIn(f)
  BY CountOfOwned DEF OwnedIn
<1>3. Cardinality(OwnedIn(f) \cup {i}) = Cardinality(OwnedIn(f)) + 1
  BY <1>2, FS_AddElement
<1>4. OwnedIn(f) \cup {i} \in SUBSET Pieces
  BY DEF OwnedIn
<1>5. IsFiniteSet(Pieces)
  BY DownloadAssumption
<1> QED
  BY <1>1, <1>3, <1>4, <1>5, FS_Subset DEF N

\* With two pieces still in the hands of threads the count is two short.
LEMMA CountOfTwoMore ==
  ASSUME NEW f \in [Pieces -> Status], NEW i \in Pieces, NEW j \in Pieces,
         i # j, f[i] # "OWNED", f[j] # "OWNED"
  PROVE  Cardinality(OwnedIn(f)) + 2 <= N
<1> DEFINE g == [f EXCEPT ![i] = "OWNED"]
<1>1. g \in [Pieces -> Status] /\ g[j] # "OWNED"
  BY DEF Status
<1>2. Cardinality(OwnedIn(g)) = Cardinality(OwnedIn(f)) + 1
  <2>1. /\ OwnedIn(g) = OwnedIn(f) \cup {i}
        /\ Cardinality(OwnedIn(f) \cup {i}) = Cardinality(OwnedIn(f)) + 1
    BY CountOfOneMore, Zenon
  <2> QED
    BY <2>1, Zenon
<1>3. Cardinality(OwnedIn(g)) + 1 <= N
  <2> HIDE DEF g
  <2> QED BY <1>1, CountOfOneMore
<1> QED
  BY <1>2, <1>3, CountOfOwned
-----------------------------------------------------------------------------
LEMMA InitIInv == Init => IInv
<1> SUFFICES ASSUME Init PROVE IInv
  OBVIOUS
<1> USE DownloadAssumption DEF Init
<1>1. Types
  BY DEF Types, Status, Locations
<1>2. Mutexes
  BY DEF Mutexes
<1>3. Claims
  BY DEF Claims, Storing
<1>4. Stores
  BY DEF Stores
<1>5. Count
  <2>1. OwnedIn(sv) = {}
    BY DEF OwnedIn
  <2>2. N \in Nat
    BY <1>1, CountOfOwned DEF Types
  <2>3. Cardinality(OwnedIn(sv)) = 0
    BY <2>1, FS_EmptySet, Zenon
  <2>4. nOwned = 0 /\ fileLogged = 0 /\ mSv = NoSession /\ \A i \in Pieces : logged[i] = 0
    OBVIOUS
  <2> QED
    BY <2>2, <2>3, <2>4 DEF Count
<1> QED
  BY <1>1, <1>2, <1>3, <1>4, <1>5 DEF IInv

LEMMA TypesStep == Types /\ [Next]_vars => Types'
<1> SUFFICES ASSUME Types, [Next]_vars PROVE Types'
  OBVIOUS
<1> USE DEF Types, Status, Locations, At, Goto, table, locks, store
<1>1. ASSUME NEW s \in Sessions, HandleChoke(s) PROVE Types'
  BY <1>1 DEF HandleChoke
<1>2. ASSUME NEW s \in Sessions, HandleUnchoke(s) PROVE Types'
  BY <1>2 DEF HandleUnchoke
<1>3. ASSUME NEW s \in Sessions, NEW i \in Pieces, HandleHave(s, i) PROVE Types'
  BY <1>3 DEF HandleHave
<1>4. ASSUME NEW s \in Sessions, NEW i \in Pieces, HandlePiece(s, i) PROVE Types'
  BY <1>4 DEF HandlePiece
<1>5. ASSUME NEW s \in Sessions, LockReq(s) PROVE Types'
  BY <1>5 DEF LockReq
<1>6. ASSUME NEW s \in Sessions, Scan(s) PROVE Types'
  BY <1>6 DEF Scan, Eligible
<1>7. ASSUME NEW s \in Sessions, Mark(s) PROVE Types'
  BY <1>7 DEF Mark
<1>8. ASSUME NEW s \in Sessions, Save(s) PROVE Types'
  BY <1>8 DEF Save
<1>9. ASSUME NEW s \in Sessions, Log(s) PROVE Types'
  BY <1>9 DEF Log
<1>10. ASSUME NEW s \in Sessions, CountOwned(s) PROVE Types'
  BY <1>10 DEF CountOwned
<1>11. ASSUME NEW s \in Sessions, PublishOwned(s) PROVE Types'
  BY <1>11 DEF PublishOwned
<1>12. CASE UNCHANGED vars
  BY <1>12 DEF vars
<1> QED
  BY <1>1, <1>2, <1>3, <1>4, <1>5, <1>6, <1>7, <1>8, <1>9, <1>10, <1>11, <1>12
     DEF Next, Thread, Receive

LEMMA MutexesStep == Types /\ Mutexes /\ [Next]_vars => Mutexes'
<1> SUFFICES ASSUME Types, Mutexes, [Next]_vars PROVE Mutexes'
  OBVIOUS
<1> USE DownloadAssumption DEF Types, Mutexes, Locations, At, Goto, table, locks, store
<1>1. ASSUME NEW s \in Sessions, HandleChoke(s) PROVE Mutexes'
  BY <1>1 DEF HandleChoke
<1>2. ASSUME NEW s \in Sessions, HandleUnchoke(s) PROVE Mutexes'
  BY <1>2 DEF HandleUnchoke
<1>3. ASSUME NEW s \in Sessions, NEW i \in Pieces, HandleHave(s, i) PROVE Mutexes'
  BY <1>3 DEF HandleHave
<1>4. ASSUME NEW s \in Sessions, NEW i \in Pieces, HandlePiece(s, i) PROVE Mutexes'
  BY <1>4 DEF HandlePiece
<1>5. ASSUME NEW s \in Sessions, LockReq(s) PROVE Mutexes'
  BY <1>5 DEF LockReq
<1>6. ASSUME NEW s \in Sessions, Scan(s) PROVE Mutexes'
  BY <1>6 DEF Scan
<1>7. ASSUME NEW s \in Sessions, Mark(s) PROVE Mutexes'
  BY <1>7 DEF Mark
<1>8. ASSUME NEW s \in Sessions, Save(s) PROVE Mutexes'
  BY <1>8 DEF Save
<1>9. ASSUME NEW s \in Sessions, Log(s) PROVE Mutexes'
  BY <1>9 DEF Log
<1>10. ASSUME NEW s \in Sessions, CountOwned(s) PROVE Mutexes'
  BY <1>10 DEF CountOwned
<1>11. ASSUME NEW s \in Sessions, PublishOwned(s) PROVE Mutexes'
  BY <1>11 DEF PublishOwned
<1>12. CASE UNCHANGED vars
  BY <1>12 DEF vars
<1> QED
  BY <1>1, <1>2, <1>3, <1>4, <1>5, <1>6, <1>7, <1>8, <1>9, <1>10, <1>11, <1>12
     DEF Next, Thread, Receive

LEMMA ClaimsStep == Types /\ Mutexes /\ Claims /\ [Next]_vars => Claims'
<1> SUFFICES ASSUME Types, Mutexes, Claims, [Next]_vars PROVE Claims'
  OBVIOUS
<1> USE DownloadAssumption DEF Types, Mutexes, Claims, Storing, Locations, Status, At, Goto, table, locks, store
<1>1. ASSUME NEW s \in Sessions, HandleChoke(s) PROVE Claims'
  BY <1>1 DEF HandleChoke
<1>2. ASSUME NEW s \in Sessions, HandleUnchoke(s) PROVE Claims'
  BY <1>2 DEF HandleUnchoke
<1>3. ASSUME NEW s \in Sessions, NEW i \in Pieces, HandleHave(s, i) PROVE Claims'
  BY <1>3 DEF HandleHave
<1>4. ASSUME NEW s \in Sessions, NEW i \in Pieces, HandlePiece(s, i) PROVE Claims'
  BY <1>4 DEF HandlePiece
<1>5. ASSUME NEW s \in Sessions, LockReq(s) PROVE Claims'
  BY <1>5 DEF LockReq
<1>6. ASSUME NEW s \in Sessions, Scan(s) PROVE Claims'
  BY <1>6 DEF Scan, Eligible
<1>7. ASSUME NEW s \in Sessions, Mark(s) PROVE Claims'
  BY <1>7 DEF Mark
<1>8. ASSUME NEW s \in Sessions, Save(s) PROVE Claims'
  BY <1>8 DEF Save
<1>9. ASSUME NEW s \in Sessions, Log(s) PROVE Claims'
  BY <1>9 DEF Log
<1>10. ASSUME NEW s \in Sessions, CountOwned(s) PROVE Claims'
  BY <1>10 DEF CountOwned
<1>11. ASSUME NEW s \in Sessions, PublishOwned(s) PROVE Claims'
  BY <1>11 DEF PublishOwned
<1>12. CASE UNCHANGED vars
  BY <1>12 DEF vars
<1> QED
  BY <1>1, <1>2, <1>3, <1>4, <1>5, <1>6, <1>7, <1>8, <1>9, <1>10, <1>11, <1>12
     DEF Next, Thread, Receive

LEMMA StoresStep == Types /\ Mutexes /\ Claims /\ Stores /\ [Next]_vars => Stores'
<1> SUFFICES ASSUME Types, Mutexes, Claims, Stores, [Next]_vars PROVE Stores'
  OBVIOUS
<1> USE DownloadAssumption DEF Types, Mutexes, Claims, Stores, Storing, Locations, Status, At, Goto, table, locks, store
<1>1. ASSUME NEW s \in Sessions, HandleChoke(s) PROVE Stores'
  BY <1>1 DEF HandleChoke
<1>2. ASSUME NEW s \in Sessions, HandleUnchoke(s) PROVE Stores'
  BY <1>2 DEF HandleUnchoke
<1>3. ASSUME NEW s \in Sessions, NEW i \in Pieces, HandleHave(s, i) PROVE Stores'
  BY <1>3 DEF HandleHave
<1>4. ASSUME NEW s \in Sessions, NEW i \in Pieces, HandlePiece(s, i) PROVE Stores'
  BY <1>4 DEF HandlePiece
<1>5. ASSUME NEW s \in Sessions, LockReq(s) PROVE Stores'
  BY <1>5 DEF LockReq
<1>6. ASSUME NEW s \in Sessions, Scan(s) PROVE Stores'
  BY <1>6 DEF Scan
<1>7. ASSUME NEW s \in Sessions, Mark(s) PROVE Stores'
  BY <1>7 DEF Mark
<1>8. ASSUME NEW s \in Sessions, Save(s) PROVE Stores'
  BY <1>8 DEF Save
<1>9. ASSUME NEW s \in Sessions, Log(s) PROVE Stores'
  BY <1>9 DEF Log
<1>10. ASSUME NEW s \in Sessions, CountOwned(s) PROVE Stores'
  BY <1>10 DEF CountOwned
<1>11. ASSUME NEW s \in Sessions, PublishOwned(s) PROVE Stores'
  BY <1>11 DEF PublishOwned
<1>12. CASE UNCHANGED vars
  BY <1>12 DEF vars
<1> QED
  BY <1>1, <1>2, <1>3, <1>4, <1>5, <1>6, <1>7, <1>8, <1>9, <1>10, <1>11, <1>12
     DEF Next, Thread, Receive
LEMMA CountStep == Types /\ Mutexes /\ Claims /\ Count /\ [Next]_vars => Count'
<1> SUFFICES ASSUME Types, Mutexes, Claims, Count, [Next]_vars PROVE Count'
  OBVIOUS
<1> USE DEF table, locks, store
<1>0. /\ N \in Nat /\ N' = N
      /\ Cardinality(OwnedIn(sv)) \in Nat
      /\ Cardinality(OwnedIn(sv)) <= N
  BY CountOfOwned DEF Types, N
<1>1. ASSUME UNCHANGED <<table, mSv, logged, fileLogged>> PROVE Count'
  BY <1>0, <1>1 DEF Count, OwnedIn
<1>2. ASSUME NEW s \in Sessions, HandleChoke(s) PROVE Count'
  BY <1>1, <1>2 DEF HandleChoke
<1>3. ASSUME NEW s \in Sessions, HandleUnchoke(s) PROVE Count'
  BY <1>1, <1>3 DEF HandleUnchoke
<1>4. ASSUME NEW s \in Sessions, NEW i \in Pieces, HandleHave(s, i) PROVE Count'
  BY <1>1, <1>4 DEF HandleHave
<1>5. ASSUME NEW s \in Sessions, NEW i \in Pieces, HandlePiece(s, i) PROVE Count'
  BY <1>1, <1>5 DEF HandlePiece
<1>6. ASSUME NEW s \in Sessions, LockReq(s) PROVE Count'
  BY <1>1, <1>6 DEF LockReq
<1>7. ASSUME NEW s \in Sessions, Scan(s) PROVE Count'
  BY <1>1, <1>7 DEF Scan
<1>8. ASSUME NEW s \in Sessions, Mark(s) PROVE Count'
  <2>1. OwnedIn(sv') = OwnedIn(sv)
    BY <1>8 DEF Mark, At, Claims, Types, OwnedIn
  <2> QED
    BY <1>0, <1>8, <2>1 DEF Mark, Count
<1>9. ASSUME NEW s \in Sessions, Save(s) PROVE Count'
  BY <1>1, <1>9 DEF Save
<1>10. ASSUME NEW s \in Sessions, Log(s) PROVE Count'
  <2>1. current[s] \in Pieces /\ sv[current[s]] = "REQUESTED"
    BY <1>10 DEF Log, At, Claims, Storing, Types
  <2>2. nOwned + 1 <= N
    <3>1. CASE mSv = NoSession
      <4>1. sv \in [Pieces -> Status] /\ sv[current[s]] # "OWNED"
        BY <2>1 DEF Types
      <4>2. Cardinality(OwnedIn(sv)) + 1 <= N
        BY <2>1, <4>1, CountOfOneMore
      <4> QED
        BY <1>0, <3>1, <4>2 DEF Count
    <3>2. CASE mSv # NoSession
      <4>1. /\ mSv \in Sessions /\ mSv # s /\ pc[mSv] = "publish" /\ pc[s] = "log"
        BY <1>10, <3>2 DEF Types, Mutexes, Log, At
      <4>2. /\ current[mSv] \in Pieces /\ current[mSv] # current[s]
            /\ sv[current[mSv]] = "REQUESTED"
        BY <4>1 DEF Claims, Storing, Types
      <4> QED
        BY <1>0, <2>1, <3>2, <4>2, CountOfTwoMore DEF Count, Types
    <3> QED
      BY <3>1, <3>2
  <2> QED
    BY <1>0, <1>10, <2>1, <2>2 DEF Log, Count, Types, OwnedIn
<1>11. ASSUME NEW s \in Sessions, CountOwned(s) PROVE Count'
  <2>1. /\ current[s] \in Pieces /\ sv[current[s]] = "REQUESTED"
        /\ mSv = NoSession /\ mSv' # NoSession /\ nOwned' = nOwned + 1
        /\ UNCHANGED <<sv, logged, fileLogged>>
    BY <1>11, DownloadAssumption DEF CountOwned, At, Claims, Storing, Types
  <2>2. Cardinality(OwnedIn(sv)) + 1 <= N
    BY <2>1, CountOfOneMore DEF Types
  <2>3. fileLogged # 1
    BY <1>0, <2>1, <2>2 DEF Count
  <2> QED
    BY <1>0, <2>1, <2>3 DEF Count, Types
<1>12. ASSUME NEW s \in Sessions, PublishOwned(s) PROVE Count'
  <2>1. /\ current[s] \in Pieces /\ sv[current[s]] = "REQUESTED"
        /\ mSv # NoSession /\ mSv' = NoSession
        /\ sv' = [sv EXCEPT ![current[s]] = "OWNED"]
        /\ fileLogged' = IF nOwned = N THEN fileLogged + 1 ELSE fileLogged
        /\ UNCHANGED <<nOwned, logged>>
    BY <1>12, DownloadAssumption
       DEF PublishOwned, At, Claims, Storing, Types, Mutexes, OwningAll
  <2>2. Cardinality(OwnedIn(sv')) = Cardinality(OwnedIn(sv)) + 1
    <3>1. sv \in [Pieces -> Status] /\ sv[current[s]] # "OWNED"
      BY <2>1 DEF Types
    <3>2. /\ OwnedIn([sv EXCEPT ![current[s]] = "OWNED"]) = OwnedIn(sv) \cup {current[s]}
          /\ Cardinality(OwnedIn(sv) \cup {current[s]}) = Cardinality(OwnedIn(sv)) + 1
      BY <2>1, <3>1, CountOfOneMore
    <3> QED
      BY <2>1, <3>2
  <2>3. fileLogged = 0
    BY <2>1 DEF Count, Types
  <2> QED
    BY <1>0, <2>1, <2>2, <2>3 DEF Count, Types
<1>13. CASE UNCHANGED vars
  BY <1>1, <1>13 DEF vars
<1> QED
  BY <1>2, <1>3, <1>4, <1>5, <1>6, <1>7, <1>8, <1>9, <1>10, <1>11, <1>12, <1>13
     DEF Next, Thread, Receive

LEMMA Invariance == Spec => []IInv
<1>1. IInv /\ [Next]_vars => IInv'
  BY TypesStep, MutexesStep, ClaimsStep, StoresStep, CountStep DEF IInv
<1> QED
  BY InitIInv, <1>1, PTL DEF Spec
-----------------------------------------------------------------------------
\* Types and bounds: in particular the counter never exceeds the number of
\* pieces and the complete file is reported at most once.
THEOREM TypeCorrect == Spec => []TypeOK
<1>1. IInv => TypeOK
  <2> SUFFICES ASSUME IInv PROVE TypeOK
    OBVIOUS
  <2>1. N \in Nat /\ Cardinality(OwnedIn(sv)) \in Nat /\ Cardinality(OwnedIn(sv)) <= N
    BY CountOfOwned DEF IInv, Types
  <2>2. nOwned <= N
    <3>1. CASE mSv = NoSession
      BY <2>1, <3>1 DEF IInv, Count
    <3>2. CASE mSv # NoSession
      <4>1. mSv \in Sessions /\ current[mSv] \in Pieces /\ sv[current[mSv]] = "REQUESTED"
        BY <3>2 DEF IInv, Types, Mutexes, Claims, Storing
      <4> QED
        BY <2>1, <3>2, <4>1, CountOfOneMore DEF IInv, Count, Types
    <3> QED
      BY <3>1, <3>2
  <2> QED
    BY <2>1, <2>2 DEF IInv, Types, Count, TypeOK
<1> QED
  BY Invariance, <1>1, PTL

\* Session.cpp:57: scan, choice and mark are atomic, so no piece is ever asked
\* for twice or stored twice.
THEOREM ClaimsAreExclusive == Spec => []ExclusiveClaim
<1>1. IInv => ExclusiveClaim
  BY DEF IInv, Claims, Storing, ExclusiveClaim, InHand
<1> QED
  BY Invariance, <1>1, PTL

\* Session.cpp:175 cannot be reached.
THEOREM NoPanicOnPiece == Spec => []NoUnrequestedPiece
<1>1. IInv => NoUnrequestedPiece
  BY DEF IInv, Claims, NoUnrequestedPiece
<1> QED
  BY Invariance, <1>1, PTL

\* PieceRepository.cpp:15 and :37: what is owned, by the table or by the
\* lock-free counter, is in the repository, and it got there once.
THEOREM OwnedPiecesAreStored == Spec => []OwnedIsStored
<1>1. IInv => OwnedIsStored
  <2> SUFFICES ASSUME IInv PROVE OwnedIsStored
    OBVIOUS
  <2>1. OwnedIn(sv) \subseteq saved
    BY DEF IInv, Types, Stores, OwnedIn
  <2>2. ASSUME nOwned = N PROVE saved = Pieces
    <3>1. CASE mSv = NoSession
      <4>1. Cardinality(OwnedIn(sv)) = N
        BY <2>2, <3>1, CountOfOwned DEF IInv, Types, Count
      <4> QED
        BY <2>1, <4>1, CountOfOwned DEF IInv, Types
    <3>2. CASE mSv # NoSession
      <4> DEFINE i == current[mSv]
      <4>1. mSv \in Sessions /\ pc[mSv] = "publish"
        BY <3>2 DEF IInv, Types, Mutexes
      <4>2. i \in Pieces /\ sv[i] # "OWNED" /\ i \in saved
        BY <4>1 DEF IInv, Types, Claims, Stores, Storing
      <4>3. Cardinality(OwnedIn(sv)) + 1 = N
        BY <2>2, <3>2, CountOfOwned DEF IInv, Types, Count
      <4>4. OwnedIn(sv) \cup {i} = Pieces
        <5> HIDE DEF i
        <5> QED BY <4>2, <4>3, CountOfOneMore DEF IInv, Types
      <4> QED
        BY <2>1, <4>2, <4>4 DEF IInv, Types
    <3> QED
      BY <3>1, <3>2
  <2> QED
    BY <2>1, <2>2 DEF OwnedIsStored, OwningAll
<1> QED
  BY Invariance, <1>1, PTL

\* PieceRepository.cpp:37: a piece is saved while it is REQUESTED, and once.
THEOREM SavesAreLegal == Spec => []SavePrecondition
<1>1. IInv => SavePrecondition
  BY DEF IInv, Claims, Stores, Storing, SavePrecondition
<1> QED
  BY Invariance, <1>1, PTL

\* SyncPieceBitfield.hpp:56-68: the lock-free counter runs ahead of the table by
\* the one thread inside setOwned, and by nothing else.
THEOREM CounterIsExact == Spec => []CounterAgrees
<1>1. IInv => CounterAgrees
  <2> SUFFICES ASSUME IInv PROVE CounterAgrees
    OBVIOUS
  <2>1. Publishing = IF mSv = NoSession THEN {} ELSE {mSv}
    BY DownloadAssumption DEF IInv, Types, Mutexes, Publishing
  <2>2. Cardinality(Publishing) = IF mSv = NoSession THEN 0 ELSE 1
    BY <2>1, FS_EmptySet, FS_Singleton
  <2> QED
    BY <2>2 DEF IInv, Count, CounterAgrees
<1> QED
  BY Invariance, <1>1, PTL

\* Session.cpp:177-178: the line of the complete file comes last and once.
THEOREM FileIsLoggedLast == Spec => []FileLoggedLast
<1>1. IInv => FileLoggedLast
  <2> SUFFICES ASSUME IInv PROVE FileLoggedLast
    OBVIOUS
  <2>1. ASSUME fileLogged = 1 PROVE \A i \in Pieces : logged[i] # 0
    <3>1. Cardinality(OwnedIn(sv)) = N
      BY <2>1, CountOfOwned DEF IInv, Types, Count
    <3>2. OwnedIn(sv) = Pieces
      BY <3>1, CountOfOwned DEF IInv, Types
    <3> QED
      BY <3>2 DEF IInv, Stores, OwnedIn
  <2> QED
    BY <2>1 DEF IInv, Count, FileLoggedLast
<1> QED
  BY Invariance, <1>1, PTL

\* Session.hpp:70-74: a piece never falls back, so "not interested" stays honest.
THEOREM NoRegress == Spec => StatusNeverRegresses
<1>1. IInv /\ [Next]_vars =>
        [\A i \in Pieces : \/ sv'[i] = sv[i]
                           \/ sv[i] = "ABSENT" /\ sv'[i] = "REQUESTED"
                           \/ sv[i] = "REQUESTED" /\ sv'[i] = "OWNED"]_vars
  <2> SUFFICES ASSUME IInv, Next
               PROVE \A i \in Pieces : \/ sv'[i] = sv[i]
                                       \/ sv[i] = "ABSENT" /\ sv'[i] = "REQUESTED"
                                       \/ sv[i] = "REQUESTED" /\ sv'[i] = "OWNED"
    OBVIOUS
  <2> PICK s \in Sessions : Thread(s) \/ Receive(s)
    BY DEF Next
  <2> USE DEF IInv, Types, Claims, Storing, At
  <2>1. CASE Mark(s)
    BY <2>1 DEF Mark
  <2>2. CASE PublishOwned(s)
    BY <2>2 DEF PublishOwned
  <2>3. CASE ~Mark(s) /\ ~PublishOwned(s)
    BY <2>3 DEF Thread, Receive, HandleChoke, HandleUnchoke, HandleHave, HandlePiece,
                LockReq, Scan, Save, Log, CountOwned, table
  <2> QED
    BY <2>1, <2>2, <2>3
<1> QED
  BY Invariance, <1>1, PTL DEF Spec, StatusNeverRegresses
-----------------------------------------------------------------------------
\* Session.cpp:57 once more, as refinement: every step of a session thread is a
\* step of the ledger of claims, or none.
THEOREM ImplementsLedger == Spec => LedgerSpec
<1>1. Init => Ledger!Init
  BY DEF Init, Ledger!Init, InHand, OwnedIn
<1>2. IInv /\ [Next]_vars => [Ledger!Next]_(Ledger!vars)
  <2> SUFFICES ASSUME IInv, [Next]_vars PROVE [Ledger!Next]_(Ledger!vars)
    OBVIOUS
  <2> DEFINE claims == [s \in Sessions |-> InHand(s)]
  <2> USE DEF IInv, Types, Claims, Storing, At, Goto, table, locks, store
  <2>1. ASSUME OwnedIn(sv)' = OwnedIn(sv), \A s \in Sessions : InHand(s)' = InHand(s)
        PROVE  UNCHANGED Ledger!vars
    BY <2>1 DEF Ledger!vars
  <2>2. ASSUME NEW s \in Sessions, Receive(s) PROVE UNCHANGED Ledger!vars
    <3>1. OwnedIn(sv)' = OwnedIn(sv)
      BY <2>2 DEF Receive, HandleChoke, HandleUnchoke, HandleHave, HandlePiece
    <3>2. CASE HandleChoke(s)
      BY <2>1, <3>1, <3>2 DEF HandleChoke, InHand
    <3>3. CASE HandleUnchoke(s)
      BY <2>1, <3>1, <3>3 DEF HandleUnchoke, InHand
    <3>4. ASSUME NEW i \in Pieces, HandleHave(s, i) PROVE UNCHANGED Ledger!vars
      BY <2>1, <3>1, <3>4 DEF HandleHave, InHand
    <3>5. ASSUME NEW i \in Pieces, HandlePiece(s, i) PROVE UNCHANGED Ledger!vars
      BY <2>1, <3>1, <3>5 DEF HandlePiece, InHand
    <3> QED
      BY <2>2, <3>2, <3>3, <3>4, <3>5 DEF Receive
  <2>3. ASSUME NEW s \in Sessions, Mark(s) PROVE Ledger!Next
    <3>1. PICK i \in candidates[s] : /\ sv' = [sv EXCEPT ![i] = "REQUESTED"]
                                     /\ asked' = [asked EXCEPT ![s] = @ \cup {i}]
      BY <2>3 DEF Mark
    <3>2. i \in Pieces /\ sv[i] = "ABSENT" /\ pc[s] = "mark" /\ pc' = [pc EXCEPT ![s] = "loop"]
      BY <2>3, <3>1 DEF Mark
    <3>3. OwnedIn(sv)' = OwnedIn(sv) /\ i \notin OwnedIn(sv)
      BY <3>1, <3>2 DEF OwnedIn
    <3>4. \A t \in Sessions : i \notin InHand(t)
      BY <3>2 DEF InHand
    <3>5. claims' = [claims EXCEPT ![s] = @ \cup {i}]
      <4>1. \A t \in Sessions :
              InHand(t)' = IF t = s THEN InHand(s) \cup {i} ELSE InHand(t)
        BY <2>3, <3>1, <3>2 DEF Mark, InHand
      <4> QED
        BY <4>1
    <3>6. Ledger!Claim(s, i)
      BY <3>3, <3>4, <3>5 DEF Ledger!Claim
    <3> QED
      BY <3>2, <3>6 DEF Ledger!Next
  <2>4. ASSUME NEW s \in Sessions, PublishOwned(s) PROVE Ledger!Next
    <3> DEFINE i == current[s]
    <3>1. i \in Pieces /\ i \in InHand(s) /\ sv[i] = "REQUESTED"
      BY <2>4 DEF PublishOwned, InHand
    <3>2. OwnedIn(sv)' = OwnedIn(sv) \cup {i}
      BY <2>4, <3>1 DEF PublishOwned, OwnedIn
    <3>3. claims' = [claims EXCEPT ![s] = @ \ {i}]
      <4>1. \A t \in Sessions :
              InHand(t)' = IF t = s THEN InHand(s) \ {i} ELSE InHand(t)
        <5>1. InHand(s)' = InHand(s) \ {i}
          BY <2>4 DEF PublishOwned, InHand
        <5>2. ASSUME NEW t \in Sessions, t # s PROVE InHand(t)' = InHand(t)
          BY <2>4, <5>2 DEF PublishOwned, InHand
        <5> QED
          BY <5>1, <5>2
      <4> QED
        BY <4>1
    <3>4. Ledger!Store(s, i)
      BY <3>1, <3>2, <3>3 DEF Ledger!Store
    <3> QED
      BY <3>1, <3>4 DEF Ledger!Next
  <2>5. ASSUME NEW s \in Sessions,
               LockReq(s) \/ Scan(s) \/ Save(s) \/ Log(s) \/ CountOwned(s)
        PROVE  UNCHANGED Ledger!vars
    <3>1. OwnedIn(sv)' = OwnedIn(sv)
      BY <2>5 DEF LockReq, Scan, Save, Log, CountOwned
    <3>2. \A t \in Sessions : InHand(t)' = InHand(t)
      BY <2>5 DEF LockReq, Scan, Save, Log, CountOwned, InHand
    <3> QED
      BY <2>1, <3>1, <3>2
  <2>6. CASE UNCHANGED vars
    BY <2>6 DEF vars, Ledger!vars, InHand, OwnedIn
  <2> QED
    BY <2>2, <2>3, <2>4, <2>5, <2>6 DEF Next, Thread
<1> QED
  BY Invariance, <1>1, <1>2, PTL DEF Spec, LedgerSpec, Ledger!Spec
=============================================================================
