----------------------- MODULE SessionCollectionProofs -----------------------
(***************************************************************************)
(* Machine-checked proofs about SessionCollection, for every finite set of *)
(* sessions, every number of seats and queues of any length.               *)
(***************************************************************************)
EXTENDS SessionCollection, FiniteSetTheorems, SequenceTheorems, TLAPS

Word == {"Choked", "Unchoked"}
-----------------------------------------------------------------------------
(***************************************************************************)
(* What is enqueued, and what it decides.                                  *)
(***************************************************************************)
LEMMA ForType ==
  ASSUME NEW S, NEW e \in Word
  PROVE  For(S, e) \in [Sessions -> Seq(Word)]
<1>1. <<e>> \in Seq(Word) /\ <<>> \in Seq(Word)
  OBVIOUS
<1> QED
  BY <1>1 DEF For

LEMMA ThenType ==
  ASSUME NEW f \in [Sessions -> Seq(Word)], NEW g \in [Sessions -> Seq(Word)]
  PROVE  Then(f, g) \in [Sessions -> Seq(Word)]
<1>1. ASSUME NEW s \in Sessions PROVE f[s] \o g[s] \in Seq(Word)
  BY f[s] \in Seq(Word), g[s] \in Seq(Word)
<1> QED
  BY <1>1 DEF Then

LEMMA TellType ==
  ASSUME timers \in [Sessions -> Seq(Word)], NEW f \in [Sessions -> Seq(Word)], Tell(f)
  PROVE  timers' \in [Sessions -> Seq(Word)]
<1>1. ASSUME NEW s \in Sessions PROVE timers[s] \o f[s] \in Seq(Word) /\ timers[s] \in Seq(Word)
  BY f[s] \in Seq(Word), timers[s] \in Seq(Word)
<1> QED
  BY <1>1 DEF Tell

LEMMA OneWord ==
  ASSUME NEW e
  PROVE  <<e>> # <<>> /\ <<e>>[Len(<<e>>)] = e
  OBVIOUS

\* The last event enqueued for a session is the decision about it.
LEMMA TellDecides ==
  ASSUME timers \in [Sessions -> Seq(Word)], NEW f \in [Sessions -> Seq(Word)], Tell(f),
         UNCHANGED peerChoke, NEW s \in Sessions, InLoop(s)
  PROVE  Decided(s)' = IF f[s] = <<>> THEN Decided(s) ELSE f[s][Len(f[s])]
<1>1. timers'[s] = timers[s] \o f[s]
  BY DEF Tell
<1>2. timers[s] \in Seq(Word) /\ f[s] \in Seq(Word)
  OBVIOUS
<1>3. CASE f[s] = <<>>
  BY <1>1, <1>2, <1>3 DEF Decided
<1>4. CASE f[s] # <<>>
  <2>1. Len(f[s]) \in Nat \ {0}
    BY <1>2, <1>4
  <2>2. timers'[s] # <<>> /\ Len(timers'[s]) = Len(timers[s]) + Len(f[s])
    BY <1>1, <1>2, <2>1
  <2>3. timers'[s][Len(timers'[s])] = f[s][Len(f[s])]
    BY <1>1, <1>2, <2>1, <2>2
  <2> QED
    BY <1>4, <2>2, <2>3 DEF Decided
<1> QED
  BY <1>3, <1>4

LEMMA TailLast ==
  ASSUME NEW q \in Seq(Word), q # <<>>
  PROVE  IF Tail(q) = <<>> THEN Head(q) = q[Len(q)] ELSE Tail(q)[Len(Tail(q))] = q[Len(q)]
<1>1. Len(q) \in Nat \ {0} /\ Tail(q) \in Seq(Word) /\ Len(Tail(q)) = Len(q) - 1
  OBVIOUS
<1>2. CASE Tail(q) = <<>>
  <2>1. Len(q) = 1
    BY <1>1, <1>2, Len(Tail(q)) = 0
  <2>2. Head(q) = q[1]
    OBVIOUS
  <2> QED
    BY <1>2, <2>1, <2>2
<1>3. CASE Tail(q) # <<>>
  <2>1. Len(Tail(q)) \in 1 .. Len(Tail(q))
    BY <1>1, <1>3
  <2>2. Tail(q)[Len(Tail(q))] = q[Len(Tail(q)) + 1]
    BY <1>1, <2>1
  <2> QED
    BY <1>1, <1>3, <2>2
<1> QED
  BY <1>2, <1>3

\* Handling the first event does not change the decision.
LEMMA HandleTimerDecides ==
  ASSUME TypeOK, NEW s \in Sessions, HandleTimer(s), NEW t \in Sessions
  PROVE  Decided(t)' = Decided(t)
<1> USE DEF TypeOK, HandleTimer
<1>1. CASE t # s
  BY <1>1 DEF Decided
<1>2. CASE t = s
  <2>1. timers[s] \in Seq(Word) /\ timers[s] # <<>>
    BY DEF Word
  <2>2. timers'[s] = Tail(timers[s]) /\ peerChoke'[s] = Head(timers[s])
    OBVIOUS
  <2> QED
    BY <1>2, <2>1, <2>2, TailLast DEF Decided
<1> QED
  BY <1>1, <1>2
-----------------------------------------------------------------------------
(***************************************************************************)
(* Types.                                                                  *)
(***************************************************************************)
LEMMA GiveUpSeatType ==
  ASSUME TypeOK, NEW s \in Sessions, GiveUpSeat(s)
  PROVE  /\ timers' \in [Sessions -> Seq(Word)]
         /\ pnSet' \subseteq pnSet
         /\ opt' \in {opt, NoSession}
<1>0. timers \in [Sessions -> Seq(Word)]
  BY DEF TypeOK, Word
<1>1. CASE s \in pnSet \/ s = opt
  <2>1. For({s}, "Choked") \in [Sessions -> Seq(Word)]
    BY ForType DEF Word
  <2>2. ASSUME NEW heir \in Eligible
        PROVE  Then(For({s}, "Choked"), For({heir}, "Unchoked")) \in [Sessions -> Seq(Word)]
    <3>1. For({heir}, "Unchoked") \in [Sessions -> Seq(Word)]
      BY ForType DEF Word
    <3> QED
      BY <2>1, <3>1, ThenType
  <2>3. timers' \in [Sessions -> Seq(Word)]
    BY <1>0, <1>1, <2>1, <2>2, TellType DEF GiveUpSeat
  <2> QED
    BY <1>1, <2>3 DEF GiveUpSeat
<1>2. CASE ~(s \in pnSet \/ s = opt)
  BY <1>0, <1>2 DEF GiveUpSeat, seats
<1> QED
  BY <1>1, <1>2

LEMMA TypesStep == TypeOK /\ [Next]_vars => TypeOK'
<1> SUFFICES ASSUME TypeOK, [Next]_vars PROVE TypeOK'
  OBVIOUS
<1>0. timers \in [Sessions -> Seq(Word)]
  BY DEF TypeOK, Word
<1> USE DEF TypeOK, Stages, At, Goto, Send, flags, seats
<1>1. ASSUME NEW s \in Sessions, NewSession(s) PROVE TypeOK'
  BY <1>1 DEF NewSession
<1>2. ASSUME NEW s \in Sessions, EndSetup(s) PROVE TypeOK'
  BY <1>2 DEF EndSetup
<1>3. ASSUME NEW s \in Sessions, HandleTimer(s) PROVE TypeOK'
  <2>1. Head(timers[s]) \in Word /\ Tail(timers[s]) \in Seq(Word)
    BY <1>0, <1>3 DEF HandleTimer
  <2> QED
    BY <1>3, <2>1 DEF HandleTimer, Word
<1>4. ASSUME NEW s \in Sessions, HandleInterested(s) PROVE TypeOK'
  BY <1>4 DEF HandleInterested
<1>5. ASSUME NEW s \in Sessions, TryPreempt(s) PROVE TypeOK'
  <2>1. For({s}, "Unchoked") \in [Sessions -> Seq(Word)]
    BY ForType DEF Word
  <2>2. timers' \in [Sessions -> Seq(Word)]
    BY <1>0, <1>5, <2>1, TellType DEF TryPreempt
  <2>3. pnSet' \subseteq Sessions /\ opt' \in Sessions \cup {NoSession}
    BY <1>5 DEF TryPreempt
  <2> QED
    BY <1>5, <2>2, <2>3 DEF TryPreempt, Word
<1>6. ASSUME NEW s \in Sessions, HandleNotInterested(s) PROVE TypeOK'
  BY <1>6 DEF HandleNotInterested
<1>7. ASSUME NEW s \in Sessions, Relinquish(s) PROVE TypeOK'
  BY <1>7, GiveUpSeatType DEF Relinquish, Word
<1>8. ASSUME NEW s \in Sessions, EndLoop(s) PROVE TypeOK'
  BY <1>8 DEF EndLoop
<1>9. ASSUME NEW s \in Sessions, LastRelinquish(s) PROVE TypeOK'
  BY <1>9, GiveUpSeatType DEF LastRelinquish, Word
<1>10. ASSUME NEW s \in Sessions, NotifyCleanUp(s) PROVE TypeOK'
  BY <1>10 DEF NotifyCleanUp
<1>11. ASSUME CleanUp PROVE TypeOK'
  BY <1>11 DEF CleanUp
<1>12. ASSUME PnTick PROVE TypeOK'
  <2>1. PICK F \in Fronts :
          LET new == {s \in F : Active(s)}
              supplanted == pnSet \ new
          IN  /\ pnSet' = new
              /\ opt' = IF supplanted # {} THEN NoSession ELSE opt
              /\ Tell(Then(For(supplanted, "Choked"), For(new, "Unchoked")))
              /\ Use(supplanted)
    BY <1>12 DEF PnTick
  <2> DEFINE new == {s \in F : Active(s)}
             supplanted == pnSet \ new
  <2>2. Then(For(supplanted, "Choked"), For(new, "Unchoked")) \in [Sessions -> Seq(Word)]
    <3>1. For(supplanted, "Choked") \in [Sessions -> Seq(Word)]
      BY ForType DEF Word
    <3>2. For(new, "Unchoked") \in [Sessions -> Seq(Word)]
      BY ForType DEF Word
    <3> QED
      BY <3>1, <3>2, ThenType
  <2>3. timers' \in [Sessions -> Seq(Word)]
    BY <1>0, <2>1, <2>2, TellType
  <2>4. F \subseteq ss
    BY DEF Fronts
  <2>5. crashed' \in BOOLEAN
    BY <2>1 DEF Use
  <2> QED
    BY <1>12, <2>1, <2>3, <2>4, <2>5 DEF PnTick, Word
<1>13. ASSUME OptTick PROVE TypeOK'
  <2>1. PICK lucky \in Eligible :
          opt' = lucky /\ Tell(Then(For({lucky}, "Unchoked"), For({opt}, "Choked")))
    BY <1>13 DEF OptTick
  <2>2. Then(For({lucky}, "Unchoked"), For({opt}, "Choked")) \in [Sessions -> Seq(Word)]
    <3>1. For({lucky}, "Unchoked") \in [Sessions -> Seq(Word)]
      BY ForType DEF Word
    <3>2. For({opt}, "Choked") \in [Sessions -> Seq(Word)]
      BY ForType DEF Word
    <3> QED
      BY <3>1, <3>2, ThenType
  <2>3. timers' \in [Sessions -> Seq(Word)]
    BY <1>0, <2>1, <2>2, TellType
  <2>4. lucky \in ss /\ crashed' \in BOOLEAN
    BY <1>13 DEF Eligible, OptTick, Use
  <2> QED
    BY <1>13, <2>1, <2>3, <2>4 DEF OptTick, Word
<1>14. CASE UNCHANGED vars
  BY <1>14 DEF vars
<1> QED
  BY <1>1, <1>2, <1>3, <1>4, <1>5, <1>6, <1>7, <1>8, <1>9, <1>10, <1>11, <1>12, <1>13, <1>14
     DEF Next, Control
-----------------------------------------------------------------------------
(***************************************************************************)
(* Whom the gc thread erases.                                              *)
(***************************************************************************)

\* Only sessions that have ended wait for the gc thread.
EndedWait == \A k \in DOMAIN gcq : stage[gcq[k]] = "ended"

LEMMA KnownStep ==
  TypeOK /\ SessionIsKnown /\ EndedWait /\ [Next]_vars => SessionIsKnown' /\ EndedWait'
<1> SUFFICES ASSUME TypeOK, SessionIsKnown, EndedWait, [Next]_vars
             PROVE  SessionIsKnown' /\ EndedWait'
  OBVIOUS
<1> DEFINE Same == UNCHANGED <<ss, gcq>>
<1>0. gcq \in Seq(Sessions) /\ \A k \in DOMAIN gcq : gcq[k] \in Sessions
  BY DEF TypeOK
<1>1. ASSUME NEW s \in Sessions, NewSession(s) PROVE SessionIsKnown' /\ EndedWait'
  BY <1>0, <1>1 DEF NewSession, At, Goto, SessionIsKnown, EndedWait, TypeOK
<1>2. ASSUME NEW s \in Sessions, Same, stage[s] \notin {"none", "ended"},
             NEW st \in Stages \ {"none", "ended"}, Goto(s, st)
      PROVE  SessionIsKnown' /\ EndedWait'
  BY <1>0, <1>2 DEF Goto, SessionIsKnown, EndedWait, TypeOK
<1>3. ASSUME NEW s \in Sessions, EndSetup(s) PROVE SessionIsKnown' /\ EndedWait'
  BY <1>2, <1>3 DEF EndSetup, At, Stages
<1>4. ASSUME NEW s \in Sessions, HandleTimer(s) PROVE SessionIsKnown' /\ EndedWait'
  BY <1>4 DEF HandleTimer, SessionIsKnown, EndedWait
<1>5. ASSUME NEW s \in Sessions, HandleInterested(s) PROVE SessionIsKnown' /\ EndedWait'
  BY <1>2, <1>5 DEF HandleInterested, At, Stages
<1>6. ASSUME NEW s \in Sessions, TryPreempt(s) PROVE SessionIsKnown' /\ EndedWait'
  BY <1>2, <1>6 DEF TryPreempt, At, Stages
<1>7. ASSUME NEW s \in Sessions, HandleNotInterested(s) PROVE SessionIsKnown' /\ EndedWait'
  BY <1>2, <1>7 DEF HandleNotInterested, At, Stages
<1>8. ASSUME NEW s \in Sessions, Relinquish(s) PROVE SessionIsKnown' /\ EndedWait'
  BY <1>2, <1>8 DEF Relinquish, At, Stages
<1>9. ASSUME NEW s \in Sessions, EndLoop(s) PROVE SessionIsKnown' /\ EndedWait'
  BY <1>2, <1>9 DEF EndLoop, At, Stages
<1>10. ASSUME NEW s \in Sessions, LastRelinquish(s) PROVE SessionIsKnown' /\ EndedWait'
  BY <1>2, <1>10 DEF LastRelinquish, At, Stages
<1>11. ASSUME NEW s \in Sessions, NotifyCleanUp(s) PROVE SessionIsKnown' /\ EndedWait'
  <2>1. /\ ss' = ss /\ stage[s] = "notify" /\ s \in ss
        /\ stage' = [stage EXCEPT ![s] = "ended"]
    BY <1>11 DEF NotifyCleanUp, At, Goto, SessionIsKnown
  <2>2. /\ Len(gcq) \in Nat
        /\ DOMAIN gcq = 1 .. Len(gcq)
        /\ DOMAIN gcq' = 1 .. Len(gcq) + 1
        /\ \A k \in DOMAIN gcq : gcq'[k] = gcq[k]
        /\ gcq'[Len(gcq) + 1] = s
    BY <1>0, <1>11 DEF NotifyCleanUp
  <2>3. \A k \in DOMAIN gcq : gcq[k] # s /\ gcq[k] \in ss
    BY <2>1 DEF EndedWait, SessionIsKnown
  <2>4. \A k \in DOMAIN gcq' : k \in DOMAIN gcq \/ k = Len(gcq) + 1
    BY <2>2
  <2>5. \A k \in DOMAIN gcq' : gcq'[k] \in ss' /\ stage'[gcq'[k]] = "ended"
    BY <1>0, <2>1, <2>2, <2>3, <2>4 DEF EndedWait, TypeOK
  <2>6. \A k, l \in DOMAIN gcq' : gcq'[k] = gcq'[l] => k = l
    BY <2>2, <2>3, <2>4 DEF SessionIsKnown
  <2>7. \A t \in Sessions : stage'[t] \notin {"none", "ended"} => t \in ss'
    BY <2>1 DEF SessionIsKnown, TypeOK
  <2> QED
    BY <2>5, <2>6, <2>7 DEF SessionIsKnown, EndedWait
<1>12. ASSUME CleanUp PROVE SessionIsKnown' /\ EndedWait'
  <2>1. /\ gcq # <<>> /\ gcq' = Tail(gcq) /\ stage' = stage
        /\ ss' = ss \ {gcq[1]}
    BY <1>0, <1>12 DEF CleanUp
  <2>2. /\ Len(gcq) \in Nat \ {0}
        /\ DOMAIN gcq = 1 .. Len(gcq)
        /\ DOMAIN gcq' = 1 .. Len(gcq) - 1
        /\ \A k \in DOMAIN gcq' : gcq'[k] = gcq[k + 1]
    BY <1>0, <2>1
  <2>3. \A k \in DOMAIN gcq' : k + 1 \in DOMAIN gcq /\ k + 1 # 1 /\ 1 \in DOMAIN gcq
    BY <2>2
  <2>4. \A k \in DOMAIN gcq' : gcq'[k] \in ss' /\ stage'[gcq'[k]] = "ended"
    BY <2>1, <2>2, <2>3 DEF SessionIsKnown, EndedWait
  <2>5. \A k, l \in DOMAIN gcq' : gcq'[k] = gcq'[l] => k = l
    <3> SUFFICES ASSUME NEW k \in DOMAIN gcq', NEW l \in DOMAIN gcq', gcq'[k] = gcq'[l]
                 PROVE  k = l
      OBVIOUS
    <3>1. k + 1 = l + 1
      BY <2>2, <2>3 DEF SessionIsKnown
    <3> QED
      BY <2>2, <3>1
  <2>6. stage[gcq[1]] = "ended"
    BY <2>2 DEF EndedWait
  <2>7. \A t \in Sessions : stage'[t] \notin {"none", "ended"} => t \in ss'
    BY <2>1, <2>6 DEF SessionIsKnown
  <2> QED
    BY <2>4, <2>5, <2>7 DEF SessionIsKnown, EndedWait
<1>13. ASSUME PnTick PROVE SessionIsKnown' /\ EndedWait'
  BY <1>13 DEF PnTick, SessionIsKnown, EndedWait
<1>14. ASSUME OptTick PROVE SessionIsKnown' /\ EndedWait'
  BY <1>14 DEF OptTick, SessionIsKnown, EndedWait
<1>15. CASE UNCHANGED vars
  BY <1>15 DEF vars, SessionIsKnown, EndedWait
<1> QED
  BY <1>1, <1>3, <1>4, <1>5, <1>6, <1>7, <1>8, <1>9, <1>10, <1>11, <1>12, <1>13, <1>14, <1>15
     DEF Next, Control
-----------------------------------------------------------------------------
(***************************************************************************)
(* How many preferred neighbours there are.                                *)
(***************************************************************************)
LEMMA FrontSize ==
  ASSUME TypeOK, NEW F \in Fronts
  PROVE  F \subseteq ss /\ IsFiniteSet(F) /\ Cardinality(F) <= NPn
<1>1. F \subseteq ss /\ ss \subseteq Sessions
  BY DEF Fronts, TypeOK
<1>2. IsFiniteSet(ss) /\ IsFiniteSet(F)
  BY <1>1, FS_Subset, CollectionAssumption
<1>3. Cardinality(ss) \in Nat
  BY <1>2, FS_CardinalityType
<1>4. Cardinality(F) = IF NPn < Cardinality(ss) THEN NPn ELSE Cardinality(ss)
  BY DEF Fronts
<1> QED
  BY <1>1, <1>2, <1>3, <1>4, CollectionAssumption

LEMMA FewerIsBounded ==
  ASSUME TypeOK, PnBounded, pnSet' \subseteq pnSet
  PROVE  PnBounded'
<1>1. IsFiniteSet(pnSet)
  BY FS_Subset, CollectionAssumption DEF TypeOK
<1>2. IsFiniteSet(pnSet') /\ Cardinality(pnSet') <= Cardinality(pnSet)
  BY <1>1, FS_Subset
<1>3. Cardinality(pnSet) \in Nat /\ Cardinality(pnSet') \in Nat
  BY <1>1, <1>2, FS_CardinalityType
<1> QED
  BY <1>2, <1>3, CollectionAssumption DEF PnBounded

LEMMA BoundedStep == TypeOK /\ PnBounded /\ [Next]_vars => PnBounded'
<1> SUFFICES ASSUME TypeOK, PnBounded, [Next]_vars PROVE PnBounded'
  OBVIOUS
<1>1. ASSUME NEW s \in Sessions, TryPreempt(s) PROVE PnBounded'
  <2>1. CASE pnSet' \subseteq pnSet
    BY <2>1, FewerIsBounded
  <2>2. CASE ~(pnSet' \subseteq pnSet)
    <3>1. pnSet' = pnSet \cup {s} /\ s \notin pnSet /\ Cardinality(pnSet) < NPn
      BY <1>1, <2>2 DEF TryPreempt, seats
    <3>2. IsFiniteSet(pnSet)
      BY FS_Subset, CollectionAssumption DEF TypeOK
    <3>3. Cardinality(pnSet) \in Nat /\ Cardinality(pnSet') = Cardinality(pnSet) + 1
      BY <3>1, <3>2, FS_CardinalityType, FS_AddElement
    <3> QED
      BY <3>1, <3>3, CollectionAssumption DEF PnBounded
  <2> QED
    BY <2>1, <2>2
<1>2. ASSUME PnTick PROVE PnBounded'
  <2>1. PICK F \in Fronts : pnSet' = {s \in F : Active(s)}
    BY <1>2 DEF PnTick
  <2>2. IsFiniteSet(F) /\ Cardinality(F) <= NPn
    BY FrontSize
  <2>3. IsFiniteSet(pnSet') /\ Cardinality(pnSet') <= Cardinality(F)
    BY <2>1, <2>2, FS_Subset
  <2>4. Cardinality(pnSet') \in Nat /\ Cardinality(F) \in Nat
    BY <2>2, <2>3, FS_CardinalityType
  <2> QED
    BY <2>2, <2>3, <2>4, CollectionAssumption DEF PnBounded
<1>3. ASSUME NEW s \in Sessions, Relinquish(s) \/ LastRelinquish(s) PROVE PnBounded'
  BY <1>3, GiveUpSeatType, FewerIsBounded DEF Relinquish, LastRelinquish
<1>4. CASE UNCHANGED pnSet
  BY <1>4, FewerIsBounded
<1> QED
  BY <1>1, <1>2, <1>3, <1>4
     DEF Next, Control, vars, seats, NewSession, EndSetup, HandleTimer, HandleInterested,
         HandleNotInterested, EndLoop, NotifyCleanUp, CleanUp, OptTick
-----------------------------------------------------------------------------
(***************************************************************************)
(* What preferred neighbours are told.                                     *)
(***************************************************************************)

\* Only active sessions are preferred neighbours, so unchoke() is never ignored.
PnActive == \A s \in pnSet : Active(s)

LEMMA ActiveStep == TypeOK /\ PnActive /\ [Next]_vars => PnActive'
<1> SUFFICES ASSUME TypeOK, PnActive, [Next]_vars PROVE PnActive'
  OBVIOUS
<1>0. \A s \in Sessions : Active(s) => Active(s)'
  <2>1. ASSUME NEW t \in Sessions, NewSession(t) PROVE \A s \in Sessions : Active(s) => Active(s)'
    BY <2>1 DEF NewSession, At, Goto, Active, TypeOK
  <2>2. ASSUME NEW t \in Sessions, Control(t), ~NewSession(t)
        PROVE  UNCHANGED stage \/ \E st \in Stages \ {"none", "setup"} : Goto(t, st)
    BY <2>2 DEF Control, EndSetup, HandleTimer, HandleInterested, TryPreempt,
       HandleNotInterested, Relinquish, EndLoop, LastRelinquish, NotifyCleanUp, Stages
  <2>3. ASSUME NEW t \in Sessions, NEW st \in Stages \ {"none", "setup"}, Goto(t, st)
        PROVE  \A s \in Sessions : Active(s) => Active(s)'
    BY <2>3 DEF Goto, Active, TypeOK
  <2>4. CASE UNCHANGED stage
    BY <2>4 DEF Active
  <2>5. CleanUp \/ PnTick \/ OptTick \/ UNCHANGED vars => UNCHANGED stage
    BY DEF CleanUp, PnTick, OptTick, vars
  <2> QED
    BY <2>1, <2>2, <2>3, <2>4, <2>5 DEF Next
<1>1. ASSUME NEW s \in Sessions, TryPreempt(s) PROVE PnActive'
  <2>1. pnSet' \subseteq pnSet \cup {s} /\ Active(s)
    BY <1>1 DEF TryPreempt, seats, At, Active
  <2> QED
    BY <1>0, <2>1 DEF PnActive, TypeOK
<1>2. ASSUME PnTick PROVE PnActive'
  BY <1>0, <1>2, FrontSize DEF PnTick, PnActive, TypeOK
<1>3. ASSUME NEW s \in Sessions, Relinquish(s) \/ LastRelinquish(s) PROVE PnActive'
  BY <1>0, <1>3, GiveUpSeatType DEF Relinquish, LastRelinquish, PnActive, TypeOK
<1>4. CASE UNCHANGED pnSet
  BY <1>0, <1>4 DEF PnActive, TypeOK
<1> QED
  BY <1>1, <1>2, <1>3, <1>4
     DEF Next, Control, vars, seats, NewSession, EndSetup, HandleTimer, HandleInterested,
         HandleNotInterested, EndLoop, NotifyCleanUp, CleanUp, OptTick

\* Giving up a seat, and what comes of it, chokes no other preferred neighbour.
LEMMA GiveUpSeatSpares ==
  ASSUME TypeOK, LastWordIsUnchoke, NEW s \in Sessions, GiveUpSeat(s), UNCHANGED peerChoke,
         NEW t \in pnSet', InLoop(t)
  PROVE  Decided(t)' = "Unchoked"
<1>0. timers \in [Sessions -> Seq(Word)] /\ t \in pnSet /\ t \in Sessions
  BY GiveUpSeatType DEF TypeOK, Word
<1>1. Decided(t) = "Unchoked"
  BY <1>0 DEF LastWordIsUnchoke
<1>2. CASE s \in pnSet \/ s = opt
  <2>1. t # s \/ s \notin pnSet
    BY <1>2 DEF GiveUpSeat
  <2>2. t # s
    BY <1>0, <2>1
  <2>3. For({s}, "Choked") \in [Sessions -> Seq(Word)] /\ For({s}, "Choked")[t] = <<>>
    <3>1. For({s}, "Choked") \in [Sessions -> Seq(Word)]
      BY ForType DEF Word
    <3> QED
      BY <1>0, <2>2, <3>1 DEF For
  <2>4. CASE Tell(For({s}, "Choked"))
    BY <1>0, <1>1, <2>3, <2>4, TellDecides
  <2>5. ASSUME NEW heir \in Eligible, Tell(Then(For({s}, "Choked"), For({heir}, "Unchoked")))
        PROVE  Decided(t)' = "Unchoked"
    <3> DEFINE f == Then(For({s}, "Choked"), For({heir}, "Unchoked"))
    <3>1. For({heir}, "Unchoked") \in [Sessions -> Seq(Word)]
      BY ForType DEF Word
    <3>2. f \in [Sessions -> Seq(Word)]
      BY <2>3, <3>1, ThenType
    <3>3. f[t] = <<>> \/ f[t] = <<"Unchoked">>
      BY <1>0, <2>2 DEF For, Then
    <3>4. f[t] = <<>> \/ (f[t] # <<>> /\ f[t][Len(f[t])] = "Unchoked")
      BY <3>3, OneWord
    <3> HIDE DEF f
    <3>5. Tell(f)
      BY <2>5 DEF f
    <3> QED
      BY <1>0, <1>1, <3>2, <3>4, <3>5, TellDecides
  <2> QED
    BY <1>2, <2>4, <2>5 DEF GiveUpSeat
<1>3. CASE ~(s \in pnSet \/ s = opt)
  BY <1>1, <1>3 DEF GiveUpSeat, Decided
<1> QED
  BY <1>2, <1>3
LEMMA UnchokedStep ==
  ASSUME TypeOK, EndedWait, PnActive, LastWordIsUnchoke, ~optTicks, [Next]_vars
  PROVE  LastWordIsUnchoke'
<1>0. timers \in [Sessions -> Seq(Word)] /\ pnSet \subseteq Sessions
  BY DEF TypeOK, Word
<1>1. ASSUME NEW s \in Sessions, EndSetup(s) PROVE LastWordIsUnchoke'
  <2>1. s \notin pnSet
    BY <1>1 DEF EndSetup, At, PnActive, Active
  <2> QED
    BY <1>0, <1>1, <2>1 DEF EndSetup, Goto, flags, seats, LastWordIsUnchoke, Decided, InLoop
<1>2. ASSUME NEW s \in Sessions, HandleTimer(s) PROVE LastWordIsUnchoke'
  <2>1. \A t \in Sessions : Decided(t)' = Decided(t)
    BY <1>2, HandleTimerDecides
  <2> QED
    BY <1>0, <1>2, <2>1 DEF HandleTimer, seats, LastWordIsUnchoke, InLoop
<1>3. ASSUME NEW s \in Sessions, TryPreempt(s) PROVE LastWordIsUnchoke'
  <2>1. /\ stage[s] = "preempt" /\ stage' = [stage EXCEPT ![s] = "loop"]
        /\ peerChoke' = peerChoke
    BY <1>3 DEF TryPreempt, At, Goto, flags
  <2>2. \A t \in Sessions : InLoop(t)' <=> InLoop(t)
    BY <2>1 DEF InLoop, TypeOK
  <2>3. CASE UNCHANGED <<seats, timers>>
    BY <1>0, <2>1, <2>2, <2>3 DEF seats, LastWordIsUnchoke, Decided
  <2>4. CASE pnSet' \subseteq pnSet \cup {s} /\ Tell(For({s}, "Unchoked")) /\ s \notin pnSet
    <3>1. For({s}, "Unchoked") \in [Sessions -> Seq(Word)]
      BY ForType DEF Word
    <3>2. \A t \in Sessions : For({s}, "Unchoked")[t] = IF t = s THEN <<"Unchoked">> ELSE <<>>
      BY DEF For
    <3>3. ASSUME NEW t \in pnSet', InLoop(t) PROVE Decided(t)' = "Unchoked"
      <4>1. t \in Sessions /\ (t = s \/ t \in pnSet)
        BY <1>0, <2>4
      <4>2. Decided(t)' = IF For({s}, "Unchoked")[t] = <<>> THEN Decided(t)
                          ELSE For({s}, "Unchoked")[t][Len(For({s}, "Unchoked")[t])]
        BY <1>0, <2>1, <2>4, <3>1, <3>3, <4>1, TellDecides
      <4> QED
        BY <3>2, <3>3, <4>1, <4>2, OneWord DEF LastWordIsUnchoke
    <3>4. pnSet' \subseteq Sessions
      BY <1>0, <2>4
    <3> QED
      BY <2>2, <3>3, <3>4 DEF LastWordIsUnchoke
  <2> QED
    BY <1>3, <2>3, <2>4 DEF TryPreempt, seats
<1>4. ASSUME NEW s \in Sessions, Relinquish(s) \/ LastRelinquish(s) PROVE LastWordIsUnchoke'
  <2>1. GiveUpSeat(s) /\ UNCHANGED peerChoke
    BY <1>4 DEF Relinquish, LastRelinquish, flags
  <2>2. \A t \in Sessions : InLoop(t)' <=> InLoop(t)
    BY <1>4 DEF Relinquish, LastRelinquish, At, Goto, InLoop, TypeOK
  <2>3. pnSet' \subseteq pnSet
    BY <2>1, GiveUpSeatType
  <2>4. \A t \in pnSet' : InLoop(t) => Decided(t)' = "Unchoked"
    BY <2>1, GiveUpSeatSpares
  <2> QED
    BY <1>0, <2>2, <2>3, <2>4 DEF LastWordIsUnchoke
<1>5. ASSUME NEW s \in Sessions, EndLoop(s) PROVE LastWordIsUnchoke'
  BY <1>0, <1>5 DEF EndLoop, At, Goto, flags, seats, LastWordIsUnchoke, Decided, InLoop, TypeOK
<1>6. ASSUME CleanUp PROVE LastWordIsUnchoke'
  <2> DEFINE h == Head(gcq)
  <2>1. gcq \in Seq(Sessions) /\ gcq # <<>>
    BY <1>6 DEF CleanUp, TypeOK
  <2>2. 1 \in DOMAIN gcq /\ h = gcq[1] /\ h \in Sessions
    BY <2>1
  <2>3. ~InLoop(h)
    BY <2>2 DEF EndedWait, InLoop
  <2>4. \A t \in Sessions : InLoop(t) => peerChoke'[t] = peerChoke[t]
    BY <1>6, <2>3 DEF CleanUp, TypeOK
  <2>5. UNCHANGED <<stage, timers, pnSet>>
    BY <1>6 DEF CleanUp, seats
  <2> QED
    BY <1>0, <2>4, <2>5 DEF LastWordIsUnchoke, Decided, InLoop
<1>7. ASSUME PnTick PROVE LastWordIsUnchoke'
  <2>1. PICK F \in Fronts :
          LET new == {s \in F : Active(s)}
              supplanted == pnSet \ new
          IN  /\ pnSet' = new
              /\ Tell(Then(For(supplanted, "Choked"), For(new, "Unchoked")))
    BY <1>7 DEF PnTick
  <2> DEFINE new == {s \in F : Active(s)}
             supplanted == pnSet \ new
             f == Then(For(supplanted, "Choked"), For(new, "Unchoked"))
  <2>2. f \in [Sessions -> Seq(Word)]
    <3>1. For(supplanted, "Choked") \in [Sessions -> Seq(Word)]
      BY ForType DEF Word
    <3>2. For(new, "Unchoked") \in [Sessions -> Seq(Word)]
      BY ForType DEF Word
    <3> QED
      BY <3>1, <3>2, ThenType
  <2>3. new \subseteq Sessions
    BY FrontSize DEF TypeOK
  <2>4. ASSUME NEW t \in new PROVE f[t] = <<"Unchoked">>
    BY <2>3, <2>4 DEF For, Then
  <2>5. pnSet' = new /\ Tell(f) /\ peerChoke' = peerChoke /\ stage' = stage
    BY <1>7, <2>1 DEF PnTick, flags
  <2> HIDE DEF new, f
  <2>6. ASSUME NEW t \in new, InLoop(t) PROVE Decided(t)' = "Unchoked"
    <3>1. Decided(t)' = IF f[t] = <<>> THEN Decided(t) ELSE f[t][Len(f[t])]
      BY <1>0, <2>2, <2>3, <2>5, <2>6, TellDecides
    <3> QED
      BY <2>4, <3>1, OneWord
  <2> QED
    BY <2>5, <2>6 DEF LastWordIsUnchoke, InLoop
<1>8. CASE UNCHANGED <<pnSet, timers, peerChoke>> /\ \A s \in pnSet : InLoop(s)' => InLoop(s)
  BY <1>8 DEF LastWordIsUnchoke, Decided
<1>9. ASSUME NEW s \in Sessions,
             NewSession(s) \/ HandleInterested(s) \/ HandleNotInterested(s) \/ NotifyCleanUp(s)
      PROVE  UNCHANGED <<pnSet, timers, peerChoke>> /\ \A t \in pnSet : InLoop(t)' => InLoop(t)
  BY <1>0, <1>9 DEF NewSession, HandleInterested, HandleNotInterested, NotifyCleanUp, At, Goto,
                    flags, seats, InLoop, TypeOK
<1>10. CASE UNCHANGED vars
  BY <1>8, <1>10 DEF vars, InLoop
<1>11. ~OptTick
  BY DEF OptTick
<1> QED
  BY <1>1, <1>2, <1>3, <1>4, <1>5, <1>6, <1>7, <1>8, <1>9, <1>10, <1>11 DEF Next, Control
-----------------------------------------------------------------------------
(***************************************************************************)
(* The theorems.                                                           *)
(***************************************************************************)
IInv == TypeOK /\ SessionIsKnown /\ EndedWait /\ PnBounded /\ PnActive

LEMMA InitIInv == Init => IInv
<1> SUFFICES ASSUME Init PROVE IInv
  OBVIOUS
<1>1. TypeOK
  <2>1. <<>> \in Seq({"Choked", "Unchoked"}) /\ <<>> \in Seq(Sessions)
    OBVIOUS
  <2>2. timers \in [Sessions -> Seq({"Choked", "Unchoked"})] /\ gcq \in Seq(Sessions)
    BY <2>1 DEF Init
  <2> QED
    BY <2>2 DEF Init, TypeOK, Stages
<1>2. DOMAIN gcq = {}
  BY DEF Init
<1>3. SessionIsKnown /\ EndedWait /\ PnActive
  BY <1>2 DEF Init, SessionIsKnown, EndedWait, PnActive
<1>4. PnBounded
  BY FS_EmptySet, CollectionAssumption DEF Init, PnBounded
<1> QED
  BY <1>1, <1>3, <1>4 DEF IInv

THEOREM Invariance == Spec => []IInv
<1>1. IInv /\ [Next]_vars => IInv'
  BY TypesStep, KnownStep, BoundedStep, ActiveStep DEF IInv
<1> QED
  BY InitIInv, <1>1, PTL DEF Spec

\* The variables keep their types (every operation of SessionCollection, with queues
\* of any length).
THEOREM TypeCorrect == Spec => []TypeOK
<1>1. IInv => TypeOK
  BY DEF IInv
<1> QED
  BY Invariance, <1>1, PTL

\* The panics on an unknown session in tryPreempt, relinquish and cleanUp are
\* unreachable, however many sessions come and go.
THEOREM NoUnknownSession == Spec => []SessionIsKnown
<1>1. IInv => SessionIsKnown
  BY DEF IInv
<1> QED
  BY Invariance, <1>1, PTL

\* pnAlgorithm, tryPreempt and relinquish never exceed n_pn preferred neighbours.
THEOREM PreferredAreBounded == Spec => []PnBounded
<1>1. IInv => PnBounded
  BY DEF IInv
<1> QED
  BY Invariance, <1>1, PTL

\* If optAlgorithm does not run, the last event for a preferred neighbour is unchoke.
THEOREM PreferredAreUnchoked == Spec => []PnMeansUnchoked
<1>1. Init => PnMeansUnchoked
  BY DEF Init, PnMeansUnchoked, LastWordIsUnchoke
<1>2. [Next]_vars => optTicks' = optTicks
  BY DEF Next, Control, vars, NewSession, EndSetup, HandleTimer, HandleInterested, TryPreempt,
         HandleNotInterested, Relinquish, EndLoop, LastRelinquish, NotifyCleanUp, CleanUp,
         PnTick, OptTick
<1>3. IInv /\ PnMeansUnchoked /\ [Next]_vars => PnMeansUnchoked'
  BY <1>2, UnchokedStep DEF IInv, PnMeansUnchoked
<1> QED
  BY Invariance, <1>1, <1>3, PTL DEF Spec
-----------------------------------------------------------------------------
(***************************************************************************)
(* The promise to one session.                                             *)
(***************************************************************************)
Promise == INSTANCE Seat

SeatOf(s) == [pn |-> s \in pnSet, opt |-> s = opt]
HasOthers(s) == Sessions # {s}

\* A session in its loop gets the events; others ignore or discard them.
Hears(s, told) == InLoop(s) => timers'[s] = timers[s] \o told

Decide(s, told) ==
  /\ Promise!OthersDecide(SeatOf(s), SeatOf(s)', told, HasOthers(s), Active(s), s \in Eligible)
  /\ Hears(s, told)

\* A step as session s sees it: an operation of its own thread, or a decision of others.
SeatStep(s) ==
  \/ /\ TryPreempt(s)
     /\ \E told \in Seq(Word) :
          Promise!Preempts(SeatOf(s), SeatOf(s)', told, HasOthers(s)) /\ Hears(s, told)
  \/ /\ Relinquish(s) \/ LastRelinquish(s)
     /\ \E told \in Seq(Word) :
          Promise!Relinquishes(SeatOf(s), SeatOf(s)', told) /\ Hears(s, told)
  \/ /\ Control(s) /\ ~TryPreempt(s) /\ ~Relinquish(s) /\ ~LastRelinquish(s)
     /\ UNCHANGED SeatOf(s)
  \/ /\ UNCHANGED stage[s]
     /\ \E told \in Seq(Word) : Decide(s, told)

SeatsAreKept == [][\A s \in Sessions : stage[s] # "ended" => SeatStep(s)]_vars

LEMMA Heard ==
  ASSUME TypeOK, NEW s \in Sessions, NEW f \in [Sessions -> Seq(Word)], Tell(f)
  PROVE  f[s] \in Seq(Word) /\ Hears(s, f[s])
  BY DEF Tell, Hears

LEMMA HeardNothing ==
  ASSUME TypeOK, NEW s \in Sessions, timers'[s] = timers[s]
  PROVE  <<>> \in Seq(Word) /\ Hears(s, <<>>)
<1>1. timers[s] \in Seq({"Choked", "Unchoked"})
  BY DEF TypeOK
<1>2. timers[s] \o <<>> = timers[s] /\ <<>> \in Seq(Word)
  BY <1>1
<1> QED
  BY <1>2 DEF Hears

LEMMA ForAt ==
  ASSUME NEW S, NEW e \in Word, NEW s \in Sessions
  PROVE  /\ For(S, e) \in [Sessions -> Seq(Word)]
         /\ For(S, e)[s] = IF s \in S THEN <<e>> ELSE <<>>
  BY ForType DEF For

\* A session is told what concerns it.
LEMMA ThenAt ==
  ASSUME NEW S, NEW d \in Word, NEW T, NEW e \in Word, NEW s \in Sessions
  PROVE  /\ Then(For(S, d), For(T, e)) \in [Sessions -> Seq(Word)]
         /\ Then(For(S, d), For(T, e))[s] =
              IF s \in S THEN IF s \in T THEN <<d, e>> ELSE <<d>>
              ELSE IF s \in T THEN <<e>> ELSE <<>>
<1>1. For(S, d) \in [Sessions -> Seq(Word)] /\ For(T, e) \in [Sessions -> Seq(Word)]
  BY ForAt
<1>2. Then(For(S, d), For(T, e)) \in [Sessions -> Seq(Word)]
  BY <1>1, ThenType
<1>3. Then(For(S, d), For(T, e))[s] = For(S, d)[s] \o For(T, e)[s]
  BY DEF Then
<1>4. /\ For(S, d)[s] = IF s \in S THEN <<d>> ELSE <<>>
      /\ For(T, e)[s] = IF s \in T THEN <<e>> ELSE <<>>
  BY ForAt
<1>5. <<d>> \o <<e>> = <<d, e>>
  <2> DEFINE u == <<d>> \o <<e>>
             v == <<d, e>>
  <2>1. u \in Seq(Word) /\ Len(u) = 2 /\ u[1] = d /\ u[2] = e
    OBVIOUS
  <2>2. v \in Seq(Word) /\ Len(v) = 2 /\ v[1] = d /\ v[2] = e
    OBVIOUS
  <2> HIDE DEF u, v
  <2>3. \A i \in 1..Len(u) : u[i] = v[i]
    <3>1. \A i \in 1..2 : i = 1 \/ i = 2
      OBVIOUS
    <3> QED
      BY <2>1, <2>2, <3>1
  <2>4. u = v
    BY <2>1, <2>2, <2>3, SeqEqual
  <2> QED
    BY <2>4 DEF u, v
<1>6. <<d>> \o <<>> = <<d>> /\ <<>> \o <<e>> = <<e>> /\ <<>> \o <<>> = <<>>
  OBVIOUS
<1> QED
  BY <1>2, <1>3, <1>4, <1>5, <1>6, Zenon

\* Nobody decides anything about session s.
LEMMA NoDecision ==
  ASSUME TypeOK, NEW s \in Sessions, UNCHANGED SeatOf(s), timers'[s] = timers[s]
  PROVE  \E told \in Seq(Word) : Decide(s, told)
  BY HeardNothing DEF Decide, Promise!OthersDecide, Promise!Kept, SeatOf

\* A session alone in its collection never finds the seats taken.
LEMMA FreeSeat ==
  ASSUME TypeOK, NPn # 0, NEW s \in Sessions, s \notin pnSet, ~HasOthers(s)
  PROVE  Cardinality(pnSet) < NPn
<1>1. pnSet = {}
  BY DEF TypeOK, HasOthers
<1> QED
  BY <1>1, FS_EmptySet, CollectionAssumption

LEMMA PreemptAsPromised ==
  ASSUME TypeOK, NPn # 0, NEW s \in Sessions, TryPreempt(s)
  PROVE  \E told \in Seq(Word) :
           Promise!Preempts(SeatOf(s), SeatOf(s)', told, HasOthers(s)) /\ Hears(s, told)
<1> DEFINE f == For({s}, "Unchoked")
<1>1. f \in [Sessions -> Seq(Word)] /\ f[s] = <<"Unchoked">>
  BY ForAt DEF Word
<1>2. s # NoSession
  BY CollectionAssumption
<1>3. CASE UNCHANGED <<seats, timers>> /\ (s \in pnSet \/ s = opt \/ HasOthers(s))
  <2>1. UNCHANGED SeatOf(s) /\ timers'[s] = timers[s]
    BY <1>3 DEF SeatOf, seats
  <2>2. Promise!Preempts(SeatOf(s), SeatOf(s)', <<>>, HasOthers(s))
    BY <1>3, <2>1 DEF Promise!Preempts, Promise!Kept, SeatOf
  <2> QED
    BY <2>1, <2>2, HeardNothing
<1>4. CASE s \notin pnSet /\ s # opt /\ pnSet' = pnSet \cup {s} /\ Tell(f) /\ UNCHANGED opt
  <2>1. s \in pnSet' /\ s # opt'
    BY <1>4
  <2>2. Promise!Preempts(SeatOf(s), SeatOf(s)', f[s], HasOthers(s))
    BY <1>1, <1>4, <2>1 DEF Promise!Preempts, Promise!Kept, SeatOf
  <2> HIDE DEF f
  <2> QED
    BY <1>1, <1>4, <2>2, Heard
<1>5. CASE /\ s \notin pnSet /\ s # opt /\ HasOthers(s)
           /\ opt' = s /\ Tell(f) /\ UNCHANGED pnSet
  <2>1. s \notin pnSet' /\ s = opt'
    BY <1>5
  <2>2. Promise!Preempts(SeatOf(s), SeatOf(s)', f[s], HasOthers(s))
    BY <1>1, <1>5, <2>1 DEF Promise!Preempts, Promise!Kept, SeatOf
  <2> HIDE DEF f
  <2> QED
    BY <1>1, <1>5, <2>2, Heard
<1>6. s \notin pnSet /\ ~HasOthers(s) => Cardinality(pnSet) < NPn
  BY FreeSeat
<1> QED
  BY <1>3, <1>4, <1>5, <1>6 DEF TryPreempt

\* Who relinquishes is not interested, and so does not inherit its own seat.
NotItsHeir == \A s \in Sessions : stage[s] = "relinquish" => peerInterest[s] = "NotInterested"

LEMMA NotItsHeirStep == TypeOK /\ EndedWait /\ NotItsHeir /\ [Next]_vars => NotItsHeir'
<1> SUFFICES ASSUME TypeOK, EndedWait, NotItsHeir, [Next]_vars PROVE NotItsHeir'
  OBVIOUS
<1> USE DEF NotItsHeir, TypeOK
<1>1. ASSUME NEW s \in Sessions, HandleNotInterested(s) PROVE NotItsHeir'
  BY <1>1 DEF HandleNotInterested, At, Goto
<1>2. ASSUME NEW s \in Sessions,
             NewSession(s) \/ EndSetup(s) \/ HandleInterested(s) \/ TryPreempt(s)
      PROVE  NotItsHeir'
  BY <1>2 DEF NewSession, EndSetup, HandleInterested, TryPreempt, At, Goto, flags
<1>3. ASSUME NEW s \in Sessions,
             Relinquish(s) \/ EndLoop(s) \/ LastRelinquish(s) \/ NotifyCleanUp(s)
      PROVE  NotItsHeir'
  BY <1>3 DEF Relinquish, EndLoop, LastRelinquish, NotifyCleanUp, At, Goto, flags
<1>4. ASSUME NEW s \in Sessions, HandleTimer(s) PROVE NotItsHeir'
  BY <1>4 DEF HandleTimer
<1>5. ASSUME CleanUp PROVE NotItsHeir'
  <2>1. 1 \in DOMAIN gcq /\ Head(gcq) = gcq[1]
    BY <1>5 DEF CleanUp
  <2>2. stage[Head(gcq)] = "ended"
    BY <2>1 DEF EndedWait
  <2> QED
    BY <1>5, <2>2 DEF CleanUp
<1>6. ASSUME PnTick \/ OptTick \/ UNCHANGED vars PROVE NotItsHeir'
  BY <1>6 DEF PnTick, OptTick, vars, flags
<1> QED
  BY <1>1, <1>2, <1>3, <1>4, <1>5, <1>6 DEF Next, Control

LEMMA RelinquishAsPromised ==
  ASSUME TypeOK, NotItsHeir, NEW s \in Sessions, Relinquish(s) \/ LastRelinquish(s)
  PROVE  \E told \in Seq(Word) :
           Promise!Relinquishes(SeatOf(s), SeatOf(s)', told) /\ Hears(s, told)
<1>1. GiveUpSeat(s) /\ s # NoSession
  BY CollectionAssumption DEF Relinquish, LastRelinquish
<1>2. s \notin pnSet' /\ (s = opt' <=> s = opt /\ s \in pnSet)
  BY <1>1 DEF GiveUpSeat, seats
<1>3. CASE ~(s \in pnSet \/ s = opt)
  <2>1. timers'[s] = timers[s]
    BY <1>1, <1>3 DEF GiveUpSeat
  <2>2. Promise!Relinquishes(SeatOf(s), SeatOf(s)', <<>>)
    BY <1>2, <1>3 DEF Promise!Relinquishes, SeatOf
  <2> QED
    BY <2>1, <2>2, HeardNothing
<1>4. CASE s \in pnSet \/ s = opt
  <2>1. Promise!Relinquishes(SeatOf(s), SeatOf(s)', <<"Choked">>)
    BY <1>2, <1>4 DEF Promise!Relinquishes, SeatOf
  <2>2. <<"Choked">> \in Seq(Word)
    BY DEF Word
  <2>3. InLoop(s) => s \notin Eligible
    BY DEF InLoop, Relinquish, LastRelinquish, At, NotItsHeir, Eligible
  <2>4. InLoop(s) => timers'[s] = timers[s] \o <<"Choked">>
    <3>1. CASE Tell(For({s}, "Choked"))
      BY <3>1, ForAt DEF Tell, Word
    <3>2. ASSUME NEW heir \in Eligible,
                 Tell(Then(For({s}, "Choked"), For({heir}, "Unchoked"))), InLoop(s)
          PROVE  timers'[s] = timers[s] \o <<"Choked">>
      <4>1. s # heir
        BY <2>3, <3>2
      <4>2. Then(For({s}, "Choked"), For({heir}, "Unchoked"))[s] = <<"Choked">>
        BY <4>1, ThenAt DEF Word
      <4> QED
        BY <3>2, <4>2 DEF Tell
    <3> QED
      BY <1>1, <1>4, <3>1, <3>2 DEF GiveUpSeat
  <2> QED
    BY <2>1, <2>2, <2>4 DEF Hears
<1> QED
  BY <1>3, <1>4

LEMMA OthersGiveUp ==
  ASSUME TypeOK, NEW s \in Sessions, NEW t \in Sessions, t # s, GiveUpSeat(t)
  PROVE  \E told \in Seq(Word) : Decide(s, told)
<1>1. UNCHANGED SeatOf(s)
  BY CollectionAssumption DEF GiveUpSeat, SeatOf, seats
<1>2. CASE UNCHANGED timers
  BY <1>1, <1>2, NoDecision
<1>3. CASE Tell(For({t}, "Choked"))
  <2>1. For({t}, "Choked") \in [Sessions -> Seq(Word)] /\ For({t}, "Choked")[s] = <<>>
    BY ForAt DEF Word
  <2>2. <<>> \in Seq(Word) /\ Hears(s, <<>>)
    BY <1>3, <2>1, Heard
  <2> QED
    BY <1>1, <2>2 DEF Decide, Promise!OthersDecide, Promise!Kept, SeatOf
<1>4. ASSUME NEW heir \in Eligible, Tell(Then(For({t}, "Choked"), For({heir}, "Unchoked")))
      PROVE  \E told \in Seq(Word) : Decide(s, told)
  <2> DEFINE f == Then(For({t}, "Choked"), For({heir}, "Unchoked"))
  <2>1. /\ f \in [Sessions -> Seq(Word)]
        /\ f[s] = IF s = heir THEN <<"Unchoked">> ELSE <<>>
    <3>1. /\ f \in [Sessions -> Seq(Word)]
          /\ f[s] = IF s \in {t} THEN IF s \in {heir} THEN <<"Choked", "Unchoked">>
                                     ELSE <<"Choked">>
                    ELSE IF s \in {heir} THEN <<"Unchoked">> ELSE <<>>
      <4>1. "Choked" \in Word /\ "Unchoked" \in Word
        BY DEF Word
      <4> QED
        BY <4>1, ThenAt
    <3> QED
      BY <3>1
  <2>2. f[s] \in Seq(Word) /\ Hears(s, f[s])
    <3> HIDE DEF f
    <3>1. Tell(f)
      BY <1>4 DEF f
    <3> QED
      BY <2>1, <3>1, Heard
  <2> HIDE DEF f
  <2>3. CASE s = heir
    <3>1. HasOthers(s) /\ s \in Eligible
      BY <2>3 DEF HasOthers
    <3>2. Promise!Unseated(SeatOf(s), SeatOf(s)', f[s])
      BY <1>1, <2>1, <2>3 DEF Promise!Unseated, Promise!Kept, SeatOf
    <3> QED
      BY <2>2, <3>1, <3>2 DEF Decide, Promise!OthersDecide, Promise!Kept, SeatOf
  <2>4. CASE s # heir
    BY <1>1, <2>1, <2>2, <2>4 DEF Decide, Promise!OthersDecide, Promise!Kept, SeatOf
  <2> QED
    BY <2>3, <2>4
<1> QED
  BY <1>2, <1>3, <1>4 DEF GiveUpSeat

\* pnAlgorithm takes a session that is alone in its collection.
LEMMA AloneInFront ==
  ASSUME TypeOK, NPn # 0, NEW s \in Sessions, s \in ss, ~HasOthers(s), NEW F \in Fronts
  PROVE  s \in F
<1>1. ss = {s} /\ F \subseteq ss
  BY DEF TypeOK, HasOthers, Fronts
<1>2. Cardinality(ss) = 1
  BY <1>1, FS_Singleton
<1>3. Cardinality(F) = 1
  BY <1>2, CollectionAssumption DEF Fronts
<1>4. F # {}
  BY <1>3, FS_EmptySet
<1> QED
  BY <1>1, <1>4

LEMMA PnTickAsPromised ==
  ASSUME TypeOK, PnActive, SessionIsKnown, NPn # 0, NEW s \in Sessions, stage[s] # "ended", PnTick
  PROVE  \E told \in Seq(Word) : Decide(s, told)
<1>1. PICK F \in Fronts :
        LET new == {t \in F : Active(t)}
            supplanted == pnSet \ new
        IN  /\ pnSet' = new
            /\ opt' = IF supplanted # {} THEN NoSession ELSE opt
            /\ Tell(Then(For(supplanted, "Choked"), For(new, "Unchoked")))
  BY DEF PnTick
<1> DEFINE new == {t \in F : Active(t)}
           supplanted == pnSet \ new
           f == Then(For(supplanted, "Choked"), For(new, "Unchoked"))
<1>2. "Choked" \in Word /\ "Unchoked" \in Word
  BY DEF Word
<1>3. pnSet' = new /\ opt' = (IF supplanted # {} THEN NoSession ELSE opt) /\ Tell(f)
  BY <1>1
<1>4. /\ f \in [Sessions -> Seq(Word)]
      /\ f[s] = IF s \in supplanted THEN <<"Choked">>
                ELSE IF s \in new THEN <<"Unchoked">> ELSE <<>>
  <2>1. /\ f \in [Sessions -> Seq(Word)]
        /\ f[s] = IF s \in supplanted
                  THEN IF s \in new THEN <<"Choked", "Unchoked">> ELSE <<"Choked">>
                  ELSE IF s \in new THEN <<"Unchoked">> ELSE <<>>
    BY <1>2, ThenAt
  <2>2. s \in supplanted => s \notin new
    OBVIOUS
  <2> HIDE DEF f, new, supplanted
  <2> QED
    BY <2>1, <2>2
<1>5. supplanted \subseteq Sessions /\ \A t \in supplanted : Active(t)
  BY DEF PnActive, TypeOK
<1>6. s \in new => Active(s)
  OBVIOUS
<1>7. Active(s) /\ ~HasOthers(s) => s \in new
  <2>1. Active(s) => s \in ss
    BY DEF SessionIsKnown, Active
  <2> QED
    BY <2>1, AloneInFront
<1>8. s # NoSession
  BY CollectionAssumption
<1>9. s \in supplanted <=> s \in pnSet /\ s \notin new
  OBVIOUS
<1> HIDE DEF new, supplanted, f
<1>10. f[s] \in Seq(Word) /\ Hears(s, f[s])
  BY <1>3, <1>4, Heard
<1>11. CASE s \in new
  <2>1. f[s] = <<"Unchoked">>
    BY <1>4, <1>9, <1>11
  <2>2. supplanted # {} => HasOthers(s)
    BY <1>5, <1>9, <1>11 DEF HasOthers
  <2>3. s \in pnSet' /\ (supplanted = {} => opt' = opt) /\ (supplanted # {} => s # opt')
    BY <1>3, <1>8, <1>11
  <2>4. Promise!Taken(SeatOf(s), SeatOf(s)', f[s], HasOthers(s))
    BY <2>1, <2>2, <2>3 DEF Promise!Taken, SeatOf
  <2> QED
    BY <1>6, <1>10, <1>11, <2>4 DEF Decide, Promise!OthersDecide
<1>12. CASE s \notin new /\ HasOthers(s)
  <2>1. f[s] = IF s \in pnSet THEN <<"Choked">> ELSE <<>>
    BY <1>4, <1>9, <1>12
  <2>2. s \notin pnSet' /\ (s = opt' => s = opt) /\ (s = opt' => s \notin pnSet)
    BY <1>3, <1>8, <1>9, <1>12
  <2>3. Promise!PassedOver(SeatOf(s), SeatOf(s)', f[s])
    BY <2>1, <2>2 DEF Promise!PassedOver, SeatOf
  <2> QED
    BY <1>10, <1>12, <2>3 DEF Decide, Promise!OthersDecide
<1>13. CASE s \notin new /\ ~HasOthers(s)
  <2>1. s \notin pnSet /\ supplanted = {}
    BY <1>5, <1>7, <1>13 DEF PnActive, HasOthers
  <2>2. f[s] = <<>> /\ s \notin pnSet' /\ opt' = opt
    BY <1>3, <1>4, <1>13, <2>1
  <2>3. Promise!Kept(SeatOf(s), SeatOf(s)')
    BY <2>1, <2>2 DEF Promise!Kept, SeatOf
  <2> QED
    BY <1>10, <2>2, <2>3 DEF Decide, Promise!OthersDecide
<1> QED
  BY <1>11, <1>12, <1>13

LEMMA OptTickAsPromised ==
  ASSUME TypeOK, NEW s \in Sessions, OptTick
  PROVE  \E told \in Seq(Word) : Decide(s, told)
<1>1. PICK lucky \in Eligible :
        opt' = lucky /\ Tell(Then(For({lucky}, "Unchoked"), For({opt}, "Choked")))
  BY DEF OptTick
<1> DEFINE f == Then(For({lucky}, "Unchoked"), For({opt}, "Choked"))
<1>2. "Choked" \in Word /\ "Unchoked" \in Word
  BY DEF Word
<1>3. /\ f \in [Sessions -> Seq(Word)]
      /\ f[s] = IF s \in {lucky} THEN IF s \in {opt} THEN <<"Unchoked", "Choked">>
                                       ELSE <<"Unchoked">>
                ELSE IF s \in {opt} THEN <<"Choked">> ELSE <<>>
  BY <1>2, ThenAt
<1>4. opt' = lucky /\ Tell(f) /\ pnSet' = pnSet
  BY <1>1 DEF OptTick
<1>5. lucky \in Sessions
  BY DEF Eligible, TypeOK
<1> HIDE DEF f
<1>6. f[s] \in Seq(Word) /\ Hears(s, f[s])
  BY <1>3, <1>4, Heard
<1>7. CASE s = lucky
  <2>1. Promise!Lucky(SeatOf(s), SeatOf(s)', f[s])
    BY <1>3, <1>4, <1>7 DEF Promise!Lucky, SeatOf
  <2> QED
    BY <1>6, <1>7, <2>1 DEF Decide, Promise!OthersDecide
<1>8. CASE s # lucky /\ s = opt
  <2>1. Promise!Unlucky(SeatOf(s), SeatOf(s)', f[s])
    BY <1>3, <1>4, <1>8 DEF Promise!Unlucky, SeatOf
  <2>2. HasOthers(s)
    BY <1>5, <1>8 DEF HasOthers
  <2> QED
    BY <1>6, <2>1, <2>2 DEF Decide, Promise!OthersDecide
<1>9. CASE s # lucky /\ s # opt
  <2>1. f[s] = <<>> /\ s # opt'
    BY <1>3, <1>4, <1>9
  <2>2. Promise!Kept(SeatOf(s), SeatOf(s)')
    BY <1>4, <1>9, <2>1 DEF Promise!Kept, SeatOf
  <2> QED
    BY <1>6, <2>1, <2>2 DEF Decide, Promise!OthersDecide
<1> QED
  BY <1>7, <1>8, <1>9

\* The control thread of another session.
LEMMA OthersAsPromised ==
  ASSUME TypeOK, NEW s \in Sessions, NEW t \in Sessions, t # s, Control(t)
  PROVE  UNCHANGED stage[s] /\ \E told \in Seq(Word) : Decide(s, told)
<1>1. UNCHANGED stage[s]
  BY DEF Control, NewSession, EndSetup, HandleTimer, HandleInterested, TryPreempt,
     HandleNotInterested, Relinquish, EndLoop, LastRelinquish, NotifyCleanUp, Goto, TypeOK
<1>2. CASE Relinquish(t) \/ LastRelinquish(t)
  BY <1>1, <1>2, OthersGiveUp DEF Relinquish, LastRelinquish
<1>3. CASE TryPreempt(t)
  <2> DEFINE f == For({t}, "Unchoked")
  <2>1. f \in [Sessions -> Seq(Word)] /\ f[s] = <<>>
    BY ForAt DEF Word
  <2>2. UNCHANGED SeatOf(s)
    BY <1>3, CollectionAssumption DEF TryPreempt, SeatOf, seats
  <2>3. UNCHANGED timers \/ Tell(f)
    BY <1>3 DEF TryPreempt
  <2> HIDE DEF f
  <2>4. CASE UNCHANGED timers
    BY <1>1, <2>2, <2>4, NoDecision
  <2>5. CASE Tell(f)
    <3>1. <<>> \in Seq(Word) /\ Hears(s, <<>>)
      BY <2>1, <2>5, Heard
    <3> QED
      BY <1>1, <2>2, <3>1 DEF Decide, Promise!OthersDecide, Promise!Kept, SeatOf
  <2> QED
    BY <2>3, <2>4, <2>5
<1>4. CASE \/ NewSession(t) \/ EndSetup(t) \/ HandleInterested(t)
           \/ HandleNotInterested(t) \/ NotifyCleanUp(t)
  <2>1. UNCHANGED SeatOf(s) /\ timers'[s] = timers[s]
    BY <1>4 DEF NewSession, EndSetup, HandleInterested, HandleNotInterested, NotifyCleanUp,
       SeatOf, seats
  <2> QED
    BY <1>1, <2>1, NoDecision
<1>5. CASE HandleTimer(t) \/ EndLoop(t)
  <2>1. UNCHANGED SeatOf(s) /\ timers'[s] = timers[s]
    BY <1>5 DEF HandleTimer, EndLoop, SeatOf, seats, TypeOK
  <2> QED
    BY <1>1, <2>1, NoDecision
<1> QED
  BY <1>2, <1>3, <1>4, <1>5 DEF Control

LEMMA StepAsPromised ==
  ASSUME TypeOK, PnActive, SessionIsKnown, NotItsHeir, NPn # 0, Next,
         NEW s \in Sessions, stage[s] # "ended"
  PROVE  SeatStep(s)
<1>1. CASE Control(s)
  <2>1. ~TryPreempt(s) /\ ~Relinquish(s) /\ ~LastRelinquish(s) => UNCHANGED SeatOf(s)
    BY <1>1 DEF Control, NewSession, EndSetup, HandleTimer, HandleInterested,
       HandleNotInterested, EndLoop, NotifyCleanUp, seats, SeatOf
  <2> QED
    BY <1>1, <2>1, PreemptAsPromised, RelinquishAsPromised DEF SeatStep
<1>2. ASSUME NEW t \in Sessions, t # s, Control(t) PROVE SeatStep(s)
  BY <1>2, OthersAsPromised DEF SeatStep
<1>3. CASE CleanUp
  <2>1. UNCHANGED SeatOf(s) /\ timers'[s] = timers[s] /\ UNCHANGED stage[s]
    BY <1>3 DEF CleanUp, SeatOf, seats
  <2> QED
    BY <2>1, NoDecision DEF SeatStep
<1>4. CASE PnTick
  BY <1>4, PnTickAsPromised DEF SeatStep, PnTick
<1>5. CASE OptTick
  BY <1>5, OptTickAsPromised DEF SeatStep, OptTick
<1> QED
  BY <1>1, <1>2, <1>3, <1>4, <1>5 DEF Next

\* The collection keeps its promise to every session until the session has ended.  Its
\* seat changes only by its own tryPreempt and relinquish, or as a timer or another
\* session may decide, and the session is told exactly the words that go with it.
THEOREM CollectionKeepsPromise == NPn # 0 /\ Spec => SeatsAreKept
<1> SUFFICES ASSUME NPn # 0 PROVE Spec => SeatsAreKept
  OBVIOUS
<1>1. Init => NotItsHeir
  BY DEF Init, NotItsHeir
<1>2. IInv /\ NotItsHeir /\ [Next]_vars => NotItsHeir'
  BY NotItsHeirStep DEF IInv
<1>3. IInv /\ NotItsHeir /\ [Next]_vars
        => [\A s \in Sessions : stage[s] # "ended" => SeatStep(s)]_vars
  BY StepAsPromised DEF IInv
<1> QED
  BY Invariance, <1>1, <1>2, <1>3, PTL DEF Spec, SeatsAreKept
=============================================================================
