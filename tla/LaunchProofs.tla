---------------------------- MODULE LaunchProofs -----------------------------
(***************************************************************************)
(* Proofs about the life of all processes, for any number of peers and any *)
(* seeds among them.                                                       *)
(***************************************************************************)
EXTENDS Launch, FiniteSetTheorems, SequenceTheorems, TLAPS

-----------------------------------------------------------------------------
(***************************************************************************)
(* The inductive invariant.                                                *)
(***************************************************************************)
Lives == {"none", "run", "done", "gone"}
Others(p) == Peers \ {p}

\* What a queue holds, and that it holds nothing twice.
In(x, s) == \E k \in 1..Len(s) : s[k] = x
Once(s) == \A j, k \in 1..Len(s) : s[j] = s[k] => j = k

\* The variables the steps depend on.
Types ==
  /\ TypeOK
  /\ life = [p \in Peers |-> life[p]]

\* main() has tried the prior peers before at[p]; it misses a connection to exactly
\* those it has no session with.
Tries ==
  \A p \in Peers :
    /\ at[p] <= p
    /\ todo[p] = {q \in PriorPeers(p) : ~Made(p, q)}

\* A connection that one peer has made waits at the other, once, until it is accepted;
\* only later peers connect.
Waiting ==
  \A q \in Peers :
    /\ Once(backlog[q])
    /\ \A p \in Peers : In(p, backlog[q]) <=> q < p /\ Made(p, q) /\ ~Made(q, p)
    /\ \A p \in Peers : q < p /\ Made(q, p) => Made(p, q)

\* A session has only ended if its peer has met this one and both have the file.
Ended ==
  \A p \in Peers : \A q \in Others(p) :
    life[p][q] \in {"done", "gone"} => Made(q, p) /\ p \in complete /\ q \in complete

\* What waits for cleanUp() has ended and is there once.
Queued ==
  \A p \in Peers :
    /\ Once(gcq[p])
    /\ \A q \in Peers : In(q, gcq[p]) => q # p /\ life[p][q] = "done"

\* n_unfinished_session is the number of peers whose session is not gone.
Counted ==
  \A p \in Peers : unfinished[p] = Cardinality({q \in Others(p) : life[p][q] # "gone"})

\* Where main() and the gc thread are, nothing is left to do.
Finished ==
  \A p \in Peers :
    /\ gc[p] # "run" => unfinished[p] = 0
    /\ main[p] \in {"destroy", "exited"} => unfinished[p] = 0
    /\ main[p] = "exited" => gc[p] = "ended"

IInv == Types /\ Tries /\ Waiting /\ Ended /\ Queued /\ Counted /\ Finished
-----------------------------------------------------------------------------
(***************************************************************************)
(* Queues and the table of lives.                                          *)
(***************************************************************************)
LEMMA AppendIn ==
  ASSUME NEW S, NEW s \in Seq(S), NEW x \in S
  PROVE  /\ Append(s, x) \in Seq(S)
         /\ \A y : In(y, Append(s, x)) <=> In(y, s) \/ y = x
         /\ Once(s) /\ ~In(x, s) => Once(Append(s, x))
<1> DEFINE a == Append(s, x)
<1>1. /\ a \in Seq(S) /\ Len(a) = Len(s) + 1 /\ Len(s) \in Nat
      /\ \A k \in 1..Len(s) : a[k] = s[k]
      /\ a[Len(s) + 1] = x
  BY AppendProperties, LenProperties
<1> HIDE DEF a
<1>2. \A y : In(y, a) <=> In(y, s) \/ y = x
  BY <1>1 DEF In
<1>3. Once(s) /\ ~In(x, s) => Once(a)
  BY <1>1 DEF In, Once
<1> QED
  BY <1>1, <1>2, <1>3 DEF a

LEMMA TailIn ==
  ASSUME NEW S, NEW s \in Seq(S), s # <<>>, Once(s)
  PROVE  /\ Tail(s) \in Seq(S) /\ Head(s) \in S /\ In(Head(s), s)
         /\ \A y : In(y, Tail(s)) <=> In(y, s) /\ y # Head(s)
         /\ Once(Tail(s))
<1> DEFINE t == Tail(s)
<1>1. /\ t \in Seq(S) /\ Head(s) \in S /\ Head(s) = s[1]
      /\ Len(s) \in Nat \ {0} /\ Len(t) = Len(s) - 1
      /\ \A k \in 1..Len(t) : t[k] = s[k + 1]
  BY HeadTailProperties, LenProperties, EmptySeq
<1> HIDE DEF t
<1>2. In(Head(s), s)
  BY <1>1 DEF In
<1>3. Once(t)
  BY <1>1 DEF Once
<1>4. ASSUME NEW y, In(y, t) PROVE In(y, s) /\ y # Head(s)
  BY <1>1, <1>4 DEF In, Once
<1>5. ASSUME NEW y, In(y, s), y # Head(s) PROVE In(y, t)
  <2>1. PICK k \in 1..Len(s) : s[k] = y
    BY <1>5 DEF In
  <2>2. k # 1 /\ k - 1 \in 1..Len(t) /\ t[k - 1] = s[k - 1 + 1]
    BY <1>1, <1>5, <2>1
  <2> QED
    BY <2>1, <2>2 DEF In
<1> QED
  BY <1>1, <1>2, <1>3, <1>4, <1>5 DEF t

LEMMA EmptyIn == Once(<<>>) /\ \A y : ~In(y, <<>>)
  BY DEF In, Once

\* The life of one session changes.
LEMMA LifeAfter ==
  ASSUME Types, NEW p \in Peers, NEW q \in Others(p), NEW v \in Lives,
         life' = [life EXCEPT ![p][q] = v]
  PROVE  /\ \A x \in Peers : life[x] \in [Others(x) -> Lives]
         /\ life' = [x \in Peers |-> IF x = p THEN [life[p] EXCEPT ![q] = v] ELSE life[x]]
<1>1. life = [x \in Peers |-> life[x]] /\ \A x \in Peers : life[x] \in [Others(x) -> Lives]
  BY DEF Types, TypeOK, Others, Lives
<1> QED
  BY <1>1

LEMMA LifeUpdate ==
  ASSUME Types, NEW p \in Peers, NEW q \in Others(p), NEW v \in Lives,
         life' = [life EXCEPT ![p][q] = v]
  PROVE  /\ \A x \in Peers : life'[x] \in [Others(x) -> Lives]
         /\ life' = [x \in Peers |-> life'[x]]
<1>1. /\ \A x \in Peers : life[x] \in [Others(x) -> Lives]
      /\ life' = [x \in Peers |-> IF x = p THEN [life[p] EXCEPT ![q] = v] ELSE life[x]]
  BY LifeAfter
<1>2. life' = [x \in Peers |-> life'[x]]
  BY <1>1
<1>3. [life[p] EXCEPT ![q] = v] \in [Others(p) -> Lives]
  BY <1>1
<1> QED
  BY <1>1, <1>2, <1>3

\* The session that cleanUp() destroys.
LEMMA FirstQueued ==
  ASSUME Types, Queued, NEW p \in Peers, gcq[p] # <<>>
  PROVE  /\ Head(gcq[p]) \in Others(p) /\ life[p][Head(gcq[p])] = "done"
         /\ Tail(gcq[p]) \in Seq(Peers) /\ Once(Tail(gcq[p]))
         /\ \A q : In(q, Tail(gcq[p])) <=> In(q, gcq[p]) /\ q # Head(gcq[p])
<1>1. gcq[p] \in Seq(Peers) /\ Once(gcq[p])
  BY DEF Types, TypeOK, Queued
<1>2. /\ Tail(gcq[p]) \in Seq(Peers) /\ Head(gcq[p]) \in Peers /\ In(Head(gcq[p]), gcq[p])
      /\ \A q : In(q, Tail(gcq[p])) <=> In(q, gcq[p]) /\ q # Head(gcq[p])
      /\ Once(Tail(gcq[p]))
  BY <1>1, TailIn
<1> QED
  BY <1>2 DEF Queued, Others

\* The connection that the acceptor takes next.
LEMMA FirstWaiting ==
  ASSUME Types, Waiting, NEW p \in Peers, backlog[p] # <<>>
  PROVE  /\ Head(backlog[p]) \in Others(p) /\ p < Head(backlog[p])
         /\ Made(Head(backlog[p]), p) /\ life[p][Head(backlog[p])] = "none"
         /\ Tail(backlog[p]) \in Seq(Peers) /\ Once(Tail(backlog[p]))
         /\ \A q : In(q, Tail(backlog[p])) <=> In(q, backlog[p]) /\ q # Head(backlog[p])
<1>1. backlog[p] \in Seq(Peers) /\ Once(backlog[p])
  BY DEF Types, TypeOK, Waiting
<1>2. /\ Tail(backlog[p]) \in Seq(Peers) /\ Head(backlog[p]) \in Peers
      /\ In(Head(backlog[p]), backlog[p])
      /\ \A q : In(q, Tail(backlog[p])) <=> In(q, backlog[p]) /\ q # Head(backlog[p])
      /\ Once(Tail(backlog[p]))
  BY <1>1, TailIn
<1>3. /\ p < Head(backlog[p]) /\ Made(Head(backlog[p]), p) /\ ~Made(p, Head(backlog[p]))
  BY <1>2 DEF Waiting
<1>4. p # Head(backlog[p])
  BY <1>2, <1>3, LaunchAssumption DEF Peers
<1> QED
  BY <1>2, <1>3, <1>4 DEF Made, Others

LEMMA OthersFinite ==
  ASSUME NEW p \in Peers
  PROVE  IsFiniteSet(Others(p)) /\ Cardinality(Others(p)) = N - 1
<1>1. IsFiniteSet(Peers) /\ Cardinality(Peers) = N
  <2>1. N \in Nat /\ N >= 2
    BY LaunchAssumption
  <2> QED
    BY <2>1, FS_Interval DEF Peers
<1> QED
  BY <1>1, FS_RemoveElement DEF Others

\* A session that is not gone keeps n_unfinished_session above zero.
LEMMA SomeUnfinished ==
  ASSUME Counted, NEW p \in Peers, NEW q \in Others(p), life[p][q] # "gone"
  PROVE  unfinished[p] \in Nat \ {0}
<1> DEFINE S == {x \in Others(p) : life[p][x] # "gone"}
<1>1. IsFiniteSet(S)
  BY OthersFinite, FS_Subset
<1>2. S # {}
  OBVIOUS
<1>3. unfinished[p] = Cardinality(S)
  BY DEF Counted
<1> HIDE DEF S
<1>4. Cardinality(S) \in Nat /\ Cardinality(S) # 0
  BY <1>1, <1>2, FS_CardinalityType, FS_EmptySet
<1> QED
  BY <1>3, <1>4

LEMMA NoneUnfinished ==
  ASSUME Counted, NEW p \in Peers, unfinished[p] = 0
  PROVE  \A q \in Others(p) : life[p][q] = "gone"
  BY SomeUnfinished
-----------------------------------------------------------------------------
(***************************************************************************)
(* The steps.                                                              *)
(***************************************************************************)
LEMMA TypesStep == IInv /\ [Next]_vars => Types'
<1> SUFFICES ASSUME IInv, [Next]_vars PROVE Types'
  OBVIOUS
<1> USE DEF IInv, Types, TypeOK
<1>0. N \in Nat /\ N >= 2 /\ Peers = 1..N
  BY LaunchAssumption DEF Peers
<1>1. ASSUME NEW p \in Peers, Start(p) PROVE Types'
  BY <1>1 DEF Start, Goto, network, cleaning
<1>2. ASSUME NEW p \in Peers, Connect(p) PROVE Types'
  <2>1. at'[p] \in Peers /\ at' \in [Peers -> Peers]
    <3>1. at' = [at EXCEPT ![p] = at[p] + 1] /\ at \in [Peers -> Peers] /\ at[p] < p
      BY <1>2 DEF Connect
    <3>2. at[p] + 1 \in Peers
      BY <1>0, <3>1
    <3> QED
      BY <3>1, <3>2
  <2>2. CASE at[p] \in todo[p] /\ listening[at[p]]
    <3>1. at[p] \in Others(p)
      BY <1>0, <1>2 DEF Connect, Others
    <3>2. life' = [life EXCEPT ![p][at[p]] = "run"] /\ "run" \in Lives
      BY <1>2, <2>2 DEF Connect, Lives
    <3>3. /\ \A x \in Peers : life'[x] \in [Others(x) -> Lives]
          /\ life' = [x \in Peers |-> life'[x]]
      BY <3>1, <3>2, LifeUpdate
    <3>4. Append(backlog[at[p]], p) \in Seq(Peers)
      BY AppendIn
    <3>5. backlog' = [backlog EXCEPT ![at[p]] = Append(@, p)]
      BY <1>2, <2>2 DEF Connect
    <3>6. backlog' \in [Peers -> Seq(Peers)]
      BY <3>4, <3>5
    <3>7. todo' = [todo EXCEPT ![p] = @ \ {at[p]}]
      BY <1>2, <2>2 DEF Connect
    <3>8. todo' \in [Peers -> SUBSET Peers]
      BY <3>7
    <3> QED
      BY <1>2, <2>1, <3>3, <3>6, <3>8 DEF Connect, Others, Lives, cleaning
  <2>3. CASE ~(at[p] \in todo[p] /\ listening[at[p]])
    BY <1>2, <2>1, <2>3 DEF Connect, cleaning
  <2> QED
    BY <2>2, <2>3
<1>3. ASSUME NEW p \in Peers, NextRound(p) PROVE Types'
  <2>1. at' \in [Peers -> Peers]
    BY <1>0, <1>3 DEF NextRound
  <2>2. /\ main' \in [Peers -> {"off", "connect", "test", "dozing", "asleep", "missed",
                             "destroy", "exited"}]
        /\ UNCHANGED <<todo, listening, backlog, life, gcq, unfinished, gc, complete>>
    BY <1>3 DEF NextRound, Goto, network, cleaning
  <2> QED
    BY <2>1, <2>2
<1>4. ASSUME NEW p \in Peers, WaitTest(p) PROVE Types'
  BY <1>4 DEF WaitTest, Goto, network, cleaning
<1>5. ASSUME NEW p \in Peers, WaitSleep(p) PROVE Types'
  BY <1>5 DEF WaitSleep, Goto, network, cleaning
<1>6. ASSUME NEW p \in Peers, Exit(p) PROVE Types'
  BY <1>6 DEF Exit, Goto, cleaning
<1>7. ASSUME NEW p \in Peers, Listen(p) PROVE Types'
  BY <1>7 DEF Listen, cleaning
<1>8. ASSUME NEW p \in Peers, Accept(p) PROVE Types'
  <2> DEFINE q == Head(backlog[p])
  <2>1. q \in Others(p) /\ Tail(backlog[p]) \in Seq(Peers)
    BY <1>8, FirstWaiting DEF Accept
  <2>2. life' = [life EXCEPT ![p][q] = "run"] /\ "run" \in Lives
    BY <1>8 DEF Accept, Lives
  <2>3. /\ \A x \in Peers : life'[x] \in [Others(x) -> Lives]
        /\ life' = [x \in Peers |-> life'[x]]
    BY <2>1, <2>2, LifeUpdate
  <2> QED
    BY <1>8, <2>1, <2>3 DEF Accept, Others, Lives, cleaning
<1>9. ASSUME NEW p \in Peers, Complete(p) PROVE Types'
  BY <1>9 DEF Complete, network, cleaning
<1>10. ASSUME NEW p \in Peers, NEW q \in Peers, SessionDone(p, q) PROVE Types'
  <2>1. q \in Others(p) /\ Append(gcq[p], q) \in Seq(Peers)
    BY <1>10, AppendIn DEF SessionDone, Others
  <2>2. life' = [life EXCEPT ![p][q] = "done"] /\ "done" \in Lives
    BY <1>10 DEF SessionDone, Lives
  <2>3. /\ \A x \in Peers : life'[x] \in [Others(x) -> Lives]
        /\ life' = [x \in Peers |-> life'[x]]
    BY <2>1, <2>2, LifeUpdate
  <2> QED
    BY <1>10, <2>1, <2>3 DEF SessionDone, Others, Lives, network
<1>11. ASSUME NEW p \in Peers, CleanUp(p) PROVE Types'
  <2> DEFINE q == Head(gcq[p])
  <2>1. q \in Others(p) /\ life[p][q] = "done" /\ Tail(gcq[p]) \in Seq(Peers)
    BY <1>11, FirstQueued DEF CleanUp
  <2>2. life' = [life EXCEPT ![p][q] = "gone"] /\ "gone" \in Lives
    BY <1>11 DEF CleanUp, Lives
  <2>3. /\ \A x \in Peers : life'[x] \in [Others(x) -> Lives]
        /\ life' = [x \in Peers |-> life'[x]]
    BY <2>1, <2>2, LifeUpdate
  <2>4. unfinished[p] - 1 \in 0..(N - 1)
    <3>1. unfinished[p] \in Nat \ {0}
      BY <2>1, SomeUnfinished
    <3> QED
      BY <1>0, <3>1
  <2>5. unfinished' \in [Peers -> 0..(N - 1)] /\ gcq' \in [Peers -> Seq(Peers)]
    BY <1>11, <2>1, <2>4 DEF CleanUp
  <2>6. gc' \in [Peers -> {"run", "notify", "ended"}]
    BY <1>11 DEF CleanUp
  <2> QED
    BY <1>11, <2>3, <2>5, <2>6 DEF CleanUp, Others, Lives, network
<1>12. ASSUME NEW p \in Peers, Notify(p) PROVE Types'
  BY <1>12 DEF Notify, Goto, network
<1>13. ASSUME NEW p \in Peers, SpuriousWake(p) PROVE Types'
  BY <1>13 DEF SpuriousWake, Goto, network, cleaning
<1>14. CASE UNCHANGED vars
  BY <1>14 DEF vars, network, cleaning
<1> QED
  BY <1>1, <1>2, <1>3, <1>4, <1>5, <1>6, <1>7, <1>8, <1>9, <1>10, <1>11, <1>12, <1>13, <1>14
  DEF Next, Main, Rest
\* What the four steps that change the life of a session do to it.
OnlyLife(p, q, from, to) ==
  /\ p \in Peers /\ q \in Others(p) /\ q \in Peers /\ q # p
  /\ life[p][q] = from /\ life'[p][q] = to
  /\ \A x \in Peers : \A y \in Others(x) : x # p \/ y # q => life'[x][y] = life[x][y]

LEMMA OneLife ==
  ASSUME Types, NEW p \in Peers, NEW q \in Others(p), NEW v \in Lives, NEW from,
         life[p][q] = from, life' = [life EXCEPT ![p][q] = v]
  PROVE  OnlyLife(p, q, from, v)
<1>1. /\ life[p] \in [Others(p) -> Lives]
      /\ life' = [x \in Peers |-> IF x = p THEN [life[p] EXCEPT ![q] = v] ELSE life[x]]
  BY LifeAfter
<1>2. \A x \in Peers : x # p => life'[x] = life[x]
  BY <1>1
<1>3. life'[p][q] = v /\ \A y \in Others(p) : y # q => life'[p][y] = life[p][y]
  BY <1>1
<1> QED
  BY <1>2, <1>3 DEF OnlyLife, Others

LEMMA ConnectLife ==
  ASSUME IInv, NEW p \in Peers, Connect(p), at[p] \in todo[p], listening[at[p]]
  PROVE  /\ OnlyLife(p, at[p], "none", "run") /\ at[p] < p
         /\ backlog' = [backlog EXCEPT ![at[p]] = Append(@, p)]
         /\ todo' = [todo EXCEPT ![p] = @ \ {at[p]}]
<1> DEFINE q == at[p]
<1>1. Types /\ q \in Peers /\ ~Made(p, q)
  BY DEF IInv, Types, TypeOK, Tries
<1>2. q < p /\ q # p /\ q \in Others(p)
  <2>1. q < p
    BY DEF Connect
  <2> QED
    BY <1>1, <2>1, LaunchAssumption DEF Peers, Others
<1>3. life' = [life EXCEPT ![p][q] = "run"] /\ "run" \in Lives
  BY DEF Connect, Lives
<1> HIDE DEF q
<1>4. OnlyLife(p, q, "none", "run")
  <2>1. /\ Types /\ p \in Peers /\ q \in Others(p) /\ "run" \in Lives
        /\ life[p][q] = "none" /\ life' = [life EXCEPT ![p][q] = "run"]
    BY <1>1, <1>2, <1>3 DEF IInv, Made
  <2> QED
    BY <2>1, OneLife
<1>5. /\ backlog' = [backlog EXCEPT ![q] = Append(@, p)]
      /\ todo' = [todo EXCEPT ![p] = @ \ {q}]
  BY DEF Connect, q
<1> QED
  BY <1>2, <1>4, <1>5 DEF q

LEMMA AcceptLife ==
  ASSUME IInv, NEW p \in Peers, Accept(p)
  PROVE  OnlyLife(p, Head(backlog[p]), "none", "run")
<1>1. Head(backlog[p]) \in Others(p) /\ life[p][Head(backlog[p])] = "none"
  BY FirstWaiting DEF IInv, Accept
<1>2. life' = [life EXCEPT ![p][Head(backlog[p])] = "run"] /\ "run" \in Lives
  BY DEF Accept, Lives
<1>3. OnlyLife(p, Head(backlog[p]), "none", "run")
  <2>1. /\ Types /\ p \in Peers /\ Head(backlog[p]) \in Others(p) /\ "run" \in Lives
        /\ life[p][Head(backlog[p])] = "none" /\ life' = [life EXCEPT ![p][Head(backlog[p])] = "run"]
    BY <1>1, <1>2 DEF IInv
  <2> QED
    BY <2>1, OneLife
<1> QED
  BY <1>3

LEMMA SessionDoneLife ==
  ASSUME IInv, NEW p \in Peers, NEW q \in Peers, SessionDone(p, q)
  PROVE  OnlyLife(p, q, "run", "done")
<1>1. q \in Others(p) /\ life[p][q] = "run"
  BY DEF IInv, Types, TypeOK, SessionDone, Others
<1>2. life' = [life EXCEPT ![p][q] = "done"] /\ "done" \in Lives
  BY DEF SessionDone, Lives
<1>3. OnlyLife(p, q, "run", "done")
  <2>1. /\ Types /\ p \in Peers /\ q \in Others(p) /\ "done" \in Lives
        /\ life[p][q] = "run" /\ life' = [life EXCEPT ![p][q] = "done"]
    BY <1>1, <1>2 DEF IInv
  <2> QED
    BY <2>1, OneLife
<1> QED
  BY <1>3

LEMMA CleanUpLife ==
  ASSUME IInv, NEW p \in Peers, CleanUp(p)
  PROVE  OnlyLife(p, Head(gcq[p]), "done", "gone")
<1>1. Head(gcq[p]) \in Others(p) /\ life[p][Head(gcq[p])] = "done"
  BY FirstQueued DEF IInv, CleanUp
<1>2. life' = [life EXCEPT ![p][Head(gcq[p])] = "gone"] /\ "gone" \in Lives
  BY DEF CleanUp, Lives
<1>3. OnlyLife(p, Head(gcq[p]), "done", "gone")
  <2>1. /\ Types /\ p \in Peers /\ Head(gcq[p]) \in Others(p) /\ "gone" \in Lives
        /\ life[p][Head(gcq[p])] = "done" /\ life' = [life EXCEPT ![p][Head(gcq[p])] = "gone"]
    BY <1>1, <1>2 DEF IInv
  <2> QED
    BY <2>1, OneLife
<1> QED
  BY <1>3

\* Every other step leaves the sessions alone.
LEMMA LifeSteps ==
  ASSUME IInv, [Next]_vars
  PROVE  \/ \E p \in Peers : Connect(p) /\ at[p] \in todo[p] /\ listening[at[p]]
         \/ \E p \in Peers : Accept(p) \/ CleanUp(p) \/ \E q \in Peers : SessionDone(p, q)
         \/ UNCHANGED <<life, todo, backlog, gcq, unfinished>>
  BY DEF Next, Main, Rest, vars, network, cleaning, Start, Connect, NextRound, WaitTest,
         WaitSleep, Exit, Listen, Complete, Notify, SpuriousWake

LEMMA TriesStep == IInv /\ [Next]_vars => Tries'
<1> SUFFICES ASSUME IInv, [Next]_vars PROVE Tries'
  OBVIOUS
<1>0. N \in Nat /\ N >= 2 /\ Peers = 1..N
  BY LaunchAssumption DEF Peers
<1>1. ASSUME NEW p \in Peers PROVE at'[p] <= p
  <2>1. at \in [Peers -> Peers] /\ at[p] <= p
    BY DEF IInv, Types, TypeOK, Tries
  <2>2. ASSUME NEW x \in Peers, Connect(x) PROVE at'[p] <= p
    BY <1>0, <2>1, <2>2 DEF Connect
  <2>3. ASSUME NEW x \in Peers, NextRound(x) PROVE at'[p] <= p
    BY <1>0, <2>1, <2>3 DEF NextRound
  <2>4. CASE UNCHANGED at
    BY <2>1, <2>4
  <2> QED
    BY <2>2, <2>3, <2>4 DEF Next, Main, Rest, vars, Start, WaitTest, WaitSleep, Exit, Listen,
       Accept, Complete, SessionDone, CleanUp, Notify, SpuriousWake
<1>2. ASSUME NEW p \in Peers PROVE todo'[p] = {q \in PriorPeers(p) : ~Made(p, q)'}
  <2>1. todo[p] = {q \in PriorPeers(p) : ~Made(p, q)} /\ PriorPeers(p) \subseteq Others(p)
    BY <1>0 DEF IInv, Tries, PriorPeers, Others
  <2>2. ASSUME NEW x \in Peers, Connect(x), at[x] \in todo[x], listening[at[x]]
        PROVE todo'[p] = {q \in PriorPeers(p) : ~Made(p, q)'}
    <3>1. OnlyLife(x, at[x], "none", "run") /\ todo' = [todo EXCEPT ![x] = @ \ {at[x]}]
          /\ todo \in [Peers -> SUBSET Peers]
      BY <2>2, ConnectLife DEF IInv, Types, TypeOK
    <3> QED
      BY <2>1, <3>1 DEF OnlyLife, Made
  <2>3. ASSUME NEW x \in Peers, NEW y, NEW v \in Lives, NEW w \in Lives,
               OnlyLife(x, y, v, w), UNCHANGED todo,
               y \in PriorPeers(x) => v # "none" /\ w # "none"
        PROVE todo'[p] = {q \in PriorPeers(p) : ~Made(p, q)'}
    BY <2>1, <2>3 DEF OnlyLife, Made
  <2>4. ASSUME NEW x \in Peers, Accept(x) PROVE todo'[p] = {q \in PriorPeers(p) : ~Made(p, q)'}
    <3>1. OnlyLife(x, Head(backlog[x]), "none", "run") /\ x < Head(backlog[x])
      BY <2>4, AcceptLife, FirstWaiting DEF IInv, Accept
    <3>2. Head(backlog[x]) \notin PriorPeers(x) /\ "none" \in Lives /\ "run" \in Lives
      BY <1>0, <3>1 DEF PriorPeers, OnlyLife, Lives
    <3> QED
      BY <2>3, <2>4, <3>1, <3>2 DEF Accept
  <2>5. ASSUME NEW x \in Peers, CleanUp(x) PROVE todo'[p] = {q \in PriorPeers(p) : ~Made(p, q)'}
    BY <2>3, <2>5, CleanUpLife DEF CleanUp, Lives
  <2>6. ASSUME NEW x \in Peers, NEW y \in Peers, SessionDone(x, y)
        PROVE todo'[p] = {q \in PriorPeers(p) : ~Made(p, q)'}
    BY <2>3, <2>6, SessionDoneLife DEF SessionDone, Lives
  <2>7. CASE UNCHANGED <<life, todo>>
    BY <2>1, <2>7 DEF Made
  <2> QED
    BY <2>2, <2>4, <2>5, <2>6, <2>7, LifeSteps
<1> QED
  BY <1>1, <1>2 DEF Tries
\* Whose session begins is the only thing that changes for Made.
LEMMA MadeStep ==
  ASSUME NEW x, NEW y, NEW v, NEW w, OnlyLife(x, y, v, w)
  PROVE  /\ v # "none" /\ w # "none" =>
              \A p \in Peers : \A q \in Others(p) : Made(p, q)' <=> Made(p, q)
         /\ v = "none" /\ w # "none" =>
              \A p \in Peers : \A q \in Others(p) :
                Made(p, q)' <=> Made(p, q) \/ (p = x /\ q = y)
  BY DEF OnlyLife, Made

LEMMA WaitingStep == IInv /\ [Next]_vars => Waiting'
<1> SUFFICES ASSUME IInv, [Next]_vars, NEW q \in Peers
             PROVE  /\ Once(backlog'[q])
                    /\ \A p \in Peers : In(p, backlog'[q]) <=> q < p /\ Made(p, q)' /\ ~Made(q, p)'
                    /\ \A p \in Peers : q < p /\ Made(q, p)' => Made(p, q)'
  BY DEF Waiting
<1>0. Peers \subseteq Nat /\ \A x, y \in Peers : x < y => x \in Others(y) /\ y \in Others(x)
  BY LaunchAssumption DEF Peers, Others
<1>1. /\ Once(backlog[q])
      /\ \A p \in Peers : In(p, backlog[q]) <=> q < p /\ Made(p, q) /\ ~Made(q, p)
      /\ \A p \in Peers : q < p /\ Made(q, p) => Made(p, q)
  BY DEF IInv, Waiting
<1>2. backlog \in [Peers -> Seq(Peers)] /\ Types /\ Waiting /\ Queued
  BY DEF IInv, Types, TypeOK
<1>3. ASSUME NEW x \in Peers, Connect(x), at[x] \in todo[x], listening[at[x]]
      PROVE  /\ Once(backlog'[q])
             /\ \A p \in Peers : In(p, backlog'[q]) <=> q < p /\ Made(p, q)' /\ ~Made(q, p)'
             /\ \A p \in Peers : q < p /\ Made(q, p)' => Made(p, q)'
  <2> DEFINE y == at[x]
  <2>1. /\ OnlyLife(x, y, "none", "run") /\ y < x /\ y \in Peers
        /\ backlog' = [backlog EXCEPT ![y] = Append(@, x)]
    BY <1>3, ConnectLife DEF OnlyLife
  <2> HIDE DEF y
  <2>2. \A p \in Peers : \A r \in Others(p) :
          Made(p, r)' <=> Made(p, r) \/ (p = x /\ r = y)
    BY <2>1, MadeStep
  <2>3. ~Made(x, y)
    BY <2>1 DEF OnlyLife, Made
  <2>4. CASE q = y
    <3>1. ~In(x, backlog[q]) /\ ~Made(q, x)
      BY <1>1, <2>1, <2>3, <2>4
    <3>2. backlog'[q] = Append(backlog[q], x) /\ backlog[q] \in Seq(Peers)
      BY <1>2, <2>1, <2>4
    <3>3. Once(backlog'[q]) /\ \A p : In(p, backlog'[q]) <=> In(p, backlog[q]) \/ p = x
      BY <1>1, <3>1, <3>2, AppendIn
    <3>4. ASSUME NEW p \in Peers, q < p
          PROVE  (Made(p, q)' <=> Made(p, q) \/ p = x) /\ (Made(q, p)' <=> Made(q, p))
      BY <1>0, <2>1, <2>2, <2>4, <3>4
    <3> QED
      BY <1>1, <2>1, <2>4, <3>1, <3>3, <3>4
  <2>5. CASE q # y
    <3>1. backlog'[q] = backlog[q]
      BY <1>2, <2>1, <2>5
    <3>2. ASSUME NEW p \in Peers, q < p
          PROVE  (Made(p, q)' <=> Made(p, q)) /\ (Made(q, p)' <=> Made(q, p))
      BY <1>0, <2>1, <2>2, <2>5, <3>2
    <3> QED
      BY <1>1, <3>1, <3>2
  <2> QED
    BY <2>4, <2>5
<1>4. ASSUME NEW x \in Peers, Accept(x)
      PROVE  /\ Once(backlog'[q])
             /\ \A p \in Peers : In(p, backlog'[q]) <=> q < p /\ Made(p, q)' /\ ~Made(q, p)'
             /\ \A p \in Peers : q < p /\ Made(q, p)' => Made(p, q)'
  <2> DEFINE y == Head(backlog[x])
  <2>1. /\ x < y /\ Made(y, x) /\ Once(Tail(backlog[x]))
        /\ \A p : In(p, Tail(backlog[x])) <=> In(p, backlog[x]) /\ p # y
    BY <1>2, <1>4, FirstWaiting DEF Accept
  <2>2. OnlyLife(x, y, "none", "run") /\ y \in Peers
        /\ backlog' = [backlog EXCEPT ![x] = Tail(@)]
    BY <1>4, AcceptLife DEF OnlyLife, Accept
  <2> HIDE DEF y
  <2>3. \A p \in Peers : \A r \in Others(p) :
          Made(p, r)' <=> Made(p, r) \/ (p = x /\ r = y)
    BY <2>2, MadeStep
  <2>4. CASE q = x
    <3>1. Once(backlog'[q]) /\ \A p : In(p, backlog'[q]) <=> In(p, backlog[q]) /\ p # y
      BY <1>2, <2>1, <2>2, <2>4
    <3>2. ASSUME NEW p \in Peers, q < p
          PROVE  (Made(p, q)' <=> Made(p, q)) /\ (Made(q, p)' <=> Made(q, p) \/ p = y)
      BY <1>0, <2>1, <2>3, <2>4, <3>2
    <3> QED
      BY <1>1, <2>1, <2>2, <2>4, <3>1, <3>2
  <2>5. CASE q # x
    <3>1. backlog'[q] = backlog[q]
      BY <1>2, <2>2, <2>5
    <3>2. ASSUME NEW p \in Peers, q < p
          PROVE  (Made(p, q)' <=> Made(p, q)) /\ (Made(q, p)' <=> Made(q, p))
      BY <1>0, <2>1, <2>2, <2>3, <2>5, <3>2
    <3> QED
      BY <1>1, <3>1, <3>2
  <2> QED
    BY <2>4, <2>5
<1>5. ASSUME NEW x, NEW y, NEW v, NEW w, OnlyLife(x, y, v, w), v # "none", w # "none",
             UNCHANGED backlog
      PROVE  /\ Once(backlog'[q])
             /\ \A p \in Peers : In(p, backlog'[q]) <=> q < p /\ Made(p, q)' /\ ~Made(q, p)'
             /\ \A p \in Peers : q < p /\ Made(q, p)' => Made(p, q)'
  <2>1. \A p \in Peers : \A r \in Others(p) : Made(p, r)' <=> Made(p, r)
    BY <1>5, MadeStep
  <2> QED
    BY <1>0, <1>1, <1>5, <2>1
<1>6. ASSUME NEW x \in Peers, CleanUp(x)
      PROVE  OnlyLife(x, Head(gcq[x]), "done", "gone") /\ UNCHANGED backlog
  BY <1>6, CleanUpLife DEF CleanUp, network
<1>7. ASSUME NEW x \in Peers, NEW y \in Peers, SessionDone(x, y)
      PROVE  OnlyLife(x, y, "run", "done") /\ UNCHANGED backlog
  BY <1>7, SessionDoneLife DEF SessionDone, network
<1>8. CASE UNCHANGED <<life, backlog>>
  BY <1>1, <1>8 DEF Made
<1> QED
  BY <1>3, <1>4, <1>5, <1>6, <1>7, <1>8, LifeSteps
LEMMA EndedStep == IInv /\ [Next]_vars => Ended'
<1> SUFFICES ASSUME IInv, [Next]_vars, NEW p \in Peers, NEW q \in Others(p),
                    life'[p][q] \in {"done", "gone"}
             PROVE  Made(q, p)' /\ p \in complete' /\ q \in complete'
  BY DEF Ended
<1>1. q \in Peers /\ p \in Others(q)
  BY DEF Others
<1>2. life[p][q] \in {"done", "gone"} => Made(q, p) /\ p \in complete /\ q \in complete
  BY DEF IInv, Ended
<1>3. complete \subseteq complete'
  BY DEF Next, Main, Rest, vars, Start, Connect, NextRound, WaitTest, WaitSleep, Exit, Listen,
     Accept, Complete, SessionDone, CleanUp, Notify, SpuriousWake
<1>4. ASSUME NEW x, NEW y, NEW v, OnlyLife(x, y, v, "run"), v = "none"
      PROVE  Made(q, p)' /\ p \in complete' /\ q \in complete'
  BY <1>1, <1>2, <1>3, <1>4 DEF OnlyLife, Made
<1>5. ASSUME NEW x \in Peers, CleanUp(x)
      PROVE  Made(q, p)' /\ p \in complete' /\ q \in complete'
  BY <1>1, <1>2, <1>3, <1>5, CleanUpLife DEF OnlyLife, Made
<1>6. ASSUME NEW x \in Peers, NEW y \in Peers, SessionDone(x, y)
      PROVE  Made(q, p)' /\ p \in complete' /\ q \in complete'
  <2>1. OnlyLife(x, y, "run", "done") /\ Made(y, x) /\ x \in complete /\ y \in complete
    BY <1>6, SessionDoneLife DEF SessionDone, Linked
  <2>2. CASE p = x /\ q = y
    BY <1>1, <1>3, <2>1, <2>2 DEF OnlyLife, Made
  <2>3. CASE ~(p = x /\ q = y)
    BY <1>1, <1>2, <1>3, <2>1, <2>3 DEF OnlyLife, Made
  <2> QED
    BY <2>2, <2>3
<1>7. CASE UNCHANGED life
  BY <1>2, <1>3, <1>7 DEF Made
<1> QED
  BY <1>4, <1>5, <1>6, <1>7, LifeSteps, ConnectLife, AcceptLife

LEMMA QueuedStep == IInv /\ [Next]_vars => Queued'
<1> SUFFICES ASSUME IInv, [Next]_vars, NEW p \in Peers
             PROVE  /\ Once(gcq'[p])
                    /\ \A q \in Peers : In(q, gcq'[p]) => q # p /\ life'[p][q] = "done"
  BY DEF Queued
<1>1. /\ Once(gcq[p])
      /\ \A q \in Peers : In(q, gcq[p]) => q # p /\ life[p][q] = "done"
  BY DEF IInv, Queued
<1>2. gcq \in [Peers -> Seq(Peers)] /\ Types /\ Queued
  BY DEF IInv, Types, TypeOK
<1>3. ASSUME NEW x, NEW y, OnlyLife(x, y, "none", "run"), UNCHANGED gcq
      PROVE  /\ Once(gcq'[p])
             /\ \A q \in Peers : In(q, gcq'[p]) => q # p /\ life'[p][q] = "done"
  BY <1>1, <1>3 DEF OnlyLife, Others
<1>4. ASSUME NEW x \in Peers, Connect(x), at[x] \in todo[x], listening[at[x]]
      PROVE  OnlyLife(x, at[x], "none", "run") /\ UNCHANGED gcq
  BY <1>4, ConnectLife DEF Connect, cleaning
<1>5. ASSUME NEW x \in Peers, Accept(x)
      PROVE  OnlyLife(x, Head(backlog[x]), "none", "run") /\ UNCHANGED gcq
  BY <1>5, AcceptLife DEF Accept, cleaning
<1>6. ASSUME NEW x \in Peers, NEW y \in Peers, SessionDone(x, y)
      PROVE  /\ Once(gcq'[p])
             /\ \A q \in Peers : In(q, gcq'[p]) => q # p /\ life'[p][q] = "done"
  <2>1. OnlyLife(x, y, "run", "done") /\ gcq' = [gcq EXCEPT ![x] = Append(@, y)]
    BY <1>6, SessionDoneLife DEF SessionDone
  <2>2. CASE p = x
    <3>1. gcq'[p] = Append(gcq[p], y) /\ gcq[p] \in Seq(Peers)
      BY <1>2, <2>1, <2>2
    <3>2. ~In(y, gcq[p])
      BY <1>1, <1>6, <2>1, <2>2 DEF OnlyLife
    <3>3. Once(gcq'[p]) /\ \A q : In(q, gcq'[p]) <=> In(q, gcq[p]) \/ q = y
      BY <1>1, <3>1, <3>2, AppendIn
    <3> QED
      BY <1>1, <2>1, <2>2, <3>3 DEF OnlyLife, Others
  <2>3. CASE p # x
    <3>1. gcq'[p] = gcq[p]
      BY <1>2, <2>1, <2>3
    <3> QED
      BY <1>1, <2>1, <2>3, <3>1 DEF OnlyLife, Others
  <2> QED
    BY <2>2, <2>3
<1>7. ASSUME NEW x \in Peers, CleanUp(x)
      PROVE  /\ Once(gcq'[p])
             /\ \A q \in Peers : In(q, gcq'[p]) => q # p /\ life'[p][q] = "done"
  <2> DEFINE y == Head(gcq[x])
  <2>1. OnlyLife(x, y, "done", "gone") /\ gcq' = [gcq EXCEPT ![x] = Tail(@)]
    BY <1>7, CleanUpLife DEF CleanUp
  <2>2. Once(Tail(gcq[x])) /\ \A q : In(q, Tail(gcq[x])) <=> In(q, gcq[x]) /\ q # y
    BY <1>2, <1>7, FirstQueued DEF CleanUp
  <2> HIDE DEF y
  <2>3. CASE p = x
    <3>1. Once(gcq'[p]) /\ \A q : In(q, gcq'[p]) <=> In(q, gcq[p]) /\ q # y
      BY <1>2, <2>1, <2>2, <2>3
    <3> QED
      BY <1>1, <2>1, <2>3, <3>1 DEF OnlyLife, Others
  <2>4. CASE p # x
    <3>1. gcq'[p] = gcq[p]
      BY <1>2, <2>1, <2>4
    <3> QED
      BY <1>1, <2>1, <2>4, <3>1 DEF OnlyLife, Others
  <2> QED
    BY <2>3, <2>4
<1>8. CASE UNCHANGED <<life, gcq>>
  BY <1>1, <1>8
<1> QED
  BY <1>3, <1>4, <1>5, <1>6, <1>7, <1>8, LifeSteps

LEMMA CountedStep == IInv /\ [Next]_vars => Counted'
<1> DEFINE Left(p) == {q \in Others(p) : life[p][q] # "gone"}
<1> SUFFICES ASSUME IInv, [Next]_vars, NEW p \in Peers
             PROVE  unfinished'[p] = Cardinality(Left(p)')
  BY DEF Counted
<1>1. unfinished[p] = Cardinality(Left(p)) /\ unfinished \in [Peers -> 0..(N - 1)]
  BY DEF IInv, Counted, Types, TypeOK
<1>2. ASSUME NEW x, NEW y, NEW v, NEW w, OnlyLife(x, y, v, w), v # "gone", w # "gone",
             UNCHANGED unfinished
      PROVE  unfinished'[p] = Cardinality(Left(p)')
  <2>1. Left(p)' = Left(p)
    BY <1>2 DEF OnlyLife
  <2> QED
    BY <1>1, <1>2, <2>1
<1>3. ASSUME NEW x \in Peers, Connect(x), at[x] \in todo[x], listening[at[x]]
      PROVE  OnlyLife(x, at[x], "none", "run") /\ UNCHANGED unfinished
  BY <1>3, ConnectLife DEF Connect, cleaning
<1>4. ASSUME NEW x \in Peers, Accept(x)
      PROVE  OnlyLife(x, Head(backlog[x]), "none", "run") /\ UNCHANGED unfinished
  BY <1>4, AcceptLife DEF Accept, cleaning
<1>5. ASSUME NEW x \in Peers, NEW y \in Peers, SessionDone(x, y)
      PROVE  OnlyLife(x, y, "run", "done") /\ UNCHANGED unfinished
  BY <1>5, SessionDoneLife DEF SessionDone
<1>6. ASSUME NEW x \in Peers, CleanUp(x)
      PROVE  unfinished'[p] = Cardinality(Left(p)')
  <2> DEFINE y == Head(gcq[x])
  <2>1. OnlyLife(x, y, "done", "gone") /\ unfinished' = [unfinished EXCEPT ![x] = @ - 1]
    BY <1>6, CleanUpLife DEF CleanUp
  <2> HIDE DEF y
  <2>2. CASE p = x
    <3>1. Left(p)' = Left(p) \ {y} /\ y \in Left(p)
      BY <2>1, <2>2 DEF OnlyLife
    <3>2. IsFiniteSet(Left(p))
      BY OthersFinite, FS_Subset
    <3>3. Cardinality(Left(p)') = Cardinality(Left(p)) - 1
      <4> HIDE DEF Left
      <4> QED
        BY <3>1, <3>2, FS_RemoveElement
    <3> QED
      BY <1>1, <2>1, <2>2, <3>3
  <2>3. CASE p # x
    <3>1. Left(p)' = Left(p)
      BY <2>1, <2>3 DEF OnlyLife
    <3>2. unfinished'[p] = unfinished[p]
      BY <1>1, <2>1, <2>3
    <3> QED
      BY <1>1, <3>1, <3>2
  <2> QED
    BY <2>2, <2>3
<1>7. CASE UNCHANGED <<life, unfinished>>
  BY <1>1, <1>7
<1> QED
  BY <1>2, <1>3, <1>4, <1>5, <1>6, <1>7, LifeSteps
LEMMA FinishedStep == IInv /\ [Next]_vars => Finished'
<1> SUFFICES ASSUME IInv, [Next]_vars, NEW p \in Peers
             PROVE  /\ gc'[p] # "run" => unfinished'[p] = 0
                    /\ main'[p] \in {"destroy", "exited"} => unfinished'[p] = 0
                    /\ main'[p] = "exited" => gc'[p] = "ended"
  BY DEF Finished
<1> USE DEF At, Goto
<1>1. /\ gc[p] # "run" => unfinished[p] = 0
      /\ main[p] \in {"destroy", "exited"} => unfinished[p] = 0
      /\ main[p] = "exited" => gc[p] = "ended"
  BY DEF IInv, Finished
<1>2. /\ main \in [Peers -> {"off", "connect", "test", "dozing", "asleep", "missed", "destroy",
                              "exited"}]
      /\ gc \in [Peers -> {"run", "notify", "ended"}]
      /\ unfinished \in [Peers -> 0..(N - 1)]
  BY DEF IInv, Types, TypeOK
<1>3. ASSUME NEW x \in Peers, Start(x) \/ NextRound(x) \/ WaitTest(x) \/ WaitSleep(x)
                              \/ SpuriousWake(x)
      PROVE  /\ gc'[p] # "run" => unfinished'[p] = 0
             /\ main'[p] \in {"destroy", "exited"} => unfinished'[p] = 0
             /\ main'[p] = "exited" => gc'[p] = "ended"
  <2>1. UNCHANGED <<gc, unfinished>>
    BY <1>3 DEF Start, NextRound, WaitTest, WaitSleep, SpuriousWake, cleaning
  <2>2. main'[p] \in {"destroy", "exited"} =>
          (main[p] = main'[p]) \/ (main'[p] = "destroy" /\ unfinished[p] = 0)
    BY <1>2, <1>3 DEF Start, NextRound, WaitTest, WaitSleep, SpuriousWake
  <2> QED
    BY <1>1, <2>1, <2>2
<1>4. ASSUME NEW x \in Peers, Exit(x)
      PROVE  /\ gc'[p] # "run" => unfinished'[p] = 0
             /\ main'[p] \in {"destroy", "exited"} => unfinished'[p] = 0
             /\ main'[p] = "exited" => gc'[p] = "ended"
  BY <1>1, <1>2, <1>4 DEF Exit, cleaning
<1>5. ASSUME NEW x \in Peers, CleanUp(x)
      PROVE  /\ gc'[p] # "run" => unfinished'[p] = 0
             /\ main'[p] \in {"destroy", "exited"} => unfinished'[p] = 0
             /\ main'[p] = "exited" => gc'[p] = "ended"
  <2>1. UNCHANGED main
    BY <1>5 DEF CleanUp
  <2>2. CASE p = x
    <3>1. gc[p] = "run" /\ unfinished[p] # 0
      <4>1. Head(gcq[p]) \in Others(p) /\ life[p][Head(gcq[p])] = "done"
        BY <1>5, <2>2, FirstQueued DEF IInv, CleanUp
      <4>2. unfinished[p] # 0
        BY <4>1, SomeUnfinished DEF IInv
      <4> QED
        BY <1>5, <2>2, <4>2 DEF CleanUp
    <3>2. gc'[p] # "run" => unfinished'[p] = 0
      BY <1>2, <1>5, <2>2 DEF CleanUp
    <3> QED
      BY <1>1, <2>1, <3>1, <3>2
  <2>3. CASE p # x
    BY <1>1, <1>2, <1>5, <2>1, <2>3 DEF CleanUp
  <2> QED
    BY <2>2, <2>3
<1>6. ASSUME NEW x \in Peers, Notify(x)
      PROVE  /\ gc'[p] # "run" => unfinished'[p] = 0
             /\ main'[p] \in {"destroy", "exited"} => unfinished'[p] = 0
             /\ main'[p] = "exited" => gc'[p] = "ended"
  <2>1. UNCHANGED unfinished /\ (gc'[p] = gc[p] \/ (gc[p] = "notify" /\ gc'[p] = "ended"))
    BY <1>2, <1>6 DEF Notify
  <2>2. main'[p] = main[p] \/ main'[p] = "test"
    BY <1>2, <1>6 DEF Notify
  <2> QED
    BY <1>1, <2>1, <2>2
<1>7. CASE UNCHANGED <<main, gc, unfinished>>
  BY <1>1, <1>7
<1> QED
  BY <1>3, <1>4, <1>5, <1>6, <1>7 DEF Next, Main, Rest, vars, Connect, Listen, Accept, Complete,
     SessionDone, cleaning

LEMMA InitIInv == Init => IInv
<1> SUFFICES ASSUME Init PROVE IInv
  OBVIOUS
<1>0. N \in Nat /\ N >= 2 /\ Peers = 1..N /\ Seeds \subseteq Peers
  BY LaunchAssumption DEF Peers
<1>1. \A p \in Peers : life[p] = [q \in Others(p) |-> "none"]
  BY DEF Init, Others
<1>2. <<>> \in Seq(Peers)
  BY EmptySeq
<1>3. Types
  <2>1. N - 1 \in 0..(N - 1) /\ 1 \in Peers /\ \A p \in Peers : PriorPeers(p) \subseteq Peers
    BY <1>0 DEF PriorPeers
  <2>2. life = [p \in Peers |-> life[p]]
    BY DEF Init
  <2> QED
    BY <1>0, <1>1, <1>2, <2>1, <2>2 DEF Init, Types, TypeOK, Others
<1>4. Tries
  BY <1>0, <1>1 DEF Init, Tries, Made, PriorPeers, Others
<1>5. Waiting
  BY <1>0, <1>1, EmptyIn DEF Init, Waiting, Made, Others
<1>6. Ended
  BY <1>1 DEF Init, Ended
<1>7. Queued
  BY EmptyIn DEF Init, Queued
<1>8. Counted
  <2> SUFFICES ASSUME NEW p \in Peers
               PROVE  unfinished[p] = Cardinality({q \in Others(p) : life[p][q] # "gone"})
    BY DEF Counted
  <2>1. {q \in Others(p) : life[p][q] # "gone"} = Others(p)
    BY <1>1
  <2> QED
    BY <2>1, OthersFinite DEF Init
<1>9. Finished
  BY DEF Init, Finished
<1> QED
  BY <1>3, <1>4, <1>5, <1>6, <1>7, <1>8, <1>9 DEF IInv

THEOREM Invariance == Spec => []IInv
<1>1. IInv /\ [Next]_vars => IInv'
  BY TypesStep, TriesStep, WaitingStep, EndedStep, QueuedStep, CountedStep, FinishedStep DEF IInv
<1> QED
  BY <1>1, InitIInv, PTL DEF Spec
-----------------------------------------------------------------------------
(***************************************************************************)
(* The theorems.                                                           *)
(***************************************************************************)

\* Every loop variable of main() stays within the peers and n_unfinished_session is
\* never counted below zero.
THEOREM TypeCorrect == Spec => []TypeOK
<1>1. IInv => TypeOK
  BY DEF IInv, Types
<1> QED
  BY <1>1, Invariance, PTL

\* Whichever process starts first and however often main() retries, a pair of peers has
\* one connection at most, and none is lost between connect and accept.
THEOREM OneConnection == Spec => []OneConnectionPerPair
<1>1. IInv => OneConnectionPerPair
  <2> SUFFICES ASSUME IInv, NEW p \in Peers, NEW q \in PriorPeers(p)
               PROVE  Cardinality({k \in DOMAIN backlog[q] : backlog[q][k] = p})
                        + (IF Made(q, p) THEN 1 ELSE 0) = (IF Made(p, q) THEN 1 ELSE 0)
    BY DEF OneConnectionPerPair
  <2> DEFINE K == {k \in DOMAIN backlog[q] : backlog[q][k] = p}
  <2>1. q \in Peers /\ q < p
    BY LaunchAssumption DEF Peers, PriorPeers
  <2>2. DOMAIN backlog[q] = 1..Len(backlog[q])
    BY <2>1, LenProperties DEF IInv, Types, TypeOK
  <2>3. /\ Once(backlog[q])
        /\ In(p, backlog[q]) <=> Made(p, q) /\ ~Made(q, p)
        /\ Made(q, p) => Made(p, q)
    BY <2>1 DEF IInv, Waiting
  <2>4. CASE In(p, backlog[q])
    <3>1. PICK k \in 1..Len(backlog[q]) : backlog[q][k] = p
      BY <2>4 DEF In
    <3>2. K = {k}
      BY <2>2, <2>3, <3>1 DEF Once
    <3>3. Cardinality(K) = 1
      BY <3>2, FS_Singleton
    <3> QED
      BY <2>3, <2>4, <3>3
  <2>5. CASE ~In(p, backlog[q])
    <3>1. K = {}
      BY <2>2, <2>5 DEF In
    <3>2. Cardinality(K) = 0
      BY <3>1, FS_EmptySet
    <3> QED
      BY <2>3, <2>5, <3>2
  <2> QED
    BY <2>4, <2>5
<1> QED
  BY <1>1, Invariance, PTL

\* A process only ends when every peer has the whole file and has met it, its own
\* sessions are destroyed, and its detached acceptor has no connection left to serve.
THEOREM ExitsAreClean == Spec => []CleanExit
<1>1. IInv => CleanExit
  <2> SUFFICES ASSUME IInv, NEW p \in Peers, At(p, "exited")
               PROVE  /\ complete = Peers
                      /\ \A q \in Others(p) : life[p][q] = "gone" /\ Made(q, p)
                      /\ gc[p] = "ended"
                      /\ backlog[p] = <<>>
    BY DEF CleanExit, Others
  <2>1. unfinished[p] = 0 /\ gc[p] = "ended"
    BY DEF At, IInv, Finished
  <2>2. \A q \in Others(p) : life[p][q] = "gone"
    BY <2>1, NoneUnfinished DEF IInv
  <2>3. \A q \in Others(p) : Made(q, p) /\ p \in complete /\ q \in complete
    BY <2>2 DEF IInv, Ended
  <2>4. complete = Peers
    <3>1. PICK q \in Peers : q # p
      <4>1. 1 \in Peers /\ 2 \in Peers
        BY LaunchAssumption DEF Peers
      <4> QED
        BY <4>1
    <3>2. complete \subseteq Peers
      BY DEF IInv, Types, TypeOK
    <3> QED
      BY <2>3, <3>1, <3>2 DEF Others
  <2>5. backlog[p] = <<>>
    BY <2>2, FirstWaiting DEF IInv
  <2> QED
    BY <2>1, <2>2, <2>3, <2>4, <2>5
<1> QED
  BY <1>1, Invariance, PTL
=============================================================================
