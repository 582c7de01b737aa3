---------------------------- MODULE SessionProofs ----------------------------
(***************************************************************************)
(* Proofs about one connection, for any set of pieces, any surroundings    *)
(* and any number of timer events.  The invariant says what the two queues *)
(* on the way from one end to the other may hold, and in which order.      *)
(***************************************************************************)
EXTENDS Session, SequenceTheorems, TLAPS

-----------------------------------------------------------------------------
(***************************************************************************)
(* What a queue holds, and in which order.                                 *)
(***************************************************************************)
Has(m, s) == \E k \in 1..Len(s) : s[k] = m
Single(m, s) == \A j, k \in 1..Len(s) : s[j] = m /\ s[k] = m => j = k
NoBitfield(s) == \A P \in SUBSET Pieces : ~Has(Bitfield(P), s)

\* Every UNCHOKE is followed by a CHOKE.
Rechoked(s) == \A k \in 1..Len(s) : s[k] = Unchoke => \E j \in k..Len(s) : s[j] = Choke

\* Events that come from this peer and not from the other end.
LocalTypes == {"TimerChoke", "TimerUnchoke", "BcastHave"}

\* Nothing from the other end comes after its TearDown.
EndsIfTearDown(s) ==
  \A k \in 1..Len(s) : s[k] = TearDown => \A j \in (k + 1)..Len(s) : s[j].type \in LocalTypes
LastIfTearDown(s) == \A k \in 1..Len(s) : s[k] = TearDown => k = Len(s)

Owned(p) == OwnedIn(own[p])
Over == {"greetDone", "sleep", "drain", "tdWait", "leave", "ended"}
TornDown == {"tdWait", "leave", "ended"}  \* the own TearDown has been sent
Setting == {"send", "recv"}
-----------------------------------------------------------------------------
(***************************************************************************)
(* The inductive invariant, part by part.                                  *)
(***************************************************************************)

\* The bitfield is the first message of the other end, and the only one of its type.
BitfieldFirst(p) ==
  /\ pc[Other(p)] = "send" => net[p] = <<>> /\ pc[p] \in Setting
  /\ pc[p] \in Setting /\ pc[Other(p)] # "send" =>
       /\ net[p] # <<>> /\ NoBitfield(Tail(net[p]))
       /\ \E P \in SUBSET Pieces : Head(net[p]) = Bitfield(P)
  /\ pc[p] \notin Setting => NoBitfield(net[p])

\* Whatever is said of a piece is said of one that is owned.
Truthful(p) ==
  /\ known[p] \subseteq Owned(Other(p))
  /\ unbcast[p] \subseteq Owned(p)
  /\ \A i \in Pieces :
       /\ Has(BcastHave(i), eq[p]) => i \in Owned(p)
       /\ Has(Have(i), eq[p]) \/ Has(Have(i), net[p]) => i \in Owned(Other(p))
  /\ \A P \in SUBSET Pieces : Has(Bitfield(P), net[p]) => P \subseteq Owned(Other(p))

\* Only what the other end has announced is asked for, once the session is set up.
AsksForKnown(p) ==
  /\ pc[p] \in Setting => known[p] = {} /\ asked[p] = {}
  /\ asked[p] \subseteq known[p]
  /\ \A i \in asked[p] : own[p][i] # "ABSENT"

\* A session only leaves its loop when both ends have everything, as far as it knows.
OverIsDone(p) == pc[p] \in Over => Done(p)

\* A claim is carried by one message, in one place: the REQUEST on the wire, or with
\* the other end, or the PIECE on the wire, or here.
OneCarrier(R, n1, e1, P, n2, e2, claim) ==
  /\ Has(R, n1) => ~Has(R, e1) /\ ~Has(P, n2) /\ ~Has(P, e2)
  /\ Has(R, e1) => ~Has(P, n2) /\ ~Has(P, e2)
  /\ Has(P, n2) => ~Has(P, e2)
  /\ Has(R, n1) \/ Has(R, e1) \/ Has(P, n2) \/ Has(P, e2) <=> claim
  /\ Single(R, n1) /\ Single(R, e1) /\ Single(P, n2) /\ Single(P, e2)

Carried(p, i) ==
  OneCarrier(Request(i), net[Other(p)], eq[Other(p)], Piece(i), net[p], eq[p],
             i \in asked[p] /\ own[p][i] = "REQUESTED")

\* TearDown is the last thing that an end sends, and an end only leaves after it has
\* got the TearDown of the other one.
TearDownLast(p) ==
  /\ Has(TearDown, net[p]) \/ Has(TearDown, eq[p]) => pc[Other(p)] \in TornDown
  /\ Has(TearDown, eq[p]) => net[p] = <<>>
  /\ EndsIfTearDown(eq[p])
  /\ LastIfTearDown(net[p])
  /\ pc[p] \in {"leave", "ended"} => net[p] = <<>> /\ pc[Other(p)] \in TornDown
  /\ pc[p] = "panic" => pc[Other(p)] \in TornDown

\* Who is not unchoked in the books of the other end has been told so last.
ChokedIsTold(p) ==
  pc[p] \notin Over /\ peerChoke[Other(p)] # "Unchoked" =>
    /\ unchoked[p] => Has(Choke, eq[p]) \/ Has(Choke, net[p])
    /\ Rechoked(eq[p]) \/ Has(Choke, net[p])
    /\ Rechoked(net[p])

\* A session in its loop that has everything has not announced it all: its own
\* broadcast will take it out of the loop before the other end can be over.
Announced(p, i) ==
  LET q == Other(p)
  IN  \/ i \in known[q] \/ Has(Have(i), eq[q]) \/ Has(Have(i), net[q])
      \/ \E P \in SUBSET Pieces : i \in P /\ Has(Bitfield(P), net[q])
LoopHasNews(p) ==
  pc[p] \in {"greet", "loop", "have"} /\ Done(p) => \E i \in Pieces : ~Announced(p, i)

IInv ==
  /\ TypeOK
  /\ \A p \in Peers :
       /\ BitfieldFirst(p) /\ Truthful(p) /\ AsksForKnown(p) /\ OverIsDone(p)
       /\ \A i \in Pieces : Carried(p, i)
       /\ TearDownLast(p) /\ ChokedIsTold(p) /\ LoopHasNews(p)

\* With a sleep that covers the broadcasts under way: no piece is forgotten ...
NothingForgotten(p) ==
  LET q == Other(p)
  IN  pc[q] # "send" =>
        \A i \in Owned(q) :
          i \in unbcast[q] \/ Has(BcastHave(i), eq[q]) \/ Announced(q, i)

\* ... and what an end does not know when the other has sent its TearDown is on its way.
NothingDropped(p) ==
  /\ pc[p] \in {"drain"} \cup TornDown => unbcast[p] = {}
  /\ pc[p] \in TornDown => KnowsAll(Other(p)) \/ \A i \in Pieces : ~Has(BcastHave(i), eq[p])

CoveredInv ==
  SleepCoversBroadcasts => \A p \in Peers : NothingForgotten(p) /\ NothingDropped(p)
-----------------------------------------------------------------------------
(***************************************************************************)
(* Lemmas about the peers, the messages and the queues.                    *)
(***************************************************************************)
LEMMA OtherEnd ==
  ASSUME NEW p \in Peers
  PROVE  /\ Other(p) \in Peers /\ Other(p) # p /\ Other(Other(p)) = p
         /\ Peers = {p, Other(p)}
<1>1. PICK a, b \in Peers : a # b /\ Peers = {a, b}
  BY SessionAssumption
<1>2. \A x \in Peers : Other(x) \in Peers /\ Other(x) # x
  BY <1>1 DEF Other
<1> QED
  BY <1>1, <1>2

\* Messages and events are told apart by type and piece.
LEMMA MessageFields ==
  /\ Choke.type = "Choke" /\ Unchoke.type = "Unchoke"
  /\ Interested.type = "Interested" /\ NotInterested.type = "NotInterested"
  /\ TearDown.type = "TearDown"
  /\ TimerChoke.type = "TimerChoke" /\ TimerUnchoke.type = "TimerUnchoke"
  /\ \A i : /\ Have(i).type = "Have" /\ Have(i).piece = i
            /\ Request(i).type = "Request" /\ Request(i).piece = i
            /\ Piece(i).type = "Piece" /\ Piece(i).piece = i
            /\ BcastHave(i).type = "BcastHave" /\ BcastHave(i).piece = i
  /\ \A P : Bitfield(P).type = "Bitfield" /\ Bitfield(P).owned = P
  BY DEF Choke, Unchoke, Interested, NotInterested, TearDown, TimerChoke, TimerUnchoke, Have,
     Request, Piece, BcastHave, Bitfield

LEMMA EventKinds ==
  ASSUME NEW e \in Events
  PROVE  /\ e.type # "Bitfield"
         /\ e.type = "Choke" => e = Choke
         /\ e.type = "Unchoke" => e = Unchoke
         /\ e.type = "TearDown" => e = TearDown
         /\ e.type = "Have" => e.piece \in Pieces /\ e = Have(e.piece)
         /\ e.type = "Request" => e.piece \in Pieces /\ e = Request(e.piece)
         /\ e.type = "Piece" => e.piece \in Pieces /\ e = Piece(e.piece)
         /\ e.type = "BcastHave" => e.piece \in Pieces /\ e = BcastHave(e.piece)
  BY DEF Events, Messages, Choke, Unchoke, Interested, NotInterested, TearDown, TimerChoke,
     TimerUnchoke, Have, Request, Piece, BcastHave, Bitfield

LEMMA MessageKinds ==
  ASSUME NEW m \in Messages
  PROVE  /\ m.type = "Bitfield" => m.owned \in SUBSET Pieces /\ m = Bitfield(m.owned)
         /\ m.type # "Bitfield" => m \in Events /\ m.type \notin LocalTypes
  BY DEF Events, Messages, LocalTypes, Choke, Unchoke, Interested, NotInterested, TearDown,
     TimerChoke, TimerUnchoke, Have, Request, Piece, BcastHave, Bitfield

LEMMA HasConcat ==
  ASSUME NEW S, NEW s \in Seq(S), NEW t \in Seq(S)
  PROVE  \A m : Has(m, s \o t) <=> Has(m, s) \/ Has(m, t)
<1> DEFINE c == s \o t
<1>1. /\ Len(s) \in Nat /\ Len(t) \in Nat /\ Len(c) = Len(s) + Len(t)
      /\ \A k \in 1..(Len(s) + Len(t)) : c[k] = IF k <= Len(s) THEN s[k] ELSE t[k - Len(s)]
  BY ConcatProperties, LenProperties
<1> HIDE DEF c
<1>2. ASSUME NEW m, Has(m, c) PROVE Has(m, s) \/ Has(m, t)
  <2>1. PICK k \in 1..Len(c) : c[k] = m
    BY <1>2 DEF Has
  <2>2. CASE k <= Len(s)
    BY <1>1, <2>1, <2>2 DEF Has
  <2>3. CASE k > Len(s)
    <3>1. k - Len(s) \in 1..Len(t) /\ t[k - Len(s)] = m
      BY <1>1, <2>1, <2>3
    <3> QED
      BY <3>1 DEF Has
  <2> QED
    BY <1>1, <2>2, <2>3
<1>3. ASSUME NEW m, Has(m, s) PROVE Has(m, c)
  <2>1. PICK k \in 1..Len(s) : s[k] = m
    BY <1>3 DEF Has
  <2>2. k \in 1..Len(c) /\ c[k] = m
    BY <1>1, <2>1
  <2> QED
    BY <2>2 DEF Has
<1>4. ASSUME NEW m, Has(m, t) PROVE Has(m, c)
  <2>1. PICK k \in 1..Len(t) : t[k] = m
    BY <1>4 DEF Has
  <2>2. k + Len(s) \in 1..Len(c) /\ c[k + Len(s)] = m
    BY <1>1, <2>1
  <2> QED
    BY <2>2 DEF Has
<1> QED
  BY <1>2, <1>3, <1>4 DEF c

LEMMA HasTail ==
  ASSUME NEW S, NEW s \in Seq(S), s # <<>>
  PROVE  /\ Head(s) \in S /\ Tail(s) \in Seq(S)
         /\ \A m : Has(m, s) <=> m = Head(s) \/ Has(m, Tail(s))
<1> DEFINE t == Tail(s)
<1>1. /\ t \in Seq(S) /\ Head(s) \in S /\ Head(s) = s[1]
      /\ Len(s) \in Nat \ {0} /\ Len(t) = Len(s) - 1
      /\ \A k \in 1..Len(t) : t[k] = s[k + 1]
  BY HeadTailProperties, LenProperties, EmptySeq
<1> HIDE DEF t
<1>2. ASSUME NEW m, Has(m, s), m # Head(s) PROVE Has(m, t)
  <2>1. PICK k \in 1..Len(s) : s[k] = m
    BY <1>2 DEF Has
  <2>2. k - 1 \in 1..Len(t) /\ t[k - 1] = s[k - 1 + 1]
    BY <1>1, <1>2, <2>1
  <2> QED
    BY <2>1, <2>2 DEF Has
<1>3. ASSUME NEW m, Has(m, t) PROVE Has(m, s)
  BY <1>1, <1>3 DEF Has
<1>4. Has(Head(s), s)
  BY <1>1 DEF Has
<1> QED
  BY <1>1, <1>2, <1>3, <1>4 DEF t

LEMMA HeadStays ==
  ASSUME NEW S, NEW s \in Seq(S), NEW t \in Seq(S), s # <<>>
  PROVE  /\ s \o t # <<>> /\ Head(s \o t) = Head(s)
         /\ \A m : Has(m, Tail(s \o t)) => Has(m, Tail(s)) \/ Has(m, t)
<1> DEFINE c == s \o t
<1>1. /\ Len(s) \in Nat \ {0} /\ Len(t) \in Nat /\ c \in Seq(S) /\ Len(c) = Len(s) + Len(t)
      /\ \A k \in 1..(Len(s) + Len(t)) : c[k] = IF k <= Len(s) THEN s[k] ELSE t[k - Len(s)]
  BY ConcatProperties, LenProperties, EmptySeq
<1> HIDE DEF c
<1>2. c # <<>>
  BY <1>1, EmptySeq
<1>3. /\ Head(c) = c[1] /\ Len(Tail(c)) = Len(c) - 1
      /\ \A k \in 1..Len(Tail(c)) : Tail(c)[k] = c[k + 1]
  BY <1>1, <1>2, HeadTailProperties
<1>4. /\ Head(s) = s[1] /\ Len(Tail(s)) = Len(s) - 1
      /\ \A k \in 1..Len(Tail(s)) : Tail(s)[k] = s[k + 1]
  BY HeadTailProperties
<1>5. Head(c) = Head(s)
  BY <1>1, <1>3, <1>4
<1>6. ASSUME NEW m, Has(m, Tail(c)) PROVE Has(m, Tail(s)) \/ Has(m, t)
  <2>1. PICK k \in 1..Len(Tail(c)) : Tail(c)[k] = m
    BY <1>6 DEF Has
  <2>2. k \in Nat /\ k + 1 \in 1..Len(c) /\ c[k + 1] = m
    BY <1>1, <1>3, <2>1
  <2>3. CASE k + 1 <= Len(s)
    <3>1. k \in 1..Len(Tail(s)) /\ Tail(s)[k] = m
      BY <1>1, <1>4, <2>1, <2>2, <2>3
    <3> QED
      BY <3>1 DEF Has
  <2>4. CASE k + 1 > Len(s)
    <3>1. k + 1 - Len(s) \in 1..Len(t) /\ t[k + 1 - Len(s)] = m
      BY <1>1, <2>2, <2>4
    <3> QED
      BY <3>1 DEF Has
  <2> QED
    BY <1>1, <2>2, <2>3, <2>4
<1> QED
  BY <1>2, <1>5, <1>6 DEF c

\* What is not a member of a set is not in a queue over that set.
LEMMA HasMember ==
  ASSUME NEW T, NEW s \in Seq(T), NEW m, Has(m, s)
  PROVE  m \in T
  BY ElementOfSeq DEF Has

LEMMA HasOne ==
  ASSUME NEW a
  PROVE  \A m : Has(m, <<a>>) <=> m = a
<1>1. Len(<<a>>) = 1 /\ <<a>>[1] = a
  OBVIOUS
<1> QED
  BY <1>1 DEF Has

LEMMA HasNone == \A m : ~Has(m, <<>>)
  BY DEF Has
\* The same for the operators about order.
LEMMA SingleQueue ==
  ASSUME NEW S, NEW s \in Seq(S), NEW m
  PROVE  /\ ~Has(m, s) => Single(m, s)
         /\ \A t \in Seq(S) : Single(m, s) /\ Single(m, t) /\ ~(Has(m, s) /\ Has(m, t))
                             => Single(m, s \o t)
         /\ s # <<>> /\ Single(m, s) => Single(m, Tail(s)) /\ (m = Head(s) => ~Has(m, Tail(s)))
<1>1. ~Has(m, s) => Single(m, s)
  BY DEF Has, Single
<1>2. ASSUME NEW t \in Seq(S), Single(m, s), Single(m, t), ~(Has(m, s) /\ Has(m, t))
      PROVE  Single(m, s \o t)
  <2> DEFINE c == s \o t
  <2>1. /\ Len(s) \in Nat /\ Len(t) \in Nat /\ Len(c) = Len(s) + Len(t)
        /\ \A k \in 1..(Len(s) + Len(t)) : c[k] = IF k <= Len(s) THEN s[k] ELSE t[k - Len(s)]
    BY ConcatProperties, LenProperties
  <2> HIDE DEF c
  <2> SUFFICES ASSUME NEW j \in 1..Len(c), NEW k \in 1..Len(c), c[j] = m, c[k] = m, j # k
               PROVE  FALSE
    BY DEF Single, c
  <2>2. CASE j <= Len(s) /\ k <= Len(s)
    BY <1>2, <2>1, <2>2 DEF Single
  <2>3. CASE j > Len(s) /\ k > Len(s)
    <3>1. /\ j - Len(s) \in 1..Len(t) /\ k - Len(s) \in 1..Len(t) /\ j - Len(s) # k - Len(s)
          /\ t[j - Len(s)] = m /\ t[k - Len(s)] = m
      BY <2>1, <2>3
    <3> QED
      BY <1>2, <3>1 DEF Single
  <2>4. ASSUME NEW x \in 1..Len(c), NEW y \in 1..Len(c), x <= Len(s), y > Len(s), c[x] = m, c[y] = m
        PROVE  FALSE
    <3>1. x \in 1..Len(s) /\ s[x] = m /\ y - Len(s) \in 1..Len(t) /\ t[y - Len(s)] = m
      BY <2>1, <2>4
    <3> QED
      BY <1>2, <3>1 DEF Has
  <2> QED
    BY <2>1, <2>2, <2>3, <2>4
<1>3. ASSUME s # <<>>, Single(m, s)
      PROVE  Single(m, Tail(s)) /\ (m = Head(s) => ~Has(m, Tail(s)))
  <2> DEFINE t == Tail(s)
  <2>1. /\ Head(s) = s[1] /\ Len(s) \in Nat \ {0} /\ Len(t) = Len(s) - 1
        /\ \A k \in 1..Len(t) : t[k] = s[k + 1]
    BY <1>3, HeadTailProperties, LenProperties, EmptySeq
  <2> HIDE DEF t
  <2>2. Single(m, t)
    BY <1>3, <2>1 DEF Single
  <2>3. m = Head(s) => ~Has(m, t)
    BY <1>3, <2>1 DEF Single, Has
  <2> QED
    BY <2>2, <2>3 DEF t
<1> QED
  BY <1>1, <1>2, <1>3

LEMMA RechokedQueue ==
  ASSUME NEW S, NEW s \in Seq(S)
  PROVE  /\ ~Has(Unchoke, s) => Rechoked(s)
         /\ \A t \in Seq(S) : Rechoked(t) /\ (Rechoked(s) \/ Has(Choke, t)) => Rechoked(s \o t)
         /\ s # <<>> /\ Rechoked(s) =>
              Rechoked(Tail(s)) /\ (Head(s) = Unchoke => Has(Choke, Tail(s)))
<1>1. ~Has(Unchoke, s) => Rechoked(s)
  BY DEF Has, Rechoked
<1>2. ASSUME NEW t \in Seq(S), Rechoked(t), Rechoked(s) \/ Has(Choke, t)
      PROVE  Rechoked(s \o t)
  <2> DEFINE c == s \o t
  <2>1. /\ Len(s) \in Nat /\ Len(t) \in Nat /\ Len(c) = Len(s) + Len(t)
        /\ \A k \in 1..(Len(s) + Len(t)) : c[k] = IF k <= Len(s) THEN s[k] ELSE t[k - Len(s)]
    BY ConcatProperties, LenProperties
  <2> HIDE DEF c
  <2> SUFFICES ASSUME NEW k \in 1..Len(c), c[k] = Unchoke
               PROVE  \E j \in k..Len(c) : c[j] = Choke
    BY DEF Rechoked, c
  <2>2. CASE k <= Len(s) /\ Rechoked(s)
    <3>1. PICK j \in k..Len(s) : s[j] = Choke
      BY <2>1, <2>2 DEF Rechoked
    <3>2. j \in k..Len(c) /\ c[j] = Choke
      BY <2>1, <3>1
    <3> QED
      BY <3>2
  <2>3. CASE k <= Len(s) /\ Has(Choke, t)
    <3>1. PICK j \in 1..Len(t) : t[j] = Choke
      BY <2>3 DEF Has
    <3>2. /\ j + Len(s) \in k..Len(c) /\ j + Len(s) \in 1..(Len(s) + Len(t))
          /\ ~(j + Len(s) <= Len(s)) /\ j + Len(s) - Len(s) = j
      BY <2>1, <2>3
    <3>3. c[j + Len(s)] = Choke
      BY <2>1, <3>1, <3>2
    <3> QED
      BY <3>2, <3>3
  <2>4. CASE k > Len(s)
    <3>1. k - Len(s) \in 1..Len(t) /\ t[k - Len(s)] = Unchoke
      BY <2>1, <2>4
    <3>2. PICK j \in (k - Len(s))..Len(t) : t[j] = Choke
      BY <1>2, <3>1 DEF Rechoked
    <3>3. /\ j + Len(s) \in k..Len(c) /\ j + Len(s) \in 1..(Len(s) + Len(t))
          /\ ~(j + Len(s) <= Len(s)) /\ j + Len(s) - Len(s) = j
      BY <2>1, <2>4, <3>1
    <3>4. c[j + Len(s)] = Choke
      BY <2>1, <3>2, <3>3
    <3> QED
      BY <3>3, <3>4
  <2> QED
    BY <1>2, <2>1, <2>2, <2>3, <2>4
<1>3. ASSUME s # <<>>, Rechoked(s)
      PROVE  Rechoked(Tail(s)) /\ (Head(s) = Unchoke => Has(Choke, Tail(s)))
  <2> DEFINE t == Tail(s)
  <2>1. /\ Head(s) = s[1] /\ Len(s) \in Nat \ {0} /\ Len(t) = Len(s) - 1
        /\ \A k \in 1..Len(t) : t[k] = s[k + 1]
    BY <1>3, HeadTailProperties, LenProperties, EmptySeq
  <2> HIDE DEF t
  <2>2. ASSUME NEW k \in 1..Len(t), t[k] = Unchoke
        PROVE  \E j \in k..Len(t) : t[j] = Choke
    <3>1. k + 1 \in 1..Len(s) /\ s[k + 1] = Unchoke
      BY <2>1, <2>2
    <3>2. PICK j \in (k + 1)..Len(s) : s[j] = Choke
      BY <1>3, <3>1 DEF Rechoked
    <3>3. j - 1 \in k..Len(t) /\ t[j - 1] = s[j - 1 + 1]
      BY <2>1, <3>2
    <3> QED
      BY <3>2, <3>3
  <2>3. ASSUME Head(s) = Unchoke PROVE Has(Choke, t)
    <3>1. PICK j \in 1..Len(s) : s[j] = Choke
      BY <1>3, <2>1, <2>3 DEF Rechoked
    <3>2. Choke # Unchoke
      BY MessageFields
    <3>3. j - 1 \in 1..Len(t) /\ t[j - 1] = s[j - 1 + 1]
      BY <2>1, <2>3, <3>1, <3>2
    <3> QED
      BY <3>1, <3>3 DEF Has
  <2> QED
    BY <2>2, <2>3 DEF Rechoked, t
<1> QED
  BY <1>1, <1>2, <1>3

LEMMA TearDownQueue ==
  ASSUME NEW S, NEW s \in Seq(S)
  PROVE  /\ ~Has(TearDown, s) => EndsIfTearDown(s) /\ LastIfTearDown(s)
         /\ LastIfTearDown(s) => EndsIfTearDown(s)
         /\ \A t \in Seq(S) :
              /\ ~Has(TearDown, s) /\ EndsIfTearDown(t) => EndsIfTearDown(s \o t)
              /\ ~Has(TearDown, s) /\ LastIfTearDown(t) => LastIfTearDown(s \o t)
         /\ \A T : \A t \in Seq(T) :
              (\A e \in T : e \in S /\ e.type \in LocalTypes) /\ EndsIfTearDown(s) => EndsIfTearDown(s \o t)
         /\ s # <<>> /\ EndsIfTearDown(s) =>
              /\ EndsIfTearDown(Tail(s))
              /\ Head(s) = TearDown => \A m : Has(m, Tail(s)) => m.type \in LocalTypes
         /\ s # <<>> /\ LastIfTearDown(s) =>
              /\ LastIfTearDown(Tail(s))
              /\ Head(s) = TearDown => Tail(s) = <<>>
<1>1. ~Has(TearDown, s) => EndsIfTearDown(s) /\ LastIfTearDown(s)
  BY DEF Has, EndsIfTearDown, LastIfTearDown
<1>2. LastIfTearDown(s) => EndsIfTearDown(s)
  <2> SUFFICES ASSUME LastIfTearDown(s), NEW k \in 1..Len(s), s[k] = TearDown,
                      NEW j \in (k + 1)..Len(s)
               PROVE  FALSE
    BY DEF EndsIfTearDown
  <2>1. k = Len(s) /\ Len(s) \in Nat
    BY LenProperties DEF LastIfTearDown
  <2> QED
    BY <2>1
<1>3. ASSUME NEW t \in Seq(S), ~Has(TearDown, s)
      PROVE  /\ EndsIfTearDown(t) => EndsIfTearDown(s \o t)
             /\ LastIfTearDown(t) => LastIfTearDown(s \o t)
  <2> DEFINE c == s \o t
  <2>1. /\ Len(s) \in Nat /\ Len(t) \in Nat /\ Len(c) = Len(s) + Len(t)
        /\ \A k \in 1..(Len(s) + Len(t)) : c[k] = IF k <= Len(s) THEN s[k] ELSE t[k - Len(s)]
    BY ConcatProperties, LenProperties
  <2> HIDE DEF c
  <2>2. ASSUME NEW k \in 1..Len(c), c[k] = TearDown
        PROVE  k > Len(s) /\ k - Len(s) \in 1..Len(t) /\ t[k - Len(s)] = TearDown
    <3>1. k > Len(s)
      BY <1>3, <2>1, <2>2 DEF Has
    <3> QED
      BY <2>1, <2>2, <3>1
  <2>3. ASSUME EndsIfTearDown(t), NEW k \in 1..Len(c), c[k] = TearDown, NEW j \in (k + 1)..Len(c)
        PROVE  c[j].type \in LocalTypes
    <3>1. k - Len(s) \in 1..Len(t) /\ t[k - Len(s)] = TearDown /\ k > Len(s)
      BY <2>2, <2>3
    <3>2. j - Len(s) \in (k - Len(s) + 1)..Len(t) /\ c[j] = t[j - Len(s)]
      BY <2>1, <2>3, <3>1
    <3> QED
      BY <2>3, <3>1, <3>2 DEF EndsIfTearDown
  <2>4. ASSUME LastIfTearDown(t), NEW k \in 1..Len(c), c[k] = TearDown
        PROVE  k = Len(c)
    <3>1. k - Len(s) = Len(t)
      BY <2>2, <2>4 DEF LastIfTearDown
    <3> QED
      BY <2>1, <3>1
  <2> QED
    BY <2>3, <2>4 DEF EndsIfTearDown, LastIfTearDown, c
<1>4. ASSUME NEW T, NEW t \in Seq(T), \A e \in T : e \in S /\ e.type \in LocalTypes, EndsIfTearDown(s)
      PROVE  EndsIfTearDown(s \o t)
  <2> DEFINE c == s \o t
  <2>0. t \in Seq(S) /\ \A k \in 1..Len(t) : t[k].type \in LocalTypes
    <3>1. \A k \in 1..Len(t) : t[k] \in T
      BY ElementOfSeq
    <3>2. t \in Seq(S)
      BY <1>4, <3>1, LenProperties
    <3> QED
      BY <1>4, <3>1, <3>2
  <2>1. /\ Len(s) \in Nat /\ Len(t) \in Nat /\ Len(c) = Len(s) + Len(t)
        /\ \A k \in 1..(Len(s) + Len(t)) : c[k] = IF k <= Len(s) THEN s[k] ELSE t[k - Len(s)]
    BY <2>0, ConcatProperties, LenProperties
  <2> HIDE DEF c
  <2>2. ASSUME NEW k \in 1..Len(c), c[k] = TearDown, NEW j \in (k + 1)..Len(c)
        PROVE  c[j].type \in LocalTypes
    <3>1. CASE j > Len(s)
      <4>1. j - Len(s) \in 1..Len(t) /\ c[j] = t[j - Len(s)]
        BY <2>1, <2>2, <3>1
      <4> QED
        BY <2>0, <4>1
    <3>2. CASE j <= Len(s)
      <4>1. k \in 1..Len(s) /\ s[k] = TearDown /\ j \in (k + 1)..Len(s) /\ c[j] = s[j]
        BY <2>1, <2>2, <3>2
      <4> QED
        BY <1>4, <4>1 DEF EndsIfTearDown
    <3> QED
      BY <2>1, <2>2, <3>1, <3>2
  <2> QED
    BY <2>2 DEF EndsIfTearDown, c
<1>5. ASSUME s # <<>>
      PROVE  /\ EndsIfTearDown(s) =>
                  /\ EndsIfTearDown(Tail(s))
                  /\ Head(s) = TearDown => \A m : Has(m, Tail(s)) => m.type \in LocalTypes
             /\ LastIfTearDown(s) =>
                  /\ LastIfTearDown(Tail(s))
                  /\ Head(s) = TearDown => Tail(s) = <<>>
  <2> DEFINE t == Tail(s)
  <2>1. /\ Head(s) = s[1] /\ Len(s) \in Nat \ {0} /\ Len(t) = Len(s) - 1 /\ t \in Seq(S)
        /\ \A k \in 1..Len(t) : t[k] = s[k + 1]
    BY <1>5, HeadTailProperties, LenProperties, EmptySeq
  <2>2. t # <<>> => Len(t) \in Nat \ {0}
    BY <2>1, EmptySeq
  <2> HIDE DEF t
  <2>3. ASSUME EndsIfTearDown(s), NEW k \in 1..Len(t), t[k] = TearDown, NEW j \in (k + 1)..Len(t)
        PROVE  t[j].type \in LocalTypes
    <3>1. k + 1 \in 1..Len(s) /\ s[k + 1] = TearDown /\ j + 1 \in (k + 1 + 1)..Len(s) /\ t[j] = s[j + 1]
      BY <2>1, <2>3
    <3> QED
      BY <2>3, <3>1 DEF EndsIfTearDown
  <2>4. ASSUME EndsIfTearDown(s), Head(s) = TearDown, NEW m, Has(m, t)
        PROVE  m.type \in LocalTypes
    <3>1. PICK k \in 1..Len(t) : t[k] = m
      BY <2>4 DEF Has
    <3>2. 1 \in 1..Len(s) /\ s[1] = TearDown /\ k + 1 \in (1 + 1)..Len(s) /\ m = s[k + 1]
      BY <2>1, <2>4, <3>1
    <3> QED
      BY <2>4, <3>2 DEF EndsIfTearDown
  <2>5. ASSUME LastIfTearDown(s), NEW k \in 1..Len(t), t[k] = TearDown
        PROVE  k = Len(t)
    <3>1. k + 1 \in 1..Len(s) /\ s[k + 1] = TearDown
      BY <2>1, <2>5
    <3>2. k + 1 = Len(s)
      BY <2>5, <3>1 DEF LastIfTearDown
    <3> QED
      BY <2>1, <3>2
  <2>6. ASSUME LastIfTearDown(s), Head(s) = TearDown PROVE t = <<>>
    <3>1. 1 \in 1..Len(s) /\ s[1] = TearDown
      BY <2>1, <2>6
    <3>2. 1 = Len(s)
      BY <2>6, <3>1 DEF LastIfTearDown
    <3> QED
      BY <2>1, <2>2, <3>2
  <2> QED
    BY <2>3, <2>4, <2>5, <2>6 DEF EndsIfTearDown, LastIfTearDown, t
<1> QED
  BY <1>1, <1>2, <1>3, <1>4, <1>5
-----------------------------------------------------------------------------
(***************************************************************************)
(* What the steps do to the queues, the locations and the tables.          *)
(***************************************************************************)
Timers == {TimerChoke, TimerUnchoke}
Chokes == {Choke, Unchoke}
Interests == {Interested, NotInterested}

\* p leaves s in its event queue and sends msgs.
Queues(p, s, msgs) ==
  /\ eq'[p] = s /\ eq'[Other(p)] = eq[Other(p)]
  /\ net'[Other(p)] = net[Other(p)] \o msgs /\ net'[p] = net[p]

\* p goes from one location to another.
Goes(p, from, to) == pc[p] = from /\ pc'[p] = to /\ pc'[Other(p)] = pc[Other(p)]

\* The first event of p's queue is e.
First(p, e) == eq[p] # <<>> /\ Head(eq[p]) = e

tables == <<own, asked, unbcast, known>>
chokes == <<unchoked, peerChoke>>

LEMMA ShortQueues ==
  /\ \A T : <<>> \in Seq(T)
  /\ \A T : \A e \in T : <<e>> \in Seq(T)
  /\ \A T : \A e \in T : \A c \in BOOLEAN : If(c, e) \in Seq(T)
  /\ \A T : \A s \in Seq(T) : s \o <<>> = s /\ <<>> \o s = s
<1>1. \A T : <<>> \in Seq(T)
  BY EmptySeq
<1>2. \A T : \A e \in T : <<e>> \in Seq(T)
  OBVIOUS
<1>3. \A T : \A s \in Seq(T) : s \o <<>> = s /\ <<>> \o s = s
  BY ConcatEmptySeq
<1> QED
  BY <1>1, <1>2, <1>3 DEF If

LEMMA SendBitfieldDoes ==
  ASSUME TypeOK, NEW p \in Peers, SendBitfield(p)
  PROVE  /\ Goes(p, "send", "recv")
         /\ Queues(p, eq[p], <<Bitfield(Owned(p))>>)
         /\ UNCHANGED <<tables, chokes>>
  BY OtherEnd DEF TypeOK, SendBitfield, Goes, Queues, tables, chokes, Send, Goto, At, table, flags,
     Owned

LEMMA ReceiveBitfieldDoes ==
  ASSUME TypeOK, NEW p \in Peers, ReceiveBitfield(p)
  PROVE  /\ Goes(p, "recv", IF Done(p)' THEN "greetDone" ELSE "greet")
         /\ net[p] # <<>> /\ net'[p] = Tail(net[p]) /\ net'[Other(p)] = net[Other(p)]
         /\ known'[p] = Head(net[p]).owned /\ known'[Other(p)] = known[Other(p)]
         /\ UNCHANGED <<eq, own, asked, unbcast, chokes>>
<1>1. UNCHANGED <<eq, own, asked, unbcast, chokes>>
  BY DEF ReceiveBitfield, table, flags, chokes
<1>2. Done(p)' <=> OwnsAll(p) /\ known'[p] = Pieces
  BY <1>1 DEF Done, OwnsAll, KnowsAll
<1>3. /\ net[p] # <<>> /\ net'[p] = Tail(net[p]) /\ net'[Other(p)] = net[Other(p)]
      /\ known'[p] = Head(net[p]).owned /\ known'[Other(p)] = known[Other(p)]
  BY OtherEnd DEF TypeOK, ReceiveBitfield
<1>4. /\ pc[p] = "recv" /\ pc'[Other(p)] = pc[Other(p)]
      /\ pc'[p] = IF OwnsAll(p) /\ known'[p] = Pieces THEN "greetDone" ELSE "greet"
  BY OtherEnd DEF TypeOK, ReceiveBitfield, At, Goto
<1> QED
  BY <1>1, <1>2, <1>3, <1>4 DEF Goes

LEMMA GreetDoes ==
  ASSUME TypeOK, NEW p \in Peers, Greet(p)
  PROVE  /\ Goes(p, "greet", "loop") \/ Goes(p, "greetDone", "sleep")
         /\ \E msgs \in Seq(Interests) : Queues(p, eq[p], msgs)
         /\ UNCHANGED <<tables, chokes>>
<1> DEFINE msgs == <<IF Wanted(p) = {} THEN NotInterested ELSE Interested>>
<1>1. msgs \in Seq(Interests)
  BY ShortQueues DEF Interests
<1>2. Queues(p, eq[p], msgs)
  BY OtherEnd DEF TypeOK, Greet, Queues, Send
<1>3. Goes(p, "greet", "loop") \/ Goes(p, "greetDone", "sleep")
  BY OtherEnd DEF TypeOK, Greet, Goes, Goto, At
<1> QED
  BY <1>1, <1>2, <1>3 DEF Greet, table, flags, tables, chokes

LEMMA ScanDoes ==
  ASSUME TypeOK, NEW p \in Peers, Scan(p)
  PROVE  /\ pc[p] \notin {"send", "recv", "greet", "greetDone", "ended", "panic"}
         /\ net[p] # <<>> /\ net'[p] = Tail(net[p]) /\ net'[Other(p)] = net[Other(p)]
         /\ eq'[p] = eq[p] \o <<Head(net[p])>> /\ eq'[Other(p)] = eq[Other(p)]
         /\ UNCHANGED <<pc, tables, chokes>>
  BY OtherEnd DEF TypeOK, Scan, Active, Enq, table, flags, tables, chokes

\* The handlers of choke, interest and timer events.
Chatter(p) ==
  \/ HandleTimerChoke(p) \/ HandleTimerUnchoke(p) \/ HandleChoke(p)
  \/ HandleInterested(p) \/ HandleNotInterested(p)

ChatTypes == {"TimerChoke", "TimerUnchoke", "Choke", "Interested", "NotInterested"}

\* What they do: e is handled, ev comes into the queue, msgs goes out; peer_choke is
\* only set to, or left at, something else than Unchoked with a CHOKE as the last word.
Chats(p, ev, msgs) ==
  /\ pc[p] = "loop" /\ eq[p] # <<>> /\ Head(eq[p]).type \in ChatTypes
  /\ Queues(p, Tail(eq[p]) \o ev, msgs)
  /\ unchoked'[p] = (unchoked[p] /\ Head(eq[p]).type # "Choke")
  /\ unchoked'[Other(p)] = unchoked[Other(p)]
  /\ peerChoke'[Other(p)] = peerChoke[Other(p)]
  /\ peerChoke'[p] # "Unchoked" =>
       \/ msgs = <<Choke>>
       \/ msgs = <<>> /\ peerChoke[p] # "Unchoked"
  /\ UNCHANGED <<pc, tables>>

LEMMA TailType ==
  ASSUME TypeOK, NEW p \in Peers, eq[p] # <<>>
  PROVE  Tail(eq[p]) \in Seq(Events) /\ Head(eq[p]) \in Events /\ Tail(eq[p]) \o <<>> = Tail(eq[p])
<1>1. eq[p] \in Seq(Events)
  BY DEF TypeOK
<1>2. Tail(eq[p]) \in Seq(Events) /\ Head(eq[p]) \in Events
  BY <1>1, HasTail
<1> QED
  BY <1>2, ShortQueues

LEMMA ChatterDoes ==
  ASSUME TypeOK, NEW p \in Peers, Chatter(p)
  PROVE  \E ev \in Seq(Timers) : \E msgs \in Seq(Chokes) : Chats(p, ev, msgs)
<1> USE OtherEnd DEF TypeOK, Chats, Queues, Handle, At, Send, Deq, DeqEnq, table, flags, tables,
    ChatTypes
<1>0. /\ <<>> \in Seq(Timers) /\ <<>> \in Seq(Chokes)
      /\ <<TimerUnchoke>> \in Seq(Timers) /\ <<Choke>> \in Seq(Chokes)
      /\ \A c \in BOOLEAN : /\ If(c, Choke) \in Seq(Chokes) /\ If(c, Unchoke) \in Seq(Chokes)
                            /\ If(c, TimerChoke) \in Seq(Timers)
  BY ShortQueues DEF Timers, Chokes
<1>1. CASE HandleTimerChoke(p)
  <2> DEFINE msgs == If(peerChoke[p] # "Choked", Choke)
  <2>1. msgs \in Seq(Chokes) /\ (msgs = <<Choke>> \/ (msgs = <<>> /\ peerChoke[p] = "Choked"))
    BY <1>0 DEF If
  <2>2. eq[p] # <<>> /\ Tail(eq[p]) \o <<>> = Tail(eq[p])
    BY <1>1, TailType DEF HandleTimerChoke
  <2>3. Chats(p, <<>>, msgs)
    BY <1>1, <2>1, <2>2 DEF HandleTimerChoke
  <2> QED
    BY <1>0, <2>1, <2>3
<1>2. CASE HandleTimerUnchoke(p)
  <2> DEFINE msgs == If(peerChoke[p] # "Unchoked", Unchoke)
  <2>1. msgs \in Seq(Chokes)
    BY <1>0
  <2>2. eq[p] # <<>> /\ Tail(eq[p]) \o <<>> = Tail(eq[p])
    BY <1>2, TailType DEF HandleTimerUnchoke
  <2>3. Chats(p, <<>>, msgs)
    BY <1>2, <2>2 DEF HandleTimerUnchoke
  <2> QED
    BY <1>0, <2>1, <2>3
<1>3. CASE HandleChoke(p)
  <2>1. eq[p] # <<>> /\ Tail(eq[p]) \o <<>> = Tail(eq[p])
    BY <1>3, TailType DEF HandleChoke
  <2>2. net[Other(p)] \o <<>> = net[Other(p)]
    BY ShortQueues
  <2>3. Chats(p, <<>>, <<>>)
    BY <1>3, <2>1, <2>2 DEF HandleChoke
  <2> QED
    BY <1>0, <2>3
<1>4. CASE HandleInterested(p)
  <2>1. eq[p] # <<>> /\ Tail(eq[p]) \o <<>> = Tail(eq[p])
    BY <1>4, TailType DEF HandleInterested
  <2>2. net[Other(p)] \o <<>> = net[Other(p)]
    BY ShortQueues
  <2>3. PICK ev \in {<<>>, <<TimerUnchoke>>} : eq' = [eq EXCEPT ![p] = Tail(@) \o ev]
    BY <1>4, <2>1 DEF HandleInterested
  <2>4. Chats(p, ev, <<>>)
    BY <1>4, <2>1, <2>2, <2>3 DEF HandleInterested
  <2> QED
    BY <1>0, <2>3, <2>4
<1>5. CASE HandleNotInterested(p)
  <2>1. eq[p] # <<>> /\ Tail(eq[p]) \o <<>> = Tail(eq[p])
    BY <1>5, TailType DEF HandleNotInterested
  <2>2. PICK ev \in Seq(Timers) : eq' = [eq EXCEPT ![p] = Tail(@) \o ev]
    <3>1. CASE peerChoke[p] = "Unchoked"
      <4>1. If(HasSeat(p), TimerChoke) \in Seq(Timers)
        BY <1>0 DEF HasSeat
      <4> QED
        BY <1>5, <3>1, <4>1 DEF HandleNotInterested
    <3>2. CASE peerChoke[p] # "Unchoked"
      BY <1>0, <1>5, <2>1, <3>2 DEF HandleNotInterested
    <3> QED
      BY <3>1, <3>2
  <2>3. Chats(p, ev, <<Choke>>)
    BY <1>5, <2>1, <2>2 DEF HandleNotInterested
  <2> QED
    BY <1>0, <2>2, <2>3
<1> QED
  BY <1>1, <1>2, <1>3, <1>4, <1>5 DEF Chatter

LEMMA SmallerSet ==
  ASSUME NEW S, NEW T, S \subseteq T, NEW s \in Seq(S)
  PROVE  s \in Seq(T)
<1>1. Len(s) \in Nat /\ s \in [1..Len(s) -> S]
  BY LenProperties
<1> QED
  BY <1>1

\* Events that come from this peer.
Locals == Timers \cup {BcastHave(i) : i \in Pieces}

LEMMA LocalsAreEvents ==
  /\ Timers \subseteq Locals /\ Locals \subseteq Events /\ \A e \in Locals : e.type \in LocalTypes
  /\ Interests \subseteq Messages /\ Chokes \subseteq Messages
  /\ TearDown \in Messages /\ TearDown \in Events
  /\ \A i \in Pieces : /\ BcastHave(i) \in Locals
                       /\ Have(i) \in Messages /\ Request(i) \in Messages /\ Piece(i) \in Messages
                       /\ Have(i) \in Events /\ Request(i) \in Events /\ Piece(i) \in Events
<1>1. Timers \subseteq Locals /\ Locals \subseteq Events /\ \A e \in Locals : e.type \in LocalTypes
  BY MessageFields DEF Locals, Timers, Events, LocalTypes
<1>2. Interests \subseteq Messages /\ Chokes \subseteq Messages
  BY DEF Interests, Chokes, Messages
<1>3. \A P : \A m : m.type # "Bitfield" => m # Bitfield(P)
  BY MessageFields
<1>4. TearDown \in Messages /\ TearDown \in Events
  BY <1>3, MessageFields DEF Events, Messages
<1>5. \A i \in Pieces :
         /\ BcastHave(i) \in Locals
         /\ Have(i) \in Messages /\ Request(i) \in Messages /\ Piece(i) \in Messages
         /\ Have(i) \in Events /\ Request(i) \in Events /\ Piece(i) \in Events
  BY <1>3, MessageFields DEF Locals, Events, Messages
<1> QED
  BY <1>1, <1>2, <1>4, <1>5

\* p leaves h of its queue, puts ev behind it, and sends msgs.
Acts(p, h, ev, msgs) ==
  /\ h \in Seq(Events) /\ ev \in Seq(Locals) /\ msgs \in Seq(Messages)
  /\ h = eq[p] \/ (eq[p] # <<>> /\ h = Tail(eq[p]))
  /\ Queues(p, h \o ev, msgs)
  /\ pc'[Other(p)] = pc[Other(p)]

Takes(p, h, e) == e \in Events /\ eq[p] # <<>> /\ Head(eq[p]) = e /\ h = Tail(eq[p])
From(p, a, b) == pc[p] = a /\ pc'[p] = b

\* Statements of interest, moves of the control thread, timer events.
Quiet(p, h, ev, msgs) ==
  /\ ev \in Seq(Timers) /\ msgs \in Seq(Interests)
  /\ msgs # <<>> => pc[p] \in {"greet", "greetDone", "have"}
  /\ UNCHANGED <<tables, chokes>>
  /\ \/ /\ h = eq[p]
        /\ \/ pc'[p] = pc[p] /\ msgs = <<>>
           \/ From(p, "greet", "loop") \/ From(p, "greetDone", "sleep") \/ From(p, "have", "loop")
           \/ From(p, "bcast", IF Done(p) THEN "sleep" ELSE "loop")
           \/ From(p, "sleep", "drain") /\ (SleepCoversBroadcasts => unbcast[p] = {})
           \/ From(p, "leave", "ended")
     \/ \E e \in Events :
          /\ Takes(p, h, e) /\ ev = <<>>
          /\ \/ From(p, "loop", "panic") /\ e = TearDown
             \/ From(p, "drain", "drain") /\ e.type \notin {"BcastHave", "TearDown"}
             \/ From(p, "tdWait", IF e = TearDown THEN "leave" ELSE "tdWait")

\* requestNextIfPossible on the table tab.
Asks(p, tab, msgs) ==
  /\ own'[Other(p)] = own[Other(p)] /\ asked'[Other(p)] = asked[Other(p)]
  /\ \/ msgs = <<>> /\ own'[p] = tab /\ asked'[p] = asked[p]
     \/ \E i \in Eligible(known[p], tab) :
          /\ msgs = <<Request(i)>>
          /\ own'[p] = [tab EXCEPT ![i] = "REQUESTED"]
          /\ asked'[p] = asked[p] \cup {i}

IsUnchoked(p, h, ev, msgs) ==
  /\ Takes(p, h, Unchoke) /\ ev = <<>> /\ From(p, "loop", "loop")
  /\ Asks(p, own[p], msgs)
  /\ unchoked'[p] = TRUE /\ unchoked'[Other(p)] = unchoked[Other(p)]
  /\ UNCHANGED <<unbcast, known, peerChoke>>

Learns(p, h, ev, msgs) ==
  /\ ev = <<>> /\ msgs = <<>>
  /\ \E i \in Pieces : Takes(p, h, Have(i)) /\ known'[p] = known[p] \cup {i}
  /\ known'[Other(p)] = known[Other(p)]
  /\ From(p, "loop", IF Done(p)' THEN "sleep" ELSE "have")
  /\ UNCHANGED <<own, asked, unbcast, chokes>>

Announces(p, h, ev, msgs) ==
  /\ ev = <<>>
  /\ \E i \in Pieces : /\ Takes(p, h, BcastHave(i))
                       /\ \E m \in Seq(Interests) : msgs = <<Have(i)>> \o m
  /\ From(p, "loop", "bcast") \/ From(p, "drain", "drain")
  /\ UNCHANGED <<tables, chokes>>

Serves(p, h, ev, msgs) ==
  /\ ev = <<>> /\ From(p, "loop", "loop")
  /\ \E i \in Pieces : Takes(p, h, Request(i)) /\ msgs = <<Piece(i)>>
  /\ UNCHANGED <<tables, chokes>>

Gets(p, h, ev, msgs) ==
  /\ From(p, "loop", "loop")
  /\ \E i \in Pieces : /\ Takes(p, h, Piece(i)) /\ own[p][i] = "REQUESTED"
                       /\ ev = <<BcastHave(i)>>
                       /\ Asks(p, [own[p] EXCEPT ![i] = "OWNED"], msgs)
  /\ UNCHANGED <<unbcast, known, chokes>>

Parts(p, h, ev, msgs) ==
  /\ ev = <<>> /\ msgs = <<TearDown>>
  /\ \/ From(p, "drain", "leave") /\ Takes(p, h, TearDown)
     \/ From(p, "drain", "tdWait") /\ eq[p] = <<>> /\ h = <<>>
  /\ UNCHANGED <<tables, chokes>>

\* The other sessions of p.
Elsewhere(p, h, ev, msgs) ==
  /\ h = eq[p] /\ msgs = <<>> /\ pc'[p] = pc[p]
  /\ UNCHANGED <<asked, known, chokes>> /\ own'[Other(p)] = own[Other(p)]
  /\ unbcast'[Other(p)] = unbcast[Other(p)]
  /\ \E i \in Pieces :
       \/ /\ own[p][i] = "ABSENT" /\ own'[p] = [own[p] EXCEPT ![i] = "REQUESTED"]
          /\ ev = <<>> /\ UNCHANGED unbcast
       \/ /\ own[p][i] = "REQUESTED" /\ i \notin asked[p]
          /\ own'[p] = [own[p] EXCEPT ![i] = "OWNED"]
          /\ ev = <<>> /\ unbcast'[p] = unbcast[p] \cup {i}
       \/ /\ i \in unbcast[p] /\ unbcast'[p] = unbcast[p] \ {i} /\ UNCHANGED own
          /\ IF pc[p] = "send" THEN ev = <<>> ELSE ev = <<BcastHave(i)>>

Kind(p, h, ev, msgs) ==
  \/ Quiet(p, h, ev, msgs)
  \/ Chats(p, ev, msgs) /\ h = Tail(eq[p]) /\ ev \in Seq(Timers) /\ msgs \in Seq(Chokes)
  \/ IsUnchoked(p, h, ev, msgs) \/ Learns(p, h, ev, msgs) \/ Announces(p, h, ev, msgs)
  \/ Serves(p, h, ev, msgs) \/ Gets(p, h, ev, msgs) \/ Parts(p, h, ev, msgs)
  \/ Elsewhere(p, h, ev, msgs)

Effect(p) ==
  \E h \in Seq(Events) : \E ev \in Seq(Locals) : \E msgs \in Seq(Messages) :
    Acts(p, h, ev, msgs) /\ Kind(p, h, ev, msgs)

LEMMA QueueFacts ==
  ASSUME TypeOK, NEW p \in Peers
  PROVE  /\ eq[p] \in Seq(Events) /\ net[p] \in Seq(Messages)
         /\ <<>> \in Seq(Events) /\ <<>> \in Seq(Locals) /\ <<>> \in Seq(Timers)
         /\ <<>> \in Seq(Messages) /\ <<>> \in Seq(Interests) /\ <<>> \in Seq(Chokes)
         /\ eq[p] \o <<>> = eq[p] /\ net[p] \o <<>> = net[p]
         /\ eq[p] # <<>> =>
              /\ Tail(eq[p]) \in Seq(Events) /\ Head(eq[p]) \in Events
              /\ Tail(eq[p]) \o <<>> = Tail(eq[p])
<1>1. eq[p] \in Seq(Events) /\ net[p] \in Seq(Messages)
  BY DEF TypeOK
<1> QED
  BY <1>1, TailType, ShortQueues

LEMMA QuietSteps ==
  ASSUME TypeOK, NEW p \in Peers,
         Greet(p) \/ ReplyToHave(p) \/ CheckDone(p) \/ HandleTearDown(p) \/ Wake(p) \/ DrainOther(p)
           \/ AwaitTearDown(p) \/ Leave(p) \/ Seats(p)
  PROVE  Effect(p)
<1> DEFINE q == Other(p)
<1>1. /\ p \in Peers /\ q \in Peers /\ q # p /\ eq \in [Peers -> Seq(Events)]
      /\ net \in [Peers -> Seq(Messages)] /\ pc \in [Peers -> Locations]
      /\ net[q] \o <<>> = net[q]
  BY OtherEnd, QueueFacts DEF TypeOK
<1>2. /\ \A s \in Seq(Timers) : s \in Seq(Locals)
      /\ \A s \in Seq(Interests) : s \in Seq(Messages)
  BY SmallerSet, LocalsAreEvents
<1>3. ASSUME NEW h, NEW ev, NEW msgs, Quiet(p, h, ev, msgs), Queues(p, h \o ev, msgs),
             pc'[q] = pc[q]
      PROVE  Effect(p)
  <2>1. h \in Seq(Events) /\ (h = eq[p] \/ (eq[p] # <<>> /\ h = Tail(eq[p])))
    BY <1>3, QueueFacts DEF Quiet, Takes
  <2>2. ev \in Seq(Locals) /\ msgs \in Seq(Messages)
    BY <1>2, <1>3 DEF Quiet
  <2>3. Acts(p, h, ev, msgs)
    BY <1>3, <2>1, <2>2 DEF Acts
  <2> QED
    BY <1>3, <2>1, <2>2, <2>3 DEF Effect, Kind
<1>4. UNCHANGED <<tables, chokes>>
  BY DEF Greet, ReplyToHave, CheckDone, HandleTearDown, Wake, DrainOther, AwaitTearDown, Leave, Seats,
     PnSelect, PnPass, OptSelect, OptPass, Inherit, tables, chokes, table, flags
<1>5. CASE Greet(p)
  <2> DEFINE msgs == <<IF Wanted(p) = {} THEN NotInterested ELSE Interested>>
  <2>1. msgs \in Seq(Interests)
    BY ShortQueues DEF Interests
  <2>2. Queues(p, eq[p] \o <<>>, msgs)
    BY <1>1, <1>5, QueueFacts DEF Greet, Queues, Send
  <2>3. /\ From(p, "greet", "loop") \/ From(p, "greetDone", "sleep")
        /\ pc'[q] = pc[q]
    BY <1>1, <1>5 DEF Greet, From, Goto, At
  <2> HIDE DEF msgs
  <2>4. Quiet(p, eq[p], <<>>, msgs)
    BY <1>4, <2>1, <2>3, QueueFacts DEF Quiet, From
  <2> QED
    BY <1>3, <2>2, <2>3, <2>4
<1>6. CASE ReplyToHave(p)
  <2> DEFINE msgs == If(Wanted(p) # {}, Interested)
  <2>1. msgs \in Seq(Interests)
    BY ShortQueues DEF Interests
  <2>2. Queues(p, eq[p] \o <<>>, msgs)
    BY <1>1, <1>6, QueueFacts DEF ReplyToHave, Queues, Send
  <2>3. From(p, "have", "loop") /\ pc'[q] = pc[q]
    BY <1>1, <1>6 DEF ReplyToHave, From, Goto, At
  <2> HIDE DEF msgs
  <2>4. Quiet(p, eq[p], <<>>, msgs)
    BY <1>4, <2>1, <2>3, QueueFacts DEF Quiet, From
  <2> QED
    BY <1>3, <2>2, <2>3, <2>4
<1>7. CASE CheckDone(p) \/ Wake(p)
  <2>1. Queues(p, eq[p] \o <<>>, <<>>)
    BY <1>1, <1>7, QueueFacts DEF CheckDone, Wake, Queues
  <2>2. /\ \/ From(p, "bcast", IF Done(p) THEN "sleep" ELSE "loop")
           \/ From(p, "sleep", "drain") /\ (SleepCoversBroadcasts => unbcast[p] = {})
        /\ pc'[q] = pc[q]
    BY <1>1, <1>7 DEF CheckDone, Wake, From, Goto, At
  <2>3. Quiet(p, eq[p], <<>>, <<>>)
    BY <1>4, <2>2, QueueFacts DEF Quiet
  <2> QED
    BY <1>3, <2>1, <2>2, <2>3
<1>8. CASE HandleTearDown(p) \/ DrainOther(p) \/ AwaitTearDown(p)
  <2>0. eq[p] # <<>>
    BY <1>8 DEF HandleTearDown, DrainOther, AwaitTearDown, Handle
  <2>1. Head(eq[p]) \in Events /\ (Head(eq[p]).type = "TearDown" <=> Head(eq[p]) = TearDown)
    BY <2>0, QueueFacts, EventKinds, MessageFields
  <2>2. Queues(p, Tail(eq[p]) \o <<>>, <<>>)
    BY <1>1, <1>8, <2>0, QueueFacts DEF HandleTearDown, DrainOther, AwaitTearDown, Queues, Deq
  <2>3. /\ \/ From(p, "loop", "panic") /\ Head(eq[p]) = TearDown
           \/ From(p, "drain", "drain") /\ Head(eq[p]).type \notin {"BcastHave", "TearDown"}
           \/ From(p, "tdWait", IF Head(eq[p]) = TearDown THEN "leave" ELSE "tdWait")
        /\ pc'[q] = pc[q]
    BY <1>1, <1>8, <2>1 DEF HandleTearDown, DrainOther, AwaitTearDown, From, Goto, At, Handle
  <2>4. Takes(p, Tail(eq[p]), Head(eq[p]))
    BY <2>0, <2>1 DEF Takes
  <2>5. Quiet(p, Tail(eq[p]), <<>>, <<>>)
    BY <1>4, <2>1, <2>3, <2>4, QueueFacts DEF Quiet
  <2> QED
    BY <1>3, <2>2, <2>3, <2>5
<1>9. CASE Leave(p)
  <2> DEFINE ev == If(HasSeat(p), TimerChoke)
  <2>1. ev \in Seq(Timers)
    BY ShortQueues DEF Timers, TypeOK, HasSeat
  <2>2. Queues(p, eq[p] \o ev, <<>>)
    BY <1>1, <1>9 DEF Leave, Queues, Enq
  <2>3. From(p, "leave", "ended") /\ pc'[q] = pc[q]
    BY <1>1, <1>9 DEF Leave, From, Goto, At
  <2> HIDE DEF ev
  <2>4. Quiet(p, eq[p], ev, <<>>)
    BY <1>4, <2>1, <2>3, QueueFacts DEF Quiet
  <2> QED
    BY <1>3, <2>2, <2>3, <2>4
<1>10. CASE Seats(p)
  <2>1. PICK ev \in Seq(Timers) : eq' = [eq EXCEPT ![p] = @ \o ev]
    <3>1. /\ <<TimerUnchoke>> \in Seq(Timers) /\ <<TimerChoke>> \in Seq(Timers) /\ <<>> \in Seq(Timers)
          /\ \A c \in BOOLEAN : If(c, TimerChoke) \in Seq(Timers)
      BY ShortQueues DEF Timers
    <3>2. If(inPn[p], TimerChoke) \in Seq(Timers) /\ If(isOpt[p], TimerChoke) \in Seq(Timers)
      BY <3>1 DEF TypeOK
    <3>3. <<TimerUnchoke>> \o If(isOpt[p], TimerChoke) \in Seq(Timers)
      BY <3>1, <3>2, ConcatProperties
    <3> QED
      BY <1>10, <3>1, <3>2, <3>3 DEF Seats, PnSelect, PnPass, OptSelect, OptPass, Inherit, Tell, Enq
  <2>2. net' = net /\ pc' = pc
    BY <1>10 DEF Seats, PnSelect, PnPass, OptSelect, OptPass, Inherit
  <2>3. Queues(p, eq[p] \o ev, <<>>) /\ pc'[q] = pc[q]
    BY <1>1, <2>1, <2>2 DEF Queues
  <2>4. Quiet(p, eq[p], ev, <<>>)
    BY <1>4, <2>2, QueueFacts DEF Quiet
  <2> QED
    BY <1>3, <2>3, <2>4
<1> QED
  BY <1>5, <1>6, <1>7, <1>8, <1>9, <1>10

LEMMA ChatterSteps ==
  ASSUME TypeOK, NEW p \in Peers, Chatter(p)
  PROVE  Effect(p)
<1>1. PICK ev \in Seq(Timers) : \E msgs \in Seq(Chokes) : Chats(p, ev, msgs)
  BY ChatterDoes
<1>2. PICK msgs \in Seq(Chokes) : Chats(p, ev, msgs)
  BY <1>1
<1>3. ev \in Seq(Locals) /\ msgs \in Seq(Messages)
  BY SmallerSet, LocalsAreEvents
<1>4. eq[p] # <<>> /\ Tail(eq[p]) \in Seq(Events)
  BY <1>2, QueueFacts DEF Chats
<1>5. Acts(p, Tail(eq[p]), ev, msgs)
  BY <1>2, <1>3, <1>4 DEF Acts, Chats
<1> QED
  BY <1>2, <1>3, <1>4, <1>5 DEF Effect, Kind

\* Both ways to go on from requestNextIfPossible.
LEMMA RequestNextAsks ==
  ASSUME TypeOK, NEW p \in Peers, NEW tab \in [Pieces -> Status], RequestNext(p, tab)
  PROVE  \E msgs \in Seq(Messages) :
           /\ Asks(p, tab, msgs)
           /\ net' = [net EXCEPT ![Other(p)] = @ \o msgs]
<1>1. /\ Other(p) \in Peers /\ Other(p) # p /\ own \in [Peers -> [Pieces -> Status]]
      /\ asked \in [Peers -> SUBSET Pieces] /\ net \in [Peers -> Seq(Messages)]
      /\ Eligible(known[p], tab) \subseteq Pieces
  BY OtherEnd DEF TypeOK, Eligible
<1>2. CASE own' = [own EXCEPT ![p] = tab] /\ UNCHANGED <<asked, net>>
  <2>1. net' = [net EXCEPT ![Other(p)] = @ \o <<>>]
    BY <1>1, <1>2, OtherEnd, QueueFacts
  <2> QED
    BY <1>1, <1>2, <2>1, QueueFacts DEF Asks
<1>3. CASE \E i \in Eligible(known[p], tab) :
             /\ own' = [own EXCEPT ![p] = [tab EXCEPT ![i] = "REQUESTED"]]
             /\ asked' = [asked EXCEPT ![p] = @ \cup {i}]
             /\ Send(p, <<Request(i)>>)
  <2>1. PICK i \in Eligible(known[p], tab) :
             /\ own' = [own EXCEPT ![p] = [tab EXCEPT ![i] = "REQUESTED"]]
             /\ asked' = [asked EXCEPT ![p] = @ \cup {i}]
             /\ Send(p, <<Request(i)>>)
    BY <1>3
  <2>2. <<Request(i)>> \in Seq(Messages)
    BY <1>1, LocalsAreEvents, ShortQueues
  <2> QED
    BY <1>1, <2>1, <2>2 DEF Asks, Send
<1> QED
  BY <1>2, <1>3 DEF RequestNext

LEMMA UnchokeStep ==
  ASSUME TypeOK, NEW p \in Peers, HandleUnchoke(p)
  PROVE  Effect(p)
<1>1. eq[p] # <<>> /\ Head(eq[p]) = Unchoke
  BY QueueFacts, EventKinds DEF HandleUnchoke, Handle
<1>2. own[p] \in [Pieces -> Status]
  BY DEF TypeOK
<1>3. PICK msgs \in Seq(Messages) :
           Asks(p, own[p], msgs) /\ net' = [net EXCEPT ![Other(p)] = @ \o msgs]
  BY <1>2, RequestNextAsks DEF HandleUnchoke
<1>4. /\ Queues(p, Tail(eq[p]) \o <<>>, msgs) /\ From(p, "loop", "loop")
      /\ pc'[Other(p)] = pc[Other(p)]
      /\ unchoked'[p] = TRUE /\ unchoked'[Other(p)] = unchoked[Other(p)]
      /\ UNCHANGED <<unbcast, known, peerChoke>>
  BY <1>1, <1>3, QueueFacts, OtherEnd
  DEF TypeOK, HandleUnchoke, Handle, At, Deq, Queues, From
<1>5. Acts(p, Tail(eq[p]), <<>>, msgs)
  BY <1>1, <1>4, QueueFacts DEF Acts
<1>6. IsUnchoked(p, Tail(eq[p]), <<>>, msgs)
  BY <1>1, <1>3, <1>4, QueueFacts DEF IsUnchoked, Takes
<1> QED
  BY <1>1, <1>5, <1>6, QueueFacts DEF Effect, Kind

LEMMA HaveStep ==
  ASSUME TypeOK, NEW p \in Peers, HandleHave(p)
  PROVE  Effect(p)
<1>1. eq[p] # <<>> /\ Head(eq[p]).piece \in Pieces /\ Head(eq[p]) = Have(Head(eq[p]).piece)
  BY QueueFacts, EventKinds DEF HandleHave, Handle
<1>2. /\ Queues(p, Tail(eq[p]) \o <<>>, <<>>) /\ pc'[Other(p)] = pc[Other(p)]
      /\ known'[p] = known[p] \cup {Head(eq[p]).piece} /\ known'[Other(p)] = known[Other(p)]
      /\ UNCHANGED <<own, asked, unbcast, chokes>>
  BY <1>1, QueueFacts, OtherEnd DEF TypeOK, HandleHave, Goto, Deq, Queues, table, flags, chokes
<1>3. From(p, "loop", IF OwnsAll(p) /\ known'[p] = Pieces THEN "sleep" ELSE "have")
  BY DEF TypeOK, HandleHave, Handle, Goto, At, From
<1>4. Done(p)' <=> OwnsAll(p) /\ known'[p] = Pieces
  BY <1>2 DEF Done, OwnsAll, KnowsAll
<1>5. Acts(p, Tail(eq[p]), <<>>, <<>>)
  BY <1>1, <1>2, QueueFacts DEF Acts
<1>6. Takes(p, Tail(eq[p]), Have(Head(eq[p]).piece))
  BY <1>1, QueueFacts DEF Takes
<1>7. Learns(p, Tail(eq[p]), <<>>, <<>>)
  BY <1>1, <1>2, <1>3, <1>4, <1>6 DEF Learns
<1> QED
  BY <1>1, <1>5, <1>7, QueueFacts DEF Effect, Kind

LEMMA BcastSteps ==
  ASSUME TypeOK, NEW p \in Peers, HandleBcast(p) \/ DrainBcast(p)
  PROVE  Effect(p)
<1> DEFINE i == Head(eq[p]).piece
           m == If(Wanted(p) = {}, NotInterested)
<1>1. eq[p] # <<>> /\ i \in Pieces /\ Head(eq[p]) = BcastHave(i)
  BY QueueFacts, EventKinds DEF HandleBcast, DrainBcast, Handle, Draining
<1>2. m \in Seq(Interests) /\ <<Have(i)>> \o m \in Seq(Messages)
  <2>1. m \in Seq(Interests)
    BY ShortQueues DEF Interests
  <2>2. m \in Seq(Messages) /\ <<Have(i)>> \in Seq(Messages)
    BY <1>1, <2>1, ShortQueues, SmallerSet, LocalsAreEvents
  <2> QED
    BY <2>1, <2>2, ConcatProperties
<1>3. /\ Queues(p, Tail(eq[p]) \o <<>>, <<Have(i)>> \o m) /\ pc'[Other(p)] = pc[Other(p)]
      /\ UNCHANGED <<tables, chokes>>
  <2> DEFINE msgs == <<Have(i)>> \o m
  <2>1. net' = [net EXCEPT ![Other(p)] = @ \o msgs]
    BY DEF HandleBcast, DrainBcast, HaveMsgs, Send
  <2>2. eq' = [eq EXCEPT ![p] = Tail(@)] /\ UNCHANGED <<tables, chokes>>
    BY DEF HandleBcast, DrainBcast, Deq, table, flags, tables, chokes
  <2>3. pc'[Other(p)] = pc[Other(p)]
    BY OtherEnd DEF TypeOK, HandleBcast, DrainBcast, Goto
  <2> HIDE DEF msgs
  <2>4. Queues(p, Tail(eq[p]) \o <<>>, msgs)
    BY <1>1, <2>1, <2>2, QueueFacts, OtherEnd DEF TypeOK, Queues
  <2> QED
    BY <2>2, <2>3, <2>4 DEF msgs
<1>4. From(p, "loop", "bcast") \/ From(p, "drain", "drain")
  BY DEF TypeOK, HandleBcast, DrainBcast, Draining, Handle, Goto, At, From
<1>5. Acts(p, Tail(eq[p]), <<>>, <<Have(i)>> \o m)
  BY <1>1, <1>2, <1>3, QueueFacts DEF Acts
<1>6. Takes(p, Tail(eq[p]), BcastHave(i))
  BY <1>1, QueueFacts DEF Takes
<1> HIDE DEF i, m
<1>7. Announces(p, Tail(eq[p]), <<>>, <<Have(i)>> \o m)
  BY <1>1, <1>2, <1>3, <1>4, <1>6 DEF Announces
<1> QED
  BY <1>1, <1>2, <1>5, <1>7, QueueFacts DEF Effect, Kind

\* What is asked of p is there to be given, what p is given was asked for.
Answerable(p) ==
  \A i \in Pieces : /\ First(p, Request(i)) => own[p][i] = "OWNED"
                    /\ First(p, Piece(i)) => own[p][i] = "REQUESTED"

LEMMA RequestStep ==
  ASSUME TypeOK, NEW p \in Peers, HandleRequest(p), Answerable(p)
  PROVE  Effect(p)
<1> DEFINE i == Head(eq[p]).piece
<1>1. eq[p] # <<>> /\ i \in Pieces /\ Head(eq[p]) = Request(i)
  BY QueueFacts, EventKinds DEF HandleRequest, Handle
<1>2. own[p][i] = "OWNED"
  BY <1>1 DEF Answerable, First
<1>3. /\ Queues(p, Tail(eq[p]) \o <<>>, <<Piece(i)>>) /\ pc'[Other(p)] = pc[Other(p)]
      /\ From(p, "loop", "loop") /\ UNCHANGED <<tables, chokes>>
  BY <1>1, <1>2, QueueFacts, OtherEnd
  DEF TypeOK, HandleRequest, Handle, At, From, Send, Deq, Queues, table, flags, tables, chokes
<1>4. <<Piece(i)>> \in Seq(Messages)
  BY <1>1, ShortQueues, LocalsAreEvents
<1>5. Acts(p, Tail(eq[p]), <<>>, <<Piece(i)>>)
  BY <1>1, <1>3, <1>4, QueueFacts DEF Acts
<1>6. Takes(p, Tail(eq[p]), Request(i))
  BY <1>1, QueueFacts DEF Takes
<1>7. Serves(p, Tail(eq[p]), <<>>, <<Piece(i)>>)
  BY <1>1, <1>3, <1>6 DEF Serves
<1> QED
  BY <1>1, <1>4, <1>5, <1>7, QueueFacts DEF Effect, Kind

LEMMA PieceStep ==
  ASSUME TypeOK, NEW p \in Peers, HandlePiece(p), Answerable(p)
  PROVE  Effect(p)
<1> DEFINE i == Head(eq[p]).piece
           tab == [own[p] EXCEPT ![i] = "OWNED"]
<1>1. eq[p] # <<>> /\ i \in Pieces /\ Head(eq[p]) = Piece(i)
  BY QueueFacts, EventKinds DEF HandlePiece, Handle
<1>2. own[p][i] = "REQUESTED" /\ tab \in [Pieces -> Status]
  BY <1>1 DEF Answerable, First, TypeOK, Status
<1>3. PICK msgs \in Seq(Messages) :
           Asks(p, tab, msgs) /\ net' = [net EXCEPT ![Other(p)] = @ \o msgs]
  <2>1. CASE unchoked[p]
    BY <1>2, <2>1, RequestNextAsks DEF HandlePiece
  <2>2. CASE ~unchoked[p]
    <3>1. own' = [own EXCEPT ![p] = tab] /\ UNCHANGED <<asked, net>>
      BY <1>2, <2>2 DEF HandlePiece
    <3>2. net' = [net EXCEPT ![Other(p)] = @ \o <<>>]
      BY <3>1, OtherEnd, QueueFacts DEF TypeOK
    <3>3. Asks(p, tab, <<>>)
      BY <3>1, OtherEnd DEF Asks, TypeOK
    <3> QED
      BY <3>2, <3>3, QueueFacts
  <2> QED
    BY <2>1, <2>2
<1>4. /\ Queues(p, Tail(eq[p]) \o <<BcastHave(i)>>, msgs) /\ pc'[Other(p)] = pc[Other(p)]
      /\ From(p, "loop", "loop") /\ UNCHANGED <<unbcast, known, chokes>>
  BY <1>1, <1>2, <1>3, OtherEnd
  DEF TypeOK, HandlePiece, Handle, At, From, DeqEnq, Queues, table, flags, tables, chokes
<1>5. <<BcastHave(i)>> \in Seq(Locals)
  BY <1>1, ShortQueues, LocalsAreEvents
<1>6. Acts(p, Tail(eq[p]), <<BcastHave(i)>>, msgs)
  BY <1>1, <1>4, <1>5, QueueFacts DEF Acts
<1>7. Takes(p, Tail(eq[p]), Piece(i))
  BY <1>1, QueueFacts DEF Takes
<1> HIDE DEF i
<1>8. Gets(p, Tail(eq[p]), <<BcastHave(i)>>, msgs)
  BY <1>1, <1>2, <1>3, <1>4, <1>7 DEF Gets
<1> QED
  BY <1>1, <1>5, <1>6, <1>8, QueueFacts DEF Effect, Kind

LEMMA TearDownSteps ==
  ASSUME TypeOK, NEW p \in Peers, DrainTearDown(p) \/ SendTearDown(p)
  PROVE  Effect(p)
<1>1. <<TearDown>> \in Seq(Messages) /\ UNCHANGED <<tables, chokes>>
  BY ShortQueues, LocalsAreEvents DEF DrainTearDown, SendTearDown, tables, chokes, table, flags
<1>2. CASE DrainTearDown(p)
  <2>1. eq[p] # <<>> /\ Head(eq[p]) = TearDown
    BY <1>2, QueueFacts, EventKinds DEF DrainTearDown, Draining
  <2>2. /\ Queues(p, Tail(eq[p]) \o <<>>, <<TearDown>>) /\ pc'[Other(p)] = pc[Other(p)]
        /\ From(p, "drain", "leave")
    BY <1>2, <2>1, QueueFacts, OtherEnd
    DEF TypeOK, DrainTearDown, Draining, At, Goto, From, Send, Deq, Queues
  <2>3. Acts(p, Tail(eq[p]), <<>>, <<TearDown>>)
    BY <1>1, <2>1, <2>2, QueueFacts DEF Acts
  <2>4. Parts(p, Tail(eq[p]), <<>>, <<TearDown>>)
    BY <1>1, <2>1, <2>2, QueueFacts DEF Parts, Takes
  <2> QED
    BY <1>1, <2>1, <2>3, <2>4, QueueFacts DEF Effect, Kind
<1>3. CASE SendTearDown(p)
  <2>1. /\ Queues(p, eq[p] \o <<>>, <<TearDown>>) /\ pc'[Other(p)] = pc[Other(p)]
        /\ From(p, "drain", "tdWait") /\ eq[p] = <<>>
    BY <1>3, QueueFacts, OtherEnd DEF TypeOK, SendTearDown, At, Goto, From, Send, Queues
  <2>2. Acts(p, eq[p], <<>>, <<TearDown>>)
    BY <1>1, <2>1, QueueFacts DEF Acts
  <2>3. Parts(p, eq[p], <<>>, <<TearDown>>)
    BY <1>1, <2>1 DEF Parts
  <2> QED
    BY <1>1, <2>2, <2>3, QueueFacts DEF Effect, Kind
<1> QED
  BY <1>2, <1>3

LEMMA ElsewhereSteps ==
  ASSUME TypeOK, NEW p \in Peers, Others(p)
  PROVE  Effect(p)
<1>1. PICK i \in Pieces : ElseClaim(p, i) \/ ElseOwn(p, i) \/ ElseBcast(p, i)
  BY DEF Others
<1>2. net' = net /\ pc' = pc /\ UNCHANGED <<asked, known, chokes>>
  BY <1>1 DEF ElseClaim, ElseOwn, ElseBcast, flags, chokes
<1>3. net[Other(p)] \o <<>> = net[Other(p)]
  BY OtherEnd, QueueFacts
<1>4. CASE ElseClaim(p, i) \/ ElseOwn(p, i)
  <2>1. /\ Queues(p, eq[p] \o <<>>, <<>>)
        /\ own'[Other(p)] = own[Other(p)] /\ unbcast'[Other(p)] = unbcast[Other(p)]
    BY <1>2, <1>3, <1>4, QueueFacts, OtherEnd DEF TypeOK, ElseClaim, ElseOwn, Queues
  <2>2. \/ /\ own[p][i] = "ABSENT" /\ own'[p] = [own[p] EXCEPT ![i] = "REQUESTED"]
           /\ UNCHANGED unbcast
        \/ /\ own[p][i] = "REQUESTED" /\ i \notin asked[p]
           /\ own'[p] = [own[p] EXCEPT ![i] = "OWNED"]
           /\ unbcast'[p] = unbcast[p] \cup {i}
    BY <1>4 DEF TypeOK, ElseClaim, ElseOwn
  <2>3. Acts(p, eq[p], <<>>, <<>>)
    BY <1>2, <2>1, QueueFacts DEF Acts
  <2>4. Elsewhere(p, eq[p], <<>>, <<>>)
    BY <1>2, <2>1, <2>2 DEF Elsewhere
  <2> QED
    BY <2>3, <2>4, QueueFacts DEF Effect, Kind
<1>5. CASE ElseBcast(p, i)
  <2> DEFINE ev == IF BcastReady(p) THEN <<BcastHave(i)>> ELSE <<>>
  <2>1. ev \in Seq(Locals) /\ (IF pc[p] = "send" THEN ev = <<>> ELSE ev = <<BcastHave(i)>>)
    BY ShortQueues, LocalsAreEvents DEF BcastReady
  <2>2. /\ Queues(p, eq[p] \o ev, <<>>) /\ own' = own
        /\ i \in unbcast[p] /\ unbcast'[p] = unbcast[p] \ {i}
        /\ unbcast'[Other(p)] = unbcast[Other(p)]
    BY <1>2, <1>3, <1>5, OtherEnd DEF TypeOK, ElseBcast, Enq, Queues
  <2> HIDE DEF ev
  <2>3. Acts(p, eq[p], ev, <<>>)
    BY <1>2, <2>1, <2>2, QueueFacts DEF Acts
  <2>4. Elsewhere(p, eq[p], ev, <<>>)
    BY <1>2, <2>1, <2>2 DEF Elsewhere
  <2> QED
    BY <2>1, <2>3, <2>4, QueueFacts DEF Effect, Kind
<1> QED
  BY <1>1, <1>4, <1>5

\* Every step is one of these, the scanner's, or one of setup's with the bitfield.
StepOf(p) == Control(p) \/ Scan(p) \/ Seats(p) \/ Others(p)

LEMMA StepKinds ==
  ASSUME TypeOK, NEW p \in Peers, StepOf(p), Answerable(p)
  PROVE  SendBitfield(p) \/ ReceiveBitfield(p) \/ Scan(p) \/ Effect(p)
  BY QuietSteps, ChatterSteps, UnchokeStep, HaveStep, BcastSteps, RequestStep, PieceStep,
     TearDownSteps, ElsewhereSteps
  DEF StepOf, Control, Setup, EventLoop, Ending, Chatter

-----------------------------------------------------------------------------
(***************************************************************************)
(* Types.                                                                  *)
(***************************************************************************)

\* What an effect does to the contents of the queues.
LEMMA ActsHold ==
  ASSUME TypeOK, NEW p \in Peers, NEW h, NEW ev, NEW msgs, Acts(p, h, ev, msgs)
  PROVE  /\ eq'[p] \in Seq(Events) /\ eq'[Other(p)] = eq[Other(p)]
         /\ net'[Other(p)] \in Seq(Messages) /\ net'[p] = net[p]
         /\ pc'[Other(p)] = pc[Other(p)]
         /\ \A m : Has(m, eq'[p]) <=> Has(m, h) \/ Has(m, ev)
         /\ \A m : Has(m, net'[Other(p)]) <=> Has(m, net[Other(p)]) \/ Has(m, msgs)
         /\ \A m : Has(m, h) => Has(m, eq[p])
         /\ \A m : Has(m, ev) => m \in Locals
         /\ \A e : Takes(p, h, e) => \A m : Has(m, eq[p]) <=> m = e \/ Has(m, h)
<1> DEFINE q == Other(p)
<1>1. /\ h \in Seq(Events) /\ ev \in Seq(Events) /\ ev \in Seq(Locals) /\ msgs \in Seq(Messages)
      /\ eq[p] \in Seq(Events) /\ net[q] \in Seq(Messages)
  BY SmallerSet, LocalsAreEvents, QueueFacts, OtherEnd DEF Acts
<1>2. /\ eq'[p] = h \o ev /\ eq'[q] = eq[q] /\ net'[q] = net[q] \o msgs /\ net'[p] = net[p]
      /\ pc'[q] = pc[q]
  BY DEF Acts, Queues
<1>3. eq[p] # <<>> => \A m : Has(m, eq[p]) <=> m = Head(eq[p]) \/ Has(m, Tail(eq[p]))
  BY <1>1, HasTail
<1>4. h = eq[p] \/ (eq[p] # <<>> /\ h = Tail(eq[p]))
  BY DEF Acts
<1>5. \A m : Has(m, ev) => m \in Locals
  BY <1>1, HasMember
<1>6. h \o ev \in Seq(Events) /\ net[q] \o msgs \in Seq(Messages)
  BY <1>1, ConcatProperties
<1>7. \A m : Has(m, eq'[p]) <=> Has(m, h) \/ Has(m, ev)
  BY <1>1, <1>2, HasConcat
<1>8. \A m : Has(m, net'[q]) <=> Has(m, net[q]) \/ Has(m, msgs)
  BY <1>1, <1>2, HasConcat
<1>9. \A m : Has(m, h) => Has(m, eq[p])
  BY <1>3, <1>4
<1>10. \A e : Takes(p, h, e) => \A m : Has(m, eq[p]) <=> m = e \/ Has(m, h)
  BY <1>3 DEF Takes
<1> QED
  BY <1>2, <1>5, <1>6, <1>7, <1>8, <1>9, <1>10

LEMMA ScanHolds ==
  ASSUME TypeOK, NEW p \in Peers, Scan(p), BitfieldFirst(p)
  PROVE  /\ net[p] # <<>> /\ Head(net[p]) \in Events /\ Head(net[p]).type \notin LocalTypes
         /\ eq'[p] \in Seq(Events) /\ net'[p] \in Seq(Messages)
         /\ \A m : Has(m, net[p]) <=> m = Head(net[p]) \/ Has(m, net'[p])
         /\ \A m : Has(m, eq'[p]) <=> Has(m, eq[p]) \/ m = Head(net[p])
<1>1. net[p] # <<>> /\ net'[p] = Tail(net[p]) /\ eq'[p] = eq[p] \o <<Head(net[p])>>
  BY ScanDoes
<1>2. net[p] \in Seq(Messages) /\ eq[p] \in Seq(Events)
  BY QueueFacts
<1>3. /\ Head(net[p]) \in Messages /\ net'[p] \in Seq(Messages)
      /\ \A m : Has(m, net[p]) <=> m = Head(net[p]) \/ Has(m, net'[p])
  BY <1>1, <1>2, HasTail
<1>4. Head(net[p]).type # "Bitfield"
  <2>1. NoBitfield(net[p])
    BY ScanDoes DEF BitfieldFirst, Setting
  <2>2. Has(Head(net[p]), net[p])
    BY <1>3
  <2> QED
    BY <1>3, <2>1, <2>2, MessageKinds DEF NoBitfield
<1>5. Head(net[p]) \in Events /\ Head(net[p]).type \notin LocalTypes
  BY <1>3, <1>4, MessageKinds
<1>6. <<Head(net[p])>> \in Seq(Events)
  BY <1>5, ShortQueues
<1>7. eq'[p] \in Seq(Events)
  BY <1>1, <1>2, <1>6, ConcatProperties
<1> DEFINE t == <<Head(net[p])>>
<1>8. eq'[p] = eq[p] \o t /\ t \in Seq(Events) /\ \A m : Has(m, t) <=> m = Head(net[p])
  BY <1>1, <1>6, HasOne
<1> HIDE DEF t
<1>9. \A m : Has(m, eq'[p]) <=> Has(m, eq[p]) \/ Has(m, t)
  BY <1>2, <1>8, HasConcat
<1> QED
  BY <1>1, <1>3, <1>5, <1>7, <1>8, <1>9

LEMMA QueueTypes ==
  ASSUME TypeOK, NEW p \in Peers, StepOf(p), Answerable(p), BitfieldFirst(p)
  PROVE  eq' \in [Peers -> Seq(Events)] /\ net' \in [Peers -> Seq(Messages)]
<1> DEFINE q == Other(p)
<1>1. /\ eq \in [Peers -> Seq(Events)] /\ net \in [Peers -> Seq(Messages)]
      /\ p \in Peers /\ q \in Peers /\ q # p /\ Peers = {p, q}
  BY OtherEnd DEF TypeOK
<1>2. /\ eq' = [eq EXCEPT ![p] = eq'[p]]
      /\ net' = [net EXCEPT ![p] = net'[p]] \/ net' = [net EXCEPT ![q] = net'[q]]
  <2>1. CASE Setup(p) \/ Scan(p)
    BY <1>1, <2>1 DEF Setup, SendBitfield, ReceiveBitfield, Greet, Scan, Send, Enq
  <2>2. CASE EventLoop(p)
    BY <1>1, <2>2 DEF EventLoop, HandleTimerChoke, HandleTimerUnchoke, HandleChoke, HandleUnchoke,
       HandleInterested, HandleNotInterested, HandleHave, ReplyToHave, HandleBcast, CheckDone,
       HandleRequest, HandlePiece, HandleTearDown, RequestNext, Send, Deq, DeqEnq
  <2>3. CASE Ending(p)
    BY <1>1, <2>3 DEF Ending, Wake, DrainBcast, DrainTearDown, DrainOther, SendTearDown,
       AwaitTearDown, Leave, Send, Deq, Enq
  <2>4. CASE Seats(p) \/ Others(p)
    BY <1>1, <2>4 DEF Seats, Others, PnSelect, PnPass, OptSelect, OptPass, Inherit, ElseClaim,
       ElseOwn, ElseBcast, Tell, Enq
  <2> QED
    BY <2>1, <2>2, <2>3, <2>4 DEF StepOf, Control
<1>3. eq'[p] \in Seq(Events) /\ net'[p] \in Seq(Messages) /\ net'[q] \in Seq(Messages)
  <2>1. CASE SendBitfield(p)
    <3>1. <<Bitfield(Owned(p))>> \in Seq(Messages)
      <4>1. Owned(p) \in SUBSET Pieces
        BY DEF Owned, OwnedIn, TypeOK
      <4> QED
        BY <4>1, ShortQueues DEF Messages
    <3>2. /\ eq'[p] = eq[p] /\ net'[p] = net[p]
          /\ net'[q] = net[q] \o <<Bitfield(Owned(p))>>
      BY <2>1, SendBitfieldDoes DEF Queues
    <3>3. net[q] \o <<Bitfield(Owned(p))>> \in Seq(Messages)
      BY <1>1, <3>1, ConcatProperties
    <3> QED
      BY <1>1, <3>2, <3>3
  <2>2. CASE ReceiveBitfield(p)
    BY <1>1, <2>2, ReceiveBitfieldDoes, HasTail
  <2>3. CASE Scan(p)
    BY <1>1, <2>3, ScanHolds, ScanDoes
  <2>4. CASE Effect(p)
    BY <1>1, <2>4, ActsHold DEF Effect
  <2> QED
    BY <2>1, <2>2, <2>3, <2>4, StepKinds
<1> QED
  BY <1>1, <1>2, <1>3

LEMMA TypesStep ==
  ASSUME TypeOK, NEW p \in Peers, StepOf(p), Answerable(p), BitfieldFirst(p)
  PROVE  TypeOK'
<1> USE DEF TypeOK, table, flags, seats
<1>1. eq' \in [Peers -> Seq(Events)] /\ net' \in [Peers -> Seq(Messages)]
  BY QueueTypes
<1>2. /\ around' \in Surroundings
      /\ own' \in [Peers -> [Pieces -> Status]]
      /\ asked' \in [Peers -> SUBSET Pieces]
      /\ unbcast' \in [Peers -> SUBSET Pieces]
      /\ known' \in [Peers -> SUBSET Pieces]
  <2>1. CASE SendBitfield(p) \/ Greet(p) \/ Scan(p) \/ Ending(p) \/ Seats(p)
    BY <2>1 DEF SendBitfield, Greet, Scan, Ending, Wake, DrainBcast, DrainTearDown, DrainOther,
       SendTearDown, AwaitTearDown, Leave, Seats, PnSelect, PnPass, OptSelect, OptPass, Inherit
  <2>2. CASE ReceiveBitfield(p)
    <3>1. Head(net[p]).owned \in SUBSET Pieces
      <4>1. /\ pc[p] = "recv" /\ net[p] # <<>>
        BY <2>2 DEF ReceiveBitfield, At
      <4>2. PICK P \in SUBSET Pieces : Head(net[p]) = Bitfield(P)
        BY <4>1 DEF BitfieldFirst, Setting
      <4> QED
        BY <4>2, MessageFields
    <3> QED
      BY <2>2, <3>1 DEF ReceiveBitfield
  <2>3. CASE \/ HandleTimerChoke(p) \/ HandleTimerUnchoke(p) \/ HandleChoke(p)
             \/ HandleInterested(p) \/ HandleNotInterested(p) \/ ReplyToHave(p) \/ HandleBcast(p)
             \/ CheckDone(p) \/ HandleRequest(p) \/ HandleTearDown(p)
    BY <2>3 DEF HandleTimerChoke, HandleTimerUnchoke, HandleChoke, HandleInterested,
       HandleNotInterested, ReplyToHave, HandleBcast, CheckDone, HandleRequest, HandleTearDown
  <2>4. ASSUME NEW tab \in [Pieces -> Status], RequestNext(p, tab)
        PROVE  own' \in [Peers -> [Pieces -> Status]] /\ asked' \in [Peers -> SUBSET Pieces]
    <3>1. CASE own' = [own EXCEPT ![p] = tab] /\ UNCHANGED <<asked, net>>
      BY <2>4, <3>1
    <3>2. ASSUME NEW i \in Pieces, own' = [own EXCEPT ![p] = [tab EXCEPT ![i] = "REQUESTED"]],
                 asked' = [asked EXCEPT ![p] = @ \cup {i}]
          PROVE  own' \in [Peers -> [Pieces -> Status]] /\ asked' \in [Peers -> SUBSET Pieces]
      <4>1. [tab EXCEPT ![i] = "REQUESTED"] \in [Pieces -> Status]
        BY <2>4 DEF Status
      <4> QED
        BY <3>2, <4>1
    <3>3. Eligible(known[p], tab) \subseteq Pieces
      BY DEF Eligible
    <3> QED
      BY <2>4, <3>1, <3>2, <3>3 DEF RequestNext
  <2>5. CASE HandleUnchoke(p)
    BY <2>4, <2>5 DEF HandleUnchoke
  <2>6. CASE HandleHave(p)
    <3>1. Head(eq[p]).piece \in Pieces
      BY <2>6, QueueFacts, EventKinds DEF HandleHave, Handle
    <3> QED
      BY <2>6, <3>1 DEF HandleHave
  <2>7. CASE HandlePiece(p)
    <3> DEFINE tab == [own[p] EXCEPT ![Head(eq[p]).piece] = "OWNED"]
    <3>1. tab \in [Pieces -> Status]
      BY DEF Status
    <3>2. \/ RequestNext(p, tab)
          \/ own' = [own EXCEPT ![p] = tab] /\ UNCHANGED asked
          \/ UNCHANGED <<own, asked>>
      BY <2>7 DEF HandlePiece
    <3>3. UNCHANGED <<around, unbcast, known>>
      BY <2>7 DEF HandlePiece
    <3> HIDE DEF tab
    <3>4. own' \in [Peers -> [Pieces -> Status]] /\ asked' \in [Peers -> SUBSET Pieces]
      BY <2>4, <3>1, <3>2
    <3> QED
      BY <3>3, <3>4
  <2>8. CASE Others(p)
    <3>1. PICK i \in Pieces : ElseClaim(p, i) \/ ElseOwn(p, i) \/ ElseBcast(p, i)
      BY <2>8 DEF Others
    <3>2. \A st \in Status : [own[p] EXCEPT ![i] = st] \in [Pieces -> Status]
      OBVIOUS
    <3>3. \/ own' = own
          \/ \E st \in Status : own' = [own EXCEPT ![p] = [own[p] EXCEPT ![i] = st]]
      BY <3>1 DEF ElseClaim, ElseOwn, ElseBcast, Status
    <3>4. own' \in [Peers -> [Pieces -> Status]]
      <4>1. CASE own' = own
        BY <4>1
      <4>2. ASSUME NEW tab \in [Pieces -> Status], own' = [own EXCEPT ![p] = tab]
            PROVE  own' \in [Peers -> [Pieces -> Status]]
        BY <4>2
      <4> QED
        BY <3>2, <3>3, <4>1, <4>2
    <3>5. unbcast' \in [Peers -> SUBSET Pieces]
      <4>1. \/ unbcast' = unbcast
            \/ \E U \in SUBSET Pieces : unbcast' = [unbcast EXCEPT ![p] = U]
        BY <3>1 DEF ElseClaim, ElseOwn, ElseBcast
      <4> QED
        BY <4>1
    <3>6. UNCHANGED <<around, asked, known>>
      BY <3>1 DEF ElseClaim, ElseOwn, ElseBcast
    <3> QED
      BY <3>4, <3>5, <3>6
  <2> QED
    BY <2>1, <2>2, <2>3, <2>5, <2>6, <2>7, <2>8 DEF StepOf, Control, Setup, EventLoop
<1>3. pc' \in [Peers -> Locations]
  <2>1. CASE Setup(p) \/ Scan(p)
    BY <2>1 DEF Setup, SendBitfield, ReceiveBitfield, Greet, Scan, Goto, Locations
  <2>2. CASE EventLoop(p)
    BY <2>2 DEF EventLoop, HandleTimerChoke, HandleTimerUnchoke, HandleChoke, HandleUnchoke,
       HandleInterested, HandleNotInterested, HandleHave, ReplyToHave, HandleBcast, CheckDone,
       HandleRequest, HandlePiece, HandleTearDown, Goto, Locations
  <2>3. CASE Ending(p)
    BY <2>3 DEF Ending, Wake, DrainBcast, DrainTearDown, DrainOther, SendTearDown, AwaitTearDown,
       Leave, Goto, Locations
  <2>4. CASE Seats(p) \/ Others(p)
    BY <2>4 DEF Seats, Others, PnSelect, PnPass, OptSelect, OptPass, Inherit, ElseClaim, ElseOwn,
       ElseBcast
  <2> QED
    BY <2>1, <2>2, <2>3, <2>4 DEF StepOf, Control
<1>4. /\ unchoked' \in [Peers -> BOOLEAN]
      /\ peerChoke' \in [Peers -> {"Unknown", "Choked", "Unchoked"}]
      /\ peerInterest' \in [Peers -> {"Unknown", "Interested", "NotInterested"}]
      /\ inPn' \in [Peers -> BOOLEAN]
      /\ isOpt' \in [Peers -> BOOLEAN]
  <2>1. CASE Setup(p) \/ Scan(p)
    BY <2>1 DEF Setup, SendBitfield, ReceiveBitfield, Greet, Scan
  <2>2. CASE EventLoop(p)
    <3>1. CASE HandleTimerChoke(p) \/ HandleTimerUnchoke(p) \/ HandleChoke(p) \/ HandleUnchoke(p)
      BY <3>1 DEF HandleTimerChoke, HandleTimerUnchoke, HandleChoke, HandleUnchoke
    <3>2. CASE HandleInterested(p)
      BY <3>2 DEF HandleInterested
    <3>3. CASE HandleNotInterested(p)
      BY <3>3 DEF HandleNotInterested, LeaveSeat
    <3>4. CASE \/ HandleHave(p) \/ ReplyToHave(p) \/ HandleBcast(p) \/ CheckDone(p)
               \/ HandleRequest(p) \/ HandlePiece(p) \/ HandleTearDown(p)
      BY <3>4 DEF HandleHave, ReplyToHave, HandleBcast, CheckDone, HandleRequest, HandlePiece,
         HandleTearDown
    <3> QED
      BY <2>2, <3>1, <3>2, <3>3, <3>4 DEF EventLoop
  <2>3. CASE Ending(p)
    BY <2>3 DEF Ending, Wake, DrainBcast, DrainTearDown, DrainOther, SendTearDown, AwaitTearDown,
       Leave, LeaveSeat
  <2>4. CASE Seats(p) \/ Others(p)
    BY <2>4 DEF Seats, Others, PnSelect, PnPass, OptSelect, OptPass, Inherit, ElseClaim, ElseOwn,
       ElseBcast
  <2> QED
    BY <2>1, <2>2, <2>3, <2>4 DEF StepOf, Control
<1> QED
  BY <1>1, <1>2, <1>3, <1>4

-----------------------------------------------------------------------------
(***************************************************************************)
(* The bitfield is the first message, and the only one of its type.        *)
(***************************************************************************)

\* What a session sends after its setup, in one word.
LEMMA Spoken ==
  ASSUME TypeOK, NEW p \in Peers, NEW h, NEW ev, NEW msgs, Acts(p, h, ev, msgs), Kind(p, h, ev, msgs)
  PROVE  /\ \A P : ~Has(Bitfield(P), msgs)
         /\ Has(TearDown, msgs) => Parts(p, h, ev, msgs)
         /\ \A i : /\ Has(Have(i), msgs) => Announces(p, h, ev, msgs) /\ Has(BcastHave(i), eq[p])
                   /\ Has(Request(i), msgs) => IsUnchoked(p, h, ev, msgs) \/ Gets(p, h, ev, msgs)
                   /\ Has(Piece(i), msgs) => Serves(p, h, ev, msgs)
                   /\ Has(BcastHave(i), ev) => Gets(p, h, ev, msgs) \/ Elsewhere(p, h, ev, msgs)
         /\ \/ pc'[p] = pc[p] /\ msgs = <<>>
            \/ pc[p] \notin Setting /\ pc'[p] \notin Setting
<1>1. /\ \A e \in Interests \cup Chokes : e.type \notin {"Bitfield", "TearDown", "Have", "Request", "Piece"}
      /\ \A e \in Timers : e.type # "BcastHave"
  BY MessageFields DEF Interests, Chokes, Timers
<1>2. ASSUME msgs \in Seq(Interests) \/ msgs \in Seq(Chokes), NEW m, Has(m, msgs)
      PROVE  m \in Interests \cup Chokes
  BY <1>2, HasMember
<1>3. ASSUME ev \in Seq(Timers), NEW i PROVE ~Has(BcastHave(i), ev)
  BY <1>1, <1>3, HasMember, MessageFields
<1>4. \A m : ~Has(m, <<>>)
  BY HasNone
<1>5. CASE Quiet(p, h, ev, msgs)
  <2>1. msgs \in Seq(Interests) /\ ev \in Seq(Timers)
    BY <1>5 DEF Quiet
  <2>2. \/ pc'[p] = pc[p] /\ msgs = <<>>
        \/ pc[p] \notin Setting /\ pc'[p] \notin Setting
    BY <1>5 DEF Quiet, From, Setting
  <2> QED
    BY <1>1, <1>2, <1>3, <2>1, <2>2, MessageFields
<1>6. CASE Chats(p, ev, msgs) /\ h = Tail(eq[p]) /\ ev \in Seq(Timers) /\ msgs \in Seq(Chokes)
  <2>1. pc[p] \notin Setting /\ pc'[p] \notin Setting
    BY <1>6 DEF Chats, Setting
  <2> QED
    BY <1>1, <1>2, <1>3, <1>6, <2>1, MessageFields
<1>7. CASE IsUnchoked(p, h, ev, msgs)
  <2>1. msgs = <<>> \/ \E i : msgs = <<Request(i)>>
    BY <1>7 DEF IsUnchoked, Asks
  <2>2. ev = <<>> /\ pc[p] \notin Setting /\ pc'[p] \notin Setting
    BY <1>7 DEF IsUnchoked, From, Setting
  <2> QED
    BY <1>4, <1>7, <2>1, <2>2, HasOne, MessageFields
<1>8. CASE Gets(p, h, ev, msgs)
  <2>1. msgs = <<>> \/ \E i : msgs = <<Request(i)>>
    BY <1>8 DEF Gets, Asks
  <2>2. pc[p] \notin Setting /\ pc'[p] \notin Setting
    BY <1>8 DEF Gets, From, Setting
  <2> QED
    BY <1>4, <1>8, <2>1, <2>2, HasOne, MessageFields
<1>9. CASE Learns(p, h, ev, msgs) \/ Elsewhere(p, h, ev, msgs)
  <2>1. msgs = <<>>
    BY <1>9 DEF Learns, Elsewhere
  <2>2. /\ pc'[p] = pc[p] \/ (pc[p] \notin Setting /\ pc'[p] \notin Setting)
        /\ Learns(p, h, ev, msgs) => ev = <<>>
    BY <1>9 DEF Learns, Elsewhere, From, Setting
  <2> QED
    BY <1>4, <1>9, <2>1, <2>2
<1>10. CASE Announces(p, h, ev, msgs)
  <2>1. PICK i \in Pieces, m \in Seq(Interests) : Takes(p, h, BcastHave(i)) /\ msgs = <<Have(i)>> \o m
    BY <1>10 DEF Announces
  <2>2. m \in Seq(Messages) /\ <<Have(i)>> \in Seq(Messages)
    BY <2>1, SmallerSet, ShortQueues, LocalsAreEvents
  <2>3. \A e : Has(e, msgs) <=> Has(e, <<Have(i)>>) \/ Has(e, m)
    BY <2>1, <2>2, HasConcat
  <2>4. \A e : Has(e, msgs) => e = Have(i) \/ e \in Interests
    BY <2>3, HasOne, HasMember
  <2>5. ev = <<>> /\ pc[p] \notin Setting /\ pc'[p] \notin Setting
    BY <1>10 DEF Announces, From, Setting
  <2>6. Has(BcastHave(i), eq[p])
    BY <2>1, ActsHold
  <2> QED
    BY <1>1, <1>4, <1>10, <2>4, <2>5, <2>6, MessageFields
<1>11. CASE Serves(p, h, ev, msgs)
  <2>1. \E i : msgs = <<Piece(i)>>
    BY <1>11 DEF Serves
  <2>2. ev = <<>> /\ pc[p] \notin Setting /\ pc'[p] \notin Setting
    BY <1>11 DEF Serves, From, Setting
  <2> QED
    BY <1>4, <1>11, <2>1, <2>2, HasOne, MessageFields
<1>12. CASE Parts(p, h, ev, msgs)
  <2>1. msgs = <<TearDown>> /\ ev = <<>> /\ pc[p] \notin Setting /\ pc'[p] \notin Setting
    BY <1>12 DEF Parts, From, Setting
  <2> QED
    BY <1>4, <1>12, <2>1, HasOne, MessageFields
<1> QED
  BY <1>5, <1>6, <1>7, <1>8, <1>9, <1>10, <1>11, <1>12 DEF Kind

LEMMA BitfieldFirstStep ==
  ASSUME TypeOK, NEW p \in Peers, StepOf(p), Answerable(p),
         BitfieldFirst(p), BitfieldFirst(Other(p))
  PROVE  BitfieldFirst(p)' /\ BitfieldFirst(Other(p))'
<1> DEFINE q == Other(p)
<1>1. /\ q \in Peers /\ q # p /\ Other(q) = p
      /\ net[p] \in Seq(Messages) /\ net[q] \in Seq(Messages)
  BY OtherEnd, QueueFacts
<1>2. CASE SendBitfield(p)
  <2> DEFINE P == Owned(p)
  <2>1. P \in SUBSET Pieces
    BY DEF Owned, OwnedIn, TypeOK
  <2>2. /\ pc[p] = "send" /\ pc'[p] = "recv" /\ pc'[q] = pc[q]
        /\ net'[p] = net[p] /\ net'[q] = net[q] \o <<Bitfield(P)>>
    BY <1>2, SendBitfieldDoes DEF Goes, Queues
  <2> HIDE DEF P
  <2>3. net[q] = <<>> /\ pc[q] \in Setting
    BY <1>1, <2>2 DEF BitfieldFirst
  <2>4. net'[q] = <<Bitfield(P)>>
    BY <2>2, <2>3
  <2>5. net'[q] # <<>> /\ Head(net'[q]) = Bitfield(P) /\ Tail(net'[q]) = <<>>
    BY <2>4
  <2>6. NoBitfield(Tail(net'[q]))
    BY <2>5, HasNone DEF NoBitfield
  <2>7. BitfieldFirst(q)'
    BY <1>1, <2>1, <2>2, <2>3, <2>5, <2>6 DEF BitfieldFirst, Setting, NoBitfield
  <2>8. BitfieldFirst(p)'
    BY <1>1, <2>2, <2>3 DEF BitfieldFirst, Setting, NoBitfield
  <2> QED
    BY <2>7, <2>8
<1>3. CASE ReceiveBitfield(p)
  <2>1. /\ pc[p] = "recv" /\ pc'[p] \in {"greetDone", "greet"} /\ pc'[q] = pc[q]
        /\ net[p] # <<>> /\ net'[p] = Tail(net[p]) /\ net'[q] = net[q]
    BY <1>3, ReceiveBitfieldDoes DEF Goes
  <2>2. pc[q] # "send"
    BY <2>1 DEF BitfieldFirst
  <2>3. NoBitfield(Tail(net[p]))
    BY <2>1, <2>2 DEF BitfieldFirst, Setting
  <2>4. BitfieldFirst(p)'
    BY <1>1, <2>1, <2>2, <2>3 DEF BitfieldFirst, Setting, NoBitfield
  <2>5. BitfieldFirst(q)'
    BY <1>1, <2>1 DEF BitfieldFirst, Setting, NoBitfield
  <2> QED
    BY <2>4, <2>5
<1>4. CASE Scan(p)
  <2>1. /\ pc[p] \notin Setting /\ pc' = pc /\ net'[q] = net[q]
        /\ \A m : Has(m, net'[p]) => Has(m, net[p])
    BY <1>4, ScanDoes, ScanHolds DEF Setting
  <2>2. pc[q] # "send"
    BY <2>1 DEF BitfieldFirst
  <2> QED
    BY <1>1, <2>1, <2>2 DEF BitfieldFirst, NoBitfield
<1>5. CASE Effect(p)
  <2>1. PICK h \in Seq(Events), ev \in Seq(Locals), msgs \in Seq(Messages) :
             Acts(p, h, ev, msgs) /\ Kind(p, h, ev, msgs)
    BY <1>5 DEF Effect
  <2>2. /\ \A P : ~Has(Bitfield(P), msgs)
        /\ \/ pc'[p] = pc[p] /\ msgs = <<>>
           \/ pc[p] \notin Setting /\ pc'[p] \notin Setting
    BY <2>1, Spoken
  <2>3. /\ net'[p] = net[p] /\ pc'[q] = pc[q] /\ net'[q] = net[q] \o msgs
        /\ \A m : Has(m, net'[q]) <=> Has(m, net[q]) \/ Has(m, msgs)
    BY <2>1, ActsHold DEF Acts, Queues
  <2>4. CASE pc'[p] = pc[p] /\ msgs = <<>>
    <3>1. net'[q] = net[q]
      BY <2>3, <2>4, <1>1, QueueFacts
    <3> QED
      BY <1>1, <2>3, <2>4, <3>1 DEF BitfieldFirst, NoBitfield
  <2>5. CASE pc[p] \notin Setting /\ pc'[p] \notin Setting
    <3>1. pc[p] # "send" /\ pc'[p] # "send" /\ pc[q] # "send"
      BY <2>5 DEF Setting, BitfieldFirst
    <3>2. BitfieldFirst(p)'
      BY <1>1, <2>3, <2>5, <3>1 DEF BitfieldFirst, NoBitfield
    <3>3. net[q] # <<>> =>
             /\ net'[q] # <<>> /\ Head(net'[q]) = Head(net[q])
             /\ \A m : Has(m, Tail(net'[q])) => Has(m, Tail(net[q])) \/ Has(m, msgs)
      BY <1>1, <2>3, HeadStays
    <3>5. CASE pc[q] \in Setting
      <4>1. /\ net[q] # <<>> /\ NoBitfield(Tail(net[q]))
            /\ \E P \in SUBSET Pieces : Head(net[q]) = Bitfield(P)
        BY <1>1, <3>1, <3>5 DEF BitfieldFirst
      <4>2. NoBitfield(Tail(net'[q]))
        BY <2>2, <3>3, <4>1 DEF NoBitfield
      <4> QED
        BY <1>1, <2>3, <3>1, <3>2, <3>3, <3>5, <4>1, <4>2 DEF BitfieldFirst, NoBitfield
    <3>6. CASE pc[q] \notin Setting
      <4>1. NoBitfield(net[q])
        BY <1>1, <3>6 DEF BitfieldFirst
      <4>2. NoBitfield(net'[q])
        BY <2>2, <2>3, <4>1 DEF NoBitfield
      <4> QED
        BY <1>1, <2>3, <3>1, <3>2, <3>6, <4>2 DEF BitfieldFirst, NoBitfield
    <3> QED
      BY <3>5, <3>6
  <2> QED
    BY <2>2, <2>4, <2>5
<1> QED
  BY <1>2, <1>3, <1>4, <1>5, StepKinds

-----------------------------------------------------------------------------
(***************************************************************************)
(* What is said of the pieces is true, and only known pieces are asked for.*)
(***************************************************************************)
LEMMA AsksDoes ==
  ASSUME TypeOK, NEW p \in Peers, NEW tab \in [Pieces -> Status], NEW msgs, Asks(p, tab, msgs)
  PROVE  /\ own'[Other(p)] = own[Other(p)] /\ asked'[Other(p)] = asked[Other(p)]
         /\ \A i \in Pieces : tab[i] # "ABSENT" => own'[p][i] = tab[i]
         /\ \A i \in Pieces : own'[p][i] = "OWNED" <=> tab[i] = "OWNED"
         /\ asked[p] \subseteq asked'[p]
         /\ \A i \in asked'[p] \ asked[p] : i \in known[p] /\ own'[p][i] = "REQUESTED"
         /\ DOMAIN own'[p] = Pieces
<1>1. known[p] \subseteq Pieces
  BY DEF TypeOK
<1> QED
  BY <1>1 DEF Asks, Eligible

LEMMA TablesGrow ==
  ASSUME TypeOK, NEW p \in Peers, StepOf(p), Answerable(p)
  PROVE  /\ own'[Other(p)] = own[Other(p)] /\ asked'[Other(p)] = asked[Other(p)]
         /\ unbcast'[Other(p)] = unbcast[Other(p)] /\ known'[Other(p)] = known[Other(p)]
         /\ \A i \in Pieces : /\ own[p][i] = "OWNED" => own'[p][i] = "OWNED"
                              /\ own[p][i] # "ABSENT" => own'[p][i] # "ABSENT"
         /\ asked[p] \subseteq asked'[p]
         /\ \A i \in asked'[p] \ asked[p] : i \in known[p] /\ own'[p][i] = "REQUESTED"
         /\ Owned(Other(p))' = Owned(Other(p)) /\ Owned(p) \subseteq Owned(p)'
         /\ ~ReceiveBitfield(p) => known[p] \subseteq known'[p]
<1> DEFINE q == Other(p)
<1>1. /\ own[p] \in [Pieces -> Status]
      /\ \A i : [own[p] EXCEPT ![i] = "OWNED"] \in [Pieces -> Status]
  BY DEF TypeOK, Status
<1>2. /\ own'[q] = own[q] /\ asked'[q] = asked[q] /\ unbcast'[q] = unbcast[q] /\ known'[q] = known[q]
      /\ \A i \in Pieces : /\ own[p][i] = "OWNED" => own'[p][i] = "OWNED"
                           /\ own[p][i] # "ABSENT" => own'[p][i] # "ABSENT"
      /\ asked[p] \subseteq asked'[p]
      /\ \A i \in asked'[p] \ asked[p] : i \in known[p] /\ own'[p][i] = "REQUESTED"
      /\ DOMAIN own'[p] = Pieces
      /\ ~ReceiveBitfield(p) => known[p] \subseteq known'[p]
  <2>1. CASE SendBitfield(p)
    BY <1>1, <2>1, SendBitfieldDoes DEF tables
  <2>2. CASE ReceiveBitfield(p)
    BY <1>1, <2>2, ReceiveBitfieldDoes
  <2>3. CASE Scan(p)
    BY <1>1, <2>3, ScanDoes DEF tables
  <2>4. CASE Effect(p)
    <3>1. PICK h \in Seq(Events), ev \in Seq(Locals), msgs \in Seq(Messages) :
               Acts(p, h, ev, msgs) /\ Kind(p, h, ev, msgs)
      BY <2>4 DEF Effect
    <3>2. CASE UNCHANGED tables
      BY <1>1, <3>2 DEF tables
    <3>3. CASE IsUnchoked(p, h, ev, msgs)
      BY <1>1, <3>3, AsksDoes DEF IsUnchoked
    <3>4. CASE Learns(p, h, ev, msgs)
      BY <1>1, <3>4 DEF Learns
    <3>5. CASE Gets(p, h, ev, msgs)
      <4>1. PICK i \in Pieces : own[p][i] = "REQUESTED" /\ Asks(p, [own[p] EXCEPT ![i] = "OWNED"], msgs)
        BY <3>5 DEF Gets
      <4>2. \A j \in Pieces : [own[p] EXCEPT ![i] = "OWNED"][j] = IF j = i THEN "OWNED" ELSE own[p][j]
        BY <1>1
      <4> QED
        BY <1>1, <3>5, <4>1, <4>2, AsksDoes DEF Gets
    <3>6. CASE Elsewhere(p, h, ev, msgs)
      BY <1>1, <3>6 DEF Elsewhere
    <3> QED
      BY <3>1, <3>2, <3>3, <3>4, <3>5, <3>6
      DEF Kind, Quiet, Chats, Announces, Serves, Parts
  <2> QED
    BY <2>1, <2>2, <2>3, <2>4, StepKinds
<1>3. Owned(q)' = Owned(q)
  BY <1>2 DEF Owned
<1>4. Owned(p) \subseteq Owned(p)'
  BY <1>1, <1>2 DEF Owned, OwnedIn
<1> QED
  BY <1>2, <1>3, <1>4

LEMMA TruthfulStep ==
  ASSUME TypeOK, NEW p \in Peers, StepOf(p), Answerable(p), BitfieldFirst(p),
         Truthful(p), Truthful(Other(p))
  PROVE  Truthful(p)' /\ Truthful(Other(p))'
<1> DEFINE q == Other(p)
<1>1. /\ q \in Peers /\ q # p /\ Other(q) = p /\ own[p] \in [Pieces -> Status]
      /\ eq[p] \in Seq(Events) /\ net[p] \in Seq(Messages) /\ net[q] \in Seq(Messages)
  BY OtherEnd, QueueFacts DEF TypeOK
<1>2. /\ Owned(q)' = Owned(q) /\ Owned(p) \subseteq Owned(p)' /\ known'[q] = known[q]
      /\ unbcast'[q] = unbcast[q]
  BY TablesGrow
\* It is enough to look at what is new.
<1>3. ASSUME /\ known'[p] \subseteq Owned(q)
             /\ unbcast'[p] \subseteq Owned(p)'
             /\ \A i \in Pieces :
                  /\ Has(BcastHave(i), eq'[p]) => i \in Owned(p)'
                  /\ Has(Have(i), eq'[p]) \/ Has(Have(i), net'[p]) => i \in Owned(q)
             /\ \A P \in SUBSET Pieces : Has(Bitfield(P), net'[p]) => P \subseteq Owned(q)
             /\ eq'[q] = eq[q]
             /\ \A i \in Pieces : Has(Have(i), net'[q]) => Has(Have(i), net[q]) \/ i \in Owned(p)'
             /\ \A P \in SUBSET Pieces :
                  Has(Bitfield(P), net'[q]) => Has(Bitfield(P), net[q]) \/ P \subseteq Owned(p)'
      PROVE  Truthful(p)' /\ Truthful(q)'
  <2>1. Truthful(p)'
    BY <1>2, <1>3 DEF Truthful
  <2>2. Truthful(q)'
    BY <1>1, <1>2, <1>3 DEF Truthful
  <2> QED
    BY <2>1, <2>2
<1>4. CASE SendBitfield(p)
  <2>1. /\ eq'[p] = eq[p] /\ eq'[q] = eq[q]
        /\ net'[p] = net[p] /\ net'[q] = net[q] \o <<Bitfield(Owned(p))>> /\ UNCHANGED tables
    BY <1>4, SendBitfieldDoes DEF Queues
  <2>2. <<Bitfield(Owned(p))>> \in Seq(Messages)
    <3>1. Owned(p) \in SUBSET Pieces
      BY <1>1 DEF Owned, OwnedIn
    <3> QED
      BY <3>1, ShortQueues DEF Messages
  <2>3. \A m : Has(m, net'[q]) <=> Has(m, net[q]) \/ m = Bitfield(Owned(p))
    <3> DEFINE t == <<Bitfield(Owned(p))>>
    <3>1. /\ net'[q] = net[q] \o t /\ t \in Seq(Messages)
          /\ \A m : Has(m, t) <=> m = Bitfield(Owned(p))
      BY <2>1, <2>2, HasOne
    <3> HIDE DEF t
    <3>2. \A m : Has(m, net'[q]) <=> Has(m, net[q]) \/ Has(m, t)
      BY <1>1, <3>1, HasConcat
    <3> QED
      BY <3>1, <3>2
  <2>4. /\ \A i \in Pieces : Has(Have(i), net'[q]) => Has(Have(i), net[q])
        /\ \A P \in SUBSET Pieces : Has(Bitfield(P), net'[q]) => Has(Bitfield(P), net[q]) \/ P = Owned(p)
    BY <2>3, MessageFields
  <2> QED
    BY <1>2, <1>3, <2>1, <2>4 DEF Truthful, tables
<1>5. CASE ReceiveBitfield(p)
  <2>1. /\ pc[p] = "recv" /\ net[p] # <<>> /\ net'[p] = Tail(net[p]) /\ net'[q] = net[q]
        /\ known'[p] = Head(net[p]).owned /\ eq' = eq /\ unbcast' = unbcast /\ own' = own
    BY <1>5, ReceiveBitfieldDoes DEF Goes
  <2>2. \A m : Has(m, net[p]) <=> m = Head(net[p]) \/ Has(m, net'[p])
    BY <1>1, <2>1, HasTail
  <2>3. PICK P \in SUBSET Pieces : Head(net[p]) = Bitfield(P)
    BY <2>1 DEF BitfieldFirst, Setting
  <2>4. known'[p] \subseteq Owned(q)
    BY <2>1, <2>2, <2>3, MessageFields DEF Truthful
  <2> QED
    BY <1>2, <1>3, <2>1, <2>2, <2>4 DEF Truthful
<1>6. CASE Scan(p)
  <2>1. /\ net'[q] = net[q] /\ eq'[q] = eq[q] /\ UNCHANGED tables
        /\ Head(net[p]).type \notin LocalTypes
        /\ \A m : Has(m, net[p]) <=> m = Head(net[p]) \/ Has(m, net'[p])
        /\ \A m : Has(m, eq'[p]) <=> Has(m, eq[p]) \/ m = Head(net[p])
    BY <1>6, ScanDoes, ScanHolds
  <2>2. \A i : Has(BcastHave(i), eq'[p]) => Has(BcastHave(i), eq[p])
    BY <2>1, MessageFields DEF LocalTypes
  <2> QED
    BY <1>2, <1>3, <2>1, <2>2 DEF Truthful, tables
<1>7. CASE Effect(p)
  <2>1. PICK h \in Seq(Events), ev \in Seq(Locals), msgs \in Seq(Messages) :
             Acts(p, h, ev, msgs) /\ Kind(p, h, ev, msgs)
    BY <1>7 DEF Effect
  <2>2. /\ eq'[q] = eq[q] /\ net'[p] = net[p]
        /\ \A m : Has(m, eq'[p]) <=> Has(m, h) \/ Has(m, ev)
        /\ \A m : Has(m, net'[q]) <=> Has(m, net[q]) \/ Has(m, msgs)
        /\ \A m : Has(m, h) => Has(m, eq[p])
        /\ \A m : Has(m, ev) => m \in Locals
        /\ \A e : Takes(p, h, e) => \A m : Has(m, eq[p]) <=> m = e \/ Has(m, h)
    BY <2>1, ActsHold
  <2>3. /\ \A P : ~Has(Bitfield(P), msgs)
        /\ \A i : /\ Has(Have(i), msgs) => Has(BcastHave(i), eq[p])
                  /\ Has(BcastHave(i), ev) => Gets(p, h, ev, msgs) \/ Elsewhere(p, h, ev, msgs)
    BY <2>1, Spoken
  <2>4. \A i \in Pieces : Has(Have(i), net'[q]) => Has(Have(i), net[q]) \/ i \in Owned(p)'
    BY <1>2, <2>2, <2>3 DEF Truthful
  <2>5. \A i \in Pieces : Has(Have(i), eq'[p]) => i \in Owned(q)
    <3>1. \A i : ~Has(Have(i), ev)
      BY <2>2, LocalsAreEvents, MessageFields DEF LocalTypes
    <3> QED
      BY <2>2, <3>1 DEF Truthful
  <2>6. ASSUME NEW i \in Pieces, Has(BcastHave(i), ev) PROVE i \in Owned(p)'
    <3>1. CASE Gets(p, h, ev, msgs)
      <4>1. PICK j \in Pieces : /\ ev = <<BcastHave(j)>>
                                /\ Asks(p, [own[p] EXCEPT ![j] = "OWNED"], msgs)
        BY <3>1 DEF Gets
      <4> DEFINE tab == [own[p] EXCEPT ![j] = "OWNED"]
      <4>2. tab \in [Pieces -> Status] /\ tab[j] = "OWNED" /\ Asks(p, tab, msgs)
        BY <1>1, <4>1 DEF Status
      <4> HIDE DEF tab
      <4>3. own'[p][j] = "OWNED" /\ DOMAIN own'[p] = Pieces
        BY <4>2, AsksDoes
      <4>4. i = j
        BY <2>6, <4>1, HasOne, MessageFields
      <4> QED
        BY <4>3, <4>4 DEF Owned, OwnedIn
    <3>2. CASE Elsewhere(p, h, ev, msgs)
      <4>1. PICK j \in unbcast[p] : ev = <<BcastHave(j)>>
        BY <2>6, <3>2, HasNone DEF Elsewhere
      <4>2. i = j
        BY <2>6, <4>1, HasOne, MessageFields
      <4> QED
        BY <1>2, <4>1, <4>2 DEF Truthful
    <3> QED
      BY <2>3, <2>6, <3>1, <3>2
  <2>7. \A i \in Pieces : Has(BcastHave(i), eq'[p]) => i \in Owned(p)'
    BY <1>2, <2>2, <2>6 DEF Truthful
  <2>8. known'[p] \subseteq Owned(q)
    <3>1. CASE known' = known
      BY <3>1 DEF Truthful
    <3>2. CASE Learns(p, h, ev, msgs)
      <4>1. PICK i \in Pieces : Takes(p, h, Have(i)) /\ known'[p] = known[p] \cup {i}
        BY <3>2 DEF Learns
      <4>2. Has(Have(i), eq[p])
        BY <2>2, <4>1
      <4> QED
        BY <4>1, <4>2 DEF Truthful
    <3> QED
      BY <2>1, <3>1, <3>2
      DEF Kind, Quiet, Chats, IsUnchoked, Announces, Serves, Gets, Parts, Elsewhere, tables
  <2>9. unbcast'[p] \subseteq Owned(p)'
    <3>1. CASE unbcast' = unbcast
      BY <1>2, <3>1 DEF Truthful
    <3>2. CASE Elsewhere(p, h, ev, msgs)
      <4>1. \/ unbcast'[p] \subseteq unbcast[p]
            \/ \E i \in Pieces : /\ own'[p] = [own[p] EXCEPT ![i] = "OWNED"]
                                 /\ unbcast'[p] = unbcast[p] \cup {i}
        BY <3>2 DEF Elsewhere
      <4>2. CASE unbcast'[p] \subseteq unbcast[p]
        BY <1>2, <4>2 DEF Truthful
      <4>3. ASSUME NEW i \in Pieces, own'[p] = [own[p] EXCEPT ![i] = "OWNED"],
                   unbcast'[p] = unbcast[p] \cup {i}
            PROVE  unbcast'[p] \subseteq Owned(p)'
        <5>1. i \in Owned(p)'
          BY <1>1, <4>3 DEF Owned, OwnedIn
        <5> QED
          BY <1>2, <4>3, <5>1 DEF Truthful
      <4> QED
        BY <4>1, <4>2, <4>3
    <3> QED
      BY <2>1, <3>1, <3>2
      DEF Kind, Quiet, Chats, IsUnchoked, Learns, Announces, Serves, Gets, Parts, tables
  <2> QED
    BY <1>3, <2>2, <2>3, <2>4, <2>5, <2>7, <2>8, <2>9 DEF Truthful
<1> QED
  BY <1>4, <1>5, <1>6, <1>7, StepKinds

LEMMA AsksForKnownStep ==
  ASSUME TypeOK, NEW p \in Peers, StepOf(p), Answerable(p), AsksForKnown(p), AsksForKnown(Other(p))
  PROVE  AsksForKnown(p)' /\ AsksForKnown(Other(p))'
<1> DEFINE q == Other(p)
<1>1. /\ own'[q] = own[q] /\ asked'[q] = asked[q] /\ known'[q] = known[q]
      /\ \A i \in Pieces : own[p][i] # "ABSENT" => own'[p][i] # "ABSENT"
      /\ \A i \in asked'[p] \ asked[p] : i \in known[p] /\ own'[p][i] = "REQUESTED"
      /\ ~ReceiveBitfield(p) => known[p] \subseteq known'[p]
      /\ asked[p] \subseteq Pieces
  BY TablesGrow DEF TypeOK
<1>2. /\ pc'[q] = pc[q]
      /\ pc'[p] \in Setting => pc[p] \in Setting /\ known'[p] = known[p] /\ asked'[p] = asked[p]
  <2>1. CASE SendBitfield(p)
    BY <2>1, SendBitfieldDoes DEF Goes, Setting, tables
  <2>2. CASE ReceiveBitfield(p)
    BY <2>2, ReceiveBitfieldDoes DEF Goes, Setting
  <2>3. CASE Scan(p)
    BY <2>3, ScanDoes DEF Setting, tables
  <2>4. CASE Effect(p)
    <3>1. PICK h \in Seq(Events), ev \in Seq(Locals), msgs \in Seq(Messages) :
               Acts(p, h, ev, msgs) /\ Kind(p, h, ev, msgs)
      BY <2>4 DEF Effect
    <3>2. pc'[q] = pc[q]
      BY <3>1, ActsHold
    <3>3. CASE UNCHANGED <<asked, known>>
      BY <3>1, <3>2, <3>3, Spoken
    <3>4. CASE IsUnchoked(p, h, ev, msgs) \/ Learns(p, h, ev, msgs) \/ Gets(p, h, ev, msgs)
      BY <3>2, <3>4 DEF IsUnchoked, Learns, Gets, From, Setting
    <3> QED
      BY <3>1, <3>3, <3>4 DEF Kind, Quiet, Chats, Announces, Serves, Parts, Elsewhere, tables
  <2> QED
    BY <2>1, <2>2, <2>3, <2>4, StepKinds
<1>3. ReceiveBitfield(p) => asked'[p] = {}
  BY ReceiveBitfieldDoes DEF AsksForKnown, Goes, Setting
<1>4. AsksForKnown(p)'
  BY <1>1, <1>2, <1>3 DEF AsksForKnown
<1>5. AsksForKnown(q)'
  BY <1>1, <1>2 DEF AsksForKnown
<1> QED
  BY <1>4, <1>5

LEMMA OverIsDoneStep ==
  ASSUME TypeOK, NEW p \in Peers, StepOf(p), Answerable(p), OverIsDone(p), OverIsDone(Other(p)),
         TypeOK'
  PROVE  OverIsDone(p)' /\ OverIsDone(Other(p))'
<1> DEFINE q == Other(p)
<1>1. /\ own'[q] = own[q] /\ known'[q] = known[q]
      /\ Owned(p) \subseteq Owned(p)'
      /\ ~ReceiveBitfield(p) => known[p] \subseteq known'[p]
      /\ Owned(p)' \subseteq Pieces /\ known'[p] \subseteq Pieces
  BY TablesGrow DEF TypeOK, Owned, OwnedIn
<1>2. Done(p) /\ ~ReceiveBitfield(p) => Done(p)'
  BY <1>1 DEF Done, OwnsAll, KnowsAll, Owned
<1>3. /\ pc'[q] = pc[q]
      /\ pc'[p] \in Over => (pc[p] \in Over /\ ~ReceiveBitfield(p)) \/ Done(p)'
  <2>1. CASE SendBitfield(p)
    BY <2>1, SendBitfieldDoes DEF Goes, Over
  <2>2. CASE ReceiveBitfield(p)
    BY <2>2, ReceiveBitfieldDoes DEF Goes, Over
  <2>3. CASE Scan(p)
    BY <2>3, ScanDoes DEF ReceiveBitfield, At
  <2>4. CASE Effect(p)
    <3>1. PICK h \in Seq(Events), ev \in Seq(Locals), msgs \in Seq(Messages) :
               Acts(p, h, ev, msgs) /\ Kind(p, h, ev, msgs)
      BY <2>4 DEF Effect
    <3>2. pc'[q] = pc[q]
      BY <3>1, ActsHold
    <3>3. pc[p] \in Over => ~ReceiveBitfield(p)
      BY DEF Over, ReceiveBitfield, At
    <3>4. CASE Quiet(p, h, ev, msgs)
      <4>1. \/ pc'[p] \in Over => pc[p] \in Over
            \/ From(p, "bcast", IF Done(p) THEN "sleep" ELSE "loop")
        BY <3>4 DEF Quiet, From, Over
      <4>2. pc[p] = "bcast" => ~ReceiveBitfield(p)
        BY DEF ReceiveBitfield, At
      <4> QED
        BY <1>2, <3>2, <3>3, <4>1, <4>2 DEF From, Over
    <3>5. CASE Learns(p, h, ev, msgs)
      BY <3>2, <3>5 DEF Learns, From, Over
    <3>6. CASE ~Quiet(p, h, ev, msgs) /\ ~Learns(p, h, ev, msgs)
      <4>1. pc'[p] \in Over => pc[p] \in Over
        BY <3>1, <3>6
        DEF Kind, Chats, IsUnchoked, Announces, Serves, Gets, Parts, Elsewhere, From, Over
      <4> QED
        BY <3>2, <3>3, <4>1
    <3> QED
      BY <3>4, <3>5, <3>6
  <2> QED
    BY <2>1, <2>2, <2>3, <2>4, StepKinds
<1>4. OverIsDone(p)'
  BY <1>2, <1>3 DEF OverIsDone
<1>5. OverIsDone(q)'
  BY <1>1, <1>3 DEF OverIsDone, Done, OwnsAll, KnowsAll
<1> QED
  BY <1>4, <1>5

-----------------------------------------------------------------------------
(***************************************************************************)
(* A claim is carried by one message.                                      *)
(***************************************************************************)
\* What a session is asked for, and what it is given, is as it should be ...
LEMMA ClaimsAnswerable ==
  ASSUME TypeOK, NEW p \in Peers, Truthful(Other(p)), AsksForKnown(Other(p)),
         \A i \in Pieces : Carried(p, i) /\ Carried(Other(p), i)
  PROVE  Answerable(p)
<1> DEFINE q == Other(p)
<1>1. q \in Peers /\ Other(q) = p /\ eq[p] \in Seq(Events)
  BY OtherEnd, QueueFacts
<1> SUFFICES ASSUME NEW i \in Pieces
             PROVE  /\ First(p, Request(i)) => own[p][i] = "OWNED"
                    /\ First(p, Piece(i)) => own[p][i] = "REQUESTED"
  BY DEF Answerable
<1>2. \A e : First(p, e) => Has(e, eq[p])
  BY <1>1, HasTail DEF First
<1>3. ASSUME First(p, Request(i)) PROVE own[p][i] = "OWNED"
  <2>1. Carried(q, i) /\ Has(Request(i), eq[p])
    BY <1>2, <1>3
  <2>2. i \in asked[q]
    BY <1>1, <2>1 DEF Carried, OneCarrier
  <2>3. i \in OwnedIn(own[p])
    BY <1>1, <2>2 DEF AsksForKnown, Truthful, Owned
  <2> QED
    BY <2>3 DEF OwnedIn
<1>4. ASSUME First(p, Piece(i)) PROVE own[p][i] = "REQUESTED"
  <2>1. Carried(p, i) /\ Has(Piece(i), eq[p])
    BY <1>2, <1>4
  <2> QED
    BY <2>1 DEF Carried, OneCarrier
<1> QED
  BY <1>3, <1>4

\* ... and to a session that is over no REQUEST or PIECE is under way, nor from it.
LEMMA NothingUnderWay ==
  ASSUME TypeOK, NEW p \in Peers, Truthful(p), OverIsDone(p), pc[p] \in Over,
         NEW i \in Pieces, Carried(p, i), Carried(Other(p), i)
  PROVE  /\ own[p][i] = "OWNED" /\ own[Other(p)][i] = "OWNED"
         /\ ~Has(Request(i), net[p]) /\ ~Has(Request(i), eq[p])
         /\ ~Has(Piece(i), net[p]) /\ ~Has(Piece(i), eq[p])
         /\ ~Has(Request(i), net[Other(p)]) /\ ~Has(Request(i), eq[Other(p)])
         /\ ~Has(Piece(i), net[Other(p)]) /\ ~Has(Piece(i), eq[Other(p)])
<1>1. Other(p) \in Peers /\ Other(Other(p)) = p
  BY OtherEnd
<1>2. i \in OwnedIn(own[p]) /\ i \in OwnedIn(own[Other(p)])
  BY DEF OverIsDone, Done, OwnsAll, KnowsAll, Truthful, Owned
<1>3. own[p][i] = "OWNED" /\ own[Other(p)][i] = "OWNED"
  BY <1>2 DEF OwnedIn
<1> QED
  BY <1>1, <1>3 DEF Carried, OneCarrier

LEMMA TailDiffers ==
  ASSUME NEW S, NEW s \in Seq(S), s # <<>>
  PROVE  Tail(s) # s
<1> DEFINE t == Tail(s)
<1>1. Len(s) \in Nat /\ Len(t) = Len(s) - 1
  BY HeadTailProperties, LenProperties
<1> HIDE DEF t
<1>2. t # s
  BY <1>1
<1> QED
  BY <1>2 DEF t

LEMMA AsksOne ==
  ASSUME TypeOK, NEW p \in Peers, NEW tab \in [Pieces -> Status], NEW msgs, Asks(p, tab, msgs),
         NEW i \in Pieces
  PROVE  \/ /\ ~Has(Request(i), msgs) /\ own'[p][i] = tab[i]
            /\ i \in asked'[p] <=> i \in asked[p]
         \/ /\ msgs = <<Request(i)>> /\ tab[i] = "ABSENT"
            /\ own'[p][i] = "REQUESTED" /\ i \in asked'[p]
<1>1. known[p] \subseteq Pieces
  BY DEF TypeOK
<1>2. CASE msgs = <<>> /\ own'[p] = tab /\ asked'[p] = asked[p]
  BY <1>2, HasNone
<1>3. ASSUME NEW j \in Eligible(known[p], tab), msgs = <<Request(j)>>,
             own'[p] = [tab EXCEPT ![j] = "REQUESTED"], asked'[p] = asked[p] \cup {j}
      PROVE  \/ /\ ~Has(Request(i), msgs) /\ own'[p][i] = tab[i]
                /\ i \in asked'[p] <=> i \in asked[p]
             \/ /\ msgs = <<Request(i)>> /\ tab[i] = "ABSENT"
                /\ own'[p][i] = "REQUESTED" /\ i \in asked'[p]
  <2>1. tab[j] = "ABSENT" /\ j \in Pieces
    BY <1>1, <1>3 DEF Eligible
  <2>2. CASE i = j
    BY <1>3, <2>1, <2>2
  <2>3. CASE i # j
    <3>1. ~Has(Request(i), msgs)
      BY <1>3, <2>3, HasOne, MessageFields
    <3> QED
      BY <1>3, <2>1, <2>3, <3>1
  <2> QED
    BY <2>2, <2>3
<1> QED
  BY <1>2, <1>3 DEF Asks

\* What becomes of p's claim to i, and of the other end's.
LEMMA ClaimMoves ==
  ASSUME TypeOK, NEW p \in Peers, NEW h, NEW ev, NEW msgs, Acts(p, h, ev, msgs), Kind(p, h, ev, msgs),
         NEW i \in Pieces, AsksForKnown(p),
         pc[p] \in Over => ~Has(Request(i), eq[p]) /\ ~Has(Piece(i), eq[p])
  PROVE  /\ \/ /\ ~Has(Request(i), msgs) /\ ~Takes(p, h, Piece(i))
               /\ i \in asked'[p] /\ own'[p][i] = "REQUESTED" <=> i \in asked[p] /\ own[p][i] = "REQUESTED"
            \/ /\ msgs = <<Request(i)>> /\ ~Takes(p, h, Piece(i))
               /\ own[p][i] = "ABSENT" /\ i \in asked'[p] /\ own'[p][i] = "REQUESTED"
            \/ /\ ~Has(Request(i), msgs) /\ Takes(p, h, Piece(i)) /\ own'[p][i] = "OWNED"
         /\ \/ ~Has(Piece(i), msgs) /\ ~Takes(p, h, Request(i))
            \/ msgs = <<Piece(i)>> /\ Takes(p, h, Request(i))
<1>1. /\ own[p] \in [Pieces -> Status] /\ asked[p] \subseteq Pieces
      /\ i \in asked[p] => own[p][i] # "ABSENT"
      /\ eq[p] \in Seq(Events)
  BY QueueFacts DEF TypeOK, AsksForKnown
<1>2. /\ Has(Request(i), msgs) => IsUnchoked(p, h, ev, msgs) \/ Gets(p, h, ev, msgs)
      /\ Has(Piece(i), msgs) => Serves(p, h, ev, msgs)
  BY Spoken
<1>3. \A e : Takes(p, h, e) => Head(eq[p]) = e /\ Has(e, eq[p])
  BY ActsHold DEF Takes
<1>4. CASE Quiet(p, h, ev, msgs)
  <2>1. UNCHANGED tables /\ msgs \in Seq(Interests)
    BY <1>4 DEF Quiet
  <2>2. ~Has(Request(i), msgs) /\ ~Has(Piece(i), msgs)
    BY <2>1, HasMember, MessageFields DEF Interests
  <2>3. ASSUME NEW e \in {Request(i), Piece(i)}, Takes(p, h, e) PROVE FALSE
    <3>1. eq[p] # <<>> /\ h = Tail(eq[p]) /\ Head(eq[p]) = e /\ Has(e, eq[p])
      BY <1>3, <2>3 DEF Takes
    <3>2. h # eq[p]
      BY <1>1, <3>1, TailDiffers
    <3>3. e # TearDown
      BY <2>3, MessageFields
    <3>4. pc[p] \in Over
      BY <1>4, <3>1, <3>2, <3>3 DEF Quiet, Takes, From, Over
    <3> QED
      BY <2>3, <3>1, <3>4
  <2> QED
    BY <2>1, <2>2, <2>3 DEF tables
<1>5. CASE Chats(p, ev, msgs) /\ h = Tail(eq[p]) /\ ev \in Seq(Timers) /\ msgs \in Seq(Chokes)
  <2>1. ~Has(Request(i), msgs) /\ ~Has(Piece(i), msgs)
    BY <1>5, HasMember, MessageFields DEF Chokes
  <2>2. ~Takes(p, h, Request(i)) /\ ~Takes(p, h, Piece(i))
    BY <1>3, <1>5, MessageFields DEF Chats, ChatTypes
  <2> QED
    BY <1>5, <2>1, <2>2 DEF Chats, tables
<1>6. CASE IsUnchoked(p, h, ev, msgs)
  <2>1. ~Takes(p, h, Request(i)) /\ ~Takes(p, h, Piece(i))
    BY <1>3, <1>6, MessageFields DEF IsUnchoked
  <2>2. ~Has(Piece(i), msgs)
    <3>1. msgs = <<>> \/ \E j : msgs = <<Request(j)>>
      BY <1>6 DEF IsUnchoked, Asks
    <3> QED
      BY <3>1, HasOne, HasNone, MessageFields
  <2>3. Asks(p, own[p], msgs)
    BY <1>6 DEF IsUnchoked
  <2> QED
    BY <1>1, <2>1, <2>2, <2>3, AsksOne
<1>7. CASE Gets(p, h, ev, msgs)
  <2>1. PICK j \in Pieces : /\ Takes(p, h, Piece(j)) /\ own[p][j] = "REQUESTED"
                            /\ Asks(p, [own[p] EXCEPT ![j] = "OWNED"], msgs)
    BY <1>7 DEF Gets
  <2> DEFINE tab == [own[p] EXCEPT ![j] = "OWNED"]
  <2>2. /\ tab \in [Pieces -> Status] /\ tab[i] = IF i = j THEN "OWNED" ELSE own[p][i]
        /\ Asks(p, tab, msgs)
    BY <1>1, <2>1 DEF Status
  <2> HIDE DEF tab
  <2>3. /\ ~Takes(p, h, Request(i))
        /\ Takes(p, h, Piece(i)) <=> i = j
    BY <1>3, <2>1, MessageFields
  <2>4. ~Has(Piece(i), msgs)
    <3>1. msgs = <<>> \/ \E k : msgs = <<Request(k)>>
      BY <2>2 DEF Asks
    <3> QED
      BY <3>1, HasOne, HasNone, MessageFields
  <2>5. \/ /\ ~Has(Request(i), msgs) /\ own'[p][i] = tab[i]
           /\ i \in asked'[p] <=> i \in asked[p]
        \/ /\ msgs = <<Request(i)>> /\ tab[i] = "ABSENT"
           /\ own'[p][i] = "REQUESTED" /\ i \in asked'[p]
    BY <2>2, AsksOne
  <2> QED
    BY <2>2, <2>3, <2>4, <2>5
<1>8. CASE Serves(p, h, ev, msgs)
  <2>1. PICK j \in Pieces : Takes(p, h, Request(j)) /\ msgs = <<Piece(j)>>
    BY <1>8 DEF Serves
  <2>2. /\ ~Takes(p, h, Piece(i))
        /\ Takes(p, h, Request(i)) <=> i = j
        /\ Has(Piece(i), msgs) <=> i = j
        /\ ~Has(Request(i), msgs)
    BY <1>3, <2>1, HasOne, MessageFields
  <2> QED
    BY <1>8, <2>1, <2>2 DEF Serves, tables
<1>9. CASE Learns(p, h, ev, msgs)
  <2>1. ~Takes(p, h, Request(i)) /\ ~Takes(p, h, Piece(i))
    BY <1>3, <1>9, MessageFields DEF Learns
  <2>2. ~Has(Request(i), msgs) /\ ~Has(Piece(i), msgs)
    BY <1>9, HasNone DEF Learns
  <2> QED
    BY <1>9, <2>1, <2>2 DEF Learns
<1>10. CASE Announces(p, h, ev, msgs) \/ Parts(p, h, ev, msgs)
  <2>1. ~Takes(p, h, Request(i)) /\ ~Takes(p, h, Piece(i))
    <3>1. CASE Announces(p, h, ev, msgs)
      BY <1>3, <3>1, MessageFields DEF Announces
    <3>2. CASE Parts(p, h, ev, msgs)
      BY <1>3, <3>2, MessageFields DEF Parts, Takes
    <3> QED
      BY <1>10, <3>1, <3>2
  <2>2. ~Has(Request(i), msgs) /\ ~Has(Piece(i), msgs)
    <3>1. CASE Announces(p, h, ev, msgs)
      <4>1. PICK j \in Pieces, m \in Seq(Interests) : msgs = <<Have(j)>> \o m
        BY <3>1 DEF Announces
      <4>2. <<Have(j)>> \in Seq(Messages) /\ m \in Seq(Messages)
        BY <4>1, SmallerSet, ShortQueues, LocalsAreEvents
      <4>3. \A e : Has(e, msgs) <=> Has(e, <<Have(j)>>) \/ Has(e, m)
        BY <4>1, <4>2, HasConcat
      <4>4. \A e : Has(e, msgs) => e = Have(j) \/ e \in Interests
        BY <4>3, HasOne, HasMember
      <4> QED
        BY <4>4, MessageFields DEF Interests
    <3>2. CASE Parts(p, h, ev, msgs)
      BY <3>2, HasOne, MessageFields DEF Parts
    <3> QED
      BY <1>10, <3>1, <3>2
  <2> QED
    BY <1>10, <2>1, <2>2 DEF Announces, Parts, tables
<1>11. CASE Elsewhere(p, h, ev, msgs)
  <2>1. msgs = <<>> /\ h = eq[p] /\ asked' = asked
    BY <1>11 DEF Elsewhere
  <2>2. ~Has(Request(i), msgs) /\ ~Has(Piece(i), msgs)
    BY <2>1, HasNone
  <2>3. \A e : ~Takes(p, h, e)
    BY <1>1, <2>1, TailDiffers DEF Takes
  <2>4. i \in asked[p] => own'[p][i] = own[p][i]
    BY <1>1, <1>11 DEF Elsewhere
  <2> QED
    BY <2>1, <2>2, <2>3, <2>4, <1>11, <1>1 DEF Elsewhere
<1> QED
  BY <1>4, <1>5, <1>6, <1>7, <1>8, <1>9, <1>10, <1>11 DEF Kind

\* The queues after an effect, for a message that is sent at most once.
LEMMA SingleStays ==
  ASSUME TypeOK, NEW p \in Peers, NEW h, NEW ev, NEW msgs, Acts(p, h, ev, msgs),
         NEW m, m \in Events, m.type \notin LocalTypes,
         Single(m, eq[p]), Single(m, net[Other(p)])
  PROVE  /\ Single(m, eq'[p])
         /\ Has(m, eq'[p]) <=> Has(m, eq[p]) /\ ~Takes(p, h, m)
         /\ ~Has(m, msgs) => /\ Single(m, net'[Other(p)])
                             /\ Has(m, net'[Other(p)]) <=> Has(m, net[Other(p)])
         /\ msgs = <<m>> => /\ ~Has(m, net[Other(p)]) => Single(m, net'[Other(p)])
                            /\ Has(m, net'[Other(p)])
<1> DEFINE q == Other(p)
<1>1. /\ h \in Seq(Events) /\ ev \in Seq(Events) /\ ev \in Seq(Locals) /\ msgs \in Seq(Messages)
      /\ eq[p] \in Seq(Events) /\ net[q] \in Seq(Messages)
      /\ h = eq[p] \/ (eq[p] # <<>> /\ h = Tail(eq[p]))
      /\ eq'[p] = h \o ev /\ net'[q] = net[q] \o msgs
  BY SmallerSet, LocalsAreEvents, QueueFacts, OtherEnd DEF Acts, Queues
<1>2. ~Has(m, ev)
  BY <1>1, HasMember, LocalsAreEvents
<1>3. Single(m, h) /\ (Has(m, h) <=> Has(m, eq[p]) /\ ~Takes(p, h, m))
  <2>1. CASE h = eq[p]
    <3>1. ~Takes(p, h, m)
      BY <1>1, <2>1, TailDiffers DEF Takes
    <3> QED
      BY <2>1, <3>1
  <2>2. CASE eq[p] # <<>> /\ h = Tail(eq[p])
    <3>1. /\ Single(m, h) /\ (m = Head(eq[p]) => ~Has(m, h))
          /\ Has(m, eq[p]) <=> m = Head(eq[p]) \/ Has(m, h)
      BY <1>1, <2>2, SingleQueue, HasTail
    <3>2. Takes(p, h, m) <=> m = Head(eq[p])
      BY <2>2 DEF Takes
    <3> QED
      BY <3>1, <3>2
  <2> QED
    BY <1>1, <2>1, <2>2
<1>4. Single(m, eq'[p]) /\ (Has(m, eq'[p]) <=> Has(m, h))
  <2>1. Single(m, ev)
    BY <1>1, <1>2, SingleQueue
  <2>2. Has(m, h \o ev) <=> Has(m, h) \/ Has(m, ev)
    BY <1>1, HasConcat
  <2>3. Single(m, h \o ev)
    BY <1>1, <1>2, <1>3, <2>1, SingleQueue
  <2> QED
    BY <1>1, <1>2, <2>2, <2>3
<1>5. Has(m, net'[q]) <=> Has(m, net[q]) \/ Has(m, msgs)
  BY ActsHold
<1>6. ~Has(m, msgs) => Single(m, net'[q])
  BY <1>1, SingleQueue
<1>7. ASSUME msgs = <<m>> PROVE Has(m, msgs) /\ (~Has(m, net[q]) => Single(m, net'[q]))
  <2>1. Has(m, msgs)
    BY <1>7, HasOne
  <2>2. Single(m, msgs)
    <3>1. Len(msgs) = 1
      BY <1>7
    <3> QED
      BY <3>1 DEF Single
  <2> QED
    BY <1>1, <2>1, <2>2, SingleQueue
<1> QED
  BY <1>3, <1>4, <1>5, <1>6, <1>7

LEMMA CarriedStep ==
  ASSUME TypeOK, NEW p \in Peers, StepOf(p), Answerable(p), BitfieldFirst(p), Truthful(p),
         AsksForKnown(p), OverIsDone(p), NEW i \in Pieces, Carried(p, i), Carried(Other(p), i)
  PROVE  Carried(p, i)' /\ Carried(Other(p), i)'
<1> DEFINE q == Other(p)
           R == Request(i)
           D == Piece(i)
<1>1. /\ q \in Peers /\ q # p /\ Other(q) = p
      /\ R \in Events /\ D \in Events /\ R \in Messages /\ D \in Messages
      /\ R.type \notin LocalTypes /\ D.type \notin LocalTypes /\ R # D
      /\ net[p] \in Seq(Messages) /\ net[q] \in Seq(Messages)
      /\ eq[p] \in Seq(Events) /\ eq[q] \in Seq(Events)
  BY OtherEnd, QueueFacts, LocalsAreEvents, MessageFields DEF LocalTypes
<1>2. /\ OneCarrier(R, net[q], eq[q], D, net[p], eq[p], i \in asked[p] /\ own[p][i] = "REQUESTED")
      /\ OneCarrier(R, net[p], eq[p], D, net[q], eq[q], i \in asked[q] /\ own[q][i] = "REQUESTED")
  BY <1>1 DEF Carried
<1>3. own'[q] = own[q] /\ asked'[q] = asked[q]
  BY TablesGrow
<1>4. ASSUME OneCarrier(R, net'[q], eq'[q], D, net'[p], eq'[p], i \in asked'[p] /\ own'[p][i] = "REQUESTED"),
             OneCarrier(R, net'[p], eq'[p], D, net'[q], eq'[q], i \in asked[q] /\ own[q][i] = "REQUESTED")
      PROVE  Carried(p, i)' /\ Carried(q, i)'
  BY <1>1, <1>3, <1>4 DEF Carried
\* The bitfields do not matter.
<1>5. CASE SendBitfield(p)
  <2> DEFINE t == <<Bitfield(Owned(p))>>
  <2>1. eq'[p] = eq[p] /\ eq'[q] = eq[q] /\ net'[p] = net[p] /\ net'[q] = net[q] \o t /\ UNCHANGED tables
    BY <1>5, SendBitfieldDoes DEF Queues
  <2>2. t \in Seq(Messages)
    <3>1. Owned(p) \in SUBSET Pieces
      BY DEF Owned, OwnedIn, TypeOK
    <3> QED
      BY <3>1, ShortQueues DEF Messages
  <2>3. ~Has(R, t) /\ ~Has(D, t)
    BY HasOne, MessageFields
  <2> HIDE DEF t
  <2>4. ASSUME NEW m, ~Has(m, t), Single(m, net[q])
        PROVE  Single(m, net'[q]) /\ (Has(m, net'[q]) <=> Has(m, net[q]))
    BY <1>1, <2>1, <2>2, <2>4, SingleQueue, HasConcat
  <2>5. /\ Single(R, net'[q]) /\ (Has(R, net'[q]) <=> Has(R, net[q]))
        /\ Single(D, net'[q]) /\ (Has(D, net'[q]) <=> Has(D, net[q]))
    BY <1>2, <2>3, <2>4 DEF OneCarrier
  <2> QED
    BY <1>2, <1>4, <2>1, <2>5 DEF OneCarrier, tables
<1>6. CASE ReceiveBitfield(p)
  <2>1. /\ pc[p] = "recv" /\ net[p] # <<>> /\ net'[p] = Tail(net[p]) /\ net'[q] = net[q]
        /\ eq' = eq /\ own' = own /\ asked' = asked
    BY <1>6, ReceiveBitfieldDoes DEF Goes
  <2>2. PICK P \in SUBSET Pieces : Head(net[p]) = Bitfield(P)
    BY <2>1 DEF BitfieldFirst, Setting
  <2>3. R # Head(net[p]) /\ D # Head(net[p])
    BY <2>2, MessageFields
  <2>4. /\ Single(R, net'[p]) /\ (Has(R, net'[p]) <=> Has(R, net[p]))
        /\ Single(D, net'[p]) /\ (Has(D, net'[p]) <=> Has(D, net[p]))
    BY <1>1, <1>2, <2>1, <2>3, SingleQueue, HasTail DEF OneCarrier
  <2> QED
    BY <1>2, <1>4, <2>1, <2>4 DEF OneCarrier
\* The scanner moves a message on.
<1>7. CASE Scan(p)
  <2> DEFINE e == Head(net[p])
             t == <<e>>
  <2>1. /\ net[p] # <<>> /\ net'[p] = Tail(net[p]) /\ net'[q] = net[q]
        /\ eq'[p] = eq[p] \o t /\ eq'[q] = eq[q] /\ UNCHANGED tables
        /\ e \in Events
        /\ \A m : Has(m, net[p]) <=> m = e \/ Has(m, net'[p])
        /\ \A m : Has(m, eq'[p]) <=> Has(m, eq[p]) \/ m = e
    BY <1>7, ScanDoes, ScanHolds
  <2>2. t \in Seq(Events) /\ (\A m : Has(m, t) <=> m = e) /\ \A m : Single(m, t)
    <3>1. Len(t) = 1
      OBVIOUS
    <3> QED
      BY <2>1, <3>1, ShortQueues, HasOne DEF Single
  <2> HIDE DEF e, t
  <2>3. ASSUME NEW m, Single(m, net[p]), Single(m, eq[p]), ~(Has(m, net[p]) /\ Has(m, eq[p]))
        PROVE  /\ Single(m, net'[p]) /\ Single(m, eq'[p])
               /\ ~(Has(m, net'[p]) /\ Has(m, eq'[p]))
               /\ Has(m, net'[p]) \/ Has(m, eq'[p]) <=> Has(m, net[p]) \/ Has(m, eq[p])
    <3>1. Single(m, net'[p]) /\ (m = e => ~Has(m, net'[p]))
      BY <1>1, <2>1, <2>3, SingleQueue DEF e
    <3>2. Single(m, eq'[p])
      BY <1>1, <2>1, <2>2, <2>3, SingleQueue
    <3> QED
      BY <2>1, <2>3, <3>1, <3>2
  <2>4. /\ Single(R, net'[p]) /\ Single(R, eq'[p])
        /\ ~(Has(R, net'[p]) /\ Has(R, eq'[p]))
        /\ Has(R, net'[p]) \/ Has(R, eq'[p]) <=> Has(R, net[p]) \/ Has(R, eq[p])
    BY <1>2, <2>3 DEF OneCarrier
  <2>5. /\ Single(D, net'[p]) /\ Single(D, eq'[p])
        /\ ~(Has(D, net'[p]) /\ Has(D, eq'[p]))
        /\ Has(D, net'[p]) \/ Has(D, eq'[p]) <=> Has(D, net[p]) \/ Has(D, eq[p])
    BY <1>2, <2>3 DEF OneCarrier
  <2>6. UNCHANGED <<own, asked>>
    BY <2>1 DEF tables
  <2>7. OneCarrier(R, net'[q], eq'[q], D, net'[p], eq'[p], i \in asked'[p] /\ own'[p][i] = "REQUESTED")
    BY <1>2, <2>1, <2>5, <2>6 DEF OneCarrier
  <2>8. OneCarrier(R, net'[p], eq'[p], D, net'[q], eq'[q], i \in asked[q] /\ own[q][i] = "REQUESTED")
    BY <1>2, <2>1, <2>4, <2>6 DEF OneCarrier
  <2> QED
    BY <1>4, <2>7, <2>8
<1>8. CASE Effect(p)
  <2>1. PICK h \in Seq(Events), ev \in Seq(Locals), msgs \in Seq(Messages) :
             Acts(p, h, ev, msgs) /\ Kind(p, h, ev, msgs)
    BY <1>8 DEF Effect
  <2>2. eq'[q] = eq[q] /\ net'[p] = net[p]
    BY <2>1, ActsHold
  <2>3. /\ \/ /\ ~Has(R, msgs) /\ ~Takes(p, h, D)
              /\ i \in asked'[p] /\ own'[p][i] = "REQUESTED" <=> i \in asked[p] /\ own[p][i] = "REQUESTED"
           \/ /\ msgs = <<R>> /\ ~Takes(p, h, D)
              /\ own[p][i] = "ABSENT" /\ i \in asked'[p] /\ own'[p][i] = "REQUESTED"
           \/ /\ ~Has(R, msgs) /\ Takes(p, h, D) /\ own'[p][i] = "OWNED"
        /\ \/ ~Has(D, msgs) /\ ~Takes(p, h, R)
           \/ msgs = <<D>> /\ Takes(p, h, R)
    <3>1. pc[p] \in Over => ~Has(R, eq[p]) /\ ~Has(D, eq[p])
      BY NothingUnderWay
    <3> QED
      BY <2>1, <3>1, ClaimMoves
  <2>4. /\ Single(R, eq'[p]) /\ (Has(R, eq'[p]) <=> Has(R, eq[p]) /\ ~Takes(p, h, R))
        /\ ~Has(R, msgs) => Single(R, net'[q]) /\ (Has(R, net'[q]) <=> Has(R, net[q]))
        /\ msgs = <<R>> => (~Has(R, net[q]) => Single(R, net'[q])) /\ Has(R, net'[q])
    <3>1. Single(R, eq[p]) /\ Single(R, net[q])
      BY <1>2 DEF OneCarrier
    <3> QED
      BY <1>1, <2>1, <3>1, SingleStays
  <2>5. /\ Single(D, eq'[p]) /\ (Has(D, eq'[p]) <=> Has(D, eq[p]) /\ ~Takes(p, h, D))
        /\ ~Has(D, msgs) => Single(D, net'[q]) /\ (Has(D, net'[q]) <=> Has(D, net[q]))
        /\ msgs = <<D>> => (~Has(D, net[q]) => Single(D, net'[q])) /\ Has(D, net'[q])
    <3>1. Single(D, eq[p]) /\ Single(D, net[q])
      BY <1>2 DEF OneCarrier
    <3> QED
      BY <1>1, <2>1, <3>1, SingleStays
  <2>6. \A e : Takes(p, h, e) => Has(e, eq[p])
    BY <2>1, ActsHold
  <2>7. OneCarrier(R, net'[q], eq'[q], D, net'[p], eq'[p], i \in asked'[p] /\ own'[p][i] = "REQUESTED")
    <3>1. CASE /\ ~Has(R, msgs) /\ ~Takes(p, h, D)
               /\ i \in asked'[p] /\ own'[p][i] = "REQUESTED" <=> i \in asked[p] /\ own[p][i] = "REQUESTED"
      BY <1>2, <2>2, <2>4, <2>5, <3>1 DEF OneCarrier
    <3>2. CASE /\ msgs = <<R>> /\ ~Takes(p, h, D)
               /\ own[p][i] = "ABSENT" /\ i \in asked'[p] /\ own'[p][i] = "REQUESTED"
      BY <1>2, <2>2, <2>4, <2>5, <3>2 DEF OneCarrier
    <3>3. CASE ~Has(R, msgs) /\ Takes(p, h, D) /\ own'[p][i] = "OWNED"
      BY <1>2, <2>2, <2>4, <2>5, <2>6, <3>3 DEF OneCarrier
    <3> QED
      BY <2>3, <3>1, <3>2, <3>3
  <2>8. OneCarrier(R, net'[p], eq'[p], D, net'[q], eq'[q], i \in asked[q] /\ own[q][i] = "REQUESTED")
    <3>1. CASE ~Has(D, msgs) /\ ~Takes(p, h, R)
      BY <1>2, <2>2, <2>4, <2>5, <3>1 DEF OneCarrier
    <3>2. CASE msgs = <<D>> /\ Takes(p, h, R)
      BY <1>2, <2>2, <2>4, <2>5, <2>6, <3>2 DEF OneCarrier
    <3> QED
      BY <2>3, <3>1, <3>2
  <2> QED
    BY <1>4, <2>7, <2>8
<1> QED
  BY <1>5, <1>6, <1>7, <1>8, StepKinds

-----------------------------------------------------------------------------
(***************************************************************************)
(* TearDown is the last message.                                           *)
(***************************************************************************)
LEMMA Departures ==
  ASSUME TypeOK, NEW p \in Peers, NEW h, NEW ev, NEW msgs, Acts(p, h, ev, msgs), Kind(p, h, ev, msgs)
  PROVE  /\ pc[p] \in TornDown => msgs = <<>> /\ pc'[p] \in TornDown
         /\ Has(TearDown, msgs) => msgs = <<TearDown>> /\ pc'[p] \in TornDown
         /\ pc'[p] \in {"leave", "ended"} => pc[p] \in {"leave", "ended"} \/ Takes(p, h, TearDown)
         /\ pc'[p] = "panic" => pc[p] = "panic" \/ Takes(p, h, TearDown)
         /\ pc'[p] \notin Over => pc[p] \notin Over
<1>1. Has(TearDown, msgs) => Parts(p, h, ev, msgs)
  BY Spoken
<1>2. CASE Quiet(p, h, ev, msgs)
  <2>1. pc[p] \in TornDown => msgs = <<>>
    BY <1>2 DEF Quiet, TornDown
  <2>2. ~Has(TearDown, msgs)
    BY <1>2, HasMember, MessageFields DEF Quiet, Interests
  <2>3. /\ pc[p] \in TornDown => pc'[p] \in TornDown
        /\ pc'[p] \in {"leave", "ended"} => pc[p] \in {"leave", "ended"} \/ Takes(p, h, TearDown)
        /\ pc'[p] = "panic" => pc[p] = "panic" \/ Takes(p, h, TearDown)
        /\ pc'[p] \notin Over => pc[p] \notin Over
    BY <1>2 DEF Quiet, From, TornDown, Over
  <2> QED
    BY <2>1, <2>2, <2>3
<1>3. CASE Parts(p, h, ev, msgs)
  BY <1>3 DEF Parts, From, TornDown, Over
<1>4. CASE Elsewhere(p, h, ev, msgs)
  <2>1. msgs = <<>> /\ pc'[p] = pc[p]
    BY <1>4 DEF Elsewhere
  <2> QED
    BY <2>1, HasNone
<1>5. CASE ~Quiet(p, h, ev, msgs) /\ ~Parts(p, h, ev, msgs) /\ ~Elsewhere(p, h, ev, msgs)
  <2>1. \/ pc[p] = "loop" /\ pc'[p] \in {"loop", "sleep", "have", "bcast"}
        \/ pc[p] = "drain" /\ pc'[p] = "drain"
    BY <1>5 DEF Kind, Chats, IsUnchoked, Learns, Announces, Serves, Gets, From
  <2> QED
    BY <1>1, <1>5, <2>1 DEF TornDown, Over
<1> QED
  BY <1>2, <1>3, <1>4, <1>5

LEMMA TearDownLastStep ==
  ASSUME TypeOK, NEW p \in Peers, StepOf(p), Answerable(p), BitfieldFirst(p),
         TearDownLast(p), TearDownLast(Other(p))
  PROVE  TearDownLast(p)' /\ TearDownLast(Other(p))'
<1> DEFINE q == Other(p)
<1>1. /\ q \in Peers /\ q # p /\ Other(q) = p
      /\ net[p] \in Seq(Messages) /\ net[q] \in Seq(Messages)
      /\ eq[p] \in Seq(Events) /\ eq[q] \in Seq(Events)
  BY OtherEnd, QueueFacts
\* The other end only sees what p sends, and that p has sent its TearDown.
<1>2. ASSUME NEW msgs \in Seq(Messages), eq'[q] = eq[q], net'[q] = net[q] \o msgs, pc'[q] = pc[q],
             pc[p] \in TornDown => msgs = <<>> /\ pc'[p] \in TornDown,
             Has(TearDown, msgs) => msgs = <<TearDown>> /\ pc'[p] \in TornDown
      PROVE  TearDownLast(q)'
  <2>1. CASE pc[p] \in TornDown
    <3>1. net'[q] = net[q]
      BY <1>1, <1>2, <2>1, QueueFacts
    <3> QED
      BY <1>1, <1>2, <2>1, <3>1 DEF TearDownLast
  <2>2. CASE pc[p] \notin TornDown
    <3>1. ~Has(TearDown, net[q]) /\ ~Has(TearDown, eq[q]) /\ pc[q] \notin {"leave", "ended", "panic"}
      BY <1>1, <2>2 DEF TearDownLast
    <3>2. Has(TearDown, net'[q]) <=> Has(TearDown, msgs)
      BY <1>1, <1>2, <3>1, HasConcat
    <3>3. LastIfTearDown(msgs)
      <4>1. CASE Has(TearDown, msgs)
        <5>1. Len(msgs) = 1
          BY <1>2, <4>1
        <5> QED
          BY <5>1 DEF LastIfTearDown
      <4>2. CASE ~Has(TearDown, msgs)
        BY <1>2, <4>2, TearDownQueue
      <4> QED
        BY <4>1, <4>2
    <3>4. LastIfTearDown(net'[q])
      BY <1>1, <1>2, <3>1, <3>3, TearDownQueue
    <3>5. EndsIfTearDown(eq[q])
      BY <1>1 DEF TearDownLast
    <3> QED
      BY <1>1, <1>2, <3>1, <3>2, <3>4, <3>5 DEF TearDownLast
  <2> QED
    BY <2>1, <2>2
<1>3. CASE SendBitfield(p)
  <2> DEFINE t == <<Bitfield(Owned(p))>>
  <2>1. /\ eq'[p] = eq[p] /\ eq'[q] = eq[q] /\ net'[p] = net[p] /\ net'[q] = net[q] \o t
        /\ pc[p] = "send" /\ pc'[p] = "recv" /\ pc'[q] = pc[q]
    BY <1>3, SendBitfieldDoes DEF Queues, Goes
  <2>2. t \in Seq(Messages)
    <3>1. Owned(p) \in SUBSET Pieces
      BY DEF Owned, OwnedIn, TypeOK
    <3> QED
      BY <3>1, ShortQueues DEF Messages
  <2>3. ~Has(TearDown, t)
    BY HasOne, MessageFields
  <2> HIDE DEF t
  <2>4. TearDownLast(q)'
    BY <1>2, <2>1, <2>2, <2>3 DEF TornDown
  <2>5. TearDownLast(p)'
    BY <1>1, <2>1 DEF TearDownLast
  <2> QED
    BY <2>4, <2>5
<1>4. CASE ReceiveBitfield(p)
  <2>1. /\ pc[p] = "recv" /\ pc'[p] \in {"greet", "greetDone"} /\ pc'[q] = pc[q]
        /\ net[p] # <<>> /\ net'[p] = Tail(net[p]) /\ net'[q] = net[q] /\ eq' = eq
    BY <1>4, ReceiveBitfieldDoes DEF Goes
  <2>2. /\ Has(TearDown, net'[p]) => Has(TearDown, net[p])
        /\ LastIfTearDown(net[p]) => LastIfTearDown(net'[p])
    BY <1>1, <2>1, HasTail, TearDownQueue
  <2>3. TearDownLast(p)'
    BY <1>1, <2>1, <2>2 DEF TearDownLast
  <2>4. pc[p] \notin TornDown
    BY <2>1 DEF TornDown
  <2>5. TearDownLast(q)'
    BY <1>1, <2>1, <2>4 DEF TearDownLast
  <2> QED
    BY <2>3, <2>5
<1>5. CASE Scan(p)
  <2> DEFINE e == Head(net[p])
             t == <<e>>
  <2>1. /\ net[p] # <<>> /\ net'[p] = Tail(net[p]) /\ net'[q] = net[q] /\ pc' = pc
        /\ eq'[p] = eq[p] \o t /\ eq'[q] = eq[q]
        /\ pc[p] \notin {"ended", "panic"} /\ e \in Events
        /\ \A m : Has(m, net[p]) <=> m = e \/ Has(m, net'[p])
        /\ \A m : Has(m, eq'[p]) <=> Has(m, eq[p]) \/ m = e
    BY <1>5, ScanDoes, ScanHolds
  <2>2. t \in Seq(Events) /\ EndsIfTearDown(t)
    <3>1. t \in Seq(Events) /\ Len(t) = 1
      BY <2>1
    <3>2. LastIfTearDown(t)
      BY <3>1 DEF LastIfTearDown
    <3> QED
      BY <3>1, <3>2, TearDownQueue
  <2>3. ~Has(TearDown, eq[p]) /\ pc[p] # "leave"
    BY <2>1 DEF TearDownLast
  <2> HIDE DEF t, e
  <2>4. EndsIfTearDown(eq'[p])
    BY <1>1, <2>1, <2>2, <2>3, TearDownQueue
  <2>5. LastIfTearDown(net'[p]) /\ (e = TearDown => net'[p] = <<>>)
    <3>1. LastIfTearDown(net[p])
      BY DEF TearDownLast
    <3> QED
      BY <1>1, <2>1, <3>1, TearDownQueue DEF e
  <2>6. TearDownLast(p)'
    BY <1>1, <2>1, <2>3, <2>4, <2>5 DEF TearDownLast
  <2>7. TearDownLast(q)'
    BY <1>1, <2>1 DEF TearDownLast
  <2> QED
    BY <2>6, <2>7
<1>6. CASE Effect(p)
  <2>1. PICK h \in Seq(Events), ev \in Seq(Locals), msgs \in Seq(Messages) :
             Acts(p, h, ev, msgs) /\ Kind(p, h, ev, msgs)
    BY <1>6 DEF Effect
  <2>2. /\ eq'[p] = h \o ev /\ eq'[q] = eq[q] /\ net'[q] = net[q] \o msgs /\ net'[p] = net[p]
        /\ pc'[q] = pc[q]
        /\ h = eq[p] \/ (eq[p] # <<>> /\ h = Tail(eq[p]))
    BY <2>1 DEF Acts, Queues
  <2>3. /\ pc[p] \in TornDown => msgs = <<>> /\ pc'[p] \in TornDown
        /\ Has(TearDown, msgs) => msgs = <<TearDown>> /\ pc'[p] \in TornDown
        /\ pc'[p] \in {"leave", "ended"} => pc[p] \in {"leave", "ended"} \/ Takes(p, h, TearDown)
        /\ pc'[p] = "panic" => pc[p] = "panic" \/ Takes(p, h, TearDown)
    BY <2>1, Departures
  <2>4. /\ Has(TearDown, eq'[p]) => Has(TearDown, eq[p])
        /\ Takes(p, h, TearDown) => Has(TearDown, eq[p])
    <3>1. ~Has(TearDown, ev)
      BY <2>1, HasMember, LocalsAreEvents, MessageFields DEF LocalTypes
    <3> QED
      BY <2>1, <3>1, ActsHold
  <2>5. EndsIfTearDown(eq'[p])
    <3>1. EndsIfTearDown(h)
      BY <1>1, <2>2, TearDownQueue DEF TearDownLast
    <3>2. \A e \in Locals : e \in Events /\ e.type \in LocalTypes
      BY LocalsAreEvents
    <3> QED
      BY <2>1, <2>2, <3>1, <3>2, TearDownQueue
  <2>6. TearDownLast(p)'
    BY <1>1, <2>2, <2>3, <2>4, <2>5 DEF TearDownLast
  <2>7. TearDownLast(q)'
    BY <1>2, <2>1, <2>2, <2>3
  <2> QED
    BY <2>6, <2>7
<1> QED
  BY <1>3, <1>4, <1>5, <1>6, StepKinds

-----------------------------------------------------------------------------
(***************************************************************************)
(* Who is choked has been told so last.                                    *)
(***************************************************************************)
LEMMA ChokeMoves ==
  ASSUME TypeOK, NEW p \in Peers, NEW h, NEW ev, NEW msgs, Acts(p, h, ev, msgs), Kind(p, h, ev, msgs)
  PROVE  /\ unchoked'[Other(p)] = unchoked[Other(p)] /\ peerChoke'[Other(p)] = peerChoke[Other(p)]
         /\ pc[p] \notin Over =>
              /\ unchoked'[p] => (unchoked[p] /\ ~Takes(p, h, Choke)) \/ Takes(p, h, Unchoke)
              /\ unchoked'[p] \in BOOLEAN
         /\ peerChoke'[p] # "Unchoked" =>
              msgs = <<Choke>> \/ (~Has(Unchoke, msgs) /\ peerChoke[p] # "Unchoked")
<1>1. /\ \A e : Takes(p, h, e) => Head(eq[p]) = e /\ h # eq[p]
      /\ eq[p] \in Seq(Events)
  BY QueueFacts, TailDiffers DEF Takes
<1>2. unchoked \in [Peers -> BOOLEAN]
  BY DEF TypeOK
<1>3. CASE Quiet(p, h, ev, msgs)
  <2>1. UNCHANGED chokes /\ msgs \in Seq(Interests)
    BY <1>3 DEF Quiet
  <2>2. ~Has(Unchoke, msgs)
    BY <2>1, HasMember, MessageFields DEF Interests
  <2>3. Takes(p, h, Choke) => pc[p] \in Over
    BY <1>1, <1>3, MessageFields DEF Quiet, Takes, From, Over
  <2> QED
    BY <1>2, <2>1, <2>2, <2>3 DEF chokes
<1>4. CASE Chats(p, ev, msgs) /\ h = Tail(eq[p]) /\ ev \in Seq(Timers) /\ msgs \in Seq(Chokes)
  <2>1. /\ unchoked'[Other(p)] = unchoked[Other(p)] /\ peerChoke'[Other(p)] = peerChoke[Other(p)]
        /\ unchoked'[p] = (unchoked[p] /\ Head(eq[p]).type # "Choke")
        /\ peerChoke'[p] # "Unchoked" => msgs = <<Choke>> \/ (msgs = <<>> /\ peerChoke[p] # "Unchoked")
    BY <1>4 DEF Chats
  <2>2. Takes(p, h, Choke) => Head(eq[p]).type = "Choke"
    BY <1>1, MessageFields
  <2>3. ~Has(Unchoke, <<>>)
    BY HasNone
  <2> QED
    BY <1>2, <2>1, <2>2, <2>3
<1>5. CASE IsUnchoked(p, h, ev, msgs)
  <2>1. ~Has(Unchoke, msgs)
    <3>1. msgs = <<>> \/ \E i : msgs = <<Request(i)>>
      BY <1>5 DEF IsUnchoked, Asks
    <3> QED
      BY <3>1, HasNone, HasOne, MessageFields
  <2> QED
    BY <1>5, <2>1 DEF IsUnchoked
<1>6. CASE /\ UNCHANGED chokes
           /\ \A m : Has(m, msgs) => m \in Interests \/ \E i : m \in {Have(i), Request(i), Piece(i), TearDown}
           /\ ~Takes(p, h, Choke)
  <2>1. ~Has(Unchoke, msgs)
    BY <1>6, MessageFields DEF Interests
  <2> QED
    BY <1>2, <1>6, <2>1 DEF chokes
<1>7. CASE Learns(p, h, ev, msgs) \/ Elsewhere(p, h, ev, msgs)
  <2>1. UNCHANGED chokes /\ msgs = <<>> /\ (h = eq[p] \/ \E i : Takes(p, h, Have(i)))
    BY <1>7 DEF Learns, Elsewhere
  <2>2. ~Takes(p, h, Choke)
    BY <1>1, <2>1, MessageFields
  <2> QED
    BY <1>6, <2>1, <2>2, HasNone
<1>8. CASE Announces(p, h, ev, msgs)
  <2>1. PICK i \in Pieces, m \in Seq(Interests) : Takes(p, h, BcastHave(i)) /\ msgs = <<Have(i)>> \o m
    BY <1>8 DEF Announces
  <2>2. <<Have(i)>> \in Seq(Messages) /\ m \in Seq(Messages)
    BY <2>1, SmallerSet, ShortQueues, LocalsAreEvents
  <2>3. \A e : Has(e, msgs) <=> Has(e, <<Have(i)>>) \/ Has(e, m)
    BY <2>1, <2>2, HasConcat
  <2>4. \A e : Has(e, msgs) => e = Have(i) \/ e \in Interests
    BY <2>3, HasOne, HasMember
  <2>5. ~Takes(p, h, Choke) /\ UNCHANGED chokes
    BY <1>1, <1>8, <2>1, MessageFields DEF Announces
  <2> QED
    BY <1>6, <2>4, <2>5
<1>9. CASE Serves(p, h, ev, msgs) \/ Gets(p, h, ev, msgs) \/ Parts(p, h, ev, msgs)
  <2>1. /\ msgs = <<>> \/ msgs = <<TearDown>> \/ \E i : msgs = <<Request(i)>> \/ msgs = <<Piece(i)>>
        /\ UNCHANGED chokes
    BY <1>9 DEF Serves, Gets, Parts, Asks
  <2>2. ~Takes(p, h, Choke)
    <3>1. CASE Serves(p, h, ev, msgs)
      BY <1>1, <3>1, MessageFields DEF Serves
    <3>2. CASE Gets(p, h, ev, msgs)
      BY <1>1, <3>2, MessageFields DEF Gets
    <3>3. CASE Parts(p, h, ev, msgs)
      <4>1. Takes(p, h, TearDown) \/ eq[p] = <<>>
        BY <3>3 DEF Parts
      <4>2. Choke # TearDown
        BY MessageFields
      <4> QED
        BY <1>1, <4>1, <4>2 DEF Takes
    <3> QED
      BY <1>9, <3>1, <3>2, <3>3
  <2>3. \A m : Has(m, msgs) => \E i : m \in {Have(i), Request(i), Piece(i), TearDown}
    BY <2>1, HasNone, HasOne
  <2> QED
    BY <1>6, <2>1, <2>2, <2>3
<1> QED
  BY <1>3, <1>4, <1>5, <1>7, <1>8, <1>9 DEF Kind

LEMMA ChokedIsToldStep ==
  ASSUME TypeOK, NEW p \in Peers, StepOf(p), Answerable(p), BitfieldFirst(p),
         ChokedIsTold(p), ChokedIsTold(Other(p))
  PROVE  ChokedIsTold(p)' /\ ChokedIsTold(Other(p))'
<1> DEFINE q == Other(p)
<1>1. /\ q \in Peers /\ q # p /\ Other(q) = p
      /\ net[p] \in Seq(Messages) /\ net[q] \in Seq(Messages)
      /\ eq[p] \in Seq(Events) /\ eq[q] \in Seq(Events)
      /\ Choke # Unchoke /\ unchoked[p] \in BOOLEAN
  BY OtherEnd, QueueFacts, MessageFields DEF TypeOK
\* The other end only sees what p sends, and p's books.
<1>2. ASSUME NEW msgs \in Seq(Messages), eq'[q] = eq[q], net'[q] = net[q] \o msgs, pc'[q] = pc[q],
             unchoked'[q] = unchoked[q],
             peerChoke'[p] # "Unchoked" =>
               msgs = <<Choke>> \/ (~Has(Unchoke, msgs) /\ peerChoke[p] # "Unchoked")
      PROVE  ChokedIsTold(q)'
  <2> SUFFICES ASSUME pc[q] \notin Over, peerChoke'[p] # "Unchoked"
               PROVE  /\ unchoked[q] => Has(Choke, eq[q]) \/ Has(Choke, net'[q])
                      /\ Rechoked(eq[q]) \/ Has(Choke, net'[q])
                      /\ Rechoked(net'[q])
    BY <1>1, <1>2 DEF ChokedIsTold
  <2>1. Has(Choke, net'[q]) <=> Has(Choke, net[q]) \/ Has(Choke, msgs)
    BY <1>1, <1>2, HasConcat
  <2>2. CASE msgs = <<Choke>>
    <3>1. Has(Choke, msgs) /\ ~Has(Unchoke, msgs)
      BY <1>1, <2>2, HasOne
    <3>2. Rechoked(net'[q])
      BY <1>1, <1>2, <3>1, RechokedQueue
    <3> QED
      BY <2>1, <3>1, <3>2
  <2>3. CASE ~Has(Unchoke, msgs) /\ peerChoke[p] # "Unchoked"
    <3>1. /\ unchoked[q] => Has(Choke, eq[q]) \/ Has(Choke, net[q])
          /\ Rechoked(eq[q]) \/ Has(Choke, net[q])
          /\ Rechoked(net[q])
      BY <1>1, <2>3 DEF ChokedIsTold
    <3>2. Rechoked(net'[q])
      BY <1>1, <1>2, <2>3, <3>1, RechokedQueue
    <3> QED
      BY <2>1, <3>1, <3>2
  <2> QED
    BY <1>2, <2>2, <2>3
<1>3. CASE SendBitfield(p)
  <2> DEFINE t == <<Bitfield(Owned(p))>>
  <2>1. /\ eq'[p] = eq[p] /\ eq'[q] = eq[q] /\ net'[p] = net[p] /\ net'[q] = net[q] \o t
        /\ pc[p] = "send" /\ pc'[q] = pc[q] /\ UNCHANGED chokes
    BY <1>3, SendBitfieldDoes DEF Queues, Goes
  <2>2. t \in Seq(Messages)
    <3>1. Owned(p) \in SUBSET Pieces
      BY DEF Owned, OwnedIn, TypeOK
    <3> QED
      BY <3>1, ShortQueues DEF Messages
  <2>3. ~Has(Unchoke, t)
    BY HasOne, MessageFields
  <2> HIDE DEF t
  <2>4. ChokedIsTold(q)'
    BY <1>2, <2>1, <2>2, <2>3 DEF chokes
  <2>5. ChokedIsTold(p)'
    BY <1>1, <2>1 DEF ChokedIsTold, chokes, Over
  <2> QED
    BY <2>4, <2>5
<1>4. CASE ReceiveBitfield(p)
  <2>1. /\ pc[p] = "recv" /\ pc'[q] = pc[q]
        /\ net[p] # <<>> /\ net'[p] = Tail(net[p]) /\ net'[q] = net[q] /\ eq' = eq /\ UNCHANGED chokes
    BY <1>4, ReceiveBitfieldDoes DEF Goes
  <2>2. PICK P \in SUBSET Pieces : Head(net[p]) = Bitfield(P)
    BY <2>1 DEF BitfieldFirst, Setting
  <2>3. /\ Has(Choke, net'[p]) <=> Has(Choke, net[p])
        /\ Rechoked(net[p]) => Rechoked(net'[p])
    BY <1>1, <2>1, <2>2, HasTail, RechokedQueue, MessageFields
  <2>4. ChokedIsTold(p)'
    BY <1>1, <2>1, <2>3 DEF ChokedIsTold, chokes, Over
  <2>5. ChokedIsTold(q)'
    BY <1>1, <2>1 DEF ChokedIsTold, chokes
  <2> QED
    BY <2>4, <2>5
<1>5. CASE Scan(p)
  <2> DEFINE e == Head(net[p])
             t == <<e>>
  <2>1. /\ net[p] # <<>> /\ net'[p] = Tail(net[p]) /\ net'[q] = net[q] /\ pc' = pc
        /\ eq'[p] = eq[p] \o t /\ eq'[q] = eq[q] /\ UNCHANGED chokes
        /\ e \in Events
        /\ \A m : Has(m, net[p]) <=> m = e \/ Has(m, net'[p])
        /\ \A m : Has(m, eq'[p]) <=> Has(m, eq[p]) \/ m = e
    BY <1>5, ScanDoes, ScanHolds
  <2>2. t \in Seq(Events) /\ \A m : Has(m, t) <=> m = e
    BY <2>1, ShortQueues, HasOne
  <2> HIDE DEF e, t
  <2>3. ASSUME pc[p] \notin Over, peerChoke[q] # "Unchoked"
        PROVE  /\ unchoked[p] => Has(Choke, eq'[p]) \/ Has(Choke, net'[p])
               /\ Rechoked(eq'[p]) \/ Has(Choke, net'[p])
               /\ Rechoked(net'[p])
    <3>1. /\ unchoked[p] => Has(Choke, eq[p]) \/ Has(Choke, net[p])
          /\ Rechoked(eq[p]) \/ Has(Choke, net[p])
          /\ Rechoked(net[p])
      BY <2>3 DEF ChokedIsTold
    <3>2. Rechoked(net'[p]) /\ (e = Unchoke => Has(Choke, net'[p]))
      BY <1>1, <2>1, <3>1, RechokedQueue DEF e
    <3>3. ASSUME ~Has(Choke, net'[p]) PROVE Rechoked(eq'[p])
      <4>1. ~Has(Unchoke, t)
        BY <2>2, <3>2, <3>3
      <4>2. Rechoked(t)
        BY <2>2, <4>1, RechokedQueue
      <4>3. Rechoked(eq[p]) \/ Has(Choke, t)
        BY <2>1, <2>2, <3>1, <3>3
      <4> QED
        BY <1>1, <2>1, <2>2, <4>2, <4>3, RechokedQueue
    <3> QED
      BY <2>1, <3>1, <3>2, <3>3
  <2>4. ChokedIsTold(p)'
    BY <2>1, <2>3 DEF ChokedIsTold, chokes
  <2>5. ChokedIsTold(q)'
    BY <1>1, <2>1 DEF ChokedIsTold, chokes
  <2> QED
    BY <2>4, <2>5
<1>6. CASE Effect(p)
  <2>1. PICK h \in Seq(Events), ev \in Seq(Locals), msgs \in Seq(Messages) :
             Acts(p, h, ev, msgs) /\ Kind(p, h, ev, msgs)
    BY <1>6 DEF Effect
  <2>2. /\ eq'[p] = h \o ev /\ eq'[q] = eq[q] /\ net'[q] = net[q] \o msgs /\ net'[p] = net[p]
        /\ pc'[q] = pc[q]
        /\ h = eq[p] \/ (eq[p] # <<>> /\ h = Tail(eq[p]))
        /\ h \in Seq(Events) /\ ev \in Seq(Events)
    BY <2>1, SmallerSet, LocalsAreEvents DEF Acts, Queues
  <2>3. /\ unchoked'[q] = unchoked[q] /\ peerChoke'[q] = peerChoke[q]
        /\ pc[p] \notin Over /\ unchoked'[p] =>
             (unchoked[p] /\ ~Takes(p, h, Choke)) \/ Takes(p, h, Unchoke)
        /\ peerChoke'[p] # "Unchoked" =>
             msgs = <<Choke>> \/ (~Has(Unchoke, msgs) /\ peerChoke[p] # "Unchoked")
        /\ pc'[p] \notin Over => pc[p] \notin Over
    BY <2>1, ChokeMoves, Departures
  <2>4. ChokedIsTold(q)'
    BY <1>2, <2>1, <2>2, <2>3
  <2>5. ~Has(Choke, ev) /\ ~Has(Unchoke, ev)
    BY <2>1, HasMember, LocalsAreEvents, MessageFields DEF LocalTypes
  <2>6. ASSUME pc[p] \notin Over, peerChoke[q] # "Unchoked"
        PROVE  /\ unchoked'[p] => Has(Choke, eq'[p]) \/ Has(Choke, net[p])
               /\ Rechoked(eq'[p]) \/ Has(Choke, net[p])
               /\ Rechoked(net[p])
    <3>1. /\ unchoked[p] => Has(Choke, eq[p]) \/ Has(Choke, net[p])
          /\ Rechoked(eq[p]) \/ Has(Choke, net[p])
          /\ Rechoked(net[p])
      BY <2>6 DEF ChokedIsTold
    <3>2. Rechoked(eq[p]) => Rechoked(h)
      BY <1>1, <2>2, RechokedQueue
    <3>3. Rechoked(h) => Rechoked(eq'[p])
      BY <2>2, <2>5, RechokedQueue
    <3>4. Has(Choke, eq'[p]) <=> Has(Choke, h)
      BY <2>1, <2>5, ActsHold
    <3>5. ASSUME Takes(p, h, Unchoke), Rechoked(eq[p]) PROVE Has(Choke, h)
      BY <1>1, <3>5, RechokedQueue DEF Takes
    <3>6. ASSUME ~Takes(p, h, Choke), Has(Choke, eq[p]) PROVE Has(Choke, h)
      <4>1. CASE h = eq[p]
        BY <3>6, <4>1
      <4>2. CASE eq[p] # <<>> /\ h = Tail(eq[p])
        <5>1. Has(Choke, eq[p]) <=> Choke = Head(eq[p]) \/ Has(Choke, h)
          BY <1>1, <4>2, HasTail
        <5>2. Head(eq[p]) \in Events
          BY <1>1, <4>2, HasTail
        <5> QED
          BY <3>6, <4>2, <5>1, <5>2 DEF Takes
      <4> QED
        BY <2>2, <4>1, <4>2
    <3> QED
      BY <2>3, <2>6, <3>1, <3>2, <3>3, <3>4, <3>5, <3>6
  <2>7. ChokedIsTold(p)'
    BY <2>2, <2>3, <2>6 DEF ChokedIsTold
  <2> QED
    BY <2>4, <2>7
<1> QED
  BY <1>3, <1>4, <1>5, <1>6, StepKinds

-----------------------------------------------------------------------------
(***************************************************************************)
(* A complete session in its loop has something to announce.               *)
(***************************************************************************)
Looping == {"greet", "loop", "have"}

LEMMA LoopMoves ==
  ASSUME TypeOK, NEW p \in Peers, NEW h, NEW ev, NEW msgs, Acts(p, h, ev, msgs), Kind(p, h, ev, msgs),
         pc'[p] \in Looping
  PROVE  /\ \A i : ~Has(Have(i), msgs)
         /\ \/ pc[p] \in Looping /\ known' = known
            \/ ~Done(p)'
<1>1. \A i : Has(Have(i), msgs) => Announces(p, h, ev, msgs)
  BY Spoken
<1>2. ~Announces(p, h, ev, msgs)
  BY DEF Announces, From, Looping
<1>3. CASE Quiet(p, h, ev, msgs)
  <2>1. UNCHANGED <<own, known>>
    BY <1>3 DEF Quiet, tables
  <2>2. Done(p)' <=> Done(p)
    BY <2>1 DEF Done, OwnsAll, KnowsAll
  <2>3. pc[p] \in Looping \/ (pc[p] = "bcast" /\ ~Done(p))
    BY <1>3 DEF Quiet, From, Looping
  <2> QED
    BY <1>1, <1>2, <2>1, <2>2, <2>3
<1>4. CASE Learns(p, h, ev, msgs)
  BY <1>1, <1>2, <1>4 DEF Learns, From, Looping
<1>5. CASE ~Quiet(p, h, ev, msgs) /\ ~Learns(p, h, ev, msgs)
  BY <1>1, <1>2, <1>5 DEF Kind, Chats, IsUnchoked, Serves, Gets, Parts, Elsewhere, From, Looping, tables
<1> QED
  BY <1>3, <1>4, <1>5

LEMMA LoopHasNewsStep ==
  ASSUME TypeOK, TypeOK', NEW p \in Peers, StepOf(p), Answerable(p), BitfieldFirst(p),
         Truthful(Other(p)), LoopHasNews(p), LoopHasNews(Other(p))
  PROVE  LoopHasNews(p)' /\ LoopHasNews(Other(p))'
<1> DEFINE q == Other(p)
<1>1. /\ q \in Peers /\ q # p /\ Other(q) = p
      /\ net[p] \in Seq(Messages) /\ net[q] \in Seq(Messages)
  BY OtherEnd, QueueFacts
<1>2. /\ own'[q] = own[q] /\ known'[q] = known[q] /\ Owned(p) \subseteq Owned(p)'
      /\ Owned(p)' \subseteq Pieces
  BY TablesGrow DEF TypeOK, Owned, OwnedIn
\* What p hears takes nothing back from what the other end has announced.
<1>3. ASSUME \A i \in Pieces : Announced(q, i)' => Announced(q, i), pc'[q] = pc[q]
      PROVE  LoopHasNews(q)'
  <2>1. Done(q)' <=> Done(q)
    BY <1>2 DEF Done, OwnsAll, KnowsAll
  <2> QED
    BY <1>3, <2>1 DEF LoopHasNews
\* What p says: if nothing of a piece, then p is complete already, or a piece is new.
<1>4. ASSUME \/ pc'[p] \notin Looping \/ ~Done(p)'
             \/ /\ pc[p] \in Looping /\ known'[p] = known[p]
                /\ \A i \in Pieces : Announced(p, i)' => Announced(p, i)
      PROVE  LoopHasNews(p)'
  <2> SUFFICES ASSUME pc'[p] \in Looping, Done(p)', pc[p] \in Looping, known'[p] = known[p],
                      \A i \in Pieces : Announced(p, i)' => Announced(p, i)
               PROVE  \E i \in Pieces : ~Announced(p, i)'
    BY <1>4 DEF LoopHasNews, Looping
  <2>1. KnowsAll(p)
    BY DEF Done, KnowsAll
  <2>2. CASE OwnsAll(p)
    BY <2>1, <2>2 DEF LoopHasNews, Looping, Done
  <2>3. CASE ~OwnsAll(p)
    <3>1. PICK i \in Pieces : i \notin Owned(p)
      <4>1. Owned(p) \subseteq Pieces
        BY DEF TypeOK, Owned, OwnedIn
      <4> QED
        BY <2>3, <4>1 DEF OwnsAll, Owned
    <3>2. ~Announced(p, i)
      BY <1>1, <3>1 DEF Announced, Truthful
    <3> QED
      BY <3>2
  <2> QED
    BY <2>2, <2>3
<1>5. CASE SendBitfield(p)
  <2>1. /\ eq'[p] = eq[p] /\ net'[p] = net[p] /\ known' = known
        /\ pc'[p] = "recv" /\ pc'[q] = pc[q]
    BY <1>5, SendBitfieldDoes DEF Queues, Goes, tables
  <2>2. \A i \in Pieces : Announced(q, i)' => Announced(q, i)
    BY <1>1, <2>1 DEF Announced
  <2> QED
    BY <1>3, <1>4, <2>1, <2>2 DEF Looping
<1>6. CASE ReceiveBitfield(p)
  <2>1. /\ pc[p] = "recv" /\ pc'[q] = pc[q] /\ pc'[p] = IF Done(p)' THEN "greetDone" ELSE "greet"
        /\ net[p] # <<>> /\ net'[p] = Tail(net[p]) /\ known'[p] = Head(net[p]).owned /\ eq' = eq
    BY <1>6, ReceiveBitfieldDoes DEF Goes
  <2>2. PICK P \in SUBSET Pieces : Head(net[p]) = Bitfield(P)
    BY <2>1 DEF BitfieldFirst, Setting
  <2>3. known'[p] = P /\ \A m : Has(m, net[p]) <=> m = Bitfield(P) \/ Has(m, net'[p])
    BY <1>1, <2>1, <2>2, HasTail, MessageFields
  <2>4. \A i \in Pieces : Announced(q, i)' => Announced(q, i)
    BY <1>1, <2>1, <2>3 DEF Announced
  <2>5. LoopHasNews(q)'
    BY <1>3, <2>1, <2>4
  <2>6. pc'[p] \notin Looping \/ ~Done(p)'
    BY <2>1 DEF Looping
  <2>7. LoopHasNews(p)'
    BY <1>4, <2>6
  <2> QED
    BY <2>5, <2>7
<1>7. CASE Scan(p)
  <2>1. /\ net'[q] = net[q] /\ pc' = pc /\ eq'[q] = eq[q] /\ known' = known
        /\ Head(net[p]) \in Events
        /\ \A m : Has(m, net[p]) <=> m = Head(net[p]) \/ Has(m, net'[p])
        /\ \A m : Has(m, eq'[p]) <=> Has(m, eq[p]) \/ m = Head(net[p])
    BY <1>7, ScanDoes, ScanHolds DEF tables
  <2>2. \A i \in Pieces : Announced(q, i)' => Announced(q, i)
    BY <1>1, <2>1 DEF Announced
  <2>3. \A i \in Pieces : Announced(p, i)' => Announced(p, i)
    BY <1>1, <2>1 DEF Announced
  <2>4. LoopHasNews(q)'
    BY <1>3, <2>1, <2>2
  <2>5. LoopHasNews(p)'
    BY <1>4, <2>1, <2>3
  <2> QED
    BY <2>4, <2>5
<1>8. CASE Effect(p)
  <2>1. PICK h \in Seq(Events), ev \in Seq(Locals), msgs \in Seq(Messages) :
             Acts(p, h, ev, msgs) /\ Kind(p, h, ev, msgs)
    BY <1>8 DEF Effect
  <2>2. /\ eq'[q] = eq[q] /\ net'[p] = net[p] /\ pc'[q] = pc[q]
        /\ \A m : Has(m, eq'[p]) <=> Has(m, h) \/ Has(m, ev)
        /\ \A m : Has(m, net'[q]) <=> Has(m, net[q]) \/ Has(m, msgs)
        /\ \A m : Has(m, h) => Has(m, eq[p])
        /\ \A m : Has(m, ev) => m \in Locals
        /\ \A e : Takes(p, h, e) => \A m : Has(m, eq[p]) <=> m = e \/ Has(m, h)
    BY <2>1, ActsHold
  <2>3. \A P : ~Has(Bitfield(P), msgs)
    BY <2>1, Spoken
  <2>4. \A i : Has(Have(i), eq'[p]) => Has(Have(i), eq[p])
    <3>1. \A i : ~Has(Have(i), ev)
      BY <2>2, LocalsAreEvents, MessageFields DEF LocalTypes
    <3> QED
      BY <2>2, <3>1
  <2>5. \A i \in Pieces : i \in known'[p] => i \in known[p] \/ Has(Have(i), eq[p])
    <3>1. CASE Learns(p, h, ev, msgs)
      <4>1. PICK i \in Pieces : Takes(p, h, Have(i)) /\ known'[p] = known[p] \cup {i}
        BY <3>1 DEF Learns
      <4> QED
        BY <2>2, <4>1
    <3>2. CASE known' = known
      BY <3>2
    <3> QED
      BY <2>1, <3>1, <3>2
      DEF Kind, Quiet, Chats, IsUnchoked, Announces, Serves, Gets, Parts, Elsewhere, tables
  <2>6. \A i \in Pieces : Announced(q, i)' => Announced(q, i)
    BY <1>1, <2>2, <2>4, <2>5 DEF Announced
  <2>7. LoopHasNews(q)'
    BY <1>3, <2>2, <2>6
  <2>8. CASE pc'[p] \notin Looping
    BY <1>4, <2>7, <2>8
  <2>9. CASE pc'[p] \in Looping
    <3>1. /\ \A i : ~Has(Have(i), msgs)
          /\ \/ pc[p] \in Looping /\ known' = known
             \/ ~Done(p)'
      BY <2>1, <2>9, LoopMoves
    <3>2. \A i \in Pieces : Announced(p, i)' => Announced(p, i)
      BY <1>1, <1>2, <2>2, <2>3, <3>1 DEF Announced
    <3>3. LoopHasNews(p)'
      BY <1>4, <3>1, <3>2
    <3> QED
      BY <2>7, <3>3
  <2> QED
    BY <2>8, <2>9
<1> QED
  BY <1>5, <1>6, <1>7, <1>8, StepKinds

-----------------------------------------------------------------------------
(***************************************************************************)
(* With a sleep that covers the broadcasts: no piece is forgotten.         *)
(***************************************************************************)
LEMMA NewsMoves ==
  ASSUME TypeOK, NEW p \in Peers, NEW h, NEW ev, NEW msgs, Acts(p, h, ev, msgs), Kind(p, h, ev, msgs),
         NEW i \in Pieces
  PROVE  /\ Takes(p, h, BcastHave(i)) => Has(Have(i), msgs) \/ pc[p] \in TornDown
         /\ Takes(p, h, Have(i)) => i \in known'[p] \/ pc[p] \in Over
         /\ i \in unbcast[p] => i \in unbcast'[p] \/ Has(BcastHave(i), ev) \/ pc[p] = "send"
         /\ i \in Owned(p)' => i \in Owned(p) \/ i \in unbcast'[p] \/ Has(BcastHave(i), ev)
<1>1. /\ \A e : Takes(p, h, e) => Head(eq[p]) = e /\ h # eq[p]
      /\ eq[p] \in Seq(Events) /\ own[p] \in [Pieces -> Status]
  BY QueueFacts, TailDiffers DEF Takes, TypeOK
<1>2. CASE Quiet(p, h, ev, msgs)
  <2>1. UNCHANGED tables
    BY <1>2 DEF Quiet
  <2>2. Owned(p)' = Owned(p)
    BY <2>1 DEF Owned, tables
  <2>3. Takes(p, h, Have(i)) => pc[p] \in Over
    BY <1>1, <1>2, MessageFields DEF Quiet, Takes, From, Over
  <2>4. Takes(p, h, BcastHave(i)) => pc[p] \in TornDown
    BY <1>1, <1>2, MessageFields DEF Quiet, Takes, From, TornDown
  <2> QED
    BY <2>1, <2>2, <2>3, <2>4 DEF tables
<1>3. CASE Announces(p, h, ev, msgs)
  <2>1. PICK j \in Pieces, m \in Seq(Interests) : Takes(p, h, BcastHave(j)) /\ msgs = <<Have(j)>> \o m
    BY <1>3 DEF Announces
  <2>2. <<Have(j)>> \in Seq(Messages) /\ m \in Seq(Messages)
    BY <2>1, SmallerSet, ShortQueues, LocalsAreEvents
  <2>3. \A e : Has(e, msgs) <=> Has(e, <<Have(j)>>) \/ Has(e, m)
    BY <2>1, <2>2, HasConcat
  <2>4. Has(Have(j), msgs)
    BY <2>3, HasOne
  <2>5. Takes(p, h, BcastHave(i)) => i = j
    BY <1>1, <2>1, MessageFields
  <2>6. ~Takes(p, h, Have(i))
    BY <1>1, <2>1, MessageFields
  <2>7. UNCHANGED tables
    BY <1>3 DEF Announces
  <2> QED
    BY <2>4, <2>5, <2>6, <2>7 DEF tables, Owned
<1>4. CASE Gets(p, h, ev, msgs)
  <2>1. PICK j \in Pieces : /\ Takes(p, h, Piece(j)) /\ ev = <<BcastHave(j)>>
                            /\ Asks(p, [own[p] EXCEPT ![j] = "OWNED"], msgs)
    BY <1>4 DEF Gets
  <2> DEFINE tab == [own[p] EXCEPT ![j] = "OWNED"]
  <2>2. /\ tab \in [Pieces -> Status] /\ (\A k \in Pieces : k # j => tab[k] = own[p][k])
        /\ Asks(p, tab, msgs)
    BY <1>1, <2>1 DEF Status
  <2> HIDE DEF tab
  <2>3. (\A k \in Pieces : own'[p][k] = "OWNED" <=> tab[k] = "OWNED") /\ DOMAIN own'[p] = Pieces
    BY <2>2, AsksDoes
  <2>4. i \in Owned(p)' => i \in Owned(p) \/ i = j
    BY <1>1, <2>2, <2>3 DEF Owned, OwnedIn
  <2>5. Has(BcastHave(j), ev)
    BY <2>1, HasOne
  <2>6. ~Takes(p, h, Have(i)) /\ ~Takes(p, h, BcastHave(i))
    BY <1>1, <2>1, MessageFields
  <2>7. unbcast' = unbcast
    BY <1>4 DEF Gets
  <2> QED
    BY <2>4, <2>5, <2>6, <2>7
<1>5. CASE IsUnchoked(p, h, ev, msgs)
  <2>1. Asks(p, own[p], msgs) /\ Takes(p, h, Unchoke) /\ unbcast' = unbcast
    BY <1>5 DEF IsUnchoked
  <2>2. (\A k \in Pieces : own'[p][k] = "OWNED" <=> own[p][k] = "OWNED") /\ DOMAIN own'[p] = Pieces
    BY <1>1, <2>1, AsksDoes
  <2>3. i \in Owned(p)' => i \in Owned(p)
    BY <1>1, <2>2 DEF Owned, OwnedIn
  <2>4. ~Takes(p, h, Have(i)) /\ ~Takes(p, h, BcastHave(i))
    BY <1>1, <2>1, MessageFields
  <2> QED
    BY <2>1, <2>3, <2>4
<1>6. CASE Learns(p, h, ev, msgs)
  <2>1. PICK j \in Pieces : Takes(p, h, Have(j)) /\ known'[p] = known[p] \cup {j}
    BY <1>6 DEF Learns
  <2>2. /\ Takes(p, h, Have(i)) => i = j
        /\ ~Takes(p, h, BcastHave(i))
    BY <1>1, <2>1, MessageFields
  <2>3. UNCHANGED <<own, unbcast>>
    BY <1>6 DEF Learns
  <2> QED
    BY <2>1, <2>2, <2>3 DEF Owned
<1>7. CASE Elsewhere(p, h, ev, msgs)
  <2>1. ~Takes(p, h, Have(i)) /\ ~Takes(p, h, BcastHave(i))
    BY <1>1, <1>7 DEF Elsewhere
  <2>2. PICK j \in Pieces :
         \/ /\ own[p][j] = "ABSENT" /\ own'[p] = [own[p] EXCEPT ![j] = "REQUESTED"]
            /\ ev = <<>> /\ UNCHANGED unbcast
         \/ /\ own[p][j] = "REQUESTED" /\ j \notin asked[p]
            /\ own'[p] = [own[p] EXCEPT ![j] = "OWNED"]
            /\ ev = <<>> /\ unbcast'[p] = unbcast[p] \cup {j}
         \/ /\ j \in unbcast[p] /\ unbcast'[p] = unbcast[p] \ {j} /\ UNCHANGED own
            /\ IF pc[p] = "send" THEN ev = <<>> ELSE ev = <<BcastHave(j)>>
    BY <1>7 DEF Elsewhere
  <2>3. i \in Owned(p)' => i \in Owned(p) \/ i \in unbcast'[p]
    BY <1>1, <2>2 DEF Owned, OwnedIn
  <2>4. i \in unbcast[p] => i \in unbcast'[p] \/ Has(BcastHave(i), ev) \/ pc[p] = "send"
    <3>1. pc[p] # "send" /\ ev = <<BcastHave(j)>> => Has(BcastHave(j), ev)
      BY HasOne
    <3> QED
      BY <2>2, <3>1
  <2> QED
    BY <2>1, <2>3, <2>4
<1>8. CASE Chats(p, ev, msgs) /\ h = Tail(eq[p])
  <2>1. UNCHANGED tables
    BY <1>8 DEF Chats
  <2>2. ~Takes(p, h, Have(i)) /\ ~Takes(p, h, BcastHave(i))
    BY <1>1, <1>8, MessageFields DEF Chats, ChatTypes
  <2> QED
    BY <2>1, <2>2 DEF tables, Owned
<1>9. CASE Serves(p, h, ev, msgs) \/ Parts(p, h, ev, msgs)
  <2>1. UNCHANGED tables
    BY <1>9 DEF Serves, Parts
  <2>2. (\E j : Takes(p, h, Request(j))) \/ Takes(p, h, TearDown) \/ eq[p] = <<>>
    BY <1>9 DEF Serves, Parts
  <2>3. ~Takes(p, h, Have(i)) /\ ~Takes(p, h, BcastHave(i))
    <3>1. eq[p] = <<>> => \A e : ~Takes(p, h, e)
      BY DEF Takes
    <3> QED
      BY <1>1, <2>2, <3>1, MessageFields
  <2> QED
    BY <2>1, <2>3 DEF tables, Owned
<1> QED
  BY <1>2, <1>3, <1>4, <1>5, <1>6, <1>7, <1>8, <1>9 DEF Kind

\* What an effect leaves of an event.
LEMMA EventStays ==
  ASSUME TypeOK, NEW p \in Peers, NEW h, NEW ev, NEW msgs, Acts(p, h, ev, msgs),
         NEW e, Has(e, eq[p])
  PROVE  Has(e, eq'[p]) \/ Takes(p, h, e)
<1>1. eq[p] \in Seq(Events) /\ (h = eq[p] \/ (eq[p] # <<>> /\ h = Tail(eq[p])))
  BY QueueFacts DEF Acts
<1>2. Has(e, h) => Has(e, eq'[p])
  BY ActsHold
<1>3. e \in Events
  BY <1>1, HasMember
<1>4. eq[p] # <<>> => (Has(e, eq[p]) <=> e = Head(eq[p]) \/ Has(e, Tail(eq[p])))
  BY <1>1, HasTail
<1> QED
  BY <1>1, <1>2, <1>3, <1>4 DEF Takes

LEMMA NothingForgottenStep ==
  ASSUME TypeOK, TypeOK', NEW p \in Peers, StepOf(p), Answerable(p), BitfieldFirst(p),
         AsksForKnown(p), OverIsDone(p), NothingDropped(p),
         NothingForgotten(p), NothingForgotten(Other(p))
  PROVE  NothingForgotten(p)' /\ NothingForgotten(Other(p))'
<1> DEFINE q == Other(p)
<1>1. /\ q \in Peers /\ q # p /\ Other(q) = p
      /\ net[p] \in Seq(Messages) /\ net[q] \in Seq(Messages)
      /\ Owned(p) \subseteq Pieces /\ Owned(q) \subseteq Pieces /\ Owned(p)' \subseteq Pieces
  BY OtherEnd, QueueFacts DEF TypeOK, Owned, OwnedIn
<1>2. /\ Owned(q)' = Owned(q) /\ unbcast'[q] = unbcast[q] /\ known'[q] = known[q]
      /\ ~ReceiveBitfield(p) => known[p] \subseteq known'[p]
  BY TablesGrow
\* What p has heard stays heard.
<1>3. ASSUME \A i \in Pieces : Announced(q, i) => Announced(q, i)', eq'[q] = eq[q], pc'[q] = pc[q]
      PROVE  NothingForgotten(p)'
  BY <1>1, <1>2, <1>3 DEF NothingForgotten
\* What p has to say is said, or stays to be said.
<1>4. ASSUME \/ pc'[p] = "send"
             \/ \A i \in Owned(p)' : i \in unbcast'[p] \/ Has(BcastHave(i), eq'[p]) \/ Announced(p, i)'
      PROVE  NothingForgotten(q)'
  BY <1>1, <1>4 DEF NothingForgotten
<1>5. CASE SendBitfield(p)
  <2> DEFINE t == <<Bitfield(Owned(p))>>
  <2>1. /\ eq'[p] = eq[p] /\ eq'[q] = eq[q] /\ net'[p] = net[p] /\ net'[q] = net[q] \o t
        /\ pc'[q] = pc[q] /\ known' = known /\ own' = own
    BY <1>5, SendBitfieldDoes DEF Queues, Goes, tables
  <2>2. t \in Seq(Messages) /\ Has(Bitfield(Owned(p)), t)
    <3>1. Owned(p) \in SUBSET Pieces
      BY <1>1
    <3> QED
      BY <3>1, ShortQueues, HasOne DEF Messages
  <2> HIDE DEF t
  <2>3. Has(Bitfield(Owned(p)), net'[q])
    BY <1>1, <2>1, <2>2, HasConcat
  <2>4. Owned(p)' = Owned(p)
    BY <2>1 DEF Owned
  <2>5. \A i \in Owned(p)' : Announced(p, i)'
    BY <1>1, <2>3, <2>4 DEF Announced
  <2>6. \A i \in Pieces : Announced(q, i) => Announced(q, i)'
    BY <1>1, <2>1 DEF Announced
  <2>7. NothingForgotten(p)'
    BY <1>3, <2>1, <2>6
  <2>8. NothingForgotten(q)'
    BY <1>4, <2>5
  <2> QED
    BY <2>7, <2>8
<1>6. CASE ReceiveBitfield(p)
  <2>1. /\ pc[p] = "recv" /\ pc'[q] = pc[q] /\ net'[q] = net[q] /\ own' = own /\ unbcast' = unbcast
        /\ net[p] # <<>> /\ net'[p] = Tail(net[p]) /\ known'[p] = Head(net[p]).owned /\ eq' = eq
    BY <1>6, ReceiveBitfieldDoes DEF Goes
  <2>2. PICK P \in SUBSET Pieces : Head(net[p]) = Bitfield(P)
    BY <2>1 DEF BitfieldFirst, Setting
  <2>3. known'[p] = P /\ \A m : Has(m, net[p]) <=> m = Bitfield(P) \/ Has(m, net'[p])
    BY <1>1, <2>1, <2>2, HasTail, MessageFields
  <2>4. known[p] = {}
    BY <2>1 DEF AsksForKnown, Setting
  <2>5. /\ \A Q : Bitfield(Q) = Bitfield(P) => Q = P
        /\ \A i : Have(i) # Bitfield(P)
    BY MessageFields
  <2>6. \A i \in Pieces : Announced(q, i) => Announced(q, i)'
    BY <1>1, <2>1, <2>3, <2>4, <2>5 DEF Announced
  <2>7. \A i \in Pieces : Announced(p, i) => Announced(p, i)'
    BY <1>2, <2>1 DEF Announced
  <2>8. Owned(p)' = Owned(p) /\ pc[p] # "send"
    BY <2>1 DEF Owned
  <2>9. NothingForgotten(p)'
    BY <1>3, <2>1, <2>6
  <2>10. NothingForgotten(q)'
    BY <1>1, <1>4, <2>1, <2>7, <2>8 DEF NothingForgotten
  <2> QED
    BY <2>9, <2>10
<1>7. CASE Scan(p)
  <2>1. /\ net'[q] = net[q] /\ pc' = pc /\ eq'[q] = eq[q] /\ UNCHANGED tables
        /\ Head(net[p]) \in Events /\ pc[p] # "send"
        /\ \A m : Has(m, net[p]) <=> m = Head(net[p]) \/ Has(m, net'[p])
        /\ \A m : Has(m, eq'[p]) <=> Has(m, eq[p]) \/ m = Head(net[p])
    BY <1>7, ScanDoes, ScanHolds
  <2>2. \A P : Bitfield(P) # Head(net[p])
    BY <2>1, EventKinds, MessageFields
  <2>3. \A i \in Pieces : Announced(q, i) => Announced(q, i)'
    BY <1>1, <2>1, <2>2 DEF Announced, tables
  <2>4. \A i \in Pieces : Announced(p, i) => Announced(p, i)'
    BY <2>1 DEF Announced, tables
  <2>5. Owned(p)' = Owned(p) /\ unbcast' = unbcast
    BY <2>1 DEF Owned, tables
  <2>6. NothingForgotten(p)'
    BY <1>3, <2>1, <2>3
  <2>7. NothingForgotten(q)'
    BY <1>1, <1>4, <2>1, <2>4, <2>5 DEF NothingForgotten
  <2> QED
    BY <2>6, <2>7
<1>8. CASE Effect(p)
  <2>1. PICK h \in Seq(Events), ev \in Seq(Locals), msgs \in Seq(Messages) :
             Acts(p, h, ev, msgs) /\ Kind(p, h, ev, msgs)
    BY <1>8 DEF Effect
  <2>2. /\ eq'[q] = eq[q] /\ net'[p] = net[p] /\ pc'[q] = pc[q]
        /\ \A m : Has(m, eq'[p]) <=> Has(m, h) \/ Has(m, ev)
        /\ \A m : Has(m, net'[q]) <=> Has(m, net[q]) \/ Has(m, msgs)
    BY <2>1, ActsHold
  <2>3. \A e : Has(e, eq[p]) => Has(e, eq'[p]) \/ Takes(p, h, e)
    BY <2>1, EventStays
  <2>4. \A i \in Pieces :
          /\ Takes(p, h, BcastHave(i)) => Has(Have(i), msgs) \/ pc[p] \in TornDown
          /\ Takes(p, h, Have(i)) => i \in known'[p] \/ pc[p] \in Over
          /\ i \in unbcast[p] => i \in unbcast'[p] \/ Has(BcastHave(i), ev) \/ pc[p] = "send"
          /\ i \in Owned(p)' => i \in Owned(p) \/ i \in unbcast'[p] \/ Has(BcastHave(i), ev)
    BY <2>1, NewsMoves
  <2>5. ~ReceiveBitfield(p) \/ (pc[p] = "recv" /\ known[p] = {})
    BY DEF ReceiveBitfield, At, AsksForKnown, Setting
  <2>6. ASSUME NEW i \in Pieces, Announced(q, i) PROVE Announced(q, i)'
    <3>1. i \in known[p] => i \in known'[p]
      BY <1>2, <2>5
    <3>2. Has(Have(i), eq[p]) => Has(Have(i), eq'[p]) \/ i \in known'[p]
      <4>1. pc[p] \in Over => i \in known[p]
        BY DEF OverIsDone, Done, KnowsAll
      <4> QED
        BY <2>3, <2>4, <3>1, <4>1
    <3> QED
      BY <1>1, <2>2, <2>6, <3>1, <3>2 DEF Announced
  <2>7. NothingForgotten(p)'
    BY <1>3, <2>2, <2>6
  <2>8. pc[p] = "send" => pc'[p] = "send"
    BY <2>1, Spoken DEF Setting
  <2>9. \A i \in Pieces : Announced(p, i) => Announced(p, i)'
    BY <1>2, <2>2 DEF Announced
  <2>10. ASSUME NEW i \in Owned(p)', pc[p] # "send"
         PROVE  i \in unbcast'[p] \/ Has(BcastHave(i), eq'[p]) \/ Announced(p, i)'
    <3>1. CASE i \in unbcast[p]
      BY <1>1, <2>2, <2>4, <2>10, <3>1
    <3>2. CASE Announced(p, i)
      BY <1>1, <2>9, <3>2
    <3>3. CASE Has(BcastHave(i), eq[p])
      <4>1. CASE Has(Have(i), msgs)
        BY <1>1, <2>2, <4>1 DEF Announced
      <4>2. CASE pc[p] \in TornDown
        <5>1. i \in known[q]
          BY <1>1, <3>3, <4>2 DEF NothingDropped, KnowsAll
        <5> QED
          BY <1>2, <5>1 DEF Announced
      <4> QED
        BY <1>1, <2>3, <2>4, <3>3, <4>1, <4>2
    <3>4. CASE i \notin Owned(p)
      BY <1>1, <2>2, <2>4, <3>4
    <3> QED
      BY <1>1, <2>10, <3>1, <3>2, <3>3, <3>4 DEF NothingForgotten
  <2>11. NothingForgotten(q)'
    BY <1>4, <2>8, <2>10
  <2> QED
    BY <2>7, <2>11
<1> QED
  BY <1>5, <1>6, <1>7, <1>8, StepKinds

\* No broadcast comes to an end that drains, or has drained, its queue.
Drained == {"drain"} \cup TornDown

LEMMA DrainMoves ==
  ASSUME SleepCoversBroadcasts, TypeOK, NEW p \in Peers, NEW h, NEW ev, NEW msgs,
         Acts(p, h, ev, msgs), Kind(p, h, ev, msgs), OverIsDone(p), pc'[p] \in Drained,
         pc[p] \in Drained => unbcast[p] = {}
  PROVE  /\ unbcast'[p] = {}
         /\ \A i : ~Has(BcastHave(i), ev)
         /\ \/ pc[p] \in TornDown
            \/ pc'[p] \notin TornDown
            \/ Takes(p, h, TearDown)
            \/ h = <<>> /\ ev = <<>>
<1>1. \A i : Has(BcastHave(i), ev) => Gets(p, h, ev, msgs) \/ Elsewhere(p, h, ev, msgs)
  BY Spoken
<1>2. CASE Quiet(p, h, ev, msgs)
  <2>1. UNCHANGED unbcast
    BY <1>2 DEF Quiet, tables
  <2>2. \A i : ~Has(BcastHave(i), ev)
    BY <1>2, HasMember, MessageFields DEF Quiet, Timers
  <2>3. pc[p] \in Drained \/ unbcast[p] = {}
    BY <1>2 DEF Quiet, From, Drained, TornDown
  <2>4. pc[p] \in TornDown \/ pc'[p] \notin TornDown
    BY <1>2 DEF Quiet, From, TornDown
  <2> QED
    BY <2>1, <2>2, <2>3, <2>4
<1>3. CASE Elsewhere(p, h, ev, msgs)
  <2>1. pc'[p] = pc[p] /\ unbcast[p] = {}
    BY <1>3 DEF Elsewhere
  <2>2. \A i \in Pieces : own[p][i] = "OWNED"
    BY <2>1 DEF Drained, TornDown, Over, OverIsDone, Done, OwnsAll, OwnedIn
  <2> QED
    BY <1>3, <2>1, <2>2 DEF Elsewhere
<1>4. CASE Announces(p, h, ev, msgs) \/ Parts(p, h, ev, msgs)
  <2>1. UNCHANGED unbcast /\ pc[p] = "drain" /\ ev = <<>>
    BY <1>4 DEF Announces, Parts, From, Drained, TornDown, tables
  <2>2. \A i : ~Has(BcastHave(i), ev)
    BY <2>1, HasNone
  <2>3. pc'[p] \in TornDown => Takes(p, h, TearDown) \/ h = <<>>
    BY <1>4, <2>1 DEF Announces, Parts, From, TornDown
  <2> QED
    BY <2>1, <2>2, <2>3 DEF Drained
<1>5. ~Learns(p, h, ev, msgs) /\ ~IsUnchoked(p, h, ev, msgs) /\ ~Serves(p, h, ev, msgs)
  BY DEF Learns, IsUnchoked, Serves, From, Drained, TornDown
<1>6. ~Gets(p, h, ev, msgs) /\ ~Chats(p, ev, msgs)
  BY DEF Gets, Chats, From, Drained, TornDown
<1> QED
  BY <1>2, <1>3, <1>4, <1>5, <1>6 DEF Kind

LEMMA NothingDroppedStep ==
  ASSUME SleepCoversBroadcasts, TypeOK, TypeOK', NEW p \in Peers, StepOf(p), Answerable(p),
         BitfieldFirst(p), AsksForKnown(p), OverIsDone(p), OverIsDone(Other(p)), TearDownLast(p),
         NothingDropped(p), NothingDropped(Other(p))
  PROVE  NothingDropped(p)' /\ NothingDropped(Other(p))'
<1> DEFINE q == Other(p)
<1>1. q \in Peers /\ q # p /\ Other(q) = p
  BY OtherEnd
<1>2. /\ unbcast'[q] = unbcast[q] /\ known'[q] = known[q]
      /\ ~ReceiveBitfield(p) => known[p] \subseteq known'[p]
  BY TablesGrow
<1>3. KnowsAll(p) => KnowsAll(p)'
  <2>1. known'[p] \subseteq Pieces
    BY DEF TypeOK
  <2>2. ReceiveBitfield(p) => known[p] = {}
    BY DEF ReceiveBitfield, At, AsksForKnown, Setting
  <2> QED
    BY <1>2, <2>1, <2>2 DEF KnowsAll
<1>4. ASSUME pc'[q] = pc[q], eq'[q] = eq[q] PROVE NothingDropped(q)'
  BY <1>1, <1>2, <1>3, <1>4 DEF NothingDropped
<1>5. KnowsAll(q)' <=> KnowsAll(q)
  BY <1>2 DEF KnowsAll
<1>6. CASE SendBitfield(p) \/ ReceiveBitfield(p)
  <2>1. pc'[p] \in {"recv", "greet", "greetDone"} /\ pc'[q] = pc[q] /\ eq'[q] = eq[q]
    BY <1>6, SendBitfieldDoes, ReceiveBitfieldDoes DEF Goes, Queues
  <2>2. NothingDropped(p)'
    BY <2>1 DEF NothingDropped, TornDown
  <2> QED
    BY <1>4, <2>1, <2>2
<1>7. CASE Scan(p)
  <2>1. /\ pc' = pc /\ eq'[q] = eq[q] /\ unbcast' = unbcast
        /\ Head(net[p]).type \notin LocalTypes
        /\ \A m : Has(m, eq'[p]) <=> Has(m, eq[p]) \/ m = Head(net[p])
    BY <1>7, ScanDoes, ScanHolds DEF tables
  <2>2. \A i : BcastHave(i) # Head(net[p])
    BY <2>1, MessageFields DEF LocalTypes
  <2>3. NothingDropped(p)'
    BY <1>5, <2>1, <2>2 DEF NothingDropped
  <2> QED
    BY <1>4, <2>1, <2>3
<1>8. CASE Effect(p)
  <2>1. PICK h \in Seq(Events), ev \in Seq(Locals), msgs \in Seq(Messages) :
             Acts(p, h, ev, msgs) /\ Kind(p, h, ev, msgs)
    BY <1>8 DEF Effect
  <2>2. /\ eq'[q] = eq[q] /\ pc'[q] = pc[q]
        /\ \A m : Has(m, eq'[p]) <=> Has(m, h) \/ Has(m, ev)
        /\ \A m : Has(m, h) => Has(m, eq[p])
        /\ \A e : Takes(p, h, e) => \A m : Has(m, eq[p]) <=> m = e \/ Has(m, h)
    BY <2>1, ActsHold
  <2>3. CASE pc'[p] \in Drained
    <3>1. pc[p] \in Drained => unbcast[p] = {}
      BY DEF NothingDropped, Drained
    <3>2. /\ unbcast'[p] = {}
          /\ \A i : ~Has(BcastHave(i), ev)
          /\ \/ pc[p] \in TornDown
             \/ pc'[p] \notin TornDown
             \/ Takes(p, h, TearDown)
             \/ h = <<>> /\ ev = <<>>
      BY <2>1, <2>3, <3>1, DrainMoves
\* It is enough to look at the queue of an end that has sent its TearDown.
    <3>3. ASSUME pc'[p] \in TornDown => KnowsAll(q) \/ \A i \in Pieces : ~Has(BcastHave(i), eq'[p])
          PROVE  NothingDropped(p)' /\ NothingDropped(q)'
      <4>1. NothingDropped(p)'
        BY <1>5, <3>2, <3>3 DEF NothingDropped
      <4> QED
        BY <1>4, <2>2, <4>1
    <3>4. CASE pc[p] \in TornDown \/ pc'[p] \notin TornDown
      <4>1. \A i : Has(BcastHave(i), eq'[p]) => Has(BcastHave(i), eq[p])
        BY <2>2, <3>2
      <4>2. pc[p] \in TornDown => KnowsAll(q) \/ \A i \in Pieces : ~Has(BcastHave(i), eq[p])
        BY DEF NothingDropped
      <4> QED
        BY <3>3, <3>4, <4>1, <4>2
    <3>5. CASE Takes(p, h, TearDown)
      <4>1. pc[q] \in TornDown
        BY <2>2, <3>5 DEF TearDownLast
      <4>2. KnowsAll(q)
        BY <4>1 DEF OverIsDone, Over, TornDown, Done
      <4> QED
        BY <3>3, <4>2
    <3>6. CASE h = <<>> /\ ev = <<>>
      <4>1. \A i : ~Has(BcastHave(i), eq'[p])
        BY <2>2, <3>6, HasNone
      <4> QED
        BY <3>3, <4>1
    <3> QED
      BY <3>2, <3>4, <3>5, <3>6
  <2>4. CASE pc'[p] \notin Drained
    <3>1. NothingDropped(p)'
      BY <2>4 DEF NothingDropped, Drained
    <3> QED
      BY <1>4, <2>2, <3>1
  <2> QED
    BY <2>3, <2>4
<1> QED
  BY <1>6, <1>7, <1>8, StepKinds

-----------------------------------------------------------------------------
(***************************************************************************)
(* The invariant.                                                          *)
(***************************************************************************)
LEMMA InitIInv ==
  ASSUME Init
  PROVE  IInv /\ CoveredInv
<1>1. TypeOK
  <2>1. own \in [Peers -> [Pieces -> Status]]
    BY DEF Init, Status
  <2>2. <<>> \in Seq(Messages) /\ <<>> \in Seq(Events)
    BY ShortQueues
  <2> QED
    BY <2>1, <2>2 DEF Init, TypeOK, Locations
<1> SUFFICES ASSUME NEW p \in Peers
             PROVE  /\ BitfieldFirst(p) /\ Truthful(p) /\ AsksForKnown(p) /\ OverIsDone(p)
                    /\ \A i \in Pieces : Carried(p, i)
                    /\ TearDownLast(p) /\ ChokedIsTold(p) /\ LoopHasNews(p)
                    /\ NothingForgotten(p) /\ NothingDropped(p)
  BY <1>1 DEF IInv, CoveredInv
<1> DEFINE q == Other(p)
<1>2. /\ q \in Peers
      /\ pc[p] = "send" /\ pc[q] = "send" /\ known[p] = {} /\ asked[p] = {} /\ unbcast[p] = {}
      /\ net[p] = <<>> /\ eq[p] = <<>> /\ net[q] = <<>> /\ eq[q] = <<>> /\ unchoked[p] = FALSE
  BY OtherEnd DEF Init
<1>3. BitfieldFirst(p)
  BY <1>2 DEF BitfieldFirst, Setting
<1>4. Truthful(p) /\ AsksForKnown(p)
  BY <1>2, HasNone DEF Truthful, AsksForKnown
<1>5. OverIsDone(p) /\ LoopHasNews(p) /\ NothingForgotten(p) /\ NothingDropped(p)
  BY <1>2 DEF OverIsDone, LoopHasNews, NothingForgotten, NothingDropped, Over, TornDown
<1>6. ASSUME NEW i \in Pieces PROVE Carried(p, i)
  <2>1. \A m : Single(m, <<>>)
    BY DEF Single
  <2> QED
    BY <1>2, <2>1, HasNone DEF Carried, OneCarrier
<1>7. TearDownLast(p)
  <2>1. EndsIfTearDown(<<>>) /\ LastIfTearDown(<<>>)
    BY DEF EndsIfTearDown, LastIfTearDown
  <2> QED
    BY <1>2, <2>1, HasNone DEF TearDownLast
<1>8. ChokedIsTold(p)
  <2>1. Rechoked(<<>>)
    BY DEF Rechoked
  <2> QED
    BY <1>2, <2>1 DEF ChokedIsTold
<1> QED
  BY <1>3, <1>4, <1>5, <1>6, <1>7, <1>8

LEMMA IInvStep ==
  ASSUME IInv, NEW p \in Peers, StepOf(p)
  PROVE  IInv' /\ Answerable(p)
<1> DEFINE q == Other(p)
<1>1. q \in Peers /\ Other(q) = p /\ Peers = {p, q}
  BY OtherEnd
<1>2. /\ TypeOK
      /\ BitfieldFirst(p) /\ BitfieldFirst(q) /\ Truthful(p) /\ Truthful(q)
      /\ AsksForKnown(p) /\ AsksForKnown(q) /\ OverIsDone(p) /\ OverIsDone(q)
      /\ \A i \in Pieces : Carried(p, i) /\ Carried(q, i)
      /\ TearDownLast(p) /\ TearDownLast(q) /\ ChokedIsTold(p) /\ ChokedIsTold(q)
      /\ LoopHasNews(p) /\ LoopHasNews(q)
  BY <1>1 DEF IInv
<1> HIDE DEF q
<1>3. Answerable(p)
  BY <1>2, ClaimsAnswerable DEF q
<1>4. TypeOK'
  BY <1>2, <1>3, TypesStep
<1>5. BitfieldFirst(p)' /\ BitfieldFirst(q)'
  BY <1>2, <1>3, BitfieldFirstStep DEF q
<1>6. Truthful(p)' /\ Truthful(q)'
  BY <1>2, <1>3, TruthfulStep DEF q
<1>7. AsksForKnown(p)' /\ AsksForKnown(q)'
  BY <1>2, <1>3, AsksForKnownStep DEF q
<1>8. OverIsDone(p)' /\ OverIsDone(q)'
  BY <1>2, <1>3, <1>4, OverIsDoneStep DEF q
<1>9. \A i \in Pieces : Carried(p, i)' /\ Carried(q, i)'
  BY <1>2, <1>3, CarriedStep DEF q
<1>10. TearDownLast(p)' /\ TearDownLast(q)'
  BY <1>2, <1>3, TearDownLastStep DEF q
<1>11. ChokedIsTold(p)' /\ ChokedIsTold(q)'
  BY <1>2, <1>3, ChokedIsToldStep DEF q
<1>12. LoopHasNews(p)' /\ LoopHasNews(q)'
  BY <1>2, <1>3, <1>4, LoopHasNewsStep DEF q
<1> QED
  BY <1>1, <1>3, <1>4, <1>5, <1>6, <1>7, <1>8, <1>9, <1>10, <1>11, <1>12 DEF IInv

LEMMA CoveredStep ==
  ASSUME IInv, IInv', CoveredInv, NEW p \in Peers, StepOf(p)
  PROVE  CoveredInv'
<1> DEFINE q == Other(p)
<1>1. q \in Peers /\ Other(q) = p /\ Peers = {p, q}
  BY OtherEnd
<1> SUFFICES ASSUME SleepCoversBroadcasts
             PROVE  \A x \in Peers : NothingForgotten(x)' /\ NothingDropped(x)'
  BY DEF CoveredInv
<1>2. /\ TypeOK /\ TypeOK'
      /\ BitfieldFirst(p) /\ AsksForKnown(p) /\ OverIsDone(p) /\ OverIsDone(q) /\ TearDownLast(p)
      /\ NothingForgotten(p) /\ NothingForgotten(q) /\ NothingDropped(p) /\ NothingDropped(q)
  BY <1>1 DEF IInv, CoveredInv
<1>3. Answerable(p)
  BY IInvStep
<1>4. NothingForgotten(p)' /\ NothingForgotten(q)'
  BY <1>2, <1>3, NothingForgottenStep
<1>5. NothingDropped(p)' /\ NothingDropped(q)'
  BY <1>2, <1>3, NothingDroppedStep
<1> QED
  BY <1>1, <1>4, <1>5

LEMMA Stuttering ==
  ASSUME IInv, UNCHANGED vars
  PROVE  IInv' /\ (CoveredInv => CoveredInv')
<1> USE DEF vars
<1>1. TypeOK'
  BY DEF IInv, TypeOK
<1>2. ASSUME NEW p \in Peers
      PROVE  /\ BitfieldFirst(p)' /\ Truthful(p)' /\ AsksForKnown(p)' /\ OverIsDone(p)'
             /\ \A i \in Pieces : Carried(p, i)'
             /\ TearDownLast(p)' /\ ChokedIsTold(p)' /\ LoopHasNews(p)'
  <2>1. /\ BitfieldFirst(p) /\ Truthful(p) /\ AsksForKnown(p) /\ OverIsDone(p)
        /\ \A i \in Pieces : Carried(p, i)
        /\ TearDownLast(p) /\ ChokedIsTold(p) /\ LoopHasNews(p)
    BY <1>2 DEF IInv
  <2>2. BitfieldFirst(p)' /\ Truthful(p)' /\ AsksForKnown(p)' /\ OverIsDone(p)'
    BY <2>1 DEF BitfieldFirst, Truthful, AsksForKnown, OverIsDone, Owned, Done, OwnsAll, KnowsAll
  <2>3. \A i \in Pieces : Carried(p, i)'
    BY <2>1 DEF Carried
  <2>4. TearDownLast(p)' /\ ChokedIsTold(p)' /\ LoopHasNews(p)'
    BY <2>1 DEF TearDownLast, ChokedIsTold, LoopHasNews, Announced, Done, OwnsAll, KnowsAll
  <2> QED
    BY <2>2, <2>3, <2>4
<1>3. CoveredInv => CoveredInv'
  BY DEF CoveredInv, NothingForgotten, NothingDropped, Owned, Announced, KnowsAll
<1> QED
  BY <1>1, <1>2, <1>3 DEF IInv

\* Next is a step of one of the two ends.
LEMMA NextIsAStep ==
  ASSUME Next
  PROVE  \E p \in Peers : StepOf(p)
  BY DEF Next, StepOf

\* The invariant holds throughout: whatever the control threads, the scanners, the
\* timers and the other sessions of the two peers do, in any order.
THEOREM Invariance == Spec => []IInv
<1>1. Init => IInv
  BY InitIInv
<1>2. IInv /\ [Next]_vars => IInv'
  BY IInvStep, Stuttering, NextIsAStep
<1> QED
  BY <1>1, <1>2, PTL DEF Spec

\* If the sleep before the teardown covers the broadcasts under way, no piece that one
\* end owns is ever forgotten, and none is dropped by the drain.
THEOREM CoveredInvariance == Spec => []CoveredInv
<1>1. Init => CoveredInv
  BY InitIInv
<1>2. IInv /\ IInv' /\ CoveredInv /\ [Next]_vars => CoveredInv'
  BY CoveredStep, Stuttering, NextIsAStep
<1> QED
  BY <1>1, <1>2, Invariance, PTL DEF Spec

-----------------------------------------------------------------------------
(***************************************************************************)
(* What follows for the two sessions.                                      *)
(***************************************************************************)
LEMMA InboxHas ==
  ASSUME TypeOK, NEW p \in Peers
  PROVE  \A m : m \in Inbox(p) <=> Has(m, net[p]) \/ Has(m, eq[p])
<1>1. DOMAIN net[p] = 1..Len(net[p]) /\ DOMAIN eq[p] = 1..Len(eq[p])
  BY QueueFacts, LenProperties
<1> QED
  BY <1>1 DEF Inbox, Has

LEMMA CompleteWhenOver ==
  ASSUME IInv, NEW p \in Peers, pc[p] \in Over
  PROVE  /\ OwnsAll(p) /\ OwnsAll(Other(p))
         /\ \A i \in Pieces : {Request(i), Piece(i)} \cap (Inbox(p) \cup Inbox(Other(p))) = {}
<1> DEFINE q == Other(p)
<1>1. q \in Peers /\ Other(q) = p
  BY OtherEnd
<1>2. /\ TypeOK /\ Truthful(p) /\ OverIsDone(p)
      /\ \A i \in Pieces : Carried(p, i) /\ Carried(q, i)
  BY <1>1 DEF IInv
<1>3. OwnsAll(p) /\ OwnsAll(q)
  <2>1. Owned(q) \subseteq Pieces
    BY <1>1, <1>2 DEF TypeOK, Owned, OwnedIn
  <2> QED
    BY <1>2, <2>1 DEF OverIsDone, Done, KnowsAll, OwnsAll, Truthful, Owned
<1>4. ASSUME NEW i \in Pieces
      PROVE  {Request(i), Piece(i)} \cap (Inbox(p) \cup Inbox(q)) = {}
  <2>1. /\ ~Has(Request(i), net[p]) /\ ~Has(Request(i), eq[p])
        /\ ~Has(Piece(i), net[p]) /\ ~Has(Piece(i), eq[p])
        /\ ~Has(Request(i), net[q]) /\ ~Has(Request(i), eq[q])
        /\ ~Has(Piece(i), net[q]) /\ ~Has(Piece(i), eq[q])
    BY <1>2, NothingUnderWay
  <2> QED
    BY <1>1, <1>2, <2>1, InboxHas
<1> QED
  BY <1>3, <1>4

\* Whoever gets a TearDown while it is in its loop would be complete, and have heard
\* that the other end knows of every piece: then it is not in its loop any more.
LEMMA NoTearDownInLoop ==
  ASSUME SleepCoversBroadcasts, IInv, CoveredInv, NEW p \in Peers
  PROVE  ~Handle(p, "TearDown")
<1> DEFINE q == Other(p)
<1> SUFFICES ASSUME Handle(p, "TearDown")
             PROVE  FALSE
  OBVIOUS
<1>1. q \in Peers /\ Other(q) = p
  BY OtherEnd
<1>2. /\ TypeOK /\ Truthful(q) /\ OverIsDone(q) /\ TearDownLast(p) /\ LoopHasNews(p)
      /\ NothingForgotten(p) /\ NothingDropped(q)
  BY <1>1 DEF IInv, CoveredInv
<1>3. pc[p] = "loop" /\ eq[p] # <<>> /\ Head(eq[p]).type = "TearDown" /\ eq[p] \in Seq(Events)
  BY <1>2, QueueFacts DEF Handle, At
<1>4. Head(eq[p]) = TearDown /\ Has(TearDown, eq[p])
  BY <1>3, HasTail, EventKinds
<1>5. pc[q] \in TornDown /\ net[p] = <<>>
  BY <1>2, <1>4 DEF TearDownLast
<1>6. \A i : ~Has(Have(i), eq[p])
  <2>1. Len(eq[p]) \in Nat \ {0} /\ eq[p][1] = TearDown
    BY <1>3, <1>4, HeadTailProperties, LenProperties, EmptySeq
  <2>2. \A j \in 2..Len(eq[p]) : eq[p][j].type \in LocalTypes
    BY <1>2, <2>1 DEF TearDownLast, EndsIfTearDown
  <2>3. \A j \in 1..Len(eq[p]) : eq[p][j].type # "Have"
    <3>1. \A j \in 1..Len(eq[p]) : j = 1 \/ j \in 2..Len(eq[p])
      BY <2>1
    <3> QED
      BY <2>1, <2>2, <3>1, MessageFields DEF LocalTypes
  <2> QED
    BY <2>3, MessageFields DEF Has
<1>7. Done(q) /\ unbcast[q] = {}
  BY <1>2, <1>5 DEF OverIsDone, Over, TornDown, NothingDropped
<1>8. KnowsAll(p)
  <2>1. CASE \A i \in Pieces : ~Has(BcastHave(i), eq[q])
    <3>1. pc[q] # "send"
      BY <1>5 DEF TornDown
    <3>2. \A i \in Pieces : Announced(q, i)
      BY <1>2, <1>7, <2>1, <3>1 DEF NothingForgotten, Done, OwnsAll, Owned
    <3>3. \A i \in Pieces : i \in known[p]
      BY <1>1, <1>5, <1>6, <3>2, HasNone DEF Announced
    <3> QED
      BY <1>2, <3>3 DEF KnowsAll, TypeOK
  <2> QED
    BY <1>1, <1>2, <1>5, <2>1 DEF NothingDropped
<1>9. OwnsAll(p)
  <2>1. Owned(p) \subseteq Pieces
    BY <1>2 DEF TypeOK, Owned, OwnedIn
  <2> QED
    BY <1>1, <1>2, <1>7, <2>1 DEF Done, KnowsAll, Truthful, OwnsAll, Owned
<1>10. \A i \in Pieces : Announced(p, i)
  BY <1>7 DEF Announced, Done, KnowsAll
<1> QED
  BY <1>2, <1>3, <1>8, <1>9, <1>10 DEF LoopHasNews, Done

LEMMA PanicStep ==
  ASSUME IInv, NEW p \in Peers, StepOf(p), NEW x \in Peers, pc[x] # "panic", pc'[x] = "panic"
  PROVE  Handle(p, "TearDown")
<1> DEFINE q == Other(p)
<1>1. TypeOK /\ Answerable(p) /\ (x = p \/ x = q)
  BY IInvStep, OtherEnd DEF IInv
<1>2. CASE SendBitfield(p) \/ ReceiveBitfield(p) \/ Scan(p)
  <2>1. (pc'[q] = pc[q] /\ pc'[p] # "panic") \/ pc' = pc
    BY <1>1, <1>2, SendBitfieldDoes, ReceiveBitfieldDoes, ScanDoes DEF Goes
  <2> QED
    BY <1>1, <2>1
<1>3. CASE Effect(p)
  <2>1. PICK h \in Seq(Events), ev \in Seq(Locals), msgs \in Seq(Messages) :
             Acts(p, h, ev, msgs) /\ Kind(p, h, ev, msgs)
    BY <1>3 DEF Effect
  <2>2. pc'[q] = pc[q]
    BY <2>1 DEF Acts
  <2>3. pc'[p] = "panic" /\ pc[p] # "panic"
    BY <1>1, <2>2
  <2>4. pc[p] = "loop" /\ Takes(p, h, TearDown)
    <3>1. CASE Quiet(p, h, ev, msgs)
      BY <2>3, <3>1 DEF Quiet, From
    <3>2. CASE ~Quiet(p, h, ev, msgs)
      BY <2>1, <2>3, <3>2
      DEF Kind, Chats, IsUnchoked, Learns, Announces, Serves, Gets, Parts, Elsewhere, From
    <3> QED
      BY <3>1, <3>2
  <2> QED
    BY <2>4, MessageFields DEF Takes, Handle, At
<1> QED
  BY <1>1, <1>2, <1>3, StepKinds

\* Every variable keeps its type; in particular no scanner ever puts a bitfield into an
\* event queue (AsyncMsgScanner.cpp:42).
THEOREM TypeCorrect == Spec => []TypeOK
<1>1. IInv => TypeOK
  BY DEF IInv
<1> QED
  BY <1>1, Invariance, PTL

\* A control thread never dequeues a REQUEST for a piece that it does not own, nor a
\* PIECE that it has not claimed (the panics of Session.cpp:165 and :175), however late
\* the broadcasts of other sessions are.
THEOREM NothingUnasked == Spec => [](\A p \in Peers : Answerable(p))
<1>1. IInv => \A p \in Peers : Answerable(p)
  BY ClaimsAnswerable, OtherEnd DEF IInv
<1> QED
  BY <1>1, Invariance, PTL

\* A claimed piece is never forgotten: its REQUEST or its PIECE is under way, and never
\* both (requestNextIfPossible and cases MsgRequest, MsgPiece of Session.cpp).
THEOREM ClaimsBacked == Spec => []ClaimsAreBacked
<1>1. IInv => ClaimsAreBacked
  <2> SUFFICES ASSUME IInv, NEW p \in Peers, NEW i \in asked[p], own[p][i] = "REQUESTED"
               PROVE  (Request(i) \in Inbox(Other(p))) # (Piece(i) \in Inbox(p))
    BY DEF ClaimsAreBacked
  <2>1. TypeOK /\ i \in Pieces /\ Other(p) \in Peers
    BY OtherEnd DEF IInv, TypeOK
  <2>2. Carried(p, i)
    BY <2>1 DEF IInv
  <2>3. (Request(i) \in Inbox(Other(p))) <=> ~(Piece(i) \in Inbox(p))
    BY <2>1, <2>2, InboxHas DEF Carried, OneCarrier
  <2> QED
    BY <2>3
<1> QED
  BY <1>1, Invariance, PTL

\* A session that has left its event loop leaves nothing undone: both ends are complete
\* and no REQUEST or PIECE is under way, so the loop that ignores all messages but
\* TearDown (Session.cpp:212) ignores nothing that matters.
THEOREM OverIsComplete == Spec => []OverMeansComplete
<1>1. IInv => OverMeansComplete
  BY CompleteWhenOver DEF OverMeansComplete, Over
<1> QED
  BY <1>1, Invariance, PTL

\* A connection is closed when nothing is left to read from it, and the other end has
\* sent all it will ever send (gc thread and the panics of Connection.hpp:41 and :57).
THEOREM ClosesClean == Spec => []CleanClose
<1>1. IInv => CleanClose
  BY DEF IInv, CleanClose, TearDownLast, TornDown
<1> QED
  BY <1>1, Invariance, PTL

\* The only panic there is, whatever the sleep covers, is that on a TearDown of an end
\* past its sleep (Session.cpp:189).
THEOREM OnlyTearDownPanics == Spec => []PanicOnlyOnTearDown
<1>1. IInv => PanicOnlyOnTearDown
  BY DEF IInv, PanicOnlyOnTearDown, TearDownLast, TornDown
<1> QED
  BY <1>1, Invariance, PTL

\* A session in its loop that believes itself unchoked is unchoked in the books of the
\* other end, or a CHOKE is on its way (Session.hpp:53-57).
THEOREM UnchokedKnowingly == Spec => []NeverUnchokedUnawares
<1>1. IInv => NeverUnchokedUnawares
  <2> SUFFICES ASSUME IInv, NEW p \in Peers, unchoked[p], pc[p] \in {"loop", "have", "bcast"},
                      peerChoke[Other(p)] # "Unchoked"
               PROVE  Choke \in Inbox(p)
    BY DEF NeverUnchokedUnawares
  <2>1. TypeOK /\ ChokedIsTold(p) /\ pc[p] \notin Over
    BY DEF IInv, Over
  <2>2. Has(Choke, eq[p]) \/ Has(Choke, net[p])
    BY <2>1 DEF ChokedIsTold
  <2> QED
    BY <2>1, <2>2, InboxHas
<1> QED
  BY <1>1, Invariance, PTL

\* What a session believes of the other end is true, whatever the sleep covers
\* (Session::peer_own).
THEOREM BeliefsAreTrue == Spec => [](\A p \in Peers : known[p] \subseteq OwnedIn(own[Other(p)]))
<1>1. IInv => \A p \in Peers : known[p] \subseteq OwnedIn(own[Other(p)])
  BY DEF IInv, Truthful, Owned
<1> QED
  BY <1>1, Invariance, PTL

\* If the sleep covers the broadcasts under way, then what a session does not know of is
\* still to be broadcast, queued or sent: no HAVE is lost in setup, nor by the drain.
THEOREM ViewComplete ==
  ASSUME SleepCoversBroadcasts
  PROVE  Spec => []ViewOfOwned
<1>1. IInv /\ CoveredInv => ViewOfOwned
  <2> SUFFICES ASSUME IInv, CoveredInv, NEW p \in Peers
               PROVE  /\ known[p] \subseteq OwnedIn(own[Other(p)])
                      /\ pc[p] \notin {"send", "recv"} /\ pc[Other(p)] # "ended" =>
                           \A i \in OwnedIn(own[Other(p)]) \ known[p] :
                             \/ i \in unbcast[Other(p)] \/ BcastHave(i) \in Inbox(Other(p))
                             \/ Have(i) \in Inbox(p)
    BY DEF ViewOfOwned
  <2> DEFINE q == Other(p)
  <2>1. q \in Peers /\ Other(q) = p
    BY OtherEnd
  <2>2. TypeOK /\ BitfieldFirst(p) /\ Truthful(p) /\ NothingForgotten(p)
    BY DEF IInv, CoveredInv
  <2>3. ASSUME pc[p] \notin {"send", "recv"}, NEW i \in OwnedIn(own[q]) \ known[p]
        PROVE  i \in unbcast[q] \/ BcastHave(i) \in Inbox(q) \/ Have(i) \in Inbox(p)
    <3>1. pc[q] # "send" /\ NoBitfield(net[p])
      BY <2>2, <2>3 DEF BitfieldFirst, Setting
    <3>2. i \in unbcast[q] \/ Has(BcastHave(i), eq[q]) \/ Announced(q, i)
      BY <2>2, <2>3, <3>1 DEF NothingForgotten, Owned
    <3>3. Announced(q, i) => Has(Have(i), eq[p]) \/ Has(Have(i), net[p])
      BY <2>1, <2>3, <3>1 DEF Announced, NoBitfield
    <3> QED
      BY <2>1, <2>2, <3>2, <3>3, InboxHas
  <2> QED
    BY <2>2, <2>3 DEF Truthful, Owned
<1> QED
  BY <1>1, Invariance, CoveredInvariance, PTL

\* If the sleep covers the broadcasts under way, no event loop ever dequeues a TearDown
\* ("premature teardown received", Session.cpp:189).
THEOREM TearDownInTime ==
  ASSUME SleepCoversBroadcasts
  PROVE  Spec => []NoPrematureTearDown
<1>1. IInv /\ CoveredInv => NoPrematureTearDown
  BY NoTearDownInLoop DEF NoPrematureTearDown
<1> QED
  BY <1>1, Invariance, CoveredInvariance, PTL

\* ... and so no control thread panics at all (Session.cpp:165, :175 and :189).
THEOREM PanicFree ==
  ASSUME SleepCoversBroadcasts
  PROVE  Spec => []NoPanic
<1>1. Init => NoPanic
  BY DEF Init, NoPanic
<1>2. IInv /\ CoveredInv /\ NoPanic /\ [Next]_vars => NoPanic'
  <2>1. ASSUME IInv, CoveredInv, NoPanic, Next PROVE NoPanic'
    <3>1. PICK p \in Peers : StepOf(p)
      BY <2>1, NextIsAStep
    <3> SUFFICES ASSUME NEW x \in Peers, pc'[x] = "panic"
                 PROVE  FALSE
      BY DEF NoPanic
    <3>2. pc[x] # "panic"
      BY <2>1 DEF NoPanic
    <3> QED
      BY <2>1, <3>1, <3>2, PanicStep, NoTearDownInLoop
  <2>2. NoPanic /\ UNCHANGED vars => NoPanic'
    BY DEF NoPanic, vars
  <2> QED
    BY <2>1, <2>2
<1> QED
  BY <1>1, <1>2, Invariance, CoveredInvariance, PTL DEF Spec
-----------------------------------------------------------------------------
(***************************************************************************)
(* The seat of this session, as promised by the SessionCollection of its   *)
(* peer (CollectionKeepsPromise of SessionCollectionProofs).               *)
(***************************************************************************)
Promise == INSTANCE Seat

SeatIn(p) == [pn |-> inPn[p], opt |-> isOpt[p]]
OnlySeatOf(p) ==
  \E b, c \in BOOLEAN : inPn' = [inPn EXCEPT ![p] = b] /\ isOpt' = [isOpt EXCEPT ![p] = c]

\* The timer events for the words of choke() and unchoke().
EventsOf(told) ==
  [k \in DOMAIN told |-> IF told[k] = "Choked" THEN TimerChoke ELSE TimerUnchoke]

\* The peer's timers and its other sessions decide about this one.
OthersDecideFor(p) ==
  /\ TimerMayTick(p)
  /\ OnlySeatOf(p)
  /\ \E told \in Seq({"Choked", "Unchoked"}) :
       /\ Promise!OthersDecide(SeatIn(p), SeatIn(p)', told,
                               p \in around.elsewhere, Active(p), Pickable(p))
       /\ Tell(p, EventsOf(told))
  /\ UNCHANGED <<around, table, net, pc, known, flags>>

\* tryPreempt for the INTERESTED that is being handled.
PreemptFor(p) ==
  /\ Handle(p, "Interested")
  /\ peerInterest' = [peerInterest EXCEPT ![p] = "Interested"]
  /\ OnlySeatOf(p)
  /\ \E told \in Seq({"Choked", "Unchoked"}) :
       /\ Promise!Preempts(SeatIn(p), SeatIn(p)', told, p \in around.elsewhere)
       /\ DeqEnq(p, EventsOf(told))
  /\ UNCHANGED <<around, table, net, pc, known, unchoked, peerChoke>>

\* relinquish: queue is what was in the event queue.
GivesUpSeat(p, queue) ==
  /\ OnlySeatOf(p)
  /\ \E told \in Seq({"Choked", "Unchoked"}) :
       /\ Promise!Relinquishes(SeatIn(p), SeatIn(p)', told)
       /\ eq' = [eq EXCEPT ![p] = queue \o EventsOf(told)]

\* ... for the NOT INTERESTED that is being handled, ...
RelinquishFor(p) ==
  /\ Handle(p, "NotInterested")
  /\ peerInterest' = [peerInterest EXCEPT ![p] = "NotInterested"]
  /\ IF peerChoke[p] = "Unchoked" THEN GivesUpSeat(p, Tail(eq[p])) ELSE Deq(p) /\ UNCHANGED seats
  /\ Send(p, <<Choke>>)
  /\ UNCHANGED <<around, table, pc, known, unchoked, peerChoke>>

\* ... and for the last time.
LastRelinquishFor(p) ==
  /\ At(p, "leave")
  /\ GivesUpSeat(p, eq[p])
  /\ Goto(p, "ended")
  /\ UNCHANGED <<around, table, net, known, flags>>

LEMMA PairOfOnes ==
  ASSUME NEW a, NEW b
  PROVE  <<a>> \o <<b>> = <<a, b>>
<1> DEFINE u == <<a>> \o <<b>>
           v == <<a, b>>
<1>1. u \in Seq({a, b}) /\ Len(u) = 2 /\ u[1] = a /\ u[2] = b
  OBVIOUS
<1>2. v \in Seq({a, b}) /\ Len(v) = 2 /\ v[1] = a /\ v[2] = b
  OBVIOUS
<1> HIDE DEF u, v
<1>3. \A i \in 1..Len(u) : u[i] = v[i]
  <2>1. \A i \in 1..2 : i = 1 \/ i = 2
    OBVIOUS
  <2> QED
    BY <1>1, <1>2, <2>1
<1>4. u = v
  BY <1>1, <1>2, <1>3, SeqEqual
<1> QED
  BY <1>4 DEF u, v

LEMMA EventsOfWords ==
  /\ EventsOf(<<>>) = <<>>
  /\ EventsOf(<<"Choked">>) = <<TimerChoke>>
  /\ EventsOf(<<"Unchoked">>) = <<TimerUnchoke>>
  /\ EventsOf(<<"Unchoked", "Choked">>) = <<TimerUnchoke>> \o <<TimerChoke>>
<1>1. EventsOf(<<>>) = <<>>
  BY DEF EventsOf
<1>2. EventsOf(<<"Choked">>) = <<TimerChoke>>
  BY DEF EventsOf
<1>3. EventsOf(<<"Unchoked">>) = <<TimerUnchoke>>
  BY DEF EventsOf
<1>4. EventsOf(<<"Unchoked", "Choked">>) = <<TimerUnchoke, TimerChoke>>
  BY DEF EventsOf
<1>5. <<TimerUnchoke>> \o <<TimerChoke>> = <<TimerUnchoke, TimerChoke>>
  BY PairOfOnes
<1> QED
  BY <1>1, <1>2, <1>3, <1>4, <1>5

LEMMA OneAndNothing == <<TimerUnchoke>> \o <<>> = <<TimerUnchoke>>
  OBVIOUS

LEMMA WordLists ==
  /\ <<>> \in Seq({"Choked", "Unchoked"})
  /\ <<"Choked">> \in Seq({"Choked", "Unchoked"})
  /\ <<"Unchoked">> \in Seq({"Choked", "Unchoked"})
  /\ <<"Unchoked", "Choked">> \in Seq({"Choked", "Unchoked"})
  OBVIOUS

\* A session is told nothing.
LEMMA TellNothing ==
  ASSUME TypeOK, NEW p \in Peers
  PROVE  /\ Tell(p, <<>>) <=> UNCHANGED eq
         /\ DeqEnq(p, <<>>) <=> Deq(p)
<1>1. \A s \in Seq(Events) : s \o <<>> = s
  OBVIOUS
<1>2. eq[p] \in Seq(Events) /\ Tail(eq[p]) \o <<>> = Tail(eq[p])
  BY DEF TypeOK
<1>3. [eq EXCEPT ![p] = @ \o <<>>] = eq
  BY <1>1, <1>2 DEF TypeOK
<1> QED
  BY <1>2, <1>3 DEF Tell, Enq, Deq, DeqEnq

\* The seat before and after it moves.
LEMMA SeatMoves ==
  ASSUME TypeOK, NEW p \in Peers, NEW b \in BOOLEAN, NEW c \in BOOLEAN,
         inPn' = [inPn EXCEPT ![p] = b], isOpt' = [isOpt EXCEPT ![p] = c]
  PROVE  /\ OnlySeatOf(p)
         /\ SeatIn(p).pn = inPn[p] /\ SeatIn(p).opt = isOpt[p]
         /\ SeatIn(p)'.pn = b /\ SeatIn(p)'.opt = c
  BY DEF OnlySeatOf, SeatIn, TypeOK

\* Each decision of the others is a step of Seats.
LEMMA DecisionsAreSeats ==
  ASSUME TypeOK, NEW p \in Peers, OthersDecideFor(p)
  PROVE  Seats(p) \/ (TimerMayTick(p) /\ UNCHANGED vars)
<1>1. PICK told \in Seq({"Choked", "Unchoked"}) :
        /\ Promise!OthersDecide(SeatIn(p), SeatIn(p)', told,
                                p \in around.elsewhere, Active(p), Pickable(p))
        /\ Tell(p, EventsOf(told))
  BY DEF OthersDecideFor
<1>2. PICK b \in BOOLEAN, c \in BOOLEAN :
        inPn' = [inPn EXCEPT ![p] = b] /\ isOpt' = [isOpt EXCEPT ![p] = c]
  BY DEF OthersDecideFor, OnlySeatOf
<1>3. /\ SeatIn(p).pn = inPn[p] /\ SeatIn(p).opt = isOpt[p]
      /\ SeatIn(p)'.pn = b /\ SeatIn(p)'.opt = c
  BY <1>2, SeatMoves
<1>4. inPn[p] \in BOOLEAN /\ isOpt[p] \in BOOLEAN
  BY DEF TypeOK
<1>5. (b = inPn[p] => inPn' = inPn) /\ (c = isOpt[p] => isOpt' = isOpt)
  BY <1>2 DEF TypeOK
<1>6. TimerMayTick(p) /\ UNCHANGED <<around, table, net, pc, known, flags>>
  BY DEF OthersDecideFor
<1>7. CASE Promise!Kept(SeatIn(p), SeatIn(p)') /\ told = <<>>
  <2>1. UNCHANGED seats
    BY <1>3, <1>4, <1>5, <1>7 DEF Promise!Kept, seats
  <2>2. UNCHANGED eq
    BY <1>1, <1>7, EventsOfWords, TellNothing
  <2> QED
    BY <1>6, <2>1, <2>2 DEF vars, seats, table, flags
<1>8. CASE Active(p) /\ Promise!Taken(SeatIn(p), SeatIn(p)', told, p \in around.elsewhere)
  <2>1. /\ b = TRUE /\ told = <<"Unchoked">>
        /\ c = isOpt[p] \/ (p \in around.elsewhere /\ c = FALSE)
    BY <1>3, <1>4, <1>8 DEF Promise!Taken
  <2> QED
    BY <1>1, <1>2, <1>5, <1>6, <1>8, <2>1, EventsOfWords DEF Seats, PnSelect
<1>9. CASE p \in around.elsewhere /\ Promise!PassedOver(SeatIn(p), SeatIn(p)', told)
  <2>1. /\ b = FALSE /\ told = (IF inPn[p] THEN <<"Choked">> ELSE <<>>)
        /\ c = FALSE \/ (~inPn[p] /\ c = isOpt[p])
    BY <1>3, <1>4, <1>9 DEF Promise!PassedOver
  <2>2. EventsOf(told) = If(inPn[p], TimerChoke)
    BY <2>1, EventsOfWords DEF If
  <2> QED
    BY <1>1, <1>2, <1>5, <1>6, <1>9, <2>1, <2>2 DEF Seats, PnPass
<1>10. CASE Pickable(p) /\ Promise!Lucky(SeatIn(p), SeatIn(p)', told)
  <2>1. /\ c = TRUE /\ b = inPn[p]
        /\ told = IF isOpt[p] THEN <<"Unchoked", "Choked">> ELSE <<"Unchoked">>
    BY <1>3, <1>4, <1>10 DEF Promise!Lucky
  <2>2. EventsOf(told) = <<TimerUnchoke>> \o If(isOpt[p], TimerChoke)
    BY <2>1, EventsOfWords, OneAndNothing DEF If
  <2> QED
    BY <1>1, <1>2, <1>5, <1>6, <1>10, <2>1, <2>2 DEF Seats, OptSelect
<1>11. CASE p \in around.elsewhere /\ Promise!Unlucky(SeatIn(p), SeatIn(p)', told)
  <2>1. isOpt[p] /\ c = FALSE /\ b = inPn[p] /\ told = <<"Choked">>
    BY <1>3, <1>4, <1>11 DEF Promise!Unlucky
  <2> QED
    BY <1>1, <1>2, <1>5, <1>6, <1>11, <2>1, EventsOfWords DEF Seats, OptPass
<1>12. CASE /\ p \in around.elsewhere /\ Pickable(p)
            /\ Promise!Unseated(SeatIn(p), SeatIn(p)', told)
  <2>1. told = <<"Unchoked">> /\ UNCHANGED seats
    BY <1>3, <1>4, <1>5, <1>12 DEF Promise!Unseated, Promise!Kept, seats
  <2> QED
    BY <1>1, <1>6, <1>12, <2>1, EventsOfWords DEF Seats, Inherit
<1> QED
  BY <1>1, <1>7, <1>8, <1>9, <1>10, <1>11, <1>12 DEF Promise!OthersDecide

\* Each step of Seats is a decision of the others.
LEMMA SeatsAreDecisions ==
  ASSUME TypeOK, NEW p \in Peers, Seats(p) \/ (TimerMayTick(p) /\ UNCHANGED vars)
  PROVE  OthersDecideFor(p)
<1>1. inPn[p] \in BOOLEAN /\ isOpt[p] \in BOOLEAN
  BY DEF TypeOK
<1>2. [inPn EXCEPT ![p] = inPn[p]] = inPn /\ [isOpt EXCEPT ![p] = isOpt[p]] = isOpt
  BY DEF TypeOK
<1>3. TimerMayTick(p) /\ UNCHANGED <<around, table, net, pc, known, flags>>
  BY DEF Seats, PnSelect, PnPass, OptSelect, OptPass, Inherit, vars, table, flags
<1>4. CASE UNCHANGED vars
  <2>1. Tell(p, EventsOf(<<>>))
    BY <1>4, EventsOfWords, TellNothing DEF vars
  <2>2. inPn' = [inPn EXCEPT ![p] = inPn[p]] /\ isOpt' = [isOpt EXCEPT ![p] = isOpt[p]]
    BY <1>2, <1>4 DEF vars
  <2>3. /\ OnlySeatOf(p)
        /\ SeatIn(p).pn = inPn[p] /\ SeatIn(p).opt = isOpt[p]
        /\ SeatIn(p)'.pn = inPn[p] /\ SeatIn(p)'.opt = isOpt[p]
    BY <1>1, <2>2, SeatMoves
  <2>4. Promise!Kept(SeatIn(p), SeatIn(p)') /\ OnlySeatOf(p)
    BY <2>3 DEF Promise!Kept
  <2> QED
    BY <1>3, <2>1, <2>4, WordLists DEF OthersDecideFor, Promise!OthersDecide
<1>5. CASE PnSelect(p)
  <2>1. PICK c \in BOOLEAN :
          /\ inPn' = [inPn EXCEPT ![p] = TRUE] /\ isOpt' = [isOpt EXCEPT ![p] = c]
          /\ c = isOpt[p] \/ (p \in around.elsewhere /\ c = FALSE)
    BY <1>1, <1>2, <1>5 DEF PnSelect
  <2>2. /\ OnlySeatOf(p)
        /\ SeatIn(p).pn = inPn[p] /\ SeatIn(p).opt = isOpt[p]
        /\ SeatIn(p)'.pn = TRUE /\ SeatIn(p)'.opt = c
    BY <1>1, <2>1, SeatMoves
  <2>3. /\ OnlySeatOf(p)
        /\ Promise!Taken(SeatIn(p), SeatIn(p)', <<"Unchoked">>, p \in around.elsewhere)
    BY <1>1, <2>1, <2>2 DEF Promise!Taken
  <2>4. Active(p) /\ Tell(p, EventsOf(<<"Unchoked">>))
    BY <1>5, EventsOfWords DEF PnSelect
  <2> QED
    BY <1>3, <2>3, <2>4, WordLists DEF OthersDecideFor, Promise!OthersDecide
<1>6. CASE PnPass(p)
  <2> DEFINE told == IF inPn[p] THEN <<"Choked">> ELSE <<>>
  <2>1. PICK c \in BOOLEAN :
          /\ inPn' = [inPn EXCEPT ![p] = FALSE] /\ isOpt' = [isOpt EXCEPT ![p] = c]
          /\ c = FALSE \/ (~inPn[p] /\ c = isOpt[p])
    BY <1>1, <1>2, <1>6 DEF PnPass
  <2>2. /\ OnlySeatOf(p)
        /\ SeatIn(p).pn = inPn[p] /\ SeatIn(p).opt = isOpt[p]
        /\ SeatIn(p)'.pn = FALSE /\ SeatIn(p)'.opt = c
    BY <1>1, <2>1, SeatMoves
  <2>3. OnlySeatOf(p) /\ Promise!PassedOver(SeatIn(p), SeatIn(p)', told)
    BY <1>1, <2>1, <2>2 DEF Promise!PassedOver
  <2>4. p \in around.elsewhere /\ Tell(p, EventsOf(told))
    BY <1>1, <1>6, EventsOfWords DEF PnPass, If
  <2>5. told \in Seq({"Choked", "Unchoked"})
    BY WordLists
  <2> HIDE DEF told
  <2> QED
    BY <1>3, <2>3, <2>4, <2>5 DEF OthersDecideFor, Promise!OthersDecide
<1>7. CASE OptSelect(p)
  <2> DEFINE told == IF isOpt[p] THEN <<"Unchoked", "Choked">> ELSE <<"Unchoked">>
  <2>1. inPn' = [inPn EXCEPT ![p] = inPn[p]] /\ isOpt' = [isOpt EXCEPT ![p] = TRUE]
    BY <1>2, <1>7 DEF OptSelect
  <2>2. /\ OnlySeatOf(p)
        /\ SeatIn(p).pn = inPn[p] /\ SeatIn(p).opt = isOpt[p]
        /\ SeatIn(p)'.pn = inPn[p] /\ SeatIn(p)'.opt = TRUE
    BY <1>1, <2>1, SeatMoves
  <2>3. OnlySeatOf(p) /\ Promise!Lucky(SeatIn(p), SeatIn(p)', told)
    BY <1>1, <2>1, <2>2 DEF Promise!Lucky
  <2>4. EventsOf(told) = <<TimerUnchoke>> \o If(isOpt[p], TimerChoke)
    BY <1>1, EventsOfWords, OneAndNothing DEF If
  <2>5. told \in Seq({"Choked", "Unchoked"})
    BY WordLists
  <2> HIDE DEF told
  <2>6. Pickable(p) /\ Tell(p, EventsOf(told))
    BY <1>7, <2>4 DEF OptSelect
  <2> QED
    BY <1>3, <2>3, <2>5, <2>6 DEF OthersDecideFor, Promise!OthersDecide
<1>8. CASE OptPass(p)
  <2>1. inPn' = [inPn EXCEPT ![p] = inPn[p]] /\ isOpt' = [isOpt EXCEPT ![p] = FALSE]
    BY <1>2, <1>8 DEF OptPass
  <2>2. /\ OnlySeatOf(p)
        /\ SeatIn(p).pn = inPn[p] /\ SeatIn(p).opt = isOpt[p]
        /\ SeatIn(p)'.pn = inPn[p] /\ SeatIn(p)'.opt = FALSE
    BY <1>1, <2>1, SeatMoves
  <2>3. OnlySeatOf(p) /\ Promise!Unlucky(SeatIn(p), SeatIn(p)', <<"Choked">>)
    BY <1>8, <2>2 DEF Promise!Unlucky, OptPass
  <2>4. p \in around.elsewhere /\ Tell(p, EventsOf(<<"Choked">>))
    BY <1>8, EventsOfWords DEF OptPass
  <2> QED
    BY <1>3, <2>3, <2>4, WordLists DEF OthersDecideFor, Promise!OthersDecide
<1>9. CASE Inherit(p)
  <2>1. inPn' = [inPn EXCEPT ![p] = inPn[p]] /\ isOpt' = [isOpt EXCEPT ![p] = isOpt[p]]
    BY <1>2, <1>9 DEF Inherit, seats
  <2>2. /\ OnlySeatOf(p)
        /\ SeatIn(p).pn = inPn[p] /\ SeatIn(p).opt = isOpt[p]
        /\ SeatIn(p)'.pn = inPn[p] /\ SeatIn(p)'.opt = isOpt[p]
    BY <1>1, <2>1, SeatMoves
  <2>3. OnlySeatOf(p) /\ Promise!Unseated(SeatIn(p), SeatIn(p)', <<"Unchoked">>)
    BY <1>1, <2>1, <2>2 DEF Promise!Unseated, Promise!Kept
  <2>4. p \in around.elsewhere /\ Pickable(p) /\ Tell(p, EventsOf(<<"Unchoked">>))
    BY <1>9, EventsOfWords DEF Inherit
  <2> QED
    BY <1>3, <2>3, <2>4, WordLists DEF OthersDecideFor, Promise!OthersDecide
<1> QED
  BY <1>4, <1>5, <1>6, <1>7, <1>8, <1>9 DEF Seats

LEMMA PreemptIsHandled ==
  ASSUME TypeOK, NEW p \in Peers
  PROVE  PreemptFor(p) <=> HandleInterested(p)
<1> DEFINE others == p \in around.elsewhere
<1>1. inPn[p] \in BOOLEAN /\ isOpt[p] \in BOOLEAN
  BY DEF TypeOK
<1>2. [inPn EXCEPT ![p] = inPn[p]] = inPn /\ [isOpt EXCEPT ![p] = isOpt[p]] = isOpt
  BY DEF TypeOK
<1>3. ASSUME PreemptFor(p) PROVE HandleInterested(p)
  <2>1. PICK told \in Seq({"Choked", "Unchoked"}) :
          /\ Promise!Preempts(SeatIn(p), SeatIn(p)', told, others)
          /\ DeqEnq(p, EventsOf(told))
    BY <1>3 DEF PreemptFor
  <2>2. PICK b \in BOOLEAN, c \in BOOLEAN :
          inPn' = [inPn EXCEPT ![p] = b] /\ isOpt' = [isOpt EXCEPT ![p] = c]
    BY <1>3 DEF PreemptFor, OnlySeatOf
  <2>3. /\ SeatIn(p).pn = inPn[p] /\ SeatIn(p).opt = isOpt[p]
        /\ SeatIn(p)'.pn = b /\ SeatIn(p)'.opt = c
    BY <2>2, SeatMoves
  <2>4. CASE /\ ~inPn[p] /\ ~isOpt[p]
             /\ (b = TRUE /\ c = FALSE) \/ (others /\ b = FALSE /\ c = TRUE)
             /\ told = <<"Unchoked">>
    <3>1. \/ inPn' = [inPn EXCEPT ![p] = TRUE] /\ UNCHANGED isOpt
          \/ others /\ isOpt' = [isOpt EXCEPT ![p] = TRUE] /\ UNCHANGED inPn
      BY <1>1, <1>2, <2>2, <2>4
    <3> QED
      BY <1>3, <2>1, <2>4, <3>1, EventsOfWords DEF PreemptFor, HandleInterested
  <2>5. CASE (inPn[p] \/ isOpt[p] \/ others) /\ b = inPn[p] /\ c = isOpt[p] /\ told = <<>>
    <3>1. UNCHANGED seats /\ Deq(p)
      BY <1>2, <2>1, <2>2, <2>5, EventsOfWords, TellNothing DEF seats
    <3> QED
      BY <1>3, <2>5, <3>1 DEF PreemptFor, HandleInterested
  <2>6. \/ /\ ~inPn[p] /\ ~isOpt[p]
           /\ (b = TRUE /\ c = FALSE) \/ (others /\ b = FALSE /\ c = TRUE)
           /\ told = <<"Unchoked">>
        \/ (inPn[p] \/ isOpt[p] \/ others) /\ b = inPn[p] /\ c = isOpt[p] /\ told = <<>>
    BY <1>1, <2>1, <2>3 DEF Promise!Preempts, Promise!Kept
  <2> QED
    BY <2>4, <2>5, <2>6
<1>4. ASSUME HandleInterested(p) PROVE PreemptFor(p)
  <2>1. CASE /\ ~inPn[p] /\ ~isOpt[p]
             /\ \/ inPn' = [inPn EXCEPT ![p] = TRUE] /\ UNCHANGED isOpt
                \/ others /\ isOpt' = [isOpt EXCEPT ![p] = TRUE] /\ UNCHANGED inPn
             /\ DeqEnq(p, <<TimerUnchoke>>)
    <3>1. PICK b \in BOOLEAN, c \in BOOLEAN :
            /\ inPn' = [inPn EXCEPT ![p] = b] /\ isOpt' = [isOpt EXCEPT ![p] = c]
            /\ (b = TRUE /\ c = FALSE) \/ (others /\ b = FALSE /\ c = TRUE)
      BY <1>1, <1>2, <2>1
    <3>2. /\ OnlySeatOf(p)
          /\ SeatIn(p).pn = inPn[p] /\ SeatIn(p).opt = isOpt[p]
          /\ SeatIn(p)'.pn = b /\ SeatIn(p)'.opt = c
      BY <3>1, SeatMoves
    <3>3. OnlySeatOf(p) /\ Promise!Preempts(SeatIn(p), SeatIn(p)', <<"Unchoked">>, others)
      BY <1>1, <2>1, <3>1, <3>2 DEF Promise!Preempts
    <3>4. DeqEnq(p, EventsOf(<<"Unchoked">>))
      BY <2>1, EventsOfWords
    <3> QED
      BY <1>4, <3>3, <3>4, WordLists DEF PreemptFor, HandleInterested
  <2>2. CASE (inPn[p] \/ isOpt[p] \/ others) /\ Deq(p) /\ UNCHANGED seats
    <3>1. inPn' = [inPn EXCEPT ![p] = inPn[p]] /\ isOpt' = [isOpt EXCEPT ![p] = isOpt[p]]
      BY <1>2, <2>2 DEF seats
    <3>2. /\ OnlySeatOf(p)
          /\ SeatIn(p).pn = inPn[p] /\ SeatIn(p).opt = isOpt[p]
          /\ SeatIn(p)'.pn = inPn[p] /\ SeatIn(p)'.opt = isOpt[p]
      BY <1>1, <3>1, SeatMoves
    <3>3. OnlySeatOf(p) /\ Promise!Preempts(SeatIn(p), SeatIn(p)', <<>>, others)
      BY <1>1, <2>2, <3>2 DEF Promise!Preempts, Promise!Kept
    <3>4. DeqEnq(p, EventsOf(<<>>))
      BY <2>2, EventsOfWords, TellNothing
    <3> QED
      BY <1>4, <3>3, <3>4, WordLists DEF PreemptFor, HandleInterested
  <2> QED
    BY <1>4, <2>1, <2>2 DEF HandleInterested
<1> QED
  BY <1>3, <1>4

LEMMA SeatIsGivenUp ==
  ASSUME TypeOK, NEW p \in Peers, NEW queue
  PROVE  GivesUpSeat(p, queue) <=>
           LeaveSeat(p) /\ eq' = [eq EXCEPT ![p] = queue \o If(HasSeat(p), TimerChoke)]
<1> DEFINE told == IF HasSeat(p) THEN <<"Choked">> ELSE <<>>
<1>1. inPn[p] \in BOOLEAN /\ isOpt[p] \in BOOLEAN
  BY DEF TypeOK
<1>2. told \in Seq({"Choked", "Unchoked"}) /\ EventsOf(told) = If(HasSeat(p), TimerChoke)
  BY WordLists, EventsOfWords DEF If
<1>3. \A w : OnlySeatOf(p) /\ Promise!Relinquishes(SeatIn(p), SeatIn(p)', w)
               <=> LeaveSeat(p) /\ w = told
  <2>1. ASSUME NEW w, OnlySeatOf(p), Promise!Relinquishes(SeatIn(p), SeatIn(p)', w)
        PROVE  LeaveSeat(p) /\ w = told
    <3>1. PICK b \in BOOLEAN, c \in BOOLEAN :
            inPn' = [inPn EXCEPT ![p] = b] /\ isOpt' = [isOpt EXCEPT ![p] = c]
      BY <2>1 DEF OnlySeatOf
    <3>2. /\ SeatIn(p).pn = inPn[p] /\ SeatIn(p).opt = isOpt[p]
          /\ SeatIn(p)'.pn = b /\ SeatIn(p)'.opt = c
      BY <3>1, SeatMoves
    <3>3. w = told
      BY <2>1, <3>2 DEF Promise!Relinquishes, HasSeat
    <3>4. b = FALSE /\ c = (isOpt[p] /\ inPn[p])
      BY <1>1, <2>1, <3>2 DEF Promise!Relinquishes
    <3> QED
      BY <3>1, <3>3, <3>4 DEF LeaveSeat
  <2>2. ASSUME LeaveSeat(p)
        PROVE  OnlySeatOf(p) /\ Promise!Relinquishes(SeatIn(p), SeatIn(p)', told)
    <3>1. /\ inPn' = [inPn EXCEPT ![p] = FALSE]
          /\ isOpt' = [isOpt EXCEPT ![p] = isOpt[p] /\ inPn[p]]
      BY <2>2 DEF LeaveSeat
    <3>2. /\ OnlySeatOf(p)
          /\ SeatIn(p).pn = inPn[p] /\ SeatIn(p).opt = isOpt[p]
          /\ SeatIn(p)'.pn = FALSE /\ SeatIn(p)'.opt = (isOpt[p] /\ inPn[p])
      BY <1>1, <3>1, SeatMoves
    <3> QED
      BY <1>1, <3>2 DEF Promise!Relinquishes, HasSeat
  <2> QED
    BY <2>1, <2>2
<1> HIDE DEF told
<1> QED
  BY <1>2, <1>3 DEF GivesUpSeat

\* What the collection may do with the seat of a session is exactly what Session lets
\* it do: timers and other sessions (Seats), tryPreempt (HandleInterested) and
\* relinquish (HandleNotInterested, Leave).
LEMMA SeatsAsPromised ==
  ASSUME TypeOK, NEW p \in Peers
  PROVE  /\ OthersDecideFor(p) <=> Seats(p) \/ (TimerMayTick(p) /\ UNCHANGED vars)
         /\ PreemptFor(p) <=> HandleInterested(p)
         /\ RelinquishFor(p) <=> HandleNotInterested(p)
         /\ LastRelinquishFor(p) <=> Leave(p)
<1>1. OthersDecideFor(p) <=> Seats(p) \/ (TimerMayTick(p) /\ UNCHANGED vars)
  BY DecisionsAreSeats, SeatsAreDecisions
<1>2. RelinquishFor(p) <=> HandleNotInterested(p)
  BY SeatIsGivenUp DEF RelinquishFor, HandleNotInterested, DeqEnq
<1>3. LastRelinquishFor(p) <=> Leave(p)
  BY SeatIsGivenUp DEF LastRelinquishFor, Leave, Enq
<1> QED
  BY <1>1, <1>2, <1>3, PreemptIsHandled

\* Session with all that its own definition says of seats replaced by the promise.
PromisedStep(p) ==
  \/ Control(p) /\ ~HandleInterested(p) /\ ~HandleNotInterested(p) /\ ~Leave(p)
  \/ PreemptFor(p) \/ RelinquishFor(p) \/ LastRelinquishFor(p)
  \/ Scan(p) \/ OthersDecideFor(p) \/ Others(p)
PromisedNext == \E p \in Peers : PromisedStep(p)
PromisedSpec == Init /\ [][PromisedNext]_vars

\* Together with CollectionKeepsPromise: the sessions of any number of peers do to this
\* one, through the choking timers, tryPreempt and relinquish (SessionCollection.cpp),
\* what Session says, no more and no less; so all that is proved of Session holds beside
\* them.
THEOREM PromiseIsEnough == PromisedSpec <=> Spec
<1>1. ASSUME TypeOK PROVE [PromisedNext]_vars <=> [Next]_vars
  <2>1. ASSUME NEW p \in Peers, PromisedStep(p) PROVE [Next]_vars
    BY <1>1, <2>1, SeatsAsPromised DEF PromisedStep, Next, Control, EventLoop, Ending
  <2>2. ASSUME NEW p \in Peers, Control(p) \/ Scan(p) \/ Seats(p) \/ Others(p)
        PROVE  PromisedNext
    <3>1. PromisedStep(p)
      BY <1>1, <2>2, SeatsAsPromised DEF PromisedStep
    <3> QED
      BY <3>1 DEF PromisedNext
  <2> QED
    BY <2>1, <2>2 DEF PromisedNext, Next
<1>2. IInv => TypeOK
  BY DEF IInv
<1>3. IInv /\ [Next]_vars => IInv'
  BY IInvStep, Stuttering, NextIsAStep
<1> QED
  BY <1>1, <1>2, <1>3, InitIInv, PTL DEF PromisedSpec, Spec
=============================================================================
