------------------------ MODULE PieceRepositoryProofs ------------------------
(***************************************************************************)
(* Proofs about the repository, for any file, any cache limit and any      *)
(* number of sessions.  First, that it hands out the right pieces: how     *)
(* many bytes are cached does not matter for it, eviction may take what it *)
(* likes.  Then, that the count of cached bytes is right, which needs      *)
(* arithmetic of the sizes of sets of pieces.                              *)
(***************************************************************************)
EXTENDS PieceRepository, PieceGeometryProofs, FiniteSetTheorems, TLAPS

\* The variables the argument is about.
Types ==
  /\ stored \subseteq PieceIds
  /\ pc \in [Sessions -> {"idle", "read", "insert", "send", "save", "own"}]
  /\ piece \in [Sessions -> PieceIds \cup {0}]
  /\ buffer \in [Sessions -> Contents]

\* A thread that reads the file, or has written it, is at a piece that is there; what it
\* is about to insert or to send is that piece.
Holds(s) ==
  /\ pc[s] \in {"read", "insert", "save", "own"} => piece[s] \in stored
  /\ pc[s] \in {"insert", "send", "save"} => buffer[s] = piece[s]

RightInv ==
  /\ Types
  /\ owned \subseteq stored
  /\ \A i \in Cached : cache[i] = i
  /\ \A s \in Sessions : Holds(s)

\* What is cached stays right when the right buffer is inserted, whatever is evicted.
LEMMA InsertRight ==
  ASSUME \A j \in Cached : cache[j] = j,
         NEW i, Insert(i, i)
  PROVE  \A j \in Cached' : cache'[j] = j
<1>1. CASE crashed'
  BY <1>1 DEF Insert, Cached
<1>2. CASE ~crashed'
  <2>1. PICK V \in Victims(SizeOf(i)) :
          cache' = [j \in (Cached \ V) \cup {i} |-> IF j \in Cached \ V THEN cache[j] ELSE i]
    BY <1>2 DEF Insert
  <2> QED
    BY <2>1 DEF Cached
<1> QED
  BY <1>1, <1>2

LEMMA InitRight == Init => RightInv
<1> SUFFICES ASSUME Init PROVE RightInv
  OBVIOUS
<1>1. Types
  BY DEF Init, Types, Contents
<1>2. Cached = {}
  BY DEF Init, Cached
<1> QED
  BY <1>1, <1>2 DEF Init, RightInv, Holds

LEMMA NextRight == RightInv /\ [Next]_vars => RightInv'
<1> SUFFICES ASSUME RightInv, [Next]_vars PROVE RightInv'
  OBVIOUS
<1> USE DEF RightInv, Types, Holds, At, Goto, Contents
<1>1. ASSUME NEW s \in Sessions, NEW i \in PieceIds, LookUp(s, i) PROVE RightInv'
  <2>1. Cached' = Cached
    BY <1>1 DEF LookUp, Cached
  <2> QED
    BY <1>1, <2>1 DEF LookUp
<1>2. ASSUME NEW s \in Sessions, NEW i \in PieceIds, WriteFile(s, i) PROVE RightInv'
  <2>1. Cached' = Cached
    BY <1>2 DEF WriteFile, Cached
  <2> QED
    BY <1>2, <2>1 DEF WriteFile
<1>3. ASSUME NEW s \in Sessions, ReadFile(s) PROVE RightInv'
  <2>1. Cached' = Cached
    BY <1>3 DEF ReadFile, Cached
  <2> QED
    BY <1>3, <2>1 DEF ReadFile
<1>4. ASSUME NEW s \in Sessions, InsertRead(s) PROVE RightInv'
  <2>1. buffer[s] = piece[s] /\ Insert(piece[s], buffer[s])
    BY <1>4 DEF InsertRead
  <2>2. \A j \in Cached' : cache'[j] = j
    BY <2>1, InsertRight
  <2> QED
    BY <1>4, <2>2 DEF InsertRead
<1>5. ASSUME NEW s \in Sessions, SendPiece(s) PROVE RightInv'
  <2>1. Cached' = Cached
    BY <1>5 DEF SendPiece, Cached
  <2> QED
    BY <1>5, <2>1 DEF SendPiece
<1>6. ASSUME NEW s \in Sessions, InsertSaved(s) PROVE RightInv'
  <2>1. buffer[s] = piece[s] /\ Insert(piece[s], buffer[s])
    BY <1>6 DEF InsertSaved
  <2>2. \A j \in Cached' : cache'[j] = j
    BY <2>1, InsertRight
  <2> QED
    BY <1>6, <2>2 DEF InsertSaved
<1>7. ASSUME NEW s \in Sessions, SetOwned(s) PROVE RightInv'
  <2>1. Cached' = Cached
    BY <1>7 DEF SetOwned, Cached
  <2> QED
    BY <1>7, <2>1 DEF SetOwned
<1>8. CASE UNCHANGED vars
  BY <1>8 DEF vars, Cached
<1> QED
  BY <1>1, <1>2, <1>3, <1>4, <1>5, <1>6, <1>7, <1>8 DEF Next

\* What get() returns and what the cache keeps is what was asked for, although the file
\* is read, and save() writes it, under no lock of the repository.
THEOREM GetsAreRight == Spec => []GetIsRight
<1>1. RightInv => GetIsRight
  BY DEF RightInv, Holds, GetIsRight
<1> QED
  BY <1>1, InitRight, NextRight, PTL DEF Spec
-----------------------------------------------------------------------------
(***************************************************************************)
(* The size of sets of pieces.                                             *)
(***************************************************************************)
Extent(S) == UNION {BytesOf(i) : i \in S}

LEMMA ExtentFinite ==
  ASSUME NEW S \in SUBSET PieceIds
  PROVE  IsFiniteSet(Extent(S)) /\ Bytes(S) \in Nat /\ Bytes(S) = Cardinality(Extent(S))
<1>1. Extent(S) \subseteq 0..(FileSize - 1)
  BY PieceSizes DEF Extent
<1>2. IsFiniteSet(0..(FileSize - 1))
  BY FS_Interval, GeometryAssumption
<1>3. IsFiniteSet(Extent(S))
  BY <1>1, <1>2, FS_Subset
<1> QED
  BY <1>3, FS_CardinalityType DEF Bytes, Extent

\* No two pieces share a byte.
LEMMA ExtentsDisjoint ==
  ASSUME NEW S \in SUBSET PieceIds, NEW T \in SUBSET PieceIds, S \cap T = {}
  PROVE  Extent(S) \cap Extent(T) = {}
<1> SUFFICES ASSUME NEW b \in Extent(S), b \in Extent(T) PROVE FALSE
  OBVIOUS
<1>1. PICK i \in S, j \in T : b \in BytesOf(i) /\ b \in BytesOf(j)
  BY DEF Extent
<1>2. b \in 0..(FileSize - 1)
  BY <1>1, PieceSizes
<1>3. i = j
  BY <1>1, <1>2, PiecesPartitionFile
<1> QED
  BY <1>1, <1>3

LEMMA BytesUnion ==
  ASSUME NEW S \in SUBSET PieceIds, NEW T \in SUBSET PieceIds, S \cap T = {}
  PROVE  Bytes(S \cup T) = Bytes(S) + Bytes(T)
<1>1. Extent(S \cup T) = Extent(S) \cup Extent(T)
  BY DEF Extent
<1>2. Extent(S) \cap Extent(T) = {}
  BY ExtentsDisjoint
<1>3. IsFiniteSet(Extent(S)) /\ IsFiniteSet(Extent(T))
  BY ExtentFinite
<1>4. Cardinality(Extent(S) \cup Extent(T)) = Cardinality(Extent(S)) + Cardinality(Extent(T)) - 0
  BY <1>2, <1>3, FS_Union, FS_EmptySet
<1>5. Cardinality(Extent(S)) \in Nat /\ Cardinality(Extent(T)) \in Nat
  BY <1>3, FS_CardinalityType
<1>6. S \cup T \in SUBSET PieceIds
  OBVIOUS
<1>7. /\ Bytes(S) = Cardinality(Extent(S))
      /\ Bytes(T) = Cardinality(Extent(T))
      /\ Bytes(S \cup T) = Cardinality(Extent(S \cup T))
  BY <1>6, ExtentFinite
<1>8. Bytes(S \cup T) = Cardinality(Extent(S) \cup Extent(T))
  BY <1>1, <1>7
<1>9. Bytes(S \cup T) = Bytes(S) + Bytes(T) - 0
  BY <1>4, <1>7, <1>8
<1>10. Bytes(S) + Bytes(T) - 0 = Bytes(S) + Bytes(T)
  BY <1>5, <1>7
<1> QED
  BY <1>9, <1>10

LEMMA BytesSingle ==
  ASSUME NEW i \in PieceIds
  PROVE  Bytes({i}) = SizeOf(i) /\ SizeOf(i) \in 1..PieceSize
<1>1. SizeOf(i) \in 1..PieceSize
  BY PieceSizes
<1>2. Begin(i) \in 0..(FileSize - 1)
  BY BeginInFile
<1>3. UNION {BytesOf(j) : j \in {i}} = Begin(i) .. (Begin(i) + SizeOf(i) - 1)
  BY DEF BytesOf
<1>4. Cardinality(Begin(i) .. (Begin(i) + SizeOf(i) - 1)) = SizeOf(i)
  <2> DEFINE a == Begin(i)
             b == Begin(i) + SizeOf(i) - 1
  <2>1. a \in Int /\ b \in Int /\ ~(a > b) /\ b - a + 1 = SizeOf(i)
    BY <1>1, <1>2, GeometryAssumption
  <2> HIDE DEF a, b
  <2>2. Cardinality(a..b) = b - a + 1
    BY <2>1, FS_Interval
  <2> QED
    BY <2>1, <2>2 DEF a, b
<1> QED
  BY <1>1, <1>3, <1>4 DEF Bytes

LEMMA BytesEmpty == Bytes({}) = 0
<1>1. UNION {BytesOf(i) : i \in {}} = {}
  OBVIOUS
<1> QED
  BY <1>1, FS_EmptySet DEF Bytes

\* What evicting V leaves of the bytes of S, and what inserting i makes of it.
LEMMA BytesDifference ==
  ASSUME NEW S \in SUBSET PieceIds, NEW V \in SUBSET S
  PROVE  Bytes(S \ V) = Bytes(S) - Bytes(V) /\ Bytes(S \ V) \in Nat
<1>1. S = (S \ V) \cup V /\ (S \ V) \cap V = {} /\ S \ V \in SUBSET PieceIds /\ V \in SUBSET PieceIds
  OBVIOUS
<1>2. Bytes(S) = Bytes(S \ V) + Bytes(V)
  BY <1>1, BytesUnion
<1> QED
  BY <1>1, <1>2, ExtentFinite

LEMMA BytesAdd ==
  ASSUME NEW S \in SUBSET PieceIds, NEW i \in PieceIds
  PROVE  Bytes(S \cup {i}) = IF i \in S THEN Bytes(S) ELSE Bytes(S) + SizeOf(i)
<1>1. CASE i \in S
  <2>1. S \cup {i} = S
    BY <1>1
  <2> QED
    BY <1>1, <2>1
<1>2. CASE i \notin S
  BY <1>2, BytesUnion, BytesSingle
<1> QED
  BY <1>1, <1>2
-----------------------------------------------------------------------------
(***************************************************************************)
(* ensureSpace and the insertion.                                          *)
(***************************************************************************)

\* The count is at least what is cached, exact unless pieces were counted twice, and
\* within the limit; ensureSpace() has not failed unless pieces were counted twice.
CountInv ==
  /\ Cached \subseteq PieceIds
  /\ \A i \in Cached : cache[i] \in Contents
  /\ count \in Nat
  /\ LimitKept
  /\ ExactUnlessRaced
  /\ raced \in BOOLEAN /\ crashed \in BOOLEAN

LEMMA SizeInLimit ==
  ASSUME NEW i \in PieceIds
  PROVE  SizeOf(i) \in Nat /\ SizeOf(i) <= CacheLimit /\ CacheLimit \in Nat
<1>1. SizeOf(i) \in 1..PieceSize
  BY BytesSingle
<1>2. PieceSize \in Nat /\ CacheLimit \in Nat /\ PieceSize <= CacheLimit
  BY GeometryAssumption, RepositoryAssumption
<1> HIDE DEF SizeOf
<1> QED
  BY <1>1, <1>2

\* As long as the count is exact, ensureSpace() finds enough to evict: a smallest set of
\* pieces that gives room is a possible outcome of its loop.
LEMMA RoomIsFound ==
  ASSUME Cached \subseteq PieceIds, count = Bytes(Cached), NEW i \in PieceIds
  PROVE  Victims(SizeOf(i)) # {}
<1> DEFINE Full(V) == count - Bytes(V) + SizeOf(i) > CacheLimit
           Enough == {V \in SUBSET Cached : ~Full(V)}
<1>1. SizeOf(i) \in Nat /\ SizeOf(i) <= CacheLimit /\ Bytes(Cached) \in Nat /\ CacheLimit \in Nat
  <2>1. SizeOf(i) \in Nat /\ SizeOf(i) <= CacheLimit /\ CacheLimit \in Nat
    BY SizeInLimit
  <2>2. Bytes(Cached) \in Nat
    BY ExtentFinite
  <2> QED
    BY <2>1, <2>2
<1>2. Cached \in Enough
  BY <1>1
<1>3. IsFiniteSet(Cached)
  <2>1. NPieces \in Nat
    BY CeilingDivBounds, GeometryAssumption DEF NPieces
  <2>2. IsFiniteSet(PieceIds)
    BY <2>1, FS_Interval DEF PieceIds
  <2> QED
    BY <2>2, FS_Subset
<1>4. /\ IsWellFoundedOn(StrictSubsetOrdering(Cached), SUBSET Cached)
      /\ Enough \subseteq SUBSET Cached
      /\ Enough # {}
  <2>1. FiniteSubsetsOf(Cached) = SUBSET Cached
    BY <1>3, FS_FiniteSubsetsOfFinite
  <2> QED
    BY <1>2, <2>1, FS_StrictSubsetOrderingWellFounded
<1> HIDE DEF Enough
<1>5. PICK V \in Enough : \A W \in Enough : <<W, V>> \notin StrictSubsetOrdering(Cached)
  BY <1>4, WFMin
<1> USE DEF Enough
<1>6. ASSUME NEW v \in V PROVE Full(V \ {v})
  <2>1. V \ {v} \in SUBSET Cached /\ V \in SUBSET Cached
    BY <1>5
  <2>2. <<V \ {v}, V>> \in StrictSubsetOrdering(Cached)
    BY <1>6, <2>1 DEF StrictSubsetOrdering
  <2>3. V \ {v} \notin Enough
    BY <1>5, <2>2
  <2> QED
    BY <2>1, <2>3
<1>7. V \in Victims(SizeOf(i))
  BY <1>5, <1>6 DEF Victims
<1> QED
  BY <1>7

\* What Insert makes of the count and the cache.
LEMMA InsertCounts ==
  ASSUME CountInv, ~crashed, NEW i \in PieceIds, NEW content \in Contents, Insert(i, content)
  PROVE  CountInv'
<1>1. CASE crashed'
  <2>1. Victims(SizeOf(i)) = {} /\ UNCHANGED <<cache, count, raced>> /\ crashed' \in BOOLEAN
    BY <1>1 DEF Insert
  <2>2. raced
    BY <2>1, RoomIsFound DEF CountInv, ExactUnlessRaced
  <2>3. Cached' = Cached /\ Bytes(Cached)' = Bytes(Cached)
    BY <2>1 DEF Cached
  <2> QED
    BY <2>1, <2>2, <2>3 DEF CountInv, LimitKept, ExactUnlessRaced
<1>2. CASE ~crashed'
  <2>1. PICK V \in Victims(SizeOf(i)) :
          /\ cache' = [j \in (Cached \ V) \cup {i} |-> IF j \in Cached \ V THEN cache[j] ELSE content]
          /\ count' = count - Bytes(V) + SizeOf(i)
          /\ raced' = (raced \/ i \in Cached \ V)
    BY <1>2 DEF Insert
  <2> DEFINE kept == Cached \ V
  <2>2. V \in SUBSET Cached /\ ~(count - Bytes(V) + SizeOf(i) > CacheLimit)
    BY DEF Victims
  <2>3. Cached' = kept \cup {i} /\ Bytes(Cached)' = Bytes(kept \cup {i})
    BY <2>1 DEF Cached
  <2>4. /\ Cached \in SUBSET PieceIds /\ kept \in SUBSET PieceIds /\ V \in SUBSET PieceIds
        /\ count \in Nat /\ Bytes(Cached) <= count
    BY <2>2 DEF CountInv, LimitKept
  <2>5. /\ Bytes(kept) = Bytes(Cached) - Bytes(V) /\ Bytes(kept) \in Nat
        /\ Bytes(Cached) \in Nat /\ Bytes(V) \in Nat
    BY <2>2, <2>4, BytesDifference, ExtentFinite
  <2>6. Bytes(kept \cup {i}) = IF i \in kept THEN Bytes(kept) ELSE Bytes(kept) + SizeOf(i)
    BY <2>4, BytesAdd
  <2>7. SizeOf(i) \in Nat /\ CacheLimit \in Nat
    BY SizeInLimit
  <2> HIDE DEF kept
  <2>8. count' \in Nat /\ count' <= CacheLimit /\ Bytes(kept \cup {i}) <= count'
    BY <2>1, <2>2, <2>4, <2>5, <2>6, <2>7
  <2>9. ASSUME ~raced' PROVE count' = Bytes(kept \cup {i})
    <3>1. ~raced /\ i \notin kept
      BY <2>1, <2>9 DEF kept
    <3>2. count = Bytes(Cached)
      BY <3>1 DEF CountInv, ExactUnlessRaced
    <3> QED
      BY <2>1, <2>5, <2>6, <2>7, <3>1, <3>2
  <2>10. Cached' \subseteq PieceIds /\ \A j \in Cached' : cache'[j] \in Contents
    BY <2>1, <2>3, <2>4 DEF kept, CountInv
  <2>11. raced' \in BOOLEAN /\ crashed' \in BOOLEAN
    <3>1. crashed' = (Victims(SizeOf(i)) = {})
      BY DEF Insert
    <3> QED
      BY <2>1, <3>1, Zenon
  <2> QED
    BY <1>2, <2>3, <2>8, <2>9, <2>10, <2>11 DEF CountInv, LimitKept, ExactUnlessRaced
<1> QED
  BY <1>1, <1>2
-----------------------------------------------------------------------------
LEMMA InitCounts == Init => CountInv
<1> SUFFICES ASSUME Init PROVE CountInv
  OBVIOUS
<1>1. Cached = {} /\ count = 0 /\ raced = FALSE /\ crashed = FALSE
  BY DEF Init, Cached
<1>2. Bytes(Cached) = 0 /\ CacheLimit \in Nat
  BY <1>1, BytesEmpty, RepositoryAssumption
<1>3. LimitKept /\ count \in Nat
  BY <1>1, <1>2 DEF LimitKept
<1>4. ExactUnlessRaced
  BY <1>1, <1>2 DEF ExactUnlessRaced
<1>5. raced \in BOOLEAN /\ crashed \in BOOLEAN
  BY <1>1, Zenon
<1> QED
  BY <1>1, <1>3, <1>4, <1>5 DEF CountInv

\* A step that leaves the cache and its count alone.
LEMMA CountsUnchanged ==
  ASSUME CountInv, UNCHANGED <<cache, count, raced, crashed>>
  PROVE  CountInv'
<1>1. Cached' = Cached /\ Bytes(Cached)' = Bytes(Cached)
  BY DEF Cached
<1> QED
  BY <1>1 DEF CountInv, LimitKept, ExactUnlessRaced

LEMMA NextCounts == RightInv /\ CountInv /\ [Next]_vars => CountInv'
<1> SUFFICES ASSUME RightInv, CountInv, [Next]_vars PROVE CountInv'
  OBVIOUS
<1>1. ASSUME NEW s \in Sessions, NEW i \in PieceIds, LookUp(s, i) PROVE CountInv'
  BY <1>1, CountsUnchanged DEF LookUp
<1>2. ASSUME NEW s \in Sessions, NEW i \in PieceIds, WriteFile(s, i) PROVE CountInv'
  BY <1>2, CountsUnchanged DEF WriteFile
<1>3. ASSUME NEW s \in Sessions, ReadFile(s) PROVE CountInv'
  BY <1>3, CountsUnchanged DEF ReadFile
<1>4. ASSUME NEW s \in Sessions, InsertRead(s) PROVE CountInv'
  <2>1. ~crashed /\ pc[s] = "insert" /\ Insert(piece[s], buffer[s])
    BY <1>4 DEF InsertRead, At
  <2>2. piece[s] \in PieceIds /\ buffer[s] \in Contents
    BY <2>1 DEF RightInv, Types, Holds
  <2> QED
    BY <2>1, <2>2, InsertCounts
<1>5. ASSUME NEW s \in Sessions, SendPiece(s) PROVE CountInv'
  BY <1>5, CountsUnchanged DEF SendPiece
<1>6. ASSUME NEW s \in Sessions, InsertSaved(s) PROVE CountInv'
  <2>1. ~crashed /\ pc[s] = "save" /\ Insert(piece[s], buffer[s])
    BY <1>6 DEF InsertSaved, At
  <2>2. piece[s] \in PieceIds /\ buffer[s] \in Contents
    BY <2>1 DEF RightInv, Types, Holds
  <2> QED
    BY <2>1, <2>2, InsertCounts
<1>7. ASSUME NEW s \in Sessions, SetOwned(s) PROVE CountInv'
  BY <1>7, CountsUnchanged DEF SetOwned
<1>8. CASE UNCHANGED vars
  BY <1>8, CountsUnchanged DEF vars
<1> QED
  BY <1>1, <1>2, <1>3, <1>4, <1>5, <1>6, <1>7, <1>8 DEF Next

THEOREM RepositoryInvariant == Spec => [](RightInv /\ CountInv)
<1>1. Init => RightInv /\ CountInv
  BY InitRight, InitCounts
<1>2. (RightInv /\ CountInv) /\ [Next]_vars => (RightInv /\ CountInv)'
  BY NextRight, NextCounts
<1> QED
  BY <1>1, <1>2, PTL DEF Spec

\* The types of the repository's state; the count of cached bytes is between 0 and the
\* limit although pieces may be counted twice.
THEOREM RepositoryTypes == Spec => []TypeOK
<1>1. RightInv /\ CountInv => TypeOK
  <2> SUFFICES ASSUME RightInv, CountInv PROVE TypeOK
    OBVIOUS
  <2>1. count \in 0..CacheLimit
    BY RepositoryAssumption DEF CountInv, LimitKept
  <2> QED
    BY <2>1 DEF RightInv, Types, CountInv, TypeOK
<1> QED
  BY <1>1, RepositoryInvariant, PTL

\* The cache never outgrows its limit, however many threads miss and insert at once.
THEOREM CacheLimitKept == Spec => []LimitKept
<1>1. RightInv /\ CountInv => LimitKept
  BY DEF CountInv
<1> QED
  BY <1>1, RepositoryInvariant, PTL

\* Without a piece inserted twice the count is exact and ensureSpace() always finds
\* enough to evict; the race of PieceRepository.cpp:31-32 is the only way to a crash.
THEOREM OnlyTheRaceLosesCount == Spec => []ExactUnlessRaced
<1>1. RightInv /\ CountInv => ExactUnlessRaced
  BY DEF CountInv
<1> QED
  BY <1>1, RepositoryInvariant, PTL
=============================================================================
