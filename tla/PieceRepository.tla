--------------------------- MODULE PieceRepository ---------------------------
(***************************************************************************)
(* The PieceRepository of one peer, used by the control threads of its     *)
(* sessions: the file, and the cache of pieces with its count of cached    *)
(* bytes.  get() looks into the cache under a shared lock, reads the file  *)
(* under no lock of the repository, and takes the lock again to insert;    *)
(* save() writes the file and then inserts.  Between these steps other     *)
(* threads do the same.                                                    *)
(*                                                                         *)
(* What a buffer holds is a piece, or Hole where the file was not written. *)
(* Eviction takes the first element of an unordered_map: any element.      *)
(***************************************************************************)
EXTENDS PieceGeometry, FiniteSets

CONSTANTS Sessions,   \* the control threads
          CacheLimit, \* kMemLimit
          Hole        \* bytes of the file that were never written

ASSUME RepositoryAssumption ==
  /\ CacheLimit \in Nat
  /\ PieceSize <= CacheLimit  \* ensureSpace() cannot make room for more
  /\ Hole \notin PieceIds

VARIABLES
  stored,   \* the pieces that are in the file
  owned,    \* the pieces that SyncPieceBitfield has as OWNED
  cache,    \* PieceRepository::cache, from piece ids to what the buffer holds
  count,    \* n_cached_byte
  pc,       \* where each thread is
  piece,    \* the argument of its get() or save()
  buffer,   \* what the Piece it holds a shared_ptr to contains
  raced,    \* history: a piece was inserted that was in the cache already
  crashed   \* ensureSpace() has evicted from an empty cache

vars == <<stored, owned, cache, count, pc, piece, buffer, raced, crashed>>

Contents == PieceIds \cup {Hole}
Cached == DOMAIN cache

\* The size of some pieces together: no two pieces share a byte of the file.
Bytes(S) == Cardinality(UNION {BytesOf(i) : i \in S})

At(s, loc) == pc[s] = loc /\ ~crashed
Goto(s, loc) == pc' = [pc EXCEPT ![s] = loc]

\* has_file: everything or nothing.
Init ==
  /\ stored \in {{}, PieceIds}
  /\ owned = stored
  /\ cache = <<>>
  /\ count = 0
  /\ pc = [s \in Sessions |-> "idle"]
  /\ piece = [s \in Sessions |-> 0]
  /\ buffer = [s \in Sessions |-> Hole]
  /\ raced = FALSE
  /\ crashed = FALSE
-----------------------------------------------------------------------------
(***************************************************************************)
(* ensureSpace and the insertion that follows it, in one critical section. *)
(***************************************************************************)

\* Mutant: the size of the new piece is not considered.
Victims_SizeIgnored(size) ==
  LET Full(V) == count - Bytes(V) > CacheLimit
  IN  {V \in SUBSET Cached : ~Full(V) /\ (V # {} => \E v \in V : Full(V \ {v}))}

\* What ensureSpace may evict: until there is room, and no more.
Victims(size) ==
  LET Full(V) == count - Bytes(V) + size > CacheLimit
  IN  {V \in SUBSET Cached : ~Full(V) /\ (V # {} => \E v \in V : Full(V \ {v}))}

\* Mutant: evicted bytes are not subtracted.
Insert_StillCounted(i, content) ==
  /\ crashed' = (Victims(SizeOf(i)) = {})
  /\ IF crashed'
     THEN UNCHANGED <<cache, count, raced>>
     ELSE \E V \in Victims(SizeOf(i)) :
            LET kept == Cached \ V
            IN  /\ cache' = [j \in kept \cup {i} |-> IF j \in kept THEN cache[j] ELSE content]
                /\ count' = count + SizeOf(i)
                /\ raced' = (raced \/ i \in kept)

\* cache.emplace() leaves a piece alone that is there; n_cached_byte grows anyway.
Insert(i, content) ==
  /\ crashed' = (Victims(SizeOf(i)) = {})
  /\ IF crashed'
     THEN UNCHANGED <<cache, count, raced>>
     ELSE \E V \in Victims(SizeOf(i)) :
            LET kept == Cached \ V
            IN  /\ cache' = [j \in kept \cup {i} |-> IF j \in kept THEN cache[j] ELSE content]
                /\ count' = count - Bytes(V) + SizeOf(i)
                /\ raced' = (raced \/ i \in kept)
-----------------------------------------------------------------------------
(***************************************************************************)
(* get(), called for a REQUEST.                                            *)
(***************************************************************************)

\* Mutant: the REQUEST is not checked against the own bitfield.
LookUp_Unchecked(s, i) ==
  /\ At(s, "idle")
  /\ piece' = [piece EXCEPT ![s] = i]
  /\ IF i \in Cached
     THEN buffer' = [buffer EXCEPT ![s] = cache[i]] /\ Goto(s, "send")
     ELSE Goto(s, "read") /\ UNCHANGED buffer
  /\ UNCHANGED <<stored, owned, cache, count, raced, crashed>>

\* The lookup under the shared lock, for a piece that is OWNED.
LookUp(s, i) ==
  /\ At(s, "idle")
  /\ i \in owned
  /\ piece' = [piece EXCEPT ![s] = i]
  /\ IF i \in Cached
     THEN buffer' = [buffer EXCEPT ![s] = cache[i]] /\ Goto(s, "send")
     ELSE Goto(s, "read") /\ UNCHANGED buffer
  /\ UNCHANGED <<stored, owned, cache, count, raced, crashed>>

ReadFile(s) ==
  /\ At(s, "read")
  /\ buffer' = [buffer EXCEPT ![s] = IF piece[s] \in stored THEN piece[s] ELSE Hole]
  /\ Goto(s, "insert")
  /\ UNCHANGED <<stored, owned, cache, count, piece, raced, crashed>>

InsertRead(s) ==
  /\ At(s, "insert")
  /\ Insert(piece[s], buffer[s])
  /\ Goto(s, "send")
  /\ UNCHANGED <<stored, owned, piece, buffer>>

\* The PIECE goes out of the buffer that get() has returned.
SendPiece(s) ==
  /\ At(s, "send")
  /\ buffer' = [buffer EXCEPT ![s] = Hole]
  /\ Goto(s, "idle")
  /\ UNCHANGED <<stored, owned, cache, count, piece, raced, crashed>>
-----------------------------------------------------------------------------
(***************************************************************************)
(* save(), called for a PIECE, and setOwned() after it.                    *)
(***************************************************************************)

\* writeAt.  A piece is saved by the session that has claimed it.
WriteFile(s, i) ==
  /\ At(s, "idle")
  /\ i \notin owned
  /\ \A t \in Sessions : pc[t] \in {"save", "own"} => piece[t] # i
  /\ stored' = stored \cup {i}
  /\ piece' = [piece EXCEPT ![s] = i]
  /\ buffer' = [buffer EXCEPT ![s] = i]
  /\ Goto(s, "save")
  /\ UNCHANGED <<owned, cache, count, raced, crashed>>

InsertSaved(s) ==
  /\ At(s, "save")
  /\ Insert(piece[s], buffer[s])
  /\ buffer' = [buffer EXCEPT ![s] = Hole]
  /\ Goto(s, "own")
  /\ UNCHANGED <<stored, owned, piece>>

SetOwned(s) ==
  /\ At(s, "own")
  /\ owned' = owned \cup {piece[s]}
  /\ Goto(s, "idle")
  /\ UNCHANGED <<stored, cache, count, piece, buffer, raced, crashed>>

Next ==
  \E s \in Sessions :
    \/ \E i \in PieceIds : LookUp(s, i) \/ WriteFile(s, i)
    \/ ReadFile(s) \/ InsertRead(s) \/ SendPiece(s)
    \/ InsertSaved(s) \/ SetOwned(s)

Spec == Init /\ [][Next]_vars
-----------------------------------------------------------------------------
(***************************************************************************)
(* Properties.                                                             *)
(***************************************************************************)
TypeOK ==
  /\ stored \subseteq PieceIds
  /\ owned \subseteq PieceIds
  /\ Cached \subseteq PieceIds
  /\ \A i \in Cached : cache[i] \in Contents
  /\ count \in 0..CacheLimit
  /\ pc \in [Sessions -> {"idle", "read", "insert", "send", "save", "own"}]
  /\ piece \in [Sessions -> PieceIds \cup {0}]
  /\ buffer \in [Sessions -> Contents]
  /\ raced \in BOOLEAN
  /\ crashed \in BOOLEAN

\* A PIECE carries the piece that was asked for, from the cache or from the file,
\* whatever was evicted or inserted meanwhile: nothing unwritten gets into the cache.
GetIsRight ==
  /\ \A i \in Cached : cache[i] = i
  /\ \A s \in Sessions : pc[s] \in {"insert", "send"} => buffer[s] = piece[s]

\* The cache never holds more than its limit, since n_cached_byte counts at least what
\* is there, also after pieces were counted twice.
LimitKept == Bytes(Cached) <= count /\ count <= CacheLimit

\* The count is exact, and ensureSpace() never runs out of pieces to evict, as long as
\* no two threads have missed the same piece at once.  After that it may: the surplus
\* stays in n_cached_byte for good (PieceRepository.cpp:31-32).
ExactUnlessRaced == ~raced => count = Bytes(Cached) /\ ~crashed
=============================================================================
