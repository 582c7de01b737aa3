# A TLA+ model of the cnt-v4 file-sharing peer

cnt-v4 is a BitTorrent-like program: a fixed set of peer processes, listed in
`PeerInfo.cfg`, connect pairwise over TCP, exchange the pieces of one file and
terminate when everybody owns everything.  This directory holds TLA+ modules
for the parts of it where threads, locks, queues and messages meet, the TLC
instances that check them, and TLAPS proofs about them.  All paths below are
relative to the repository.

## 1. Inventory

One peer is one process (`main.cpp`).  Its threads are

| thread | code | role |
|---|---|---|
| main | `main.cpp:56-99` | connects to the prior peers, then waits for the end |
| acceptor | `main.cpp:48-55` | accepts the later peers, detached |
| control thread, one per session | `Session::protocol` | runs the protocol with one remote peer |
| scanner, one per session | `AsyncMsgScanner::scanLoop` | turns bytes of the connection into events of the session's queue |
| PN timer, OPT timer | `setInterval`, detached | choose whom to unchoke |
| gc | `SessionCollection::cleanUp` | destroys finished sessions |

and the state they share, with what makes each part correct:

| component | state | operations | correct if |
|---|---|---|---|
| piece table (`SyncPieceBitfield`) | `sv`, atomic `n_owned`, mutex `m` | `snapshot`, `isOwned`, `setRequested`, `setOwned`, `owningAll`, set difference | a piece goes ABSENT, REQUESTED, OWNED and never back; one session claims it; the lock-free counter may be trusted |
| piece repository | file, cache, `n_cached_byte` | `get`, `save` | what is owned has been written; `save` once per piece |
| session (`Session`) | event queue, `peer_own`, choke and interest flags, `is_active`, `is_bcast_ready`, `m_bcast` | `setup`, event loop, teardown, `ackHave`, `choke`, `unchoke` | its view of the remote table is sound and nothing is lost from it; it ends when, and only when, both ends are complete; neither end is stranded in the teardown |
| scanner | none of its own | one event per message | FIFO; no second bitfield |
| session collection | `ss`, `pn_set`, `opt`, `n_unfinished_session`, mutex `m` | `newSession`, `pnAlgorithm`, `optAlgorithm`, `tryPreempt`, `relinquish`, `broadcastHave`, `cleanUp`, `wait` | sessions are found while they are looked up; seats are bounded and mean unchoked; a broadcast misses nobody |
| connection and buffers | socket, buffers, byte count | `read`, `write`, `flush` | a FIFO of messages; not used after the other end closed it |
| start and end | `Config`, `main`, `n_unfinished_session`, `m_end` | parse, connect, retry, accept, `wait` | one session per pair of peers; the process ends, with nothing left that uses the collection |
| logger | a file | one line per event | the numbers and the order of the lines |

Interaction: the scanner, the timers, preemption and the broadcasts of *other*
control threads all put events into one queue per session, which only that
session's control thread empties.  Control threads of different sessions meet in
the piece table (`m`, `m_req`), in the repository, in `broadcastHave`,
`tryPreempt` and `relinquish` (the collection's `m`, held while `m_bcast` of a
session may be taken).  The flags `peer_choke` and `peer_interest` are atomics
that the timers read while events that will change them are still queued.

What is hard: claiming a piece, the snapshot against the broadcast, the table
read several times in one handler, the end of a session ("spurious end",
`Session.cpp:193`), flags that lag behind the queue, and references to sessions
that the gc thread destroys.  `PROJECT.json` lists each such place under
`hazards`, with the properties that watch it or the reason there is none.

## 2. Modules

| module | models | main correspondence |
|---|---|---|
| `PieceBitfield` | status of a piece, `snapshot`, `peer_own - self_own` | `Eligible` is `AbstractPieceBitfield::operator-` |
| `PieceLedger` | abstract: exclusive claims, stored pieces | promise of the download machinery, no code |
| `Download` | the session threads of one peer sharing the piece table | `LockReq`, `Scan`, `Mark` are the critical section of `requestNextIfPossible`; `HandlePiece`, `Save`, `Log`, `CountOwned`, `PublishOwned` the statements of `case MsgPiece` and of `setOwned` between which other threads run |
| `HaveBroadcast` | `broadcastHave` against `setup`, `newSession`, `cleanUp` | `StartWalk`, `AckHave`, `LockAck`, `AckHaveSlow`, `EndWalk` are the walk; `LockBcast`, `TakeSnapshot`, `SetReady` the first block of `setup` |
| `Session` | both ends of one connection | one action per `case` of `protocol()`, two where the handler reads the table twice (`HandleHave`/`ReplyToHave`, `HandleBcast`/`CheckDone`); `Scan` is the scanner; `Wake`, `Drain*`, `SendTearDown`, `AwaitTearDown`, `Leave` the teardown; `Else*` other sessions of the peer; `PnSelect` ... `Inherit` what the collection may decide about this session |
| `SessionCollection` | all sessions of one peer, their seats and their lives | `PnTick`, `OptTick`, `TryPreempt`, `GiveUpSeat` (`relinquish`), `CleanUp`: each one critical section of `m`; `Fronts` is the result `nth_element` may leave; `peerTold` is the last ChokeMsg or UnchokeMsg of a session, which `HandleTimer` sends with `peer_choke` and the reply to NotInterested without |
| `Seat` | abstract: what a collection may do with the seat of one session | promise of the collection, no code; `Taken` and `PassedOver` are `pnAlgorithm`, `Lucky` and `Unlucky` `optAlgorithm`, `Preempts` `tryPreempt`, `Relinquishes` and `Unseated` the two sides of `relinquish` |
| `Launch` | all processes from start to exit | `Connect`, `NextRound` are the loop of `main`; `Accept` the acceptor; `CleanUp`, `Notify` the gc thread; `WaitTest`, `WaitSleep` the two halves of `cond_end.wait` between which `m_end` keeps nobody out |
| `PieceGeometry` | how the file is cut into pieces | `CeilingDiv`, `Begin`, `SizeOf` |
| `PieceRepository` | `get` and `save` of all sessions, the cache and its count | `LookUp`, `ReadFile`, `InsertRead` are `get`, `WriteFile`, `InsertSaved`, `SetOwned` the saving of a piece; `Victims` is `ensureSpace`, which may evict anything (order of an `unordered_map`) |
| `MessageFifo` | abstract: messages arrive once, in order, and do arrive | promise of the connection, no code |
| `Wire` | one direction of a connection: codec, both buffers, TCP | `WriteBuffered`, `WriteLong`, `Flush` are `BufferedWriter`; `Fill`, `Take`, `LongRead`, `LongReceive` are `BufferedReader`; `Writes`, `PayloadSize` are what the writer says, `Reads`, `PayloadReads` what the reader asks for |
| `DownloadProofs`, `HaveBroadcastProofs`, `SessionProofs`, `SessionCollectionProofs`, `LaunchProofs`, `PieceGeometryProofs`, `PieceRepositoryProofs`, `WireProofs` | proofs | section 5 |
| `MCSession` | surroundings and symmetry of the instances of `Session` | |

Each module looks at the system from one side and stands for the rest by
nondeterminism; what one module proves justifies what another takes as one step:

- `Session` and `HaveBroadcast` claim or own a piece in one action: `Download`
  implements `PieceLedger`, where these are atomic.
- `Session` takes the snapshot and bcast-readiness at once: `HaveBroadcast`
  (`NoHaveLost`) shows that the code makes them look so.
- `Session` lets the seats of a session change in every way a collection with
  other sessions could (`PnSelect` ... `Inherit`); `SessionCollection` has the
  collection itself and reduces the connection to "interest comes and goes".  `Seat`
  says where they meet: each step of `SessionCollection` treats each session as
  `Seat` promises, and `Session` allows just that (both proved).
- `Session` has one FIFO of messages per direction: `Wire` implements it
  (`FifoSpec`), because every handler ends with `bw.flush()` and the scanner goes
  on with the reader that `setup` has used.
- `Session` gets and saves a piece in one step: `PieceRepository` (`GetIsRight`).
- `Launch` keeps of a session that it ends when both ends are complete, and then
  does end: `OverMeansComplete` and `SessionEnds` of `Session`.
- `PieceRepository` lets one session at a time save a piece: `ExclusiveClaim`.

Files read by a module but not written by the code (TCP, `nth_element`, the
random generator) are sequences, sets and existential choices.

A definition whose name has an underscore (`Scan_EarlyUnlock`, `PnTick_NewOnly`)
is not part of a specification.  It is the neighbouring action with one plausible
mistake, kept to show that a property notices it (`mutants` in `PROJECT.json`).

## 3. What the runs show

Bounds are in the `.cfg` files.  `CHECK_DEADLOCK FALSE` everywhere: all runs end
when the peers are done.

| run | instance | properties | shows |
|---|---|---|---|
| `download` | 2 sessions, 2 pieces (14 thousand states) | `TypeOK`, `ExclusiveClaim`, `NoUnrequestedPiece`, `OwnedIsStored`, `SavePrecondition`, `CounterAgrees`, `FileLoggedLast`, `LedgerSpec`, `StatusNeverRegresses`, `ClaimsComplete` | the claim section, the save and `setOwned` in every interleaving; no path leaves `m_req` locked or drops a claim |
| `have_broadcast` | 2 sessions, 2 pieces (3.7 thousand) | `TypeOK`, `NoHaveLost`, `NothingInvented`, `WalkOnLiveSessions`, `EveryPieceAnnounced` | no session misses a piece, wherever the walk meets its setup; the walk meets no destroyed session and the locks never stop it |
| `session_mesh` | 1 piece, both ends with other sessions, one with timers, the sleep covers nothing (1.3 million) | `TypeOK`, `OverMeansComplete`, `CleanClose`, `PanicOnlyOnTearDown`, `NeverUnchokedUnawares` | setup, loop and teardown under every interleaving with other downloads; the worst a late broadcast can do is the panic on TearDown; nobody believes itself unchoked by a peer that does not know of it |
| `session_pieces` | 2 pieces, one end with other sessions, or timers at both ends and nobody else; the sleep covers broadcasts (386 thousand) | `NoPanic`, `ViewOfOwned`, `ClaimsAreBacked`, `SessionEnds` | partial tables on both ends; two complete peers end, and a seed gets its only peer to the end through any choking |
| `session_teardown` (violation) | 1 piece, other sessions at both ends, the sleep covers nothing | `NoPrematureTearDown` | section 6 |
| `session_choke` (violation) | 2 pieces, one end with other sessions and timers | `ChokeViewsAgree` | section 6 |
| `collection` | 2 sessions, 1 preferred seat, with and without OPT ticks (100 thousand) | `TypeOK`, `SessionIsKnown`, `PnBounded`, `PnMeansUnchoked`, `Served` | lookups and seats while sessions come and go; the last event enqueued for a preferred neighbour is an unchoke; an interested peer is sent an UnchokeMsg again and again while seats suffice, unless it is misjudged (below) |
| `collection_relinquish` (violation) | 2 sessions, 1 seat | `RelinquishGivesUpSeat` | section 6 |
| `launch` | 3 processes, the second line a seed (284 thousand) | `TypeOK`, `OneConnectionPerPair`, `CleanExit`, `AllEnd` | processes that start in any order, connect, download and end; a peer may be complete and its first sessions over before the last peer is up |
| `launch_wait` (violation) | 2 processes | `WaitReturns` | section 6 |
| `repository` | 3 sessions, pieces of 2, 2 and 1 bytes, room for 3 bytes (19 thousand) | `TypeOK`, `GetIsRight`, `LimitKept`, `ExactUnlessRaced` | concurrent misses, savings and evictions |
| `wire` | 4 batches: handshake and bitfield, the answer, and two of any shape; buffers of 4 and 8 bytes, pieces of 3 and 8 (20 thousand) | `TypeOK`, `StreamIsExact`, `FifoSpec` | long and short reads and writes, every cut of the stream, both sides of the codec |

Why the bounds are enough.  Two pieces tell "this piece" from "another piece" and
"some" from "all"; one piece is enough where the question is the end of the
session, which concerns the last piece only.  Two sessions make every race on the
table, and a walker beside a session in setup or under destruction; the theorems of
section 5 carry the safety properties to any number.  One preferred seat with two
sessions makes the seats scarce.  `MaxTimerEvents` (Session) counts decisions about
the remote end that it has not heard of; one is enough for a decision to be stale,
and timers tick every few seconds.  `MaxQueue` (SessionCollection) lets new decisions
fall while one event per queue is unhandled; the queues then grow to three.  In
`Session`, timers at both ends together with other sessions at both ends, or two
pieces with timers and other sessions, are beyond a few minutes of TLC; the constant
`Surroundings` says which peers have what, and the runs split it.

Three processes are needed for a peer that is both acceptor and connector, and for a
collection that is empty for a moment although a session is still to come.  With the
seed in the middle the two others connect to it from both sides.
`Served` is about what the remote peer is told, not about `peer_choke`, and it excludes
two situations by name.  `Contended`: more peers are interested than there are seats of
preferred neighbours; the code promises nothing to those with less traffic.
`Misjudged`: `peer_choke` says Unchoked after the ChokeMsg of `Session.cpp:141`, and no
TimerChoke is queued; every unchoke is then suppressed, which is the disagreement of
`session_choke`.  Without this exception TLC finds the property violated: an heir of a
seat loses interest, gains it again, gets the free seat and stays choked while every PN
tick enqueues an unchoke for it.  What is left says that this is the only way in which an
interested peer without competitors is forgotten.

In `repository` a limit of 3 bytes holds one big piece and the small one: a second
big piece evicts, and two misses of the small piece are enough for the
surplus to matter.
In `wire` words are 2 bytes, the prefix 3, the digest 1: what counts is which reads and
writes exceed which buffer.  Handshake and bitfield header fill the writer's buffer to
the brim, so that the bitfield is a long write; the big piece is a long read, the
small one is not, and both exceed what is left of the writer's buffer or not, by what
is in it.  `MaxBatches` of 4 gives every pair of shapes in a row after the two batches
of `setup`.

`HaveBroadcast` starts from no pieces or all pieces (`has_file`), as do `Session`
and `PieceRepository`.  `Download` starts from none: a complete peer claims nothing.

## 4. Fairness

- `Download`: strong fairness of each thread and of the PIECE that answers a
  REQUEST.  Mutexes are contended only for moments, so a waiting thread gets them;
  `case MsgRequest` always answers, choked or not; queues are FIFO.
- `HaveBroadcast`: weak fairness of setups, walks and handlers; `m` is contended a
  bounded number of times.
- `Session`: weak fairness of control thread and scanner, and of a broadcast under
  way at another thread (`EveryPieceAnnounced`).  Strong fairness of `SendTearDown`,
  which needs an empty queue: ticks are seconds apart, the drain takes no time.
  No tick is assumed to happen and no other session to download anything.
- `Launch`: weak fairness of each `main` (sleep, connect, test) and of the acceptors,
  sessions and gc threads together; which of these comes first is left open, and each
  of their steps can be taken only finitely often.  Spurious wake-ups may but need not happen.
  Two of these steps stand for whole protocols.  That a session between complete peers ends
  (`SessionDone`) is `SessionEnds` of `Session`, with its assumptions.  That a peer gets
  its last piece when connections lead to it (`Complete`) is an assumption, which no module
  proves beyond the seed and the downloader of `SessionEnds`: it leaves out a panic of a
  session, the crash of a repository and a connection that stays idle or choked.
- `Wire`: weak fairness of the writing and of the reading thread; nothing has to be sent.
- `SessionCollection`: weak fairness of `TryPreempt` and `Relinquish`, strong of
  `HandleTimer` (messages cannot overtake an event of a FIFO queue forever) and of
  `PnTick` (the clock does not wait for short queues; only the bound does).
  Nothing is assumed of the OPT timer, remote peers or the end of sessions.

`SleepCoversBroadcasts` is the assumption behind `Session.cpp:194-197`: that a
broadcast under way when a session is over arrives within its `sleep_for(1s)`.
It is a constant: `session_pieces` needs it to be TRUE (without it `NoPanic` fails and
with it the end), `session_mesh` shows what holds without it, `session_teardown` what
does not.

## 5. What is proved

Every theorem holds for all values of the constants, under the named assumption of
its module: finite `Pieces`, `NoSession \notin Sessions`; two ends (Session); at least
two processes and one seed (Launch); finite `Sessions` and `NPn \in Nat`
(SessionCollection); no piece larger than the cache (PieceRepository); prefix, words,
handshake and bitfield header that fit the buffers (Wire).  Every safety property of a
passing run is a theorem, and each module states its inductive invariant as one
(`Invariance`, in PieceRepositoryProofs `RepositoryInvariant`).

`DownloadProofs`: type correctness, `ExclusiveClaim`, `NoUnrequestedPiece`,
`OwnedIsStored`, `SavePrecondition`, `CounterAgrees`, `FileLoggedLast`,
`StatusNeverRegresses` and the refinement of `PieceLedger` (`ImplementsLedger`).
None of these is inductive.  The invariant adds who is inside which mutex
(`Mutexes`), that the candidates of the thread in `m_req` are still ABSENT and that
claims are disjoint and REQUESTED (`Claims`), what has been saved and logged at each
point of `case MsgPiece` (`Stores`), and that the counter is the number of OWNED
entries plus the thread between the two assignments of `setOwned` (`Count`).  The
last part needs cardinality lemmas: marking a REQUESTED piece adds one, and only the
full set has the full count.

`HaveBroadcastProofs`: type correctness, `NoHaveLost`, `NothingInvented`,
`WalkOnLiveSessions`.  The invariant says that a session whose snapshot is taken has
every announced piece in its snapshot, its queue or its sent messages, and the piece
of the walk under way unless the walk has still to visit it (`Told`); that needs
the meaning of the two mutexes (`Mutexes`) and that a walk only has live sessions
before it (`Walk`).

`SessionCollectionProofs`: type correctness with queues of any length,
`SessionIsKnown` (with `EndedWait`: only ended sessions wait for the gc thread),
`PnBounded` (cardinality of the front that `nth_element` leaves, and of adding one
member), and, when the OPT timer does not run, `PnMeansUnchoked`, which is about the
events for a session, not about what its remote peer is told: `Decided`, the last
event of the queue or the flag if there is none, changes exactly as `Tell` says
(`TellDecides`), handling an event leaves it alone (`HandleTimerDecides`), and
preferred neighbours are active (`PnActive`), so no unchoke is ignored.

The second half of that module is the promise to one session (`Seat`): until it has
ended, a session's seat changes only by its own `tryPreempt` and `relinquish` or as a
timer or another session may decide, and in its loop it is told exactly the words that
go with the change (`CollectionKeepsPromise`).  That needs `PnActive`, `SessionIsKnown`
and that who relinquishes has lost interest and so is not its own heir (`NotItsHeir`).
The hypothesis `NPn # 0` is needed: with no preferred seats a session alone in its
collection would be made opt, which `Session` leaves out.  `SessionProofs` has the other
half: `Session` with everything it says about seats replaced by the promise
(`PromisedSpec`) is `Session` (`PromiseIsEnough`).  So the theorems about a connection
hold beside any number of other sessions, up to three differences that the two modules
state: `Session` handles INTERESTED and NOT INTERESTED and calls the collection in one
action; it has the collection decide only while few decisions are unhandled
(`MaxTimerEvents`, any number), and no more about a session that has ended.

`PieceGeometryProofs`: `ceilingDiv` returns the least count that covers the file
(`CeilingDivBounds`), every piece has between 1 and `PieceSize` bytes, all inside the
file (`PieceSizes`), and every byte is in exactly one piece (`PiecesPartitionFile`).
It assumes a file size of at least 0 and a piece size of at least 1.

`PieceRepositoryProofs`: `GetIsRight`, type correctness, `LimitKept`,
`ExactUnlessRaced`.  `RightInv` says that a thread that is to read a piece, or has
written it, is at a piece that is in the file, and that what it is about to insert or
send is that piece (`Holds`); ownership implies storage.  How much is evicted does not
matter for it.  `CountInv` says that `n_cached_byte` covers what is cached and stays within the limit, and that,
until two misses of one piece have raced, it is the bytes cached and `ensureSpace` has
not run out of victims.  The size of a set of pieces is the cardinality of the union of
their byte ranges, so that no induction is needed: pieces share no byte
(`ExtentsDisjoint`, from `PiecesPartitionFile`), hence sizes add (`BytesUnion`).
`RoomIsFound` shows that an exact count always leaves a smallest sufficient set of
victims, so that only the double count of a race can make `ensureSpace` fail.

`SessionProofs`, for any pieces, surroundings and number of timer events.  The
invariant describes the two queues of a direction (`net`, then `eq`):
- `BitfieldFirst`: the bitfield is the first message and the only one of its type.
- `Truthful`: HAVE, bitfield, own broadcasts and `peer_own` name owned pieces only.
- `AsksForKnown`: only what the other end has announced is claimed.
- `Carried`: a claim has exactly one carrier, the REQUEST or the PIECE, on the wire or
  in the queue; what no claim asks for has none.
- `OverIsDone`, `TearDownLast`: who has left the loop is complete and knows that the
  other end is; TearDown is the last message of an end, and who leaves has had it.
- `ChokedIsTold`: to an end that is not unchoked in the books of the other one, the
  last word under way is a CHOKE, or it has been handled.
- `LoopHasNews`: a session that is in its loop although both ends are complete has a
  piece still to announce, so its own broadcast will take it out of the loop.

From these follow, whatever the sleep covers, `TypeOK`, `ClaimsAreBacked`,
`OverMeansComplete`, `CleanClose`, `PanicOnlyOnTearDown`, `NeverUnchokedUnawares`, that
no REQUEST or PIECE is unasked for (`NothingUnasked`) and that `peer_own` is true
(`BeliefsAreTrue`).  That `peer_own` is complete (`ViewOfOwned`) and nobody panics
(`NoPanic`) is proved for `SleepCoversBroadcasts` only, which the theorems state as a
hypothesis: `session_teardown` shows what happens otherwise.  It needs `CoveredInv`:
an owned piece is in a broadcast, in the queue, on the wire or known (`NothingForgotten`),
and the drain drops nothing that the other end still needs (`NothingDropped`); then a
session that dequeues TearDown has left its loop (`NoTearDownInLoop`).

`LaunchProofs`, for any number of processes and any seeds: type correctness,
`OneConnectionPerPair`, `CleanExit`.  `Tries`: what `main` has still to connect to is
what it has no session with.  `Waiting`: the backlog of an acceptor has each earlier
connection that it has not accepted, once.  `Ended`, `Queued`: a session ends after both
sides have made it and are complete, and waits for the gc thread once.  `Counted`:
`n_unfinished_session` is the number of peers whose session is not gone, a set whose
cardinality goes down by one in `CleanUp`.  `Finished`: when the gc thread or `main` has
left its loop that set is empty.  So a process that exits has had a session with every
other, none of them alive.

`WireProofs`, for all sizes of messages, pieces and buffers and every cut of the
stream: type correctness, `StreamIsExact` and that every step of `Wire` is one of
`MessageFifo` or a stutter (`ImplementsFifo`, the safety half of `FifoSpec`).  `Stream`
says that the partial message, the reader's buffer, the network, the writer's buffer and
what is still to be written are one stretch of the stream without gap or overlap,
`Reading` that the reader is at the start of a field and asks for what is left of it,
`Written` the same of the writer, `InBatch` that a batch is written before it is
flushed; `Delivered` that what has been read is what was sent.  Two parts of the codec
are lemmas of their own: the reader asks for as many bytes as the writer has
said (`ReadsAsWritten`), and the type byte, which `BufferedWriter.hpp:16` pushes without
asking for room, finds room (`RoomToPush`).  The latter is where `WireAssumption` needs
a buffer of a prefix, two words and one byte.

Only model-checked: the liveness properties (`ClaimsComplete`, `EveryPieceAnnounced`,
`SessionEnds`, `Served`, `AllEnd`) and the liveness halves of `LedgerSpec` and
`FifoSpec`, for which the prover has no rules about fairness and ENABLED, and the properties
the code violates.

## 6. Disagreements between code and comments

Each of the first four is a run whose counterexample is a behaviour of the code as it stands.

- `session_teardown`: the sleep before the teardown stands for a synchronisation
  with other control threads that does not exist; if a broadcast comes later,
  TearDown overtakes its HAVE and the other end panics.
- `session_choke`: the ChokeMsg that answers NotInterested does not set
  `peer_choke`; when no TimerChoke follows, because the session had lost its seat
  without being choked, `peer_choke` goes on saying Unchoked and no Unchoke is
  sent until a later TimerChoke has been handled.  An interested peer that is alone may
  never cause one (`Misjudged` of `SessionCollection`).
- `collection_relinquish`: a session can be preferred neighbour and opt at once, and
  relinquishes only the first.  The other reference survives the session:
  `optAlgorithm` then uses freed memory (`crashed` in the model).
- `launch_wait`: `wait()` tests `n_unfinished_session` under `m_end`, and the gc thread
  changes it and notifies under `m`.  If both happen between the test and the sleep,
  the notification is lost and the process sleeps forever.  `AllEnd` shows that
  nothing else in the launch, the retries, the acceptor, the gc thread and `wait()` does.
  What keeps pieces from arriving or sessions from ending lies outside it (section 4):
  the panic of `session_teardown`, the crash of a repository, a peer that is never
  unchoked.

The model also keeps smaller disagreements that have no run of their own.
`pnAlgorithm` does not check the interest its comment requires
(`SessionCollection.cpp:49-51` against `:70`; `PnTick` takes any front).  The OPT
timer may pick the same session again before that has handled its unchoke, and then
chokes it last (the TODO at `SessionCollection.cpp:7-9`; `OptTick`).  The first
NotInterested, or an Interested that finds no free seat, leaves `peer_choke`
Unknown (`Session.hpp:117-119` says it is set then), which keeps the session from
being picked by the OPT timer (`HandleNotInterested`, `Eligible`).  And two sessions
that finish a piece together log the same number of owned pieces, since
`Session.cpp:179` reads the counter before `setOwned` raises it (`Log`,
`CountOwned` of `Download`).

In `PieceRepository`, two sessions that miss the same piece at once both add its size
to `n_cached_byte`, while `emplace` keeps one entry (`PieceRepository.cpp:31-32`).  The
surplus stays, the cache gets smaller with each such race, and when it exceeds the
limit less a piece, `ensureSpace` dereferences `cbegin()` of an empty map (`crashed`).
`ExactUnlessRaced` shows that there is no other way to it.  With the 16 MiB of the
build and pieces of 32 KiB this takes some 500 races.

A peer that is unchoked but has nothing to request, and becomes interested again by a
HAVE, only sends Interested (`Session.cpp:156-159`); it requests again when it has
been choked and unchoked (`ReplyToHave`).  A list of one peer makes a process that
never ends: its gc thread waits for a session (`SessionCollection.cpp:178`), and the
destructor joins it; `LaunchAssumption` excludes it.  A failed `connect()` leaks its
socket and its `addrinfo` (`Connection.cpp:14-21`).

## 7. Abstractions, and what is not modelled

- Names, lengths and bytes: a message is a record with at most a piece, a bitfield a
  set, a rate an arbitrary order.
- Using a destroyed session is undefined; `SessionCollection` lets it pass unnoticed
  or be fatal.  That a new session may get the address of a destroyed one, and so
  inherit its place in `pn_set`, is not modelled.
- `PnTick` and `OptTick` read the flags of all sessions at once.  The code copies
  them one by one while `m` is held; flags of different sessions are written by
  different threads and independently while `m` is held, so each mixed copy is also
  a state of another interleaving.
- `PieceRepository` has of a buffer's content only which piece it is; that `count` goes
  on after `crashed` is not modelled, the behaviour being undefined.
- `Wire` has of a byte only its place in the stream.  A reader that is out of step
  would read arbitrary lengths and types; the model lets it read those of the message
  its bytes come from, after `StreamIsExact` has failed anyway.  Socket buffers are
  unbounded: `send` never blocks.
- `Launch` makes a connection and the session for it in one step; between
  `Connection{...}` and `newSession` nothing else looks at either.
- `Session` does not check that the handshake comes from the expected peer
  (`Session.cpp:28-31`, a panic): a process that listens at the wrong address is a
  mistake of the configuration.
- Connection failures after set-up are not modelled: the code panics on them.  Nor is
  the end of the stream, where `recv` returns 0 every second until the scanner is
  cancelled (`Connection.hpp:43-50`): it changes nothing in the buffers.
- The detached timer threads at the exit of a process are not modelled.  A tick that
  falls between the destruction of the collection and the end of the process uses
  freed memory; there is no order in the code to state anything about it.
- Not worth modelling: parsing of arguments and configuration, opening of files,
  scripts, wording of the log.

## 8. Plan

1. Prove that `Download`, restricted to one session, takes the steps by which
   `Session` stands for it.
2. The same for `HaveBroadcast` and the snapshot that `Session` takes in one step.
