# A TLA+ model of the GameServerHomework server

The repository is a sequence of homework versions of a Windows IOCP game
server.  `Homework1` and `Homework3` are echo servers; `Homework4` adds a
multi-threading library (reader/writer spin lock, lock-order checker, timer,
`DoSync`, the grand central executer) and players; `Homework5` a database
helper; `Homework6` logging, a database thread pool and aggregated sends;
`Homework7`, the last version, a feed center and protobuf packets.
`DummyClients` and `DataSendingClientIOCP` are load generators built from the
same session code, `ServerGUI` is a C# front end.  The model follows
`Homework7` for everything that exists there, and `Homework4` for the
multi-threading library, which later versions dropped.

## Inventory

| part | state | operations | meets the others through |
|---|---|---|---|
| `CircularBuffer` | memory, regions A and B | `GetFreeSpaceSize` (may open region B), `GetBuffer`, `Commit`, `Remove`, `BufferReset` | a `Session` owns two; the kernel reads and writes them while an operation is in flight |
| `Session`, `ClientSession` | `mConnected`, `mRefCount`, buffers, `mSendBufferLock` | `PostAccept`, `PreRecv`, `PostRecv`, `PostSend`, `SendRequest`, `DisconnectRequest`, their completions, `AddRef`, `ReleaseRef`, `SessionReset` | each `OverlappedIOContext` holds a reference; completions run on any I/O thread |
| `ClientSessionManager` | free list, issue and return counters, `mLock` | `AcceptClientSessions` (main thread), `ReturnClientSession` | last `ReleaseRef` calls it back |
| `IOThread` | one completion at a time; in `Homework6` a list of session pointers, `LSendRequestSessionList` | `DoIocpJob`, `DoSendJob` | the completion port; `FlushSend` of the listed sessions |
| packet handling | none of its own | `OnReceive`, one handler per packet type | runs inside `RecvCompletion`; handlers send or disconnect |
| `FeedCenter` | static vector of raw session pointers | `SubscribeFeed`, the feed thread's walk, `SendFeedOnce` | tests and references sessions from a thread of its own |
| `FastSpinlock` (`Homework4`) | one `long` | enter and leave, exclusive and shared | sessions, players and managers hold one each |
| `LockOrderChecker` | per-thread stack | `Push`, `Pop` | called by `FastSpinlock` |
| `GrandCentralExecuter` | counter and concurrent queue | `DoDispatch` | tasks of all I/O threads, run by one of them |
| `Timer`, `SyncExecutable` | per-thread priority queue | `PushTimerJob`, `DoTimerJob`, `DoSync` | locks the owner of the job |
| `Player`, `PlayerManager` (`Homework4`) | alive flag, heartbeat, buffs; id map | `Start`, `OnTick`, `PlayerReset`, `AddBuff`, `DecayTickBuff`, register, list | started by a timer, buffed by executer tasks |
| database pipeline | contexts in flight | post, `SQLExecute`, `OnSuccess`, `OnFail` | a second completion port; a context holds a session reference |
| `Log`, `Exception`, pools | rings, free lists | append, dump, allocate, free | thread-local and global |

What is hard here is concurrency: a session is driven by whichever I/O thread
dequeues its next completion, several completions of it may be handled at the
same time, each Winsock call may fail after its context exists, and the object
goes back to the pool at whatever moment the last reference disappears.  Next
come arithmetic on packed words and wrapping counters, the two-region buffer,
raw pointers kept while the thing pointed to changes (a parser's stream, the top
of a timer queue, a list of sessions), and the parts that are shared without a
lock.

What makes each part correct:

* buffer: bytes come out once, in order; a promised space is really free;
* sessions: the count equals the contexts that exist; nothing refers to a
  pooled session; one receive chain per connection; a session that starts to
  disconnect returns;
* feed: never touches a session that is being returned; reaches every
  connected one;
* lock: exclusion, no carry between the fields, no reader past a waiting
  writer, progress;
* executer: one runner, no task left behind;
* lock order: the checker's assertions hold on every path, and as long as they
  do nobody waits in a circle;
* timers and players: what is popped is what ran; a living player is in the
  map; no threads wait for each other;
* aggregated sends: one send of a session at a time, and nothing is left in a
  buffer that nobody will flush;
* database: an answer reaches the connection that asked or nobody, and the
  context that carries it gives its reference back.

## Modules

| module | models | role |
|---|---|---|
| `CircularBuffer` | `CircularBuffer.h`, `.cpp` | operators on a record with the memory and the two regions |
| `SessionBuffer` | how `Session` uses a buffer | state machine: append, posted receive, its completion or error, consumption, reset |
| `ByteFifo` | | abstract queue of bytes that `SessionBuffer` implements |
| `PacketParser` | `ClientSession::OnReceive` | extends `SessionBuffer` with the stream that reads the buffer |
| `SessionLifecycle` | sessions, pool, `DoIocpJob`, `AcceptClientSessions`, packet handlers | state machine |
| `AggregatedSend` | send path of `Homework6` | extends `SessionLifecycle` |
| `DatabaseJobs` | player load of `Homework6` | extends `AggregatedSend` with database threads |
| `FeedCenter` | feed thread and subscription | extends `SessionLifecycle` |
| `FastSpinlock` | lock of `Homework4` | state machine on `mLockFlag` |
| `ReadersWriterLock` | | abstract lock that `FastSpinlock` implements |
| `GrandCentralExecuter` | `DoDispatch` | state machine |
| `LockOrderChecker` | `Push`, `Pop`, locks with an order | state machine of any program that uses the locks |
| `Players` | timers, players, map, session return of `Homework4` | extends `LockOrderChecker` |
| `SessionBufferProofs`, `PacketParserProofs`, `SessionLifecycleProofs`, `DatabaseJobsProofs`, `FastSpinlockProofs`, `GrandCentralExecuterProofs`, `LockOrderProofs`, `PlayersProofs` | | theorems about the module they are named after; `DatabaseJobsProofs` also holds those about `AggregatedSend` |
| `MCSessionLifecycle`, `MCDatabaseJobs` | | symmetry sets for TLC |

**SessionBuffer.**  `buf` is the C++ object, bytes included; `posted` the
window given to `WSARecv`.  The refinement mapping reads region A followed by
region B.  A reset happens only with no receive in flight: that is what
`RefCountExact` and `PoolAccounting` of `SessionLifecycle` guarantee.

**PacketParser.**  `stream` is the protobuf stream of `OnReceive`: an offset
into the memory and the bytes left.  It is made at the completion of a receive
from the bytes that are contiguous then, and each round of the loop advances it
and removes the packet from the buffer, two computations of one position that
must agree although `Remove` may replace region A by region B.  A header is
two bytes, `mSize` and `mType`, both signed as in the code.  `OnReceive` refuses
a type that is not positive but no negative size: `Skip` then stays where it is,
while `Remove` is given `HEADER_SIZE + mSize` as a `size_t` (`SizeModulus`).
The other steps are those of `SessionBuffer`, which serves the send buffer too.

**SessionLifecycle.**  The variables carry the names of the members.
`pending[s][k]` counts the operations of type `k` that the kernel holds.  Each
I/O thread has a program counter whose labels are the points of `DoIocpJob`
and its callees between two accesses to shared state; `ses` and `kind` are the
fields of its context, `fresh` is the type of a context it has just created,
`back` the place to which the final `ReleaseRef` returns.  The three callers
of a Winsock failure path share `NewContext`, `IssueOk` and `IssueFails`;
the operators `After...` say where each goes on.  `packets` tells a handler's
`SendRequest` from `EchoBack`'s `PostSend`.  `issued` is a history variable:
the reference given by `AcceptClientSessions` has not been released.  Buffer
contents appear as "the data fits or does not".

`associated` is the set of sessions whose present socket is on the completion
port: `AcceptCompletion` puts it there after the socket options and `getpeername`,
so when one of those fails no completion of that socket is ever delivered, that
of `DisconnectEx` included.

`AcceptEx` failing ends the main loop, as in `StartAccept`.  A completion with
an error is distinguished only where `DoIocpJob` does, so a failed accept
still runs `AcceptCompletion`.

**AggregatedSend.**  The life of a session is that of `SessionLifecycle`
without packet handlers; `Homework6` echoes every receive.  `PostSend` copies
and appends to the list of the thread; `DoSendJob` runs `FlushSend` for the
front of the list until it returns true, and only then the thread fetches the
next completion.  `mSendBuffer` is the sequence of the sizes of its non-empty
regions, because `FlushSend` sends one region only.  A thread in `FlushSend`
has kind `"flush"`: it holds no reference, which is what makes its steps
different from those of a completion.  It may therefore come to a session whose
last reference has just been released, and even to one that is in the pool.  `mSendPendingCount` is not reset by
`SessionReset`, as in the code.

**DatabaseJobs.**  A context is a record in one of three places: the request
port, a database thread, the completion port of the I/O threads.  The id comes
from a static counter that all I/O threads increment without a lock, so it is
any number below `MaxPlayerId`.  SQL Server is the choice of success or failure.
`PostQueuedCompletionStatus` may fail at both ends: a request that is refused is
only printed (`Homework6/DBManager.cpp:89`), its context stays in `requests` and
`unposted` and keeps its reference; a result that is refused is
`CRASH_ASSERT(false)` (`Homework6/IocpManager.cpp:181`), which sets `aborted`.  Two variables are history: `asked`, the id
that the connection of a session has asked for, and `revived`, which becomes
true when `FlushSend` takes a reference of a session that has none (`Revives`,
`Homework6/Session.cpp:157`).  What the run and the theorems say of references,
the pool, rows and stranded bytes is said until then: a session revived in that
way can be returned twice, and after that nothing holds (see below).  That one
send is in flight at a time, and the types, hold without the condition.

**FeedCenter.**  `slots` and `last` are the storage and the end pointer of the
vector.  `emplace_back` is two steps, construction behind the end and advance
of the end; the advance may use the value read before or the present one,
which is what an unsynchronised increment can do.

**FastSpinlock.**  The constants are those of the header (writers from bit 20,
eleven bits).  Each `InterlockedAdd` and each look at the word is one step.

**GrandCentralExecuter.**  The counter, the queue, and five labels per thread.
No task of the program dispatches another, so nesting is not modelled.

**LockOrderChecker.**  A lock is a class and an owner.  `EnterLock` pushes
before it waits, as the code does, so the stack of a waiting thread ends with
the lock it waits for; `Acquire` is the end of the waiting.  An assertion that
fails sets `failed`, after which nothing happens.  Shared and exclusive modes
are not told apart here: the checker does not, and taking a shared lock as
exclusive only adds waiting.

**Players.**  Between two completions a thread runs its due timer jobs, each
under the lock of its player.  A queue is a sequence whose first element is
the top of the heap; a pop brings up any of the earliest others.  `dangling`
holds the threads whose reference to the top was invalidated by a growing
vector.  `capacity` starts at 0, since nothing is reserved, and a push onto a
full vector while a job runs moves it; `LeaveLock` may then be called on any
player, the right one included.  A session is free, connected, being returned,
or lost, when its accept fails before its socket is on the port; its references,
sends and receives are left to `SessionLifecycle`.  The executer is its counter: whoever increments it from 0
runs tasks until it is 0 again, calling `GetCurrentPlayers` for each.  The
buffs themselves are left out.

## Runs

| run | instance | shows |
|---|---|---|
| `buffer_fifo` | capacity 5, header fields -3, 0 and 1 | FIFO refinement, disjoint regions, free receive window, the space that is promised lies in the memory and hits no stored byte; the parser's pointer stays at the front of the buffer exactly until a packet of negative size |
| `lifecycle_safety` | 2 sessions, 2 threads, all calls may fail | exact references, balanced pool, no failed assertion, single receive chain, one connection per issue, no waiting in a reset; the inductive invariant `IndInv` of the proofs |
| `lifecycle_return` | 1 session, 2 threads, `WSARecv` and `DisconnectEx` succeed | a connected session is listened to; the disconnection of a socket on the port ends in the pool; a session whose socket options fail never does |
| `homework6` | 1 session, 2 I/O threads (interchangeable), 1 database thread, `WSARecv`, `WSASend` and posts to a port may fail | one send at a time; until a session is revived: no stranded bytes, answers stay with their connection, references exact, those of forgotten requests included; the inductive invariant `JobInv` of the proofs |
| `rwlock` | 4 threads | refinement, no overtaking, drain ends, progress |
| `executer` | 3 threads, 4 tasks | one executer, exact counter, every task run |
| `players` | 2 players, 2 threads, 2 connections started | a lock-order assertion fails through a dangling reference only, the timer pops what it ran, living players are registered, no threads wait for each other |
| `disconnect_failure` | 1 session, `DisconnectEx` fails | violated: the session is lost |
| `feed_assertion` | 1 session, feed thread | violated: `CRASH_ASSERT` of `ReturnClientSession` |
| `feed_broadcast` | 2 sessions | violated: one connected session receives no feed |
| `aggregated_livelock` | 1 session, 2 threads, nothing fails | violated: all threads spin in `DoSendJob` |
| `player_ticks` | 1 player, 2 accepts | violated: two chains of `OnTick` for one player |

**Bounds.**  Capacity 5 lets both regions hold several bytes, be partly
drained and refuse a write, and holds two packets in one receive; longer buffers
add no new relation between the four pointers, and the theorems remove the
bound.  Of the negative sizes, -3 makes `Remove` take everything; with -1 and
-2 it takes one byte or none, which only the proof covers.  Two sessions suffice for a session to be reissued while another one is out, two
threads for any pair of handlers to overlap; there is one send in flight per
session (`MaxSends`) and one packet with an effect per receive (`MaxPackets`),
so a send from a handler, an echo and their completions still meet.
`CounterModulus` is the number of sessions plus one, so the issue and return
counters wrap often.  `MaxStored` = 2 gives the send buffer of `AggregatedSend`
two regions of one byte; one session is enough there, because a list and a
lock belong to one session and the second thread provides the interleaving,
and it is reissued without bound.  `MaxPlayerId` = 2 lets the rows of two
successive connections differ.  Four threads at the lock are a holder, a
drainer and two that come too late.  Four tasks for three threads let a thread
dispatch again while the executer leaves.  In `Players`, `MaxTick` = 2 and
`MaxAccepts` = 2 with delays of one tick let a player start after its reset,
tick again, and be started twice; `player_ticks` has a heartbeat of two so that
an old `OnTick` outlives a reset.  `capacity` is unbounded but follows the pushes,
of which the two bounds leave few.

**Deadlock.**  The lifecycle runs and the runs on top of them switch TLC's
deadlock check off because the server ends after a failed `AcceptEx`, because a
failed assertion ends the program and because a lost session can leave it idle;
the executer run because its tasks are used up; the player runs because the
clock stops and the accepts end.  What TLC cannot see there `NoDeadlock` says as
an invariant, of any group of threads: for a spinning thread whom it waits for,
and for an executer that finds no task that somebody can still count one.

**Fairness.**  A thread inside a handler keeps running and gets a spin lock
that is free again and again; this is the operating system's scheduler and the
100 ms sleep between two calls of `AcceptClientSessions`.  Completions are
assumed only for sockets that are being disconnected, where the kernel aborts
what is outstanding, and only when they are on the completion port; a connected
peer may stay silent.  `aggregated_livelock`
assumes in addition that sends the kernel has accepted complete, provided a
thread fetches the completion, so that what it shows is not the peer's fault.
In the lock, code between enter and leave ends; in the executer, tasks return.
`Players` has no fairness: its spin lock promises none, and an executer may be
kept busy by the others for as long as they dispatch, so that a thread comes back
to its port is not claimed.  No thread is assumed to call anything, and no completion to come.

## What the runs say against the code

* `Session.cpp:25-36`: `mConnected` has been exchanged to 0 when `DisconnectEx`
  fails, so nobody will try again and `DisconnectCompletion`, which releases
  the reference of the issue, never runs.
* `ClientSession.cpp:97`, in a run that passes (`FailedSetupIsLost`): a socket
  option or `getpeername` fails, `AcceptCompletion` leaves its loop before
  `CreateIoCompletionPort` and disconnects a socket that is on no port; the
  completion of `DisconnectEx` never comes and the session is never in the pool
  again.
* `PacketHandling.cpp:65`, in `buffer_fifo`: `mSize` is a signed short and a
  negative one passes the only test of it.  From there to the end of the loop
  parser and buffer are apart; `ParserReadsBuffer` says so with an equivalence.
* `FeedCenter.cpp:125` then `:77`: `IsConnected()` is true, the connection goes
  down, its last reference is released, and only then does the feed thread take
  one.
* `FeedCenter.cpp:182`: two accepts on two I/O threads subscribe together.
* `Homework6/IOThread.cpp:150`: both threads have a session in their list whose
  earlier send is not completed.  `FlushSend` returns false, the loop goes on,
  and no thread is left to fetch the completion that would end it.
* `Homework4/Player.cpp:45`: a connection ends before its next `OnTick` is due,
  the next connection starts the same player, and the old `OnTick` finds it
  alive.  Both chains re-arm from then on.  In the trace TLC prints, the thread
  passes through references that dangle and still show the right player; the
  second chain does not depend on that.
* `Homework4/Timer.cpp:38`, in `players` (`OnlyDanglingFails`): `DoTimerJob`
  keeps a reference to the top of the queue, an `OnTick` that re-arms itself
  pushes into the same vector, and when that is full, as it is the first time,
  the reference dangles.  `LeaveLock` may then be called for another lock than
  the one on the stack, and `CRASH_ASSERT` of `LockOrderChecker.cpp:46` fails.

Seen while modelling, with no text of the repository to hold against it:

* if the first `PreRecv` fails, `AcceptCompletion` only prints
  (`ClientSession.cpp:148`), and the session stays connected and deaf;
* `FlushSend` of `Homework6` has no reference of its session.  If its `WSASend`
  fails when the others are gone, the last `ReleaseRef` runs with the send lock
  held and `SessionReset` waits for it, on the same thread
  (`Homework6/Session.cpp:172`); and a reference it takes after the last one
  was released breaks the assertion of `ReturnClientSession`, the same race as
  in the feed.  If instead the return is over, the session is in the free list
  with a reference; when that one is released it is returned again, so it is
  listed twice and later issued twice.  Two connections then share one session,
  and the second may see the row of the first one's player.  An instance with
  two sessions reaches this; it is why `revived` exists;
* a send that completes with an error leaves `mSendPendingCount` at 1, and no
  reset clears it, so the next connection of that session can never send, and
  the thread that tries stays in `DoSendJob`;
* a load request that its port refuses (`Homework6/DBManager.cpp:89`) is printed
  and forgotten with its reference, so the session never returns to the pool;
  the feed thread forgets its context in the same way (`FeedCenter.cpp:83`);
* a packet cut by the end of a region or a receive is drained by the echo that
  follows the parser (`IOThread.cpp:124`, "for test").

## Proofs

`SessionBufferProofs`, for every capacity and set of byte values.  The
inductive invariant `IndInv` adds to the types how the regions lie (B at the
start, ending before A; B non-empty only with A non-empty, apart from the
empty B that a query opens) and the posted window inside the free space.  From
it follow `RegionSafety`, `RecvWindowSafety`, `FreeSpace` (the promised window
lies in the memory, hits no stored byte, and is not smaller than it may be), and, with lemmas on
the concatenation of the two regions under each operation, `BufferIsFifo`.

`FastSpinlockProofs`, for fewer than 2048 threads.  Exclusion alone is not
inductive: a test of the word must say something about all threads.
`FlagExact` provides it, the word being 2^20 times the announced writers plus
the announced readers; fields are separated by `FieldsOfFlag`, each step's
effect on both counts is `FlagStep`.  `InductiveInvariant` gives `WordInRange`,
`ReadersWait` and the refinement `LockIsReadersWriter`.

`GrandCentralExecuterProofs`, for any finite set of threads and any tasks.
`SingleExecuter` carries its reason in the invariant (whoever executes keeps
the counter positive, so no increment returns 1); `CounterIsExact` counts
threads.

`LockOrderProofs`, for any set of threads, sessions and any program that uses
the locks.  `StacksIncrease`: on every stack the classes strictly increase,
because `Push` compares with the last one.  So a thread that waits for a lock
that another one holds waits for a class above all that it holds itself, and
among the threads of a circle the one that waits for the highest class has
nobody to wait for: `NoCircularWait`.

`PacketParserProofs`, for every capacity and every size a header may state,
negative ones included, and a `size_t` that no buffer fills.
`ParserImplementsBuffer`: each round of the parser is a removal of the buffer,
so `IndInv` and `BufferIsFifo` hold under it.  For `ParserPointerValid` the
stream must stay inside the memory and never fall behind the buffer, whatever
sizes it reads.  A packet of a size that is not negative is never longer than
the contiguous bytes, so the removal that moves region B to the front happens
only when the stream is empty; a negative one takes the two apart for good,
since nothing brings the stream back.

`SessionLifecycleProofs`, for any finite sets of sessions and threads, any
subset of failing calls and any counter modulus above the number of sessions.
That `mRefCount` equals the contexts (`RefCountExact`) is not inductive: a
handler decrements and must know that its own context is among them, and a
second disconnection would release the reference of the issue twice.  `IndInv`
adds what a thread knows at each label (`ThreadOK`: its context, the fresh
context, the send lock it holds), that the accept, the connection and the
disconnection of an issue together number at most one (`ConnectOnce`), that
receives follow each other (`OneChain`), and that a session at 0 is being
returned by one thread (`ReturnsOnce`).  Every step of one thread changes its
own share of each sum; the counting lemmas at the head of the module say by how
much.  From `IndInv` follow `LifecycleNoCrash`, `LifecycleRefCountExact`,
`LifecyclePoolAccounting`, `LifecycleRecvBufferExclusive`,
`LifecycleResetNeverWaits` and the action property `LifecycleNoResurrection`.
`LifecycleConnectedIsListening` needs `WSARecv` to accept requests, because the
code does lose a session whose first `PreRecv` fails.

`PlayersProofs`, for any threads, players, bounds and delays.  `JobInv` says
that the job a thread runs is the top of its queue and was due when the thread
read its clock; a job pushed meanwhile is due later, so `TimerPopsWhatItRan`.
Registration is followed through `RegisterPlayer` and `PlayerReset`
(`AlivePlayersRegistered`).  `NestingOK` gives the lock stack of a thread at
each label, three locks at most.  It holds until an assertion fails, and the only
step that can make one fail is `LeaveLock` through a dangling reference:
`OnlyDanglingReferencesFail`, for a stack that takes three locks.
`PlayersImplementLocks`: every step enters, acquires or leaves a lock as
`LockSpec` allows or leaves the locks alone, so `PlayersNeverCircle` follows from
`NoCircularWait`.  `PlayersNeverDeadlock` adds the executer: while it looks for a
task, one is counted.  `IssueOK` counts the `Start`
jobs in the queues of all threads that have not registered their player yet:
together with the numbers issued they are at most the accepts.  A push and a pop
move the jobs of a heap about, so the proof follows each job to its place
(`PushedPlaces`, `PoppedPlaces`); with the types in `JobInv` it gives
`PlayerTypesKept`.

`DatabaseJobsProofs`, for any sessions, I/O threads, database threads, sizes and
failing calls, those to a completion port included: a request that is refused is
counted where it is forgotten, and what is said of assertions excepts the one of
a refused result.  `SendInvariant`: between the test of `mSendPendingCount` and its
increment a thread holds the send lock, the count stays 0 as long as it does,
and the count is at least the uncompleted sends; so `SendOneInFlight`, whatever
happens to references.  `JobInvariant`: exact references again need more than
themselves.  `JobInv` takes `ConnectOnce` and `ReturnsOnce` from the lifecycle,
adds that the accept of an issue, its load context and the delivery of its row
together number at most one (`LoadOnce`), that each context carries the id asked
for (`RowsAsked`), that a result lies there for each completion posted with it
(`ResultsPosted`), and that nobody is returning what is in the pool (`PoolOK`).
From it `JobContextsCounted` and `JobAnswerFits`, both until a session is
revived: a thread in `FlushSend` has no reference, and the step in which it
takes the first one is exactly the step that breaks the invariant.
`JobNoResurrection`: besides an issue that step is the only one that takes a
count from 0, so nothing else in `Homework6` can bring a session back.
`JobTypesKept` includes that a send buffer has two regions at most and stays
within its size, for which `Remove` must clear what has been sent.

`JobNoStrandedBytes` compares what is left to send with what the lists hold.
That some thread has the session in its list is not inductive: a list entry can
be used up by a flush that sends only the first of two regions.  `FlushesOK`, the
other part of `JobInv`, counts: `Left`, the regions that remain when the send in
flight has completed, needs as many entries, in the lists of all threads
together, that no flush has used yet (`Enough`).  Each `PostSend` adds at most
one region and one entry, an accepted `WSASend` takes one region and uses one
entry, and an entry is dropped otherwise only when the buffer is empty and
nothing is on its way.  Two facts carry this past the other steps: `FlushOK`
(what `FlushSend` sends is still the first region when `WSASend` accepts it) and
`NothingYet` (a session in the pool, or before its accept, has an empty buffer
and no thread that handles anything else of it).

Assumed, each named in the module that declares the constant and evaluated by
TLC on its instance: `CapacityAssumption`, `ByteAssumption` and `SizeAssumption`
(a buffer has room; a byte is a number, and a negative count of bytes is as a
`size_t` more than any buffer holds), `SessionAssumption`, `ThreadAssumption`
and `DatabaseAssumption` (finite sets, and `None` and `Main` outside them),
`FailsAssumption` (calls that may fail are calls), `BoundAssumption` and
`PlayersAssumption` (bounds are natural numbers, the counter modulus exceeds the
sessions), `MaxStoredAssumption`, `LockAssumption`, `NoneAssumption` and
`ContextAssumption` (`None` is no record of the program).

Only model-checked: the liveness properties (`DrainEnds`, `LockProgress`,
`DispatchedIsExecuted`, `DisconnectReturnsSession`), out of the prover's reach;
`FailedSetupIsLost`; and everything about `FeedCenter`, whose two runs show
violations.

## Plan

The modules that were planned exist, and every safety property a passing run
checks is proved but `FailedSetupIsLost`.  What is left:

1. `FeedCenter`: an inductive invariant of what its feeds do keep, beside the
   two runs that show what they do not.
2. An invariant of `SessionLifecycle` from which `FailedSetupIsLost` follows: the
   disconnection of such a session stays with the kernel, so its count stays
   above 0.
3. `NoResurrection` in `Homework6` and `SendInv` are proved (`JobNoResurrection`,
   `SendInvariant`) and checked by no run.

## Not modelled

Most of the files under `src` are not the server's: the protobuf runtime with
its compiler and unit tests, generated `MyPacket` code, `StackWalker`.  They
are used as a library (a parser that reads a buffer and says whether it
succeeded) and modelled only as that, so the share of all lines in the
repository that definitions stand for stays small.

Of the server itself: contents of feeds and packets, what socket options do, the
new socket of a reset, an operation on a socket that is issued before the socket
is put on the port (the feed thread may do that; the model queues its completion
once the socket is there), the database threads of `Homework7` (nothing
calls the functions of `Player` that post a request), statistics, start-up and shutdown; `Log` and the pools of
memory; buff lists; SQL; `ServerSession`, which nothing creates; the earlier
homeworks where a later one repeats the code.  Of the rest: `ServerGUI` and
the two load generators.
