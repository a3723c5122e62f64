# TLA+ models of SimpleGroupCommServer

SimpleGroupCommServer is a C++ TCP server inside an Android app
(`src/app/src/main/cpp`).  Clients connect, are given an 8-bit id, and send
each other messages through the server.  Handler threads poll non-blocking
sockets; what they share is protected by three kinds of mutexes and a
hand-made reference count.  That concurrent core is what these modules
specify, model-check and prove about.  Paths below are relative to
`src/app/src/main/cpp/network` unless they start with `src/`.

## Inventory

| Component | State | Operations | Hard parts |
|---|---|---|---|
| Client registry, `server/storage/ClientManager` | id counter, map id -> `ClientInfo`, a shared mutex | `add`, `remove`, `tryGet`, `next` | counter wraps, random probing, full registry; two locks handed over in `tryGet` and in `remove` |
| Client storage, `server/storage/ClientInfo`, `Buffer` | dibs, `deleteSoon`, mutex, a linked queue of buffers; in each buffer lengths and a link | `addDibb`, `removeDibb`, `send`; `reset`, `fillBuffer`, `release` | reference counting against removal; partial writes; a queue threaded through buffers that other threads own |
| Frames and relaying, `server/ClientProcessor`, `ClientResponder` | a three-state machine, the frame being read, the client relayed to | `process`, `relay`, `send`, `continueProcessing`, `welcome` | state that is used after a lock is released; partial reads; results compared with fields that other threads change |
| Client handlers, `server/ClientHandler` | map of processors and its mutex, `listen`, `stop`, `child`, a thread | `addProcessor`, `clientWork`, `split`, `mergeWithActive`, `pruneDeadChild`, destructor | processors move between threads; the chain of children is changed by several; flags outside the mutex |
| Server, `server/ServerTCP` | listening socket, `stopFlag`, the active handler, a thread | `start`, `stop`, `serverWork`, destructor | errors of `accept`, teardown with the thread not joined |
| Screen console, `src/app/src/main/cpp/ScreenConsole` | queue of lines, its mutex, two static pointers, a thread | `print`, `printWork`, destructor | destructor against both the printing thread and its callers |
| Test clients, `client/Client`, `client/ClientCreator` | sockets and ids of 20 clients, a thread | `start`, `stop`, `greet`, `send`, `receive`, the relay tests | blocking reads that take part of a frame for a frame; deletion while the thread runs |
| JNI entry points, `src/app/src/main/cpp/native-lib.cpp` | four global pointers | `createNative`, `deleteNative` | order of deletion against running threads |
| Java prototype, `src/app/src/main/java/.../network` | server socket, connections | `start`, `stop` | not used: commented out in `MainActivity` |

How they interact: the server thread calls `addProcessor()` of the active
handler, which registers the client, constructs its processor (whose
constructor already relays a welcome) and inserts it into the handler's map.
Handler threads call `process()` of the processors in their map; a complete
frame goes to the responder, which looks the addressed client up in the
registry, appends the frame's own buffer to that client's queue, and sends.
A closed connection makes the handler call `remove()` and delete the
processor, while other threads may be sending to that client.

`PROJECT.json` lists for each component whether it is modelled, and under
`hazards` everything found in the code that is hard to test.

## Modules

| Module | What it is |
|---|---|
| `IdPool` | abstract: a pool of ids, each with one owner, refusing only when exhausted |
| `ClientManager` | the registry's `add`, `next`, `remove`; implements `IdPool` |
| `ClientManagerProofs` | TLAPS proofs about `ClientManager` |
| `ClientLifetime` | abstract: a client is published, withdrawn, and reclaimed after its last user |
| `RelayStorage` | `tryGet`, `remove`, `ClientInfo`, `Buffer`, `ClientProcessor::process`, `ClientResponder`, run by any number of threads; implements `ClientLifetime` |
| `RelayStorageProofs` | TLAPS proofs about `RelayStorage` |
| `ClientHandler` | the handlers' threads, their maps and chain, and `addProcessor` |
| `ClientHandlerProofs` | TLAPS proofs about `ClientHandler` |
| `HandlerShutdown` | `ClientHandler` while the active handler is being deleted |
| `HandlerShutdownProofs` | TLAPS proofs about `HandlerShutdown` |
| `RelayTest` | the repository's own communication test, with `RelayStorage` as the server it talks to |
| `RelayTestProofs` | TLAPS proofs about `RelayTest` |
| `MessageChannel` | abstract: what the server promises its clients, whole messages in order |
| `Framing` | the bytes on the connections and in the buffers; implements `MessageChannel` |
| `FramingProofs` | TLAPS proofs about `Framing` |
| `ServerLife` | servers that are made and deleted, their threads, the port and the descriptors |
| `ServerLifeProofs` | TLAPS proofs about `ServerLife` |
| `PrintQueue` | abstract: messages are shown once each, in the order they were taken |
| `ScreenConsole` | the print queue, its thread, its callers and its destructor; implements `PrintQueue` |
| `ScreenConsoleProofs` | TLAPS proofs about `ScreenConsole` |
| `MC*` | instances for TLC |

Each specification keeps the code's names for fields and functions.  Some
definitions are preceded by a *mutant*, the same definition with a plausible
bug; every property of a passing run is refuted by one of them, so none holds
whatever the code does.

### ClientManager

`add` and the first half of `remove` run under the exclusive registry lock, so
each is one step.  `Advance` is the increment with its wrap, `NextIds` the set
of ids `next()` can return: the following id, or wherever a probe from a random
id stops.  The probing loop is described by where it stops (`ProbeStop`: a free
id such that all ids passed over are taken).  `AddFails` keeps the code's side
effect, a counter that has moved on.

### RelayStorage

A *connection* is one accepted socket with the three objects made for it.  The
places in `pc` are the points where a thread can be overtaken.  What the code
does between two such points is one step:

- a section under the exclusive registry lock is one step; the shared lock is a
  set of `readers`, because `tryGet` waits for the client's mutex while holding
  it, and `LockInfo` gives it up as the mutex is taken (nobody can see the
  difference, since what the shared lock excludes is blocked by nothing else);
- a mutex is taken in one step and released in another, except in `Retire`,
  where the body of the critical section touches nothing but fields that the
  mutex protects;
- plain fields used outside any lock are a step each: `SetLength`, `SetNext`,
  the read and the comparisons of `processData` and `process` (`ReadData`,
  `AfterRead`, `Return`, `Compare`), the test of `objLen` and its decrement
  (`FrameDone`, `TakeReaction`), the test of `isReleased` (`Sent`).

`removeDibb` unlocks the mutex of the object it has deleted: the place
`unlockFreed`.  Lengths are bytes; an `objLen` or `bytesToRead` that has been
driven below zero stays negative here, where the code has 2^64 minus something:
the two compare alike with the results of `read` and `write`, and a call that is
given such a length takes as much as there is.  A client is not welcomed if its
id is one that `char` cannot carry (`Welcome`).  A connection ends in one of two
ways: its client hangs up, and it is removed from the registry before its
processor is deleted (`Erase`, `Retire`, `DeleteProcessor`); or its handler is
told to stop, and `clean` or the destructor delete the processor alone (`Clean`),
so that its `ClientInfo` stays registered with a socket that is closed.
`Uninitialised` is what `bytesToRead` holds before the first `reset`.

Left out: the bytes of a frame (any relayed frame may go to any connection);
the reuse of a freed `ClientInfo` or `Buffer` for a new object of the same
class (a freed buffer keeps its fields or they are zeroed); which handler runs
a processor (any worker may, one at a time, which is what `ClientHandler`
shows).

### ClientHandler

One thread per handler, plus the server thread in `addProcessor`.  A round
takes the handler's mutex at `StartRound`, visits every processor in its map in
any order, and gives it back at `EndRound`; a processor that asks to be closed
is first removed from the registry (`RemoveClient`) and then deleted and erased
(`EraseProcessor`), because a new client can get its id in between.  `Prune`
and `Join` are `pruneDeadChild` with the child's destructor, `Split` and
`LinkChild` the two halves of `split`, `LockOwn`, `MoveToActive` and `SetStop`
the three of `mergeWithActive`.  Whether a round has taken measurable time is
up to the clock, so a handler may always just sleep.

`Handlers` and `Procs` bound how many can exist at a time; both are reused, as
memory is.  The module is about a server that runs: nobody deletes the active
handler, so `stop` is never seen at the top of a round (`HandlerShutdown` lifts
this).  A registry that is full makes `addProcessor` return without doing
anything to the handlers, which is no step here; what becomes of the connection
is in `ServerLife`.
Three paths of the code cannot be reached and have no action: the end of
`clientWork` after its loop, the `else` of `split` that deletes an empty child,
and `mergeWithActive` returning because `stop` is set.

### RelayTest

`RelayStorage` lets any client do anything.  `RelayTest` extends it with the
environment the repository has: the thread of `ClientCreator`, which connects
its clients, waits for their welcomes, relays random messages one at a time,
reconnects some clients and goes on.  `Driver` is that thread, with `where` as
its position, `picked` and `todo` for the loops over clients (a set: a client
picked twice is stopped, started and greeted once, because the three functions
return early).  Each step of the server is the step of `RelayStorage` with its
choices settled by the other end: how many bytes are there to read, the frame's
addressee (`wire`), what the write delivers (`inbox`).  Polls of a socket without
news are left out, as they change nothing.  Writes are complete and `receive`
gets a whole frame: the frames are shorter than 100 bytes and their reader
waits for them.  There are few clients, so every id is one that `char` can carry,
and the server is not stopped before the test ends: `Clean`, and the welcome that
is lost, are not among its steps.

### HandlerShutdown

Extends `ClientHandler` with the thread that runs `~ServerTCP`.  The destructor
calls itself for the child, so its state is a `stack` of handlers; `step` is
where the innermost call is: `ReadChild`, `ClearChild`, `TellToStop`,
`JoinThread`, `Free` are its lines in order.  It takes no mutex for the first
three, so they interleave with everything the handlers do.  `StopRound`,
`RefuseSplit` and `RefuseMerge` are the three places where a thread sees `stop`;
the first ends the thread with the mutex still locked, as the code does.  The
test and the use of `child` in `pruneDeadChild` are one step (`Prune`), which
leaves out some interleavings with `ClearChild`; the one that matters, both
deleting the same child, is there without them.

What happens after a thread uses freed memory, or two are in the destructor of
one handler, is undefined: `Undefined` describes these states and no step leaves
them.  Safety properties are therefore about behaviours in which nothing
undefined has happened yet, liveness properties name `Undefined` as a way out.
That such states are reached is described under "Also seen while modelling".
`OnlyUnservedIsDeleted` says what is left: a destructor comes to its end only for
a handler that was never given a thread.
`pthread_join` of a thread that was never created may return or end the
process: both are allowed.

### Framing

The contents that `RelayStorage` leaves out: one `Write` for each `write`, one
`ReadLen`, `ReadPart` or `ReadRest` for each `read` of the server, `ReceiveLen`
and `ReceiveData` for those of `Client::receive`.  A client is nobody at first;
`Add` puts it into the registry and `Welcome` is the constructor of its
processor.  Both `Welcome` and `ReadRest` end with `Process`, the responder's
parsing and its relay up to the first `write`: the welcome is a relay like any
other, it waits behind what others have relayed since `Add`, and it is lost where
`char` cannot carry the id.  `Process` is one step, which hides nothing, because
one thread serves all clients here and they all stay connected.  A byte has
`Base` values, and a frame is at most `Base - 1` long, the length the buffer has
from the beginning.  Where a read goes past its end (`At`) it finds zeros.
`signedChar` is the platform: it is chosen in the beginning and decides which ids
are `Found`.  The notice for an id that is not found is meant to name it, but
copies so many characters of its own text: if there are fewer (`Overread`) the
process may end there (`halted`).  A write takes the whole rest of its buffer or,
while the socket is full, nothing (`WriteFails`); the partial write is in
`RelayStorage`, where lengths are all there is.  A frame that arrives while the
buffer is still queued is left out (it would be overwritten: see
`FalseMeansDone`).

The refinement mapping parses: the messages that the server has yet to take are
the frames in what it has read of one and in the wire, those on their way to a
client are the frames in what it has read, in its socket, and in the buffers
queued for it.  In `MessageChannel` a client becomes a member first and is greeted
later; what others send it may come between.  What is addressed to nobody, or to a
member that is not `reachable`, is dropped there, and so is the greeting of such a
one.  So a byte miscounted anywhere changes the abstract state.

### ServerLife

`CreateNative`, `DeleteNative` and `DeleteEnds` are `onResume` and `onPause`;
`DeleteNative` stands for `stop` and the `close` in the destructor, which nothing
else depends on in between, `DeleteEnds` for the rest.  Each server has one
thread, which is never joined: `place` is its position in `serverWork`.  Its port
is picked when it is made, by chance, out of `Ports`.  The
kernel is modelled from how Linux treats these calls: `accept` holds a
descriptor and the socket from the call on, so `close` in another thread does
neither wake it nor free the port; `EMFILE` is found when it is called; a
connection is complete as soon as it is in the queue (`Connect`), which takes
`Backlog + 1`, and belongs to the socket it came in by (`via`); a port is in use
as long as a socket that has it, listening or accepted, is open (`InUse`), as
nobody sets `SO_REUSEADDR`; when nobody keeps a listening socket any more, those
who wait in its queue are sent away (`ReleaseSocket`).  `socket`, `bind` and
`listen` may also fail for reasons outside the process, such as another one that
has the port (`CannotStart`).  `accept` may return one of the network errors it
retries (`NetworkError`), or any other, which ends the thread (`GiveUp`).

Of the handlers only two things matter here, and each is taken from another
module: which connections they hold (`served`), and whether the active one has
ever had a thread, because then its destructor does not come back
(`OnlyUnservedIsDeleted` of `HandlerShutdown`, so `DeleteEnds` needs
`~handlerRuns`).
That the process survives for one more `createNative` is thus the case of a
server that has served nobody.  A thread that goes on after its server is gone,
and the `close` of a `serverSocketID` that was never set, are `Undefined`; one
that sleeps or waits in `accept` has not yet touched anything.  The test clients'
ends of the connections, which are descriptors of the same process, are not
counted in `MaxFds`.

### ScreenConsole

A call of `print` is a message; the places of its caller (`at`) are the test of
the pointer, `lock`, and `push_back` with `unlock`.  A message is one line on the
screen.  `printWork` tests the size without the mutex, so while somebody pushes
`TestSize` may find either size; it holds the mutex while it prints and clears.
`nativePrint` keeps the last `MaxLines` lines and posts them to the thread of the
activity, which shows them in order (`ShowText`).  `Destroy` goes through the
destructor and the destruction of the members in four steps; `print` reads the
reference to the mutex again for `lock` and for `unlock` (`Referenced`).  A step
that would use what is deleted, or a reference that is NULL by now, is undefined
and has no action: its thread stays where it is, and the others go on.  The refinement
maps the queue to the messages from the position of the loop on, so the clearing
of the queue is a stutter.

## What the runs show

| Run | Instance | Shows |
|---|---|---|
| `client_manager` | 5 ids, 2 sockets | type, probing ends, refinement of `IdPool` |
| `relay_storage` | 2 connections, 2 workers, clients that send one frame of 3 bytes, hang up or are deleted at any time, fair threads | all safety properties, refinement of `ClientLifetime`, every call ends |
| `relay_false_means_done` | 2 connections, 2 workers | a violation, see Findings |
| `relay_linked` | 3 connections, 2 workers | a violation, see Findings |
| `client_handler` | 3 handlers, 2 processors, fair threads | ownership, service, one thread per handler, the chain, the registry; closed clients are noticed, merged handlers pruned |
| `handler_shutdown` | 2 handlers, 2 processors, the active handler deleted at any time, fair threads | one owner for each processor and what a destructor can finish, until something undefined happens; threads that are told to stop end |
| `server_life` | 2 servers, 2 ports, 3 connections, 4 descriptors, 1 id, a queue of 2, fair threads | who keeps a port and who uses up the descriptors; who waits is accepted |
| `screen_console` | 3 messages, 2 lines, fair threads | refinement of `PrintQueue`, messages come to the screen |
| `framing` | 2 clients that send 2 and 1 of 5 kinds of frame, bytes of 8 values, `char` signed or not | refinement of `MessageChannel`, and what becomes of the ids |
| `relay_test` | 2 clients, 4 connections, 2 workers; a relay, a reconnect, a relay | ids, texts, framing and the whereabouts of the message |
| `relay_test_greetings` | 2 clients, 4 connections, 2 workers; a reconnect; fair threads | every client is welcomed |
| `relay_tests_end` | 2 clients, 1 worker, one relay | a violation, see Findings |

Where a module has one, its type invariant is a conjunct of what the run checks
as `ShutdownInv`, `TestInv` and `FramingInv`; the other conjuncts are `OneOwner`,
`InStep` and `IdArrives`.

Why these bounds are enough.  Five ids let the registry fill up, wrap and probe
past several taken ids.  Two connections suffice for every pair of operations on
one `ClientInfo` (each may send to either), a frame of three bytes is the
shortest relay that carries a byte (other frames leave the shared storage alone),
a write of one of its bytes is a partial one, and `BytesToWrite = 2` lets one
loop of `send` come to its limit and another go on.  `MaxReads` bounds the
reads that return data, not the calls; `TwoShortTalkers` bounds the frames.  That
two threads hold dibs on a client while a third retires it needs more of each;
the safety of `RelayStorage` is therefore proved for every number of them, and so
is that of `ClientHandler` and `ServerLife`.
With `SplitAbove = 1` and `MergeBelow = 2` two processors are enough to split the
active handler (which hands over everything) and a child (which hands over
half), and three handlers give a chain of two children, one of which is merged
while the other lives.
In `relay_test` both clients may
reconnect, so four connections are needed, and the second relay runs while the
server may still be closing the old ones; one relay at a time is what the test
does, and `Times = 1` leaves out repetitions only.
`handler_shutdown` has two handlers, so that the destructor goes down to a child
that is being split off or merged, and a thread that is told to stop waits for at
most one other.  In `server_life` a second server can be made after one that left
something behind, with the same port or with the other, and four descriptors are
enough for a listening socket, a
thread that waits and two clients (one of them refused, as there is one id), and
to run out of them.  What the module says of the port is proved for any number.
Three messages are enough
for one to be pushed while one is printed and one is waiting, and for a line to
leave a screen of two.  In `framing` the frames are relays of one and of two bytes
to each client (one to itself), one too short, one with another
reaction and an empty one; eight values of a byte hold all lengths and ids, and
id 5 is in the upper half, so that it is nobody's where `char` is signed; with a
notice of three characters it is read beyond for that id and not for the other.
The proofs below do not depend on any of these bounds.

Deadlock is checked in every run: `Finished` is the only state in which the
storage may stop, and the handlers never do.  The exceptions are the runs of
`RelayTest` (its driver comes to an end, or hangs, see Findings, and idle polls
are left out), of `HandlerShutdown`, `ServerLife` and `ScreenConsole` (which end when
everything is deleted, or with something undefined) and of `Framing` (nothing
happens once all that the clients send has arrived).

### Fairness

Threads that can run do run: weak fairness for each thread's steps, in
`RelayTest` also for the driver and for a worker's next look at each connection
(a round visits all of them).  In
`ClientHandler` two waits compete for a mutex with a thread that takes it again
and again, `Insert` and `MoveToActive`.  They get strong fairness, because the
holder sleeps with the mutex free in every round, so that a waiting thread is
woken and finds it free.  For the same reason `Lock` and `LockQueue` of
`ScreenConsole` are strongly fair: whoever has the mutex gives it back, and there
are finitely many callers.  `Accept` of `ServerLife` is strongly fair for each
connection: the kernel hands them out in their order, and neither a network error
nor any other comes every time.  A destructor runs like any thread; nobody has to pause the
activity.  Clients are not fair: they may send nothing, never
close, or never read.

## Findings

- **`FalseMeansDone`** (`relay_false_means_done`).  The doc of
  `ClientResponder::continueProcessing` says to call it until it returns false,
  and that of `process` says that the data should remain untouched until then.
  It always returns false; after a failed or partial write or `IN_USE` the buffer
  is still in a client's queue when the processor reads its next frame into it.
- **`LinkedUnderLock`** (`relay_linked`).  `tryGet` takes the client's mutex
  "so dibbs can be added, and buffer linked", but `relay` sets `next` to NULL
  after it has been released, and so cuts off a buffer that another thread has
  appended in between.  The run shows it while all clients are connected and no
  buffer is deleted: `c1` relays to itself and its thread is about to reset `next`,
  a relay of `c2` to `c1` puts its buffer behind that one, and the reset unlinks it.
- **`TestsEnd`** (`relay_tests_end`).  `ClientResponder::send` ignores what
  `ClientInfo::send` returns.  If another thread still has the addressee's mutex
  (for the `removeDibb` of a message that has arrived already, such as the
  welcome), `try_lock` fails, the message stays in the queue, and nobody sends it
  before the next message to that client.  The test, which sends one message at
  a time, then waits in `receive` for ever.  `NotLost` shows that the queue is
  the only place where it can get stuck.

### Also seen while modelling

No doc of the repository says otherwise, so these are not counted as findings;
the models have them as the code does.

- `~ClientHandler` reads and clears `child` without a mutex while the handler's
  own thread may be pruning that child, and both delete it
  (`server/ClientHandler.cpp:55`, `:316`; a case of `Undefined`).
- A thread that sees `stop` at the top of its round returns with
  `processorListLock` locked, and the destructor that has joined it waits for that
  mutex for ever (`:95`, `:64`).  `OnlyUnservedIsDeleted` is what remains.
- The mutex that the destructor takes against a late `addProcessor` does not keep
  the server thread away once it is released, and the handler is gone right after
  (`:64`, `:171`; a case of `Undefined`).
- Closing the listening socket does not end the thread that waits in `accept`; it
  keeps the port, and takes the next client for a server that was deleted
  (`server/ServerTCP.cpp:153`).  A later server that picks the same port cannot
  start then.  `PortTakenByLeftovers` shows that such a thread and the open sockets of
  refused clients are all that an earlier server leaves in the way.
- Every error of `accept` that is not in the list, as `EINTR`, ends the accept loop
  for good, and so does running out of descriptors (`:135`), though they
  become free again when clients leave.  `OnlyLeaksExhaust` shows that served
  clients alone never get it there; refused ones do, since nobody closes their
  sockets (`server/ClientHandler.cpp:176`).
- The test for NULL in `print` does not keep a caller away from a console that is
  deleted right after it; `lock` and `unlock` read the reference again
  (`ScreenConsole.cpp:16`, `:21`, `:25`).
- `clean` and `~ClientHandler` close the sockets of clients that they leave in the
  registry (`server/ClientHandler.cpp:289`, `:67`).  Other handlers, whose threads run
  until the destructor comes to them, can still relay to such clients, and write to
  a descriptor that may be somebody else's by then.  `WritesToOpenSocket` says that
  clients that hang up do not have this effect.
- The notice of `relay` gives the id to a constructor of `std::string` that takes it
  for a number of characters (`server/ClientResponder.cpp:90`; `Overread` of `Framing`).
- After a partial write the next one asks for the whole length again, and sends
  bytes that follow the frame (`server/storage/ClientInfo.cpp:64`; `RelayStorage`
  has the lengths, no property compares the bytes).
- The addressed id is read as a `char`; where that is signed, ids in the upper half
  reach nobody, and the welcome goes the same way: a client with such an id never
  learns it (`server/ClientResponder.cpp:76`; `IdArrives` of `Framing`).

## What is proved

TLAPS proves the following for all values of the constants that satisfy the
named assumptions (`IdSpaceAssumption`, `RefusedAssumption`, `StorageAssumption`,
`TestAssumption`, `FiniteConns`, `HandlerAssumption`, `FiniteHandlers`,
`ServerAssumption`, `ConsoleAssumption`, `FramingAssumption`: the sets are disjoint, what is counted is
finite, lengths and limits are naturals; TLC evaluates them in every run).

`ClientManagerProofs`: the type invariant (`RegistryTypeCorrect`), that the
probing loop ends (`ProbingTerminates`), and the refinement of `IdPool`
(`RegistryImplementsPool`).  For the loop: among the free ids take one at the
smallest distance from the start; all ids passed over are taken.  That `add`
overwrites nobody and refuses only when full is a consequence of `NextIds`
having free ids only, and being empty only if the registry is full.

`RelayStorageProofs`: the safety properties are not inductive.  That a client
is not freed under a thread depends on the thread's dib being counted, which
depends on nobody reaching a retired client, which depends on the order of
`remove`'s two locks.  `StorageInv` collects what is needed:

- `OneThreadPerConnection`: a busy thread has a connection to itself;
- `LocksProtect`: who is at a place where it needs the registry lock or a mutex
  has it, and what that entails;
- `RegisteredUntilRemoved`: registration, phase and life go together;
- `RegistryIsLive`, `DibsKeepAlive`: only living clients are registered or have
  dibs, and a retired client without dibs is freed;
- `DibsCoverHolders`: dibs is at least the number of threads that count on one.

Each has a lemma that every step preserves it, with a step for each action that
can disturb it; the last one rests on lemmas on how `Holders` changes and on
the library's facts about cardinality.  `StorageInvariant` puts them together
and `StorageTypeCorrect`, `ClientsArePinned`, `DibsAreCounted`,
`RegistryStaysLive`, `LastDibFrees`, `HangUpsDisturbNoWrite` and
`FoundMeansAccepted` follow.  `StorageImplementsLifetime` shows the refinement
of `ClientLifetime`: a lemma for each kind of abstract step, then each action of
`RelayStorage` mapped to one of them or to a stutter.  That the code reaches
into a deleted object only in `unlockFreed`, alone, is the case of `Reclaim`
whose only user is the one that reclaims.

`ClientHandlerProofs`: all safety properties of the handlers.  They are
inductive only together (`HandlerInv`).  `OneOwner` needs `insert` to find no key
that is there already; that follows from `RegistryAgrees`, and from the mutex that
is held while a processor's id is free again and its entry is not erased yet
(`NoClash`).  That `Join` deletes a handler nobody points to needs every handler to
be pointed to once, counting a pointer that is in a thread's hands and not
counting its stale copies (`OnePointer`, `ChildOf`); that its processors are not
lost with it, and that `start` is never missed, need each place of a thread to say
what the flags of its handler are (`PlacesAgree`).  The actions that depend on more
than what they read are first rewritten under the invariant (`Inserts`, `Moves`,
`Starts`, `Links`, `Joins`); then there is one lemma for each part.
`ChainComplete` is about paths: it needs that the pointers lead out of no set of
handlers that exist, has the active one and is not all of them (`Connected`), which
every step keeps because it changes at most two pointers.  That what the recursive
function `Reach` then reaches is everything takes an induction over its argument,
which is done with the least natural number at which it would fail (`ReachDef`,
`LeastNatural`; `ChainIsComplete`).

`HandlerShutdownProofs`: the same handlers while `~ServerTCP` deletes them, so most
of the above has to be shown again in a weaker form: threads that saw `stop` keep
their mutex, and `ClearChild` and `Prune` break the rule that each handler is pointed
to once, though only for handlers that the destructor has in its hands
(`OnePointerEach`).  The invariant `IInv` has two halves.  Types, owners and the
stack hold in any case (`DestructorsHoldWhatLives`, `DestructorsEnterOnce`); what the
chain looks like (`Strong`) holds as long as nothing undefined has happened, after
which the model stops.  That the destructor never comes back to a handler it has
entered is about everything it will come to: there is a set of handlers, without any
it has been to, that no pointer leads out of (`NoWayBack`), and each step of a thread
either stays inside that set or adds a new handler to it.  `DeletedWasUnserved` then
only needs that the thread of the active handler ends with its mutex locked
(`ActiveKeepsLock`).

`ServerLifeProofs`: `ServerTypeCorrect` needs that what a thread has in its hands is
open and nobody else's (`ConnectionsApart`, `HandAtAdd`).  `TestersAlwaysFindServer`
rests on who can keep a listening socket: only the server there is has its own open
(`OnlyServerOpen`), past `socket` it has it until it is deleted (`SocketKept`), and a
thread that waits in `accept` keeps it in any case (`SocketHolder`).  For
`OnlyLeftoversKeepPort` these give who can have the port when a server is at `bind`,
and that the accepted sockets that are open then are refused ones: nobody is served
yet, since a server that had served anybody is never deleted (`ServedHere`), and a
thread with one in its hands would be `Undefined`.  `ServedNeverExhaust` adds up the open
descriptors at the moment `accept` is called: nothing is in anybody's hands then, so
they are the listening socket, the served, bounded by the registry, and the refused.

`ScreenConsoleProofs`: the queue changes only under its mutex (`MutexKept`), so
pushing appends to what is waiting, printing takes its first, and clearing the
queue happens when nothing waits (`ConsoleImplementsQueue`).  It assumes that no
message is one of the two other values of `lock`.

`RelayTestProofs`: the test is `RelayStorage` with its choices settled.  Each step
of it is one of the storage or leaves the storage alone (`TestRunsStorage`), so
what is proved about the storage holds in the test (`TestClientsArePinned`).
What the test says about its own clients is proved for any number of them, any work
and any length of the frames.  The argument is that at most one frame at a time is on
its way to a client, and at most one from a connection: the welcome of a client that
waits for it, or the message the driver waits for (`Expected`, `ExpectedOnce`).  The
invariant `IInv` says of every place where a frame can be, the wire
(`WiresExpected`), a thread's hands (`HandsExpected`), a queue (`QueuesExpected`) and
the client's end of the socket (`Arrived`), that what is there is expected, so no two
of them have the same frame and no queue is ever longer than one; `BytesCounted` and
`CallsAgree` say what the processor's state, `bytesToRead` and `result` have to do with
the bytes on the wire, and `Somewhere` that no step drops the frame.  Under the
invariant most branches of the server's actions cannot be taken: each is first
rewritten as what is left of it (`Accepts`, `Welcomes`, ..., `Onward`, with a lemma
each; `ServerStep`), and the parts of the invariant are then shown from those.
`WelcomesAreOwn`, `TextsAreRight`, `FramesStayInStep` and `MessagesAreSomewhere`
follow.  They hold for frames that `write` takes whole, as the model's clients make
it do; what partial writes lead to is `RelayStorage`'s subject.

`FramingProofs`: the streams, for bytes of up to 256 values and any ids, frames and
numbers of them.  The refinement mapping reads frames out of a stream with a recursive
function; the proof takes a stream for what it is made of instead.  `Parses(s, fs)`, that
`s` is the frames `fs` one after the other, is the least relation with the empty stream
that can be extended at the front.  Inductions over the frames of a stream then need no
induction rule (`ParsesInduction`): a stream can be taken apart at the front, extended at
the end, and the recursive function finds what it was made of (`ParsesFirst`,
`ParsesConcat`, `FramesOfParsed`).  The invariant `IInv` has four parts.  `BuffersInv`:
a buffer that is being filled has as many bytes before its position as its frame is
ahead of what it still asks for, one that waits holds a whole text behind its length,
and none waits twice (`Reads`, `Holds`, `QueuedOnce`).  `StreamsInv`: what comes from a
client, and what it has yet to read, is made of whole frames.  From these two each step is
rewritten as what it does to the frames (`ReadRestStreams`, `WriteStreams`, ...): taking the
first that comes, putting one behind those that wait, moving one from there to the
socket, receiving one, or nothing; `ProcessStreams` is what `ReadRest` and `Welcome` share.
`FramesAreMessages` maps these to the steps of
`MessageChannel`, and a write or a part that is read to none.  `IdsArrive` is then
shown about that channel: the id of who has been greeted is among the texts on their
way to it or received (`IdSent`), which its steps keep, and nothing is ever there for
one that is not reachable.

Only model-checked: all liveness (`CallsEnd`, `GoneAreClosed`,
`MergedArePruned`, `GreetingsArrive`, `StoppedThreadsEnd`, `PendingAccepted`,
`MessagesAreShown`), which the prover does not handle, and the findings, which are
counterexamples.

## Not modelled, and why

- The Java prototype of server and clients: commented out in `MainActivity`, never
  constructed.
- `StringTools`, `Tests`, `debug.h`, the string functions of `native-lib.cpp`, the
  `s()` functions of the console and `setClientAddr`: formatting without state.
- `speak`, `sendChunk` and `disconnectStress` of the test clients, and
  `ClientManager::contains`: called by nobody.
- The test clients after `deleteNative`: their memory is freed under their running
  thread, so whatever they do is undefined.
- What happens after any undefined use of memory, in every module.
- Several threads together with the contents of buffers: `RelayStorage` has the
  threads, `Framing` the bytes.

What is worth doing next: a model of the bytes that follow a partial write, with the
threads and the buffers together, which is left out above.
