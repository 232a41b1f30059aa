# A verification project for code_strudy

The repository is a collection of programs written along *The Linux Programming
Interface*: file servers on message queues, a talk service, socket servers,
copying through shared memory, signal handling, and many small exercises; a
part in Python holds a game. Each program is on its own. What makes some of
them worth a model is the same everywhere: several processes, threads or signal
handlers share a queue, a buffer, a counter or a file name, and the program is
right only if every interleaving, failure and kill leaves these consistent.

`practice/` and `routines/` below stand for the directories of
`src/linux_programing_interface/`. Line numbers are those of the files there.

## The system's parts

| Component | State it keeps | Operations | What is hard |
|---|---|---|---|
| SIGCHLD reaper, `practice/26.5` (and its copy in `routines/`) | number of live children, signal mask, pending signal | fork loop, `sigsuspend`, handler, child exit | exits share one signal; the last exit may come before the wait |
| File server on System V queues, `practice/46.4` | server queue, id file, a private queue per client, children | request, fork, open/read/send, END or FAILURE, exit handlers, SIGCHLD | children inherit the exit handler; full queues; restarts and kills |
| Talk service, `practice/46.6` | client table and count, server queue, a queue per client, two processes per client | REGISTER, TALK, DELETE | both processes of a client send DELETE, and one does that never sent REGISTER; receivers and server read the same queue |
| File servers on POSIX queues, `practice/52.2`, `52.2.b` | server queue, its notification, client queues, children or threads | request, `mq_notify`, read/send, END | notification is one-shot; a missing file ends server and threads |
| Copying with two threads, `practice/53.1` | one buffer, two semaphores, two descriptors | set-up ladder, read, hand-over, write, tear-down ladder | order of the hand-over, release on every failure path |
| Shared memory transfer, `routines/48.4` | segment, semaphore set, both outliving their creator | create, set, write, read, remove | `==` for `=` at `svshm_write.c:77`; several readers at once; removal while a reader is busy; kills |
| Socket servers, `practice/62.2`, `61.5`, `routines/60.4` | listening sockets, children, zombies, connections | poll, select, epoll, signal driven loops; fork per connection; echo or command | several processes take requests from one socket; signals merge |
| Alien Invasion, `src/python/alien_invasion` | fleet, bullets, ship, lives, speed | one frame: events, bullets, collisions, fleet | order of the checks in a frame |
| Well-known key server, `routines/46.7` | queue under a key, children | start, request, fork, transfer, end | a server that starts removes the queue of another, killed or running; nothing is cleaned up after a kill |
| File locks, `practice/55.2`, `55.4` | the locks of two files, or of one | two locks in opposite orders; one lock for each argument | circles of waits; a child that goes on as a parent |
| Signal counters, `practice/20.1`, `routines/22.3` | a counter per signal, or one | send, block, deliver, handle, wait | merging, nesting, a test before `pause()` |
| Directory monitor, `practice/19.1` | table of watch descriptors and names | `nftw()` walk, create, delete, move | the tree changes under the walk and before an event is handled |
| `dirname()`, `basename()`, `practice/31.2` | a buffer per thread and function | four calls | edges of the path, an uninitialised length |
| Pipes and a signal, `practice/44.1`, `26.4` | two pipes; a pending signal | letters there and back; exit handler, `sigsuspend()` | each end waits for the other |
| Thread join program, `routines/30.4` | counter, statuses, mutex, condition | create, finish, wait | wake-ups; the address of a loop variable |
| Appending writers, `practice/5.3` | a file, an offset per process | seek, write | two steps against one |
| Socket helpers, `common/inet_sockets.c` | the address and the socket being tried | socket, option, connect or bind, listen | which failure leaves what open |
| FIFO server `routines/44.7`; `31.1`; emulated functions `27.2`, `6.3`, `5.4`, `5.7`, `45.1` | counter, flag, environment | see *Not modelled* | - |
| All other exercises, `common/errout.c` | none between two steps | one or a few system calls | - |

The programs do not call each other; within one, the parts interact through the
kernel objects named above (queues, semaphores, segments, sockets, signals) and
through `fork()`, which copies handlers and exit handlers. `common/errout.c`
(`errPrintf`, ERROUT) prints and calls `exit()`; the models treat every ERROUT
as the end of the process, with the exit handlers it has at that moment.

`PROJECT.json` lists every component, with the reason for each that is not
modelled, and the hazards: the lines where an order of steps no test forces
can go wrong, with the properties that would catch it.

## Modules

One module per component, an `MC` module that names the model values of its
instance, and a `Proof` module for its theorems. Definitions marked `Fault:`
are not part of the specification: each is a plausible error in the definition
that follows it, kept there to show which property it breaks.

| Module | Models | State and actions against the code |
|---|---|---|
| `MultiSigchld` | `multi_SIGCHLD.c` | `mpc` is where `main` is, `forkLoop` its `i`, `hpc` where the handler is, `pending` and `blocked` the kernel's signal state. `Setup`, `Fork`, `TestLive`, `Suspend`, `HandlerReap`, `HandlerReturn` follow `main` and `sigchldHandler` line by line; `Deliver` is the kernel, which runs the handler only in `sigsuspend()`. |
| `SvmsgTransfer` | 46.4, a child (`serverRequest`) and its client | blocks of `RESP_MSG_SIZE`; `left` is what `read()` has not returned, `cliQ` the private queue with a limit in blocks, `total` the client's sum; a `read()` that fills the buffer may make END too long for `msgsnd()` |
| `SvmsgFile` | 46.4, server, requests, id file, signals | extends `SvmsgTransfer`; adds the server loop, `onExit` (also in children), the handler, restarts and kills of every process; "killedInExit" is a server killed after `msgctl()` and before `onExit` |
| `TalkService` | 46.6 | `slots` is `pCi[]`, `clientCount` its count; each client has a `main` and a `recv` process; `ExitDeletes` and `ExitRemoves` are the two halves of `onExit` |
| `BlockStream` | - | the abstract promise of a copy: blocks in order, each once, an end only after the last |
| `TwoSemBuffer` | the loop common to 53.1 and 48.4 | one buffer and two semaphores; `ProducerStep` is the side that reads the file, with its three calls; `TakesToken`, `Prints`, `GivesBack` are those of a side that writes, which keeps its own place |
| `SemCopy` | 53.1 | extends `TwoSemBuffer`; `held`, `Acquire`, `AcquireFails`, `MainReleases` are the ladder of labels; `ThreadWrites` is `thread_write`, `dest`, `destOffset` the destination |
| `ShmTransfer` | 48.4 | extends `TwoSemBuffer`; segments and semaphore sets by key and by identifier, runs of the writer one after the other, and any number of `Readers`, which start whenever they like, side by side; `out` is what they print together |
| `MqFile` | 52.2 and 52.2.b | `kind` says which server runs; the client, and what a child or thread sends, are the same code |
| `EchoServers` | 62.2, 60.4, 61.5 | `kind` says which server runs; `accepting` and `recving` are children in `accept()` and `recvfrom()`, `serving[c]` what the process with the connection of `c` does |
| `AlienInvasion` | the game | `Frame` is one round of `run_game()` after the events: `MoveShip`, `MoveBullets`, `CheckCollisions`, `CheckEdges`, `MoveFleet`, `CheckShip`, `CheckBottom` in the order of the calls; each event is an action. Positions are counted in fractions of a pixel, of which `rect` keeps the integer part; `Scale` holds the powers of `speedup_scale`. `Hits` and `Shoot` are `groupcollide()`: a bullet takes the aliens it meets that no earlier one has taken. |
| `KeyServer` | 46.7 | extends `SvmsgTransfer`; a queue is named by the server that made it, `keyed` is the one under the key, `keyQ` its requests, `parent[c]` the server that forked the child of `c`; a server that is "killed" leaves its queue under the key |
| `FileLocks` | 55.2, 55.4 | `lockAt[p]` is the lock a process wants next, `lockHeld[f]` who has one; `probe[p]`, `probeLocks`, `reports` are the processes, locks and messages of 55.4, where "again" is the process the first child forks |
| `SignalReceivers` | 20.1, 22.3 with their senders | `pend` the kernel's pending signals, `frames` the stack of running handlers, each with the value of `sigCount` it has read |
| `DirMonitor` | 19.1 | `tree`, `wdOf`, `queue` are the kernel's side, `table` and `count` are `wdName[]` and `wdName_count`; `toWalk` is where `nftw()` is |
| `PathNames` | 31.2 | `Squeeze`, `Clean`, `DirNames`, `BaseName` are the string functions; `Without` is the loop of `judgePath`, which skips the positions of `Repeated`; `Normal` in the property is a reference that leaves out other ones, `Idle` |
| `ChildPairs` | 44.1, 26.4 | `pipe[p]` the letters on their way to `p`; `syncPc`, `syncChild`, `usr1` the second program |
| `JoinThreads` | 30.4 | `loopVar` is `i`, of which each thread has the address; `mutex`, `numNoJoined`, `threadStatus` as in the code |
| `AppendWriters` | 5.3, two processes | `offset[w]`, `length`; `Flags` is the argument of `open()` |
| `SocketHelpers` | `inetConnect()`, `inetListen()`, `inetBind()` | `rp` is the address being tried, `sock` the state of the socket made last |
| `Exercises` | - | composes `MultiSigchld`, `SemCopy` and the eight modules from `FileLocks` to `SocketHelpers` above: `program` says which of their twelve programs a behaviour runs |

The modules under `Exercises` share nothing, and neither do their programs;
they are checked in one run because their questions are of the same size. Each
is a specification of its own (`CopyInit`, `CopyNext`, `CopyFairness`, ...), and
may be extended by a module of proofs without the others.

A block of a file, a request or an echo is one token: its bytes matter to no
property. What the properties tell apart is kept: the order of blocks, lengths
0 and -1, the length of the END message of 46.4, whether a queue has room.

One step of a model is one system call, or the code between two of them that
touches nothing shared. `onExit` of 46.4 and `WriterFails` of 48.4 are two
calls in one step; the other processes can tell the difference only by failing
on the other object, which the comment at the definition says.

## Runs

Every passing run explores its whole state space. `CHECK_DEADLOCK FALSE` is in
every configuration because all the programs, or their clients, come to an end;
where being stuck is the danger a liveness property says so instead.

| Run | Instance | What it shows |
|---|---|---|
| `svmsg_file` | 2 clients, 2 servers started at any time, files of 0 to 2 blocks or missing, a queue of one block, every fault | Blocks are conserved between file and client; a client that reports success has the file; the SIGCHLD handler never finds itself without a child; the id file names a queue that is gone only while its server is between `msgctl()` and `onExit`, and for good if the server is killed there. |
| `svmsg_live` | 2 clients, 1 server, up to 3 blocks through a queue of 2, no faults | Every client that reached the server ends. |
| `svmsg_end` (violation) | as above, END may be longer than MSGMAX | The comment at `svmsg_file_server.c:83` is not kept: after a block that filled the buffer and left no NUL in it, an END of `strlen()` of that buffer can be refused, and the client waits for ever. |
| `talk` | 2 clients, 2 slots, interrupts, kills, failing forks | No client has two slots, leavers are forgotten and members stay known in every order of REGISTER and the two DELETEs; a server blocked on a client's queue is released when that client leaves. |
| `talk_count` (violation) | 2 clients, interrupts | "current has %d rember" is too low after the DELETE of a client that was interrupted between `atexit(onExit)` and its REGISTER: the count falls to -1. |
| `shm` | 2 blocks, 3 runs of the writer, 2 readers that start at any time, kills of either side, failing opens and reads, another program's set with identifier 0 | Until a process is killed the readers share the blocks of the file: they print each once and in order between them, which implements `BlockStream`, and have printed the whole file when one of them ends well. A writer that exits leaves no segment. |
| `mq` | both servers, 2 clients, files of 0, 1, 3 blocks or missing, queues of 2, one misfortune per behaviour | A client that reports the end has the file; `mq_notify` never gives EBUSY; every request taken is answered and no child stays a zombie. |
| `echo` | all six servers, 2 TCP clients and 1 UDP client, one misfortune per behaviour | A request is answered once though several processes take from the same socket; every zombie has a signal on its way; every answer the server owes arrives. |
| `key_server` | 46.7 with 2 clients, 2 servers, files of 1 block or missing, a queue of one block; failing forks, long ENDs, kills of servers and children | A client that has sent its request waits for ever only if the request lost its queue or its reader before a child was forked, or if the child went without a word. |
| `exercises` | the twelve programs of `Exercises`, one per behaviour: 26.5 with 6 children; 53.1 with 4 blocks, an old destination of up to 5 and every failing call; 55.2; 55.4 with all pairs of arguments; 3 signals sent twice; 8 trees with 2 changes; all paths of up to 4 characters; pipes with kills; up to 3 threads; 2 writers of up to 2 bytes; up to 3 addresses | 26.5: the counter is exact at every moment, a zombie is never forgotten although signals merge, and `main` ends with every child reaped. 53.1: the hand-over implements `BlockStream`; nothing is used after its release; the copy is faithful; both threads end if `read()` fails only finitely often. 55.2 ends or is in one of two circles of waits. A report of 55.4 is due to the arguments or to the process its first child forks. Signals merge and handlers nest, but realtime signals are all counted, the total of 22.3 is at most too low, and SIGINT ends the program unless it came before `pause()`. The monitor's table is right until its removal code has run or the table is full. Directory and base name make up the path. 44.1 and 26.4 lose no wake-up. 30.4 is always woken up and then hangs. An appending process loses no byte to another one. A socket helper that gives up leaves nothing open, but for a failing `listen()`. |
| `sockets` (violation) | the socket helpers alone, up to 3 addresses | "-1 on failure, otherwise the socket" (`inet_sockets.c:118`, `130`) is not kept: when the only address is refused, the passive helpers return the descriptor they have closed. |
| `game` | a small window and a full screen, two speeds, one spare ship, two bullets | A frame costs one ship at most although it looks twice for a hit; the fleet stays on the screen whatever is shot from it and when the screen changes; a game left alone ends. |

### Bounds

All are constants of the modules and appear in guards or in the enumerated
inputs, nowhere else.

- *Clients, children:* two clients give every race for a slot, a queue or a
  socket that one pair of processes can have, and every merging of two signals;
  26.5 is checked with six children because several exits can merge while one
  handler runs.
- *Blocks and queues:* `MaxBlocks` is larger than what a queue holds, so that a
  sender blocks, runs empty and blocks again; 0 and `Missing` are the edge cases.
- *Failing reads* are not bounded in 53.1 and 48.4, which pass -1 on and read
  again: the models go round with them. `CopyEnds` excludes the behaviours in which
  `read()` fails for ever, which are those in which 53.1 never ends. In 52.2 a -1
  takes room in the client's queue; `MaxErrors` bounds their number.
- *`MaxRuns`, `Readers`:* three writers in a row are needed for a leftover of
  the first to meet the third through the second; two readers are enough to split
  a file, and three were looked at once (3.7 million states, nothing new).
- *`MaxTalks`:* one message per client fills a queue with `QueueTalks = 1`.
- *`MaxKids`:* `pollServer()` forks in every round while a socket is readable;
  two waiting children are enough for them to compete. At the bound a round
  forks nobody for that socket, which is what the round after it would do.
- *`MaxMsgs`:* two messages make a client of 60.4 go round once.
- *`Mishaps`:* `MqFile` and `EchoServers` let one kind of misfortune happen per
  behaviour (any number of times); the others combine all of them.
- *The game:* `MaxLevel` stops the speed after one increase. A screen of a few
  pixels, with aliens of one pixel, holds a fleet of one column in the window and
  of two on the full screen; a bullet longer than the gap
  between two rows can meet two aliens in one frame.
- *`Exercises`:* `MaxSent = 2` merges a standard signal and queues a realtime one;
  `Slots = 4` is a table that a tree can fill (`WDNAMENUM` is 100); `MaxChanges = 2`
  lets a deletion be followed by another change; `MaxPath = 4` has room for a slash
  at the start, two in a row and one at the end; `MaxThreads = 3` lets one thread
  finish before and one after the one that wakes `main` up; `MaxAddrs = 3` has an
  address the loop never comes to.
- *`key_server`:* `MaxBlocks` and `QueueBlocks` are 1 there: the transfer itself is
  checked with more in `svmsg_file` and `svmsg_live`.
- `Symmetry` is used in `svmsg_file` and `shm` only, which have no liveness
  property (`ReadersShareAStream` is about steps, and does not tell readers apart).

### Fairness

Weak fairness per process, handler or thread: the kernel schedules what can run.
It never covers the start of a client, an interrupt, a kill, or a failing call.
Where a process has several steps that can be enabled together (the server
loops), one `WF` of their disjunction stands for the one thread that runs them.
In `TalkService` clients need not talk and receivers need not read, only a
process inside `exit()` goes on. `EchoServers` gives `MainReaps` a fairness of
its own because a signal is delivered whatever `main` does. The liveness
properties state their own limits, which are those of the code: in 52.2.b a
request nobody was notified of, and in the signal-driven 62.2 a connection whose
signal merged with another, have no claim to an answer. In `KeyServer` servers
that have been started, clients that have sent and children are fair, starts and
kills are not. In `Exercises` each program has the fairness of its processes and
nothing for starting them, so that fairness asks nothing of a program that is not
run (in 53.1 `Begun` says so): weak for every process and thread, strong for the
threads of 30.4, which may wait for a mutex that `main` takes again after each
wake-up without a signal. Changes to the tree of 19.1, signals sent and kills are
never fair. 53.1 has fairness for its threads, none for the outcome of a `read()`,
and so ends only where `read()` fails finitely often. In `AlienInvasion` only
`Frame` is fair: `run_game()` goes round for ever, a player need not do anything.

## What is proved

The proofs are in the `Proof` modules. They hold for every value of the
constants that satisfies the assumptions at the head of the modules
(`NAssumption`, `TransferAssumption`, `ServerAssumption`, ...), which only say
that sets are finite, that names of different kinds differ and that bounds are
natural numbers; `N <= 126` is there because `argc` is a `char`, and
`GameAssumption` asks for a window with room for an alien, a full screen no
smaller than it, and speeds that grow by `speedup_scale`. Every invariant of a
passing run, and every action property, is a theorem. The module of proofs for
46.4 extends `KeyServer` too, since both servers share `SvmsgTransfer`. That for
`Exercises` extends `AlienInvasion`, which shares nothing with it; 26.5 and 53.1
have modules of proofs of their own, about `ReapSpec` and `CopySpec`.

| Theorem | States |
|---|---|
| `MultiSigchldProof!TypeCorrect`, `CounterExact`, `NoExitMissed`, `AllReapedAtExit`, `CatchesBounded` | 26.5: the two invariants of run `exercises`, type correctness, the safety half of `ReaperEnds` (who reports the end has reaped every child) and the bound on the count of catches, for any number of children |
| `SvmsgFileProof!ServerNeverSpins`, `IdFileIsNeverStale`, `NoBlockIsLost`, `TotalIsTheFile` | the four invariants of run `svmsg_file`, for any number of clients, servers and blocks and any faults; a server killed between `msgctl()` and `onExit` is the one way to a stale id file |
| `SvmsgFileProof!EndComes` | what run `svmsg_end` refutes holds if no END is longer than MSGMAX and no child is interrupted or killed: the length of END is the one other cause |
| `SvmsgFileProof!KeyTransferIsRight`, `KeyHandlerHasAZombie`, `KeyClientIsNotForgotten` | 46.7: no block is lost or counted twice; a server with a SIGCHLD pending has a zombie; unless an END is refused or a child is killed, who waits has a request, a child or a message on its way, or its request went with a removed queue, a killed server or one that could not fork (the safety half of `KeyClientServedOrOrphaned`) |
| `SvmsgFileProof!ServerTypeCorrect` | the ranges of all variables of 46.4; a child has no more left to read than its file (`ReadsWithinFile`); a pending SIGCHLD has a zombie among the children its own server forked (`PendingHasZombie`) |
| `SvmsgFileProof!KeyTypeCorrect` | the ranges of the transfer in 46.7 |
| `TalkServiceProof!OneSlotEach`, `LeaversForgotten`, `WorkersAreMembers` | the three invariants of run `talk`, for any number of clients and slots |
| `SemCopyProof!TypeCorrect`, `ReleasedLast`, `Faithful` | 53.1: the three invariants of run `exercises`, for files of any length and any number of errors |
| `SemCopyProof!ImplementsBlockStream` | 53.1 implements `BlockStream` |
| `ShmTransferProof!SegmentTypes`, `NoSegmentLeft`, `ReadersHaveTheFile` | the three invariants of run `shm`, for files of any length, any number of readers side by side and any number of runs |
| `ShmTransferProof!ReadersGetTheStream` | the property of run `shm`: as long as no process was killed, the output of all readers together implements `BlockStream` |
| `MqFileProof!NeverBusy`, `EndMeansWholeFile` | the safety properties of run `mq`, for any number of clients, any file and any queue size |
| `MqFileProof!QueuesKeepTheirBound` | the ranges of all variables of 52.2 and 52.2.b, no queue above `mq_maxmsg`, and `WithinFile`: no worker is past the end of its client's file, and what a client has written is a prefix of that file no longer than what its worker has read |
| `EchoServersProof!RequestsAnsweredOnce`, `ZombiesGetReaped` | the invariants of run `echo`, for all six servers and any number of clients, requests and children |
| `ExercisesProof!RefusalsExplained`, `AppendsSurvive`, `WatchesListed`, `NamesMakeThePath` | the invariants of 55.4, 5.3, 19.1 and 31.2 in run `exercises`, for any table, number of changes, lengths and paths |
| `ExercisesProof!HelpersReturnRight` | the safety half of `HelpersLeaveNothingOpen`, and that a closed descriptor, on which run `sockets` refutes `ReturnsASocket`, is returned in that one case only, for any number of addresses |
| `ExercisesProof!SignalsAreCounted`, `FinishedThreadsCounted`, `StuckOnlyInACircle`, `PairsKeepTheirWord` | the safety half of `StopIsHeeded`, `WakesUpAndHangs`, `FlockEndsOrCircle` and `PairsEnd`: what holds at the end each of them promises, for any number of signals and threads |
| `ExercisesProof!FleetStaysOnScreen`, `FrameCostsOneShip` | the invariant and the action property of run `game`, for every size of screen, fleet and ship, every speed and number of levels |

Every invariant below was given to TLC on the instance of its run before it was
proved. The arguments:

- **26.5.** `CountMatchesChildren` and `NoLostSigchld` are not inductive alone.
  `ForkProgress` says which children exist from how far the loop has come, and
  `MaskInv` that SIGCHLD is blocked outside `sigsuspend()`, so that no handler
  runs between the test of the counter and the sleep: this is what the program's
  signal mask is for, and without it (`SetupUnblocked`) the wake-up is lost.
- **46.4.** The handler is safe because each delivery is owed a zombie of its
  own. `ZombieInv` says so: one zombie for a pending SIGCHLD or a running
  handler, two different ones for both. `QueueInv` (a client is queued at most
  once and has no child yet) is needed so that a fork never takes a zombie's
  place; it also gives `NoBlockIsLost`, since a second child would send the file
  again. `Transfer(c)` follows one client: nothing is sent before its child has
  the file (`Untouched`), only the last message is no block (`Ordered`), total,
  queue, hand and rest make up the file (`Conserved`), END comes when nothing is
  left unless reading failed (`EndIsLast`), and so a total is the file
  (`Listens`). The id file is inductive with the types alone: whoever removes
  the queue removes the file in the same step or is on its way to `onExit`, where
  only a kill can stop it; the state "killedInExit" remembers that it did.
  `ServerTypeCorrect` comes from the same invariant: `Conserved` bounds what is left
  by the file, `ZombieInv` gives each pending signal its zombie. For `EndComes`, `AllAnnounced` says that a child past its transfer has left END or
  FAILURE as the last message in the queue of a client that still listens.
- **46.7.** A client and its child are those of 46.4, so `Transfer(c)` and
  `AllAnnounced` are the same invariants; `TransferRests` and `TransferPromises` are
  the lemmas both servers use. What differs is who starts a child: `KeyRequests`
  says that a client has one request queued at most, and no child yet, so that no
  second child sends the file again when a server has removed the queue of
  another. `KeyParents` and `KeyZombies` tie a child to the server that forked it
  and a pending SIGCHLD to a zombie. For the client that waits, `KeyNames` says that
  the queue under the key belongs to a server in or just behind its loop, or killed
  there, and holds requests sent to it alone, and `KeySent` that a request is there
  until it is taken.
- **46.6.** `Booked(c)` follows one client through the service: before REGISTER
  there is no trace of it (`Unknown`); REGISTER is queued once, and before any
  DELETE (`RegistersOnce`); as long as one that left is, or will be, in the
  table its DELETE is queued (`LeaverIsAnnounced`); for one at work none is
  (`WorkerIsKnown`). The queue's order is what the second part is about: the
  three invariants hold because both messages of a client travel through the
  same FIFO queue.
- **53.1.** `Holding` ties what `main` holds to its place on the ladder,
  `OneToken` says that a semaphore or one of the threads has the only token, and
  `Contents` what the buffer then means: when it is full, the block in it is the
  next one the other thread lacks. From these every step of the program is a
  step of `BlockStream` or none.
- **48.4.** `ShmTypes` keeps the ranges and, until a kill, at most one token. As long
  as no process was killed only the first of all runs ever copies, and it takes
  the set with it (`OneRun`: with the `==` of line 77 the others work on the
  identifier 0 that is gone). Then `OneToken` counts the token over both semaphores,
  the writer and all readers: one of them has it, so of the readers beside each
  other one at most stands between its two `semop()`. `Contents` says what the buffer
  then means, for whichever reader comes next: the block after the last one
  printed, a failed read, or the end. A reader that ends keeps the token, so no
  other can end after it. That every step delivers, closes or does nothing is
  `BlockStream`, and the whole file at the end follows.
- **52.2, 52.2.b.** `OnlyNotify` confines registrations and notified threads to
  a running server; with it `NotifyNeverBusy` is inductive: a notification
  clears the registration and makes one thread, which alone can set it again.
  For `EndIsTheWholeFile`, `Stream(c)` says that what a client has written and
  what its queue holds are the blocks sent so far, in order (`Flows`), that END
  comes last and after the last block (`EndsWell`), and that the answer to a
  missing file is the only one (`Refused`). `Requests` is needed so that no
  second child or thread starts to send. `Reach` adds the
  lengths: what is written and every block queued are within what the worker has read
  (`pos`), and `pos` is within the file. With `Flows` that makes what is
  written a prefix of the file.
- **62.2, 60.4, 61.5.** `Account(c)` counts the requests of a client over all the
  places where one can be: waiting in a connection or a socket, with the process
  that took it, answered. A request is taken by one process because a client
  stands in a socket's line once (`Lines`), main takes only what is still there
  (`Alone`), and a child of `signalServer()`, or a signal that will start one,
  has a request of its own (`Signals`). `ZombiesAreAnnounced` is inductive as it
  stands, once the types are known: the handler reaps all there are.
- **55.4.** `ProbeInv`: a lock is held by a working process and is that of its
  argument, and until the first child goes on there is no "again".
- **5.3.** `AppendInv`: the offset of a process that seeks is behind the old
  file and all its own bytes, and not behind the end of the file. That every
  byte it wrote lies before the offset makes overwriting them impossible.
- **19.1.** `MonitorInv`: until the removal code has run, every watch of the
  kernel and every waiting event has an entry (`WatchesKnown`); as long as
  nothing goes away, what is named exists (`NamesExist`) and each file of a
  watched directory is listed, to be visited or announced by an event, or its
  directory is still to be read (`FilesReported`). The last is inductive because
  `nftw()` sets the watch of a directory before it reads the entries: a file
  created in between is seen twice, never missed.
- **20.1, 22.3.** `SignalInv` counts each signal over the places where it can be:
  caught, pending, or being handled (`Seen`). One handler of a signal is on the
  stack at most (`Apart`), so a delivery moves a signal from one place to the
  next; realtime signals seen are those sent, of the others at least one is.
  `TotalIsLow`: whatever value an interrupted `sigCount++` has read, it is not
  above the number of signals caught, so that the total is never too high.
- **30.4.** `JoinInv`: a thread that is not created yet has done nothing, so that
  creating it uncounts nobody; each pass through the mutex adds one to the count
  and at most one mark, whatever number the thread has read.
- **55.2.** `FlockInv`: a process holds exactly the locks before its place in its
  own order. Two processes with opposite orders that find no free lock are then
  in a circle.
- **44.1, 26.4.** `PipeInv`: the letter the parent waits for is in one pipe, with
  the child, or in the other pipe, unless the child is gone (`OnItsWay`), and the
  answers so far are the capitals in order (`Told`). `SignalKept` is inductive
  because the child signals before it ends and the parent had blocked SIGUSR1
  before the fork.
- **Socket helpers.** `HelperInv` says what the socket is at each call; a
  refused one is closed before the loop goes on or ends, and a refusal ends it only
  if there is no second address, which would be tried for ever.
- **31.2.** `Without` is a recursive function. That there is a function with these
  values at all is `StepByStep`, which is about functions and not operators, so
  that it can be cited; `Counting` is the induction, by the least counterexample.
  With them `CleanIsNormal` follows the two loops side by side: after n characters
  they have written the same, but for the slash that the program writes at the
  first and the reference at the last of a row. `PathInv` is then immediate.
- **The game.** `GameInv`: a fleet that goes to the right is not past the left
  edge, and past the right one by less than a step; likewise to the left. It is
  inductive because `CheckEdges` turns the fleet before it moves (`StepInside`), an
  alien at no edge is a pixel away from both (`NotAtEdge`: what `int()` and the
  test tell of its position), and a new fleet is inside whichever way it goes
  (`NewFleet`). The same lemma says that a new fleet is clear of the bottom, so the
  second check of a frame finds nothing after a hit.

Only model-checked: all liveness, since fairness and `ENABLED` are beyond the
proof system. Where the property has a safety half, in runs `exercises` and
`key_server`, that half is a theorem. None of the modules has a recursive operator.

## What the models show about the code besides

These are not claims of the repository and so not findings; the models contain
the behaviour, and the properties are stated so as to hold with it.

- *46.4:* a read error ends the loop as end-of-file does (a short file looks
  complete); a child that cannot open its file, or is interrupted, runs the
  server's `onExit` and removes the server's queue and id file; merged SIGCHLDs
  leave zombies; a server killed between lines 167 and 169 leaves the id file with
  the identifier of a removed queue.
- *46.6:* receivers read the server's queue, so which of server and receivers
  gets a TALK is chance; a full table ends the server; at end of input `main`
  sends TALK without end. Both processes of a client may send DELETE, the second
  of which lowers the count once more, as the one without a REGISTER does.
- *48.4:* with `semId == semget(...)` the writer works on identifier 0, that is
  once per boot; a killed writer leaves semaphores that the next run reuses.
  Readers side by side split the file, and those that do not get the end wait until
  the writer removes the set, when they fail. A reader killed with the token leaves
  the writer waiting for ever, one killed before it leaves the rest to another,
  which then ends well with a part of the file. The properties therefore stop at the
  first kill (what is printed after it is not recorded); the segment's does not.
- *52.2:* the server's name is never unlinked, so it starts once; a client that
  fails to create its file leaves a queue its child blocks on. The client adds the -1
  of a failed `read()` to the count it prints and does not look at what `write()`
  returns; neither number is in the model. *52.2.b:* one
  receive per notification leaves later requests in the queue; a missing file
  ends the server.
- *53.1:* no `O_TRUNC`, so a longer old destination keeps its tail. A `read()` that
  keeps failing (a directory, a bad disk) is posted and tried again for ever.
- *62.2:* poll forks a child per round and never reaps; select and epoll wait in
  `main` for a client that has connected and says nothing, and never close its
  connection (the clients of the model, once connected, always send); the signal
  server loses what arrives before `F_SETOWN` and what
  merges.
- *46.7:* removing the queue found under the key is meant for one left behind; if
  its server runs, its requests are lost and that server ends. A failing `fork()`
  ends the server too, and the request it had taken is lost. A killed server leaves
  its queue under the key, where clients go on sending requests nobody reads; the
  next server removes it, and the clients wait on. The END of line 50 can be refused
  as in 46.4.
- *55.2:* besides the deadlock the program demonstrates (line 16) there is another:
  the parent gets both locks first and waits in `waitpid()` for the child that
  waits for its lock. *55.4:* the child of the first argument falls out of its
  branch into the next turn of the loop and forks; the second lock is then tried
  twice, and "failed" may be printed for arguments that do not conflict.
- *22.3:* SIGINT between test and `pause()` is not noticed until another signal
  comes; nested handlers lose increments of `sigCount`.
- *19.1:* `remove_inodity_for_entry()` takes the watch behind the last entry and
  clears the first one, and is called for the directory's entry, not the
  deleted file's; a new directory is not watched since `IN_CREATE | IN_ISDIR` is
  not `IN_CREATE`; the table has no check against overflow; names are not
  changed by a move.
- *31.2:* the directory of "/a" is "", "/" or ".." may give "." from an
  uninitialised `len`; a path without a slash left comes back as given, "a/"
  with its slash; a descriptor 0 returned by `open()` counts as a failure; an
  empty path looks at the character before the buffer.
- *44.1:* a child whose parent was killed spins at end-of-file.
- *30.4:* the joins are behind the loop that should hold them: with an argument the
  program never ends. Threads may read the same number, or one behind the array.
- *common/inet_sockets.c:* a refused second address is tried for ever; the passive
  helpers return a closed descriptor after their only address is refused (run
  `sockets`); `inetAddressStr()` takes success for
  failure and prints "?UNKNOWN?".
- *44.7:* `sizeof(req) != sizeof(req)` is the length of the server's `read()`: no
  request is ever read.
- *Alien Invasion:* `game_stats.py:9` says the game is active at the start, line
  10 makes it inactive. `_fire_bullet()` does not ask whether a game is on.
  `fleet_direction` survives a lost ship and a fleet shot down. After
  `_set_full_screen()` the ship keeps the rectangle of the window. The model
  takes the full screen to be at least as large as the window: on a smaller one
  the fleet would be past the edge, and turn and drop in every frame. Binary
  floats are replaced by exact fractions: the model's `1.1 * 1.1` is exact.

## Plan

In order; each step adds its modules, runs, mutants, hazards and theorems.

1. *Done:* 26.5, 46.4, 46.6, 53.1, 48.4, 52.2 with 52.2.b, the socket servers, the game;
   `BlockStream` as the abstract promise of 53.1; the theorems above.
2. *Done:* the small programs, eight modules under `Exercises`, and `KeyServer`.
3. *Done:* the invariants of 46.4, 46.6, 48.4, 52.2, the socket servers, 55.4,
   19.1 and 5.3 as theorems, and the safety inside the liveness properties of
   the socket helpers, 20.1, 22.3, 30.4, 55.2, 44.1 and 26.4.
4. *Done:* that no block is lost in 46.7 either, whoever removes its queue; the
   hand-over of 48.4 as an implementation of `BlockStream`; the game; the names of
   31.2.
5. *Done:* the ranges of all variables of `SvmsgFile`, of the transfer under
   `KeyServer`, and of `MqFile`, with what each worker or child has read of its file.
6. *Done:* several readers of 48.4 and their kills, kills in 46.7 and at the end of
   46.4, failing reads of 53.1 without a bound.

## Not modelled

- *Two writers of 48.4 at once:* `MaxRuns` writers run one after the other. Two at
  once would both write the segment; the program has no protection against it and
  no text says that it should.
- `routines/44.7`, `practice/27.2`: what they do depends on uninitialised or
  overwritten memory from their first steps on (`read()` of length 0; an
  environment vector of one element), so that a model would say nothing about
  the program its author had in mind nor about a particular build.
- `practice/31.1`, `6.3`, `5.4`, `5.7`, `45.1`: one thread and one pass over its
  arguments; a property would restate the code. (`myunsetenv()` of 6.3 removes
  the entries that do *not* start with the name: `(*ep)[len == '=']` is
  `(*ep)[0]`.)
- `26.3`, `44.2`, `21.1`, `22.1`, `23.3`, `34.4`, `57.*`, `59.5`, `60.2`: one child, one
  signal, one pipe or one datagram each; the protocols with more than one step
  of this kind are in `ChildPairs`, `SignalReceivers` and `EchoServers`.
- Input and output of one sequential process (`routines/1.seek_io`, `18.*`,
  `10.*`, ...), one mapping (`49.*`, `50.*`), scheduling (`35.3`), and the Python
  exercises: their properties would be those of the system calls.
