# libhelp in TLA+

A verification project for libhelp, a small C/C++ library of helpers (memory
pool, configuration files, timers, a semaphore shared between processes,
messages between processes, files, processes, logging) and for `lockrun`, the
program built beside it. Paths below are relative to the repository.

It models every part of the library that is built and keeps state, checks each
with TLC, and proves every safety property of its passing runs, for every value
of the constants. Liveness is checked with TLC only.

## The system

| Component | Source | State it keeps | Operations | What is hard |
|---|---|---|---|---|
| Semaphore | `src/semaphore.c` | a mapped file: mutex, condition variable, counter | create, open, post, wait, close | processes interleave, are killed, open too early; wakeups are lost or spurious |
| Memory pool | `src/pool.c` | chunks, the chunk to start from, the list of large blocks, the size | new, alloc (calloc, cpy), free, delete | pointer arithmetic at the end of a chunk; list nodes lie in the chunks being freed; malloc fails half way |
| lockrun | `src/lockrun.c` | a lock on a file, a child | lock with retries, fork, exec, waitpid | instances interleave, are killed; lockf, fork, exec and waitpid fail |
| Configuration | `src/config.c` | a map of keys to values, the text being parsed | new, new2, test, delete; getters | one loop over characters; a copy directive inserts into the map it walks, and may overrun its buffers; failures |
| Timers | `src/timer.c` | a list without a lock, descriptors, the loop's array | initialize, start, stop, finalize; the loop | callbacks and the main thread change the list the loop relies on; descriptors are used again, also under a read; cancellation |
| Messages: queue | `src/proc_msg.cpp`, `src/proc_msg_queue.cpp` | a System V queue and its key file, one buffer per object, a handler thread | create, connect, close, send; start, stop, wait | full queues block, anyone removes the queue, between the steps of others that open it; old messages are dropped |
| Messages: UDP | `src/proc_msg.cpp`, `src/proc_msg_udp.cpp` | the number of a descriptor, the last address heard, one buffer per object, a handler thread | create, connect, close, send; start, stop | loss, reordering, an address overwritten by each receive; a socket that outlives its descriptor, a number that outlives the socket |
| File copy, queries | `src/file.c` | two descriptors | file_copy, memory_free, memory_all, xserver_is_start | failure between reads and writes; two copies to one target |
| Process helpers | `src/proc.c` | descriptors, pid file, title | daemonize, pid save and delete, title | descriptors 0 to 2, fork beside threads, two instances |
| Logger | `src/logger.c` | stream, cached second and its text, text of the process id | new, put, rotate, set_pid, delete | threads sharing the cache, fork copying it |
| Pure helpers | `src/str.h`, getters of `src/config.c` | none | atoui, itoa, config_get_* | overflow |
| Messages: TCP, ZeroMQ | `src/proc_msg_tcp.cpp`, `src/proc_msg_zmq.cpp` | | | not built: absent from the Makefile, or commented out |

How they interact:

- The configuration keeps all it stores in a pool, and drops it by deleting the
  pool. Pool is modelled as a component of its own; Config uses what it promises:
  an allocation succeeds or fails, and nothing is freed before the end.
- Every helper in C logs through the logger. For the process helpers, which log
  while descriptors and processes change under the log, this is modelled
  (`ErrorTime`); elsewhere a message changes nothing but a file.
- The logger, the process helpers and file_copy work on the descriptors that the
  threads of a process share, and fork copies. `Daemon` composes the three.
- The transports share one class, `pm`: one buffer (`pmsg`), one handler
  thread, one type filter. The handler calls back into the user's parser.
- The timer loop calls back into the user, whose callbacks call `timer_start`
  and `timer_stop` on the loop's thread, in the middle of its scan.
- The semaphore, lockrun and the message queue are shared by processes, which may
  be killed; there is no code for recovery anywhere.

What makes each correct:

- *Semaphore*: the mutex excludes; posts minus waits is the counter; a waiter is
  woken when there is a token; it is a counter of tokens to its callers.
- *Pool*: blocks lie in their chunks, aligned and apart; deletion frees each
  thing once and reads nothing that is freed, whatever has failed before.
- *lockrun*: one command at a time; the attempts asked for; a success is that of a command that ran.
- *Configuration*: a text loads as what its directives mean; errors name their
  line; a map that is handed out has a value for each key; buffers are overrun
  only if the text means a key that is too long; the load ends.
- *Timers*: no access to a freed node; callbacks belong to the timer that has
  expired; expired timers are served; finalize returns and leaves nothing.
- *Message queue*: each message is parsed once, in order, or accounted for;
  all find one queue; a blocked sender gets through.
- *UDP*: an answer reaches whoever asked; a client keeps its server; an object
  uses its own socket.
- *Logger, process helpers, file copy*: a line bears the time and the process of
  its call; a daemon is off the terminal; the pid file names somebody; a copy that
  is reported is whole; a descriptor is what its user takes it for, and is closed.
- *Getters*: a number reads back as it was written, up to the width.

## The modules

| Module | Models | How it corresponds to the code |
|---|---|---|
| `SemaphoreContract` | `src/semaphore.h` | What post and wait promise: a counter of tokens and a set of callers that wait. No mutex, no file. |
| `Semaphore` | `src/semaphore.c` | `file` is the state of the mapped file after each system call of `semaphore_create`; `owner` and `waitq` are the mutex and the condition variable; `pc` is the place of each process. The body of a critical section is one step with the unlock that ends it, except where a process can be killed with the mutex held. |
| `Pool` | `src/pool.c` | An address is a chunk and an offset. A call of `pool_alloc` is one action (its walk is `FirstFit` and `IsCursor`); `pool_delete` is a step per `free`. Offsets, header, alignment and the wrap of `size_t` are those of the code. |
| `Lockrun` | `src/lockrun.c` | One action per step of `main` between two system calls, each of which may fail. An instance has its options and what it finds (`deaf`: SIGCHLD is ignored, so waitpid fails; `locks`: lockf works); it and its child are two processes. There is no clock. |
| `Config` | `src/config.c` | An action is one iteration of the loop of `config_load`, one of its failures, or a step of a caller. `Copy` is one turn of the copy loop: JSLN continues on the changed map. No length is looked at there: a key up to `Slack` characters too long is written beyond the buffer and inserted all the same, or that write ends the process (`CopyOverruns`). |
| `Timer` | `src/timer.c` | A step reads or writes one shared location; from the read of a descriptor to the callback there are four (`ReadReturns`, `Seek`, `Lookup`, `CallCallback`). A read blocks on the timer that the descriptor had when it began; `orphan` is that timer once the descriptor is closed. A step on a node that has been freed leads to `stale`, where nothing more is known; `raced` records that both threads were in the list, one of them to write. |
| `ProcMsgQueue` | `src/proc_msg.cpp`, `src/proc_msg_queue.cpp` | `file` is the inode of the key file, of which `ftok` makes the key, and which may be used again once the file is removed; `queue` and `present` are the kernel's. Opening is a step each for open, ftok (`ipckey`) and msgget, closing one for IPC_RMID and one for unlink; `crossed` records that servers did so across each other. `buf`, `th` and `joinable` are `pmsg` and `thread_handler` of each object. |
| `ConfigGetters` | getters of `src/config.c`, `src/str.h` | Operators on the map that Config has loaded; a signed overflow is a set of results. |
| `ProcMsgUdp` | `src/proc_msg.cpp`, `src/proc_msg_udp.cpp` | `table` and `sock` are the kernel's: what each descriptor stands for, and the sockets behind; `sd`, `type`, `server_isa`, `client_isa`, `buf`, `th`, `joinable` are the members of each object. A call of `recvfrom` is two steps: what it will fill in is settled when it is called. `net` keeps every datagram, which may arrive late, often or never. |
| `Files` | the kernel, as the next three use it | Processes of two threads, and their descriptors. A descriptor stands for one of a few files. |
| `Logger` | `src/logger.c` | `log_put` is four steps (time, its text, the line, the write), as two threads may be in one log; `log_rotate` is two, and its `fopen` may fail for any reason. |
| `ProcHelpers` | `src/proc.c` | `fork` copies descriptors and log and keeps one thread. What the child does to its own descriptors is one step. The text of a process id is as many copies of it as it has digits, since ids are written over each other. |
| `FileCopy` | `src/file.c` | One action per call on a descriptor; a file is its blocks. |
| `Daemon` | the three together | Instances of a program whose threads call any of them. |
| `SemaphoreProofs`, `PoolProofs`, `LockrunProofs`, `ConfigProofs`, `TimerProofs`, `QueueProofs`, `UdpProofs`, `DaemonProofs` | | Theorems about the modules they extend. |
| `MC*` | | Values for the constants. `MCConfig` builds the texts, `MCLockrun` the command lines. |

Definitions named after a change (`MsgRcvAny`, `FreeAny`, `ExitStatusOnly`) and
introduced by *Variant* are wrong versions of the operator below them. No
specification uses them; put in its place each makes the property it is meant
for fail, which shows that the property depends on that code.

`Semaphore` implements `SemaphoreContract`: `Contract` is the refinement mapping
and `ImplementsContract` is both checked and proved. `Daemon` composes the three
components that share descriptors: each gives its variables, initial states and
actions, and `Daemon` says what the others leave unchanged. The transports do not
share state with one another: an object has one, and each module has the common
handler of `pm` itself.

## The runs

| Run | Question | Bounds, and why they suffice |
|---|---|---|
| `semaphore` | Does the mutex exclude, is the contract implemented, when anyone may be killed or open at any time; and is whoever waits woken? | Three processes, two of them waiters: a creator, an early opener and a sleeper at once, or two sleepers, one of them dead. Three posts, so two can overtake the wakeup; a counter of three bits. |
| `semaphore_two_waiters` (finds a violation) | Is a sleeper woken for every token? | Two sleepers and one poster, the least that shows it. |
| `pool` | Are blocks apart and in bounds, and does deletion free all of it once? | Chunks of 88 bytes with 32 for blocks: sizes that fill a chunk exactly, leave a tail below and above `rmd`, and go to malloc. Four chunks, three large blocks. |
| `lockrun` | Does one command run at a time, with the attempts asked for, and does every instance exit? | Two instances, each of which may be killed at any step, with seven command lines: no waiting, waiting without limit and up to one or two attempts, SIGCHLD ignored, a file that cannot be locked; exit codes 0 and 7. |
| `lockrun_exec_fails` (finds a violation) | Does a success mean that the command ran? | As above. |
| `config` | Does a text load as it means, with what lines, values, and overruns, and does every load end? | All sequences of up to three of 16 directives (each input says where they begin), all texts of up to four characters over the eight that the parser tells apart, all texts of three lines good or bad; each loaded from a file, a string and by `config_test`, with every call failing. The key limit is 4, and overruns of up to two more go unnoticed (`Slack`), so keys below, at and above each limit occur. Numbers of up to three characters, among them signs and digits of base 16, for ints of 6 bits: at, below and above every limit. |
| `timer_list` | While main and callbacks start and stop timers: is the list exact until they race in it, and is every callback due? | Three nodes, three descriptors and three starts, so that nodes and descriptors are used again; timers with an interval of 0 too. |
| `timer_main` | What if main starts timers and finalizes beside the loop; is every expired timer called in the end, and does finalize return? | Two nodes and three starts, with intervals of 0: enough for timers started after finalize was called, freed nodes in the list, and a callback that gives a descriptor to another timer. |
| `queue` | Parsed once, in order, through one queue, while queues are opened, closed and reopened step by step? | Two processes, two types, two inodes, two queues and two messages, for which a queue has room, so that a handler takes the second before the first. Time stands still: blocked senders and age are the next run's question. |
| `queue_live` | Does anything vanish, does a blocked send return, with handlers that start, stop and wait? | Capacity 1 and two messages: a blocked sender; a clock of two seconds: messages grow too old. One queue that nobody closes. |
| `udp` | Whom do answers and requests reach, and whose socket is read, while objects are opened and closed as servers and clients? | Two objects of one process, so that they share descriptors; three sockets over two descriptors and 0, so that numbers are used again and descriptor 0 is closed; three datagrams: a question, an answer and a stranger's. One port, so that binding it fails; a server that has heard nobody may send to it by chance, with its first datagram. |
| `daemon` | Lines, detachment, pid file, copies and descriptors, with two threads per process, fork, kills and every failure. | Two processes, of which one may be the child of the other; six descriptors, which a copy beside a log and a pid file uses up; four calls in all, two seconds, two blocks, ids of one and two digits. |

States where nothing is promised any more are not continued in `timer_list`,
`timer_main`, `udp` and `daemon` (the constraint `Promised` of each `MC` module, which
says which; for timers those after a race, which every property but the types
excepts, once two timers have been started). Where that is more than what the
properties except, it bounds the run: in `udp`, no second object is moved once one is, or once one has two handlers;
in `daemon`, workers copy and log while main threads do everything else, and the
instances are all started with descriptor 0 or all without.

`TypeOK` of Semaphore, Pool, Lockrun and ProcMsgUdp is proved and not run, and so are some
further results (see *The proofs*).

The runs without deadlock checking are those of components that may stop: all
instances have exited, all processes are dead or done.

What they show:

- The semaphore is correct until two processes sleep at once. Then it loses wakeups: the
  counterexample of `semaphore_two_waiters` has two sleepers, two posts in a
  row, one signal (`src/semaphore.c:56` signals only at 0), and a sleeper that
  stays asleep with a token there. It is also correct only while nobody opens
  it before `semaphore_create` has returned; the properties say so (`early`).
- The pool is sound for chunk sizes that are a multiple of 8, with malloc failing
  anywhere.
- lockrun runs one command at a time unless an instance is killed, whose command
  then runs on without a lock. A command that cannot be executed makes the child
  exit with a variable nobody has set (`src/lockrun.c:307`), which may say success.
  If SIGCHLD is ignored, waitpid (`src/lockrun.c:320`) waits for the child and then
  fails, which nobody looks at: the lock is kept all the time, and the exit is a
  success whatever the command said.
- The configuration loads as its directives say, even though the copy loop inserts
  into the map it walks, unless a directive copies a prefix to one above or
  below it (`Apart`). Such copies may feed on themselves: each key is longer than
  the last, is inserted although it no longer fits, and so on until the
  overrun is noticed; that is how those loads end. Other copies overrun their
  buffers only if the directives mean a key that is too long (`OverrunsMeant`).
- Used from callbacks only, the list of the timers is exact and each callback is due.
  Another thread beside the loop, `timer_finalize` included, can break both.
  It can race with the loop in the list, and only then is a freed node touched; that
  counts the way from the lookup (`src/timer.c:113`) to the read of the callback
  (`:156`), where the loop holds on to a node it has found. And it can stop a timer
  while the loop reads the descriptor (`:150`): the read stays behind, on a timer that
  no longer has the number, and when it returns the callback of the timer that
  has got the number since is called, without a race in the list (`orphan`). Besides, a
  callback that stops a timer collected as ready, and starts one that gets its descriptor,
  makes the loop wait in read for the new one. With an interval of 0 that is for
  ever: no timer is served any more, and `timer_finalize`, which cannot cancel the
  loop there, never returns (`Stuck`). A lock around the list would prevent only
  the first of the three.
- Messages over the queue are parsed once and in order by objects with one
  handler, and those of other types can block a queue both directions share. There is one queue
  at a time as long as no two servers are opening or closing at once, and none closes
  beside a queue that is not its own: between IPC_RMID (`src/proc_msg_queue.cpp:54`)
  and unlink (`:57`) another server may make a queue under the old file, which is
  then removed. A handler that was asked to stop receives on, but only
  those that were not are counted on when a blocked send is promised to return.
- An answer over UDP reaches whoever asked if it is sent from inside the parser of
  an object with one handler that nobody opens anew meanwhile. Any object that is
  closed when it is not open (a second time, or before it was opened, when its
  number is 0) may close a socket of another, or standard input.
- A log is correct while one thread uses it, and in the child of a fork only after
  `log_set_pid`. A daemon is off the terminal unless it was started without
  descriptor 0, which it then closes again. Two instances may leave a pid file
  that names neither, if their ids differ in length. Copies are whole unless a read
  fails, which is not reported, or two threads copy to one file.
- Numbers read back as they were written, up to the width of the type.

## Fairness

- *Semaphore*: a process inside a call goes on (weak), unless it is killed; the mutex reaches a
  process that keeps asking for it (strong: a default pthread mutex promises
  progress, and the kernel's wait queue does not pass one thread over for ever).
  Nobody has to make a call, and spurious wakeups need not happen.
- *lockrun*: each parent and child goes on, and commands end. An instance that is to wait
  without limit for a file that cannot be locked is excepted. Strong fairness
  of the lock is not needed: the number of instances is finite, each leaves
  for good. With a new instance every minute for ever, one that waits can starve.
- *Configuration*: one thread that goes on; failures are never forced.
- *Timers*: a thread inside a call goes on, the loop goes on (callbacks return),
  and armed timers expire, also one that only a read has kept. Callbacks start a finite
  number of timers (`MaxStarts`): one that starts a timer each time it is called can
  keep `timer_finalize` at its loop (`src/timer.c:103`) for ever.
- *UDP, Daemon*: none; only safety is stated. Nothing there waits for
  anything but a datagram, which need not come.
- *Message queue*: handlers run; a sender blocked on a full queue gets in if
  there is room again and again (strong: System V wakes blocked senders in turn).

## The proofs

For every value of the constants that their modules' assumptions allow. Each follows
the same argument: an inductive invariant `IInv`, `InitInv` and `NextInv` for
it, `Invariance`, and the theorems as consequences.

- `SemaphoreProofs`. Assumed: fewer posts than the counter can hold. `IInv` is
  the types, exclusion, conservation and SIGBUS only for early openers, with
  `Creation` (which processes may exist in which state of the file) and
  `Critical` (what a process inside a critical section knows of the counter:
  without it the decrement of `semaphore_wait` could wrap). Proved:
  `TypeCorrect`, `Exclusion`, `TokensConserved`, `BusErrorsAreEarly`; until two
  processes have been asleep at once, `LoneSleeperIsWoken`, from the further
  invariant `WakeInv`, which also speaks of the poster between its test and its
  signal; and `SemaphoreImplementsContract`, where every step is a step of the contract or a stutter.
- `PoolProofs`. Assumed: a chunk holds at least its header and a list node, and is
  a multiple of 8 bytes long, as the one caller's 4096 is. `IInv` adds `Shape`
  (how the chunks, the list and the walk of `pool_delete` go together) and
  `Owned` (what malloc has given out is what they say). Proved: types, blocks in
  bounds, blocks apart, no block issued twice, `PassedIsFull`, deletion reads
  only what is allocated, nothing leaks.
- `LockrunProofs`. Any number of instances, any options. `IInv` adds `Held` (an
  instance past the loop has the lock, its child lives only while it waits),
  `Leaving` and `Trying`. Proved: types, one command at a time unless killed,
  the attempts.
- `ConfigProofs`. Any set of texts, any limit on keys, any slack beyond it. `IInv` adds to
  the types `Parsing` (the line is that of the place; a key followed by something fits),
  `Copying` (the copy loop is at a semicolon and at a key under the prefix),
  `Kept` (the map is finite and has a value for each key while it may be handed
  out), `Callers` and `ErrorInv`. The copy loop goes to the next key in
  the order of strings; that there is one rests on that order being total, which
  is proved from the first place where two strings differ. Proved: `TypeCorrect`,
  `ErrorsNameTheirLine`, `MapsAreWhole` and, from the further invariant `Noted`
  (`strtok` has passed a newline for each result), `ResultsFit`.

  `LoadsAsMeant` states `LoadsMeaning`, for texts of any number of directives. Assumed
  (`InputAssumption`): a text that comes with directives spells them one after the
  other from the places `at`, each a key, blanks, a value as it stands, in
  quotes, or a prefix to copy, and a semicolon (`Spelled`), with blanks and
  comments between; TLC checks that the texts of the run do. Of other texts nothing
  is meant. The invariant is `Understood`: after some number n of directives
  the parser is among the blanks and comments before the next, in one of its
  parts with what it has collected so far, or behind a quoted value (`Place`), and the map
  is `Maps[n]`, what the first n directives say. In the copy loop, where the
  code walks the map it inserts into, it is that map with a copy of each entry
  that the loop has passed (`Walked`). This is kept because keys with one prefix follow each
  other without a gap in the order of strings (`BetweenPrefixed`), so that the loop
  skips none, and because what it inserts lies apart from that prefix
  (`MovedAway`, where `Apart` is needed), so that it meets none of its own copies.
  `OverrunsAreMeant` follows from the same invariant: what the loop is about to
  insert is an entry that the directives mean.

  `NumbersAreRead` states `GettersRead`, for ints of any width of five
  bits or more (`IntAssumption`). The digits that `IToA` and `Hex` write make their number (`Worth`), a
  getter reads exactly those up to the final 0 (`Leading`), and the bounds of
  the types do what the property says. Both theorems need what a recursive function
  does at every argument; instead of induction (`MapsAre`, `ValuesAre`,
  `NumeralsExist`) they take the least argument at which it would fail (`LeastExists`).
- `TimerProofs`. Any number of nodes up to `MAX_TIMER_COUNT`, any number of descriptors and
  starts. `IInv` is the types and `PlaceInv`, whoever races, and `Good` until
  somebody has raced. `Good` is `Order` (there is a rank by which the list falls; a node that is
  searched for is still ahead of the thread that walks; the descriptors that the
  loop has collected are no more than the nodes behind it, so its array is
  large enough), `Places` (a node being linked in or out is allocated, not in the
  list, and its neighbour is in it), `Fds` (allocated nodes have descriptors of their own,
  no other is open), `Dues`, `Hits` (until a read has lost its descriptor, the node
  under the descriptor that was read is the one whose expiry was read), `Found` (the
  node that the lookup has found stays that of the descriptor) and `Ends`. A list stays
  `Ordered` under the three changes the code makes, by the lemmas `Push`, `Unhead` and
  `Unlink`. A thread that changes the list is alone in it (`WriterStep`), or has raced; the
  others leave it alone. Proved: `TypeCorrect`, `FreedNeedsRace`, `CallbacksAreDue`,
  `ListsAreExact`, `NothingIsLeft`: all that the runs check of timers but liveness.
- `QueueProofs`. Any number of processes, messages and queues, any types, filters and
  capacity. `IInv` adds to the types `SendingInv` (a message under way is later
  than all that its sender has put), `QueueInv` (each queue holds the messages of a sender
  in the order of sending), `ThreadInv` and `OpeningInv` (an object that is being opened has no queue
  that is present, and only a server comes to unlink). Proved: `TypeCorrect`; `OneQueueAtATime`,
  through every interleaving of the steps of opening and closing, from `FileInv`; from
  `TakenInv` (what an object with one handler has taken is in no queue, was taken by no other,
  and is earlier than what it may still take of the same sender, as `msgrcv` takes
  the first that it wants) `ParsedOnceInOrder`; and `NothingIsLost`.
- `UdpProofs`. Any number of objects, ports, descriptors, sockets and datagrams; two
  handlers per object. `IInv` adds to the types and the properties themselves
  `Own` (the number of an open object stands for its socket, and its handlers are in
  that socket), `Filling` (a call of `recvfrom` fills in the address that the type
  asks for; neither holds once the object is moved under its handler),
  `Parsing` and `Answering`. Proved: `TypeCorrect`, and the three properties of the
  run: `AnswersArrive`, `ClientsKeep` and `SocketsAreOwn`.
- `DaemonProofs`. Any number of processes of two threads, any number of descriptors, calls,
  seconds and blocks. Assumed: an id has a digit. `FInv` is the types, what the place of a
  thread says of its call (`PlaceInv`), and `FdInv`: the descriptors of a call
  are of its files and of no other call (`Owns`, `Apart`), that of the log is of its file
  (`LogFile`), 0 to 2 are those of a terminal or of a daemon
  (`Standard`), and each that is open belongs to something (`Accounted`). The actions fall
  into a few classes by what they change, and each conjunct is preserved once for
  each class. Proved from it: `DescriptorsAgree`, `DaemonsDetach`; and by
  a further invariant each `LinesAreExact` (`LogInv`: the cached text is
  that of the cached second), `CopiesAreWhole` (`CopyInv`: the target is
  what has been written, if nobody shares it) and `PidFileIsNamed`
  (`SaveInv`: those who save at once have ids of one length, or it is recorded).

The invariant of Timer was also checked with TLC, within the bounds of both of
its runs, and `Understood` of `ConfigProofs` on texts of up to two directives.

Only model-checked is all liveness (`EveryRunEnds`, `WaitReturns`, `LoadEnds`,
`DueCalled`, `FinalizeReturns`, `SendReturns`), which like ENABLED is out of the
prover's reach.

## Code and documentation

Where a comment promises what the code does not do, and a run shows it:
`semaphore_two_waiters` (`src/semaphore.h:34` and `:39`) and `lockrun_exec_fails`
(`src/lockrun.c:329`).

Seen while reading, visible in the models, and not made into runs:

- `src/lockrun.c:139`: `--quiet` promises success if locked; with `--wait` and
  retries used up the exit is a failure (line 276).
- `src/lockrun.c:152`: `--maxtime` promises to bound the wait for the lock; the
  loop at line 262 never looks at it. Line 39 promises a report of long commands;
  the time at line 322 includes the wait for the lock.
- `src/lockrun.c:320`: what waitpid returns is not looked at; with SIGCHLD ignored it
  fails, and the exit is a success.
- `src/lockrun.c:15` promises one command at a time; the child gives the lock up
  at line 294, so killing the parent lets a second command in.
- `src/config.c:479`: the key a copy directive builds is not held to
  `CONFIG_KEY_MAX_SIZE`, as keys of the text are at line 359.
- `src/proc_msg.h:150` says that `pm_handler_stop` stops the handler;
  `src/proc_msg.cpp:41` detaches the thread, which receives on.
- `src/proc_msg_queue.cpp:79`: `sizeof(text)` bytes are sent although the time
  comes before the text, so the end of a full message is cut off.
- `src/proc_msg.cpp:51`: `pm_init` returns false for every transport.
- `src/timer.h:10` and `:11`: the comments of the two kinds of timers are swapped.
- `src/file.c:58`: an error of read ends the copy like the end of the file.
- `src/logger.c:42`: `log_rotate` opens `log->file`, which `log_new` never sets.
- `src/logger.c:111`: a message that is longer than `str` moves `p` beyond its end,
  and the write reads what lies there.
- `src/logger.h:29`: the buffer `func` is one byte shorter than the name copied to it.
- `src/proc.c:76`: the parent exits with success before the child has tried anything.
- `src/proc.c:118`: `fclose` returns EOF, which is -1; what `fprintf` returns is not looked at.

## What is not modelled, and why

- TCP and ZeroMQ: not built.
- The queries of `src/file.c`, the process title (of `src/proc.c`, and again of
  `src/logger.c`, where nothing calls it), the build: no state of their own.
- `config_test2` (`src/config.c:755`), a static function that nobody calls;
  `config_get_str` and `config_get_bool`, which return or compare a text.
- The times of lockrun: the report of long commands and `--maxtime`, on which only a
  line of output depends.
- Levels of the log, and messages longer than its buffer.
- The macros of `src/str.h` other than `atoui` and `itoa`: the library does not use them.
- What messages say, what blocks hold, what commands print: no property depends on it.
- `src/pool.c` with chunks too small for a list node: `pool_alloc` calls itself
  without end, so there is no next state.
- More timers than `MAX_TIMER_COUNT`: the loop writes past its array.
- `timer_stop` twice for one timer: its identifier is an address, and no caller
  could be told from a correct one.
- A second handler while the first runs is modelled (two per object at most); what
  is parsed then is not promised, as both receive into one buffer.
- The destruction of a `pm` object whose handler runs on; a `pm` object over a
  queue that is used before it was opened, when `mq_id` is not set.
- Key files that a process may not open: `pm_create_queue` makes them with no
  permissions (`src/proc_msg_queue.cpp:29`), so the second process to open one
  must be root's, as those of the model are.

## Plan

Done, in this order: Semaphore and its contract with proofs; Pool with proofs;
Lockrun with proofs; Config; Timer; ProcMsgQueue; ProcMsgUdp with proofs; Logger, ProcHelpers and
FileCopy under Daemon; the getters; then proofs for Config, ProcMsgQueue, Daemon
and Timer; then for what a text of the
configuration means, and for the getters.

Left, should the code grow into them: TCP and ZeroMQ, once they are built, as two more
transports beside `ProcMsgUdp`; `config_test2`, once somebody calls it.

## Running

    tlc -workers 2 -config MCPool.cfg MCPool
    tlapm PoolProofs.tla

The longest run takes two to three minutes. `PROJECT.json` lists runs with their
properties, the variants that break them, which lines each definition models,
the hazards and the theorems.
