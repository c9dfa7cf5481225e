# Formal models of the APUE exercise programs

TLA+ models of the programs under `src/` (exercises from *Advanced Programming
in the UNIX Environment*, rewritten in C++23) and of the library `src/lib` they
share: what their concurrency, their signals and their I/O loops do, checked by
TLC on small instances and, where a general argument exists, proved by TLAPS.

## The system

`src/lib` is the only part the programs share; every directory `src/<n>` holds
stand-alone programs for chapter *n*. They interact through the kernel only:
signals, record locks, pipes, sockets, message queues, io_uring, shared memory.
`10/24` below stands for `src/10/24_signal_handshake.cpp`, and so on.

| part | source | module |
|---|---|---|
| TELL/WAIT over signals | `lib/apue_ipc_signal.cpp`, `apue_signal` | `SignalSync` |
| TELL/WAIT over pipes | `lib/apue_ipc_pipe.cpp` | `PipeSync` |
| record locks | `lib/apue_lock.cpp`, wrappers in `lib/apue.h` | `RecordLock` |
| programs on both | `10/24`, `15/12`, `8/7`, `14/4`, `14/6`, `14/11` | `SyncPrograms`, which extends `SignalSync` and instantiates `RecordLock` |
| programs of one process with signals | `10/1`, `10/3` to `10/5`, `10/7`, `10/11`, `10/14` to `10/16`, `10/22` | `SignalPrograms` |
| timers on one alarm clock | `10/23` | `Timers` |
| programs of processes and pipes, `system` | `1/8`, `8/3`, `8/5`, `8/8`, `8/12`, `8/20`, `15/1`, `15/2`, `15/4`, `15/6` to `15/9`, `15/13`, `15/14`, `lib/apue_proc_threads.cpp` | `ProcessPrograms` |
| ROT13 converters, `writen` | `14/7`, `14/8`, `lib/apue_file.cpp` | `Rot13Seq` and `Rot13Uring`, both shown to implement `Rot13File`; `Rot13Both` runs one after the other |
| programs that copy | `4/11`, `5/1`, `5/2`, `14/1`, `14/10` | `CopyPrograms` |
| tree walks | `4/7`, `4/12` | `TreeWalk` |
| reference-counted hash table | `11/6` | `FooTable` |
| reader-writer lock | `11/9` | `RwQueue` |
| message queue with a condition variable | `11/10` | `MessageQueue` |
| barrier sort | `11/11` | `MultithreadSort` |
| signals taken in a thread | `12/6` | `QuitFlag` |
| smaller thread programs, `makethread` | `11/2`, `11/4`, `11/5`, `11/8`, `12/1` to `12/3`, `12/7` | `MutexPrograms` |
| descriptor passing | `lib/apue_unix_socket.cpp`, `17/3`, `17/4`, `17/5` | `UnixSocket`, `FdDaemon`, `FdFork`, the last two shown to implement `RemoteOpen` |
| message queue relay over io_uring | `17/1`, `17/2` | `MqueueRelay` |
| daemons | `lib/apue_daemon.cpp`, `13/1` to `13/4` | `Daemon` |
| remote uptime | `lib/apue_network.cpp`, `16/5` to `16/8` | `UptimeTcp`, `UptimeUdp` |

`MCFiles` puts the converters, the copies and the walks into one run,
`MCSignalPrograms` the signal programs and the timers, `ThreadPrograms` the five
modules of threads, `SocketPrograms` those of chapter 17, and `Uptime` the two
of chapter 16. Everything else is a demonstration of a few system calls; see the
last section.

## How the models correspond to the code

*Granularity.* An action is what one thread or process does between two points
at which another one, the kernel or a signal can interfere: a system call, an
acquisition of a mutex, an access to shared data. `SignalSync` has one step for
each system call because a signal may arrive between any two. Where a critical
section is one access and an unlock, both are one step. A process that `err_sys`
or `err_quit` ends takes the exit as part of the call that failed.

*The kernel* is modelled from how the programs use it, and those definitions are
marked external in `PROJECT.json`: signal masks, pending bits and dispositions;
record locks with the deadlock test of `F_SETLKW`; descriptors taken lowest
first; streams that end when no process holds the other side; io_uring requests
that complete in any order; condition variables that wake for no reason.

*Data* is abstracted to what the properties tell apart. Files are sequences of
bytes in the converters, because `translate` is modelled as it computes; a
message is its number and its length in `MqueueRelay`; a job is the id of its
worker in `RwQueue`. Output is kept only where a property is about it.

*Families of programs.* A family stands for several programs that are never run
together: a variable that is set in the initial state (`program`, `family`) says
which of them a behaviour runs, and the variables of the others stay as they
are. A property of one program holds of the others because their part of the
state does not move, or says which program it is about. `Rot13Both` is a true
composition: both converters read the same input, the second after the first,
and the outputs are compared.

*Programs as data.* The shorter programs (`SyncPrograms`, `SignalPrograms`,
`ProcessPrograms`, `MutexPrograms`) are written down as the calls they make, in
order, with the jumps of their loops and conditions (`Calls`); one step executes
one call with all its outcomes. What differs between programs is then the
script, which a reader compares with the source line by line, and what a call
does is said once.

*Names* are those of the source; `pc` and the place of a thread name the call it
is about to make. Some definitions stand before the one they resemble and differ
from it in one respect (`enqueue_push_front` and `enqueue_push`): they are the
bugs that the property next to them is known to catch.

Details worth knowing while reading:

- `SignalSync` has any client that keeps to the order of the library: TELL_WAIT,
  then any number of WAITs, then TELL_DONE, with TELL, `fork` and exit whenever
  it is in its own code, before and after included. The history variables `owed`, `tells`, `waits` and `stray` serve
  the properties only.
- `SyncPrograms` has each program as data: the calls its processes make, with
  the loops unrolled. `Step` executes one step of the current call.
- `Rot13Uring` begins with both calls of `io_uring_queue_init` as the code has
  them.
- `Rot13Seq` records in `cut` that the loop of `14/7` took an error for the end
  of the file or for success; what it promises, it promises up to there.
- `Timers` counts in fractions of a second, `PerSecond` of them. `alarm(0)`
  answers in whole seconds, so that each `apue_alarm` while a clock runs moves
  all the timers of the set by a part of a second; `drift` adds these up. `Ties`
  says whether two timers may end together, by what was asked for or by the
  rounding: with it a handler is never called. Without, all are called, off by
  the drift. The clock may strike inside `apue_alarm`, between the block of
  SIGALRM and `alarm(0)`; `struck` records it, because the time since is then not
  accounted for. Between the test of `wait_apue_timers` and its `sigsuspend`
  time passes as well: SIGALRM is blocked there and stays pending.
- `SignalPrograms` has a stack of frames: a handler is a frame on top of what it
  interrupts, with the mask to go back to, and `longjmp` cuts the stack. A
  `setjmp` buffer names a frame, so that a jump into a function that has
  returned is a state.
- `ProcessPrograms` keeps for every process the pipe ends it has open; the end
  of a pipe and SIGPIPE follow from who still holds an end. Forks and execs fail
  and filters are killed, up to `MaxFaults` times; `pipe` itself does not fail,
  the programs would exit at once.
- `CopyPrograms` has a state `undefined` for `4/11`, where a failed `read` is
  stored in an unsigned and the block has SIZE_MAX bytes; nothing is claimed from
  there. A page that the source of `14/10` has lost is a SIGBUS, `killed`.
- `TreeWalk` lets another process move a file or directory at any step, so that
  a path or `..` no longer leads where it did.
- `RwQueue` gives the lock of `find` back before the element is copied, as the
  code does: `k` is then the place a reference into the deque points at. An
  `erase` moves the elements on either side of the gap, so the reference may by
  then mean another job, or none (`dangling`).
- `UnixSocket` has a path as the sequence of what is between its blanks. A request
  is the command, the path and the mode with blanks between them, and the server
  reads a word and a number (`path_str`): a path with a blank gets the file of
  its first word when a number follows, and an error otherwise. A request
  arrives in one read; the header and the body of an answer, which `recv_fd`
  reads with `recvmsg` and `readn`, were sent by one `sendmsg` and are one message.
- `FdDaemon` has `OpenMax` descriptors. The kernel gives out the lowest that is
  free. Accepts complete with an error, and the wait for a completion fails, up to
  `MaxFailures` times; the second ends the server.
- `FdFork` has a socket pair for every line and records which processes hold which
  end. When the request of a line fails (`17/3:40`) its end stays open in the
  parent and its server waits; `unsent` has these lines, and the servers of later
  lines inherit their ends.
- `Daemon` has an instance per started program; the process changes with each
  `fork`, so `LOCKFILE` holds an instance and a generation. The limit on
  descriptors is a number: under RLIM_INFINITY `daemonize` closes 1024 and leaves
  the others, which is not modelled, and the descriptor of `syslog` is not
  counted.
- `MultithreadSort` has the empty vector and the shapes with an empty slice, too. `11/11` never leaves
  its barrier with one, because a worker with an empty slice is not created and
  is still counted: the property says that it returns exactly for the others.
  `main` has 8000000 elements and 8 threads.
- In `MutexPrograms` the child process of `12/7` is one more thread, with copies
  of the mutexes.

## The runs

Each run is a `.cfg` file; `PROJECT.json` says which module and which
properties. All of them finish within three minutes. Where a module
has several invariants about one thing, the run checks their conjunction, type
invariant included, under one name (`TableSound`, `UringSafe`, `SetIsSchedule`,
`SingleDaemon`); a family has one name for what its programs have in common
(`NothingLost`, `AnswersRight`, `QueuesKeepAll`, `ThreadsKeepRules`,
`EveryProgramEnds`, `FilesEnd`, `WaitsEnd`).

| run | what it shows | bounds, and why they are enough |
|---|---|---|
| `signal_sync` | no wakeup lost or made up, no TELL kills, TELL_DONE undoes TELL_WAIT, for any client that keeps to the order of the library | two processes, two TELLs to each: a pending bit and `sigflag` can both be set with another TELL to come; proved without bounds |
| `sync_programs` | `10/24`, `15/12`, `8/7`, `14/6`, `14/11` run to `exit(0)`; the counter of `10/24` alternates, the output of `8/7` is not mixed, the lock cycle of `14/4` is reached and broken, left-over TELLs do not kill in `14/11` | loops of two rounds instead of 10, 500 and 3, three characters: a round leaves the signal state as it found it |
| `signal_programs` | `longjmp` goes to live frames only; main runs under its own mask; SIGTSTP is caught again after each stop and no input is lost across one; no wait is missed but where `10/3` and `10/4` have their gap before `pause`. `10/23`: every handler called, at its time but for the rounding of `alarm`, and the wait ends | three signals sent besides the alarm: a handler, one that interrupts it and one that stays pending; two chunks of input; three timers of up to three seconds, set in the first five thirds of a second: `alarm(0)` rounds up and down (the schedule proved without bounds) |
| `process_programs` | what goes through the pipes arrives once, in order and whole; every wait gets the child it is meant for; every process ends and is reaped, except that a line with a leading NUL leaves `15/9` waiting | three lines, pipes of two: a pipe is empty, full and in between; two faults, so that one may hit the handling of the other |
| `files` | `14/8`: no byte lost, counter right, output decodes; both converters implement `Rot13File` (`14/7` up to an unnoticed error) and make the same file. Copies hold what they should, walks count each file once, all of them end | three requests, blocks of 2, files of 0 to 8 bytes: shorter and longer than one round of the ring, last block empty, short and full (proved without bounds); every file of up to two blocks of zeros, newlines and others; every tree of three nodes below the argument, one unreadable directory, one move |
| `foo_table` | counts are references, the table neither leaks nor dangles, mutexes die unlocked, no lock cycle, nothing comes back to life | three threads, two objects in one hash chain, three references: two releases and a find can meet on one object; threads, objects and references are interchangeable (symmetry); proved without bounds |
| `thread_programs` | `11/9`: `find` walks over a deque nobody changes and refers to the right job as it unlocks, which it returns if no job is taken out before it copies it; final size 0. `11/10`: each message once and in order, the join returns. `11/11`: barrier holds, merge in order, result a sorted permutation. `12/6`: only a SIGQUIT that was taken ends the program, and it does. The smaller ones: a mutex is unlocked by its owner, locked again only if recursive, cleanup handlers and `pthread_once` run as they should, each process of `12/7` has its mutexes back. No wakeup lost, all end | the four workers and five messages of the programs (`11/9`, `11/10` and `12/6` proved without bounds, but for their end); every vector over three values for six shapes, up to three workers, unequal and empty slices and the empty vector |
| `socket_programs` | no descriptor leaked or closed for another, listener armed, the file of the path's first word or none, every client and every line answered, the daemon ends in two cases only; of a line of `17/3` nothing is left but, if its request failed, its end and its server; each message printed once, in order, cut only at the maximum size, none stuck | two clients, either of which may be killed, one failing accept or wait: descriptor numbers are reused; paths of up to two words, of which one names a file, one is a number and one is empty: blanks before, behind and between; two lines, so that a server can inherit the end of a line that failed, with servers that may be killed at any point; three descriptors, more than the clients need; two queues of one message, two messages each of every kind of length, one failing read (all but the end proved without bounds) |
| `daemon` | one daemon, LOCKFILE names it, it is detached, SIGHUP is obeyed, and kills in one place only | an instance of each kind started at once, two SIGHUPs, kills at any time (the safety proved without bounds) |
| `uptime` | TCP: every client sees the end of its stream after a whole answer or none, no connection leaks. UDP: answers go to the right client, no request is handled twice or vanishes unaccounted, no client waits forever | three clients, so that a child can inherit a connection that is not its own; one failing fork, exec or wait, one lost datagram (the safety proved without bounds) |
| `timers_ties` (violation) | two timers that end together: the second is never called | three timers of up to four seconds, set on whole seconds |
| `pipe_sync` (violation) | TELL_CHILD_PIPE exits after a write that succeeded | two rounds |

Deadlock is checked where the programs never stop or have an action for having
stopped; the other configurations say `CHECK_DEADLOCK FALSE` because processes
exit, or because a client has nothing more to do once a bound is reached.

### What disagrees with the source's own words

Two runs expect a violation; `PROJECT.json` quotes the line of each.

- `10/23`: two timers that end together leave `alarm(0)`, and the second is
  never called.
- `lib/apue_ipc_pipe.cpp`: `!writen(...) != 1` is the wrong way round.

Other places where the program does less than it says are delimited by a
property that holds, or are noted with the hazards of `PROJECT.json`:

- `14/7` over `writen` ("Writes exactly nbytes"): a partial write is success
  (`SeqImplementsRot13` holds up to there).
- `17/3`: a request that fails leaves a descriptor and a process behind
  (`NothingLost` says what, and that nothing else is).
- `lib/apue_unix_socket.cpp`: a path with a blank in it is read up to the blank
  (`ImplementsOpen` says which file comes back).
- `11/9`: `find` copies its element after it has unlocked (`FindAnswers` says when
  that is the job it found).
- `17/5`: the case "Client disconnected" does not include a client that left
  before the answer: `sendmsg` raises SIGPIPE (`DiesOnlyAnswering`).
- `13/3`: SIGHUP has its default action between two lines of `main`
  (`HupKillsOnlyBeforeMask`).
- `10/3`, `10/4`: a signal that comes before `pause` sleeps wakes nothing up
  (`WaitsEnd` says that nothing else makes them hang).
- `4/12`: given a relative path it looks for it inside itself, and a directory
  moved while the walk is in it leads `chdir("..")` elsewhere (`WalkCounts`).
- `15/9`: a line that begins with a NUL is never written to the filter, and both
  processes wait (`ProcessesEnd`).
- `11/11`: a shape with an empty slice never leaves the barrier
  (`EveryProgramEnds`).
- `11/6`: the two threads of `main` use the same id, and the second `rele` may
  meet a count of 0 and throw; `FooTable` has clients that release what they
  hold.
- `10/23`: each `apue_alarm` moves the timers that run by a part of a second
  (`SetIsSchedule` bounds it), and an alarm that strikes inside `apue_alarm` puts
  them off their schedule (`SetIsSchedule` holds until one does).
- `4/11`: `r < 0` cannot hold for an unsigned `r`.

## Fairness

Processes and threads that can take a step take it (weak fairness of each), and
the kernel delivers what can be delivered and completes what it accepted. That
is what the scheduler gives every runnable process. Strong fairness appears
where a thread competes for a mutex with one that may take it again and again
because of spurious wakeups (`MessageQueue`, `QuitFlag`): a mutex that is free
infinitely often is obtained. No fairness is given to what nobody owes:
signals sent by the outside, kills, errors, losses, spurious wakeups, new
messages. `UptimeUdp` has the clock as an action of the client: the timeout
comes. `Timers` needs time to pass, and the programs of `SignalPrograms` that
their alarm strikes and their child exits; nobody has to type, to send a signal
or to continue a stopped process. Whoever reads the pipe of `14/1` goes on
reading or closes it. Where threads only have to end and none can be overtaken
for ever (`MultithreadSort`, `MutexPrograms`), fairness of some thread is enough.

## The proofs

TLAPS checks every leaf; nothing is assumed but the named assumptions on
constants. `DaemonRelayProofs` and `UptimeTimersProofs` each have the proofs
about two modules that do not depend on one another.

`SyncProgramsProofs` proves the four properties of `signal_sync` for any set of
processes (`SignalAssumption`: the first process is one of them, the bound on
signals is a number). The invariant to prove is not inductive: that nobody
sleeps through a TELL depends on what the mask and the handlers are, which the
property does not mention. `IInv` adds, for each process,

- `Blocked`: between TELL_WAIT and TELL_DONE both signals are blocked and
  caught, and only a process inside WAIT sleeps;
- `Visible`: `sigflag` is what WAIT has just read, and a TELL that is not yet
  answered is a pending bit or a set flag that WAIT will still read;
- `Harmless`: where the default action may be back, a signal that is pending
  and not blocked was sent outside the protocol;
- `Saved`: how much of the mask and the handlers has been saved or restored;
- `Paid`: waits returned, flag and pending bits together do not exceed TELLs.

There is a lemma for each action, split by conjunct and by whether a process is
the one that moves. `PendingBits` has the facts about the number of
pending signals.

It then shows that programs of this kind, whatever calls they make, implement
`SignalSync` (`ProgramsAssumption`: calls name existing processes), so that the
theorems about the library hold in each of them. The invariant it needs is that
the program that runs is one of `Programs`.

`Rot13Proofs` proves, for every input, block size and queue depth, that
the types, the counter of pending operations and the bytes handed out are right
(`UringInvariance`), that a run that ended normally left a file that decodes to
the input (`OutputDecodes`), both together as the run checks them
(`UringSafety`), and that the ring implements `Rot13File`
(`UringImplementsRot13`). The inductive invariant adds `Phase`, which requests
are busy in each phase of `main` and that the end of file, once seen, lies
before the next offset to be read; and `Carries`, what the buffer of a request
holds at each stage. `TranslateInverts` says that `translate` is its own
inverse.

It proves the same refinement of the sequential converter, for every input that
is a sequence of bytes and every block size above 0 (`SeqConverterRefines`), in
the program that runs one converter after the other. `SInv` relates the two
offsets, the block and what `writen` has left of it, as long as no error was
overlooked; the lemma `WriteRight` says that what `write` takes stands at its
place. That both files are then the same (`ConvertersAgree`) needs one more fact,
`Covers`: a copy that is done has the right byte at every place.

`UptimeTimersProofs` proves `SetIsSchedule` for any handlers, seconds, fractions of
a second, number of timers and length of the run, when no two timers end
together (`ScheduleKept`, from `TimersAssumption` and `~Ties`): the timers keep
their distance, and the drift grows by less than a second with each call. The property is not
inductive: that the handler leaves no timer with 0 seconds needs that the times
asked for are all different, and that the timer `apue_alarm` is about to put in
ends alone; that the alarm is at most the seconds of the first timer keeps the
rebased seconds from becoming negative. `BeginIsFirst` shows that `begin`
chooses the least element, which exists in every set of natural numbers that is
not empty (`LeastNat`, from the well-foundedness of `<`).

`DaemonRelayProofs` proves of the relay of `17/1` alone, for any queues and sizes
that are numbers (`RelayBounds`), that what it prints is what was sent, once and
in order (`RelayRight`). The property is not inductive, because a message is in
five places one after the other: the queue, the thread, the socket, the buffer
and the output. `RelayQueue` says of all five that their numbers ascend, that
each place is ahead of the next, and that a message is still as it was sent;
`RelayRing` that a socket has never both a read and a completion in the ring,
that its buffer is filled only while the completion waits for `main`, and that
the result is the length of what is in it. The order is stated with sets of
numbers and not with the concatenation of the five sequences, which the provers
cannot take apart.

`SocketProofs` proves `NothingLost` (`SocketsLoseNothing`), `DiesOnlyAnswering`
(`ServerDiesOnlyAnswering`) and the refinement of `RemoteOpen`
(`SocketsOpenRight`) for any clients, paths, files, lines, queues, failures and
number of descriptors (`SocketAssumption`: the marks for a free descriptor and
for a request without a file are neither clients nor files, the bounds are
numbers). None of them is inductive. That no descriptor of `17/5` is leaked needs

- `DaemonConnections`: a connection is in the backlog or has one descriptor, and
  its client was not answered;
- `DaemonRing`: a descriptor in use has one read in the ring or one completion,
  and a completion that says there is a request finds it in the socket;
- `DaemonClients`: a socket has nothing in it, or the one request, or its answer.

For `17/3` the invariant is about each line: `ForkPlace` says where its server
can be while the parent is where it is, `ForkHeld` which processes hold the two
ends of its socket pair, inherited ones included, and `ForkStreams` what is in
it. An answer is right because a request in a socket is that of the path that
was asked for (`Requests`), and the server takes from it the first word of that
path or nothing (`PathRead`, `ReplyRight`). A step of the composition is a step
of the program that runs, and each lemma about a step says at once that the
invariant is kept, how the server may end, and which step of `RemoteOpen` it is:
`Ask`, `Answer` or none. The relay's part is that of `DaemonRelayProofs`,
instantiated with no daemons (`RelayAlone`).

`FooTableSteps` and `FooTableProofs` prove the three properties of `foo_table`
for any threads, objects, ids and number of hash buckets and any finite set of
references (`TableAssumption`; the names of states of a mutex are not threads):
`TableIsSound`, `NoDeadlyEmbrace`, `NeverResurrected`. That the count of an
object is the number of references to it is not inductive: a step of `rele`
relies on what its thread saw before it let go of `lock`. `IInv` adds

- `Owners`: each mutex is held by the thread that stands between its lock and
  its unlock, and by no other;
- `Calls`: what each thread knows where it stands, for instance that the object
  it is about to destroy has no reference left and is out of the table; that no
  two calls use the same reference or destroy the same object;
- `Chains`: a chain has an object once, and under its own hash;
- `Object`: for each object the count, its mutex and its place in the table
  agree, but for one that `create` has not yet put in.

`FooTableSteps` has what each phase of a call knows and the steps that leave the
set of references alone; `FooTableProofs` has those that change it. What these
need to know of cardinality, and of the least element of a set of numbers, is
one formula, `Counting`, which follows from the finiteness of the references
(`CountingHolds`). `FirstListed` says that `find` stops at the
first object with its id. A cycle of waiting threads is excluded because whoever
has the `lock` of an object waits for nothing: `rele` lets go of it before it
takes `hashlock`.

`DaemonRelayProofs` also proves `SingleDaemon` (`OneDaemon`) and
`HupKillsOnlyBeforeMask` (`HupDeadlyAtOnePlace`) for any number of instances of each kind, any
descriptors inherited and any number of SIGHUPs (`DaemonAssumption`: the kinds
are the three programs, and there is room for one more descriptor than was
inherited). The inductive invariant adds that who is past `lockfile` has the
lock, and that LOCKFILE names who has written to it (`Owner`); how many forks a
process has behind it (`Generation`); and what `daemonize` and `main` have done
at each place: session, terminal, descriptors, and what SIGHUP would do
(`Daemonized`). That `open` returns descriptor 3 needs the least element of a set
of numbers (`LowestIsFree`).

`UptimeTimersProofs` also proves `AnswersRight` of the services of chapter 16
(`UptimeAnswersRight`), for any clients, any output and any number of lost
datagrams and failed waits (`UptimeAssumption`: the server is not a client, the
output is a sequence, the bound on failed waits a number). Over TCP, `TcpStream` says that what a client has, what
is under way and what `uptime` has yet to write make up the output, if it was
started; `TcpPlaces` that a connection waits in the backlog, or among the
completions, or has had its child. Over UDP, `UdpPlaces` says that a request is
in one place only (under way, received, with a child, or in a socket that nobody
reads) and that an answer goes to who asked. `TcpTypes` and `UdpTypes` bound
the requests in the ring by the waits that failed.

`ThreadProgramsProofs` proves, for any number of workers and messages
(`ThreadsAssumption`), `QueuesKeepAll`, `NoLostWakeup` and `FindAnswers` of
`thread_programs`, and of `ThreadsKeepRules` the part about `12/6`
(`QuitEndsOnly`). A step of the composition is a step of each program or leaves
it alone (`StepOfEach`), so that each has its own invariant. `RwInv`: the lock
names exactly those who are inside, one worker or `main`; the deque has the job
of each worker that sleeps, once; `find` has not passed the job it looks for; nothing holds of what it refers to
once it has unlocked, so that `FindAnswers` is about single steps from there.
`CondInv`: the two threads are never both inside, which the type invariant alone
does not say, and the consumer holds a message only between taking and printing
it. `SigInv`: the signals are blocked as long as nobody has seen `quitflag`, and
`quitflag` is set only after a SIGQUIT.

Only model-checked:

- everything about liveness, which needs fairness;
- `SortCorrect`: what `std::sort` makes of a slice is an induction over data;
- the programs written as scripts (`SignalPrograms`, `ProcessPrograms`,
  `MutexPrograms`, and what `SyncPrograms` says of single programs), whose
  properties are about these scripts and not about others, and whose bounds are
  those of the programs (`OutputNotInterleaved`, `JumpTargetLive`, `MainMask`,
  `HandlersKeepState`, `PipesKeepData`, `ChildrenReaped`, and the rest of
  `ThreadsKeepRules`);
- `CopyPrograms` and `TreeWalk`, whose results are recursive functions of the
  input (`WalkCounts`, and `CopiesRight` but for the converters).

## Not modelled

`PROJECT.json` lists each part with its reason. In short:

- demonstrations that print what a system call or a library returns: chapters 2,
  6, 7 and 9, `1/7`, most of chapter 4, `5/3` to `5/7`, `8/1`, `8/2`, `8/9`, `8/10`, `8/13` to
  `8/19`, `10/10`, `11/1`, `15/11`, `16/1`;
- programs that are undefined from their first interesting step: `10/2` calls
  `getpwnam` in a handler that interrupts it, `11/3` uses a structure on the
  stack of a thread that has ended;
- `8/6`, which mixes its output on purpose, and whose repaired form is `8/7`;
- functions that nobody calls (`lock_test`, `push_front` of `11/9`) and wrappers
  of one call (`set_cloexec`, `open_max`, `path_alloc`, conversions of time);
- failures of `open`, `mmap` or `pipe` at the start of a program, after which it exits;
- a `write` that returns 0 for a count above 0, which the files, pipes and sockets
  of these programs do not do;
- text, formatting and timing of output; sleeps, which order nothing;
- the buffer of `16/7` after its timeout, into which a late answer may be
  written: the frame is gone and what happens is undefined.
