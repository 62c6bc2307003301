# A verification project for CSCE313Examples

The repository is a collection of small systems programs and of the library they
share: threads and semaphores, System V IPC, processes and signals, pipes, sockets.
This directory holds TLA+ models of the parts that carry logic of their own, TLC
configurations that check them on small instances, and theorems about them that the
TLAPS proof system checks for every value of the constants.

## 1. Inventory

| Part (source) | State | Operations | What is hard | What makes it correct |
|---|---|---|---|---|
| Semaphore class (`boundedBuffer/semaphore.cpp`, same file in `semaphore/`) | `value`, mutex `m`, condition variable `cv` | `wait`, `post` | `notify_one`, spurious wakeups, a newcomer that takes the unit of a woken thread | a unit is taken once and only when there is one; no wakeup is lost |
| Primes class (`boundedBuffer/primes.cpp`, three identical copies) | none | `getNextPrime`, `isPrime` | the square root as the last divisor | finds the next prime |
| Bounded buffer (`boundedBuffer/boundedBuffer.cpp`) | `list`, `nextPrime`, four semaphores | `PrimeProducer`, `PrimeConsumer`, `main` | overlapping critical sections, a wait for a slot inside a critical section | globals protected, primes consecutive, each taken once, no stall |
| System V semaphores (`lib/semaph.c`) | a kernel set of three members, the undo adjustments | `sem_create`, `sem_open`, `sem_close`, `sem_rm`, `sem_wait`, `sem_signal`, `sem_op` | processes killed between two system calls, removal that races creation | the lock is a lock, the counter counts users, units are conserved |
| Dining philosophers (`diningPhilosopher/dine.cpp`, `dineWin.cpp`) | `state`, `mutex`, `S` | `philosopher`, `take_fork`, `put_fork`, `test` | a grant before the wait, states that start as EATING | neighbours never eat together, one wakeup for each grant, the table goes on |
| Counter demonstrations (`mutex/`, `semaphore/`, `producerConsumer/`, `threadStart/`) | a shared variable or queue | thread functions | lost updates | with the lock no update is lost |
| Counted objects (`threads/mutex2.c`, `mutex3.c`; `mutex1.c` without the table) | hash table, counts, locks | `foo_alloc`, `foo_hold`, `foo_find`, `foo_rele` | lock order, unlock and look again | an object is freed once, by the last release, and never found after |
| Message queue (`threads/condvar.c`) | `workq`, `qlock`, `qready` | `process_msg`, `enqueue_msg` | signal after unlock, spurious wakeups | a message in the queue gets a consumer going |
| Job queue (`threads/rwlock.c`) | doubly linked list, reader-writer lock | `job_insert`, `job_append`, `job_remove`, `job_find` | the list's boundary cases, a pointer used after the unlock | the list is a sequence, a job found is still there |
| Parallel sort (`threads/barrier.c`) | the array, the barrier | `thr_fn`, `merge` | the sentinel of the merge, leaving the barrier early | the result is the sorted array |
| Parent and child synchronisation (`lib/tellwait.c`) | `sigflag`, masks, pending signals | `TELL_WAIT`, `TELL_*`, `WAIT_*` | one flag for two signals, the mask restored after the first wait | a wait ends only after its tell, the first one always does |
| `lib/sleep.c`, `sleepus.c` | alarm, action, mask | `sleep` | an earlier alarm, another signal, an alarm before `sigsuspend` | returns, and keeps its SIGALRM to itself |
| Terminal modes (`lib/ttymodes.c`) | `save_termios`, `ttysavefd`, `ttystate`, the terminals | `tty_cbreak`, `tty_raw`, `tty_reset`, `tty_atexit` | `tcsetattr` that does half of it | the terminal gets its modes back |
| SIGCHLD (`fork/`) and SIGIO (`stdin-signals/`) | children, pending signals, unread characters | handlers and loops | signals that merge | the handler does not block; characters are left only by merging |
| `lib/popen.c` | `childpid`, descriptors of the process and its commands | `popen`, `pclose` | descriptors inherited by later commands, standard input closed, failures half way | commands are attached to their pipe, `pclose` returns |
| Descriptor passing (`lib/sendfd.c`, `senderr.c`, `recvfd.c`, `Orecvfd.c`, `writen.c`) | a stream | `send_fd`, `send_err`, `recv_fd`, `writen` | messages split by the stream and by the buffer | the receiver gets the descriptor or the error that was sent |
| Connections (`lib/cliconn.c`, `servlisten.c`, `servaccept.c`) | socket files, queue of connections | `cli_conn`, `serv_listen`, `serv_accept` | the name looked up after it may have changed, a server that crashes | a client is refused only for a cause |
| Standard descriptors (`lib/ptyfork.c`, `ptyopen.c`, `daemonize.c`) | the descriptor table | `pty_fork`, `ptym_open`, `ptys_open`, `daemonize` | descriptors 0 to 2 closed before | 0 to 2 are what they should be, nothing else is left |
| Pipes (`pipes-unnamed/`, `pipes-named/`) | open ends, the message | two programs | opening, waiting and reading in the wrong order | the message arrives |
| TCP chat (`client-server/`) | two streams | send, receive | lines in pieces, empty lines, end of file | the two sides do not wait for each other |
| `readn`, `bufargs`, thread life cycle | none | one function each | | not modelled, see section 7 |
| Packet capture and construction (`packetSniffing/`, `packetSpoofing/`), encryption, files, wrappers of one system call, error reporting | none of their own | | | not modelled, see section 7 |

`PROJECT.json` lists every part with its status, and under `hazards` what in the code is
hard to test, at its line.

How the parts meet: the bounded buffer's threads share `list` and `nextPrime` and talk
through four `Semaphore` objects; the philosophers share `state` under `mutex` and wake
each other through `S`; the processes that use `lib/semaph.c` share nothing but the kernel
set, and the kernel undoes what a dead process did. A client and a server of `lib/` meet in
`cli_conn` and `serv_accept` and then exchange `send_fd`, `send_err` and `recv_fd` over the
connection. The remaining parts are independent programs.

## 2. Modules

| Module | Models | State | Actions |
|---|---|---|---|
| `CountingSemaphore` | what a semaphore promises (abstract) | `value`, the call each thread is in | a call, and the one step in which it takes effect |
| `MonitorSemaphore` | class `Semaphore` | `value`, owner of `m`, each thread's place in `wait()` or `post()` | one per mutex, condition variable or counter operation |
| `Primes` | class `Primes` | none | operators `isPrime`, `getNextPrime`, and the definition `Prime` they are held against |
| `BoundedBuffer` | `boundedBuffer.cpp` | its globals, the four semaphores as counters, each thread's next statement and local `data` | one per semaphore call and per access to a global, `main`'s loops included |
| `SysVSemaphore` | `lib/semaph.c` | the kernel's set and adjustments, each process's next system call | one per system call; death and restart of a process |
| `DiningPhilosophers` | `dine.cpp` | its globals, each thread's place | one per semaphore call and per access to `state` |
| `CountedObjects` | what a table of counted objects promises (abstract) | who has which reference, which object is in the table | one step per call |
| `FooTable` | what `mutex2.c` and `mutex3.c` share: the table, the locks, `foo_alloc` | `fh`, `hashlock`, the fields of each object, each thread's place and locals, the references | one per lock operation and per access to a list or a count |
| `FooObjectLock`, `FooHashLock` | `foo_hold`, `foo_find`, `foo_rele` of `mutex2.c` and of `mutex3.c` | the same | the same |
| `MessageQueue` | `condvar.c` | the list, owner of `qlock`, who waits for `qready`, each thread's place | one per operation on the mutex, the condition variable and the list |
| `JobSequence` | what the job queue promises (abstract) | a sequence of jobs | insert, append, remove |
| `JobQueue` | `rwlock.c` | the links, `q_lock`, each thread's place | one per lock operation, one for the statements between a writer's lock and unlock, one per step of a search |
| `BarrierSort` | `barrier.c` | `nums`, `snums`, the locals of `merge()`, who is at the barrier | creation, sorting of a part, barrier, one per round of the merge, exit |
| `SharedCounter` | `noMutex.cpp`, `withMutex.cpp` | `data`, the mutex, each thread's register | one per read and write of `*p` |
| `TellWait` | `tellwait.c` | `sigflag`, mask and pending signal of both processes | one per system call and access to `sigflag`, delivery of a signal |
| `AlarmSleep` | `sleep.c` | the action, the mask, the alarm, whose SIGALRM is pending | one per system call; time, delivery, another signal |
| `ChildReaper` | `sig2.cpp`, `sig.cpp`, `noSig.cpp` | the children, the pending SIGCHLD, its action | fork, end of a child, delivery, `wait` |
| `TerminalInput` | `capture.cpp`, `capture2.cpp` | unread characters, the pending SIGIO, `flag_quit` | the calls of `main`, a character, delivery, `sig_io` |
| `TerminalModes` | `ttymodes.c` | the modes of the terminals, its static variables | one per `tcsetattr`, test and assignment to `ttystate` and `ttysavefd`, `exit()` between any two |
| `PipeStreams` | `popen.c` | descriptors of the process and of its commands, `childpid` | `popen` with each failure, the child before `exec`, end of a command, `pclose` and its wait |
| `Connections` | `cliconn.c`, `servlisten.c`, `servaccept.c` | the clients' names, the server's name and queue | one per system call that others see; ageing, crash |
| `StandardFiles` | `ptyfork.c`, `ptyopen.c`, `daemonize.c` | one descriptor table | one per group of calls between failures |
| `ParentChildPipe` | both `forkExecPipe.cpp` | who has which end open, the message | one per statement on the pipe |
| `DescriptorPassing` | `sendfd.c`, `senderr.c`, `writen.c`, `recvfd.c`, `Orecvfd.c` | the bytes on their way, the receiver's buffer | each write, `sendmsg`, `recvmsg`, the scan of a buffer |
| `TcpChat` | `tcp-Client.cpp`, `tcp-Server.cpp` | the letters on their way, each side's turn | connect, send, receive, end of stream |
| `Counting` | how many members of a function's domain map into a set | | |
| `CountingProofs`, `MonitorSemaphoreProofs`, `BoundedBufferProofs`, `DiningPhilosophersProofs`, `SysVSemaphoreProofs`, `FooTableProofs`, `SmallProgramsProofs` (the parts of `MCSignals` and of `MCThreads`, the message queue excepted), `DescriptorsProofs` (the parts of `MCDescriptors`) | the theorems | | |
| `MC...` | the instances TLC checks | | |

`MonitorSemaphore` instantiates `CountingSemaphore` with a refinement mapping and implements
it; `FooTable` does the same with `CountedObjects`, and `JobQueue` with `JobSequence`, whose
sequence is what is met along `j_next` from `q_head`. `MCThreads`, `MCSignals` and
`MCDescriptors` instantiate several independent parts side by side; their variable `which`
(`example` in `MCThreads`) says which of them runs, the others keep their initial state, and so
the state spaces add up and do not multiply. `BoundedBuffer` relies on `CountingSemaphore`: its `wait()` is one step that is enabled while the value
is positive, its `post()` one step that always is.

Points where the model interprets the code:

- *Monitor.* `cv.wait(l, pred)` is its standard meaning: test with `m` held; if false,
  release and sleep in one step; after any wakeup take `m` again and test again. A sleeping
  thread may wake at any time without being notified. `MaxValue` is the bound on the counter
  (an `int` in the code).
- *Bounded buffer.* `nextNum` is whatever `atoi` returned or, for the option string that is
  not `-n`, what the uninitialised variable held; the instance has a negative, a small, a
  prime and a larger number. The path with the wrong argument count starts no thread.
  `MaxPrime` stands for the largest `int`; like INT_MAX it is a prime, so a search that starts
  below it ends. The 10 of `main`'s loop and `buf_size` are `NumPairs` and `buf_size`, and
  the assumption `NumPairs <= buf_size` is the 10 <= 20 that the program relies on.
  `front()` and `pop()` on an empty queue are undefined in C++; `NeverEmpty` shows that
  the case does not arise, so what the model does there is immaterial.
- *System V semaphores.* The kernel (`semget`, `semop`, `semctl`, the processing of
  SEM_UNDO) is not in the repository and is modelled from its documented behaviour as the
  library uses it: `semop` is all or nothing, SETVAL clears every process's adjustment of
  the member, removal wakes sleepers with EIDRM and a later call gets EINVAL, an exiting
  process's adjustments are applied without going below zero. Clients hold at most one
  handle and one unit and give the unit back before they close. A key that is invalid is
  refused before anything happens and is left out.
- *Counted objects.* Clients are well behaved: a thread calls `foo_hold` and `foo_rele` for an
  object it has a reference to, and may pass a reference on to another thread. `Refs` bounds the
  references that exist at a time. Freed memory may be allocated again. A failing `malloc`
  or `pthread_mutex_init` changes nothing and is left out. The search of a bucket and the removal
  from it are one step each: the code makes both with `hashlock` held, under which every other
  access to a list is made too.
- *Philosophers.* `sleep` and `printf` are left out. `LEFT` is `(phnum + 4) % N` in the code,
  the same as `(phnum + N - 1) % N` for its N of 5. `dineWin.cpp` differs in its semaphores
  having a maximum of 1: `GrantOnce` shows that a release above the maximum is never asked for.

- *Threads.* A reader-writer lock admits one writer or any number of readers; between a writer's
  lock and unlock nobody else looks at the list, so its statements are one step. The callers of
  the job queue, which are not in the repository, look for jobs with their own thread's `j_id` (what
  the field's comment says it is for) and remove only what they found: `FoundStillQueued` is
  about callers like that. `heapsort` is not in the repository: it leaves
  some permutation of its part that is in order. `random()` returns less than `LONG_MAX`, and the
  uninitialised `minidx` of `merge()` may hold any index. An unprotected `*p = *p+1` is a read and a write; that
  an optimising compiler makes one addition of the loop is covered by `step`.
- *Signals.* A signal that is pending absorbs others of its kind, a blocked one stays pending, and
  `sigsuspend` opens the mask and waits in one step. In `tellwait.c` each process gets one of the
  two signals. In `sleep.c` the caller may have an alarm running and SIGALRM blocked.
  `sleep(0)` sets no alarm and waits for some other signal; `SleepReturns` leaves it out.
- *Terminals.* The modes are the set of features that are on; `tcsetattr` may fail, or return 0
  having made at least one of the changes, as its manual says and `ttymodes.c` comments.
  `tty_reset` is called for the terminal that was changed. `exit()` may be called between any two
  statements, by the handler of a signal; the statements are taken in the order they are written.
- *Descriptors.* `open`, `pipe` and `dup` take the lowest free descriptors. A command of `popen`
  reads to the end of its input or writes until nobody reads. Limits (`maxfd`, `rlim_max`) are
  small constants. In `StandardFiles` the parent of a fork that exits is left out.
- *Streams.* A stream keeps bytes in order and no boundaries. A descriptor travels with the
  null byte of `send_fd`. A server answers the next request after the client has the last answer.
  The chat's line is a short sequence of letters, `exit` the pair `e`, `x`; a send to a peer that
  has closed succeeds once.

## 3. Runs

| Run | Instance | Distinct states | Result |
|---|---|---|---|
| `monitor_semaphore` | 4 threads, initial value 0, value up to 2 | 4 968 | passes |
| `bounded_buffer` | 3 pairs, 3 slots, primes to 37, start -3, 1, 7, 23 | 97 036 | passes |
| `sysv_semaphore` | 3 processes, 1 unit, two lives of the set | 218 470 | passes |
| `sysv_create_retries` | same | | violates `CreateRetries` |
| `sysv_open_alive` | same | | violates `OpenedHandleAlive` |
| `foo_table` | 2 threads, 2 objects and 2 identifiers in one bucket, 3 references, either file | 201 354 | passes |
| `dining` | 5 philosophers, as in the code | 3 766 | passes |
| `dining_start` | same | | violates `WaitsForEater` |
| `threads` | 2 producers, 2 consumers, 2 messages; 2 threads, 3 jobs; 2 parts of 2 numbers; 3 increments for each of 2 threads | 108 837 | passes |
| `signals` | 3 tells for each process; alarms up to 3 seconds; 5 children; 5 characters; 2 terminals, 3 mode changes | 174 474 | passes |
| `descriptors` | 3 commands, 9 descriptors; 2 clients with 3 calls each, a queue of 2; every table of 6 descriptors; a buffer of 4 bytes, 2 answers; 4 lines on each side | 116 747 | passes |
| `fd_format` | a buffer of 4 bytes, texts of 0 to 5 | | violates `NoFormatError` |

What they show:

- `monitor_semaphore`. `NoLostWakeup`: while a thread
  sleeps, at least as many threads are on their way to look at the value as it has units.
  `UnitGetsTaken` is the live side of the same. `IsCountingSemaphore` is the refinement.
- `bounded_buffer`. `SlotAccounting`: queue and semaphores agree at every moment. `NeverEmpty`,
  `NeverStalls`, `ConsecutivePrimes` (against the definition of a prime, so `isPrime` and
  `getNextPrime` are checked with it), `ExactlyOnce` and `Terminates` (`main` returns with
  everything as it was).
- `sysv_semaphore`. `LockExclusive`, `CounterExact`, `UnitsConserved` hold whatever process
  is killed wherever, a creator in the middle of the initialisation included.
  `CreatedHandleAlive`: closing never removes the set under a process that came through
  `sem_create`. `LockReleased`: the lock is never stuck.
- `foo_table`. The variable `which` of the MC module says which of the two files is linked in.
  `NoUseAfterFree`: no call, no search and no reference ever meets freed memory. `IsCountedObjects`:
  an object leaves the table in the step that gives the last reference back. `FoundReady`: in `mutex2.c`
  nobody gets an object that is still being initialised (in `mutex3.c` `foo_find` may return one,
  whose other fields its `f_lock` protects). `CallsReturn`: the lock order prevents deadlock.
- `dining`. `ForksExclusive`, `NeighbourEats`, and `GrantOnce`: every grant is one post that is waiting
  for the philosopher (disagreement 5).
- `threads`. `MessageProcessed`: the signal after the unlock loses no wakeup. `IsJobSequence`: the
  four operations keep the list a sequence, in every order of insertions and removals at the head,
  the tail and in the middle. `FoundStillQueued`: the pointer `job_find` returns without the lock is
  good. `SortedResult`: for every array the merge gives the sorted numbers, each as often as it was
  there. `CounterValue`: with the mutex the threads print x and 2x; without it as little as 2 may
  be left of 2x.
- `signals`. `FirstWaitReturns` and `WaitNeedsTell`: a signal that comes before the test, between
  test and `sigsuspend` or before the child runs is not lost in the first round, and no round ends
  untold. A second round may hang: after the first WAIT the signals stay open, and one that falls
  between the test and `sigsuspend` is spent. `SleepReturns`: the alarm is not lost before
  `sigsuspend`. `OwnAlarmStaysInside`: `sleep()`'s SIGALRM meets the caller's action only if
  another signal ended the sleep and the alarm went off before `alarm(0)`, a window the code has.
  `ReaperNeverBlocks`: merged SIGCHLDs leave zombies but never block the handler.
  `UnreadWasMerged`: characters stay behind only by merging. `ModesRestored`: whatever
  `tcsetattr` does, the terminal has its modes back when the state says RESET and at exit, unless
  restoring itself was refused or a signal handler called `exit()` inside `tty_cbreak` or `tty_raw`:
  between `tcsetattr` and the assignment to `ttystate` that leaves the terminal of the call as it is,
  and between that assignment and the one to `ttysavefd` (`Astray`, disagreement 6) also
  the terminal of an earlier call changes. All other terminals are as they were even then.
- `descriptors`. `PcloseReturns`: closing the streams of `childpid[]` in each child is what lets an
  earlier command see the end of its input. `ChildAttached`: the command's standard input or output
  is its pipe, with standard input closed too, except when the descriptor was that of an earlier
  stream: the child closes it after having attached it. `RefusedForCause`: a client
  is refused only when its name is stale or when it called `cli_conn` again before it was accepted.
  `StandardFilesRight`: for every set of open descriptors at the start. `MessageArrives`,
  `AnswersMatch` (status bytes of -256 and beyond, texts cut anywhere) and
  `StuckOnlyAfterEmptyLine`.

Bounds. Three pairs are the smallest number at which a producer, a consumer and a third
thread of either kind can be in the two sections at once; slots equal to pairs is the tight
case of the assumption. Four threads allow two sleepers, a poster and a newcomer. Two lives
of the kernel set are what a race between a removal and a creation needs, three processes
a closer, a creator and a holder. Two threads are what the
race of `foo_rele` with `foo_find` and a lock-order deadlock take; two identifiers share a bucket
so that lists have more than one element and searches pass over objects. `BIGCOUNT` is 5: it only has to be larger than the number
of processes. Two producers and two consumers let one consumer take the message another was woken
for; three jobs have a head, a middle and a tail; 5 is the number of children in `sig2.cpp`. Three
commands are needed for one to inherit from the first past the second, nine descriptors for all of
them and the leaks of failed forks. Three calls of `cli_conn` overlap a pending connection; a buffer
of four bytes is cut by texts of up to five at every place. No symmetry is used, since these runs check liveness or are small.
Deadlock is checked for the bounded buffer and the philosophers. It is not for the two
semaphores, whose clients may all stop calling or all wait, nor for the counted objects, where
`CallsReturn` says more, nor for the runs `threads`, `signals` and `descriptors`, in which
programs end.

Each passing property has a mutant in `PROJECT.json`: an operator such as `LockNoRecheck`,
kept next to the definition it stands in for, that changes the code the way a plausible
error would and that breaks the property.

### Disagreements between the code and its comments

1. `lib/semaph.c:119-121` says that an identifier that became invalid is handled by creating
   the set again. That is so for EINVAL. A creator already asleep in `semop` is woken with
   EIDRM, and `err_sys` ends it (`CreateRetries`).
2. `lib/semaph.c:189-190` says that `sem_open` needs no lock for its decrement. Without it
   the decrement can fall between the closing process's test for the last user and its
   removal of the set; `sem_open` then returns a handle of a removed set (`OpenedHandleAlive`).
3. `dine.cpp:53` says "eat if neighbours are not eating"; `state` starts as zero, which is
   EATING, so at the start philosophers wait for neighbours that have never eaten
   (`WaitsForEater`). They get going all the same (`NeighbourEats`).
4. `lib/recvfd.c:50-51` says that the null byte is next to last and the status last in the buffer. A
   text of `MAXLINE - 1` bytes sent by `send_err` fills the buffer up to the null byte, the status
   comes with the next read, and `recv_fd` ends the client with "message format error"
   (`NoFormatError`; `Orecvfd.c` has the same test). `AnswersMatch` shows that there is no other such
   case.
5. `dine.cpp:34-37` says that the `sem_post(&S[phnum])` in `test()` "has no effect during takefork".
   It has: when `take_fork`'s own `test()` grants the forks, the post makes `S[phnum]` 1, and only so
   does the `sem_wait` at line 59 pass. `GrantOnce`, which holds, says so of every grant, the
   philosopher's own included; the comment is wrong and the code right.
6. `lib/ttymodes.c:153` says that `tty_atexit` "can be set up by atexit(tty_atexit)". Lines 57-58
   (136-137) set `ttystate` before `ttysavefd`. When a signal handler calls `exit()` between the two,
   `tty_atexit` resets with the old `ttysavefd`: on the first use that is -1 and nothing is reset;
   after `tty_cbreak(0)`, `tty_reset(0)`, `tty_cbreak(1)` terminal 0 gets the modes of terminal 1, and
   terminal 1 stays in cbreak mode. The run `signals` reaches these states; `ModesRestored` has them as
   its exception `Astray`, and without it TLC reports them as violations.

## 4. Fairness

The scheduler runs every thread that can run: weak fairness of each thread's steps, and
nothing about a client's decision to call an operation, to die or to wake spuriously.
`MonitorSemaphore` adds strong fairness of taking the mutex, since a `std::mutex` that is
released again and again is obtained in the end on the platforms the code is built for;
without it a thread could be passed over for ever by newcomers. The bounded buffer needs no
more than weak fairness because a thread takes each semaphore once. The counted
objects take their mutexes with strong fairness, like the monitor. For the
philosophers `mutex` is taken with strong fairness: whoever releases it sleeps a second
before asking again (`dine.cpp:61`, `:90`), so the threads that wait get their turn. Nothing is
assumed of `S`. In `threads` the message queue's threads have strong fairness for the same reason as
the monitor's. In `signals` a process that can go on does, a signal that is pending and not blocked is
delivered, and time passes; nobody has to tell, and no other signal has to come. In `descriptors` a
child reaches its command, a command ends once its input is at its end or nobody reads its output,
and the two processes of the pipes go on. `NeighbourEats` speaks of a philosopher and its two neighbours: a single
philosopher may indeed starve between two neighbours that eat in turn.

## 5. Proofs

The theorems hold for every value of the constants that the assumptions allow; no bound of
section 3 enters. Every property that a passing run checks and that is not liveness has its
theorem.

What is assumed of the constants, each where it is declared:

- Sets of threads, processes and references are finite (`ThreadsAssumption`, `ProcsAssumption`,
  `FiniteAssumption`), since the proofs count their members; the value that stands for "no thread",
  "no object" or "no client" is none of them (`NoThreadAssumption`, `NoneAssumption`,
  `ClientsAssumption`).
- `NumPairs <= buf_size` (10 and 20 in the code), `N >= 3` (5 in the code), `NHASH > 0` (29), and
  `BIGCOUNT` larger than the number of processes (10000; `semaph.c` says that it counts users down
  from there).
- `MaxPrime`, the largest `int`, is a prime.
- Sizes and bounds of the environment are natural numbers (`MaxSetsAssumption`, `BoundsAssumption`,
  `SizesAssumption`, `SortAssumption`, `xAssumption`); there are finitely many jobs
  (`JobsAssumption`). Descriptors of terminals are natural numbers (`TtysAssumption`).

The proof modules:

- `CountingProofs`: lemmas on `HowMany(f, A)`, the number of threads at one of the places A.
  It is a natural number; it is positive if and only if somebody is there; when one thread
  moves from one place to another it changes by the difference (`HowManyMove`). The proofs of the
  semaphores, of the philosophers and of the counted objects count with these.
- `MonitorSemaphoreProofs`: the inductive invariant joins type correctness, mutex ownership,
  the unit seen under the mutex, and the inequality of `NoLostWakeup`. The inequality needs the
  others: `value--` lowers the value by one and removes one thread from the count, `notify_one`
  moves one thread out of the sleepers and into the count. `SemaphoreRefines` maps each step to a
  step of `CountingSemaphore` or to a stutter; only `value--` needs the invariant (the unit
  must be there).
- `BoundedBufferProofs`, in three parts.
  - *Counting.* `GlobalsExclusive` and `SlotAccounting` are equations between a
    semaphore and the numbers of threads at certain statements. The inductive invariant adds the
    types, the order in which `main` starts the threads (`Spawned`), and that what was put is queued
    or taken (`PutCount`, with the equations called `Accounts`). `NeverEmpty` follows because a
    consumer at `front()` is counted in the length of the queue; `NeverStalls` because the
    elements put are at most one for each producer but the one that waits, so that with
    `NumPairs <= buf_size` a slot is left.
  - *Trial division.* `IsPrimeRight`: `isPrime(n)` holds exactly for primes. The loop tries
    2, 3 and the numbers 6k - 1 and 6k + 1 up to the root; a number that is not prime has a divisor
    among them, since of a divisor and its cofactor one is no larger than the root, and what
    neither 2 nor 3 divides is next to a multiple of 6. `getNextPrime` returns the least prime above its
    argument, which exists since `MaxPrime` is one.
  - *The elements.* `ConsecutivePrimes` says nothing of the producer between `getNextPrime` and
    `nextPrime = data`, and `ExactlyOnce` nothing of the order of the queue. `Search` adds that
    between the two `data` is the least prime above `nextPrime`, that every prime up to
    `nextPrime` is the `data` of a producer, and that no two have the same; `Elements` that the
    queue is ascending and that whatever was taken is smaller than all that is left, which is why
    what a consumer takes next is nobody else's. Both need the mutual exclusion of the first part
    (`OneInside`).
- `DiningPhilosophersProofs`: `ForksExclusive` is not inductive, because it says nothing of a
  philosopher that was granted its forks by another thread and has not woken up. The invariant
  adds what `state` and `S` are at each place of a philosopher (`Place`), that a philosopher made
  EATING by `test()` has no neighbour that says EATING, not even one that has not started
  (`Apart`), the order of creation (`Created`) and `MutexExclusive`.
- `SysVSemaphoreProofs`: a process is described by its *role*, its place in the library if its
  handle is of the set that exists and "out" otherwise, so that the removal of a set is one change of
  role for everybody. `Accounts` says that the kernel's adjustments of a process are a function of
  its role (`Undo`) and writes the three members of the set as counts of roles; killing a process then
  subtracts exactly what its role had added. `Handles` says which processes have a handle at all.
  `Closing` is what makes `CreatedHandleAlive` inductive: while a process is between its test for
  the last user and the removal, only `sem_open`, which takes no lock, can have added a user. (The
  violation of `OpenedHandleAlive` is that exception.)
- `FooTableProofs`, for both files. What a thread knows at a statement is a conjunction of three:
  the locks it holds (`LocksOK`), the references it has, including the one it is about to give back or
  the one nobody has yet (`RefsOK`), and the state of the object it works on (`ObjectOK`: unknown to
  others, shared, found, leaving, freed by this thread). To these the invariant adds that the hash
  lists hold each object at most once and in its bucket (`Lists`), that references are to objects in
  the lists and that the count of an object is the number of its references, unless a thread is
  about to unlink it (`Objects`), that nobody but its creator knows an object that is not initialised
  (`Creators`, with `mutex2.c`), and that two calls have different references and create
  different objects (`CallsApart`). Steps that only lock, unlock or go on are handled once, by the lemmas
  `ControlStep`, `LockHashStep`, `UnlockHashStep`, `LockObjStep` and `UnlockObjStep`.
  `TableImplementsCounted` maps the insertion into the list, the
  two increments, the decrement and the removal from the list to steps of `CountedObjects` and all
  else to stutters; that the removal drops the last reference is where the invariant is
  needed.
- `SmallProgramsProofs`. `TellWait`: a process past its test has its flag set. `AlarmSleep`: which
  action SIGALRM has, whether it is blocked and whose alarm runs, at each statement. `ChildReaper`: a
  pending SIGCHLD or a handler before its `wait` leaves a zombie to be collected. `TerminalInput`:
  there are no more unread characters than signals that merged, one that is pending and one
  that is being handled. `TerminalModes`: while the process runs, at most one terminal, the one a
  call is about or the one in a mode, has other modes than at the start, and its original ones are
  saved (`Running`); an exit then leaves what `ModesRestored` says. `SharedCounter`, for every `x`: how
  far each thread's loop is determines the sum with the mutex (`Mutual`) and bounds it without
  (`Racing`).
  - *`JobQueue`.* The list is characterised and not computed: it is the one path without
    repetition from `q_head` along `j_next`. That there is only one (`PathUnique`) is shown by the
    first place where two would part. `Linked` says that such a path exists, ends at `q_tail`, and
    that `j_prev` goes the same way back; `Inserted`, `Appended` and `Removed` say which path
    there is after the links were changed, the removal by the position of the job and with its cases
    of the head, the tail and the middle. The invariant `JobsInv` adds what each thread's pointer
    is at each statement (`Calling`): a reader in its search is at a job of the list, which no
    writer can change meanwhile, and a job that was found stays until its finder removes it, since a
    thread looks only for its own.
  - *`BarrierSort`.* `SortInv`: who passed the barrier has sorted its part, and main passes only when
    all have arrived (`AllArrived`, by counting). The parts do not overlap and are all of the array
    (`PartsApart`, `PartsCover`), so sorting one leaves the others in order. `MergeInv` is
    the invariant of the merge's loop: the result is in order, has as many of each number as the
    places taken so far, and nothing that is left is less than its last element. It needs
    that a round finds a number below `LONG_MAX` and that it is the least of all that are left
    (`NextLeast`): the next of its part is the least of its part, the part chosen has the least next.
    In particular the uninitialised `minidx` is never used.
- `DescriptorsProofs`. `StuckOnlyAfterEmptyLine` is inductive with the types. `StandardFiles`: which descriptors are open, and onto what, after each call. `Connections`:
  the name of a client that called once is its own and it stands in the queue once (`Orderly`).
  `DescriptorPassing`: the bytes in the buffer and on the way are always a text without null bytes
  followed by at most one null byte and its status (`Plain`, `Ended`), except when the buffer ends at
  the null byte (`Cut`), the case of disagreement 4. `PipeStreams`: a child that has not
  attached its pipe yet has both ends of it, at two descriptors of its own.

Type correctness, mutex ownership, `UnitIsThere`, `GlobalsExclusive`, `MutexExclusive`,
`IsPrimeRight` and the invariants above are proved and no run checks them again. The theorems
about a part of `MCThreads`, `MCSignals` or `MCDescriptors` are about that part's own
specification, which the run checks next to the others.

Only model-checked is liveness, which is out of the prover's reach: `UnitGetsTaken`, `Terminates`,
`LockReleased`, `NeighbourEats`, `CallsReturn`, `MessageProcessed`, `FirstWaitReturns`,
`SleepReturns`, `PcloseReturns`, `MessageArrives`.

## 6. Plan

The safety properties of the runs are proved. What would say more, in this order:

1. The safety side of liveness properties: that no state of the message queue has a message, a
   consumer asleep and nobody on the way to it; that the lock order of `mutex2.c` and
   `mutex3.c` leaves no cycle of waiting threads; that of a philosopher and its neighbours that all
   wait, one has a grant outstanding.
2. A specification of what `lib/semaph.c` promises (a set with a lifetime, users and units), with a
   refinement mapping like those of the monitor and of the counted objects.
3. The bounded buffer composed with the monitor's own steps in place of the counters, on the
   strength of `SemaphoreRefines`.

## 7. Not modelled

Encryption (calls into OpenSSL and .NET), packet headers (filling and printing structures),
`getAddress.cpp`, error reporting, `s_pipe`, `sleep_us`, the wrappers of a single system call and
the demonstrations of thread life cycle, files and shared memory have no state or algorithm of
their own to check. `readn` and `buf_args` are loops that nothing runs beside. The one
producer and one consumer of `producerConsumer.cpp`, `noSemaphore.cpp` and `withSemaphore.cpp` and the
object of `mutex1.c` are smaller cases of what the bounded buffer, the message queue and the counted
objects check.
`PROJECT.json` gives the reason for each part. Memory models weaker than
interleaving are not modelled: where the code's accesses are protected, interleaving is exact.
