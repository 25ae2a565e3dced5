# TLA+ models of the concurrent programs of "System Programming Examples"

The repository collects the example code of some fourteen books on system
programming. Most of it shows one system call at a time. The parts with logic of
their own, and with behaviour that is hard to test, are

- `src/Programming.With.POSIX.Threads/src/` (Butenhof's book): packages built from
  mutexes and condition variables, and programs that use them;
- `src/Advanced.Programming.In.UNIX.Environment/apue.3e/` (Stevens and Rago): the
  database library `db/db.c`, whose users share files under record locks, and the
  print spooling daemon `printer/printd.c`, whose jobs survive its restarts.

This directory models those as state machines, checks them with TLC on small
instances, and proves the properties that matter most with TLAPS for every number of
threads.

File names below without a directory are in one of these two directories.

## 1. The system and its components

### Modelled

**Barrier package** (`barrier.c`, `barrier.h`).
State: a mutex and a condition variable, `valid`, `threshold`, `counter` (how many
threads the current cycle still lacks) and `cycle` (one bit). Operations:
`barrier_init`, `barrier_wait`, `barrier_destroy`. `barrier_wait` tests `valid`
*before* it locks the mutex; the last thread to arrive flips the cycle, rearms the
counter and broadcasts, the others sleep until the cycle differs from the bit they
remember. Hard: fast threads of the next cycle share the condition variable with
slow ones of the last; spurious wakeups; a destroy that races with threads leaving.
Correct when: nobody goes on before everybody has arrived, nobody sleeps on after
its cycle is over, exactly one thread per cycle is told it was the last, and
`barrier_destroy` leaves threads that are still inside alone.

**Barrier demonstration** (`barrier_main.c`).
State: per thread an `increment` and an array, shared without a lock; ordering comes
only from two barrier waits per round. Operations: `thread_routine`, `main`.
Correct when: the serial update of the increments never overlaps the parallel use
of them, each round sees the last round's update, and the program ends.

**Read-write lock package** (`rwlock.c`, `rwlock.h`).
State: a mutex, the conditions `read` and `write`, `valid`, the numbers of active
readers and writers and of waiting readers and writers. Operations: `rwl_init`,
`rwl_destroy`, lock / trylock / unlock for readers and for writers, and two
cancellation cleanup handlers. Hard: a woken thread competes with new callers; the
unlock decides from counters whom to wake; a cancelled waiter stays counted until its
handler has the mutex; a destroy that races with callers. Correct when: readers or
one writer, counters equal to what they count, no sleeper beside a free lock, every
call returns if owners unlock.

**Work queue package** (`workq.c`, `workq.h`).
State: a mutex, one condition variable for servers *and* the destroying thread,
`valid`, `quit`, a linked list, `parallelism`, `counter` (server threads), `idle`.
Operations: `workq_init`, `workq_add` (which creates detached server threads),
`workq_destroy` (which runs them down), `workq_server` (the loop of a server: take an
item, run the engine with the mutex unlocked, or sleep two seconds and leave). Hard:
timeouts racing with new items, shutdown racing with both, failing
`pthread_create`. Correct when: every accepted item is served once and in order, the
counter is the number of servers and within the parallelism, the queue is destroyed
empty with no server left.

**Work queue demonstration** (`workq_main.c`).
State: per-server statistics in thread-specific data, linked to a global list by the
key's destructor when a server ends. Hard: the destructors run after the servers have
left the queue. Correct when: every call is counted once, and main adds all of them up
(it need not: section 4).

**Work crew** (`crew.c`).
State: a list of work items, `work_count`, a mutex, the conditions `go` (for workers,
waited for in two places) and `done` (for callers, waited for in two places).
Operations: `crew_create`, `crew_start`, `worker_routine`. Workers append new items
while they process one. Hard: the count must cover items on the list and in hand;
two kinds of waiters share each condition; the worker that finishes the last item
ends; failing `opendir`. Correct when: `crew_start` returns only when everything under
its path has been looked at, and does return as long as the crew has a worker; no item
is lost or processed twice.

**Pipeline** (`pipe.c`).
State: per stage a mutex, the conditions `avail` and `ready`, `data_ready` and `data`;
of the pipe a mutex and `active`, the values started and not asked for. Operations:
`pipe_create`, `pipe_start`, `pipe_result`, `pipe_send` and the stage threads. Hard: a
stage holds its own mutex while it waits to send to the next, so a full stage stalls
everything behind it; `pipe_result` counts a value out before it has arrived. Correct
when: values leave once, in order and one greater for each stage; `active` says whether
there is one to wait for; who was let through gets one.

**Alarm server** (`alarm_cond.c`).
State: a list of alarms sorted by time, `current_alarm` (what the thread waits for, 0 for
any alarm), a mutex and a condition variable. Operations: `alarm_insert`, the alarm thread,
`main`. Hard: the thread has the alarm it waits for off the list; an earlier one, the
timeout and a spurious wakeup race, and it must put its alarm back or let it go off.
Correct when: the thread never waits past an alarm; each goes off once, not early, and in
the end.

**Terminal server** (`server.c`).
State: a queue of requests, `running`, per request `done_flag` and a condition; of the
program `client_threads` under `client_mutex`. Operations: `tty_server_request`
(synchronous or not), the server thread, the clients, `main`. Hard: a synchronous request
is freed by the client that waits for it, an asynchronous one by the server; both work on
it without the mutex. Correct when: requests are freed once and not used afterwards, lines
are echoed in order by who read them, `main` returns after the last client.

**Database library** (`db/db.c`, `db/apue_db.h`).
State: an index file with the heads of `NHASH` chains and of a free list and with index
records linked by file offsets, a data file, and record locks on the first byte of a chain
or of the free list and on the files' ends; per process the `DB` structure with the
offsets of the record found last. Operations: `db_open` (which creates the table under a
lock), `db_close`, `db_fetch`, `db_store` (insert, replace or either), `db_delete`,
`db_rewind`, `db_nextrec`. Hard: a call is up to a dozen accesses to two files, and only
the locks keep other processes' accesses out from between them; a deletion turns a
pointer of a chain into one of the free list; a replace may delete first and must read
the chain again; a reused record must have the right sizes; a sequential scan locks
only the free list. Correct when: chains and free list are sound whenever nobody has them
locked, no space is lost, records fit where they are written, and to the callers the
database is a map whose calls take effect one at a time.

**Print spooler** (`printer/printd.c`).
State: on disk a data file and a control file for each job and the number file; in memory
`nextjob`, the queue of jobs, the list of worker threads. Operations: `client_thread`
(spool a file and queue the job), `printer_thread` (print the head of the queue, put it
back on failure), `build_qonstart` (queue at a start what is on the spool), the signal
thread's `kill_workers`, `add_worker` and `client_cleanup`. Hard: the daemon may stop
between any two steps; what is on the spool then is all the next run has, and that run may
fail to open or read it. Correct when: what a client was told is accepted stays whole until
the printer has taken it, is queued once, and is printed in the end, except what a failed
open or read at a start makes the daemon skip or delete (section 4); nothing that was given
up is printed.

### Interaction

Clients call the packages directly; the packages share nothing with each other. The
compositions are `BarrierMain` over `Barrier` and `WorkqMain` over `Workq`: the
program's own steps are joined with the steps of the package its threads are inside.
In `Server`, `Alarm`, `Pipe` and `Printd` the program and the part it is built around are
in one file and one module. The processes of `Db` meet in the files and locks only.

### Not modelled (yet, or at all)

| Component | Why |
|---|---|
| `rwlock_main.c`, `rwlock_try_main.c`, `pthread_rwlock_main.c` | clients of the lock, in the plan |
| `alarm_mutex.c` | in the plan: the same list as `alarm_cond.c`, without the condition |
| `susp.c` | in the plan: suspension over SIGUSR1/SIGUSR2 |
| `backoff.c`, `trylock.c` | in the plan: three mutexes in opposite orders |
| `semaphore_wait.c`, `cond.c`, `atfork.c`, `cancel_cleanup.c`, `cancel_subcontract.c` | small protocols, in the plan where they add something |
| one-call demonstrations (`hello.c`, `once.c`, `mutex_attr.c`, ...) | no protocol |
| `reread`, `init_printer` of `printd.c`, `printer/print.c` | the printer's address is data; in the plan |
| the other books | single-call examples, toy kernels, vendored data; candidates: `sbuf.c` of *Computer Systems*, the semaphore programs of *Operating Systems: Three Easy Pieces* |

## 2. How the code is modelled

**Steps.** What a thread does between locking a mutex and unlocking it, or sleeping in
a condition wait, is one step: nobody else can see the state in between, since every
shared field is only touched under the mutex. What is done *outside* is a step of its
own: the tests of `valid` before the lock (`barrier.c:94`, `rwlock.c:121`,
`workq.c:255`), the gap between the unlock and `pthread_mutex_destroy`, the engine
running unlocked, the system calls of a crew worker. `Barrier` shows the mutex itself
(its owner, the relock after a wait); `Rwlock`, `Workq` and `Crew`, which follow the
same discipline, fold the lock into the section it protects.

In the programs of *APUE* a step is one access to a file or one critical section: other
processes, or a stop of the daemon, may come between any two. In `Pipe` a step lasts from
one wait, for a mutex or a condition, to the next, with the mutexes' owners shown: a stage
holds one mutex while it waits for another. In `Alarm` the alarm thread holds the mutex
whenever it does not wait, so the mutex is a function of where it is.

**Condition variables.** A waiter is asleep (in the set a signal chooses from), then
awake and competing for the mutex. `pthread_cond_signal` wakes one sleeper or
nobody, `broadcast` all of them. Any sleeper may also wake up spuriously at any time.

**Failures.** A pthread call that can only fail on an invalid object fails exactly when
the object is invalid in the model: locking a destroyed mutex gives `EINVAL`, destroying
a mutex that is held (or, where sections are single steps, contended) gives `EBUSY`,
`pthread_cond_destroy` waits for sleepers and returns 0 (what glibc does). Calls that
fail for want of resources (`pthread_mutex_init`, `pthread_create`, `malloc`,
`opendir`, ...) fail at will. Cancellation strikes only a thread blocked in the wait
with a cleanup handler pushed.

**Callers.** A caller keeps the packages' contracts: it unlocks what it owns, does not
lock twice, and stops using an object whose call reported an error. `JoinFirst`
chooses between a destroy after all callers have been joined (what the demonstration
programs do) and a destroy at any moment. In `Db` nobody opens the database with `O_TRUNC`
while others use it (`db_open` would cut the files under their feet), a process opens and
closes it once, and `db_nextrec` is called after `db_open` or `db_rewind`, or after another
`db_nextrec`, with no other call in between, since that moves the file's offset.

**Stops.** `Printd` may stop at any moment (`Stop`): a crash, `SIGTERM`, or an exit of its
own. Memory is gone, files stay, and `Start` begins with what `build_qonstart` finds. The
clients' connections end with it.

**Time.** `Alarm` has a clock that ticks (`now`); a timed wait may end from the tick on
that reaches its time. The timeouts of `Workq` may happen whenever a server sleeps.

**Data.** A file offset in `Db` is a record's number; a record is a key, data and their
lengths, since sizes decide what may be reused. A job of `Printd` is whose it is and how
much of it is there. The values of `Pipe` are 10 apart so that the stages' increments
show. An `engine_t` of `WorkqMain` is the set of the items its engine was called with; its
counter is how many they are.

**History variables** (`gen`, `joined`, `calls` in `Barrier`, `holds` in `Rwlock`,
`accepted` and `finished` in `Workq`, `added`, `finished`, `dropped` in `Crew`) record what
happened for the properties and guard nothing in the code's own steps; so do `before` in
`Db`, `told`, `printed`, `dropped` (given up by this run), `lost` (deleted at a start) in `Printd`, `fired` in `Alarm`, `entered` and
`results` in `Pipe`, `typed` (which also bounds the input) and `output` in `Server`.

**Left out.** What is only shown to a user, memory addresses, the engine's
arithmetic, thread attributes.

### Modules

| Module | Models | Correspondence |
|---|---|---|
| `Barrier` | `barrier.c` | one action per region: `BarrierWait` (call and unlocked test), `Lock`, `ArriveLast`/`ArriveEarly`, `Relock`, `Test` (the `while` loop), `BarrierDestroy` .. `DestroyCond` (the five parts of the destroy) |
| `Rendezvous` | what a barrier promises | gather, release all, go on |
| `BarrierMain` | `barrier_main.c` | `Call`, `Returned`, `Compute`, `Serial` for `thread_routine`; `CreateThread`, `JoinThread`, `Destroy` for `main` |
| `Rwlock` | `rwlock.c` | one action per operation, `ReadWoken`/`WriteWoken` after a wait, `Cancel` and `Cleanup`, the parts of `rwl_destroy` |
| `SharedExclusive` | what a read-write lock promises | read, write, leave |
| `Workq` | `workq.c` | `WorkqAdd`/`Enqueue`, `Take`, `Sleep`, `ShutDown`, `Leave` as the four outcomes of a server's loop, combined by `ServerStart`, `ServerWoken`, `ServerBack`; `Timeout`; the parts of `workq_destroy` |
| `WorkPool` | what a work queue promises | submit, start in order, finish |
| `WorkqMain` | `workq_main.c` | `EngineRoutine`, `Destructor`, `Summary` over `Workq` |
| `Crew` | `crew.c` | `Start`, `WaitForWork`, `TakeWork`, `LookAtFile`, `OpenDirectory`, `OpenFailed`, `ReadEntry`, `ReadEnds`, `Finish` for the worker; `CrewStart`, `WaitIdle`, `Request`, `WaitDone` for the caller |
| `Pipe` | `pipe.c` | `Send`/`SendWaits` for `pipe_send`, `StageTakes`, `StageWaits`, `StageEmpties` for a stage, `PipeStart`, `PipeResult`, `Result`, `ResultWaits` for callers |
| `Fifo` | what a pipeline promises | put, get |
| `Alarm` | `alarm_cond.c` | `Request` (with `Insert` and `Wakes` for `alarm_insert`) and `Exit` for `main`; `Lock`, `Loop`, `Woken`, `TimedWoken`, `TimedOut` for the thread, one per way it gets the mutex; `Tick`, `Timeout` for the clock |
| `AlarmClock` | what an alarm server promises | tick, set, fire |
| `Server` | `server.c` | `Request` and `Waiting` for the two parts of `tty_server_request`, `ClientReads` .. `ClientLeaves`, `ServerTakes` .. `ServerFinishes`, `MainCreates` .. `MainReturns` |
| `Db` | `db/db.c` | the library's functions cut at each file access: `FindStart`, `FindNext`, `Found`, `NotFound` (`_db_find_and_lock`), `FetchData`, `BlankData` .. `Unchain` (`_db_dodelete`), `FindFree` .. `NoneFree` (`_db_findfree`), `AppendData` .. `Link` (writes), `NextStart` .. `NextData` (`db_nextrec`) |
| `KVStore` | what the database promises | invoke, and one instant for each call |
| `Printd` | `printer/printd.c` | `Start`, `Serve`, `Stop` for `main`, with `ReadName`, `SkipName`, `SkipNames`, `DiscardName`, `DiscardData`, `SignalName` for the outcomes of `build_qonstart`; `Accept` .. `Cleanup` for a client's thread (`RemoveData` is the second unlink after a failed write of the control file); `GetJob` .. `ReplaceJob` for the printer's |
| `MC...` | instances for TLC | small sets, symmetry of the server threads or lock callers where no liveness is checked |
| `PrintdInv` | the inductive invariant of `Printd` | `Safe`, by its parts |
| `...Proof` | theorems | the proofs about a component; `ApueProof` holds those about `Printd` and about `Db`, the two programs of *Advanced Programming in the UNIX Environment* |

An operator `X_Y` placed before `X` and marked "Mutant" is a plausible wrong version of
`X`; substituting it for `X` makes TLC report the property it is paired with in
`PROJECT.json`. No specification uses these operators.

## 3. What the runs check

All counts are distinct states found by TLC.

| Run | Instance | What it shows |
|---|---|---|
| `barrier_main` | 3 threads, 2 rounds = 4 meetings, 16 428 states | The barrier's safety properties and the program's hold; the package implements `Rendezvous`; the program ends. |
| `rwlock` | 3 threads, 4 lock calls, with cancellation and a destroy at any moment, 212 980 states | Counters survive cancellation and early destroys; no lost wakeup until somebody is cancelled; implements `SharedExclusive`; every call returns when owners unlock and nobody is cancelled. |
| `workq_main` | 2 clients x 2 items, 2 servers, 219 912 states | After the clients are joined the queue is destroyed quiet and drained; implements `WorkPool`; the program ends. |
| `workq_early_destroy` | the same queue, destroy at any moment or never, 382 512 states | The counter is the number of servers while the queue lives; accepted items exist exactly once; a `workq_destroy` that has begun returns; while the queue lives, whatever it accepted is served in the end, though no sleeping server is ever signalled. |
| `crew` | 2 workers, 3 callers, a tree of 2 directories and 2 files, every failure, 462 022 states | `work_count` is what is outstanding, items are in one place, callers return only when their tree is done, and do return unless the process dies, a directory could not be opened, or every worker has left. |
| `pipe` | 2 callers, 2 stages and the tail, 5 values, 83 123 states | `active` counts; implements `Fifo`; a result that was asked for comes. |
| `alarm` | 3 alarms for -1, 1, 2 or 3 seconds from now, 42 988 states | The thread never sleeps past an alarm; implements `AlarmClock`; every alarm goes off. |
| `server` | 2 clients, 3 lines, 2 writes a line, 116 612 states | Requests are freed once and by the right side; lines are echoed in order; `main` returns unless it created too few clients. |
| `server_clients` | 3 clients | **Violated**: `main` may create fewer than `CLIENT_THREADS` clients. |
| `db` | 2 processes with 3 and 2 calls, 3 keys on 2 chains, 667 263 states | Lists sound, no space lost, records keep their size, a scan sees whole records, implements `KVStore`. |
| `printd` | 3 clients of whom 2 send, 3 job numbers, 1 stop and restart, failing opens and reads at a start, 577 679 states | Accepted jobs stay whole, are queued once, only whole files are printed, and all are in the end, but for the jobs that a failed open or read makes the daemon skip or delete. |
| `printd_workers` | 2 clients | **Violated**: a worker is not on the list that `SIGTERM` walks. |

**The bounds and why they are enough.** `MaxCalls`, `MaxLocks`, `MaxAdds`, `MaxStarts`,
`Lines` bound the calls or inputs of a caller, `OUTLOOPS` the rounds, `MaxTime` the clock's
use, `MaxStops` the restarts, the sets of threads the threads.

- Three threads at a barrier are the least with which one is slow while another is fast
  and a third already waits in the next cycle; four meetings let the one-bit cycle come
  back to each value twice.
- For the lock, three threads are the least with two readers and a writer, or a reader and
  two writers, all waiting or active; the one with two calls competes, after its unlock,
  with those it has woken.
- For the work queue, two clients and two servers let `counter` be at, below and above what
  is needed, and four items make servers leave, be replaced and leave again.
- For the crew, two workers with three callers are one request more than it can serve (see
  below), so it is used up, with a caller or two inside; a directory in a directory makes an
  item appear while others are in hand.
- For the pipe, five values are two more than two stages and the tail hold: everything is
  full, two callers wait, and values still follow.
- Three alarms are one in hand, one on the list and one that comes; delays between -1 and 3
  make it earlier than, as late as, and later than each.
- Two writes instead of the four of `server.c` still interleave with another client's
  request; three lines make one client read twice.
- For the database, `a` and `b` share a chain, `a` and `c` have equal lengths, as have two
  of three data: a free record fits one key or datum and not another, and one freed on a
  chain is reused on the other. Three calls and two let one process delete or replace
  between two accesses of the other and let a record be freed and taken again.
- For the spooler, one stop at any moment, with one job printing, one queued and one
  connection that sends nothing, which is also what makes a freed entry stay the head of the
  list of workers; three job numbers let numbers come round after a restart. Opens and reads
  fail at any start, the first one too, which finds nothing to lose.

Nothing else is bounded; the proofs in section 6 drop the bounds.

**Deadlock** is checked in every run. A system that has ended stutters by an explicit
action (`Terminated`, `Ended`, `Stopped`) with a guard that says what having ended means;
anything else without a successor is an error. The one run without the check is `pipe`:
with every stage full and every caller in `pipe_start`, the program really stops, since
only a caller could collect (section 4).

## 4. What the violated runs show

Each of these checks one property that a comment in the code promises.

- `server.c:305`, *"Create CLIENT_THREADS clients."* The loop compares its count with
  `client_threads`, which every client that ends decrements, and reads it without
  `client_mutex`. When a client ends before the loop does, fewer are created than were
  counted, `client_threads` never reaches 0, and `main` waits for ever. This is the
  exception in `MainReturnsInTheEnd`.
- `printd.c:551`, *"Cancel (kill) all outstanding workers."* `add_worker` makes a new entry
  the head of the list only when the list is empty; the others hang in front of a head
  that still points at the first (`printd.c:546`), and walks from the head do not meet
  them. Their threads are not cancelled and their entries not taken off.

Seen while modelling, without a run of its own:

- `barrier.c:66`, *"Check whether any threads are known to be waiting; report BUSY if so"*.
  The test compares `counter` with `threshold`, but the last thread to arrive rearms the
  counter before the others have left `pthread_cond_wait`. A destroy at that moment clears
  `valid` and destroys the mutex those threads must lock again. `Barrier` with `JoinFirst`
  FALSE contains this; `BarrierLocking` and `BarrierCycles` hold nevertheless.
- `rwlock.c:261` with the cleanup handlers. A reader cancelled while it waits is still in
  `r_wait` until its handler has the mutex. A writer that unlocks in between broadcasts to
  nobody and does not signal a waiting writer, nor does the handler. This is the exception
  in `NoLostWakeup` and `CallReturns`.
- `workq.c:285`, *"if any threads are idling, wake one"*. No line increments `wq->idle`, so
  no server is ever signalled: with the parallelism used up, a new item waits until a
  sleeping server's two seconds are over, and below it `workq_add` creates a server beside
  idle ones (`workq.c:291`).
- `crew.c:166`. The `continue` after a failed `opendir` skips the decrement of
  `work_count`, so `crew_start` never returns: an exception in `ReturnsWhileCrewLasts`.
- `printd.c:696`. The number file is written when a job is picked up, not when its number is
  given. After a restart a number may be given again, and its files written over, while
  the job that had it still waits: the exception `Reissued` in the properties of `Printd`.
- `printd.c:339-385`, `build_qonstart`. If the control directory cannot be opened (349) nothing
  is queued, if a control file cannot be opened (363) its job is skipped, and if one cannot
  be read in full (366) both files of the job are unlinked, although its client was told it
  is accepted. The second is not far off: the descriptor of a file that was read is never
  closed (365, 380-383), so a spool with more jobs than descriptors loses sight of the rest
  until the next start, and the daemon that serves has no descriptors left. These are the
  exceptions `dropped` and `lost` in the properties of `Printd`.
- A client of `printd.c` that is silent for 20 seconds is taken to have sent everything
  (`ReadData`): "whole" in the properties means all that the daemon has read.
- `update_jobno` writes the number over the old one without truncating the file.
- `pipe.c:8`, *"too many '=' commands will hang"*: they do not, `pipe_result` returns 0 when
  `active` is 0. Too many values without a result do hang the only caller.
- `barrier.c:82` and `rwlock.c:96` return the wrong status: `(status == 0 ? status :
  status2)` is 0 when the first destroy fails and the second succeeds, and drops a
  failure of the second.
- With more threads than the barrier's count, two broadcasts bring the one-bit cycle
  back to the value a slow thread remembers, and it sleeps on. This is why
  `CycleInv` and the theorems assume at most `Count` threads.
- `barrier_main.c:103` prints a thread's increment after joining that thread; the serial
  thread of the last round may still be updating it.
- `rwl_destroy` unlocks the mutex before destroying it (`rwlock.c:90-93`); a caller that has
  passed the test of `valid` may own the lock when its mutex is destroyed. The same
  gap is in `workq_destroy` (`workq.c:237-240`): a client past the test may add an item
  and create a server in between. Both need a caller that is not joined first.
- `workq_main.c:130`, *"By now, all of the engine_t structures have been placed on the list
  (by the engine thread destructors)"*. They need not have been: a server gives its place in
  `counter` back before it ends (`workq.c:114`, `workq.c:139`), `workq_destroy` waits for the
  counter only, and the destructor runs after that. In `WorkqMain` `Summary` may be taken
  while `ending` is not empty, and `total` then lacks those calls. What does hold is the
  theorem `WorkqMainCallsAccounted`: the missing calls are still with the threads that are
  ending, and none is counted twice.
- Each request costs the crew the worker that finishes it (`crew.c:300-308`); after as
  many requests as workers, the next `crew_start` never returns. A caller whose own search
  is over may be caught as well, if it gets the mutex only after that next request has been
  counted: it waits while `work_count` is not zero (`crew.c:442`). The demonstration makes one
  request. `OneLeavesPerRequest` states the loss exactly; `UsedUp` is an exception in
  `ReturnsWhileCrewLasts`.

## 5. Fairness

The safety properties need none. The liveness properties assume that a thread that can run does, in the end:

- weak fairness of each thread's sections. A thread may be kept from the mutex by
  others, but in `Rwlock`, `Workq` and `Crew` a section is one step that stays enabled
  while the mutex lives, and every other thread makes finitely many calls; in
  `BarrierMain`, where the mutex is visible and may be held whenever a thread looks, the
  step inside the package is strongly fair, which is what a mutex that does not starve
  gives;
- owners of a read-write lock unlock it (weak fairness of the unlock calls), which is
  the caller's side of the contract; nobody is required to lock;
- `Timeout` of a work queue server is strongly fair: the deadline is absolute and
  computed once before the waiting loop (`workq.c:52-63`), so wakeups that interrupt the
  sleep do not postpone it for ever. So is `Timeout` of the alarm thread, with the clock
  weakly fair;
- stages and callers of the pipe that can move do (weak fairness of `Step`); no caller
  has to call again. That a result comes, whoever waits for the tail, rests on the bound
  on values: with values without end a caller could be overtaken for ever by others;
- a line is typed for each prompt of `server.c`, if only an empty one;
- the spooler's threads run on, it is started again after a stop, and a printer that is
  tried again and again takes the job in the end (strong fairness of
  `Send("unlink_data")`);
- spurious wakeups, cancellations, failures, stops and the callers' decision to call are
  never promised, nor is a `workq_destroy` in `Workq`: once called it goes on, but
  `AcceptedServed` must hold without one. `Db` has no liveness property: record locks are handed out by the
  kernel, in no order the library relies on.

`ReturnsWhileCrewLasts` allows for the end of the process (`errno_abort`), for a dropped
directory and for a crew that is used up; everything else must end in a return.
`AcceptedServed` allows for a destroy that has taken the queue's mutex away: an item that an
unjoined client adds after the run-down is nobody's.

## 6. What is proved

TLAPS proves these for every finite set of threads, every count, parallelism and number
of calls, and for the database for every set of processes, keys, data and calls, every hash
function and number of chains. The assumptions are the ones named in each module (`BarrierAssumption`,
`RwlockAssumption`, `WorkqAssumption`, `CrewAssumption`, `PipeAssumption`,
`AlarmAssumption`, `ServerAssumption`, `PrintdAssumption`, `DbAssumption`), which TLC evaluates on the
instances, and the extra ones in the table, which are hypotheses of the theorems. The shape
of a demonstration program (`ProgramShape` of `BarrierMain`: one thread per place of the
barrier, two calls a round) is such a hypothesis; the run `barrier_main` satisfies it.

| Theorem | Module | Extra assumption |
|---|---|---|
| `BarrierTypes`, `BarrierLocking` | `BarrierProof` | none |
| `BarrierCycles`, `BarrierNobodyLeftBehind`, `BarrierSynchronises` | `BarrierProof` | no more threads than `Count` |
| `BarrierImplementsRendezvous` | `BarrierProof` | joined before the destroy, exactly `Count` threads |
| `BarrierMainRoundsApart` | `BarrierProof` | `ProgramShape` of `barrier_main.c` |
| `RwlockCounting`, `RwlockTypes`, `RwlockImplements` | `RwlockProof` | none: cancellation and early destroys included |
| `RwlockNoLostWakeup` | `RwlockProof` | none: the property ends with the first cancellation |
| `WorkqTypes`, `WorkqCounterCounts` | `WorkqProof` | none: early destroys included |
| `WorkqQuietDestroy` | `WorkqProof` | clients joined before the destroy |
| `WorkqItemsOnce`, `WorkqImplementsPool` | `WorkqProof` | none: early destroys included |
| `WorkqDestroyDrains` | `WorkqProof` | clients joined before the destroy |
| `WorkqMainCallsAccounted` | `WorkqProof` | none |
| `CrewTypes`, `CrewCountsOutstanding`, `CrewItemsOnce` | `CrewProof` | none: every failure included |
| `CrewReturnsWhenDone`, `CrewOneLeavesPerRequest` | `CrewProof` | none: every failure included |
| `PipeTypes`, `PipeActiveCounts`, `PipeImplementsFifo` | `PipeProof` | none |
| `AlarmTypes`, `AlarmSorted`, `AlarmNeverOversleeps`, `AlarmImplementsClock` | `AlarmProof` | none |
| `ServerTypes`, `ServerRequestsAlive`, `ServerLinesEchoed` | `ServerProof` | none: also when `main` creates too few clients |
| `PrintdTypes` | `ApueProof` | none |
| `PrintdAcceptedKept`, `PrintdPrintsWhole`, `PrintdNothingForgotten` | `ApueProof` | no more senders than job numbers |
| `DbTypesHold`, `DbSafe` | `ApueProof` | none |
| `DbListsSound`, `DbSpaceAccounted` | `ApueProof` | none |
| `DbRecordsKeepSize`, `DbNextrecWhole`, `DbImplementsStore` | `ApueProof` | none |

With these every safety property, every action property and every refinement that a
passing run checks is also a theorem.

`BarrierTypes`, `BarrierLocking`, `BarrierNobodyLeftBehind`, `AlarmSorted`, `DbTypesHold`,
`DbSafe` and the `...Types` state parts of the inductive invariants that no run of `PROJECT.json` names,
`WorkqMainCallsAccounted` one of the statistics.

*Barrier.* `Safe == TypeOK /\ LockInv` is inductive. Over it, `CycleInv` is: the counter is
what the current cycle lacks (a cardinality), every thread inside is in the current cycle
or the one before, and its saved bit says which. The two together are needed because the
code sees only the bit: the theorem is that one bit is enough, and the place where it
could fail is the flip (`ArriveLast`), when nobody may be left from the cycle before
last. There the counter is 1, so all other threads are in the current cycle
(`LastIsMissing`), and the bits can be read the other way round. `BarrierSync` and
`NobodyLeftBehind` follow without another induction. For the refinement `JoinInv` adds
that the objects live as long as anybody calls.

*Barrier program.* `MainSafe` joins the package's invariant with the program's. `CallsMade`
says how often a thread has called the barrier, from its stage and its round, so that a
thread outside the barrier tells the number of the cycle (`OutsideCalls`). `OneSerial`: of
the threads that returned from the same cycle one was told it was the last. Together they
give that at most one thread updates, and that all others are then at rest in the first
call of the next round. `Increments` says what has been updated so far: it is what makes
the values a round uses those of that round. Every step of the program is a step of the
package or leaves it alone (`MainStepIsStep`), so the package's lemmas are used as they are.

*Read-write lock.* `Safe == TypeOK /\ Protocol /\ Counting` is inductive. That no counter
drops below zero (the types) depends on the counters being right, and that depends on
where each thread is (`Protocol`), so the three go together. `NoLostWakeup` is inductive
over `Safe`; its last disjunct, a cancelled thread, is needed (section 4). The refinement needs only that zero counters mean empty sets of owners.

*Work queue.* `Life` ties `valid`, the place of the destroying thread and the life of the
mutex together, and makes the counter the number of servers while the mutex lives.
Once it is destroyed under a server the counter may stay too high, which `Life` allows.
`RunDown` adds that from the moment `workq_destroy` has seen the counter at zero, with the
clients joined, no server exists.

*Items of the work queue.* Every step adds an item, takes one, finishes one, or leaves
items alone (`Kinds`); `Placed` counts the places of an item in sets (`Queued`, `Working`)
and is inductive over `Safe` by these four cases; it includes that an item nobody has
added yet (`Fresh`) is nowhere. `Attended` says that with the clients joined a queued item
that was accepted has a server alive; with `RunDown` it gives `DestroyDrains`. For the
refinement the abstract guard `Cardinality(running) < Parallelism` comes from counting:
running servers and the one that takes the item are all alive, and `Life` bounds those.

*Statistics of the work queue program.* `Placed` also says that an item is in at most one
place, and hence finished at most once. So in `CallsAccounted` an item is in the data of
one thread at most, whether that thread runs, ends or is on the list. This is why moving an
engine from one set to another never makes two of them one, and why the sum over the list
that `main` prints adds no call twice. It may lack calls: the destructor may run late, and
the theorem counts what it has not linked yet under `ending` (section 4).

*Work crew.* `Safe == TypeOK /\ Begun /\ Placed /\ Fresh /\ Counted` is inductive.
`Placed` says that every appended item is in exactly one place, `Counted` turns that into
cardinalities. Neither survives an append unless the new item is new, which is `Fresh`:
no entry of an item that is still to be looked at has been appended, and an item is
appended only after the directory it is an entry of. This is where `CrewAssumption` is
used: a path names its directory, and the root is nobody's entry. That the types need the
counts is again the subtraction in `Finish`. Over `Safe`, `ReturnsWhenDone` and
`OneLeavesPerRequest` are inductive: every step but an append and a finish is `Idle`
(`StepKinds`), and with `work_count` at zero nothing is queued, in hand or left behind
(`NothingLeft`).

*Pipeline.* `Safe == TypeOK /\ Carries /\ Counted`. `Carries` says that a stage
stays full while its thread sends; what has arrived counts with the later stage. `Counted` is
`ActiveCounts` as cardinalities of two sets of callers and of the full stages; a step moves
one element, and the moved value leaves the number of full stages alone. For the refinement
of `Fifo` the abstract queue must be read off the stages. Instead of following them with a
recursive function, the model records in `entered` what callers sent into the first stage;
the contents are what has entered and not come out, and `InLine` says that this is what the
stages hold: the value of a full stage entered as many places after the last result as there
are full stages from it to the tail, and is one greater for each stage behind it. `Brought`
says the same of a value that is on its way into a stage. A send moves a value past nobody
(`StageSends`), and a full tail holds the oldest (`ResultIs`).

*Alarm server.* `Safe == TypeOK /\ Sorted /\ Placed /\ Told`. `Sorted` is about the list,
`Placed` about the list, the alarm in hand and those gone off, and `Told` is the point:
`current_alarm` below the time of the alarm in hand means a wakeup is on its way; equal to
it means nothing earlier is on the list. `Inserting` shows what the sorted insertion does
to the list, for every position.

*Terminal server.* `Safe == TypeOK /\ Placed /\ Awaited /\ Fresh`. Every allocated request is in
the queue once, at the server, or done (`Placed`), and a thread waits exactly when its
synchronous request is among them (`Awaited`). The heap is a set, so a new request must
differ from all that are allocated: for a write this is `Fresh`, an order of lines and
rounds, which holds while the client goes on and not after it has read the empty line.
For the lines, `Echoing` follows them from the client to the output. `Ordered`: whatever was
queued before comes before, in the queue, at the server and in the output (`Follows` is what
is known of two requests in that order). `Traced` and `Apart`: a write asked for is of a line
its client has read and no other client has, and the writes of the earlier rounds were asked
for too. `Complete`: a line is with a client, in its loop or written as often as it should
be. `Leaving`: `client_threads` counts the clients that have not gone, and `main`'s last
request is queued after all others, so it is answered when nothing else is left.

*Print spooler.* `Safe == Types /\ Serving /\ Numbering /\ Owned /\ Kept /\ Placed`.
`Owned` ties the spool to the clients: a file belongs to a client of that number, what is
half written has no control file, and what is queued or in the printer's hands was spooled
whole by somebody of that number. `Kept` says what a client's files are like as its thread
goes on, `Placed` that an accepted job is queued once, or in one thread's hands, or was
given up. Both except jobs whose number was given twice (`Clash`); `Numbering` says that
this needs a restart, because in one run the numbers come in turn: it turns `Clash` into the
`Reissued` of the properties. Numbers also come round, and then a job still on the spool
could lose its files within one run; the theorems exclude it by the hypothesis that there
are no more senders than job numbers. The hypothesis is needed: with two senders and one
number TLC finds `AcceptedKept` violated. `build_qonstart` queues what `Owned` and `Kept`
say is on the spool, or enters it in `dropped` or `lost` in the same step in which an open or
a read fails, which is why a restart forgets nothing else. A job that is deleted stays in
`lost` for ever (`StepLost`), and one whose control file is gone while its data file is still
to be unlinked is in `lost` already.

*Database library.* `Intact == Base /\ Hands /\ \E chain, rank, succ : Linked(chain, rank, succ)`.
`Base` is the types and the locks: each lock is held by exactly the processes whose place in
the code says so (`Locked`), and writers exclude (`Excluded`). The lists are described by
three functions on places (a place is a record's number, or minus a chain's for its head)
that no step computes: `chain[i]` is the list a place is on, negative if none, `rank` orders a
list from its head down, `succ[i]` is the place that follows. `Lists` says that they are lists,
`Pointers` that the files hold them, except for the one pointer a deletion is about to change
(`Bypassed`): once the index record is blanked and points into the free list, its old
predecessor still points at it until `Unchain`. `Records` and `Distinct` say what is stored
on a list; `Hands` that a record that is on no list is in one process's hands, and so is a
data record no index record has yet. `At` is what a process knows where it is in a call.

Processes share all of this, so the proof is about who may change what. A step of `p` moves
places only of `p`'s own chain, of the free list if `p` has it locked, or the record in `p`'s
hands (`Mine`); everything else stays as it was (`Frame`), and what the other processes know
is about the rest (`Others`). A step that only reads and goes on is covered by
`Local`, one that takes or gives back a lock by `LocksChain` .. `LeavesEnd`; the others name
their new ghosts, for which `Pushed` and `Removed` show that they are lists again.

`ListsSound` and `SpaceAccounted` speak of the records that a recursive walk along the
pointers meets (`Trail`). `TrailOf` shows that these are exactly the records with
`chain[n] = b`, without the library's induction theorems. `Trail`'s function exists because its
values can be built step by step (`Iterates`), and stays on the list. If it never met a record
of the list, each place it meets would be above that one in rank, or there would be a first
that is not (`Least`: a set of naturals has a least element); so the ranks would fall with each
step, and `Len(idx) + 1` different places would fit into `Len(idx)` (`Reaches`).

`RecordsKeepSize` follows action by action from what `At` says of the record in hand.
`NextrecWhole` needs more than its lock suggests: the scan locks the free list, so nobody is
in a deletion between the blanking of the data and `Unchain` (`Freeing`). A record with a key
that the scan reads is therefore on a chain and has data, or is in the hands of a process that
has the chain locked and is about to link it (`HeldRecord`). That what it read is still so when
it reads the data is `Looks`.

For the refinement of `KVStore` a key's value is what its chain holds if nobody has it
locked for writing, and what it held before (`before`) otherwise. So a call takes effect at the
step that unlocks its chain (`Return`), in one step for all that it wrote. `Changes` says what
the writer has done to its chain so far, `Returns` that the answer fits the change, `Settled`
that no answer is the value that stands for a call in progress.

**Only model-checked**: the liveness properties (`Terminates`, `CallReturns`, `ProgramEnds`,
`DestroyReturns`, `AcceptedServed`, `ReturnsWhileCrewLasts`, `ResultReturns`, `AlarmsFire`,
`MainReturnsInTheEnd`, `EventuallyPrinted`), which TLAPS cannot treat here.

## 7. Not modelled

Callers that break the contract (unlocking what they do not own, a nested read lock, two
destroying threads at once), use of an object after its destroy has returned 0,
`malloc` failing in `engine_routine`, thread attributes, and everything that is only
printed. Weak memory plays no part where fields are protected by the mutex; the unlocked
reads of `valid` are single reads of one word. In `Db`, a process killed in the middle of
a call: its locks are released and nothing repairs the lists, so no property would hold of
the files it leaves; a file that grows past `PTR_MAX` (`db.c:575`, `db.c:623`) or a failing
system call, which end the process (`err_quit`, `err_dump`) the same way; and callers that break the
contract of section 2. In `Printd`, `SIGHUP` and the printer's address, the printer's protocol
beyond whether it took the job and whether its answer arrived, an `unlink` that fails, and the
number of open descriptors (an open may fail at any time instead). In `Pipe` and `Alarm`, requests
without memory (the process ends). In `Alarm`, an alarm for time 0: `current_alarm` is 0 when
the thread waits for any alarm, and an alarm's time is 0 until it is requested; in the program
that is the Epoch, so the request would have to ask for decades ago.

## 8. Plan

What is left, in order of what the code has most to lose:

1. `Susp` (`susp.c`): suspend and continue over signals, sentinel, array growth.
2. `RwlockMain` over `Rwlock`, `Backoff` (`backoff.c`, deadlock with and without
   back-off), `alarm_mutex.c` as a variant of `Alarm`.
3. `reread` of `printd.c`; a killed process in `Db`, to state what survives.
4. `sbuf.c` of *Computer Systems*, the semaphore programs and `cond.c`.
