# Formal models of the operating-systems exercises

The repository holds three unrelated programs: a green-thread library with
semaphores (`gthreads/`), two FAT16 drivers (`file_system/fuse`,
`file_system/pure_fat`) and a prefork HTTPS server (`http_server/`). This
directory holds TLA+ models of all three, the TLC runs that check them and
TLAPS proofs about the thread library, its test program, the FAT volume under its
FUSE handlers, and the server. Paths below are relative to the repository; `gthr.c:53` means line 53 of `gthreads/gthr.c`, `fat_fuse.c`
and `fuse/fat.c` are in `file_system/fuse`, `pure_fat/fat.c` in
`file_system/pure_fat`.

## 1. Inventory

| Component | State | Operations | Interacts with |
|---|---|---|---|
| Thread library, `gthr.c`, `gthr_switch.S` | `gt_table` (state, priority, original priority, starvation counter, tickets, context, metrics), `gt_current`, the scheduler in use and its static `round_robin_index`, `gt_semaphore_t` records | `gt_init`, `gt_create`, `gt_schedule` with three schedulers, `gt_sem_wait/post`, `gt_return`, `gt_stop`, `gt_switch`, `gt_print_stats` | its timer: SIGALRM calls `gt_schedule` on the running thread's stack |
| Producer-consumer, `semaphore_test.c` | ring of 2 cells, `buffer_in/out`, two semaphores | 2 producer and 2 consumer loops | the library, through semaphores and preemption |
| FAT16 volume, the helpers both `fat.c` share | FAT copies, root directory, data area | `get_fat_entry`, `read_directory`, `find_entry_by_name`, `change_dir` | called by the handlers and by the shell |
| FUSE handlers, `fat_fuse.c` | the volume, the global `current_dir_cluster` | getattr, readdir, open, read, create, write, mkdir, rmdir, unlink | the kernel's requests, several threads |
| Shell, `pure_fat/fat.c` | the volume, the current directory | cd, write, rm, cat/save (ls, tree, help only print) | standard input |
| HTTP server, `server.cpp` | dispatcher (`round_robin`, `client_socket`, `worker_pids`), workers, socket pairs, what forks copy, log queue, logger | accept, pass a descriptor, restart a worker, busy check; receive, handshake, read request and body, handle (upload, PHP, file), log | processes that block on each other, clients |

What is hard in each of them (the full list, with lines, is under `hazards` in
`PROJECT.json`):

* **Threads.** Order of wake-ups, wait rings that wrap and are never checked
  for room, starvation, a priority level that one of the two scheduler passes
  cannot see, time stamps that must be renewed on every path, and above all an
  alarm in the middle of a library call.
* **FAT.** Several disk writes per operation, reuse of clusters and slots over
  long sequences, a disk that fills up half-way, a kill between two writes, a
  global current directory that threads share.
* **Server.** A worker that dies between the dispatcher's test and its send, the
  one descriptor that must exist in one place only although `fork` copies it,
  restarts that fail half-way, the death of the dispatcher itself, blocking
  sends, a bounded log queue that everybody blocks on.

## 2. Modules

| Module | Models | Code |
|---|---|---|
| `Gthr` | the library between alarms; one action per call | `gthr.c`, `gthr.h` |
| `GthrStarvation` | how long a Ready thread waits, with the counters that threads take to sleep (EXTENDS `Gthr`) | `gthr.c` |
| `FifoSemaphore` | what a semaphore promises (abstract) | `gthr.h:32` |
| `Gthr_proofs` | theorems about `Gthr` and `GthrStarvation`: what the table, the rings and the schedulers keep, how long a thread waits, that `FifoSemaphore` is implemented | |
| `GthrMetrics` | the time accounting of every call, composed with `Gthr` (EXTENDS) | `gthr.c`, `gthr.h` |
| `GthrMetrics_proofs` | theorems about `GthrMetrics` | |
| `ProdCons` | the test program, composed with `Gthr` (EXTENDS) | `semaphore_test.c` |
| `ProdCons_proofs` | theorems about `ProdCons`, on top of those about `Gthr` | |
| `GthrPreempt` | the library statement by statement, alarms inside the calls, stacks and contexts | `gthr.c`, `gthr_switch.S` |
| `GthrPreempt_proofs` | theorems about `GthrPreempt` | |
| `FatDisk` | volume, reading helpers, the queue of disk writes | both `fat.c` |
| `FatDisk_proofs` | lemmas about `FatDisk`: queues of writes, chains, directory walks, what one write changes | |
| `FatFuse` | the FUSE handlers on `FatDisk`, kill and restart | `fat_fuse.c` |
| `FatFuse_proofs` | theorems about `FatFuse` | |
| `FileStore` | what a mounted volume promises (abstract) | |
| `FatShell` | the shell on `FatDisk` | `pure_fat/fat.c` |
| `FatShell_proofs` | theorems about `FatShell` | |
| `FatThreads` | the path prologue of the handlers in several threads | `fat_fuse.c`, `fuse/fat.c` |
| `HttpServer` | dispatcher, workers with their requests, logger, log queue, failed restarts and deaths | `server.cpp` |
| `HttpServer_proofs` | theorems about `HttpServer` | |
| `MC*` | values for TLC: sets of paths, inputs, views, bounds | |

### How state and actions correspond to the code

**`Gthr`.** One array of `gt_table` fields per variable, threads named by slot.
A library call is one action, with the whole `gt_schedule` inside it: the
operator `gt_schedule(st)` takes the states its caller has already changed
(`Blocked`, `Unused`) and does counters, priorities, choice and switch. The
schedulers are operators that return the *set* of threads they may pick: a
singleton for round robin and priority, every ticket holder for the lottery.
`round_robin_index` stands for the static of the scheduler in use (the scheduler
is chosen once, before `gt_init`). Clients are arbitrary: any created thread
may create, wait, post and return at any time. The initial thread only creates
threads and then calls `gt_return`, as in `main.c` and `semaphore_test.c`;
until its first `gt_schedule` the timer is not armed. A post without a waiter
is allowed only below `MaxValue`. `gt_sem_post` is executed by created threads
only. `gt_return` frees `ctx.rsp + 16` (`gthr.c:423`), which is not the address
`malloc` returned: undefined behaviour, modelled as the choice between
`FreeTraps` (the C library stops the program) and `WorkerReturn` (it does not
notice).

**`GthrStarvation`.** `gt_schedule` resets the starvation counter of the current
thread only while it is Running (`gthr.c:215`); a thread that blocks has left that
state and takes its counter to sleep. The module adds one history variable to
`Gthr`, `kept`, the largest counter any thread ever took to sleep, and states what
the schedulers promise in its terms. Nothing is cut away from the library: the bound
that makes the counters finite for TLC is in `MCGthrStarvation`.

**`GthrMetrics`.** `MNext` runs every action of `Gthr` together with what that
call does to the metrics. The totals are sums of differences of `gettimeofday`
stamps, hence additive in time: it is enough to follow one arbitrary *moment*
(`clock` goes from 0 to 1 when it comes) and ask what it is charged to. One
thread is watched, because no thread reads another's metrics. Two history variables
follow it. `spent` says what the watched thread was doing at the moment, in terms of the
table alone; the moment may also fall inside `gt_schedule`, between `switch_time`
and the new stamps, and then belongs to neither thread (`"switching"`). `period` says
what became of the period of running the moment fell in: still open, closed, or
ended in a wait that blocked. Neither is ever derived from the stamps. So
`RunningTimeIsCharged` can say that a moment is charged at most once and is missing in
the one case only, and `ExecTimeIsTotal`, which the code violates, that it never is.

**`ProdCons`.** `pc` names the statement a thread is at; semaphore calls are the
actions of `Gthr`, a wait that blocks leaves the thread past the call but
`Blocked`. The program counts items modulo the size, so a full ring counts 0:
"full" is never seen (`semaphore_test.c:71`) and producers overwrite. That is
modelled as it is.

**`GthrPreempt`.** A stack is a list of frames with the thread it was allocated
for; `cpu` is the stack in use, `ctx` the one saved in each thread's context. An
alarm pushes a frame that runs `gt_schedule` over whatever was interrupted.
`gt_switch` saves `cpu` in one context and goes on with another; a context whose
stack has run since it was saved is `Stale`, and going on from it ends the
program. `gt_current = p` and `gt_switch` are two steps. The updates of `value`,
`wait_count`, `head` and `tail` are a load and a store each, as the build without
optimisation makes them. An alarm may come before any statement. `SafePoints` are the
statements before which it does no harm, and the history variable `disturbed` says whether one
has come before any other statement: the properties with `UntilDisturbed` in their names
are about the program as it is, up to that alarm, and those without about everything
the program does.

**`FatDisk`, `FatFuse`, `FatShell`.** A handler is sequential and reads back what
it wrote, so the list of its disk writes is known when it starts: the action
computes it and queues it in `pending`; `Flush` performs one write
(`fseek`, `fwrite`, `fflush`), `Return` ends the handler. Every intermediate state is
one that a kill can leave on the image. Reading handlers are operators
(`getattr`, `read`, `readdir`, `open`). A name is a pair of the part an 8.3
entry can hold and the characters it cannot. File data are a few units per
cluster; `Junk` is a unit nobody wrote (stale disk or heap bytes). The
writes that initialise a new directory share one `fflush` and are one step.
After a kill the program starts again with what is on the image; as a half-made
entry may share its cluster with a later one, the model then goes on with the
files of `CrashPaths` only, and the promises that a kill breaks are stated up to
the first kill.
In the shell cat takes the first file that has the name it is given (`find_file`,
`pure_fat/fat.c:494-529`); write only looks for a free slot, so a file may stand behind
another of its name (`Shadowed`).
`FatFuse` omits `current_dir_cluster`: a lone handler always starts and ends in
the root, and `FatThreads` models what happens when it is not alone.

**`HttpServer`.** One program counter per process. `msgsnd`, `sendmsg` and
`accept` block. A connection is named by its order of arrival, in which
`accept` takes it. `Places` counts where its descriptor is. A restart is modelled
with its failures: `socketpair` fails (`server.cpp:484`; the old descriptor number
stays behind, `stale`), `fork` returns -1 and nobody looks (`worker_pids` is then
-1, and `waitpid(-1)` answers for any child, the logger included). The child of a
restart inherits `client_socket`, still open in the dispatcher, and the listening
socket (`inherited`): the connection in hand is then *stranded*, open in a process
that never looks at it. When the dispatcher is killed, `recvmsg` returns 0 in a
worker once nobody else holds a copy of main's end of its socket; main's ends are copied into the
workers forked later, so `forked_after` keeps, for each worker, the ones forked after it. A request is followed
through `handle_client` step by step; sizes are in units, `HeaderSize` of them are
headers and these are taken to arrive with the first `SSL_read`.

## 3. Runs

| Run | Question | Bounds |
|---|---|---|
| `gthr_two_sems` | Do table, rings and values agree? FIFO? Does round robin pass anybody over? Is time charged to the right account, once? | main + 3 threads, each watched in turn, two semaphores (1 and 0), round robin and lottery, tickets 0 (raised to 1) |
| `gthr_pri` | Are boosted threads found, is waiting bounded, does everybody run? | main + 2 threads, limit 1 instead of 10, priorities -1 (clamped) and 1; threads go to sleep with counters up to 3 |
| `prodcons` | Does the real program keep its critical section? | the real 4 threads, ring and semaphores |
| `preempt_safe` | Which alarms are harmless? Is a waiter lost when waits and posts overlap? | main + 3 threads with a handler on each; main + 2 threads, one of them with a handler inside a handler |
| `fuse` | Do the handlers implement a file store on a disk that fills? What is left of it after a kill? | 3 clusters, 2 root slots, 3 entries per directory, paths A, B, D, D/A, files of at most 2 clusters; 1 kill with the two files of the root in use |
| `shell` | Does cat give what write was given? | 4 clusters (one is the directory), 3 root slots, inputs of 0 to 4 units at 2 per cluster |
| `http` | Is any connection lost, held for ever or unanswered? What does each fault cost? | 2 workers, 6 connections, 2 deaths of workers, 1 failed restart, the dispatcher killed or not, socket pairs and log queue of capacity 1, logger running or gone, bodies of 0 to 2 units, reads of 1 |
| `preempt_mutex` | *violation*: one thread in the critical section | main + 2 threads, 2 handlers stacked |
| `metrics_exec` | *violation*: the execution time of a created thread is total | main + 2 threads, two semaphores |
| `shell_shared` | *violation*: rm frees another file's cluster | 5 clusters |
| `threads_restore` | *violation*: the current directory is not restored | 2 threads, 2 subdirectories |
| `http_body` | *violation*: an upload is read to its end | 1 connection, headers of 1 unit, body of at most 2, no faults |

Why the bounds are enough to be interesting:

* With four slots the ring of a semaphore wraps, three threads can wait on one
  semaphore, threads can wait on both, and slots are reused by `gt_create`.
* `STARVATION_LIMIT = 1` lets counters pass the limit within few switches. Only
  the constant changes, not the comparison. Two threads that keep waking each other
  can take ever larger counters to sleep, so `MCGthrStarvation` cuts the run where
  `kept` would pass `StaleBound`. It is 3 there, three times the limit: threads that are
  critical, block, come back ahead of the others and go on counting are what the run
  is about. No theorem uses the bound, and neither alarm nor main's loop raises `kept`,
  so it takes nothing from the fairness.
* The disks have fewer clusters than the paths could use, so every ENOSPC
  branch is taken, clusters and slots are reused, and files span two clusters.
* The ticket choices are one value: the lottery may pick every Ready thread
  with a ticket, so numbers above zero make no difference.
* One moment is enough for the metrics, because the totals are additive; two
  would only add their sums. `gthr_two_sems` does not watch main: a `gt_schedule`
  that finds nobody charges main's period without a new start stamp
  (`gthr.c:467-470`), so its total grows without bound while everybody else
  is blocked. `RunningTimeIsCharged` is about created threads.
* An alarm before a statement outside `SafePoints` ends what `preempt_safe`
  looks at (`Undisturbed`). That a waiter is lost takes three workers: one waits
  while two others wait and post. Two of them show every way a handler can run on
  top of another, so handlers inside handlers are left to the states in which the
  last worker has returned and the queue does not name it, on one thread at a time
  (`OneNests`). The theorems about `GthrPreempt` have none of these bounds.
* Without a logger the log queue of one message is full from then on,
  and every process blocks in `log_event`; six connections on two workers let
  the dispatcher block in `sendmsg` and meet a dead worker at each of its tests
  and at the send, and a second death can follow a failed restart.
* In `http` one death costs at most four connections (`SocketCapacity + 3`), a failure one
  more, and six arrive. A restart does not advance the round robin, so a worker that did not come back
  would lose the connection it died with and all of them from its next turn on: five of the six.
  A worker whose `fork` failed gets two connections within six arrivals: the one
  it dies with, the other worker's, the one at which the death is noticed and `fork` fails, then its own turn,
  the other's and its own again.
* `CrashPaths` bounds the kill in `fuse`: the volume then has the two files of the root only,
  and so have the calls after it. No theorem uses that bound.

Views (they change the fingerprint only). `ViewWithoutStarvation` drops starvation
counters and priorities, which without the priority scheduler no guard reads, and
ring slots that are rewritten before they are read. `ViewOfVolume`
drops cells of free clusters, which without kills no handler reads: an
allocation overwrites them or only reads up to the file's size.
After a kill `ViewOfVolume` also drops all data: there are no directories left
but the root, so cells decide nothing, and the properties that remain are about
the FAT and the root. The `shell` run is cut
(`NothingSpoilt`) after an rm of a file without an end mark: the properties
exclude those states.

`CHECK_DEADLOCK FALSE` is set for the server, which really stops when all
connections are through or when a dead logger leaves everybody in `msgsnd`, and
for `FatThreads`, whose one property is a counterexample.

### Fairness

* `GthrStarvation!FairSpec`: weak fairness of the alarm and of main's loop. Every
  `gt_schedule` re-arms the timer with `ualarm(500, 500)` (`gthr.c:551`), and
  `while (gt_schedule());` (`gthr.c:428`) does nothing else. Nothing is assumed of the
  clients: a thread that never waits, posts or returns is allowed, and
  `NoStarvation` holds all the same for the two deterministic schedulers.
* `HttpServer!FairSpec`: weak fairness of the logger, strong fairness of the
  dispatcher and of each worker. Strong, because a message queue or socket pair that
  is full again and again must not shut one sleeper out; the kernel wakes
  them in order. That a handshake and a request end is an assumption about
  clients: the server has no timeout. Deaths and arrivals are not fair.

### What the runs show

The library is right as long as alarms come between its calls: every wake goes
to the oldest waiter, no ring overflows, no Ready thread is invisible to
the scheduler, and main never exits with a runnable thread. Nobody starves, the
starved threads that block and come back included; how long one may wait depends on the
largest counter anybody came back with. Inside
the calls the library is wrong (`preempt_mutex`): README.md:14 of the repository says as much.
`preempt_safe` is the constructive counterpart: exclusion, waking, stacks, return and main's wait for
all are right as long
as alarms come before the statements of `SafePoints` only, and with any other statement
added to `SafePoints` one of the five fails (tried one by one; `post_test` and `post_count_store` need
four threads). `wait_count--` is on both sides: before its load an alarm is harmless, between
load and store it loses the waiter that a wait of another thread has counted meanwhile.
An alarm between `gt_current = p` and `gt_switch` breaks `OwnStack`: the old thread's
stack is saved in the context of the new one, whose own stack is lost.

The report of `gt_print_stats` is exact for waiting. For running it omits every period that
ends in a wait that blocks (`metrics_exec`) and counts all others of created threads once
(`RunningTimeIsCharged`).

The FUSE handlers implement `FileStore` without exception other than the one it
names: a write that ends in ENOSPC may spoil its own file's content. Between calls no cluster has
two owners, and clusters leak only in `write`, in exactly two ways
(`LeaksOnlyInWrite`). A kill leaves the copies of the FAT different in at most one
entry, and no name twice in the root. A name comes twice only when it is longer
than 8.3 (`UniqueNames`).

In the shell cat gives what was written under a name, unless an earlier file of the
directory has the name too: write does not look for it (`ReadsBack`, whose run writes names twice).

In the server every descriptor is in one place, a death of a worker costs at most
`SocketCapacity + 3` connections and a failed `socketpair` or restart one more; a worker
whose `fork` failed costs one connection in `MAX_WORKERS`, but for ever, because
`waitpid(-1)` makes it look alive. After the dispatcher's death one worker spins in
`recvmsg`, the others wait for an end of file that never comes, and everything that had
been sent to a worker is still answered.

### Disagreements between code and text

* `preempt_mutex`: `semaphore_test.c:18` "Binary semaphore for mutual exclusion".
* `metrics_exec`: `gthr.h:54` "Total execution time"; the period before a wait that blocks
  is in no total.
* `shell_shared`: `pure_fat/fat.c:793` "Delete a file from the FAT16 filesystem"; the missing end
  mark at `pure_fat/fat.c:717-757` makes rm free a second file.
* `threads_restore`: `fat_fuse.c:169` "Save current directory state to restore later".
* `http_body`: `server.cpp:253` "Read the remaining request body if Content-Length is
  larger than the initial buffer"; the loop counts the headers as body, stops
  early, and the reply is still "File uploaded successfully."

Seen in the models with properties of this kind, and left without a run of their own:

* `gthr.c:476` "Blocked threads should stay blocked until semaphore releases them": a
  `gt_schedule` interrupted after its choice marks that thread Running although it has gone to
  sleep since (`gthr.c:483`; `BlockedStays` without `~disturbed`).
* `gthr.c:487` "prepare pointers to context of current (will become old)": after an alarm between
  `gt_current = p` and `gt_switch` what is saved is not the current thread's stack (`OwnStack`).
* `gthr.c:428` "if initial thread, wait for other to terminate" and `gthr.c:425`
  `assert(!"reachable")`: after an alarm inside `gt_schedule` main may leave early and a
  thread that returned may run (`MainWaitsForAll`, `NeverAborted`).
* `gthr.h:54` "Total execution time": when a `gt_schedule` finds nobody it has charged main's period
  (`gthr.c:442`) and returns without a new start stamp (`469`), so the next one charges it again
  (`ExecTimeIsTotal` with `Watched = {0}`).
* `fat_fuse.c:493` "Check if file already exists", `506` "File already exists": the check compares the
  full name, the entry holds its 8.3 form (`558`), so two creates of a long name make two entries
  (`UniqueNames` without `LongForms`).
* `pure_fat/fat.c:883` "Print file contents", `886` "Write file from stdin to FAT16": a second
  write of a name makes a second file, and cat prints the first (`ReadsBack` without `Shadowed`).
* `server.cpp:498` "Check if all workers are busy": the loop asks whether they are dead, so a busy
  server queues the connection behind a worker instead of answering 503; README.md:13 admits that
  the redirect to that page is missing.

Met while modelling, with no text that says otherwise: a
kill between the directory entry and the end mark (`fat_fuse.c:580-595`)
cross-links two files later; `total_clusters` counts sectors that hold no clusters
(`fat_fuse.c:536`); the shell's `write /name` writes to the current directory; connections hang once the logger is gone and the
queue is full (`server.cpp:55`); the consumers of `semaphore_test.c` count their
index from 0 again (line 115) and so use the producers' parameters; the messages of
`gt_sem_wait` and `gt_sem_post` index `thread_params` by the slot (`gthr.c:62-68`),
which is one more than the index the thread was created with.

## 4. Proofs

Every theorem holds for all values of the constants that satisfy the named
assumptions of the module; TLC evaluates those in the runs of `MCGthrStarvation`, `MCGthrMetrics`,
`MCProdCons`, `MCGthrPreempt`, `MCFatFuse`, `MCFatShell` and `HttpServer`. `theorems` in `PROJECT.json` lists the results.

### The library

`Gthr_proofs` proves about `Spec` of `Gthr`, for any number of threads, any set of
semaphores and initial values, any client priorities and tickets, any subset of
the schedulers, and any bounds:

* `TypeCorrect`: `Spec => []TypeOK`.
* `Safety`: `Spec => []SafeInv`, and from it, one corollary per property the
  runs check: `CurrentIsRunning`, `RingsAreConsistent`,
  `BlockedThreadsAreQueued`, `AssertionHolds`, `MainKeepsRunning`.
* `EveryReadyThreadIsSeen`: `Spec => []NoReadyThreadInvisible`.

The assumptions are `SizesAssumption` (at least one slot, 0 is a
legal priority) and `ClientsAssumption` (constants have their types, a null
pointer is no thread).

None of the properties is inductive alone. A ring has room only because a queued thread
is Blocked and so not running, queued in no other ring, and not twice: this takes
`RingConsistent`, `BlockedIsQueued` and `RunningIsCurrent` together. That the
assertion of `gt_return` is not reached takes `MainNeverLost` and the fact that
the scheduler finds a thread whenever one is Ready. The lottery fails with no
tickets, so `SafeInv` adds `TicketsHeld` (a thread that is not Unused has a
ticket). The argument runs:

1. `SchedulerFinds`: each of the three searches returns a thread if one is
   Ready. For the cyclic searches this is a minimum of a set of naturals
   (`NatMin`, `LexicographicMin`); for the priority scheduler, a Ready
   thread is either above the limit, and then critical, or its boosted priority is in
   `MIN..MAX`; critical threads have a maximal counter because finitely many
   counters are bounded (`CountersBounded`).
2. `Enqueue`, `Dequeue`, `NoQueue`: what one wait or post does to a ring and to its set
   of waiters, on top of index arithmetic modulo the ring size (`ModWrap`, `WrapSum`,
   `NextSlotStep`) and a pigeonhole argument that there is room (`RoomForOne`).
3. `ScheduleEffect`: `gt_schedule` moves Running and leaves Blocked and Unused alone.
4. `SafeStep`: one case per action, one step per conjunct it can disturb.
5. `EveryReadyThreadIsSeen` adds `BoostedAreCritical` (a priority below the documented
   range comes with a counter above the limit), which holds of threads in every
   state: the thread that runs, blocks or is woken keeps both values, and
   `gt_schedule` resets or raises both together (`ScheduleKeepsBoost`).

The second part of `Gthr_proofs` says how late the schedulers may be:

* `WaitsAreBounded`: `StarvationSpec => []StarvationBounded`, about every behaviour of the
  library. A thread comes back from a semaphore with the counter it took there
  (`SleepersWithin`), so the bound starts from `Limit`, the larger of
  `STARVATION_LIMIT` and `kept`. The bound on one counter is not
  inductive: many threads may pass `Limit` at once. The invariant `QueueUp` (in `StarvationInv`)
  counts them: at most `MAX_G_THREADS - 1 - j` threads are `j` or more schedules past
  it, for every `j`. A schedule ages every such thread by one and serves a most overdue one,
  so the number that reach `j + 1` is one less than the number that had
  reached `j` (`ScheduleServes`, `ScheduleKeepsQueue`); a wake brings back a
  thread whose counter is at most `Limit` (`WakingKeepsQueue`), and when `kept` grows the bound
  grows with it (`QueueUpGrows`).
* `RoundRobinPassesNobody`: `Spec => RoundRobinProgress`, an action property: the
  search starts one slot after the thread it found last, so a Ready thread it did not take
  is nearer by at least one at each switch (`SearchCloser`).

Its last part is the refinement, `SemaphoresAreFifo`: `Spec => ImplementsFifo`.
`Contents` reads a ring off as the sequence of its waiters; `EnqueueAppends` and
`DequeueTakesHead` say what one wait and one post do to it, and then every action
maps to one of `FifoSemaphore` (`TakeAcquires`, `BlockSleeps`,
`PostWakesOrReleases`) or to a stutter (`OthersStutter`). `SafeInv` supplies that rings
have room and name Blocked threads.

`GthrMetrics_proofs` proves about `MSpec` of `GthrMetrics`, for any set of watched
threads as well (`WatchedAssumption`):

* `MeteringIsPassive`: `MSpec => Spec`, so all of the above holds with metrics.
* `WaitTimeIsExact` and `ExecTimeIsExact`: `MSpec => []WaitIsExact` and
  `MSpec => []RunningTimeIsCharged`.

The inductive invariant is `MetricsInv`: both totals exact but for a period that ended
Blocked, stamps in the past, and nothing charged before the moment; `OpenIsCurrent` ties the
history to the code, in that the moment's period is open exactly while the thread is Running with a start
stamp from before the moment. `ScheduleKeepsAccount` is the step through
`gt_schedule`, with the account its callers hand over; a blocking wait hands over
one that gave up the period, `gt_return` one it has charged itself. That a
Running created thread is never charged twice needs `SafeInv`: main is Ready
then, so `gt_schedule` finds somebody and the start is stamped again.

### The library interrupted by its timer

`GthrPreempt_proofs` proves about `Spec` of `GthrPreempt`, for any number of threads
and any number of alarms and of handlers stacked on one another, what `preempt_safe` checks
for four threads. `PreemptAssumption` gives the constants their
types; there is no other hypothesis. Alarms come anywhere; the theorems say which ones have
to come before anything goes wrong.

* `LibraryUntilDisturbed`: `Spec => []LibraryInv`, where `LibraryInv` is `PreemptInv` until
  `disturbed`, and from it `MutexExcludes` (`ExclusionUntilDisturbed`), `BlockedWaitForPosts`
  (`WakingUntilDisturbed`), `StacksAreTheirOwn` (`StacksUntilDisturbed`), `ReturnedStayOut`
  (`ReturnUntilDisturbed`) and `MainLeavesLast` (`MainUntilDisturbed`).

1. `StackInv` says what a stack looks like: at the bottom a statement of the client or
   of its call, above it interrupted `gt_schedule`s, at the top of a stack that is
   not in use `resumed` (or `user`, never run). A thread that does not run is thus
   at no statement of `Atomic`. `Replaces`, `CallsOver`, `Pushes`, `Pops` are the facts about
   sequences; `ClientMove`, `CallMove`, `ScheduleMove`, `AlarmMove`, `PopMove` and
   `SwitchMove` what each kind of step does to the stacks.
2. `SwitchInv` and `TableInv`: `gt_current` is ahead of the stack in use only between
   its assignment and `gt_switch`; the thread marked Running is the one `gt_schedule`
   has chosen.
3. `SyncOK` speaks of the semaphore alone, in terms of where each thread is (`pt`), what
   it holds (`lc`) and who is Blocked (`B`). `value` is 1 less the waiters, the
   holder and the thread about to wait; the ring holds the sleepers, but for the one a
   post has taken out and not yet woken (`HandedOver`), and `wait_count` and
   `tail` are behind by at most one at the statements between their updates (`Queued`). A thread
   that has loaded `head`, `tail` or `wait_count` counts as being before the load, because what it
   loaded is what is there until it stores (`LoadedInv`): at most statements nobody can come between
   (`Atomic`), and `head` is moved by one post at a time (`OnePoster`).
   There is one lemma per statement (`StoreDecremented`, `Enqueues`, `TailAdvances`, `CountsOut`, `Wakes`,
   ...); that the ring has room is again a pigeonhole argument (`RoomInRing`).
4. The two meet in one lemma per action (`WaitStoreKeeps`, ..., `SwitchKeeps`); `AlarmKeeps` is the one
   that asks for a statement of `SafePoints`, and `AlarmDisturbs` says that any other alarm is on record.
   `OthersReturned` gives `MainWaitsForAll`: with nobody Ready, a Blocked thread would need
   somebody who holds the mutex and sleeps nowhere.

### The program

`ProdCons_proofs` proves about `PCSpec`, for any number of threads, any split
into producers and consumers, any buffer size and any scheduler. `ProgramAssumption`
says what `main` sets up: two different semaphores with one permit each, at least one
slot besides main's (`gthr.h:16`), at least one cell.

* `ProgramIsAClient`: `PCSpec => Spec`, so `SafeInv` holds of the program.
* `Synchronised`: `PCSpec => [](SafeInv /\ SyncInv)`, and from it `OneThreadInside`
  (`MutualExclusion`), `NobodyWaitsForItems` (`InnerNeverBlocks`) and
  `TheProgramGoesOn` (`NeverExits`).
* `ItemsAreThere`: `PCSpec => []CountedItemIsThere`.

`SyncInv` relates the values of the semaphores to the program counters: `mutex` is 1
exactly when nobody is inside, and never more; `items_count` is 1 exactly when the
thread inside is not counting. Mutual exclusion alone is not inductive: a post of
`mutex` hands the section over to the oldest waiter, and that this is a Blocked thread at its
`gt_sem_wait` and not one somewhere else takes the library's ring invariants and
`ThreadsInv` (a thread blocks on nothing but `mutex`). `NeverExits` follows by
counting waiters: somebody who is not Blocked is left, because a negative
`mutex` has an owner (`SomebodyIsReady`). For the buffer, `BufferInv` says which cells
hold items nobody has read, in the window between the two indices and through the two statements that read or write a cell
and move its index; it holds although the producer overwrites a ring it takes for empty.

### The FAT volume under FUSE

`FatFuse_proofs`, on top of `FatDisk_proofs`, proves about `Spec` of `FatFuse`, for any
geometry of the volume, any set of paths, data and offsets, any sequence of
calls and any number of kills:

* `Mirrors`: `Spec => []MirrorsAgree`.
* `Sharing`: `Spec => []NoSharing`.
* `Dangling`: `Spec => []NoDangling`.
* `Implements`: `ShortNames => (Spec => ImplementsFileStore)`, the refinement of `FileStore`.
* `Survival`: `ShortNames => (Spec => []OthersSurvive)`.
* `Uniqueness`: `Spec => []UniqueNames`.
* `Leaks`: `ShortNames => (Spec => LeaksOnlyInWrite)`, an action property.

`Geometry` says what numbers a boot sector may hold (a directory cluster has room for "." and
".."); `CellsDiffer` that a unit of data is not a directory entry; `CallsAssumption` what
the kernel passes to a handler: no empty path, no "." or ".." in it, no write of
nothing.

1. *The queue.* A handler queues all its writes when it starts, so an invariant must
   speak of disks that are still to come. `After(u, x)` is disk `u` with one write `x` done.
   `Runs(q, u, w, P)` says that the queue `q` takes disk `u` to `w` and that
   all disks on the way, those a kill could leave, are in `P`. `RunsAppend`,
   `RunsFreeing` and the other `Runs` lemmas are about the queues the handlers build;
   `Tame(P, Q, C, S)` lists what single writes must do so that every queue
   over the clusters `C` and the slots `S` stays in `P` and ends in `Q`. `Running(w, P)`
   says it of `pending`. `EntryRuns`, `RemovalRuns`, `WriteRuns` apply that to the handlers, so every
   property below needs only facts about one write.
2. `MirrorInv`: the queue ends in a disk where the copies of the FAT differ at no more
   clusters than there were kills, and passes only disks with one more. It needs nothing
   of the chains, but that all the copies of one cluster are written in a row.
3. `Good(u, DS, path)` says what a sound volume is. `DS` is the set of directories,
   `path` gives each entry its chain as a sequence of clusters; the chains are paths
   in the first copy of the FAT that end in `0xFFFF` (`OnPath`), no two share a cluster (`Apart`), every directory is
   one cluster and belongs to an entry. That the recursive `Chain` visits exactly the
   path is `ChainIsPath`, by induction on its length.
4. `SoundInv`: until the first kill the queue of writes ends in a `Good` disk. `GoodAdd`,
   `GoodRemove` and `GoodReplace` say how it stays so: a new entry takes a path of clusters no
   other has, a removed one takes its own away. A directory is removed only
   when no slot of its cluster is in use (`EmptyIsBarren`, from the loop of
   rmdir), and a new one is cleared before its entry is written. For write,
   `FillsSound` follows the allocation loop, which takes the lowest free clusters, those of
   the old chain among them (`LowestFirstIs`, `Takes`, `Refilled`). When they run out the entry still
   names its old first cluster; the loop has taken that one by then, so the file's chain
   is the rest of the new one from there (`Spoilt`) and what comes before has leaked.
5. `GoodIsSound` reads the two properties off a `Good` disk.
6. *The refinement.* `Named(u, DS, D, at)` says which paths `D` a volume has and `at`
   gives each one its slot: the slot has the last name of the path and the directories before
   it lead there (`Leads`); no two paths have one slot and every live slot has a path.
   `Views(u, D, at, path, V)` says what these paths hold: the cells of a
   file's chain are its data (`Stores`). The clusters of the chain ascend: the allocation
   loop frees the old chain and takes the lowest free clusters, and only so does it read
   a cluster of the old chain before it overwrites it. `StoredIs` shows that
   `view` is then `Stored`, what getattr, readdir and read return.
7. `StoreInv`: between calls the disk is a `Good`, `Named` volume with the files of `view`
   (`Settled`); while a handler runs, its queue leads to such a volume, whose files differ from
   `view` as `FileStore` allows for the reply that is queued last
   (`Leading`, `Answers`, `Ends`). `HandlersAnswer` proves that of every
   handler at its start, case by case of its refusals; `LeadingReturn` that
   the return of the handler is then a step of `FileStore`, `StoreNext` that
   every other step is a stutter. The refinement mapping hides the reply after a
   kill, so the theorem ends there.
   `ShortNames` (every name of `Paths` fits 8.3) is needed: `format_to_fat_name`
   (`fat.c:53`) stores a longer name cut off and no lookup of the full name finds
   it. The `fuse` run uses such names only. `Uniqueness` has no such hypothesis: its
   property says which names may come twice.
8. *In the middle of a handler* no volume is `Named`. `Framed(w, C, r, n, u)` compares the
   disk `u` there with the disk `w` the handler started from: outside the free clusters
   and the handler's own chain (`OwnClusters`) all links and cells are those of `w`, and of the
   slots only one of the parent directory (`OwnSlot`) may differ, where an entry with the last name of the path
   may come or go. `FrameTame` says that every write a handler can queue stays in that frame, so all the
   disks on the way do (`HandlersSpare`); `FrameOthers` that on each of them the lookup of
   any path that is neither the handler's own nor below it still leads to its slot (`Works`,
   `FrameFinds`), past the one slot that may have changed, and that its chain and cells are the
   old ones (`FrameKeeps`). `SurvivalInv` is
   `StoreInv` with that frame for the handler that runs (`Sparing`).
9. *Names.* `LongForms` are the names that were cut to 8.3. `NamedOnce`, part of `SoundInv`, says that two
   entries of one directory of a `Good` disk have different names or one of those. A handler adds a name only if the lookup
   of it found nothing: a name that was not cut is then in no entry (`NameLookedUp`, `NameIsNew`,
   `AddedOnce`); removing or rewriting an entry adds none (`KeptOnce`, `RewrittenOnce`). After a kill chains may cross and a
   directory's cluster may be another file's, so nothing is said of the subdirectories. The root directory lies in an area of its
   own that only the write of a slot changes. `RootInv` holds for any number of kills: the queue of the handler that runs stays among the volumes
   `OnceRoot(i, n)`, whose root has no name twice but a cut one and the name `n` in slot `i` only (`Alone`).
   `RootAlone` finds that slot and name for every handler and says that it writes no other slot of the root
   (`RootSlots`, as an instance of `WritesSlots`); `RootTame` that such writes stay in `OnceRoot(i, n)`, wherever
   a kill comes.
10. *Clusters that leak.* `Waste(u, DS, path)` are the clusters that are marked in the first copy of the FAT and on no
   path of a `Good` disk. `Settled` says that `leaked` is this set between calls, and `Outcome` what the running
   handler's call may make of it (`Wastes`). Each handler keeps books on what it marks and what it frees
   (`Books`): create and mkdir mark the one cluster of their entry, rmdir and unlink free exactly the
   path of theirs, so the waste stays (`WasteAdd`, `WasteRemove`); write gives its file another path, and
   adds to the waste the old one if it did not free it, or what the loop linked before the disk was full (`WasteChain`). That the two definitions agree (`LeakedIs`) needs the
   recursion of `LiveDirs` to reach every directory (`LiveDirsAll`): the directories along a path are different
   clusters, so none is deeper than there are clusters (`NamedDepth`, a pigeonhole argument), and slots are
   numbered up to the size of a cluster (`Sized`). `Return` is the only step that changes `leaked`
   before a kill (`ReturnFinds`).

### The shell

`FatShell_proofs`, also on top of `FatDisk_proofs`, proves about `Spec` of `FatShell`, for
any geometry of the volume, any arguments of cd, write and rm and any inputs:

* `ReadsBackAlways`: `Spec => []ReadsBack`.
* `ChainsAreDisjointAlways`: `Spec => []ChainsAreDisjoint`.
* `InterruptedAlways`: `Spec => []InterruptedWriteHarmless`.

`ShellAssumption` says what the commands are given: names that are in `Names`, no file called
"." or "..", units to write; and that the image has the cluster 2 its one directory lies in.

1. `Kept(u, path, I, U)` says what a disk is like between the commands. Each file `r`
   lies on `path[r]`, a sequence of clusters linked in the first copy of the FAT
   whose cells hold the input `I[r]` (`Holds`); the paths are `Apart`. The path
   stops before the cluster that a file in `U` leaves unmarked: that one is free, and
   may be the first of another file's path. So reading stays sound where the chains
   overlap, and `ReadsBack` needs no `unmarked = {}`. `HoldsReads` reads the input off the
   cells of the chain (`CellsStart`, by induction on the path).
2. `ShellInv`: until a file without an end has been removed, the queue leads to a disk that
   is `Kept` and holds the files of `input` (`Arrives`). While write runs, every disk on the way
   is `Harmless`: it keeps the files that are there (`Track`).
3. `WriteArrives`: the loop of write fills free clusters, which are on no path
   (`RoundsRun`, one round per cluster; `ClosingRuns`, the last one, in three cases: full
   disk, nothing left, a short rest), after which the first of them hold the input (`FillRuns`,
   `StoredHolds`); the entry comes last (`KeptAdd`).
4. `RmArrives`: rm of a file with an end frees exactly its path (`KeptRemove`).
5. `FoundUnlessShadowed`: cat's two searches for a name (`FoundFile`) end at the entry that was
   written under it, unless an earlier file of the directory has the same 8.3 form.

### The server

`HttpServer_proofs` proves about `Spec` of `HttpServer`, for any number of workers,
connections, deaths and failed restarts, any capacities and sizes
(`ServerAssumption`):

* `DescriptorsAreHeld`: `Spec => []HoldInv`, and from it `OpenConnectionsAreHeldOnce`
  (`HeldOnce`).
* `AtMostOneSpins`: `Spec => []OneSpins`.
* `DeathsCostABoundedNumber`: `Spec => []DropsAreBounded`.
* `FailedForkCostsItsShare`: `Spec => []UndeliveredIsAShare`.

1. `HoldInv` names the four places a descriptor can be in (main's hand, a socket
   pair, a worker that serves it, a worker that inherited it) and says that
   what became of a connection tells its place (`PlacesInv`), that
   no two workers, no two cells of a queue have the same one (`UniqueInv`), and that
   a worker that does not run holds none (`WorkersInv`). There is one lemma per action
   (`SendHolds`, `RestartHolds`, `DieHolds`, ...).
2. `OneSpins` needs `ForksInv`: of two workers one was forked after the other, and a
   spinning worker has seen everybody forked after it gone.
3. `DropsAreBounded` is a potential argument. A death takes away at most the
   `SocketCapacity + 1` connections it finds (`InFlight`), but costs more later: the
   connection that the next restart strands, and one that main had already tested
   the worker for. `DropInv` counts those in advance (`Owed`), so each step that loses a connection pays
   with a worker that runs again or with the end of `PassedTooLate`. The
   property is stated while the dispatcher lives: its death drops whatever it left in the backlog.
4. `UndeliveredIsAShare` needs the order of arrival (`OrderInv`), that at most one
   worker is unforked after one failure, and how many turns of round robin have passed since its
   last one (`ShareInv`, `TurnsSince`).

### Only model-checked

Liveness (`NoStarvation`, `ConnectionsEnd`): out of the prover's reach.

## 5. Not modelled

The demo `gthreads/main.c` (its scheduling is `Gthr` without semaphores); of the metrics
the extremes, averages and variances; FUSE start-up, the dead code of
`fuse/fat.c`, dates and byte offsets, malloc failures, directories that span
clusters, the shared position of `fs.fp`; ls, tree and help of the shell; of the
HTTP requests the parsing, the files read, run or stored and the text of the
answers; TLS set-up. `components` in `PROJECT.json` gives the reason for each.

## 6. Plan

Done in this order: `Gthr` with its proofs, `FifoSemaphore`, `ProdCons`,
`GthrPreempt`, `FatDisk`, `FatFuse` with `FileStore`, `FatShell`, `HttpServer`,
`FatThreads`; then the faults of `HttpServer` (failed restarts, the end of the
dispatcher) and its requests, the contexts of `GthrPreempt`, the kill inside the full
`fuse` run, `GthrMetrics` with its proofs; the proofs about scheduling, FIFO order,
`ProdCons`, `GthrPreempt`, `HttpServer`, the FAT volume and the shell.

To extend:

1. `FatThreads`: the shared position of `fs.fp` (seek and transfer of two
   threads), with a mutating handler.
2. `FatFuse`: directories of several clusters, partial allocation failures.
3. `GthrPreempt`: two semaphores, and `gt_create` by a preempted thread.
