-------------------------------- MODULE Gthr --------------------------------
(***************************************************************************)
(* The green-thread library of src/gthreads/gthr.c: the thread table, the  *)
(* three schedulers, thread creation and exit, and the counting            *)
(* semaphores.  A library call runs to completion here; the alarm is       *)
(* delivered between calls (GthrPreempt opens the calls up).               *)
(*                                                                         *)
(* The clients are arbitrary threads that may create threads, wait, post   *)
(* and return in any order.  As in main.c and semaphore_test.c, the        *)
(* initial thread only creates threads and then calls gt_return.           *)
(***************************************************************************)
EXTENDS Naturals, Integers, FiniteSets

CONSTANTS
    MAX_G_THREADS,     \* slots of gt_table
    MIN_PRIORITY,      \* highest priority
    MAX_PRIORITY,      \* lowest priority
    STARVATION_LIMIT,  \* the literal 10 of priority_schedule
    TicketChoices,     \* values of data->tickets the clients pass
    PriorityChoices,   \* values of data->priority the clients pass
    Sems,              \* the semaphores of the program
    InitialValue,      \* initial_value of each semaphore, a function of Sems
    NoThread,          \* a NULL entry of wait_queue
    Schedulers,        \* the schedulers gt_set_scheduler may be given
    MaxValue           \* bound: a semaphore is posted only below this value

Threads == 0 .. MAX_G_THREADS - 1
Main == 0
MAX_BLOCKED_THREADS == MAX_G_THREADS
Slots == 0 .. MAX_BLOCKED_THREADS - 1
AllSchedulers == {"RR", "PRI", "LS"}

ASSUME SizesAssumption ==
    /\ MAX_G_THREADS \in Nat \ {0}
    /\ STARVATION_LIMIT \in Nat
    /\ MIN_PRIORITY \in Int /\ MAX_PRIORITY \in Int
    /\ MIN_PRIORITY <= MAX_PRIORITY
    /\ 0 \in MIN_PRIORITY .. MAX_PRIORITY

ASSUME ClientsAssumption ==
    /\ TicketChoices \subseteq Int
    /\ PriorityChoices \subseteq Int
    /\ InitialValue \in [Sems -> Nat]
    /\ NoThread \notin Threads
    /\ Schedulers \subseteq AllSchedulers
    /\ MaxValue \in Int

VARIABLES
    state,                 \* gt_table[t].state
    priority,              \* gt_table[t].priority
    original_priority,     \* gt_table[t].original_priority
    starvation_count,      \* gt_table[t].starvation_count
    tickets,               \* gt_table[t].tickets
    gt_current,            \* index of the thread gt_current points to
    gt_current_scheduler,  \* set once, before gt_init
    round_robin_index,     \* the static index of the scheduler in use
    sem,                   \* the gt_semaphore_t records
    phase                  \* "create", "wait", "exited": what main is doing;
                           \* "aborted": assert(!"reachable") was reached;
                           \* "crashed": free stopped the program

table == <<priority, original_priority, starvation_count, tickets>>
vars == <<state, table, gt_current, gt_current_scheduler, round_robin_index,
          sem, phase>>

-----------------------------------------------------------------------------
(* Static zeros of gt_table, gt_set_scheduler, gt_init and gt_sem_init.    *)

gt_sem_init(initial_value) ==
    [value |-> initial_value, wait_count |-> 0, head |-> 0, tail |-> 0,
     wait_queue |-> [i \in Slots |-> NoThread]]

gt_init ==
    /\ gt_current = Main
    /\ state = [t \in Threads |-> IF t = Main THEN "Running" ELSE "Unused"]
    /\ tickets = [t \in Threads |-> IF t = Main THEN 1 ELSE 0]

Init ==
    /\ gt_current_scheduler \in Schedulers
    /\ gt_init
    /\ priority = [t \in Threads |-> 0]
    /\ original_priority = [t \in Threads |-> 0]
    /\ starvation_count = [t \in Threads |-> 0]
    /\ round_robin_index = 0
    /\ sem = [s \in Sems |-> gt_sem_init(InitialValue[s])]
    /\ phase = "create"

-----------------------------------------------------------------------------
(* The schedulers.  st, sc and pr are the states, starvation counters and  *)
(* priorities the scheduler reads; each operator is the set of threads it  *)
(* may return, empty for NULL.                                             *)

ReadyIn(st) == {t \in Threads : st[t] = "Ready"}

(* Iteration of the cyclic search at which slot t is looked at.            *)
SearchStep(t) ==
    IF t > round_robin_index THEN t - round_robin_index - 1
                             ELSE t - round_robin_index - 1 + MAX_G_THREADS

(* Mutants: the search starts at slot 0, the search does not wrap around.  *)
SearchFromZero(st) == {t \in ReadyIn(st) : \A u \in ReadyIn(st) : t <= u}
SearchWithoutWrap(st) ==
    {t \in ReadyIn(st) :
        /\ t > round_robin_index
        /\ \A u \in ReadyIn(st) : u > round_robin_index => t <= u}

round_robin_schedule(st) ==
    {t \in ReadyIn(st) : \A u \in ReadyIn(st) : SearchStep(t) <= SearchStep(u)}

Critical(st, sc) == {t \in ReadyIn(st) : sc[t] > STARVATION_LIMIT}

MostStarved(st, sc) ==
    {t \in Critical(st, sc) : \A u \in Critical(st, sc) :
        sc[u] < sc[t] \/ (sc[u] = sc[t] /\ t <= u)}

Eligible(st, pr) == {t \in ReadyIn(st) : pr[t] \in MIN_PRIORITY .. MAX_PRIORITY}

BestPriority(st, pr) ==
    {t \in Eligible(st, pr) : \A u \in Eligible(st, pr) :
        pr[t] < pr[u] \/ (pr[t] = pr[u] /\ SearchStep(t) <= SearchStep(u))}

priority_schedule(st, sc, pr) ==
    IF Critical(st, sc) # {} THEN MostStarved(st, sc) ELSE BestPriority(st, pr)

lottery_schedule(st) == {t \in ReadyIn(st) : tickets[t] > 0}

Picks(st, sc, pr) ==
    IF gt_current_scheduler = "RR" THEN round_robin_schedule(st)
    ELSE IF gt_current_scheduler = "PRI" THEN priority_schedule(st, sc, pr)
    ELSE lottery_schedule(st)

(* Mutant: the counter of the running thread is not reset.                 *)
StarvationWithoutReset(st) ==
    [t \in Threads |-> starvation_count[t] + IF st[t] = "Ready" THEN 1 ELSE 0]

(* update_starvation_counters: the counters, then the priorities.          *)
StarvationUpdate(st) ==
    [t \in Threads |->
        IF st[t] = "Ready" THEN starvation_count[t] + 1
        ELSE IF t = gt_current /\ st[t] = "Running" THEN 0
        ELSE starvation_count[t]]

(* Mutant: no floor under the gradual boost.                               *)
BoostWithoutFloor(t, count) ==
    IF count > STARVATION_LIMIT THEN MIN_PRIORITY - 1
    ELSE original_priority[t] - count

BoostedPriority(t, count) ==
    IF count > STARVATION_LIMIT THEN MIN_PRIORITY - 1
    ELSE IF original_priority[t] - count < MIN_PRIORITY THEN MIN_PRIORITY
    ELSE original_priority[t] - count

PriorityUpdate(st, sc) ==
    IF gt_current_scheduler # "PRI" THEN priority ELSE
    [t \in Threads |->
        IF st[t] = "Ready" THEN BoostedPriority(t, sc[t])
        ELSE IF t = gt_current /\ st[t] = "Running" THEN original_priority[t]
        ELSE priority[t]]

(* Mutants: the current thread is not parked; it becomes Ready although it *)
(* is Blocked.                                                             *)
SwitchWithoutParking(p, st) ==
    /\ state' = [st EXCEPT ![p] = "Running"]
    /\ gt_current' = p
SwitchWakesBlocked(p, st) ==
    /\ state' = [st EXCEPT
            ![gt_current] = IF @ = "Unused" THEN @ ELSE "Ready",
            ![p] = "Running"]
    /\ gt_current' = p

(* The switch to p at the end of gt_schedule: a Blocked or Unused current  *)
(* thread keeps its state.                                                 *)
SwitchTo(p, st) ==
    /\ state' = [st EXCEPT
            ![gt_current] = IF @ \in {"Unused", "Blocked"} THEN @ ELSE "Ready",
            ![p] = "Running"]
    /\ gt_current' = p

(* gt_schedule called in states st.  When nobody is Ready it returns false *)
(* and the caller goes on running; returned is that result.                *)
ScheduleFinds(st) ==
    LET sc == StarvationUpdate(st)
    IN  Picks(st, sc, PriorityUpdate(st, sc)) # {}

gt_schedule(st) ==
    LET sc == StarvationUpdate(st)
        pr == PriorityUpdate(st, sc)
        picks == Picks(st, sc, pr)
    IN  /\ starvation_count' = sc
        /\ priority' = pr
        /\ \/ \E p \in picks :
                /\ SwitchTo(p, st)
                /\ round_robin_index' =
                     IF \/ gt_current_scheduler = "RR"
                        \/ gt_current_scheduler = "PRI" /\ Critical(st, sc) = {}
                     THEN p ELSE round_robin_index
           \/ /\ picks = {}
              /\ state' = st
              /\ UNCHANGED <<gt_current, round_robin_index>>
        /\ UNCHANGED <<original_priority, tickets, gt_current_scheduler>>

-----------------------------------------------------------------------------
(* The operations of the running thread.                                   *)

Active == phase \in {"create", "wait"}
WorkerRuns == Active /\ gt_current # Main
MayCreate == phase = "create" \/ WorkerRuns

(* Mutant: only one side is checked.                                       *)
ClampedAbove(p) == IF p > MAX_PRIORITY THEN MAX_PRIORITY ELSE p

ClampedPriority(p) ==
    IF p < MIN_PRIORITY THEN MIN_PRIORITY
    ELSE IF p > MAX_PRIORITY THEN MAX_PRIORITY ELSE p

FreeSlots == {t \in Threads : state[t] = "Unused"}

(* gt_create with a slot left: the first Unused one is taken.  With none   *)
(* it returns -1 and changes nothing.                                      *)
gt_create ==
    /\ MayCreate
    /\ \E t \in FreeSlots, p \in PriorityChoices, k \in TicketChoices :
        /\ \A u \in FreeSlots : t <= u
        /\ state' = [state EXCEPT ![t] = "Ready"]
        /\ priority' = [priority EXCEPT ![t] = ClampedPriority(p)]
        /\ original_priority' = [original_priority EXCEPT ![t] = ClampedPriority(p)]
        /\ starvation_count' = [starvation_count EXCEPT ![t] = 0]
        /\ tickets' = [tickets EXCEPT ![t] = IF k > 0 THEN k ELSE 1]
    /\ UNCHANGED <<gt_current, gt_current_scheduler, round_robin_index, sem, phase>>

(* SIGALRM.  The timer is armed by the first gt_schedule, so main is not   *)
(* preempted while it creates the threads.                                 *)
gt_alarm_handle ==
    /\ phase = "wait"
    /\ gt_schedule(state)
    /\ UNCHANGED <<sem, phase>>

(* Mutant: the ring wraps one slot early.                                  *)
NextSlotEarly(i) == (i + 1) % (MAX_BLOCKED_THREADS - 1)

NextSlot(i) == (i + 1) % MAX_BLOCKED_THREADS

(* Mutant: value >= 0 before the decrement is taken for a permit.          *)
SemTakeOffByOne(s) ==
    /\ WorkerRuns
    /\ sem[s].value >= 0
    /\ sem' = [sem EXCEPT ![s].value = @ - 1]
    /\ UNCHANGED <<state, table, gt_current, gt_current_scheduler,
                   round_robin_index, phase>>

(* gt_sem_wait that finds a positive value.                                *)
SemTake(s) ==
    /\ WorkerRuns
    /\ sem[s].value > 0
    /\ sem' = [sem EXCEPT ![s].value = @ - 1]
    /\ UNCHANGED <<state, table, gt_current, gt_current_scheduler,
                   round_robin_index, phase>>

(* gt_sem_wait that blocks: enqueue at tail, become Blocked, gt_schedule.  *)
SemBlock(s) ==
    /\ WorkerRuns
    /\ sem[s].value <= 0
    /\ sem' = [sem EXCEPT ![s].value = @ - 1,
                          ![s].wait_queue = [@ EXCEPT ![sem[s].tail] = gt_current],
                          ![s].tail = NextSlot(@),
                          ![s].wait_count = @ + 1]
    /\ gt_schedule([state EXCEPT ![gt_current] = "Blocked"])
    /\ UNCHANGED phase

gt_sem_wait(s) == SemTake(s) \/ SemBlock(s)

(* Mutant: the thread queued last is woken first.                          *)
PostWakesNewest(s) ==
    LET newest == (sem[s].tail + MAX_BLOCKED_THREADS - 1) % MAX_BLOCKED_THREADS
    IN  /\ WorkerRuns
        /\ sem[s].value < MaxValue
        /\ IF sem[s].value + 1 <= 0 /\ sem[s].wait_count > 0
           THEN /\ state' = [state EXCEPT ![sem[s].wait_queue[newest]] = "Ready"]
                /\ sem' = [sem EXCEPT ![s].value = @ + 1,
                                      ![s].tail = newest,
                                      ![s].wait_count = @ - 1]
           ELSE /\ sem' = [sem EXCEPT ![s].value = @ + 1]
                /\ UNCHANGED state
        /\ UNCHANGED <<table, gt_current, gt_current_scheduler,
                       round_robin_index, phase>>

(* gt_sem_post: the thread at head, if any waits, becomes Ready; the       *)
(* poster keeps the processor.                                             *)
gt_sem_post(s) ==
    /\ WorkerRuns
    /\ sem[s].value < MaxValue
    /\ IF sem[s].value + 1 <= 0 /\ sem[s].wait_count > 0
       THEN /\ state' = [state EXCEPT ![sem[s].wait_queue[sem[s].head]] = "Ready"]
            /\ sem' = [sem EXCEPT ![s].value = @ + 1,
                                  ![s].head = NextSlot(@),
                                  ![s].wait_count = @ - 1]
       ELSE /\ sem' = [sem EXCEPT ![s].value = @ + 1]
            /\ UNCHANGED state
    /\ UNCHANGED <<table, gt_current, gt_current_scheduler,
                   round_robin_index, phase>>

(* gt_return (or gt_stop) of a created thread.  Should gt_schedule come    *)
(* back, the assertion after it fails.                                     *)
WorkerReturn ==
    LET st == [state EXCEPT ![gt_current] = "Unused"]
    IN  /\ WorkerRuns
        /\ gt_schedule(st)
        /\ phase' = IF ScheduleFinds(st) THEN phase ELSE "aborted"
        /\ UNCHANGED sem

(* Mutant: the first gt_schedule that returns is taken for the last one.   *)
MainReturnsOnce ==
    /\ Active /\ gt_current = Main
    /\ gt_schedule(state)
    /\ phase' = IF ScheduleFinds(state) /\ phase = "create" THEN "wait"
                                                           ELSE "exited"
    /\ UNCHANGED sem

(* while (gt_schedule()); exit(ret);  one turn of the loop.                *)
MainReturn ==
    /\ Active /\ gt_current = Main
    /\ gt_schedule(state)
    /\ phase' = IF ScheduleFinds(state) THEN "wait" ELSE "exited"
    /\ UNCHANGED sem

(* gt_return frees ctx.rsp + 16, an address inside or just past the block  *)
(* malloc returned for the stack, never its start: undefined, and a C      *)
(* library that notices stops the program.  WorkerReturn is the outcome of *)
(* one that does not.                                                      *)
FreeTraps ==
    /\ WorkerRuns
    /\ phase' = "crashed"
    /\ UNCHANGED <<state, table, gt_current, gt_current_scheduler,
                   round_robin_index, sem>>

gt_return == WorkerReturn \/ FreeTraps \/ MainReturn

Stopped == ~Active /\ UNCHANGED vars

Next ==
    \/ gt_create
    \/ gt_alarm_handle
    \/ \E s \in Sems : gt_sem_wait(s) \/ gt_sem_post(s)
    \/ gt_return
    \/ Stopped

Spec == Init /\ [][Next]_vars

-----------------------------------------------------------------------------
(* Every variable keeps its range: a queue entry is a thread or NULL, the  *)
(* ring indices stay inside wait_queue, and a priority never leaves the    *)
(* documented range except for the one level of the super boost.           *)
SemRecords ==
    [value : Int, wait_count : Int, head : Slots, tail : Slots,
     wait_queue : [Slots -> Threads \cup {NoThread}]]

TypeOK ==
    /\ state \in [Threads -> {"Unused", "Running", "Ready", "Blocked"}]
    /\ priority \in [Threads -> MIN_PRIORITY - 1 .. MAX_PRIORITY]
    /\ original_priority \in [Threads -> MIN_PRIORITY .. MAX_PRIORITY]
    /\ starvation_count \in [Threads -> Nat]
    /\ tickets \in [Threads -> Nat]
    /\ gt_current \in Threads
    /\ gt_current_scheduler \in AllSchedulers
    /\ round_robin_index \in Threads
    /\ sem \in [Sems -> SemRecords]
    /\ phase \in {"create", "wait", "exited", "aborted", "crashed"}

(* Exactly the thread gt_current points to is Running, so the next         *)
(* gt_schedule parks the right thread (gthr.c:475-489).                    *)
RunningIsCurrent ==
    \A t \in Threads : state[t] = "Running" <=> t = gt_current

(* How far slot i is behind the head of a semaphore, the slots that hold   *)
(* its waiting threads, and those threads.                                 *)
Distance(q, i) ==
    IF i < q.head THEN i - q.head + MAX_BLOCKED_THREADS ELSE i - q.head

WaitingSlots(q) == {i \in Slots : Distance(q, i) < q.wait_count}

Waiters(q) == {q.wait_queue[i] : i \in WaitingSlots(q)}

(* The ring of a semaphore is neither overrun nor out of step with its     *)
(* value: wait_count is what the value says is owed, the tail is           *)
(* wait_count slots after the head, and no thread stands in it twice.      *)
Consistent(q) ==
    /\ q.wait_count = IF q.value < 0 THEN -q.value ELSE 0
    /\ q.wait_count \in 0 .. MAX_BLOCKED_THREADS
    /\ q.tail = (q.head + q.wait_count) % MAX_BLOCKED_THREADS
    /\ \A i, j \in WaitingSlots(q) : q.wait_queue[i] = q.wait_queue[j] => i = j

RingConsistent == \A s \in Sems : Consistent(sem[s])

(* A thread is Blocked exactly while one semaphore, and only one, has it   *)
(* queued: nobody sleeps with no post able to wake it, and no queued       *)
(* thread runs (gthr.c:475: Blocked threads stay blocked until released).  *)
BlockedIsQueued ==
    /\ \A s \in Sems : Waiters(sem[s]) \subseteq Threads
    /\ \A t \in Threads :
          state[t] = "Blocked" <=> \E s \in Sems : t \in Waiters(sem[s])
    /\ \A s, r \in Sems : s # r => Waiters(sem[s]) \cap Waiters(sem[r]) = {}

(* The second pass of priority_schedule looks at MIN..MAX only, so a       *)
(* thread boosted to MIN - 1 is found only while it is critically starved; *)
(* otherwise the scheduler would report NULL with a thread Ready.          *)
NoReadyThreadInvisible ==
    Active => \A t \in ReadyIn(state) : t \in
        CASE gt_current_scheduler = "PRI" ->
               Critical(state, starvation_count) \cup Eligible(state, priority)
          [] gt_current_scheduler = "LS" -> lottery_schedule(state)
          [] OTHER -> ReadyIn(state)

(* gt_schedule never returns to a thread that has returned, and the thread *)
(* it picks after main's exit test is main: assert(!"reachable") holds and *)
(* the program ends only when no thread could go on.                       *)
NeverAborted == phase # "aborted"

MainNeverLost ==
    /\ state[Main] \in {"Running", "Ready"}
    /\ phase = "exited" => \A t \in Threads \ {Main} : state[t] \in {"Unused", "Blocked"}

-----------------------------------------------------------------------------
(* Under the round-robin scheduler a switch that leaves a Ready thread     *)
(* waiting brings the search strictly nearer to it: nobody is passed over  *)
(* MAX_G_THREADS times, whoever is created or woken meanwhile.             *)
RoundRobinProgress ==
    [][gt_current_scheduler = "RR" /\ gt_current' # gt_current =>
         \A t \in Threads :
            state[t] = "Ready" /\ state'[t] = "Ready" =>
              SearchStep(t)' < SearchStep(t)]_vars

(* The semaphores implement FifoSemaphore: permits are the positive part   *)
(* of value, the queue is read from the ring, sleeping is being Blocked.   *)
RingContents(s) ==
    [k \in 1 .. sem[s].wait_count |->
        sem[s].wait_queue[(sem[s].head + k - 1) % MAX_BLOCKED_THREADS]]

Fifo == INSTANCE FifoSemaphore WITH
    permits <- [s \in Sems |-> IF sem[s].value > 0 THEN sem[s].value ELSE 0],
    waiting <- [s \in Sems |-> RingContents(s)],
    asleep <- {t \in Threads : state[t] = "Blocked"}

ImplementsFifo == Fifo!Spec

=============================================================================
