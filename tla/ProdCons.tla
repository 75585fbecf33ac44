------------------------------ MODULE ProdCons ------------------------------
(***************************************************************************)
(* The program of src/gthreads/semaphore_test.c on the library of Gthr:    *)
(* main creates producers and consumers, which share a ring of BUFFER_SIZE *)
(* cells under the binary semaphore mutex and bracket every computation of *)
(* the number of items with items_count.  Sleeping and printing are steps  *)
(* at which nothing shared changes, so only the alarm shows them.          *)
(***************************************************************************)
EXTENDS Gthr

CONSTANTS
    mutex, items_count,   \* the two semaphores
    Producers,            \* slots whose thread runs producer_thread
    BUFFER_SIZE

Workers == Threads \ {Main}
Consumers == Workers \ Producers

ASSUME ProgramAssumption ==
    /\ Sems = {mutex, items_count} /\ mutex # items_count
    /\ InitialValue[mutex] = 1 /\ InitialValue[items_count] = 1
    /\ Producers \subseteq Workers /\ Workers # {}
    /\ BUFFER_SIZE \in Nat \ {0}

VARIABLES
    pc,             \* where each thread is in its loop
    current_items,  \* the local current_items of each thread
    shared_buffer,  \* "none", or whether the item was consumed: "fresh", "used"
    buffer_in, buffer_out

buffer == <<shared_buffer, buffer_in, buffer_out>>
program == <<pc, current_items, buffer>>
allvars == <<vars, program>>

PCInit ==
    /\ Init
    /\ pc = [t \in Workers |-> "lock"]
    /\ current_items = [t \in Workers |-> 0]
    /\ shared_buffer = [i \in 0 .. BUFFER_SIZE - 1 |-> "none"]
    /\ buffer_in = 0 /\ buffer_out = 0

-----------------------------------------------------------------------------
Me == gt_current
Goto(from, to) ==
    /\ WorkerRuns
    /\ pc[Me] = from
    /\ pc' = [pc EXCEPT ![Me] = to]

(* The semaphore calls; a wait that blocks returns at the next pc once the *)
(* thread is picked again.                                                 *)
Wait(s, from, to) ==
    /\ Goto(from, to) /\ gt_sem_wait(s)
    /\ UNCHANGED <<current_items, buffer>>

(* Mutants: one of the releases is forgotten.                              *)
PostForgetsCount(s, from, to) ==
    /\ Goto(from, to)
    /\ IF s = items_count THEN UNCHANGED vars ELSE gt_sem_post(s)
    /\ UNCHANGED <<current_items, buffer>>
PostForgetsRetry(s, from, to) ==
    /\ Goto(from, to)
    /\ IF from = "retry" THEN UNCHANGED vars ELSE gt_sem_post(s)
    /\ UNCHANGED <<current_items, buffer>>

Post(s, from, to) ==
    /\ Goto(from, to) /\ gt_sem_post(s)
    /\ UNCHANGED <<current_items, buffer>>

(* current_items = (buffer_in - buffer_out + BUFFER_SIZE) % BUFFER_SIZE    *)
Count(from, to) ==
    /\ Goto(from, to)
    /\ current_items' = [current_items EXCEPT ![Me] =
            (buffer_in - buffer_out + BUFFER_SIZE) % BUFFER_SIZE]
    /\ UNCHANGED <<vars, buffer>>

(* Mutant: a consumer does not notice that there is no item.               *)
RefusedOffByOne == Me \in Consumers /\ current_items[Me] < 0

Refused == IF Me \in Producers THEN current_items[Me] >= BUFFER_SIZE
                               ELSE current_items[Me] <= 0

Decide ==
    /\ Goto("decide", IF Refused THEN "retry" ELSE "access")
    /\ UNCHANGED <<vars, current_items, buffer>>

(* shared_buffer[buffer_in] = ..., item = shared_buffer[buffer_out]        *)
Access ==
    /\ Goto("access", "advance")
    /\ shared_buffer' = IF Me \in Producers
                        THEN [shared_buffer EXCEPT ![buffer_in] = "fresh"]
                        ELSE [shared_buffer EXCEPT ![buffer_out] = "used"]
    /\ UNCHANGED <<vars, current_items, buffer_in, buffer_out>>

Advance ==
    /\ Goto("advance", "recount_lock")
    /\ IF Me \in Producers
       THEN buffer_in' = (buffer_in + 1) % BUFFER_SIZE /\ UNCHANGED buffer_out
       ELSE buffer_out' = (buffer_out + 1) % BUFFER_SIZE /\ UNCHANGED buffer_in
    /\ UNCHANGED <<vars, current_items, shared_buffer>>

CreateThread == phase = "create" /\ gt_create /\ UNCHANGED program
AwaitThreads == FreeSlots = {} /\ MainReturn /\ UNCHANGED program
Preempt == gt_alarm_handle /\ UNCHANGED program

PCNext ==
    \/ CreateThread \/ AwaitThreads \/ Preempt
    \/ Wait(mutex, "lock", "count_lock")
    \/ Wait(items_count, "count_lock", "count")
    \/ Count("count", "count_unlock")
    \/ Post(items_count, "count_unlock", "decide")
    \/ Decide
    \/ Post(mutex, "retry", "lock")
    \/ Access
    \/ Advance
    \/ Wait(items_count, "recount_lock", "recount")
    \/ Count("recount", "recount_unlock")
    \/ Post(items_count, "recount_unlock", "unlock")
    \/ Post(mutex, "unlock", "lock")

PCSpec == PCInit /\ [][PCNext]_allvars

-----------------------------------------------------------------------------
(* pc names the next statement; a thread that is blocked in a wait has not *)
(* passed it yet.                                                          *)
InCritical(t) == state[t] # "Blocked" /\ pc[t] # "lock"

(* semaphore_test.c:18 "Binary semaphore for mutual exclusion": whatever   *)
(* the alarm and the scheduler do between library calls, one thread at a   *)
(* time is between gt_sem_wait(&mutex) and gt_sem_post(&mutex).            *)
MutualExclusion ==
    \A t, u \in Workers : InCritical(t) /\ InCritical(u) => t = u

(* items_count is only taken inside the mutex, so nobody ever blocks on it *)
(* and waiting for it while holding mutex cannot deadlock.                 *)
InnerNeverBlocks == Waiters(sem[items_count]) = {}

(* Some thread can always go on: the threads are never all Blocked, so the *)
(* program, which has no exit, does not end in main's loop.                *)
NeverExits == phase # "exited"

(* The item a consumer counted is still there, and not yet consumed, when  *)
(* it reads the cell, so no value is consumed twice.                       *)
CountedItemIsThere ==
    \A t \in Consumers : pc[t] = "access" => shared_buffer[buffer_out] = "fresh"

=============================================================================
