--------------------------- MODULE ProdCons_proofs ---------------------------
(***************************************************************************)
(* Proofs about the program of semaphore_test.c: it is one of the clients  *)
(* Gthr allows for, so what Gthr_proofs shows of the library holds of it,  *)
(* and with the library's queues its own invariants follow for every       *)
(* number of threads, every split into producers and consumers, every      *)
(* buffer size and every scheduler.                                        *)
(***************************************************************************)
EXTENDS ProdCons, Gthr_proofs

Labels == {"lock", "count_lock", "count", "count_unlock", "decide", "retry",
           "access", "advance", "recount_lock", "recount", "recount_unlock",
           "unlock"}

(* Where a thread holds items_count.                                       *)
Counting == {"count", "count_unlock", "recount", "recount_unlock"}

PCTypeOK ==
    /\ pc \in [Workers -> Labels]
    /\ current_items \in [Workers -> Int]
    /\ shared_buffer \in [0 .. BUFFER_SIZE - 1 -> {"none", "fresh", "used"}]
    /\ buffer_in \in 0 .. BUFFER_SIZE - 1
    /\ buffer_out \in 0 .. BUFFER_SIZE - 1

(* Nothing but gt_create starts a thread, nobody blocks but on mutex, and  *)
(* no thread returns.                                                      *)
ThreadsInv ==
    /\ phase \in {"create", "wait"}
    /\ \A t \in Workers : state[t] = "Unused" => pc[t] = "lock"
    /\ \A t \in Workers : state[t] = "Blocked" => pc[t] = "count_lock"

(* mutex is free exactly when nobody is inside, and one thread at most is. *)
MutexInv ==
    /\ sem[mutex].value <= 1
    /\ sem[mutex].value = 1 <=> \A t \in Workers : ~InCritical(t)
    /\ MutualExclusion

(* items_count is free exactly when the thread inside is not counting.     *)
ItemsInv ==
    /\ InnerNeverBlocks
    /\ sem[items_count].value \in {0, 1}
    /\ sem[items_count].value = 1 <=> \A t \in Workers : pc[t] \notin Counting

SyncInv == PCTypeOK /\ ThreadsInv /\ MutexInv /\ ItemsInv

(* The cells from buffer_out up to, and without, buffer_in.                *)
Stored(i) ==
    IF buffer_out <= buffer_in THEN buffer_out <= i /\ i < buffer_in
                               ELSE buffer_out <= i \/ i < buffer_in

(* Every stored item is fresh but the one that a consumer has just read,   *)
(* the cell a producer has just written is fresh, and what a thread        *)
(* counted stays true until it has moved an index.                         *)
BufferInv ==
    /\ \A i \in 0 .. BUFFER_SIZE - 1 : Stored(i) =>
          \/ shared_buffer[i] = "fresh"
          \/ i = buffer_out /\ \E t \in Consumers : pc[t] = "advance"
    /\ \A t \in Producers : pc[t] = "advance" => shared_buffer[buffer_in] = "fresh"
    /\ \A t \in Workers : pc[t] \in {"count_unlock", "decide"} =>
          (current_items[t] > 0 <=> buffer_in # buffer_out)
    /\ \A t \in Consumers : pc[t] \in {"access", "advance"} => buffer_in # buffer_out

-----------------------------------------------------------------------------
(* The program as a client of the library.                                 *)

LEMMA StepsAreLibrarySteps ==
    ASSUME [PCNext]_allvars
    PROVE  [Next]_vars
  <1>1. mutex \in Sems /\ items_count \in Sems
    BY ProgramAssumption
  <1>2. CASE CreateThread \/ AwaitThreads \/ Preempt
    BY <1>2 DEF CreateThread, AwaitThreads, Preempt, Next, gt_return
  <1>3. ASSUME NEW s \in Sems, NEW from, NEW to, Wait(s, from, to) \/ Post(s, from, to)
        PROVE  Next
    BY <1>3 DEF Wait, Post, Next
  <1>4. ASSUME NEW from, NEW to, Count(from, to)
        PROVE  UNCHANGED vars
    BY <1>4 DEF Count
  <1>5. CASE Decide \/ Access \/ Advance \/ UNCHANGED allvars
    BY <1>5 DEF Decide, Access, Advance, allvars
  <1> QED
    BY <1>1, <1>2, <1>3, <1>4, <1>5 DEF PCNext

(* What semaphore_test.c does with the library is what Gthr's clients may  *)
(* do, so every theorem about the library is one about the program.        *)
THEOREM ProgramIsAClient == PCSpec => Spec
  <1>1. PCInit => Init
    BY DEF PCInit
  <1>2. [PCNext]_allvars => [Next]_vars
    BY StepsAreLibrarySteps
  <1> QED
    BY <1>1, <1>2, PTL DEF PCSpec, Spec

(* The thread that runs past "lock" is alone there.                        *)
LEMMA AloneInside ==
    ASSUME SafeInv, SyncInv, WorkerRuns, pc[Me] # "lock"
    PROVE  /\ Me \in Workers /\ InCritical(Me)
           /\ sem[mutex].value <= 0
           /\ \A t \in Workers : t # Me =>
                /\ ~InCritical(t)
                /\ pc[t] \in {"lock", "count_lock"}
  <1>1. Me \in Workers /\ Me \in Threads /\ state[Me] = "Running"
    BY DEF SafeInv, TypeOK, RunningIsCurrent, WorkerRuns, Workers, Me
  <1>2. InCritical(Me)
    BY <1>1 DEF InCritical
  <1>3. sem[mutex].value \in Int
    BY ProgramAssumption DEF SafeInv, TypeOK, SemRecords
  <1> QED
    BY <1>1, <1>2, <1>3 DEF SyncInv, MutexInv, MutualExclusion, ThreadsInv, InCritical

LEMMA RunningWorker ==
    ASSUME SafeInv, WorkerRuns
    PROVE  /\ Me \in Workers /\ Me \in Threads /\ Me = gt_current
           /\ state[Me] = "Running" /\ Workers \subseteq Threads
  BY DEF SafeInv, TypeOK, RunningIsCurrent, WorkerRuns, Workers, Me

-----------------------------------------------------------------------------
(* Steps at which no semaphore and no program counter changes.             *)
LEMMA LibraryOnly ==
    ASSUME SyncInv, pc' = pc, sem' = sem, phase' \in {"create", "wait"},
           \A t \in Workers : state'[t] = "Blocked" <=> state[t] = "Blocked",
           \A t \in Workers : state'[t] = "Unused" => state[t] = "Unused"
    PROVE  ThreadsInv' /\ MutexInv' /\ ItemsInv'
  <1>1. \A t \in Workers : InCritical(t)' <=> InCritical(t)
    BY DEF InCritical
  <1>2. ThreadsInv'
    BY DEF SyncInv, ThreadsInv
  <1>3. MutexInv'
    BY <1>1 DEF SyncInv, MutexInv, MutualExclusion
  <1>4. ItemsInv'
    BY DEF SyncInv, ItemsInv, InnerNeverBlocks
  <1> QED
    BY <1>2, <1>3, <1>4

(* Steps of the thread inside that only move on.                           *)
LEMMA LocalMove ==
    ASSUME SafeInv, SyncInv, WorkerRuns, UNCHANGED vars,
           pc[Me] # "lock", NEW to \in Labels, to # "lock",
           pc' = [pc EXCEPT ![Me] = to],
           to \in Counting <=> pc[Me] \in Counting
    PROVE  ThreadsInv' /\ MutexInv' /\ ItemsInv'
  <1>1. /\ Me \in Workers /\ state[Me] = "Running"
        /\ pc \in [Workers -> Labels]
    BY RunningWorker DEF SyncInv, PCTypeOK
  <1>2. /\ state' = state /\ sem' = sem /\ phase' = phase
        /\ \A t \in Workers : pc'[t] = IF t = Me THEN to ELSE pc[t]
    BY <1>1 DEF vars
  <1>3. \A t \in Workers : InCritical(t)' <=> InCritical(t)
    BY <1>1, <1>2 DEF InCritical
  <1>4. ThreadsInv'
    BY <1>1, <1>2 DEF SyncInv, ThreadsInv
  <1>5. MutexInv'
    BY <1>2, <1>3 DEF SyncInv, MutexInv, MutualExclusion
  <1>6. \A t \in Workers : pc'[t] \in Counting <=> pc[t] \in Counting
    BY <1>1, <1>2
  <1>7. ItemsInv'
    BY <1>2, <1>6 DEF SyncInv, ItemsInv, InnerNeverBlocks
  <1> QED
    BY <1>4, <1>5, <1>7

-----------------------------------------------------------------------------
(* The semaphore calls.                                                    *)

(* A queue that is written only at its value is the same queue.            *)
LEMMA SameQueue ==
    ASSUME NEW q, NEW r, r.wait_queue = q.wait_queue, r.head = q.head,
           r.wait_count = q.wait_count
    PROVE  Waiters(r) = Waiters(q)
  BY DEF Waiters, WaitingSlots, Distance

LEMMA TakeMutex ==
    ASSUME SafeInv, SyncInv, SemTake(mutex), Wait(mutex, "lock", "count_lock")
    PROVE  ThreadsInv' /\ MutexInv' /\ ItemsInv'
  <1>1. /\ Me \in Workers /\ state[Me] = "Running" /\ pc \in [Workers -> Labels]
        /\ sem \in [Sems -> SemRecords] /\ mutex \in Sems /\ items_count \in Sems \ {mutex}
        /\ sem[mutex].value \in Int
    BY RunningWorker, ProgramAssumption
    DEF SyncInv, PCTypeOK, SemTake, SafeInv, TypeOK, SemRecords
  <1>2. /\ state' = state /\ phase' = phase
        /\ sem[mutex].value > 0 /\ sem'[mutex].value = sem[mutex].value - 1
        /\ sem'[items_count] = sem[items_count]
        /\ pc[Me] = "lock"
        /\ \A t \in Workers : pc'[t] = IF t = Me THEN "count_lock" ELSE pc[t]
    BY <1>1 DEF SemTake, Wait, Goto, SemRecords
  <1>3. sem[mutex].value = 1
    BY <1>1, <1>2 DEF SyncInv, MutexInv
  <1>4. \A t \in Workers : ~InCritical(t)
    BY <1>3 DEF SyncInv, MutexInv
  <1>5. \A t \in Workers : InCritical(t)' <=> t = Me
    BY <1>1, <1>2, <1>4 DEF InCritical
  <1>6. ThreadsInv'
    BY <1>1, <1>2 DEF SyncInv, ThreadsInv
  <1>7. MutexInv'
    BY <1>1, <1>2, <1>3, <1>5 DEF MutexInv, MutualExclusion
  <1>8. ItemsInv'
    BY <1>2 DEF SyncInv, ItemsInv, InnerNeverBlocks, Counting
  <1> QED
    BY <1>6, <1>7, <1>8

LEMMA BlockOnMutex ==
    ASSUME SafeInv, SyncInv, SemBlock(mutex), Wait(mutex, "lock", "count_lock")
    PROVE  ThreadsInv' /\ MutexInv' /\ ItemsInv'
  <1> DEFINE st == [state EXCEPT ![gt_current] = "Blocked"]
  <1>1. /\ Me \in Workers /\ state[Me] = "Running" /\ pc \in [Workers -> Labels]
        /\ Me = gt_current /\ Workers \subseteq Threads
        /\ sem \in [Sems -> SemRecords] /\ mutex \in Sems /\ items_count \in Sems \ {mutex}
        /\ sem[mutex].value \in Int
        /\ state \in [Threads -> {"Unused", "Running", "Ready", "Blocked"}]
    BY RunningWorker, ProgramAssumption
    DEF SyncInv, PCTypeOK, SemBlock, SafeInv, TypeOK, SemRecords
  <1>2. /\ phase' = phase /\ gt_schedule(st) /\ WorkerRuns
        /\ sem[mutex].value <= 0
        /\ sem'[items_count] = sem[items_count]
    BY <1>1 DEF SemBlock
  <1>21. /\ pc[Me] = "lock"
         /\ \A t \in Workers : pc'[t] = IF t = Me THEN "count_lock" ELSE pc[t]
    BY <1>1 DEF Wait, Goto
  <1>3. sem'[mutex].value = sem[mutex].value - 1
    BY <1>1 DEF SemBlock, SemRecords
  <1>4. /\ st \in [Threads -> {"Unused", "Running", "Ready", "Blocked"}]
        /\ \A t \in Threads : st[t] = IF t = Me THEN "Blocked" ELSE state[t]
    BY <1>1
  <1> HIDE DEF st
  <1>5. /\ \A t \in Threads : st[t] = "Running" => t = gt_current
        /\ \A t \in Threads : st[t] # "Unused" => tickets[t] > 0
        /\ ReadyIn(st) # {}
    BY <1>1, <1>2, <1>4, MainIsReady
    DEF SafeInv, RunningIsCurrent, TicketsHeld, ReadyIn, Workers
  <1>6. \A t \in Threads : /\ state'[t] = "Blocked" <=> st[t] = "Blocked"
                           /\ state'[t] = "Unused" <=> st[t] = "Unused"
    BY <1>2, <1>4, <1>5, ScheduleEffect DEF SafeInv
  <1>7. \A t \in Workers : InCritical(t)' <=> InCritical(t)
    BY <1>1, <1>21, <1>4, <1>6 DEF InCritical
  <1>8. ThreadsInv'
    BY <1>1, <1>2, <1>21, <1>4, <1>6 DEF SyncInv, ThreadsInv
  <1>9. MutexInv'
    BY <1>1, <1>2, <1>3, <1>7 DEF SyncInv, MutexInv, MutualExclusion
  <1>10. ItemsInv'
    BY <1>2, <1>21 DEF SyncInv, ItemsInv, InnerNeverBlocks, Counting
  <1> QED
    BY <1>8, <1>9, <1>10

(* The post hands the mutex to the first waiting thread, if there is one.  *)
LEMMA PostMutex ==
    ASSUME SafeInv, SyncInv, NEW from \in {"retry", "unlock"},
           Post(mutex, from, "lock")
    PROVE  ThreadsInv' /\ MutexInv' /\ ItemsInv'
  <1> DEFINE q == sem[mutex]
             w == q.wait_queue[q.head]
  <1>1. /\ Me \in Workers /\ state[Me] = "Running" /\ pc \in [Workers -> Labels]
        /\ Workers \subseteq Threads
        /\ sem \in [Sems -> SemRecords] /\ mutex \in Sems /\ items_count \in Sems \ {mutex}
        /\ q \in SemRecords /\ q.value \in Int /\ Consistent(q)
        /\ state \in [Threads -> {"Unused", "Running", "Ready", "Blocked"}]
        /\ WorkerRuns /\ gt_sem_post(mutex) /\ pc[Me] = from
    BY RunningWorker, ProgramAssumption
    DEF SyncInv, PCTypeOK, Post, Goto, SafeInv, TypeOK, SemRecords, RingConsistent
  <1>2. /\ phase' = phase
        /\ sem'[items_count] = sem[items_count]
        /\ sem'[mutex].value = q.value + 1
    BY <1>1 DEF gt_sem_post, SemRecords
  <1>21. \A t \in Workers : pc'[t] = IF t = Me THEN "lock" ELSE pc[t]
    BY <1>1 DEF Post, Goto
  <1>3. /\ q.value <= 0
        /\ \A t \in Workers : t # Me =>
             ~InCritical(t) /\ pc[t] \in {"lock", "count_lock"}
    BY <1>1, AloneInside
  <1>4. ItemsInv'
    BY <1>1, <1>2, <1>21 DEF SyncInv, ItemsInv, InnerNeverBlocks, Counting
  <1>5. CASE q.value = 0
    <2>1. state' = state
      BY <1>1, <1>5 DEF gt_sem_post
    <2>2. \A t \in Workers : ~InCritical(t)'
      BY <1>21, <1>3, <2>1 DEF InCritical
    <2>3. ThreadsInv'
      BY <1>1, <1>2, <1>21, <2>1 DEF SyncInv, ThreadsInv
    <2>4. MutexInv'
      BY <1>1, <1>2, <1>5, <2>2 DEF MutexInv, MutualExclusion
    <2> QED
      BY <1>4, <2>3, <2>4
  <1>6. CASE q.value < 0
    <2>1. /\ q.wait_count \in Int /\ q.wait_count > 0 /\ q.value + 1 <= 0
          /\ q.head \in Slots
      BY <1>1, <1>6 DEF Consistent, SemRecords
    <2>2. /\ state' = [state EXCEPT ![w] = "Ready"]
          /\ sem'[mutex].wait_queue = q.wait_queue
          /\ sem'[mutex].head = NextSlot(q.head)
          /\ sem'[mutex].tail = q.tail
          /\ sem'[mutex].wait_count = q.wait_count - 1
      BY <1>1, <2>1 DEF gt_sem_post, SemRecords
    <2>3. w \in Waiters(q)
      <3>1. 0 < q.wait_count /\ Distance(q, q.head) = 0
        BY <1>1, <2>1, SizesAssumption DEF Distance, Slots, MAX_BLOCKED_THREADS
      <3> QED
        BY <2>1, <3>1 DEF Waiters, WaitingSlots
    <2>4. w \in Threads /\ state[w] = "Blocked"
      BY <1>1, <2>3 DEF SafeInv, BlockedIsQueued
    <2>5. w \in Workers /\ w # Me
      BY <1>1, <2>4, MainIsReady DEF Workers
    <2>6. pc[w] = "count_lock"
      BY <2>4, <2>5 DEF SyncInv, ThreadsInv
    <2> HIDE DEF w
    <2>7. \A t \in Threads : state'[t] = IF t = w THEN "Ready" ELSE state[t]
      BY <1>1, <2>2, <2>4
    <2>8. \A t \in Workers : InCritical(t)' <=> t = w
      BY <1>1, <1>21, <1>3, <2>5, <2>6, <2>7 DEF InCritical
    <2>9. ThreadsInv'
      BY <1>1, <1>2, <1>21, <2>7 DEF SyncInv, ThreadsInv
    <2>10. MutexInv'
      BY <1>1, <1>2, <2>1, <2>5, <2>8 DEF MutexInv, MutualExclusion
    <2> QED
      BY <1>4, <2>9, <2>10
  <1> QED
    BY <1>1, <1>3, <1>5, <1>6

(* The thread inside finds items_count free, and the only one that holds   *)
(* it gives it back, so nobody waits for it.                               *)
LEMMA WaitItems ==
    ASSUME SafeInv, SyncInv, NEW from \in Labels, NEW to \in Counting,
           from # "lock", from \notin Counting,
           Wait(items_count, from, to)
    PROVE  ThreadsInv' /\ MutexInv' /\ ItemsInv'
  <1>1. /\ Me \in Workers /\ state[Me] = "Running" /\ pc \in [Workers -> Labels]
        /\ sem \in [Sems -> SemRecords]
        /\ items_count \in Sems /\ mutex \in Sems \ {items_count}
        /\ WorkerRuns /\ gt_sem_wait(items_count) /\ pc[Me] = from
    BY RunningWorker, ProgramAssumption
    DEF SyncInv, PCTypeOK, Wait, Goto, SafeInv, TypeOK
  <1>2. \A t \in Workers : pc'[t] = IF t = Me THEN to ELSE pc[t]
    BY <1>1 DEF Wait, Goto
  <1>3. \A t \in Workers : t # Me => ~InCritical(t) /\ pc[t] \in {"lock", "count_lock"}
    BY <1>1, AloneInside
  <1>4. sem[items_count].value = 1
    BY <1>1, <1>3 DEF SyncInv, ItemsInv, Counting
  <1>5. SemTake(items_count)
    BY <1>1, <1>4 DEF gt_sem_wait, SemBlock
  <1>6. /\ state' = state /\ phase' = phase /\ sem'[mutex] = sem[mutex]
        /\ sem' = [sem EXCEPT ![items_count].value = @ - 1]
    BY <1>1, <1>5 DEF SemTake
  <1>7. /\ sem'[items_count].value = 0
        /\ sem'[items_count].wait_queue = sem[items_count].wait_queue
        /\ sem'[items_count].head = sem[items_count].head
        /\ sem'[items_count].wait_count = sem[items_count].wait_count
    BY <1>1, <1>4, <1>6 DEF SemRecords
  <1>8. \A t \in Workers : InCritical(t)' <=> InCritical(t)
    BY <1>1, <1>2, <1>6 DEF InCritical, Counting
  <1>9. ThreadsInv'
    BY <1>1, <1>2, <1>6 DEF SyncInv, ThreadsInv
  <1>10. MutexInv'
    BY <1>6, <1>8 DEF SyncInv, MutexInv, MutualExclusion
  <1>11. Waiters(sem'[items_count]) = Waiters(sem[items_count])
    BY <1>7, SameQueue
  <1>12. ItemsInv'
    BY <1>1, <1>2, <1>7, <1>11 DEF SyncInv, ItemsInv, InnerNeverBlocks
  <1> QED
    BY <1>9, <1>10, <1>12

LEMMA PostItems ==
    ASSUME SafeInv, SyncInv, NEW from \in Counting, NEW to \in Labels,
           to # "lock", to \notin Counting,
           Post(items_count, from, to)
    PROVE  ThreadsInv' /\ MutexInv' /\ ItemsInv'
  <1>1. /\ Me \in Workers /\ state[Me] = "Running" /\ pc \in [Workers -> Labels]
        /\ sem \in [Sems -> SemRecords]
        /\ items_count \in Sems /\ mutex \in Sems \ {items_count}
        /\ WorkerRuns /\ gt_sem_post(items_count) /\ pc[Me] = from /\ from # "lock"
    BY RunningWorker, ProgramAssumption
    DEF SyncInv, PCTypeOK, Post, Goto, SafeInv, TypeOK, Counting
  <1>2. \A t \in Workers : pc'[t] = IF t = Me THEN to ELSE pc[t]
    BY <1>1 DEF Post, Goto
  <1>3. \A t \in Workers : t # Me => ~InCritical(t) /\ pc[t] \in {"lock", "count_lock"}
    BY <1>1, AloneInside
  <1>4. sem[items_count].value = 0
    BY <1>1 DEF SyncInv, ItemsInv
  <1>5. /\ state' = state /\ phase' = phase /\ sem'[mutex] = sem[mutex]
        /\ sem' = [sem EXCEPT ![items_count].value = @ + 1]
    BY <1>1, <1>4 DEF gt_sem_post
  <1>6. /\ sem'[items_count].value = 1
        /\ sem'[items_count].wait_queue = sem[items_count].wait_queue
        /\ sem'[items_count].head = sem[items_count].head
        /\ sem'[items_count].wait_count = sem[items_count].wait_count
    BY <1>1, <1>4, <1>5 DEF SemRecords
  <1>7. \A t \in Workers : InCritical(t)' <=> InCritical(t)
    BY <1>1, <1>2, <1>5 DEF InCritical
  <1>8. ThreadsInv'
    BY <1>1, <1>2, <1>5 DEF SyncInv, ThreadsInv
  <1>9. MutexInv'
    BY <1>5, <1>7 DEF SyncInv, MutexInv, MutualExclusion
  <1>10. Waiters(sem'[items_count]) = Waiters(sem[items_count])
    BY <1>6, SameQueue
  <1>11. \A t \in Workers : pc'[t] \notin Counting
    BY <1>1, <1>2, <1>3 DEF Counting
  <1>12. ItemsInv'
    BY <1>6, <1>10, <1>11 DEF SyncInv, ItemsInv, InnerNeverBlocks
  <1> QED
    BY <1>8, <1>9, <1>12

-----------------------------------------------------------------------------
(* Somebody is always left to go on: were every worker Blocked, all of     *)
(* them would wait for mutex and nobody would be inside.                   *)
LEMMA SomebodyIsReady ==
    ASSUME SafeInv, SyncInv, gt_current = Main, FreeSlots = {}
    PROVE  ReadyIn(state) # {}
  <1> SUFFICES ASSUME ReadyIn(state) = {}
               PROVE  FALSE
    OBVIOUS
  <1>1. \A t \in Workers : state[t] = "Blocked"
    BY DEF SafeInv, TypeOK, RunningIsCurrent, ReadyIn, FreeSlots, Workers, Main
  <1>2. sem[mutex].value = 1
    BY <1>1 DEF SyncInv, MutexInv, InCritical
  <1>3. Waiters(sem[mutex]) = {}
    <2>1. sem[mutex].wait_count = 0 /\ sem[mutex].head \in Slots
      BY <1>2, ProgramAssumption
      DEF SafeInv, TypeOK, SemRecords, RingConsistent, Consistent
    <2>2. \A i \in Slots : ~(Distance(sem[mutex], i) < 0)
      BY <2>1, SizesAssumption DEF Distance, Slots, MAX_BLOCKED_THREADS
    <2> QED
      BY <2>1, <2>2 DEF Waiters, WaitingSlots
  <1>4. \A s \in Sems : Waiters(sem[s]) = {}
    BY <1>3, ProgramAssumption DEF SyncInv, ItemsInv, InnerNeverBlocks
  <1>5. PICK t \in Workers : TRUE
    BY ProgramAssumption
  <1> QED
    BY <1>1, <1>4, <1>5 DEF SafeInv, BlockedIsQueued, Workers

LEMMA LibrarySteps ==
    ASSUME SafeInv, SyncInv, CreateThread \/ AwaitThreads \/ Preempt
    PROVE  ThreadsInv' /\ MutexInv' /\ ItemsInv'
  <1>1. pc' = pc /\ sem' = sem
    BY DEF CreateThread, AwaitThreads, Preempt, gt_create, MainReturn,
           gt_alarm_handle, program
  <1>2. state \in [Threads -> {"Unused", "Running", "Ready", "Blocked"}]
        /\ Workers \subseteq Threads
    BY DEF SafeInv, TypeOK, Workers
  <1>3. CASE CreateThread
    <2>1. phase' = phase /\ \E t \in FreeSlots : state' = [state EXCEPT ![t] = "Ready"]
      BY <1>3 DEF CreateThread, gt_create
    <2>2. PICK n \in FreeSlots : state' = [state EXCEPT ![n] = "Ready"]
      BY <2>1
    <2>3. n \in Threads /\ state[n] = "Unused"
      BY DEF FreeSlots
    <2>4. \A t \in Workers : state'[t] = IF t = n THEN "Ready" ELSE state[t]
      BY <1>2, <2>2, <2>3
    <2> QED
      BY <1>1, <2>1, <2>3, <2>4, LibraryOnly DEF SyncInv, ThreadsInv
  <1>4. CASE AwaitThreads \/ Preempt
    <2>1. gt_schedule(state)
      BY <1>4 DEF AwaitThreads, Preempt, MainReturn, gt_alarm_handle
    <2>2. /\ \A t \in Threads : state[t] = "Running" => t = gt_current
          /\ \A t \in Threads : state[t] # "Unused" => tickets[t] > 0
          /\ state[gt_current] = "Running"
      BY DEF SafeInv, TypeOK, RunningIsCurrent, TicketsHeld
    <2>3. /\ \A t \in Threads : /\ state'[t] = "Blocked" <=> state[t] = "Blocked"
                                /\ state'[t] = "Unused" <=> state[t] = "Unused"
          /\ ReadyIn(state) # {} => ScheduleFinds(state)
      BY <1>2, <2>1, <2>2, ScheduleEffect DEF SafeInv
    <2>4. phase' \in {"create", "wait"}
      <3>1. CASE AwaitThreads
        BY <3>1, <2>3, SomebodyIsReady DEF AwaitThreads, MainReturn
      <3>2. CASE Preempt
        BY <3>2 DEF Preempt, gt_alarm_handle, SyncInv, ThreadsInv
      <3> QED
        BY <1>4, <3>1, <3>2
    <2> QED
      BY <1>1, <1>2, <2>3, <2>4, LibraryOnly
  <1> QED
    BY <1>3, <1>4

-----------------------------------------------------------------------------
(* The ring of BUFFER_SIZE cells.                                          *)
LEMMA Wraps ==
    ASSUME NEW n \in Nat \ {0}, NEW x \in 0 .. 2 * n - 1
    PROVE  /\ x % n \in 0 .. n - 1
           /\ x % n = IF x < n THEN x ELSE x - n
  <1>1. CASE x < n
    <2>1. x \in 0 .. n - 1
      BY <1>1
    <2>2. x % n = x
      BY <2>1
    <2> QED
      BY <1>1, <2>1, <2>2
  <1>2. CASE ~(x < n)
    <2>1. x \in n .. 2 * n - 1
      BY <1>2
    <2>2. x % n = x - n
      BY <2>1
    <2> QED
      BY <1>2, <2>1, <2>2
  <1> QED
    BY <1>1, <1>2

LEMMA NextCell ==
    ASSUME NEW i \in 0 .. BUFFER_SIZE - 1
    PROVE  /\ (i + 1) % BUFFER_SIZE \in 0 .. BUFFER_SIZE - 1
           /\ (i + 1) % BUFFER_SIZE = IF i = BUFFER_SIZE - 1 THEN 0 ELSE i + 1
  <1> DEFINE x == i + 1
  <1>1. BUFFER_SIZE \in Nat \ {0} /\ x \in 0 .. 2 * BUFFER_SIZE - 1
    BY ProgramAssumption
  <1> HIDE DEF x
  <1>2. /\ x % BUFFER_SIZE \in 0 .. BUFFER_SIZE - 1
        /\ x % BUFFER_SIZE = IF x < BUFFER_SIZE THEN x ELSE x - BUFFER_SIZE
    BY <1>1, Wraps
  <1> QED
    BY <1>1, <1>2 DEF x

(* The count is zero exactly when the indices are equal.                   *)
LEMMA CountIsZero ==
    ASSUME NEW i \in 0 .. BUFFER_SIZE - 1, NEW o \in 0 .. BUFFER_SIZE - 1
    PROVE  /\ (i - o + BUFFER_SIZE) % BUFFER_SIZE \in Int
           /\ (i - o + BUFFER_SIZE) % BUFFER_SIZE > 0 <=> i # o
  <1> DEFINE x == i - o + BUFFER_SIZE
  <1>1. BUFFER_SIZE \in Nat \ {0} /\ x \in 0 .. 2 * BUFFER_SIZE - 1
    BY ProgramAssumption
  <1> HIDE DEF x
  <1>2. /\ x % BUFFER_SIZE \in 0 .. BUFFER_SIZE - 1
        /\ x % BUFFER_SIZE = IF x < BUFFER_SIZE THEN x ELSE x - BUFFER_SIZE
    BY <1>1, Wraps
  <1> QED
    BY <1>1, <1>2 DEF x

LEMMA ProgramTypeStep ==
    ASSUME SafeInv, PCTypeOK, [PCNext]_allvars
    PROVE  PCTypeOK'
  <1> USE DEF PCTypeOK
  <1>1. ASSUME NEW from, NEW to \in Labels, Goto(from, to)
        PROVE  pc' \in [Workers -> Labels]
    BY <1>1 DEF Goto
  <1>2. CASE CreateThread \/ AwaitThreads \/ Preempt \/ UNCHANGED allvars
    BY <1>2 DEF CreateThread, AwaitThreads, Preempt, allvars, program, buffer
  <1>3. ASSUME NEW s, NEW from, NEW to \in Labels, Wait(s, from, to) \/ Post(s, from, to)
        PROVE  PCTypeOK'
    BY <1>1, <1>3 DEF Wait, Post, buffer
  <1>4. ASSUME NEW from, NEW to \in Labels, Count(from, to)
        PROVE  PCTypeOK'
    <2>1. (buffer_in - buffer_out + BUFFER_SIZE) % BUFFER_SIZE \in Int
      BY CountIsZero
    <2> QED
      BY <1>1, <1>4, <2>1 DEF Count, buffer
  <1>5. CASE Decide
    BY <1>1, <1>5 DEF Decide, buffer, Labels
  <1>6. CASE Access
    BY <1>1, <1>6 DEF Access, Labels
  <1>7. CASE Advance
    <2>1. /\ (buffer_in + 1) % BUFFER_SIZE \in 0 .. BUFFER_SIZE - 1
          /\ (buffer_out + 1) % BUFFER_SIZE \in 0 .. BUFFER_SIZE - 1
      BY NextCell
    <2>2. pc' \in [Workers -> Labels]
      BY <1>1, <1>7 DEF Advance, Labels
    <2> QED
      BY <1>7, <2>1, <2>2 DEF Advance
  <1>8. /\ {"lock", "count_lock", "count", "count_unlock", "decide", "retry",
            "recount_lock", "recount", "recount_unlock", "unlock"} \subseteq Labels
    BY DEF Labels
  <1> QED
    BY <1>2, <1>3, <1>4, <1>5, <1>6, <1>7, <1>8 DEF PCNext

LEMMA SyncStep ==
    ASSUME SafeInv, SyncInv, [PCNext]_allvars
    PROVE  SyncInv'
  <1>1. PCTypeOK'
    BY ProgramTypeStep DEF SyncInv
  <1> SUFFICES ThreadsInv' /\ MutexInv' /\ ItemsInv'
    BY <1>1 DEF SyncInv
  <1> USE DEF Labels, Counting
  <1>2. CASE CreateThread \/ AwaitThreads \/ Preempt
    BY <1>2, LibrarySteps
  <1>3. CASE Wait(mutex, "lock", "count_lock")
    BY <1>3, TakeMutex, BlockOnMutex DEF Wait, gt_sem_wait
  <1>4. CASE Wait(items_count, "count_lock", "count")
    BY <1>4, WaitItems
  <1>5. CASE Wait(items_count, "recount_lock", "recount")
    BY <1>5, WaitItems
  <1>6. CASE Post(items_count, "count_unlock", "decide")
    BY <1>6, PostItems
  <1>7. CASE Post(items_count, "recount_unlock", "unlock")
    BY <1>7, PostItems
  <1>8. CASE Post(mutex, "retry", "lock") \/ Post(mutex, "unlock", "lock")
    BY <1>8, PostMutex
  <1>9. CASE Count("count", "count_unlock") \/ Count("recount", "recount_unlock")
    BY <1>9, LocalMove DEF Count, Goto
  <1>10. CASE Decide
    BY <1>10, LocalMove DEF Decide, Goto
  <1>11. CASE Access
    BY <1>11, LocalMove DEF Access, Goto
  <1>12. CASE Advance
    BY <1>12, LocalMove DEF Advance, Goto
  <1>13. CASE UNCHANGED allvars
    BY <1>13, LibraryOnly DEF allvars, vars, program, SyncInv, ThreadsInv
  <1> QED
    BY <1>2, <1>3, <1>4, <1>5, <1>6, <1>7, <1>8, <1>9, <1>10, <1>11, <1>12, <1>13
    DEF PCNext

LEMMA SyncInit ==
    ASSUME PCInit
    PROVE  SyncInv
  <1>1. PCTypeOK
    BY ProgramAssumption DEF PCInit, PCTypeOK, Labels
  <1>2. /\ \A t \in Workers : pc[t] = "lock"
        /\ \A t \in Workers : state[t] = "Unused"
        /\ phase = "create"
    BY DEF PCInit, Init, gt_init, Workers
  <1>3. /\ sem[mutex].value = 1
        /\ sem[items_count].value = 1
        /\ sem[items_count].wait_count = 0 /\ sem[items_count].head = 0
    BY ProgramAssumption DEF PCInit, Init, gt_sem_init
  <1>4. Waiters(sem[items_count]) = {}
    <2>1. \A i \in Slots : ~(Distance(sem[items_count], i) < 0)
      BY <1>3, SizesAssumption DEF Distance, Slots, MAX_BLOCKED_THREADS
    <2> QED
      BY <1>3, <2>1 DEF Waiters, WaitingSlots
  <1> QED
    BY <1>1, <1>2, <1>3, <1>4
    DEF SyncInv, ThreadsInv, MutexInv, MutualExclusion, ItemsInv, InnerNeverBlocks,
        InCritical, Counting

(* Whatever the alarm, the scheduler and the other threads do, the threads *)
(* of semaphore_test.c keep to the protocol of its two semaphores.         *)
THEOREM Synchronised == PCSpec => [](SafeInv /\ SyncInv)
  <1>1. PCSpec => []SafeInv
    BY ProgramIsAClient, Safety, PTL
  <1>2. PCInit => SyncInv
    BY SyncInit
  <1>3. SafeInv /\ SyncInv /\ [PCNext]_allvars => SyncInv'
    BY SyncStep
  <1> QED
    BY <1>1, <1>2, <1>3, PTL DEF PCSpec

(* The binary semaphore excludes: one thread at a time is between          *)
(* gt_sem_wait(&mutex) and gt_sem_post(&mutex) of semaphore_test.c, for    *)
(* every number of threads and every scheduler.                            *)
THEOREM OneThreadInside == PCSpec => []MutualExclusion
  <1>1. SafeInv /\ SyncInv => MutualExclusion
    BY DEF SyncInv, MutexInv
  <1> QED
    BY <1>1, Synchronised, PTL

(* Waiting for items_count with mutex held never blocks.                   *)
THEOREM NobodyWaitsForItems == PCSpec => []InnerNeverBlocks
  <1>1. SafeInv /\ SyncInv => InnerNeverBlocks
    BY DEF SyncInv, ItemsInv
  <1> QED
    BY <1>1, Synchronised, PTL

(* main's loop of gt_schedule calls never comes to its end: the threads    *)
(* are never all Blocked.                                                  *)
THEOREM TheProgramGoesOn == PCSpec => []NeverExits
  <1>1. SafeInv /\ SyncInv => NeverExits
    BY DEF SyncInv, ThreadsInv, NeverExits
  <1> QED
    BY <1>1, Synchronised, PTL

-----------------------------------------------------------------------------
(* The items in the ring.                                                  *)

(* A step that leaves the ring alone and takes nobody into or out of the   *)
(* part of the loop where the ring is used.                                *)
LEMMA RingLeftAlone ==
    ASSUME BufferInv, UNCHANGED <<current_items, buffer>>,
           \A t \in Workers :
              /\ pc'[t] \in {"advance", "access"} => pc'[t] = pc[t]
              /\ pc[t] = "advance" => pc'[t] = pc[t]
              /\ pc'[t] \in {"count_unlock", "decide"} =>
                    pc[t] \in {"count_unlock", "decide"}
    PROVE  BufferInv'
  <1>1. /\ shared_buffer' = shared_buffer /\ current_items' = current_items
        /\ buffer_in' = buffer_in /\ buffer_out' = buffer_out
    BY DEF buffer
  <1>2. \A i \in 0 .. BUFFER_SIZE - 1 : Stored(i)' <=> Stored(i)
    BY <1>1 DEF Stored
  <1>3. Consumers \subseteq Workers /\ Producers \subseteq Workers
    BY ProgramAssumption DEF Consumers
  <1>4. \A i \in 0 .. BUFFER_SIZE - 1 : Stored(i)' =>
           \/ shared_buffer'[i] = "fresh"
           \/ i = buffer_out' /\ \E t \in Consumers : pc'[t] = "advance"
    BY <1>1, <1>2, <1>3 DEF BufferInv
  <1>5. \A t \in Producers : pc'[t] = "advance" => shared_buffer'[buffer_in'] = "fresh"
    BY <1>1, <1>3 DEF BufferInv
  <1>6. \A t \in Workers : pc'[t] \in {"count_unlock", "decide"} =>
           (current_items'[t] > 0 <=> buffer_in' # buffer_out')
    BY <1>1 DEF BufferInv
  <1>7. \A t \in Consumers : pc'[t] \in {"access", "advance"} => buffer_in' # buffer_out'
    BY <1>1, <1>3 DEF BufferInv
  <1> QED
    BY <1>4, <1>5, <1>6, <1>7 DEF BufferInv

(* One thread moves from a place past "lock", and the others are not in    *)
(* that part of the loop.                                                  *)
LEMMA Moves ==
    ASSUME SafeInv, SyncInv, NEW from, NEW to, from # "lock", Goto(from, to)
    PROVE  /\ Me \in Workers /\ pc[Me] = from /\ pc'[Me] = to
           /\ \A t \in Workers : t # Me =>
                pc'[t] = pc[t] /\ pc[t] \in {"lock", "count_lock"}
           /\ Consumers = Workers \ Producers /\ Producers \subseteq Workers
           /\ PCTypeOK
  <1>1. pc \in [Workers -> Labels]
    BY DEF SyncInv, PCTypeOK
  <1> QED
    BY <1>1, AloneInside, RunningWorker, ProgramAssumption
    DEF Goto, SyncInv, Consumers

LEMMA CountKeepsItems ==
    ASSUME SafeInv, SyncInv, BufferInv, NEW from \in {"count", "recount"},
           NEW to \in {"count_unlock", "recount_unlock"}, Count(from, to)
    PROVE  BufferInv'
  <1> DEFINE n == (buffer_in - buffer_out + BUFFER_SIZE) % BUFFER_SIZE
  <1>1. /\ Me \in Workers /\ pc'[Me] = to
        /\ \A t \in Workers : t # Me =>
             pc'[t] = pc[t] /\ pc[t] \in {"lock", "count_lock"}
        /\ Consumers = Workers \ Producers /\ Producers \subseteq Workers
        /\ PCTypeOK /\ pc[Me] = from
    BY Moves DEF Count
  <1>2. n > 0 <=> buffer_in # buffer_out
    BY <1>1, CountIsZero DEF PCTypeOK
  <1>3. current_items'[Me] = n
    BY <1>1 DEF Count, PCTypeOK
  <1> HIDE DEF n
  <1>4. /\ shared_buffer' = shared_buffer
        /\ buffer_in' = buffer_in /\ buffer_out' = buffer_out
    BY DEF Count, buffer
  <1> QED
    BY <1>1, <1>2, <1>3, <1>4 DEF BufferInv, Stored

LEMMA DecideKeepsItems ==
    ASSUME SafeInv, SyncInv, BufferInv, Decide
    PROVE  BufferInv'
  <1>1. PICK to \in {"retry", "access"} :
          Goto("decide", to) /\ (to = "access" => ~Refused)
    BY DEF Decide
  <1>2. /\ Me \in Workers /\ pc[Me] = "decide" /\ pc'[Me] = to
        /\ \A t \in Workers : t # Me =>
             pc'[t] = pc[t] /\ pc[t] \in {"lock", "count_lock"}
        /\ Consumers = Workers \ Producers /\ Producers \subseteq Workers
        /\ current_items[Me] \in Int
    BY <1>1, Moves DEF PCTypeOK
  <1>3. /\ shared_buffer' = shared_buffer
        /\ buffer_in' = buffer_in /\ buffer_out' = buffer_out
        /\ current_items' = current_items
    BY DEF Decide, buffer
  <1>4. Me \in Consumers /\ to = "access" => buffer_in # buffer_out
    BY <1>1, <1>2 DEF Refused, BufferInv
  <1> QED
    BY <1>1, <1>2, <1>3, <1>4 DEF BufferInv, Stored

LEMMA AccessKeepsItems ==
    ASSUME SafeInv, SyncInv, BufferInv, Access
    PROVE  BufferInv'
  <1>1. /\ Me \in Workers /\ pc[Me] = "access" /\ pc'[Me] = "advance"
        /\ \A t \in Workers : t # Me =>
             pc'[t] = pc[t] /\ pc[t] \in {"lock", "count_lock"}
        /\ Consumers = Workers \ Producers /\ Producers \subseteq Workers
        /\ PCTypeOK
    BY Moves DEF Access
  <1>2. buffer_in' = buffer_in /\ buffer_out' = buffer_out
    BY DEF Access
  <1>3. \A i \in 0 .. BUFFER_SIZE - 1 : Stored(i)' => shared_buffer[i] = "fresh"
    BY <1>1, <1>2 DEF BufferInv, Stored
  <1>4. CASE Me \in Producers
    <2>1. \A i \in 0 .. BUFFER_SIZE - 1 :
             shared_buffer'[i] = IF i = buffer_in THEN "fresh" ELSE shared_buffer[i]
      BY <1>1, <1>4 DEF Access, PCTypeOK
    <2>2. shared_buffer'[buffer_in'] = "fresh"
      BY <1>1, <1>2, <2>1 DEF PCTypeOK
    <2> QED
      BY <1>1, <1>2, <1>3, <1>4, <2>1, <2>2 DEF BufferInv
  <1>5. CASE Me \in Consumers
    <2>1. \A i \in 0 .. BUFFER_SIZE - 1 :
             shared_buffer'[i] = IF i = buffer_out THEN "used" ELSE shared_buffer[i]
      BY <1>1, <1>5 DEF Access, PCTypeOK
    <2>2. buffer_in # buffer_out
      BY <1>1, <1>5 DEF BufferInv
    <2> QED
      BY <1>1, <1>2, <1>3, <1>5, <2>1, <2>2 DEF BufferInv
  <1> QED
    BY <1>1, <1>4, <1>5

LEMMA AdvanceKeepsItems ==
    ASSUME SafeInv, SyncInv, BufferInv, Advance
    PROVE  BufferInv'
  <1>1. /\ Me \in Workers /\ pc[Me] = "advance" /\ pc'[Me] = "recount_lock"
        /\ \A t \in Workers : t # Me =>
             pc'[t] = pc[t] /\ pc[t] \in {"lock", "count_lock"}
        /\ Consumers = Workers \ Producers /\ Producers \subseteq Workers
        /\ PCTypeOK
    BY Moves DEF Advance
  <1>2. shared_buffer' = shared_buffer
    BY DEF Advance
  <1>3. BUFFER_SIZE \in Nat \ {0}
    BY ProgramAssumption
  <1> SUFFICES \A i \in 0 .. BUFFER_SIZE - 1 : Stored(i)' => shared_buffer[i] = "fresh"
    BY <1>1, <1>2 DEF BufferInv
  <1>4. CASE Me \in Producers
    <2>1. /\ buffer_out' = buffer_out
          /\ buffer_in' = IF buffer_in = BUFFER_SIZE - 1 THEN 0 ELSE buffer_in + 1
      BY <1>1, <1>4, NextCell DEF Advance, PCTypeOK
    <2>2. \A i \in 0 .. BUFFER_SIZE - 1 : Stored(i)' => Stored(i) \/ i = buffer_in
      BY <1>1, <1>3, <2>1 DEF Stored, PCTypeOK
    <2>3. shared_buffer[buffer_in] = "fresh"
      BY <1>1, <1>4 DEF BufferInv
    <2>4. \A i \in 0 .. BUFFER_SIZE - 1 : Stored(i) => shared_buffer[i] = "fresh"
      BY <1>1, <1>4 DEF BufferInv
    <2> QED
      BY <2>2, <2>3, <2>4
  <1>5. CASE Me \in Consumers
    <2>1. /\ buffer_in' = buffer_in
          /\ buffer_out' = IF buffer_out = BUFFER_SIZE - 1 THEN 0 ELSE buffer_out + 1
      BY <1>1, <1>5, NextCell DEF Advance, PCTypeOK
    <2>2. buffer_in # buffer_out
      BY <1>1, <1>5 DEF BufferInv
    <2>3. \A i \in 0 .. BUFFER_SIZE - 1 : Stored(i)' => Stored(i) /\ i # buffer_out
      BY <1>1, <1>3, <2>1, <2>2 DEF Stored, PCTypeOK
    <2> QED
      BY <2>3 DEF BufferInv
  <1> QED
    BY <1>1, <1>4, <1>5

LEMMA BufferStep ==
    ASSUME SafeInv, SyncInv, BufferInv, [PCNext]_allvars
    PROVE  BufferInv'
  <1>1. pc \in [Workers -> Labels]
    BY DEF SyncInv, PCTypeOK
  <1>2. CASE CreateThread \/ AwaitThreads \/ Preempt \/ UNCHANGED allvars
    <2>1. UNCHANGED program
      BY <1>2 DEF CreateThread, AwaitThreads, Preempt, allvars
    <2> QED
      BY <2>1, RingLeftAlone DEF program
  <1>3. ASSUME NEW s, NEW from, NEW to, Wait(s, from, to) \/ Post(s, from, to),
               from # "advance",
               to \notin {"advance", "access", "count_unlock"},
               to = "decide" => from = "count_unlock"
        PROVE  BufferInv'
    BY <1>1, <1>3, RingLeftAlone, RunningWorker DEF Wait, Post, Goto
  <1>4. CASE Count("count", "count_unlock") \/ Count("recount", "recount_unlock")
    BY <1>4, CountKeepsItems
  <1> QED
    BY <1>2, <1>3, <1>4, DecideKeepsItems, AccessKeepsItems, AdvanceKeepsItems
    DEF PCNext

(* A consumer that counted an item finds it in the cell it reads, not      *)
(* consumed yet: between its gt_sem_post(&items_count) and its read nobody  *)
(* but it can move buffer_out, whatever the buffer size and the number of      *)
(* threads.                                                                *)
THEOREM ItemsAreThere == PCSpec => []CountedItemIsThere
  <1>1. PCInit => BufferInv
    <2> SUFFICES ASSUME PCInit
                 PROVE  BufferInv
      OBVIOUS
    <2>1. /\ \A t \in Workers : pc[t] = "lock"
          /\ buffer_in = 0 /\ buffer_out = 0
      BY DEF PCInit
    <2> QED
      BY <2>1, ProgramAssumption DEF BufferInv, Stored, Consumers
  <1>2. SafeInv /\ SyncInv /\ BufferInv /\ [PCNext]_allvars => BufferInv'
    BY BufferStep
  <1>3. SafeInv /\ SyncInv /\ BufferInv => CountedItemIsThere
    <2> SUFFICES ASSUME SafeInv, SyncInv, BufferInv,
                        NEW t \in Consumers, pc[t] = "access"
                 PROVE  shared_buffer[buffer_out] = "fresh"
      BY DEF CountedItemIsThere
    <2>1. Consumers \subseteq Workers /\ PCTypeOK
      BY DEF Consumers, SyncInv
    <2>2. buffer_in # buffer_out
      BY DEF BufferInv
    <2>3. Stored(buffer_out) /\ buffer_out \in 0 .. BUFFER_SIZE - 1
      BY <2>1, <2>2 DEF Stored, PCTypeOK
    <2>4. \A u \in Consumers : pc[u] # "advance"
      BY <2>1 DEF SyncInv, ThreadsInv, MutexInv, MutualExclusion, InCritical
    <2> QED
      BY <2>3, <2>4 DEF BufferInv
  <1> QED
    BY <1>1, <1>2, <1>3, Synchronised, PTL DEF PCSpec

=============================================================================
