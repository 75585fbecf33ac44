----------------------------- MODULE Gthr_proofs -----------------------------
(* Theorems about Gthr, for every number of threads and semaphores.        *)
EXTENDS GthrStarvation, Sequences, WellFoundedInduction, FiniteSetTheorems, TLAPS

-----------------------------------------------------------------------------
(* The step of a ring index, without the modulo.                           *)
LEMMA NextSlotStep ==
    ASSUME NEW i \in Slots
    PROVE  /\ NextSlot(i) \in Slots
           /\ NextSlot(i) = IF i = MAX_BLOCKED_THREADS - 1 THEN 0 ELSE i + 1
  <1>1. MAX_G_THREADS \in Nat \ {0}
    BY SizesAssumption
  <1>2. CASE i = MAX_G_THREADS - 1
    BY <1>1, <1>2 DEF NextSlot, Slots, MAX_BLOCKED_THREADS
  <1>3. CASE i # MAX_G_THREADS - 1
    <2>1. i + 1 \in 0 .. MAX_G_THREADS - 1
      BY <1>1, <1>3 DEF Slots, MAX_BLOCKED_THREADS
    <2>2. (i + 1) % MAX_G_THREADS = i + 1
      BY <1>1, <2>1
    <2> QED
      BY <1>1, <1>3, <2>1, <2>2 DEF NextSlot, Slots, MAX_BLOCKED_THREADS
  <1> QED
    BY <1>2, <1>3

(* Whatever the scheduler picks is a thread that is Ready.                 *)
LEMMA PicksAreReady ==
    ASSUME NEW st, NEW sc, NEW pr
    PROVE  Picks(st, sc, pr) \subseteq ReadyIn(st)
  BY DEF Picks, round_robin_schedule, priority_schedule, lottery_schedule,
         MostStarved, BestPriority, Critical, Eligible

(* update_starvation_counters keeps the counters and priorities in range.  *)
LEMMA StarvationUpdateType ==
    ASSUME TypeOK, NEW st
    PROVE  /\ StarvationUpdate(st) \in [Threads -> Nat]
           /\ PriorityUpdate(st, StarvationUpdate(st))
                \in [Threads -> MIN_PRIORITY - 1 .. MAX_PRIORITY]
  <1>1. StarvationUpdate(st) \in [Threads -> Nat]
    BY DEF TypeOK, StarvationUpdate
  <1>2. ASSUME NEW t \in Threads, NEW count \in Nat
        PROVE  BoostedPriority(t, count) \in MIN_PRIORITY - 1 .. MAX_PRIORITY
    <2>1. original_priority[t] \in MIN_PRIORITY .. MAX_PRIORITY
      BY DEF TypeOK
    <2> QED
      BY <2>1, SizesAssumption DEF BoostedPriority
  <1>3. \A t \in Threads :
          /\ original_priority[t] \in MIN_PRIORITY - 1 .. MAX_PRIORITY
          /\ priority[t] \in MIN_PRIORITY - 1 .. MAX_PRIORITY
    BY SizesAssumption DEF TypeOK
  <1>4. PriorityUpdate(st, StarvationUpdate(st))
          \in [Threads -> MIN_PRIORITY - 1 .. MAX_PRIORITY]
    <2>1. CASE gt_current_scheduler # "PRI"
      BY <2>1 DEF PriorityUpdate, TypeOK
    <2>2. CASE gt_current_scheduler = "PRI"
      <3>1. \A t \in Threads : StarvationUpdate(st)[t] \in Nat
        BY <1>1
      <3> QED
        BY <1>2, <1>3, <3>1, <2>2 DEF PriorityUpdate
    <2> QED
      BY <2>1, <2>2
  <1> QED
    BY <1>1, <1>4

(* gt_schedule, called with well-typed states, keeps every type.           *)
LEMMA ScheduleType ==
    ASSUME TypeOK,
           NEW st \in [Threads -> {"Unused", "Running", "Ready", "Blocked"}],
           gt_schedule(st)
    PROVE  /\ state' \in [Threads -> {"Unused", "Running", "Ready", "Blocked"}]
           /\ priority' \in [Threads -> MIN_PRIORITY - 1 .. MAX_PRIORITY]
           /\ original_priority' \in [Threads -> MIN_PRIORITY .. MAX_PRIORITY]
           /\ starvation_count' \in [Threads -> Nat]
           /\ tickets' \in [Threads -> Nat]
           /\ gt_current' \in Threads
           /\ gt_current_scheduler' \in AllSchedulers
           /\ round_robin_index' \in Threads
  <1> DEFINE sc == StarvationUpdate(st)
             pr == PriorityUpdate(st, sc)
             picks == Picks(st, sc, pr)
  <1>1. picks \subseteq Threads
    BY PicksAreReady DEF ReadyIn
  <1>2. /\ starvation_count' = sc
        /\ priority' = pr
        /\ UNCHANGED <<original_priority, tickets, gt_current_scheduler>>
    BY DEF gt_schedule
  <1>3. \/ \E p \in picks : SwitchTo(p, st) /\ round_robin_index' \in {p, round_robin_index}
        \/ state' = st /\ UNCHANGED <<gt_current, round_robin_index>>
    BY DEF gt_schedule
  <1>4. /\ state' \in [Threads -> {"Unused", "Running", "Ready", "Blocked"}]
        /\ gt_current' \in Threads
        /\ round_robin_index' \in Threads
    <2>1. CASE \E p \in picks : SwitchTo(p, st) /\ round_robin_index' \in {p, round_robin_index}
      BY <1>1, <2>1 DEF SwitchTo, TypeOK
    <2>2. CASE state' = st /\ UNCHANGED <<gt_current, round_robin_index>>
      BY <2>2 DEF TypeOK
    <2> QED
      BY <1>3, <2>1, <2>2
  <1> QED
    BY <1>2, <1>4, StarvationUpdateType DEF TypeOK

(* Every operation keeps every variable in its range, and a created thread *)
(* gets a clamped priority and at least one ticket.                        *)
THEOREM TypeCorrect == Spec => []TypeOK
  <1>1. Init => TypeOK
    BY SizesAssumption, ClientsAssumption
    DEF Init, gt_init, gt_sem_init, TypeOK, SemRecords, Threads, Main, Slots,
        MAX_BLOCKED_THREADS, AllSchedulers
  <1>2. TypeOK /\ [Next]_vars => TypeOK'
    <2> SUFFICES ASSUME TypeOK, [Next]_vars
                 PROVE  TypeOK'
      OBVIOUS
    <2>1. CASE gt_create
      <3>1. \A p \in PriorityChoices : ClampedPriority(p) \in MIN_PRIORITY .. MAX_PRIORITY
        BY SizesAssumption, ClientsAssumption DEF ClampedPriority
      <3>2. \A p \in PriorityChoices : ClampedPriority(p) \in MIN_PRIORITY - 1 .. MAX_PRIORITY
        BY <3>1, SizesAssumption
      <3>3. \A k \in TicketChoices : (IF k > 0 THEN k ELSE 1) \in Nat
        BY ClientsAssumption
      <3> QED
        BY <2>1, <3>1, <3>2, <3>3 DEF gt_create, FreeSlots, TypeOK
    <2>2. CASE gt_alarm_handle
      BY <2>2, ScheduleType DEF gt_alarm_handle, TypeOK
    <2>3. ASSUME NEW s \in Sems, SemTake(s)
          PROVE  TypeOK'
      BY <2>3 DEF SemTake, TypeOK, SemRecords, table
    <2>4. ASSUME NEW s \in Sems, SemBlock(s)
          PROVE  TypeOK'
      <3> DEFINE st == [state EXCEPT ![gt_current] = "Blocked"]
      <3>1. st \in [Threads -> {"Unused", "Running", "Ready", "Blocked"}]
        BY DEF TypeOK
      <3>2. sem[s] \in SemRecords /\ NextSlot(sem[s].tail) \in Slots
        BY NextSlotStep DEF TypeOK, SemRecords
      <3>3. sem' \in [Sems -> SemRecords]
        BY <2>4, <3>2 DEF SemBlock, TypeOK, SemRecords
      <3> QED
        BY <2>4, <3>1, <3>3, ScheduleType DEF SemBlock, TypeOK
    <2>5. ASSUME NEW s \in Sems, gt_sem_post(s)
          PROVE  TypeOK'
      <3>1. sem[s] \in SemRecords /\ NextSlot(sem[s].head) \in Slots
        BY NextSlotStep DEF TypeOK, SemRecords
      <3>2. sem' \in [Sems -> SemRecords]
        <4>1. CASE sem[s].value + 1 <= 0 /\ sem[s].wait_count > 0
          <5>1. sem' = [sem EXCEPT ![s].value = @ + 1,
                                   ![s].head = NextSlot(@),
                                   ![s].wait_count = @ - 1]
            BY <2>5, <4>1 DEF gt_sem_post
          <5> QED
            BY <3>1, <5>1 DEF TypeOK, SemRecords
        <4>2. CASE ~(sem[s].value + 1 <= 0 /\ sem[s].wait_count > 0)
          <5>1. sem' = [sem EXCEPT ![s].value = @ + 1]
            BY <2>5, <4>2 DEF gt_sem_post
          <5> QED
            BY <3>1, <5>1 DEF TypeOK, SemRecords
        <4> QED
          BY <4>1, <4>2
      <3>3. state' \in [Threads -> {"Unused", "Running", "Ready", "Blocked"}]
        BY <2>5 DEF gt_sem_post, TypeOK
      <3> QED
        BY <2>5, <3>2, <3>3 DEF gt_sem_post, TypeOK, table
    <2>6. CASE WorkerReturn
      <3> DEFINE st == [state EXCEPT ![gt_current] = "Unused"]
      <3>1. st \in [Threads -> {"Unused", "Running", "Ready", "Blocked"}]
        BY DEF TypeOK
      <3> QED
        BY <2>6, <3>1, ScheduleType DEF WorkerReturn, TypeOK
    <2>7. CASE MainReturn
      BY <2>7, ScheduleType DEF MainReturn, TypeOK
    <2>8. CASE Stopped \/ UNCHANGED vars
      BY <2>8 DEF Stopped, vars, table, TypeOK
    <2>9. CASE FreeTraps
      BY <2>9 DEF FreeTraps, table, TypeOK
    <2> QED
      BY <2>1, <2>2, <2>3, <2>4, <2>5, <2>6, <2>7, <2>8, <2>9 DEF Next, gt_sem_wait, gt_return
  <1> QED
    BY <1>1, <1>2, PTL DEF Spec

-----------------------------------------------------------------------------
(* A scheduler finds a thread whenever one is Ready.  Each search is a     *)
(* lexicographic minimum, which exists because Nat is well-founded.        *)
LEMMA NatMin ==
    ASSUME NEW T, T \subseteq Nat, T # {}
    PROVE  \E x \in T : \A y \in T : x <= y
  <1>1. \E x \in T : \A y \in T : ~ (<<y, x>> \in OpToRel(<, Nat))
    BY WFMin, NatLessThanWellFounded
  <1>2. ASSUME NEW x \in T, NEW y \in T, <<y, x>> \notin OpToRel(<, Nat)
        PROVE  x <= y
    BY <1>2 DEF OpToRel
  <1> QED
    BY <1>1, <1>2

LEMMA LexicographicMin ==
    ASSUME NEW S, S # {}, NEW f \in [S -> Nat], NEW g \in [S -> Nat]
    PROVE  \E t \in S : \A u \in S : f[t] < f[u] \/ (f[t] = f[u] /\ g[t] <= g[u])
  <1>1. PICK t1 \in S : \A u \in S : f[t1] <= f[u]
    <2> DEFINE V == {f[t] : t \in S}
    <2>1. V \subseteq Nat /\ V # {}
      OBVIOUS
    <2>2. PICK m \in V : \A n \in V : m <= n
      BY <2>1, NatMin
    <2> QED
      BY <2>2
  <1> DEFINE L == {t \in S : f[t] = f[t1]}
             W == {g[t] : t \in L}
  <1>2. W \subseteq Nat /\ W # {}
    OBVIOUS
  <1>3. PICK m \in W : \A n \in W : m <= n
    BY <1>2, NatMin
  <1>4. PICK t2 \in L : g[t2] = m
    BY <1>3
  <1>5. ASSUME NEW u \in S
        PROVE  f[t2] < f[u] \/ (f[t2] = f[u] /\ g[t2] <= g[u])
    <2>1. CASE f[u] = f[t1]
      BY <1>3, <1>4, <2>1
    <2>2. CASE f[u] # f[t1]
      BY <1>1, <1>4, <2>2
    <2> QED
      BY <2>1, <2>2
  <1> QED
    BY <1>4, <1>5

(* Finitely many counters have a common bound: the least number of slots   *)
(* without one cannot exist.                                               *)
LEMMA CountersBounded ==
    ASSUME NEW f \in [Threads -> Nat]
    PROVE  \E b \in Nat : \A t \in Threads : f[t] <= b
  <1> DEFINE Below(k) == {t \in Threads : t < k}
             Unbounded == {k \in 0 .. MAX_G_THREADS :
                             \A b \in Nat : \E t \in Below(k) : f[t] > b}
  <1>0. MAX_G_THREADS \in Nat \ {0}
    BY SizesAssumption
  <1>1. ASSUME Unbounded # {}
        PROVE  FALSE
    <2>1. Unbounded \subseteq Nat
      BY <1>0
    <2>2. PICK k \in Unbounded : \A j \in Unbounded : k <= j
      BY <1>1, <2>1, NatMin
    <2>3. k # 0
      <3>1. Below(0) = {}
        BY <1>0 DEF Threads
      <3>2. \A j \in Unbounded : \E t \in Below(j) : f[t] > 0
        OBVIOUS
      <3> HIDE DEF Below, Unbounded
      <3>3. \E t \in Below(k) : TRUE
        BY <2>2, <3>2
      <3> QED
        BY <3>1, <3>3
    <2>4. k \in 0 .. MAX_G_THREADS /\ k - 1 \in 0 .. MAX_G_THREADS /\ k - 1 < k
      BY <1>0, <2>2, <2>3
    <2>5. k - 1 \notin Unbounded
      <3> HIDE DEF Unbounded
      <3> QED
        BY <2>2, <2>4
    <2>6. PICK b \in Nat : \A t \in Below(k - 1) : ~(f[t] > b)
      <3> HIDE DEF Below
      <3> QED
        BY <2>4, <2>5
    <2>7. k - 1 \in Threads /\ f[k - 1] \in Nat
      <3>1. k - 1 \in Threads
        <4> HIDE DEF Unbounded
        <4> QED
          BY <1>0, <2>3, <2>4 DEF Threads
      <3> QED
        BY <3>1
    <2> DEFINE c == IF f[k - 1] > b THEN f[k - 1] ELSE b
    <2>8. c \in Nat /\ c >= b /\ c >= f[k - 1]
      <3>1. b \in Nat
        OBVIOUS
      <3> QED
        BY <2>7, <3>1
    <2>9. ASSUME NEW t \in Below(k)
          PROVE  ~(f[t] > c)
      <3>1. t = k - 1 \/ t \in Below(k - 1)
        BY <1>0, <2>4 DEF Threads
      <3>2. f[t] \in Nat
        OBVIOUS
      <3> HIDE DEF c
      <3>3. CASE t = k - 1
        BY <2>8, <3>2, <3>3
      <3>4. CASE t \in Below(k - 1)
        <4>1. ~(f[t] > b)
          BY <2>6, <3>4
        <4> QED
          BY <2>6, <2>8, <3>2, <4>1
      <3> QED
        BY <3>1, <3>3, <3>4
    <2>10. \A d \in Nat : \E t \in Below(k) : f[t] > d
      BY <2>2
    <2> HIDE DEF c, Below
    <2> QED
      BY <2>8, <2>9, <2>10
  <1>2. MAX_G_THREADS \in 0 .. MAX_G_THREADS /\ MAX_G_THREADS \notin Unbounded
    <2> HIDE DEF Unbounded
    <2> QED
      BY <1>0, <1>1
  <1>3. PICK b \in Nat : \A t \in Below(MAX_G_THREADS) : ~(f[t] > b)
    BY <1>2
  <1>4. Below(MAX_G_THREADS) = Threads
    BY <1>0 DEF Threads
  <1> QED
    BY <1>3, <1>4

(* The three searches of gthr.c:117-208 return a thread as soon as one is  *)
(* Ready: the limit of the super boost (l. 238) is the limit of the        *)
(* critical search (l. 180), so no Ready thread falls between the passes.  *)
LEMMA SchedulerFinds ==
    ASSUME TypeOK, NEW st, ReadyIn(st) # {},
           \A t \in ReadyIn(st) : tickets[t] > 0
    PROVE  ScheduleFinds(st)
  <1> DEFINE sc == StarvationUpdate(st)
             pr == PriorityUpdate(st, sc)
             R == ReadyIn(st)
  <1>1. /\ sc \in [Threads -> Nat]
        /\ pr \in [Threads -> MIN_PRIORITY - 1 .. MAX_PRIORITY]
        /\ R \subseteq Threads
    BY StarvationUpdateType DEF ReadyIn
  <1>2. \A t \in Threads : SearchStep(t) \in Nat
    BY SizesAssumption DEF SearchStep, TypeOK, Threads
  <1> HIDE DEF sc, pr, R
  <1>3. CASE gt_current_scheduler = "RR"
    <2> DEFINE f == [t \in R |-> SearchStep(t)]
    <2>1. f \in [R -> Nat]
      BY <1>1, <1>2
    <2>2. PICK t \in R : \A u \in R : f[t] < f[u] \/ (f[t] = f[u] /\ f[t] <= f[u])
      BY <2>1, LexicographicMin DEF R
    <2>3. \A u \in R : SearchStep(t) <= SearchStep(u)
      BY <1>1, <1>2, <2>2
    <2> QED
      BY <1>3, <2>3 DEF ScheduleFinds, Picks, round_robin_schedule, R
  <1>4. CASE gt_current_scheduler = "PRI" /\ Critical(st, sc) # {}
    <2> DEFINE C == Critical(st, sc)
    <2>1. C \subseteq Threads /\ C # {}
      BY <1>4 DEF Critical, ReadyIn
    <2>2. PICK b \in Nat : \A t \in Threads : sc[t] <= b
      BY <1>1, CountersBounded
    <2> HIDE DEF C
    <2> DEFINE f == [t \in C |-> b - sc[t]]
               g == [t \in C |-> t]
    <2>3. f \in [C -> Nat] /\ g \in [C -> Nat]
      BY <1>1, <2>1, <2>2, SizesAssumption DEF Threads
    <2>4. PICK t \in C : \A u \in C : f[t] < f[u] \/ (f[t] = f[u] /\ g[t] <= g[u])
      <3> HIDE DEF f, g
      <3> QED
        BY <2>1, <2>3, LexicographicMin
    <2>5. ASSUME NEW u \in C
          PROVE  sc[u] < sc[t] \/ (sc[u] = sc[t] /\ t <= u)
      <3>1. sc[t] \in Nat /\ sc[u] \in Nat
        BY <1>1, <2>1
      <3>2. (b - sc[t] < b - sc[u]) \/ (b - sc[t] = b - sc[u] /\ t <= u)
        BY <2>4
      <3> QED
        BY <2>2, <3>1, <3>2
    <2>6. t \in MostStarved(st, sc)
      BY <2>5 DEF MostStarved, C
    <2> QED
      BY <1>4, <2>6 DEF ScheduleFinds, Picks, priority_schedule, sc
  <1>5. CASE gt_current_scheduler = "PRI" /\ Critical(st, sc) = {}
    <2>1. ASSUME NEW t \in R
          PROVE  pr[t] \in MIN_PRIORITY .. MAX_PRIORITY
      <3>1. t \in Threads /\ st[t] = "Ready"
        BY DEF R, ReadyIn
      <3>2. sc[t] \in Nat /\ ~(sc[t] > STARVATION_LIMIT)
        BY <1>1, <1>5, <3>1 DEF Critical, ReadyIn
      <3>3. pr[t] = BoostedPriority(t, sc[t])
        BY <1>5, <3>1 DEF pr, PriorityUpdate
      <3>4. original_priority[t] \in MIN_PRIORITY .. MAX_PRIORITY
        BY <3>1 DEF TypeOK
      <3> QED
        BY <3>2, <3>3, <3>4, SizesAssumption DEF BoostedPriority
    <2>2. Eligible(st, pr) = R
      BY <2>1 DEF Eligible, R
    <2> DEFINE f == [t \in R |-> pr[t] - MIN_PRIORITY]
               g == [t \in R |-> SearchStep(t)]
    <2>3. f \in [R -> Nat] /\ g \in [R -> Nat]
      BY <1>1, <1>2, <2>1, SizesAssumption
    <2>4. PICK t \in R : \A u \in R : f[t] < f[u] \/ (f[t] = f[u] /\ g[t] <= g[u])
      <3> HIDE DEF f, g
      <3> QED
        BY <2>3, LexicographicMin DEF R
    <2>5. ASSUME NEW u \in R
          PROVE  pr[t] < pr[u] \/ (pr[t] = pr[u] /\ SearchStep(t) <= SearchStep(u))
      <3>1. pr[t] \in Int /\ pr[u] \in Int
        BY <2>1, SizesAssumption
      <3>2. \/ pr[t] - MIN_PRIORITY < pr[u] - MIN_PRIORITY
            \/ pr[t] - MIN_PRIORITY = pr[u] - MIN_PRIORITY /\ SearchStep(t) <= SearchStep(u)
        BY <2>4
      <3> QED
        BY <3>1, <3>2, SizesAssumption
    <2>6. t \in BestPriority(st, pr)
      BY <2>2, <2>5 DEF BestPriority
    <2> QED
      BY <1>5, <2>6 DEF ScheduleFinds, Picks, priority_schedule, sc, pr
  <1>6. CASE gt_current_scheduler = "LS"
    <2>1. lottery_schedule(st) = R
      BY DEF lottery_schedule, R, ReadyIn
    <2> QED
      BY <1>6, <2>1 DEF ScheduleFinds, Picks, R
  <1> QED
    BY <1>3, <1>4, <1>5, <1>6 DEF TypeOK, AllSchedulers

-----------------------------------------------------------------------------
(* The wait queue of one semaphore.                                        *)
LEMMA ModWrap ==
    ASSUME NEW x \in 0 .. 2 * MAX_G_THREADS - 1
    PROVE  x % MAX_G_THREADS = IF x < MAX_G_THREADS THEN x ELSE x - MAX_G_THREADS
  <1>1. MAX_G_THREADS \in Nat \ {0}
    BY SizesAssumption
  <1>2. CASE x < MAX_G_THREADS
    <2>1. x \in 0 .. MAX_G_THREADS - 1
      BY <1>1, <1>2
    <2>2. x % MAX_G_THREADS = x
      BY <1>1, <2>1
    <2> QED
      BY <1>2, <2>2
  <1>3. CASE ~(x < MAX_G_THREADS)
    <2>1. x \in MAX_G_THREADS .. 2 * MAX_G_THREADS - 1
      BY <1>1, <1>3
    <2>2. x % MAX_G_THREADS = x - MAX_G_THREADS
      BY <1>1, <2>1
    <2> QED
      BY <1>3, <2>2
  <1> QED
    BY <1>2, <1>3

LEMMA WrapSum ==
    ASSUME NEW a \in 0 .. MAX_G_THREADS - 1, NEW b \in 0 .. MAX_G_THREADS
    PROVE  (a + b) % MAX_G_THREADS
             = IF a + b < MAX_G_THREADS THEN a + b ELSE a + b - MAX_G_THREADS
  <1>1. a + b \in 0 .. 2 * MAX_G_THREADS - 1
    BY SizesAssumption
  <1> QED
    BY <1>1, ModWrap, SizesAssumption

(* wait_queue has room for the thread that blocks: were every slot taken   *)
(* by a thread of its own, the blocking thread would be queued already.    *)
LEMMA RoomForOne ==
    ASSUME NEW q \in SemRecords, Consistent(q), Waiters(q) \subseteq Threads,
           NEW c \in Threads, c \notin Waiters(q)
    PROVE  q.wait_count < MAX_BLOCKED_THREADS
  <1> SUFFICES ASSUME q.wait_count = MAX_BLOCKED_THREADS
               PROVE  FALSE
    BY SizesAssumption DEF Consistent, MAX_BLOCKED_THREADS
  <1>1. WaitingSlots(q) = Slots
    BY SizesAssumption DEF WaitingSlots, Distance, SemRecords, Slots, MAX_BLOCKED_THREADS
  <1> DEFINE f == [i \in Slots |-> q.wait_queue[i]]
  <1>2. f \in Injection(Slots, Threads)
    <2>1. f \in [Slots -> Threads]
      BY <1>1 DEF Waiters
    <2>2. \A i, j \in Slots : f[i] = f[j] => i = j
      BY <1>1 DEF Consistent
    <2> QED
      BY <2>1, <2>2 DEF Injection, IsInjective
  <1>3. Slots = Threads /\ IsFiniteSet(Threads)
    BY SizesAssumption, FS_Interval DEF Slots, Threads, MAX_BLOCKED_THREADS
  <1>4. f \in Surjection(Slots, Threads)
    BY <1>2, <1>3, FS_Injection
  <1>5. \E i \in Slots : q.wait_queue[i] = c
    BY <1>4 DEF Surjection
  <1> QED
    BY <1>1, <1>5 DEF Waiters

(* gthr.c:53, 73-75.                                                       *)
LEMMA Enqueue ==
    ASSUME NEW q \in SemRecords, Consistent(q), Waiters(q) \subseteq Threads,
           NEW c \in Threads, c \notin Waiters(q), q.value <= 0,
           NEW r \in SemRecords,
           r.value = q.value - 1,
           r.wait_queue = [q.wait_queue EXCEPT ![q.tail] = c],
           r.head = q.head,
           r.tail = NextSlot(q.tail),
           r.wait_count = q.wait_count + 1
    PROVE  Consistent(r) /\ Waiters(r) = Waiters(q) \cup {c}
  <1> DEFINE N == MAX_G_THREADS
             n == q.wait_count
             h == q.head
  <1>0. n < MAX_BLOCKED_THREADS
    BY RoomForOne
  <1>1. N \in Nat \ {0} /\ n \in 0 .. N - 1 /\ h \in 0 .. N - 1
    BY <1>0, SizesAssumption DEF Consistent, SemRecords, Slots, MAX_BLOCKED_THREADS
  <1>2. q.tail = IF h + n < N THEN h + n ELSE h + n - N
    <2>1. q.tail = (h + n) % N
      BY DEF Consistent, MAX_BLOCKED_THREADS
    <2>2. h \in 0 .. N - 1 /\ n \in 0 .. N
      BY <1>1
    <2>3. (h + n) % N = IF h + n < N THEN h + n ELSE h + n - N
      BY <2>2, WrapSum
    <2> QED
      BY <2>1, <2>3
  <1>3. q.tail \in Slots /\ Distance(q, q.tail) = n
    BY <1>1, <1>2 DEF Distance, Slots, MAX_BLOCKED_THREADS
  <1>4. \A i \in Slots : Distance(q, i) = n => i = q.tail
    BY <1>1, <1>2 DEF Distance, Slots, MAX_BLOCKED_THREADS
  <1>5. \A i \in Slots : Distance(r, i) = Distance(q, i) /\ Distance(q, i) \in Int
    BY <1>1 DEF Distance, Slots, MAX_BLOCKED_THREADS
  <1>6. WaitingSlots(r) = WaitingSlots(q) \cup {q.tail} /\ q.tail \notin WaitingSlots(q)
    <2>1. \A i \in Slots : Distance(r, i) < r.wait_count
             <=> Distance(q, i) < n \/ i = q.tail
      BY <1>1, <1>3, <1>4, <1>5
    <2> QED
      BY <1>1, <1>3, <2>1 DEF WaitingSlots
  <1>7. /\ r.wait_queue[q.tail] = c
        /\ \A i \in WaitingSlots(q) : r.wait_queue[i] = q.wait_queue[i]
    <2>1. q.wait_queue \in [Slots -> Threads \cup {NoThread}]
      BY DEF SemRecords
    <2> QED
      BY <1>3, <1>6, <2>1 DEF WaitingSlots
  <1>8. Waiters(r) = Waiters(q) \cup {c}
    BY <1>6, <1>7 DEF Waiters
  <1>9. \A i, j \in WaitingSlots(r) : r.wait_queue[i] = r.wait_queue[j] => i = j
    BY <1>6, <1>7 DEF Waiters, Consistent
  <1>10. r.tail = (r.head + r.wait_count) % N
    <2>1. r.tail = IF q.tail = N - 1 THEN 0 ELSE q.tail + 1
      BY <1>3, NextSlotStep DEF MAX_BLOCKED_THREADS
    <2>2. (h + (n + 1)) % N = IF h + (n + 1) < N THEN h + (n + 1) ELSE h + (n + 1) - N
      BY <1>1, ModWrap
    <2> QED
      BY <1>1, <1>2, <2>1, <2>2
  <1>11. r.wait_count = (IF r.value < 0 THEN -r.value ELSE 0) /\ r.wait_count \in 0 .. N
    BY <1>1 DEF Consistent, SemRecords
  <1> QED
    BY <1>8, <1>9, <1>10, <1>11 DEF Consistent, MAX_BLOCKED_THREADS

(* gthr.c:87, 91-93.                                                       *)
LEMMA Dequeue ==
    ASSUME NEW q \in SemRecords, Consistent(q), q.wait_count > 0,
           NEW r \in SemRecords,
           r.value = q.value + 1,
           r.wait_queue = q.wait_queue,
           r.head = NextSlot(q.head),
           r.tail = q.tail,
           r.wait_count = q.wait_count - 1
    PROVE  /\ Consistent(r)
           /\ q.wait_queue[q.head] \in Waiters(q)
           /\ Waiters(r) = Waiters(q) \ {q.wait_queue[q.head]}
  <1> DEFINE N == MAX_G_THREADS
             n == q.wait_count
             h == q.head
  <1>1. N \in Nat \ {0} /\ n \in 1 .. N /\ h \in 0 .. N - 1
    BY SizesAssumption DEF Consistent, SemRecords, Slots, MAX_BLOCKED_THREADS
  <1>2. r.head = IF h = N - 1 THEN 0 ELSE h + 1
    BY <1>1, NextSlotStep DEF MAX_BLOCKED_THREADS, Slots
  <1>3. Distance(q, h) = 0 /\ Distance(r, h) = N - 1
    BY <1>1, <1>2 DEF Distance, MAX_BLOCKED_THREADS
  <1>4. \A i \in Slots : i # h => /\ Distance(q, i) \in Int
                                 /\ Distance(r, i) = Distance(q, i) - 1
    BY <1>1, <1>2 DEF Distance, Slots, MAX_BLOCKED_THREADS
  <1>5. WaitingSlots(r) = WaitingSlots(q) \ {h} /\ h \in WaitingSlots(q)
    <2>1. ASSUME NEW i \in Slots
          PROVE  Distance(r, i) < n - 1 <=> Distance(q, i) < n /\ i # h
      <3>1. CASE i = h
        BY <1>1, <1>3, <3>1
      <3>2. CASE i # h
        BY <1>1, <1>4, <3>2
      <3> QED
        BY <3>1, <3>2
    <2> QED
      BY <1>1, <1>3, <2>1 DEF WaitingSlots, Slots, MAX_BLOCKED_THREADS
  <1>6. /\ q.wait_queue[h] \in Waiters(q)
        /\ Waiters(r) = Waiters(q) \ {q.wait_queue[h]}
    BY <1>5 DEF Waiters, Consistent
  <1>7. \A i, j \in WaitingSlots(r) : r.wait_queue[i] = r.wait_queue[j] => i = j
    BY <1>5 DEF Consistent
  <1>8. r.tail = (r.head + r.wait_count) % N
    <2>1. q.tail = IF h + n < N THEN h + n ELSE h + n - N
      <3>1. q.tail = (h + n) % N
        BY DEF Consistent, MAX_BLOCKED_THREADS
      <3>2. h \in 0 .. N - 1 /\ n \in 0 .. N
        BY <1>1
      <3>3. (h + n) % N = IF h + n < N THEN h + n ELSE h + n - N
        BY <3>2, WrapSum
      <3> QED
        BY <3>1, <3>3
    <2>2. r.head \in 0 .. N - 1 /\ r.wait_count \in 0 .. N /\ r.wait_count = n - 1
      BY <1>1, <1>2
    <2>3. (r.head + r.wait_count) % N
            = IF r.head + r.wait_count < N THEN r.head + r.wait_count
                                           ELSE r.head + r.wait_count - N
      BY <2>2, WrapSum
    <2>4. q.tail = IF r.head + r.wait_count < N THEN r.head + r.wait_count
                                                ELSE r.head + r.wait_count - N
      BY <1>1, <1>2, <2>1, <2>2
    <2> QED
      BY <2>3, <2>4
  <1>9. r.wait_count = (IF r.value < 0 THEN -r.value ELSE 0) /\ r.wait_count \in 0 .. N
    BY <1>1 DEF Consistent, SemRecords
  <1> QED
    BY <1>6, <1>7, <1>8, <1>9 DEF Consistent, MAX_BLOCKED_THREADS

(* A change of a value that stays non-negative leaves the queue empty.     *)
LEMMA NoQueue ==
    ASSUME NEW q \in SemRecords, Consistent(q), q.value >= 0,
           NEW r \in SemRecords,
           r.value >= 0,
           r.wait_queue = q.wait_queue,
           r.head = q.head,
           r.tail = q.tail,
           r.wait_count = q.wait_count
    PROVE  Consistent(r) /\ Waiters(r) = Waiters(q)
  <1>1. WaitingSlots(r) = WaitingSlots(q)
    BY DEF WaitingSlots, Distance
  <1>2. q.value \in Int /\ r.value \in Int
    BY DEF SemRecords
  <1> QED
    BY <1>1, <1>2 DEF Consistent, Waiters

-----------------------------------------------------------------------------
(* The inductive invariant: besides the properties themselves it says that *)
(* every thread in use has a ticket, so that the lottery finds it.         *)
TicketsHeld == \A t \in Threads : state[t] # "Unused" => tickets[t] > 0

SafeInv ==
    /\ TypeOK
    /\ RunningIsCurrent
    /\ RingConsistent
    /\ BlockedIsQueued
    /\ MainNeverLost
    /\ NeverAborted
    /\ TicketsHeld

(* What gt_schedule does to the states: it moves Running and leaves Blocked *)
(* and Unused alone; it fails only when nobody is Ready.                   *)
LEMMA ScheduleEffect ==
    ASSUME TypeOK,
           NEW st \in [Threads -> {"Unused", "Running", "Ready", "Blocked"}],
           \A t \in Threads : st[t] = "Running" => t = gt_current,
           \A t \in Threads : st[t] # "Unused" => tickets[t] > 0,
           ReadyIn(st) # {} \/ st[gt_current] = "Running",
           gt_schedule(st)
    PROVE  /\ \A t \in Threads :
                /\ state'[t] = "Running" <=> t = gt_current'
                /\ state'[t] = "Blocked" <=> st[t] = "Blocked"
                /\ state'[t] = "Unused" <=> st[t] = "Unused"
           /\ tickets' = tickets
           /\ ReadyIn(st) # {} => ScheduleFinds(st)
           /\ ~ScheduleFinds(st) => state' = st /\ gt_current' = gt_current
  <1> DEFINE sc == StarvationUpdate(st)
             picks == Picks(st, sc, PriorityUpdate(st, sc))
  <1>1. ReadyIn(st) # {} => ScheduleFinds(st)
    BY SchedulerFinds DEF ReadyIn
  <1>2. tickets' = tickets
    BY DEF gt_schedule
  <1>3. CASE ScheduleFinds(st)
    <2>1. picks # {} /\ picks \subseteq ReadyIn(st)
      BY <1>3, PicksAreReady DEF ScheduleFinds
    <2>2. PICK p \in picks : SwitchTo(p, st)
      BY <2>1 DEF gt_schedule
    <2>3. p \in Threads /\ st[p] = "Ready"
      BY <2>1 DEF ReadyIn
    <2>4. gt_current \in Threads
      BY DEF TypeOK
    <2>5. /\ gt_current' = p
          /\ \A t \in Threads : state'[t] =
                IF t = p THEN "Running"
                ELSE IF t = gt_current /\ st[t] \notin {"Unused", "Blocked"} THEN "Ready"
                ELSE st[t]
      BY <2>2, <2>3, <2>4 DEF SwitchTo
    <2> QED
      BY <1>1, <1>2, <1>3, <2>3, <2>5
  <1>4. CASE ~ScheduleFinds(st)
    <2>1. picks = {}
      BY <1>4 DEF ScheduleFinds
    <2>2. state' = st /\ gt_current' = gt_current
      BY <2>1 DEF gt_schedule
    <2>3. st[gt_current] = "Running"
      BY <1>1, <1>4
    <2> QED
      BY <1>1, <1>2, <1>4, <2>2, <2>3
  <1> QED
    BY <1>3, <1>4

(* Outside gt_sem_wait and gt_sem_post the queues and the set of Blocked   *)
(* threads stay what they are.                                             *)
LEMMA QueuesUntouched ==
    ASSUME RingConsistent, BlockedIsQueued, sem' = sem,
           \A t \in Threads : state'[t] = "Blocked" <=> state[t] = "Blocked"
    PROVE  RingConsistent' /\ BlockedIsQueued'
  BY DEF RingConsistent, BlockedIsQueued

(* Where a worker runs, main is Ready, so gt_schedule finds a thread.      *)
LEMMA MainIsReady ==
    ASSUME SafeInv, WorkerRuns
    PROVE  /\ Main \in Threads /\ gt_current \in Threads
           /\ state[gt_current] = "Running" /\ state[Main] = "Ready"
           /\ phase # "exited"
  BY SizesAssumption
  DEF SafeInv, TypeOK, WorkerRuns, Active, RunningIsCurrent, MainNeverLost, Main, Threads

LEMMA SafeStep ==
    ASSUME SafeInv, TypeOK', [Next]_vars
    PROVE  SafeInv'
  <1> USE DEF SafeInv
  <1>0. Main \in Threads /\ gt_current \in Threads
    BY SizesAssumption DEF TypeOK, Main, Threads
  <1>1. CASE gt_create
    <2>1. PICK t \in FreeSlots, k \in TicketChoices :
            /\ state' = [state EXCEPT ![t] = "Ready"]
            /\ tickets' = [tickets EXCEPT ![t] = IF k > 0 THEN k ELSE 1]
      BY <1>1 DEF gt_create
    <2>2. /\ t \in Threads /\ state[t] = "Unused"
          /\ (IF k > 0 THEN k ELSE 1) > 0
          /\ UNCHANGED <<gt_current, sem, phase>>
      BY <1>1, <2>1, ClientsAssumption DEF gt_create, FreeSlots
    <2>3. \A u \in Threads : /\ u # t => state'[u] = state[u] /\ tickets'[u] = tickets[u]
                             /\ u = t => state'[u] = "Ready" /\ tickets'[u] > 0
      BY <2>1, <2>2 DEF TypeOK
    <2>4. RunningIsCurrent' /\ TicketsHeld'
      BY <2>2, <2>3 DEF RunningIsCurrent, TicketsHeld
    <2>5. RingConsistent' /\ BlockedIsQueued'
      BY <2>2, <2>3, QueuesUntouched
    <2>6. phase # "exited"
      BY <1>1 DEF gt_create, MayCreate, WorkerRuns, Active
    <2>7. MainNeverLost' /\ NeverAborted'
      BY <1>0, <2>2, <2>3, <2>6 DEF MainNeverLost, NeverAborted
    <2> QED
      BY <2>4, <2>5, <2>7
  <1>2. CASE gt_alarm_handle
    <2>1. /\ gt_schedule(state) /\ sem' = sem /\ phase' = phase /\ phase # "exited"
      BY <1>2 DEF gt_alarm_handle
    <2>2. /\ \A t \in Threads :
                /\ state'[t] = "Running" <=> t = gt_current'
                /\ state'[t] = "Blocked" <=> state[t] = "Blocked"
                /\ state'[t] = "Unused" <=> state[t] = "Unused"
          /\ tickets' = tickets
      BY <1>0, <2>1, ScheduleEffect DEF TypeOK, RunningIsCurrent, TicketsHeld
    <2>3. RingConsistent' /\ BlockedIsQueued'
      BY <2>1, <2>2, QueuesUntouched
    <2>4. state'[Main] \in {"Running", "Ready"}
      BY <1>0, <2>2 DEF MainNeverLost, TypeOK
    <2> QED
      BY <2>1, <2>2, <2>3, <2>4
      DEF RunningIsCurrent, TicketsHeld, MainNeverLost, NeverAborted
  <1>3. ASSUME NEW s \in Sems, SemTake(s)
        PROVE  SafeInv'
    <2>1. /\ sem' = [sem EXCEPT ![s].value = @ - 1] /\ sem[s].value > 0
          /\ UNCHANGED <<state, gt_current, phase, tickets>>
      BY <1>3 DEF SemTake, table
    <2>2. sem[s] \in SemRecords /\ sem'[s] \in SemRecords
      BY DEF TypeOK
    <2>3. /\ sem'[s].value >= 0 /\ sem[s].value >= 0
          /\ sem'[s].wait_queue = sem[s].wait_queue
          /\ sem'[s].head = sem[s].head
          /\ sem'[s].tail = sem[s].tail
          /\ sem'[s].wait_count = sem[s].wait_count
      BY <2>1, <2>2 DEF TypeOK, SemRecords
    <2>4. Consistent(sem'[s]) /\ Waiters(sem'[s]) = Waiters(sem[s])
      BY <2>2, <2>3, NoQueue DEF RingConsistent
    <2>5. \A r \in Sems : r # s => sem'[r] = sem[r]
      BY <2>1 DEF TypeOK
    <2>6. \A r \in Sems : Consistent(sem'[r]) /\ Waiters(sem'[r]) = Waiters(sem[r])
      BY <2>4, <2>5 DEF RingConsistent
    <2>7. RingConsistent' /\ BlockedIsQueued'
      BY <2>1, <2>6 DEF RingConsistent, BlockedIsQueued
    <2> QED
      BY <2>1, <2>7 DEF RunningIsCurrent, TicketsHeld, MainNeverLost, NeverAborted
  <1>4. ASSUME NEW s \in Sems, SemBlock(s)
        PROVE  SafeInv'
    <2> DEFINE st == [state EXCEPT ![gt_current] = "Blocked"]
    <2>1. /\ sem' = [sem EXCEPT ![s].value = @ - 1,
                                ![s].wait_queue = [@ EXCEPT ![sem[s].tail] = gt_current],
                                ![s].tail = NextSlot(@),
                                ![s].wait_count = @ + 1]
          /\ WorkerRuns /\ sem[s].value <= 0 /\ gt_schedule(st) /\ phase' = phase
      BY <1>4 DEF SemBlock
    <2>2. /\ state[gt_current] = "Running" /\ state[Main] = "Ready"
          /\ gt_current # Main /\ phase # "exited"
      BY <2>1, MainIsReady DEF WorkerRuns
    <2>3. /\ st \in [Threads -> {"Unused", "Running", "Ready", "Blocked"}]
          /\ st[gt_current] = "Blocked"
          /\ \A t \in Threads : t # gt_current => st[t] = state[t]
      BY <1>0 DEF TypeOK
    <2> HIDE DEF st
    <2>4. /\ \A t \in Threads :
                /\ state'[t] = "Running" <=> t = gt_current'
                /\ state'[t] = "Blocked" <=> st[t] = "Blocked"
                /\ state'[t] = "Unused" <=> st[t] = "Unused"
          /\ tickets' = tickets
      <3>1. \A t \in Threads : st[t] = "Running" => t = gt_current
        BY <2>3 DEF RunningIsCurrent
      <3>2. \A t \in Threads : st[t] # "Unused" => tickets[t] > 0
        BY <2>2, <2>3 DEF TicketsHeld
      <3>3. ReadyIn(st) # {}
        BY <1>0, <2>2, <2>3 DEF ReadyIn
      <3> QED
        BY <2>1, <2>3, <3>1, <3>2, <3>3, ScheduleEffect
    <2>5. gt_current \notin Waiters(sem[s]) /\ Waiters(sem[s]) \subseteq Threads
      BY <1>0, <2>2 DEF BlockedIsQueued
    <2>6. sem[s] \in SemRecords /\ sem'[s] \in SemRecords
      BY DEF TypeOK
    <2>7. /\ sem'[s].value = sem[s].value - 1
          /\ sem'[s].wait_queue = [sem[s].wait_queue EXCEPT ![sem[s].tail] = gt_current]
          /\ sem'[s].head = sem[s].head
          /\ sem'[s].tail = NextSlot(sem[s].tail)
          /\ sem'[s].wait_count = sem[s].wait_count + 1
      BY <2>1, <2>6 DEF TypeOK, SemRecords
    <2>8. Consistent(sem'[s]) /\ Waiters(sem'[s]) = Waiters(sem[s]) \cup {gt_current}
      <3>1. Consistent(sem[s])
        BY DEF RingConsistent
      <3> QED
        BY <1>0, <2>1, <2>5, <2>6, <2>7, <3>1, Enqueue
    <2>9. \A r \in Sems : r # s => sem'[r] = sem[r]
      BY <2>1 DEF TypeOK
    <2>10. RingConsistent'
      BY <2>8, <2>9 DEF RingConsistent
    <2>11. BlockedIsQueued'
      <3>1. \A r \in Sems : Waiters(sem'[r]) =
              IF r = s THEN Waiters(sem[s]) \cup {gt_current} ELSE Waiters(sem[r])
        BY <2>8, <2>9
      <3>2. \A t \in Threads : state'[t] = "Blocked" <=> state[t] = "Blocked" \/ t = gt_current
        BY <2>3, <2>4
      <3>3. \A r \in Sems : gt_current \notin Waiters(sem[r])
        BY <1>0, <2>2 DEF BlockedIsQueued
      <3> QED
        BY <1>0, <3>1, <3>2, <3>3 DEF BlockedIsQueued
    <2>12. MainNeverLost'
      BY <1>0, <2>1, <2>2, <2>3, <2>4 DEF MainNeverLost, TypeOK
    <2> QED
      BY <2>1, <2>2, <2>3, <2>4, <2>10, <2>11, <2>12
      DEF RunningIsCurrent, TicketsHeld, NeverAborted
  <1>5. ASSUME NEW s \in Sems, gt_sem_post(s),
               sem[s].value + 1 <= 0 /\ sem[s].wait_count > 0
        PROVE  SafeInv'
    <2> DEFINE w == sem[s].wait_queue[sem[s].head]
    <2>1. /\ state' = [state EXCEPT ![w] = "Ready"]
          /\ sem' = [sem EXCEPT ![s].value = @ + 1,
                                ![s].head = NextSlot(@),
                                ![s].wait_count = @ - 1]
          /\ UNCHANGED <<gt_current, phase, tickets>>
          /\ phase # "exited"
      BY <1>5 DEF gt_sem_post, table, WorkerRuns, Active
    <2>2. sem[s] \in SemRecords /\ sem'[s] \in SemRecords
      BY DEF TypeOK
    <2>3. /\ sem'[s].value = sem[s].value + 1
          /\ sem'[s].wait_queue = sem[s].wait_queue
          /\ sem'[s].head = NextSlot(sem[s].head)
          /\ sem'[s].tail = sem[s].tail
          /\ sem'[s].wait_count = sem[s].wait_count - 1
      BY <2>1, <2>2 DEF TypeOK, SemRecords
    <2>4. /\ Consistent(sem'[s])
          /\ w \in Waiters(sem[s])
          /\ Waiters(sem'[s]) = Waiters(sem[s]) \ {w}
      <3>1. Consistent(sem[s])
        BY DEF RingConsistent
      <3> HIDE DEF w
      <3> QED
        BY <1>5, <2>2, <2>3, <3>1, Dequeue DEF w
    <2> HIDE DEF w
    <2>5. w \in Threads /\ state[w] = "Blocked" /\ w # gt_current /\ w # Main
      BY <1>0, <2>4 DEF BlockedIsQueued, RunningIsCurrent, MainNeverLost
    <2>6. \A t \in Threads : state'[t] = IF t = w THEN "Ready" ELSE state[t]
      BY <2>1, <2>5 DEF TypeOK
    <2>7. \A r \in Sems : r # s => sem'[r] = sem[r]
      BY <2>1 DEF TypeOK
    <2>8. RingConsistent'
      BY <2>4, <2>7 DEF RingConsistent
    <2>9. BlockedIsQueued'
      <3>1. \A r \in Sems : Waiters(sem'[r]) =
              IF r = s THEN Waiters(sem[s]) \ {w} ELSE Waiters(sem[r])
        BY <2>4, <2>7
      <3>2. \A r \in Sems : r # s => w \notin Waiters(sem[r])
        BY <2>4 DEF BlockedIsQueued
      <3> QED
        BY <2>4, <2>6, <3>1, <3>2 DEF BlockedIsQueued
    <2>10. RunningIsCurrent' /\ TicketsHeld' /\ MainNeverLost' /\ NeverAborted'
      BY <1>0, <2>1, <2>5, <2>6 DEF RunningIsCurrent, TicketsHeld, MainNeverLost, NeverAborted
    <2> QED
      BY <2>8, <2>9, <2>10
  <1>6. ASSUME NEW s \in Sems, gt_sem_post(s),
               ~(sem[s].value + 1 <= 0 /\ sem[s].wait_count > 0)
        PROVE  SafeInv'
    <2>1. /\ sem' = [sem EXCEPT ![s].value = @ + 1]
          /\ UNCHANGED <<state, gt_current, phase, tickets>>
      BY <1>6 DEF gt_sem_post, table
    <2>2. sem[s] \in SemRecords /\ sem'[s] \in SemRecords
      BY DEF TypeOK
    <2>3. sem[s].value >= 0
      BY <1>6, <2>2 DEF RingConsistent, Consistent, SemRecords
    <2>4. /\ sem'[s].value >= 0
          /\ sem'[s].wait_queue = sem[s].wait_queue
          /\ sem'[s].head = sem[s].head
          /\ sem'[s].tail = sem[s].tail
          /\ sem'[s].wait_count = sem[s].wait_count
      BY <2>1, <2>2, <2>3 DEF TypeOK, SemRecords
    <2>5. Consistent(sem'[s]) /\ Waiters(sem'[s]) = Waiters(sem[s])
      BY <2>2, <2>3, <2>4, NoQueue DEF RingConsistent
    <2>6. \A r \in Sems : r # s => sem'[r] = sem[r]
      BY <2>1 DEF TypeOK
    <2>7. \A r \in Sems : Consistent(sem'[r]) /\ Waiters(sem'[r]) = Waiters(sem[r])
      BY <2>5, <2>6 DEF RingConsistent
    <2>8. RingConsistent' /\ BlockedIsQueued'
      BY <2>1, <2>7 DEF RingConsistent, BlockedIsQueued
    <2> QED
      BY <2>1, <2>8 DEF RunningIsCurrent, TicketsHeld, MainNeverLost, NeverAborted
  <1>7. CASE WorkerReturn
    <2> DEFINE st == [state EXCEPT ![gt_current] = "Unused"]
    <2>1. /\ WorkerRuns /\ gt_schedule(st) /\ sem' = sem
          /\ phase' = IF ScheduleFinds(st) THEN phase ELSE "aborted"
      BY <1>7 DEF WorkerReturn
    <2>2. /\ state[gt_current] = "Running" /\ state[Main] = "Ready"
          /\ gt_current # Main /\ phase # "exited"
      BY <2>1, MainIsReady DEF WorkerRuns
    <2>3. /\ st \in [Threads -> {"Unused", "Running", "Ready", "Blocked"}]
          /\ st[gt_current] = "Unused"
          /\ \A t \in Threads : t # gt_current => st[t] = state[t]
      BY <1>0 DEF TypeOK
    <2> HIDE DEF st
    <2>4. ReadyIn(st) # {}
      BY <1>0, <2>2, <2>3 DEF ReadyIn
    <2>5. /\ \A t \in Threads :
                /\ state'[t] = "Running" <=> t = gt_current'
                /\ state'[t] = "Blocked" <=> st[t] = "Blocked"
                /\ state'[t] = "Unused" <=> st[t] = "Unused"
          /\ tickets' = tickets /\ ScheduleFinds(st)
      <3>1. \A t \in Threads : st[t] = "Running" => t = gt_current
        BY <2>3 DEF RunningIsCurrent
      <3>2. \A t \in Threads : st[t] # "Unused" => tickets[t] > 0
        BY <2>3 DEF TicketsHeld
      <3> QED
        BY <2>1, <2>3, <2>4, <3>1, <3>2, ScheduleEffect
    <2>6. \A t \in Threads : state'[t] = "Blocked" <=> state[t] = "Blocked"
      BY <2>2, <2>3, <2>5
    <2>7. RingConsistent' /\ BlockedIsQueued'
      BY <2>1, <2>6, QueuesUntouched
    <2>8. RunningIsCurrent' /\ TicketsHeld'
      BY <2>3, <2>5 DEF RunningIsCurrent, TicketsHeld
    <2>9. MainNeverLost' /\ NeverAborted'
      BY <1>0, <2>1, <2>2, <2>3, <2>5 DEF MainNeverLost, NeverAborted, TypeOK
    <2> QED
      BY <2>7, <2>8, <2>9
  <1>8. CASE MainReturn
    <2>1. /\ gt_schedule(state) /\ sem' = sem /\ gt_current = Main
          /\ phase' = IF ScheduleFinds(state) THEN "wait" ELSE "exited"
      BY <1>8 DEF MainReturn
    <2>2. /\ \A t \in Threads :
                /\ state'[t] = "Running" <=> t = gt_current'
                /\ state'[t] = "Blocked" <=> state[t] = "Blocked"
                /\ state'[t] = "Unused" <=> state[t] = "Unused"
          /\ tickets' = tickets
          /\ ReadyIn(state) # {} => ScheduleFinds(state)
          /\ ~ScheduleFinds(state) => state' = state /\ gt_current' = gt_current
      BY <1>0, <2>1, ScheduleEffect DEF TypeOK, RunningIsCurrent, TicketsHeld
    <2>3. RingConsistent' /\ BlockedIsQueued'
      BY <2>1, <2>2, QueuesUntouched
    <2>4. RunningIsCurrent' /\ TicketsHeld'
      BY <2>2 DEF RunningIsCurrent, TicketsHeld
    <2>5. state'[Main] \in {"Running", "Ready"} /\ NeverAborted'
      BY <1>0, <2>1, <2>2 DEF MainNeverLost, NeverAborted, TypeOK
    <2>6. ASSUME phase' = "exited", NEW t \in Threads, t # Main
          PROVE  state'[t] \in {"Unused", "Blocked"}
      <3>1. ReadyIn(state) = {} /\ state' = state
        BY <2>1, <2>2, <2>6
      <3> QED
        BY <2>1, <2>6, <3>1 DEF ReadyIn, RunningIsCurrent, TypeOK
    <2> QED
      BY <2>3, <2>4, <2>5, <2>6 DEF MainNeverLost
  <1>9. CASE Stopped \/ UNCHANGED vars
    <2>1. UNCHANGED vars
      BY <1>9 DEF Stopped
    <2> QED
      BY <2>1 DEF vars, table, TypeOK, RunningIsCurrent, RingConsistent, BlockedIsQueued,
                  MainNeverLost, NeverAborted, TicketsHeld
  <1>10. CASE FreeTraps
    <2>1. UNCHANGED <<state, table, gt_current, sem>> /\ phase' = "crashed"
      BY <1>10 DEF FreeTraps
    <2> QED
      BY <2>1 DEF table, RunningIsCurrent, RingConsistent, BlockedIsQueued,
                  MainNeverLost, NeverAborted, TicketsHeld
  <1> QED
    BY <1>1, <1>2, <1>3, <1>4, <1>5, <1>6, <1>7, <1>8, <1>9, <1>10
    DEF Next, gt_sem_wait, gt_return

(* The library is safe between calls, for every number of threads and      *)
(* semaphores and under each scheduler: the queues are consistent, exactly *)
(* the queued threads are Blocked, gt_current is the Running thread, and   *)
(* gt_schedule never comes back to a thread that has returned.             *)
THEOREM Safety == Spec => []SafeInv
  <1>1. Init => SafeInv
    <2> SUFFICES ASSUME Init
                 PROVE  SafeInv
      OBVIOUS
    <2>1. TypeOK
      BY SizesAssumption, ClientsAssumption
      DEF Init, gt_init, gt_sem_init, TypeOK, SemRecords, Threads, Main, Slots,
          MAX_BLOCKED_THREADS, AllSchedulers
    <2>2. RunningIsCurrent /\ MainNeverLost /\ NeverAborted /\ TicketsHeld
      BY SizesAssumption
      DEF Init, gt_init, RunningIsCurrent, MainNeverLost, NeverAborted, TicketsHeld,
          Threads, Main
    <2>3. ASSUME NEW s \in Sems
          PROVE  /\ WaitingSlots(sem[s]) = {}
                 /\ Consistent(sem[s])
      <3>1. /\ sem[s].value \in Nat /\ sem[s].wait_count = 0
            /\ sem[s].head = 0 /\ sem[s].tail = 0
        BY ClientsAssumption DEF Init, gt_sem_init
      <3>2. \A i \in Slots : ~(Distance(sem[s], i) < 0)
        BY <3>1, SizesAssumption DEF Distance, Slots, MAX_BLOCKED_THREADS
      <3>3. WaitingSlots(sem[s]) = {}
        BY <3>1, <3>2 DEF WaitingSlots
      <3>4. (0 + 0) % MAX_BLOCKED_THREADS = 0
        BY SizesAssumption DEF MAX_BLOCKED_THREADS
      <3> QED
        BY <3>1, <3>3, <3>4, SizesAssumption DEF Consistent, MAX_BLOCKED_THREADS
    <2>4. RingConsistent
      BY <2>3 DEF RingConsistent
    <2>7. BlockedIsQueued
      BY <2>3 DEF BlockedIsQueued, Waiters, Init, gt_init
    <2> QED
      BY <2>1, <2>2, <2>4, <2>7 DEF SafeInv
  <1>2. SafeInv /\ TypeOK' /\ [Next]_vars => SafeInv'
    BY SafeStep
  <1> QED
    BY <1>1, <1>2, TypeCorrect, PTL DEF Spec

(* The properties of the runs, each for itself.                            *)
COROLLARY BlockedThreadsAreQueued == Spec => []BlockedIsQueued
  <1>1. SafeInv => BlockedIsQueued
    BY DEF SafeInv
  <1> QED
    BY <1>1, Safety, PTL

COROLLARY RingsAreConsistent == Spec => []RingConsistent
  <1>1. SafeInv => RingConsistent
    BY DEF SafeInv
  <1> QED
    BY <1>1, Safety, PTL

COROLLARY AssertionHolds == Spec => []NeverAborted
  <1>1. SafeInv => NeverAborted
    BY DEF SafeInv
  <1> QED
    BY <1>1, Safety, PTL

COROLLARY MainKeepsRunning == Spec => []MainNeverLost
  <1>1. SafeInv => MainNeverLost
    BY DEF SafeInv
  <1> QED
    BY <1>1, Safety, PTL

COROLLARY CurrentIsRunning == Spec => []RunningIsCurrent
  <1>1. SafeInv => RunningIsCurrent
    BY DEF SafeInv
  <1> QED
    BY <1>1, Safety, PTL

-----------------------------------------------------------------------------
(* The super boost and the test for a critical counter agree (gthr.c:178,  *)
(* 237): a priority below the documented range comes with a counter above  *)
(* the limit, whatever the thread did since.                               *)
BoostedAreCritical ==
    gt_current_scheduler = "PRI" =>
        \A t \in Threads :
            priority[t] < MIN_PRIORITY => starvation_count[t] > STARVATION_LIMIT

LEMMA ScheduleKeepsBoost ==
    ASSUME TypeOK, BoostedAreCritical, NEW st, gt_schedule(st)
    PROVE  BoostedAreCritical'
  <1> DEFINE sc == StarvationUpdate(st)
  <1>1. /\ starvation_count' = sc
        /\ priority' = PriorityUpdate(st, sc)
        /\ gt_current_scheduler' = gt_current_scheduler
    BY DEF gt_schedule
  <1> SUFFICES ASSUME gt_current_scheduler = "PRI",
                      NEW t \in Threads, priority'[t] < MIN_PRIORITY
               PROVE  starvation_count'[t] > STARVATION_LIMIT
    BY <1>1 DEF BoostedAreCritical
  <1>2. /\ original_priority[t] \in Int /\ original_priority[t] >= MIN_PRIORITY
        /\ MIN_PRIORITY \in Int
    BY SizesAssumption DEF TypeOK
  <1>3. CASE st[t] = "Ready"
    <2>1. priority'[t] = BoostedPriority(t, sc[t])
      BY <1>1, <1>3 DEF PriorityUpdate
    <2> QED
      BY <1>1, <1>2, <2>1, SizesAssumption DEF BoostedPriority
  <1>4. CASE t = gt_current /\ st[t] = "Running"
    <2>1. priority'[t] = original_priority[t]
      BY <1>1, <1>4 DEF PriorityUpdate
    <2> QED
      BY <1>2, <2>1
  <1>5. CASE st[t] # "Ready" /\ ~ (t = gt_current /\ st[t] = "Running")
    <2>1. priority'[t] = priority[t] /\ starvation_count'[t] = starvation_count[t]
      BY <1>1, <1>5 DEF PriorityUpdate, StarvationUpdate
    <2> QED
      BY <2>1 DEF BoostedAreCritical
  <1> QED
    BY <1>3, <1>4, <1>5

(* No scheduler overlooks a Ready thread (gthr.c:128, 160, 196): its       *)
(* ticket, its priority or its counter is in the range the search covers.  *)
THEOREM EveryReadyThreadIsSeen == Spec => []NoReadyThreadInvisible
  <1>1. Init => BoostedAreCritical
    BY SizesAssumption DEF Init, BoostedAreCritical
  <1>2. ASSUME TypeOK, BoostedAreCritical, [Next]_vars
        PROVE  BoostedAreCritical'
    <2>1. CASE gt_create
      <3>1. PICK t \in Threads, p \in PriorityChoices :
              /\ priority' = [priority EXCEPT ![t] = ClampedPriority(p)]
              /\ starvation_count' = [starvation_count EXCEPT ![t] = 0]
              /\ gt_current_scheduler' = gt_current_scheduler
        BY <2>1 DEF gt_create, FreeSlots
      <3>2. ClampedPriority(p) \in MIN_PRIORITY .. MAX_PRIORITY
        BY SizesAssumption, ClientsAssumption DEF ClampedPriority
      <3> QED
        BY <1>2, <3>1, <3>2, SizesAssumption DEF BoostedAreCritical, TypeOK
    <2>2. CASE gt_alarm_handle
      BY <1>2, <2>2, ScheduleKeepsBoost DEF gt_alarm_handle
    <2>3. CASE \E s \in Sems : SemBlock(s)
      BY <1>2, <2>3, ScheduleKeepsBoost DEF SemBlock
    <2>4. CASE WorkerReturn
      BY <1>2, <2>4, ScheduleKeepsBoost DEF WorkerReturn
    <2>5. CASE MainReturn
      BY <1>2, <2>5, ScheduleKeepsBoost DEF MainReturn
    <2>6. CASE UNCHANGED <<priority, starvation_count, gt_current_scheduler>>
      BY <1>2, <2>6 DEF BoostedAreCritical
    <2> QED
      BY <1>2, <2>1, <2>2, <2>3, <2>4, <2>5, <2>6
      DEF Next, gt_sem_wait, SemTake, gt_sem_post, gt_return, FreeTraps, Stopped,
          vars, table
  <1>3. SafeInv /\ BoostedAreCritical => NoReadyThreadInvisible
    <2> SUFFICES ASSUME SafeInv, BoostedAreCritical,
                        NEW t \in Threads, state[t] = "Ready"
                 PROVE  /\ gt_current_scheduler = "PRI" =>
                             t \in Critical(state, starvation_count)
                                     \cup Eligible(state, priority)
                        /\ t \in lottery_schedule(state)
      BY DEF NoReadyThreadInvisible, ReadyIn
    <2>1. tickets[t] > 0
      BY DEF SafeInv, TicketsHeld
    <2>2. priority[t] \in MIN_PRIORITY - 1 .. MAX_PRIORITY
      BY DEF SafeInv, TypeOK
    <2>3. priority[t] >= MIN_PRIORITY => priority[t] \in MIN_PRIORITY .. MAX_PRIORITY
      BY <2>2, SizesAssumption
    <2> QED
      BY <2>1, <2>2, <2>3, SizesAssumption
      DEF BoostedAreCritical, Critical, Eligible, lottery_schedule, ReadyIn
  <1> QED
    BY <1>1, <1>2, <1>3, Safety, TypeCorrect, PTL DEF Spec

-----------------------------------------------------------------------------
(* What the schedulers of Gthr promise a thread that waits, for every      *)
(* number of threads: how late the priority scheduler may be, and that the *)
(* round-robin scheduler passes nobody over.                               *)

(* The Ready threads whose counters are j or more past m.                  *)
Overdue(m, j) == {t \in ReadyIn(state) : starvation_count[t] >= m + j}

(* The critically starved queue up: at least j + 1 of the MAX_G_THREADS    *)
(* threads are not j schedules late - the one that runs, and one for each  *)
(* schedule since, which served a thread that was later.                   *)
QueueUp(m) ==
    \A j \in 0 .. MAX_G_THREADS - 1 :
        Cardinality(Overdue(m, j)) <= MAX_G_THREADS - 1 - j

(* A thread comes back from a semaphore with the counter it took to sleep. *)
SleepersWithin(m) ==
    \A t \in Threads : state[t] = "Blocked" => starvation_count[t] <= m

Limit == LargerOf(STARVATION_LIMIT, kept)

StarvationInv ==
    /\ kept \in Nat
    /\ gt_current_scheduler = "PRI" => QueueUp(Limit) /\ SleepersWithin(Limit)

LEMMA ThreadsFinite ==
    IsFiniteSet(Threads) /\ Cardinality(Threads) = MAX_G_THREADS
  BY FS_Interval, SizesAssumption DEF Threads

LEMMA OverdueFinite ==
    ASSUME NEW m, NEW j
    PROVE  IsFiniteSet(Overdue(m, j)) /\ Cardinality(Overdue(m, j)) \in Nat
  <1>1. Overdue(m, j) \in SUBSET Threads
    BY DEF Overdue, ReadyIn
  <1> QED
    BY <1>1, ThreadsFinite, FS_Subset, FS_CardinalityType

(* Threads that do not include the one that runs.                          *)
LEMMA OneRuns ==
    ASSUME NEW S \in SUBSET Threads, NEW c \in Threads, c \notin S
    PROVE  Cardinality(S) <= MAX_G_THREADS - 1
  <1>1. /\ IsFiniteSet(Threads \ {c})
        /\ Cardinality(Threads \ {c}) = MAX_G_THREADS - 1
    BY ThreadsFinite, FS_RemoveElement
  <1> QED
    BY <1>1, FS_Subset

LEMMA QueueUpGrows ==
    ASSUME NEW m \in Nat, NEW n \in Nat, m <= n, QueueUp(m)',
           starvation_count' \in [Threads -> Nat]
    PROVE  QueueUp(n)'
  <1> SUFFICES ASSUME NEW j \in 0 .. MAX_G_THREADS - 1
               PROVE  Cardinality(Overdue(n, j)') <= MAX_G_THREADS - 1 - j
    BY DEF QueueUp
  <1>1. Overdue(n, j)' \subseteq Overdue(m, j)' /\ Overdue(m, j)' \in SUBSET Threads
    BY DEF Overdue, ReadyIn
  <1>2. /\ Cardinality(Overdue(n, j)') <= Cardinality(Overdue(m, j)')
        /\ Cardinality(Overdue(n, j)') \in Nat /\ Cardinality(Overdue(m, j)') \in Nat
    BY <1>1, ThreadsFinite, FS_Subset, FS_CardinalityType
  <1> QED
    BY <1>2, SizesAssumption DEF QueueUp

(* gt_schedule(st), where st differs from state in the current thread at   *)
(* most: who is Ready afterwards, and with which counter.                  *)
LEMMA ScheduleServes ==
    ASSUME SafeInv, gt_current_scheduler = "PRI",
           NEW m \in Nat, STARVATION_LIMIT <= m,
           NEW st \in [Threads -> {"Unused", "Running", "Ready", "Blocked"}],
           ReadyIn(st) = ReadyIn(state),
           \A t \in Threads : st[t] = "Running" => t = gt_current,
           gt_schedule(st),
           NEW j \in 1 .. MAX_G_THREADS - 1,
           Overdue(m, j)' # {}
    PROVE  \E p \in Overdue(m, j - 1) : Overdue(m, j)' \subseteq Overdue(m, j - 1) \ {p}
  <1> DEFINE sc == StarvationUpdate(st)
             pr == PriorityUpdate(st, sc)
             picks == Picks(st, sc, pr)
  <1>0. STARVATION_LIMIT \in Nat /\ m + j > STARVATION_LIMIT /\ m + j \in Nat
    BY SizesAssumption
  <1>1. /\ starvation_count' = sc
        /\ \/ \E p \in picks : SwitchTo(p, st)
           \/ picks = {} /\ state' = st
    BY DEF gt_schedule
  <1>2. PICK o \in Overdue(m, j)' : TRUE
    OBVIOUS
  <1>3. picks # {}
    <2>1. ASSUME picks = {}
          PROVE  FALSE
      <3>1. \A t \in ReadyIn(st) : tickets[t] > 0
        BY DEF SafeInv, TicketsHeld, ReadyIn
      <3>2. ReadyIn(st) = {}
        BY <2>1, <3>1, SchedulerFinds DEF SafeInv, ScheduleFinds
      <3>3. state' = st
        BY <1>1, <2>1
      <3> QED
        BY <1>2, <3>2, <3>3 DEF Overdue, ReadyIn
    <2> QED
      BY <2>1
  <1>4. PICK p \in picks : SwitchTo(p, st)
    BY <1>1, <1>3
  <1>5. p \in ReadyIn(st) /\ p \in Threads
    BY <1>4, PicksAreReady DEF ReadyIn
  <1>6. gt_current \in Threads /\ starvation_count \in [Threads -> Nat]
    BY DEF SafeInv, TypeOK
  <1>7. \A t \in Threads : sc[t] = IF st[t] = "Ready" THEN starvation_count[t] + 1
                                   ELSE IF t = gt_current /\ st[t] = "Running" THEN 0
                                   ELSE starvation_count[t]
    BY DEF StarvationUpdate
  <1> HIDE DEF sc, pr
  <1>8. ASSUME NEW t \in Overdue(m, j)'
        PROVE  /\ t \in ReadyIn(st) /\ t # p
               /\ starvation_count[t] + 1 >= m + j
               /\ sc[t] >= m + j
    <2>1. t \in Threads /\ state'[t] = "Ready" /\ sc[t] >= m + j
      BY <1>1 DEF Overdue, ReadyIn
    <2>2. t # p /\ (st[t] = "Ready" \/ (t = gt_current /\ st[t] = "Running"))
      BY <1>4, <1>5, <1>6, <2>1 DEF SwitchTo
    <2>3. st[t] = "Ready"
      <3>1. CASE t = gt_current /\ st[t] = "Running"
        <4>1. sc[t] = 0
          BY <1>7, <2>1, <3>1
        <4> QED
          BY <1>0, <2>1, <4>1
      <3> QED
        BY <2>2, <3>1
    <2>4. sc[t] = starvation_count[t] + 1
      BY <1>7, <2>1, <2>3
    <2> QED
      BY <2>1, <2>2, <2>3, <2>4 DEF ReadyIn
  <1>9. starvation_count[p] + 1 >= m + j
    <2>1. sc[o] \in Nat /\ sc[p] \in Nat /\ o \in Threads
      BY <1>2, <1>5, <1>6, <1>7, <1>8 DEF ReadyIn
    <2>2. o \in Critical(st, sc)
      BY <1>0, <1>2, <1>8, <2>1 DEF Critical
    <2>3. p \in MostStarved(st, sc)
      BY <1>4, <2>2 DEF Picks, priority_schedule
    <2>4. sc[o] <= sc[p]
      BY <2>1, <2>2, <2>3 DEF MostStarved
    <2>5. sc[p] = starvation_count[p] + 1
      BY <1>5, <1>7 DEF ReadyIn
    <2> QED
      BY <1>0, <1>2, <1>8, <2>1, <2>4, <2>5
  <1>10. \A t \in ReadyIn(state) : starvation_count[t] + 1 >= m + j => t \in Overdue(m, j - 1)
    BY <1>6 DEF Overdue, ReadyIn
  <1> QED
    BY <1>5, <1>8, <1>9, <1>10

LEMMA ScheduleKeepsQueue ==
    ASSUME SafeInv, SafeInv', gt_current_scheduler = "PRI",
           NEW m \in Nat, STARVATION_LIMIT <= m, QueueUp(m),
           NEW st \in [Threads -> {"Unused", "Running", "Ready", "Blocked"}],
           ReadyIn(st) = ReadyIn(state),
           \A t \in Threads : st[t] = "Running" => t = gt_current,
           gt_schedule(st)
    PROVE  QueueUp(m)'
  <1> SUFFICES ASSUME NEW j \in 0 .. MAX_G_THREADS - 1
               PROVE  Cardinality(Overdue(m, j)') <= MAX_G_THREADS - 1 - j
    BY DEF QueueUp
  <1>0. MAX_G_THREADS \in Nat \ {0}
    BY SizesAssumption
  <1>1. CASE j = 0
    <2>1. Cardinality(Overdue(m, 0)') <= MAX_G_THREADS - 1
      <3>1. gt_current' \in Threads /\ Overdue(m, 0)' \subseteq Threads \ {gt_current'}
        BY DEF SafeInv, TypeOK, RunningIsCurrent, Overdue, ReadyIn
      <3> QED
        BY <3>1, OneRuns
    <2> QED
      BY <1>0, <1>1, <2>1
  <1>2. CASE j # 0 /\ Overdue(m, j)' = {}
    BY <1>0, <1>2, FS_EmptySet
  <1>3. CASE j # 0 /\ Overdue(m, j)' # {}
    <2>1. j \in 1 .. MAX_G_THREADS - 1 /\ j - 1 \in 0 .. MAX_G_THREADS - 1
      BY <1>0, <1>3
    <2>2. PICK p \in Overdue(m, j - 1) : Overdue(m, j)' \subseteq Overdue(m, j - 1) \ {p}
      BY <1>3, <2>1, ScheduleServes
    <2>3. /\ IsFiniteSet(Overdue(m, j - 1) \ {p})
          /\ Cardinality(Overdue(m, j - 1) \ {p}) = Cardinality(Overdue(m, j - 1)) - 1
          /\ Cardinality(Overdue(m, j - 1)) \in Nat
      BY <2>2, OverdueFinite, FS_RemoveElement
    <2>4. /\ Cardinality(Overdue(m, j)') <= Cardinality(Overdue(m, j - 1) \ {p})
          /\ IsFiniteSet(Overdue(m, j)')
      BY <2>2, <2>3, FS_Subset
    <2>5. Cardinality(Overdue(m, j - 1)) <= MAX_G_THREADS - 1 - (j - 1)
      BY <2>1 DEF QueueUp
    <2>6. Cardinality(Overdue(m, j)') \in Nat
      BY <2>4, FS_CardinalityType
    <2> QED
      BY <1>0, <2>3, <2>4, <2>5, <2>6
  <1> QED
    BY <1>1, <1>2, <1>3

(* The thread at the head of a queue that is not empty sleeps.             *)
LEMMA HeadSleeps ==
    ASSUME SafeInv, NEW s \in Sems, sem[s].wait_count > 0
    PROVE  LET w == sem[s].wait_queue[sem[s].head]
           IN  w \in Threads /\ state[w] = "Blocked"
  <1>1. sem[s] \in SemRecords /\ MAX_G_THREADS \in Nat \ {0}
    BY SizesAssumption DEF SafeInv, TypeOK
  <1>2. sem[s].head \in WaitingSlots(sem[s])
    BY <1>1 DEF WaitingSlots, Distance, Slots, SemRecords, MAX_BLOCKED_THREADS
  <1>3. sem[s].wait_queue[sem[s].head] \in Waiters(sem[s])
    BY <1>2 DEF Waiters
  <1> QED
    BY <1>3 DEF SafeInv, BlockedIsQueued

(* Steps of the running thread that leave every counter alone and make no  *)
(* thread Ready but, perhaps, w, whose counter is within m.                *)
LEMMA WakingKeepsQueue ==
    ASSUME NEW m \in Nat, QueueUp(m), SafeInv', starvation_count \in [Threads -> Nat],
           \A t \in Threads : state'[t] = "Ready" =>
              \/ state[t] = "Ready" /\ starvation_count'[t] = starvation_count[t]
              \/ starvation_count'[t] <= m,
           starvation_count' \in [Threads -> Nat]
    PROVE  QueueUp(m)'
  <1> SUFFICES ASSUME NEW j \in 0 .. MAX_G_THREADS - 1
               PROVE  Cardinality(Overdue(m, j)') <= MAX_G_THREADS - 1 - j
    BY DEF QueueUp
  <1>1. CASE j = 0
    <2>1. Cardinality(Overdue(m, 0)') <= MAX_G_THREADS - 1
      <3>1. gt_current' \in Threads /\ Overdue(m, 0)' \subseteq Threads \ {gt_current'}
        BY DEF SafeInv, TypeOK, RunningIsCurrent, Overdue, ReadyIn
      <3> QED
        BY <3>1, OneRuns
    <2> QED
      BY <1>1, <2>1, SizesAssumption
  <1>2. CASE j # 0
    <2>1. Overdue(m, j)' \subseteq Overdue(m, j)
      BY <1>2 DEF Overdue, ReadyIn
    <2>2. Cardinality(Overdue(m, j)') <= Cardinality(Overdue(m, j))
          /\ Cardinality(Overdue(m, j)') \in Nat
      BY <2>1, OverdueFinite, FS_Subset, FS_CardinalityType
    <2> QED
      BY <2>2, OverdueFinite, SizesAssumption DEF QueueUp
  <1> QED
    BY <1>1, <1>2

(* gt_schedule puts nobody to sleep and wakes nobody, and it leaves the    *)
(* counters of those who sleep alone.                                      *)
LEMMA ScheduleKeepsSleepers ==
    ASSUME SafeInv,
           NEW st \in [Threads -> {"Unused", "Running", "Ready", "Blocked"}],
           \A t \in Threads : st[t] = "Running" => t = gt_current,
           gt_schedule(st)
    PROVE  \A t \in Threads :
              /\ state'[t] = "Blocked" <=> st[t] = "Blocked"
              /\ st[t] = "Blocked" => starvation_count'[t] = starvation_count[t]
  <1>1. \A t \in Threads : state'[t] = "Blocked" <=> st[t] = "Blocked"
    <2>1. CASE ScheduleFinds(st)
      <3>1. PICK p \in ReadyIn(st) : SwitchTo(p, st)
        BY <2>1, PicksAreReady DEF gt_schedule, ScheduleFinds
      <3> QED
        BY <3>1 DEF SwitchTo, ReadyIn, SafeInv, TypeOK
    <2>2. CASE ~ScheduleFinds(st)
      BY <2>2 DEF gt_schedule, ScheduleFinds
    <2> QED
      BY <2>1, <2>2
  <1>2. \A t \in Threads : st[t] = "Blocked" => starvation_count'[t] = starvation_count[t]
    BY DEF gt_schedule, StarvationUpdate
  <1> QED
    BY <1>1, <1>2

(* What one step does to the queue, m and n being the limit before and     *)
(* after it.                                                               *)
LEMMA StepKeepsQueue ==
    ASSUME SafeInv, SafeInv', [StarvationNext]_<<vars, kept>>,
           kept \in Nat, gt_current_scheduler = "PRI",
           NEW m \in Nat, m = Limit, NEW n \in Nat, n = Limit', m <= n,
           QueueUp(m), SleepersWithin(m)
    PROVE  QueueUp(m)' /\ SleepersWithin(n)'
  <1>1. /\ STARVATION_LIMIT \in Nat /\ STARVATION_LIMIT <= m
        /\ n = LargerOf(STARVATION_LIMIT, kept')
    BY SizesAssumption DEF Limit, LargerOf
  <1>2. /\ state \in [Threads -> {"Unused", "Running", "Ready", "Blocked"}]
        /\ starvation_count \in [Threads -> Nat]
        /\ starvation_count' \in [Threads -> Nat]
        /\ gt_current \in Threads
        /\ RunningIsCurrent
    BY DEF SafeInv, TypeOK
  <1>3. CASE gt_create
    <2>1. PICK t \in Threads :
            /\ state' = [state EXCEPT ![t] = "Ready"]
            /\ starvation_count' = [starvation_count EXCEPT ![t] = 0]
      BY <1>3 DEF gt_create, FreeSlots
    <2>2. QueueUp(m)'
      BY <1>2, <2>1, WakingKeepsQueue
    <2> QED
      BY <1>2, <2>1, <2>2 DEF SleepersWithin
  <1>4. CASE gt_alarm_handle \/ MainReturn
    <2>1. gt_schedule(state) /\ \A t \in Threads : state[t] = "Running" => t = gt_current
      BY <1>2, <1>4 DEF gt_alarm_handle, MainReturn, RunningIsCurrent
    <2>2. QueueUp(m)'
      BY <1>1, <1>2, <2>1, ScheduleKeepsQueue
    <2>3. \A t \in Threads : state'[t] = "Blocked" =>
             state[t] = "Blocked" /\ starvation_count'[t] = starvation_count[t]
      BY <1>2, <2>1, ScheduleKeepsSleepers
    <2> QED
      BY <1>2, <2>2, <2>3 DEF SleepersWithin
  <1>5. ASSUME NEW s \in Sems, SemBlock(s), Remember
        PROVE  QueueUp(m)' /\ SleepersWithin(n)'
    <2> DEFINE st == [state EXCEPT ![gt_current] = "Blocked"]
    <2>1. WorkerRuns /\ gt_schedule(st)
      BY <1>5 DEF SemBlock
    <2>2. state[gt_current] = "Running"
      BY <1>2 DEF RunningIsCurrent
    <2>3. /\ st \in [Threads -> {"Unused", "Running", "Ready", "Blocked"}]
          /\ \A t \in Threads : st[t] = IF t = gt_current THEN "Blocked" ELSE state[t]
      BY <1>2
    <2> HIDE DEF st
    <2>4. ReadyIn(st) = ReadyIn(state)
      BY <1>2, <2>2, <2>3 DEF ReadyIn
    <2>5. \A t \in Threads : st[t] = "Running" => t = gt_current
      BY <1>2, <2>3 DEF RunningIsCurrent
    <2>6. QueueUp(m)'
      BY <1>1, <2>1, <2>3, <2>4, <2>5, ScheduleKeepsQueue
    <2>7. \A t \in Threads :
             /\ state'[t] = "Blocked" <=> (t = gt_current \/ state[t] = "Blocked")
             /\ state'[t] = "Blocked" => starvation_count'[t] = starvation_count[t]
      BY <2>1, <2>3, <2>5, ScheduleKeepsSleepers
    <2>8. kept' = LargerOf(kept, starvation_count[gt_current])
      BY <1>2, <1>5, <2>7 DEF Remember
    <2>9. starvation_count[gt_current] \in Nat /\ starvation_count[gt_current] <= n
      BY <1>1, <1>2, <2>8 DEF LargerOf
    <2> QED
      BY <1>2, <2>6, <2>7, <2>9 DEF SleepersWithin
  <1>6. ASSUME NEW s \in Sems, gt_sem_post(s)
        PROVE  QueueUp(m)' /\ SleepersWithin(n)'
    <2>1. starvation_count' = starvation_count
      BY <1>6 DEF gt_sem_post, table
    <2>2. \A t \in Threads :
             /\ state'[t] = "Ready" => state[t] \in {"Ready", "Blocked"}
             /\ state'[t] = "Blocked" => state[t] = "Blocked"
      <3>1. CASE sem[s].value + 1 <= 0 /\ sem[s].wait_count > 0
        <4>1. PICK w \in Threads : /\ state' = [state EXCEPT ![w] = "Ready"]
                                   /\ state[w] = "Blocked"
          BY <1>6, <3>1, HeadSleeps DEF gt_sem_post
        <4> QED
          BY <1>2, <4>1
      <3>2. CASE ~(sem[s].value + 1 <= 0 /\ sem[s].wait_count > 0)
        BY <1>6, <3>2 DEF gt_sem_post
      <3> QED
        BY <3>1, <3>2
    <2>3. \A t \in Threads : state'[t] = "Ready" =>
             \/ state[t] = "Ready" /\ starvation_count'[t] = starvation_count[t]
             \/ starvation_count'[t] <= m
      BY <2>1, <2>2 DEF SleepersWithin
    <2>4. QueueUp(m)'
      BY <1>2, <2>3, WakingKeepsQueue
    <2> QED
      BY <1>2, <2>1, <2>2, <2>4 DEF SleepersWithin
  <1>7. CASE WorkerReturn
    <2> DEFINE st == [state EXCEPT ![gt_current] = "Unused"]
    <2>1. gt_schedule(st)
      BY <1>7 DEF WorkerReturn
    <2>2. state[gt_current] = "Running"
      BY <1>2 DEF RunningIsCurrent
    <2>3. /\ st \in [Threads -> {"Unused", "Running", "Ready", "Blocked"}]
          /\ \A t \in Threads : st[t] = IF t = gt_current THEN "Unused" ELSE state[t]
      BY <1>2
    <2> HIDE DEF st
    <2>4. ReadyIn(st) = ReadyIn(state)
      BY <1>2, <2>2, <2>3 DEF ReadyIn
    <2>5. \A t \in Threads : st[t] = "Running" => t = gt_current
      BY <1>2, <2>3 DEF RunningIsCurrent
    <2>6. QueueUp(m)'
      BY <1>1, <2>1, <2>3, <2>4, <2>5, ScheduleKeepsQueue
    <2>7. \A t \in Threads : state'[t] = "Blocked" =>
             state[t] = "Blocked" /\ starvation_count'[t] = starvation_count[t]
      BY <2>1, <2>3, <2>5, ScheduleKeepsSleepers
    <2> QED
      BY <1>2, <2>6, <2>7 DEF SleepersWithin
  <1>8. CASE UNCHANGED <<state, starvation_count>>
    <2>1. QueueUp(m)'
      BY <1>2, <1>8, WakingKeepsQueue
    <2> QED
      BY <1>2, <1>8, <2>1 DEF SleepersWithin
  <1> QED
    BY <1>3, <1>4, <1>5, <1>6, <1>7, <1>8
    DEF StarvationNext, Next, gt_sem_wait, SemTake, gt_return, FreeTraps, Stopped, vars, table

LEMMA StarvationStep ==
    ASSUME SafeInv, SafeInv', StarvationInv, [StarvationNext]_<<vars, kept>>
    PROVE  StarvationInv'
  <1>1. kept \in Nat /\ STARVATION_LIMIT \in Nat
    BY SizesAssumption DEF StarvationInv
  <1>2. kept' \in Nat /\ kept' >= kept
    <2>1. starvation_count[gt_current] \in Nat
      BY DEF SafeInv, TypeOK
    <2> QED
      BY <1>1, <2>1 DEF StarvationNext, Remember, LargerOf
  <1>3. PICK m \in Nat : m = Limit
    BY <1>1 DEF Limit, LargerOf
  <1>4. PICK n \in Nat : n = Limit'
    BY <1>1, <1>2 DEF Limit, LargerOf
  <1>5. m <= n
    BY <1>1, <1>2, <1>3, <1>4 DEF Limit, LargerOf
  <1>6. gt_current_scheduler' = gt_current_scheduler
    BY DEF StarvationNext, Next, gt_create, gt_alarm_handle, gt_sem_wait, SemTake, SemBlock,
           gt_sem_post, gt_return, WorkerReturn, FreeTraps, MainReturn, Stopped,
           gt_schedule, vars, table
  <1>7. ASSUME gt_current_scheduler = "PRI"
        PROVE  QueueUp(Limit)' /\ SleepersWithin(Limit)'
    <2>1. QueueUp(m) /\ SleepersWithin(m)
      BY <1>3, <1>7 DEF StarvationInv
    <2>2. QueueUp(m)' /\ SleepersWithin(n)'
      BY <1>1, <1>3, <1>4, <1>5, <1>7, <2>1, StepKeepsQueue
    <2>3. starvation_count' \in [Threads -> Nat]
      BY DEF SafeInv, TypeOK
    <2>4. QueueUp(n)'
      BY <1>5, <2>2, <2>3, QueueUpGrows
    <2> QED
      BY <1>4, <2>2, <2>4 DEF QueueUp, Overdue, SleepersWithin
  <1> QED
    BY <1>2, <1>6, <1>7 DEF StarvationInv

(* Under the priority scheduler no Ready thread waits longer than          *)
(* STARVATION_LIMIT schedules - or the largest counter a thread took to a  *)
(* semaphore - plus one for each thread but itself and the one that runs   *)
(* (gthr.c:178, 237), for every number of threads and whatever they do:    *)
(* the critically starved are served longest wait first, so they queue up  *)
(* behind one another.                                                     *)
THEOREM WaitsAreBounded == StarvationSpec => []StarvationBounded
  <1>1. StarvationInit => StarvationInv
    <2> SUFFICES ASSUME StarvationInit
                 PROVE  kept \in Nat /\ QueueUp(Limit) /\ SleepersWithin(Limit)
      BY DEF StarvationInv
    <2>0. kept = 0 /\ Limit = STARVATION_LIMIT /\ STARVATION_LIMIT \in Nat
          /\ MAX_G_THREADS \in Nat \ {0}
      BY SizesAssumption DEF StarvationInit, Limit, LargerOf
    <2>1. \A j \in 0 .. MAX_G_THREADS - 1 : Overdue(Limit, j) = {}
      BY DEF StarvationInit, Init, gt_init, Overdue, ReadyIn, Main
    <2>2. QueueUp(Limit)
      BY <2>0, <2>1, FS_EmptySet DEF QueueUp
    <2>3. SleepersWithin(Limit)
      BY DEF StarvationInit, Init, gt_init, SleepersWithin
    <2> QED
      BY <2>0, <2>2, <2>3
  <1>2. SafeInv /\ StarvationInv => StarvationBounded
    <2> SUFFICES ASSUME SafeInv, QueueUp(Limit), kept \in Nat, NEW t \in ReadyIn(state)
                 PROVE  starvation_count[t] <= Limit + MAX_G_THREADS - 2
      BY DEF StarvationInv, StarvationBounded, Limit
    <2>0. MAX_G_THREADS \in Nat \ {0} /\ Limit \in Nat
      BY SizesAssumption DEF Limit, LargerOf
    <2>1. PICK j \in 0 .. MAX_G_THREADS - 1 : j = MAX_G_THREADS - 1
      BY <2>0
    <2>2. Cardinality(Overdue(Limit, j)) <= 0
      BY <2>0, <2>1 DEF QueueUp
    <2>3. Overdue(Limit, j) = {}
      BY <2>2, OverdueFinite, FS_EmptySet
    <2>4. starvation_count[t] \in Nat
      BY DEF SafeInv, TypeOK, ReadyIn
    <2> QED
      BY <2>0, <2>1, <2>3, <2>4 DEF Overdue
  <1>3. StarvationSpec => Spec
    <2>1. StarvationInit => Init
      BY DEF StarvationInit
    <2>2. [StarvationNext]_<<vars, kept>> => [Next]_vars
      BY DEF StarvationNext
    <2> QED
      BY <2>1, <2>2, PTL DEF StarvationSpec, Spec
  <1>4. StarvationSpec => []SafeInv
    BY <1>3, Safety, PTL
  <1> QED
    BY <1>1, <1>2, <1>4, StarvationStep, PTL DEF StarvationSpec

-----------------------------------------------------------------------------
(* How the search distance of a waiting thread shrinks when the search has *)
(* stopped at p, which it found first, and starts behind p the next time.  *)
LEMMA SearchCloser ==
    ASSUME TypeOK, NEW p \in Threads, NEW t \in Threads, t # p,
           SearchStep(p) <= SearchStep(t),
           round_robin_index' = p
    PROVE  SearchStep(t)' < SearchStep(t)
  <1>1. /\ MAX_G_THREADS \in Nat \ {0}
        /\ p \in 0 .. MAX_G_THREADS - 1 /\ t \in 0 .. MAX_G_THREADS - 1
        /\ round_robin_index \in 0 .. MAX_G_THREADS - 1
    BY SizesAssumption DEF TypeOK, Threads
  <1>2. SearchStep(t)' = IF t > p THEN t - p - 1 ELSE t - p - 1 + MAX_G_THREADS
    BY DEF SearchStep
  <1> QED
    BY <1>1, <1>2 DEF SearchStep

(* Under the round-robin scheduler every switch that leaves a Ready thread *)
(* waiting brings the search nearer to it (gthr.c:150-165), whatever the   *)
(* threads do in between and however many there are.                       *)
THEOREM RoundRobinPassesNobody == Spec => RoundRobinProgress
  <1>1. ASSUME TypeOK, RunningIsCurrent,
               NEW st \in [Threads -> {"Unused", "Running", "Ready", "Blocked"}],
               gt_schedule(st),
               gt_current_scheduler = "RR", gt_current' # gt_current,
               \A t \in ReadyIn(state) : st[t] = "Ready",
               NEW t \in Threads, state[t] = "Ready", state'[t] = "Ready"
        PROVE  SearchStep(t)' < SearchStep(t)
    <2>1. PICK p \in round_robin_schedule(st) :
             SwitchTo(p, st) /\ round_robin_index' = p
      BY <1>1 DEF gt_schedule, Picks
    <2>2. p \in Threads /\ gt_current' = p /\ st[p] = "Ready"
      BY <2>1 DEF round_robin_schedule, ReadyIn, SwitchTo
    <2>3. state'[p] # "Ready"
      BY <2>1, <2>2 DEF SwitchTo
    <2>4. SearchStep(p) <= SearchStep(t)
      BY <1>1, <2>1 DEF round_robin_schedule, ReadyIn
    <2> QED
      BY <1>1, <2>1, <2>2, <2>3, <2>4, SearchCloser
  <1>2. ASSUME SafeInv, [Next]_vars,
               gt_current_scheduler = "RR", gt_current' # gt_current,
               NEW t \in Threads, state[t] = "Ready", state'[t] = "Ready"
        PROVE  SearchStep(t)' < SearchStep(t)
    <2>1. TypeOK /\ RunningIsCurrent /\ state[gt_current] = "Running"
      BY <1>2 DEF SafeInv, RunningIsCurrent, TypeOK
    <2>2. /\ state \in [Threads -> {"Unused", "Running", "Ready", "Blocked"}]
          /\ gt_current \in Threads
      BY <2>1 DEF TypeOK
    <2>3. state = [state EXCEPT ![gt_current] = "Running"]
      BY <2>1, <2>2
    <2>4. \E s \in {"Running", "Blocked", "Unused"} :
             gt_schedule([state EXCEPT ![gt_current] = s])
      BY <1>2, <2>3
      DEF Next, gt_create, gt_alarm_handle, gt_sem_wait, SemTake, SemBlock, gt_sem_post,
          gt_return, WorkerReturn, FreeTraps, MainReturn, Stopped, vars
    <2>5. PICK st \in [Threads -> {"Unused", "Running", "Ready", "Blocked"}] :
             gt_schedule(st) /\ \A u \in ReadyIn(state) : st[u] = "Ready"
      BY <2>1, <2>2, <2>4 DEF ReadyIn
    <2> QED
      BY <1>1, <1>2, <2>1, <2>5
  <1>3. SafeInv /\ [Next]_vars =>
          [gt_current_scheduler = "RR" /\ gt_current' # gt_current =>
             \A t \in Threads :
                state[t] = "Ready" /\ state'[t] = "Ready" =>
                  SearchStep(t)' < SearchStep(t)]_vars
    BY <1>2
  <1> QED
    BY <1>3, Safety, PTL DEF Spec, RoundRobinProgress

-----------------------------------------------------------------------------
(* The semaphores of Gthr implement FifoSemaphore, for every number of     *)
(* threads and semaphores: each step of the library is one step of the     *)
(* abstract semaphores, or leaves them as they are.                        *)

permits == [s \in Sems |-> IF sem[s].value > 0 THEN sem[s].value ELSE 0]
waiting == [s \in Sems |-> RingContents(s)]
asleep == {t \in Threads : state[t] = "Blocked"}

-----------------------------------------------------------------------------
(* Place k of the queue is the slot k - 1 behind the head.                 *)
SlotOf(q, k) == IF q.head + k - 1 < MAX_BLOCKED_THREADS
                THEN q.head + k - 1
                ELSE q.head + k - 1 - MAX_BLOCKED_THREADS

LEMMA Places ==
    ASSUME NEW q \in SemRecords, Consistent(q), NEW k \in 1 .. q.wait_count
    PROVE  /\ (q.head + k - 1) % MAX_BLOCKED_THREADS = SlotOf(q, k)
           /\ SlotOf(q, k) \in WaitingSlots(q)
           /\ SlotOf(q, k) \in Slots
           /\ q.wait_queue[SlotOf(q, k)] \in Waiters(q)
  <1>1. /\ MAX_G_THREADS \in Nat \ {0}
        /\ q.head \in 0 .. MAX_G_THREADS - 1
        /\ q.wait_count \in 0 .. MAX_G_THREADS
        /\ k - 1 \in 0 .. MAX_G_THREADS - 1
        /\ k - 1 < q.wait_count
    BY SizesAssumption DEF SemRecords, Slots, MAX_BLOCKED_THREADS, Consistent
  <1>2. (q.head + (k - 1)) % MAX_G_THREADS = SlotOf(q, k)
    <2>1. k - 1 \in 0 .. MAX_G_THREADS
      BY <1>1
    <2>2. (q.head + (k - 1)) % MAX_G_THREADS
            = IF q.head + (k - 1) < MAX_G_THREADS THEN q.head + (k - 1)
              ELSE q.head + (k - 1) - MAX_G_THREADS
      BY <1>1, <2>1, WrapSum
    <2> QED
      BY <1>1, <2>2 DEF SlotOf, MAX_BLOCKED_THREADS
  <1>3. q.head + (k - 1) = q.head + k - 1
    BY <1>1
  <1>4. SlotOf(q, k) \in Slots /\ Distance(q, SlotOf(q, k)) = k - 1
    BY <1>1 DEF SlotOf, Distance, Slots, MAX_BLOCKED_THREADS
  <1>5. SlotOf(q, k) \in WaitingSlots(q)
    BY <1>1, <1>4 DEF WaitingSlots
  <1> QED
    BY <1>2, <1>3, <1>4, <1>5 DEF Waiters, MAX_BLOCKED_THREADS

(* The queue as a sequence.                                                *)
Contents(q) == [k \in 1 .. q.wait_count |->
                   q.wait_queue[(q.head + k - 1) % MAX_BLOCKED_THREADS]]

LEMMA ContentsType ==
    ASSUME NEW q \in SemRecords, Consistent(q), Waiters(q) \subseteq Threads
    PROVE  /\ Contents(q) \in Seq(Threads)
           /\ Len(Contents(q)) = q.wait_count
           /\ \A k \in 1 .. q.wait_count : Contents(q)[k] = q.wait_queue[SlotOf(q, k)]
  <1>1. q.wait_count \in Nat
    BY SizesAssumption DEF Consistent, MAX_BLOCKED_THREADS
  <1>2. \A k \in 1 .. q.wait_count :
           /\ q.wait_queue[(q.head + k - 1) % MAX_BLOCKED_THREADS] = q.wait_queue[SlotOf(q, k)]
           /\ q.wait_queue[SlotOf(q, k)] \in Threads
    BY Places
  <1>3. Contents(q) \in [1 .. q.wait_count -> Threads]
    BY <1>2 DEF Contents
  <1> QED
    BY <1>1, <1>2, <1>3 DEF Contents

(* gt_sem_wait appends to the queue, gt_sem_post takes its head.           *)
LEMMA EnqueueAppends ==
    ASSUME NEW q \in SemRecords, Consistent(q), Waiters(q) \subseteq Threads,
           NEW c \in Threads,
           NEW r \in SemRecords, Consistent(r), Waiters(r) \subseteq Threads,
           r.wait_queue = [q.wait_queue EXCEPT ![q.tail] = c],
           r.head = q.head,
           r.wait_count = q.wait_count + 1
    PROVE  Contents(r) = Append(Contents(q), c)
  <1> DEFINE n == q.wait_count
  <1>1. /\ MAX_G_THREADS \in Nat \ {0}
        /\ q.head \in 0 .. MAX_G_THREADS - 1
        /\ n \in 0 .. MAX_G_THREADS - 1
        /\ q.tail \in Slots
        /\ q.wait_queue \in [Slots -> Threads \cup {NoThread}]
    <2>1. r.wait_count \in 0 .. MAX_BLOCKED_THREADS /\ q.wait_count \in 0 .. MAX_BLOCKED_THREADS
      BY DEF Consistent
    <2> QED
      BY <2>1, SizesAssumption DEF SemRecords, Slots, MAX_BLOCKED_THREADS
  <1>2. /\ Contents(q) \in Seq(Threads) /\ Len(Contents(q)) = n
        /\ \A k \in 1 .. n : Contents(q)[k] = q.wait_queue[SlotOf(q, k)]
    BY ContentsType
  <1>3. /\ Contents(r) \in Seq(Threads) /\ Len(Contents(r)) = n + 1
        /\ \A k \in 1 .. n + 1 : Contents(r)[k] = r.wait_queue[SlotOf(r, k)]
    BY ContentsType
  <1>4. \A k \in 1 .. n + 1 : SlotOf(r, k) = SlotOf(q, k)
    BY DEF SlotOf
  <1>5. q.tail = SlotOf(q, n + 1)
    <2>1. q.tail = (q.head + n) % MAX_G_THREADS
      BY DEF Consistent, MAX_BLOCKED_THREADS
    <2>2. n \in 0 .. MAX_G_THREADS
      BY <1>1
    <2>3. (q.head + n) % MAX_G_THREADS
            = IF q.head + n < MAX_G_THREADS THEN q.head + n ELSE q.head + n - MAX_G_THREADS
      BY <1>1, <2>2, WrapSum
    <2> QED
      BY <1>1, <2>1, <2>3 DEF SlotOf, MAX_BLOCKED_THREADS
  <1>6. \A k \in 1 .. n : SlotOf(q, k) # q.tail /\ SlotOf(q, k) \in Slots
    <2> SUFFICES ASSUME NEW k \in 1 .. n
                 PROVE  SlotOf(q, k) # SlotOf(q, n + 1)
      BY <1>5, Places
    <2>1. k \in Int /\ k >= 1 /\ k <= n
      BY <1>1
    <2> HIDE DEF n
    <2> QED
      BY <1>1, <2>1 DEF SlotOf, MAX_BLOCKED_THREADS
  <1>7. \A k \in 1 .. n : Contents(r)[k] = Contents(q)[k]
    BY <1>1, <1>2, <1>3, <1>4, <1>6
  <1>8. Contents(r)[n + 1] = c
    BY <1>1, <1>3, <1>4, <1>5
  <1> HIDE DEF n
  <1>9. Append(Contents(q), c) \in Seq(Threads) /\ Len(Append(Contents(q), c)) = n + 1
    BY <1>2
  <1>10. \A k \in 1 .. n + 1 : Contents(r)[k] = Append(Contents(q), c)[k]
    BY <1>1, <1>2, <1>7, <1>8
  <1> QED
    BY <1>3, <1>9, <1>10

LEMMA SeqsEqual ==
    ASSUME NEW T, NEW s \in Seq(T), NEW t \in Seq(T), Len(s) = Len(t),
           \A k \in 1 .. Len(s) : s[k] = t[k]
    PROVE  s = t
  OBVIOUS

LEMMA DequeueTakesHead ==
    ASSUME NEW q \in SemRecords, Consistent(q), Waiters(q) \subseteq Threads,
           q.wait_count > 0,
           NEW r \in SemRecords, Consistent(r), Waiters(r) \subseteq Threads,
           r.wait_queue = q.wait_queue,
           r.head = NextSlot(q.head),
           r.wait_count = q.wait_count - 1
    PROVE  /\ Contents(q) # <<>>
           /\ Head(Contents(q)) = q.wait_queue[q.head]
           /\ Contents(r) = Tail(Contents(q))
  <1> DEFINE n == q.wait_count
  <1>1. /\ MAX_G_THREADS \in Nat \ {0}
        /\ q.head \in 0 .. MAX_G_THREADS - 1
        /\ n \in 1 .. MAX_G_THREADS
    BY SizesAssumption DEF SemRecords, Slots, MAX_BLOCKED_THREADS, Consistent
  <1>2. /\ Contents(q) \in Seq(Threads) /\ Len(Contents(q)) = n
        /\ \A k \in 1 .. n : Contents(q)[k] = q.wait_queue[SlotOf(q, k)]
    BY ContentsType
  <1>3. /\ Contents(r) \in Seq(Threads) /\ Len(Contents(r)) = n - 1
        /\ \A k \in 1 .. n - 1 : Contents(r)[k] = r.wait_queue[SlotOf(r, k)]
    BY ContentsType
  <1>4. r.head = IF q.head = MAX_G_THREADS - 1 THEN 0 ELSE q.head + 1
    BY <1>1, NextSlotStep DEF Slots, MAX_BLOCKED_THREADS
  <1>5. \A k \in 1 .. n - 1 : SlotOf(r, k) = SlotOf(q, k + 1)
    BY <1>1, <1>4 DEF SlotOf, MAX_BLOCKED_THREADS
  <1>6. SlotOf(q, 1) = q.head
    BY <1>1 DEF SlotOf, MAX_BLOCKED_THREADS
  <1> HIDE DEF n
  <1>7. Contents(q) # <<>> /\ Head(Contents(q)) = q.wait_queue[q.head]
    BY <1>1, <1>2, <1>6
  <1>8. /\ Tail(Contents(q)) \in Seq(Threads) /\ Len(Tail(Contents(q))) = n - 1
        /\ \A k \in 1 .. n - 1 : Tail(Contents(q))[k] = Contents(q)[k + 1]
    BY <1>1, <1>2, <1>7
  <1>9. ASSUME NEW k \in 1 .. n - 1
        PROVE  Contents(r)[k] = Tail(Contents(q))[k]
    <2>1. k + 1 \in 1 .. n
      BY <1>1
    <2> QED
      BY <2>1, <1>2, <1>3, <1>5, <1>8
  <1>10. Contents(r) = Tail(Contents(q))
    BY <1>3, <1>8, <1>9, SeqsEqual
  <1> QED
    BY <1>7, <1>10

-----------------------------------------------------------------------------
(* Steps of Gthr that touch no semaphore and wake or stop nobody.          *)
LEMMA Stutters ==
    ASSUME sem' = sem,
           \A t \in Threads : state'[t] = "Blocked" <=> state[t] = "Blocked"
    PROVE  UNCHANGED <<permits, waiting, asleep>>
  BY DEF permits, waiting, asleep, RingContents

LEMMA QueueContents ==
    ASSUME SafeInv, NEW s \in Sems
    PROVE  /\ sem[s] \in SemRecords /\ Consistent(sem[s])
           /\ Waiters(sem[s]) \subseteq Threads
           /\ waiting[s] = Contents(sem[s])
  BY DEF SafeInv, TypeOK, RingConsistent, BlockedIsQueued, waiting, RingContents, Contents

(* A step of semaphore s leaves the others as they are.                    *)
LEMMA OthersKeep ==
    ASSUME SafeInv, NEW s \in Sems,
           \A r \in Sems : r # s => sem'[r] = sem[r]
    PROVE  /\ permits' = [permits EXCEPT ![s] = IF sem'[s].value > 0 THEN sem'[s].value ELSE 0]
           /\ waiting' = [waiting EXCEPT ![s] = Contents(sem'[s])]
  BY DEF permits, waiting, RingContents, Contents

LEMMA TakeAcquires ==
    ASSUME SafeInv, SafeInv', NEW s \in Sems, SemTake(s)
    PROVE  Fifo!Acquire(s)
  <1>1. /\ sem' = [sem EXCEPT ![s].value = @ - 1] /\ sem[s].value > 0 /\ state' = state
    BY DEF SemTake
  <1>2. sem[s] \in SemRecords /\ sem \in [Sems -> SemRecords]
    BY DEF SafeInv, TypeOK
  <1>3. /\ sem'[s].value = sem[s].value - 1 /\ sem[s].value \in Int
        /\ sem'[s].wait_queue = sem[s].wait_queue
        /\ sem'[s].head = sem[s].head /\ sem'[s].wait_count = sem[s].wait_count
        /\ \A r \in Sems : r # s => sem'[r] = sem[r]
    BY <1>1, <1>2 DEF SemRecords
  <1>4. permits[s] = sem[s].value
    BY <1>1 DEF permits
  <1>5. (IF sem'[s].value > 0 THEN sem'[s].value ELSE 0) = permits[s] - 1
    BY <1>1, <1>3, <1>4
  <1>6. permits' = [permits EXCEPT ![s] = @ - 1]
    BY <1>3, <1>5, OthersKeep
  <1>7. waiting' = waiting
    <2>1. Contents(sem'[s]) = Contents(sem[s])
      BY <1>3 DEF Contents
    <2>2. waiting' = [waiting EXCEPT ![s] = Contents(sem'[s])]
      BY <1>3, OthersKeep
    <2>3. waiting[s] = Contents(sem[s])
      BY QueueContents
    <2> QED
      BY <2>1, <2>2, <2>3 DEF waiting
  <1>8. asleep' = asleep
    BY <1>1 DEF asleep
  <1> QED
    BY <1>1, <1>4, <1>6, <1>7, <1>8 DEF Fifo!Acquire, permits, waiting, asleep

LEMMA BlockSleeps ==
    ASSUME SafeInv, SafeInv', NEW s \in Sems, SemBlock(s)
    PROVE  Fifo!Sleep(s, gt_current)
  <1> DEFINE st == [state EXCEPT ![gt_current] = "Blocked"]
  <1>1. /\ sem' = [sem EXCEPT ![s].value = @ - 1,
                              ![s].wait_queue = [@ EXCEPT ![sem[s].tail] = gt_current],
                              ![s].tail = NextSlot(@),
                              ![s].wait_count = @ + 1]
        /\ WorkerRuns /\ sem[s].value <= 0 /\ gt_schedule(st)
    BY DEF SemBlock
  <1>2. /\ state[gt_current] = "Running" /\ state[Main] = "Ready" /\ Main \in Threads
        /\ gt_current # Main /\ gt_current \in Threads
    BY <1>1, MainIsReady DEF WorkerRuns
  <1>3. sem[s] \in SemRecords /\ sem \in [Sems -> SemRecords]
    BY DEF SafeInv, TypeOK
  <1>4. /\ sem'[s].value = sem[s].value - 1 /\ sem[s].value \in Int
        /\ sem'[s].wait_queue = [sem[s].wait_queue EXCEPT ![sem[s].tail] = gt_current]
        /\ sem'[s].head = sem[s].head /\ sem'[s].wait_count = sem[s].wait_count + 1
        /\ \A r \in Sems : r # s => sem'[r] = sem[r]
    BY <1>1, <1>3 DEF SemRecords
  <1>5. permits[s] = 0
    BY <1>1, <1>4 DEF permits
  <1>6. permits' = permits
    <2>1. permits' = [permits EXCEPT ![s] = IF sem'[s].value > 0 THEN sem'[s].value ELSE 0]
      BY <1>4, OthersKeep
    <2>2. (IF sem'[s].value > 0 THEN sem'[s].value ELSE 0) = 0
      BY <1>1, <1>4
    <2> QED
      BY <1>5, <2>1, <2>2 DEF permits
  <1>7. waiting' = [waiting EXCEPT ![s] = Append(@, gt_current)]
    <2>1. waiting' = [waiting EXCEPT ![s] = Contents(sem'[s])]
      BY <1>4, OthersKeep
    <2>2. /\ Consistent(sem[s]) /\ Waiters(sem[s]) \subseteq Threads
          /\ waiting[s] = Contents(sem[s])
      BY QueueContents
    <2>3. /\ sem'[s] \in SemRecords /\ Consistent(sem'[s])
          /\ Waiters(sem'[s]) \subseteq Threads
      BY DEF SafeInv, TypeOK, RingConsistent, BlockedIsQueued
    <2>4. Contents(sem'[s]) = Append(Contents(sem[s]), gt_current)
      BY <1>2, <1>3, <1>4, <2>2, <2>3, EnqueueAppends
    <2> QED
      BY <2>1, <2>2, <2>4 DEF waiting
  <1>8. asleep' = asleep \cup {gt_current} /\ gt_current \notin asleep
    <2>1. /\ st \in [Threads -> {"Unused", "Running", "Ready", "Blocked"}]
          /\ \A t \in Threads : st[t] = IF t = gt_current THEN "Blocked" ELSE state[t]
      BY DEF SafeInv, TypeOK
    <2> HIDE DEF st
    <2>2. \A t \in Threads : st[t] = "Running" => t = gt_current
      BY <2>1 DEF SafeInv, RunningIsCurrent
    <2>3. \A t \in Threads : st[t] # "Unused" => tickets[t] > 0
      BY <1>2, <2>1 DEF SafeInv, TicketsHeld
    <2>4. ReadyIn(st) # {}
      BY <1>2, <2>1 DEF ReadyIn
    <2>5. \A t \in Threads : state'[t] = "Blocked" <=> st[t] = "Blocked"
      BY <1>1, <2>1, <2>2, <2>3, <2>4, ScheduleEffect DEF SafeInv
    <2> QED
      BY <1>2, <2>1, <2>5 DEF asleep
  <1> QED
    BY <1>5, <1>6, <1>7, <1>8 DEF Fifo!Sleep, permits, waiting, asleep

LEMMA PostWakesOrReleases ==
    ASSUME SafeInv, SafeInv', NEW s \in Sems, gt_sem_post(s)
    PROVE  Fifo!Wake(s) \/ Fifo!Release(s)
  <1>1. sem[s] \in SemRecords /\ sem \in [Sems -> SemRecords]
    BY DEF SafeInv, TypeOK
  <1>2. /\ Consistent(sem[s]) /\ Waiters(sem[s]) \subseteq Threads
        /\ waiting[s] = Contents(sem[s])
    BY QueueContents
  <1>3. /\ sem'[s] \in SemRecords /\ Consistent(sem'[s])
        /\ Waiters(sem'[s]) \subseteq Threads
    BY DEF SafeInv, TypeOK, RingConsistent, BlockedIsQueued
  <1>4. CASE sem[s].value + 1 <= 0 /\ sem[s].wait_count > 0
    <2> DEFINE w == sem[s].wait_queue[sem[s].head]
    <2>1. /\ state' = [state EXCEPT ![w] = "Ready"]
          /\ sem' = [sem EXCEPT ![s].value = @ + 1,
                                ![s].head = NextSlot(@),
                                ![s].wait_count = @ - 1]
      BY <1>4 DEF gt_sem_post
    <2>2. /\ sem'[s].value = sem[s].value + 1 /\ sem[s].value \in Int
          /\ sem'[s].wait_queue = sem[s].wait_queue
          /\ sem'[s].head = NextSlot(sem[s].head)
          /\ sem'[s].wait_count = sem[s].wait_count - 1
          /\ \A r \in Sems : r # s => sem'[r] = sem[r]
      BY <1>1, <2>1 DEF SemRecords
    <2>3. /\ Contents(sem[s]) # <<>> /\ Head(Contents(sem[s])) = w
          /\ Contents(sem'[s]) = Tail(Contents(sem[s]))
      BY <1>1, <1>2, <1>3, <1>4, <2>2, DequeueTakesHead
    <2>4. w \in Threads
      BY <1>1, <1>2, <2>3, ContentsType
    <2> HIDE DEF w
    <2>5. waiting' = [waiting EXCEPT ![s] = Tail(@)]
      <3>1. waiting' = [waiting EXCEPT ![s] = Contents(sem'[s])]
        BY <2>2, OthersKeep
      <3> QED
        BY <1>2, <2>3, <3>1 DEF waiting
    <2>6. permits' = permits
      <3>1. permits' = [permits EXCEPT ![s] = IF sem'[s].value > 0 THEN sem'[s].value ELSE 0]
        BY <2>2, OthersKeep
      <3>2. (IF sem'[s].value > 0 THEN sem'[s].value ELSE 0)
              = (IF sem[s].value > 0 THEN sem[s].value ELSE 0)
        BY <1>4, <2>2
      <3> QED
        BY <3>1, <3>2 DEF permits
    <2>7. asleep' = asleep \ {w}
      BY <2>1, <2>4 DEF asleep, SafeInv, TypeOK
    <2> QED
      BY <1>2, <2>3, <2>5, <2>6, <2>7 DEF Fifo!Wake, permits, waiting, asleep
  <1>5. CASE ~(sem[s].value + 1 <= 0 /\ sem[s].wait_count > 0)
    <2>1. sem' = [sem EXCEPT ![s].value = @ + 1] /\ state' = state
      BY <1>5 DEF gt_sem_post
    <2>2. /\ sem'[s].value = sem[s].value + 1 /\ sem[s].value \in Int
          /\ sem'[s].wait_queue = sem[s].wait_queue
          /\ sem'[s].head = sem[s].head
          /\ sem'[s].wait_count = sem[s].wait_count
          /\ \A r \in Sems : r # s => sem'[r] = sem[r]
      BY <1>1, <2>1 DEF SemRecords
    <2>3. sem[s].value >= 0 /\ sem[s].wait_count = 0
      BY <1>2, <1>5, <2>2 DEF Consistent
    <2>4. waiting[s] = <<>>
      <3>1. Contents(sem[s]) \in Seq(Threads) /\ Len(Contents(sem[s])) = 0
        BY <1>1, <1>2, <2>3, ContentsType
      <3> QED
        BY <1>2, <3>1
    <2>5. waiting' = waiting
      <3>1. waiting' = [waiting EXCEPT ![s] = Contents(sem'[s])]
        BY <2>2, OthersKeep
      <3>2. Contents(sem'[s]) = Contents(sem[s])
        BY <2>2 DEF Contents
      <3> QED
        BY <1>2, <3>1, <3>2 DEF waiting
    <2>6. permits' = [permits EXCEPT ![s] = @ + 1]
      <3>1. permits' = [permits EXCEPT ![s] = IF sem'[s].value > 0 THEN sem'[s].value ELSE 0]
        BY <2>2, OthersKeep
      <3>2. (IF sem'[s].value > 0 THEN sem'[s].value ELSE 0) = permits[s] + 1
        BY <2>2, <2>3 DEF permits
      <3> QED
        BY <3>1, <3>2
    <2>7. asleep' = asleep
      BY <2>1 DEF asleep
    <2> QED
      BY <2>4, <2>5, <2>6, <2>7 DEF Fifo!Release, permits, waiting, asleep
  <1> QED
    BY <1>4, <1>5

(* The other steps wake nobody and put nobody to sleep.                    *)
LEMMA OthersStutter ==
    ASSUME SafeInv,
           \/ gt_create \/ gt_alarm_handle \/ WorkerReturn \/ FreeTraps \/ MainReturn
           \/ UNCHANGED vars
    PROVE  UNCHANGED <<permits, waiting, asleep>>
  <1>0. /\ state \in [Threads -> {"Unused", "Running", "Ready", "Blocked"}]
        /\ gt_current \in Threads /\ Main \in Threads /\ TypeOK
        /\ \A t \in Threads : state[t] = "Running" => t = gt_current
        /\ \A t \in Threads : state[t] # "Unused" => tickets[t] > 0
    BY SizesAssumption
    DEF SafeInv, TypeOK, RunningIsCurrent, TicketsHeld, Main, Threads
  <1>1. CASE gt_create
    <2>1. PICK t \in FreeSlots : state' = [state EXCEPT ![t] = "Ready"]
      BY <1>1 DEF gt_create
    <2>2. sem' = sem
      BY <1>1 DEF gt_create
    <2> QED
      BY <1>0, <2>1, <2>2, Stutters DEF FreeSlots
  <1>2. CASE gt_alarm_handle \/ MainReturn
    <2>1. gt_schedule(state) /\ sem' = sem
      BY <1>2 DEF gt_alarm_handle, MainReturn
    <2>2. state[gt_current] = "Running"
      BY <1>0 DEF SafeInv, RunningIsCurrent
    <2>3. \A t \in Threads : state'[t] = "Blocked" <=> state[t] = "Blocked"
      BY <1>0, <2>1, <2>2, ScheduleEffect
    <2> QED
      BY <2>1, <2>3, Stutters
  <1>3. CASE WorkerReturn
    <2> DEFINE st == [state EXCEPT ![gt_current] = "Unused"]
    <2>1. gt_schedule(st) /\ sem' = sem /\ WorkerRuns
      BY <1>3 DEF WorkerReturn
    <2>2. state[gt_current] = "Running" /\ state[Main] = "Ready" /\ gt_current # Main
      BY <2>1, MainIsReady DEF WorkerRuns
    <2>3. /\ st \in [Threads -> {"Unused", "Running", "Ready", "Blocked"}]
          /\ \A t \in Threads : st[t] = IF t = gt_current THEN "Unused" ELSE state[t]
      BY <1>0
    <2> HIDE DEF st
    <2>4. ReadyIn(st) # {}
      BY <1>0, <2>2, <2>3 DEF ReadyIn
    <2>5. \A t \in Threads : state'[t] = "Blocked" <=> st[t] = "Blocked"
      BY <1>0, <2>1, <2>3, <2>4, ScheduleEffect
    <2> QED
      BY <2>1, <2>2, <2>3, <2>5, Stutters
  <1>4. CASE FreeTraps \/ UNCHANGED vars
    <2>1. sem' = sem /\ state' = state
      BY <1>4 DEF FreeTraps, vars
    <2> QED
      BY <2>1, Stutters
  <1> QED
    BY <1>1, <1>2, <1>3, <1>4

(* The semaphores keep what gthr.h:32 promises, a FIFO queue of sleeping   *)
(* threads and permits that are never negative, whatever the threads and   *)
(* the alarm do between library calls, for every number of both.           *)
THEOREM SemaphoresAreFifo == Spec => ImplementsFifo
  <1>1. Init => Fifo!Init
    <2> SUFFICES ASSUME Init
                 PROVE  Fifo!Init
      OBVIOUS
    <2>1. \A s \in Sems : /\ sem[s].value = InitialValue[s]
                          /\ InitialValue[s] \in Nat
                          /\ sem[s].wait_count = 0
      BY ClientsAssumption DEF Init, gt_sem_init
    <2>2. permits = InitialValue
      <3>1. \A s \in Sems : (IF sem[s].value > 0 THEN sem[s].value ELSE 0) = InitialValue[s]
        BY <2>1
      <3> QED
        BY <3>1, ClientsAssumption DEF permits
    <2>3. waiting = [s \in Sems |-> <<>>]
      <3>1. \A s \in Sems : RingContents(s) = <<>>
        BY <2>1 DEF RingContents
      <3> QED
        BY <3>1 DEF waiting
    <2>4. asleep = {}
      BY DEF asleep, Init, gt_init
    <2> QED
      BY <2>2, <2>3, <2>4 DEF Fifo!Init, permits, waiting, asleep
  <1>2. SafeInv /\ SafeInv' /\ [Next]_vars => [Fifo!Next]_<<permits, waiting, asleep>>
    <2> SUFFICES ASSUME SafeInv, SafeInv', [Next]_vars
                 PROVE  Fifo!Next \/ UNCHANGED <<permits, waiting, asleep>>
      OBVIOUS
    <2>1. ASSUME NEW s \in Sems, SemTake(s)
          PROVE  Fifo!Next
      BY <2>1, TakeAcquires DEF Fifo!Next
    <2>2. ASSUME NEW s \in Sems, SemBlock(s)
          PROVE  Fifo!Next
      <3>1. gt_current \in Threads
        BY DEF SafeInv, TypeOK
      <3>2. Fifo!Sleep(s, gt_current)
        BY <2>2, BlockSleeps
      <3> QED
        BY <3>1, <3>2, <2>2 DEF Fifo!Next, Fifo!Sleep
    <2>3. ASSUME NEW s \in Sems, gt_sem_post(s)
          PROVE  Fifo!Next
      BY <2>3, PostWakesOrReleases DEF Fifo!Next
    <2>4. CASE \/ gt_create \/ gt_alarm_handle \/ gt_return \/ Stopped \/ UNCHANGED vars
      BY <2>4, OthersStutter DEF gt_return, Stopped
    <2> QED
      BY <2>1, <2>2, <2>3, <2>4 DEF Next, gt_sem_wait
  <1> QED
    BY <1>1, <1>2, Safety, PTL
    DEF Spec, ImplementsFifo, Fifo!Spec, permits, waiting, asleep

=============================================================================
